---------------------------- MODULE MCPartitions ----------------------------
(***************************************************************************)
(* Raft under a schedule of network partitions.  A phase opens some links  *)
(* (both ways, for requests and answers) and starts with one event: an     *)
(* election timeout, a client operation, or just the change of links.      *)
(* Within a phase everything the open links allow happens in any order;    *)
(* a phase may end whenever nothing is under way on an open link.          *)
(***************************************************************************)
EXTENDS Raft

CONSTANT Schedule   \* sequence of [event, who, links]

VARIABLE phase

pVars == <<nodes, wire, calls, replies, phase>>

Linked(i, j) == phase > 0 /\ \E l \in Schedule[phase].links : l = {i, j}

PInit == /\ nodes = [i \in Node |-> Opened(NewNode, i)]
         /\ wire = {} /\ calls = {} /\ replies = {}
         /\ phase = 0

NextPhase ==
  /\ phase < Len(Schedule)
  /\ \A m \in wire : ~Linked(m.from, m.to)
  /\ \A r \in replies : ~Linked(r.req.from, r.req.to)
  /\ phase' = phase + 1
  /\ LET s == Schedule[phase + 1]
     IN  \/ s.event = "tick" /\ Tick(s.who)
         \/ s.event = "submit" /\ \E c \in Cmd : Submit(s.who, c)
         \/ s.event = "links" /\ UNCHANGED vars

(* Leader i has entries to send to j, or news of a commit: without either a  *)
(* heartbeat changes nothing.                                                *)
News(i, j) == \/ nodes[i].next[j] <= LastIndex(Disk(i))
              \/ Disk(j).commit < Disk(i).commit

(* What one link does.  A phase ends when its calls have ended, so no call   *)
(* is left to time out.                                                      *)
OnLink(i, j) ==
  /\ Linked(i, j)
  /\ \/ News(i, j) /\ Replicate(i, j)
     \/ \E m \in wire : m.from = i /\ m.to = j /\ Arrive(m)
     \/ \E r \in replies : r.req.from = i /\ r.req.to = j /\ React(r)
  /\ UNCHANGED phase

PNext == NextPhase \/ \E i, j \in Node : OnLink(i, j)

PSpec == PInit /\ [][PNext]_pVars

(* The steps OnLink(i, j) takes, told apart by what they do to the network. *)
Sends(i, j) ==
  /\ Linked(i, j) /\ News(i, j) /\ i # j
  /\ Available(nodes[i]) /\ nodes[i].role = "leader"
  /\ \A m \in calls : ~(m.type = "append" /\ m.from = i /\ m.to = j)
  /\ calls' = calls \cup {AppendTo(nodes[i], i, j)}
Takes(i, j) ==
  /\ Linked(i, j) /\ Available(nodes[j])
  /\ \E m \in wire : m.from = i /\ m.to = j /\ wire' = wire \ {m}
Hears(i, j) ==
  /\ Linked(i, j)
  /\ \E r \in replies : /\ r.req.from = i /\ r.req.to = j
                        /\ calls' = calls \ {r.req}

(* The replicator of each pair and the server of each node keep running, and *)
(* heartbeats wake the replicator: goroutines of live nodes.                 *)
PFairSpec == /\ PSpec
             /\ \A i, j \in Node : /\ WF_calls(Sends(i, j))
                                   /\ WF_wire(Takes(i, j))
                                   /\ WF_calls(Hears(i, j))

(* AppendEntries and acceptAppendLocked repair every log: a follower that    *)
(* stays connected to a leader that stays in office ends with its log.       *)
CatchesUp ==
  \A i, j \in Node :
    <>[](Linked(i, j) /\ nodes[i].role = "leader") =>
      <>[](FullLog(Disk(i)) = FullLog(Disk(j)) /\ Disk(i).commit = Disk(j).commit)
=============================================================================
