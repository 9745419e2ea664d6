------------------------------ MODULE MCFixed -------------------------------
(***************************************************************************)
(* The fixed-leader mode under fairness.                                   *)
(***************************************************************************)
EXTENDS MCRaft

(* The steps between i and j, told apart by what they do to the network. *)
Sends(i, j) ==
  /\ News(i, j) /\ i # j /\ Available(nodes[i]) /\ nodes[i].role = "leader"
  /\ \A m \in calls : ~(m.type = "append" /\ m.from = i /\ m.to = j)
  /\ calls' = calls \cup {AppendTo(nodes[i], i, j)}
Takes(i, j) ==
  /\ Available(nodes[j])
  /\ \E m \in wire : m.from = i /\ m.to = j /\ wire' = wire \ {m}
Hears(i, j) ==
  \E m \in calls : /\ m.from = i /\ m.to = j
                   /\ m \notin wire
                   /\ calls' = calls \ {m}
(* Replicators and servers keep running, a call ends with an answer or with  *)
(* RPCTimeout, and a node that is down or paused is brought back.            *)
FairSpec == /\ MCSpec
            /\ \A i \in Node : []<>(nodes[i].mode = "up")
            /\ \A j \in Node : /\ WF_calls(Sends(FixedLeader, j))
                               /\ WF_wire(Takes(FixedLeader, j))
                               /\ WF_calls(Hears(FixedLeader, j))

(* submitLocked, the replicators and AppendEntries: once outages end, every   *)
(* entry the fixed leader accepted is committed on every member, those it     *)
(* inherited from its earlier terms included.                                 *)
AllCommitted ==
  <>[](\A j \in Node : /\ FullLog(Disk(j)) = FullLog(Disk(FixedLeader))
                       /\ Disk(j).commit = LastIndex(Disk(j)))
=============================================================================
