------------------------------ MODULE Simulator ------------------------------
(***************************************************************************)
(* The deterministic simulator: internal/simulation/simulation.go.         *)
(*                                                                         *)
(* Its loop takes one event after the other from a queue, and after each   *)
(* one collects the outcomes of the clients' operations and audits every   *)
(* node against what it remembers of all earlier events.  Here an event is *)
(* a step of Raft, and Audited is what follows it in the same step.        *)
(*                                                                         *)
(* Virtual time is left out: events come in any order.  A "tick" event,    *)
(* which ticks the nodes and retries the operations one by one, is one     *)
(* step for each of them, with an audit after each.  So is the sending of  *)
(* an append request, which drain does after the event that asked for it;  *)
(* send's choice to drop it is made at its arrival.  A node whose journal  *)
(* failed by a "disk-before" or "disk-after" fault is down in Raft: it     *)
(* takes no part until it is restarted, and the audit has seen its memory  *)
(* already.  That it still exists, and may be paused too, is in poisoned.  *)
(***************************************************************************)
EXTENDS RaftLedger

VARIABLES
  isolated,  \* runner.isolated
  poisoned,  \* poisoned[i]: "yes" if i exists and its journal has failed,
             \* "paused" if it was paused after that
  ops,       \* runner.ops: one operation per command
  healed,    \* "recover-all" has run: no faults and no losses from now on,
             \* but duplicates
  memory,    \* what check remembers
  err        \* runner.err # nil: the run has failed and ends

simVars == <<nodes, wire, calls, replies, isolated, poisoned, ops, healed, memory, err>>

-----------------------------------------------------------------------------
(* What follows an event.                                                   *)

Idle == [at |-> Nil, waiter |-> Nil, done |-> FALSE]

(* Ticket.Poll: the client is answered, or the node has dropped it. *)
Answered(ns, o) ==
  \E a \in ns[o.at].answered :
    <<a.index, a.cmd, a.before>> = <<o.waiter.index, o.waiter.cmd, o.waiter.before>>
Dropped(ns, o) == o.waiter \notin ns[o.at].pending /\ ~Answered(ns, o)

(* collect, over the nodes ns. *)
Collected(ns, os) ==
  [c \in Cmd |-> LET o == os[c]
                 IN  IF o.at = Nil THEN o
                     ELSE IF Answered(ns, o) THEN [Idle EXCEPT !.done = TRUE]
                     ELSE IF Dropped(ns, o) THEN Idle
                     ELSE o]

(* The error of collect: an answer before the commit, or one that applied no *)
(* command.                                                                  *)
EarlyAck(ns, os) ==
  \E c \in Cmd :
    /\ os[c].at # Nil /\ Answered(ns, os[c])
    /\ LET n == ns[os[c].at]
           w == os[c].waiter
       IN  \/ n.disk.commit < w.index
           \/ \E a \in n.answered : a.index = w.index /\ a.before = w.before
                                    /\ a.entry.cmd = Barrier

(* The nodes check looks at: all that exist. *)
Seen(ns) == {i \in Node : ns[i].mode # "down"}

(* Mutant: an entry counts as committed since its own term. *)
CommittedSinceEntry(ns, k) ==
  Min({EntryAt(ns[i].disk, k).term : i \in {i \in Seen(ns) : ns[i].disk.commit >= k}})

(* The term of the node on which the audit first sees index k committed.     *)
(* check takes the nodes in order; of several that show k at once, which     *)
(* takes "recover-all", the least term makes the strictest audit.            *)
CommittedSince(ns, k) ==
  Min({ns[i].disk.term : i \in {i \in Seen(ns) : ns[i].disk.commit >= k}})

(* The maps of check, extended by what the nodes ns show.  A chain is the    *)
(* log up to an entry, which check represents by a hash.                     *)
Remembered(m, ns) ==
  LET known == {c[1] : c \in m.committed}
      log(i) == FullLog(ns[i].disk)
  IN  [commit  |-> [i \in Node |-> IF i \in Seen(ns) THEN ns[i].disk.commit
                                                     ELSE m.commit[i]],
       applied |-> [i \in Node |-> IF i \in Seen(ns) THEN ns[i].applied
                                                     ELSE m.applied[i]],
       votes   |-> m.votes \cup {<<i, ns[i].disk.term, ns[i].disk.vote>> :
                                   i \in {i \in Seen(ns) : ns[i].disk.vote # Nil}},
       leaders |-> m.leaders \cup {<<ns[i].disk.term, i>> :
                                     i \in {i \in Seen(ns) : ns[i].role = "leader"}},
       chains  |-> m.chains \cup UNION {{SubSeq(log(i), 1, k) : k \in 1 .. Len(log(i))} :
                                          i \in Seen(ns)},
       committed |-> m.committed \cup
         UNION {{<<k, log(i)[k], CommittedSince(ns, k)>> :
                   k \in 1 .. ns[i].disk.commit \ known} : i \in Seen(ns)}]

(* The errors of check, for the memory m before and r after the event. *)
Backwards(m, r, ns) ==
  \E i \in Seen(ns) : \/ r.commit[i] < m.commit[i] \/ r.applied[i] < m.applied[i]
                      \/ r.applied[i] > r.commit[i]
TwoVotes(r) == \E v, w \in r.votes : v[1] = w[1] /\ v[2] = w[2] /\ v[3] # w[3]
TwoLeaders(r) == \E l, k \in r.leaders : l[1] = k[1] /\ l[2] # k[2]
LogsDiffer(r) ==
  \E s, t \in r.chains : Len(s) = Len(t) /\ Last(s).term = Last(t).term /\ s # t
CommitChanged(r, ns) ==
  \E i \in Seen(ns) : \E c \in r.committed :
    c[1] <= ns[i].disk.commit /\ FullLog(ns[i].disk)[c[1]] # c[2]
CommitLost(r, ns) ==
  \E i \in Seen(ns) : \E c \in r.committed :
    LET log == FullLog(ns[i].disk)
    IN  /\ ns[i].role = "leader" /\ ns[i].disk.term >= c[3]
        /\ Len(log) < c[1] \/ log[c[1]] # c[2]

(* collect and check, after an event that left the operations as os. *)
Audited(os) ==
  /\ ops' = Collected(nodes', os)
  /\ memory' = Remembered(memory, nodes')
  /\ err' = \/ EarlyAck(nodes', os) \/ Backwards(memory, memory', nodes')
            \/ TwoVotes(memory') \/ TwoLeaders(memory') \/ LogsDiffer(memory')
            \/ CommitChanged(memory', nodes') \/ CommitLost(memory', nodes')

(* One round of the loop, with an event that is a step A of Raft. *)
Event(A) == ~err /\ A /\ Audited(ops)

-----------------------------------------------------------------------------
(* Messages: send and its closures.                                         *)

Blocked(m) == m.from \in isolated \/ m.to \in isolated

SimTick(i) == Event(Tick(i)) /\ UNCHANGED <<isolated, poisoned, healed>>
SimReplicate(i, j) == Event(Replicate(i, j)) /\ UNCHANGED <<isolated, poisoned, healed>>

(* "message" and "duplicate-message": nothing happens behind a partition. *)
Deliver(m) == ~Blocked(m) /\ Event(Arrive(m)) /\ UNCHANGED <<isolated, poisoned, healed>>
DeliverAgain(m) ==
  /\ ~Blocked(m)
  /\ Event(Duplicate(m)) /\ UNCHANGED <<isolated, poisoned, healed>>

(* Dropped when sent, or at a node that is isolated or does not exist. *)
DropMessage(m) ==
  /\ ~healed
  /\ Event(Lose(m)) /\ UNCHANGED <<isolated, poisoned, healed>>

(* "response", unless it is dropped, or stopped by a partition. *)
Respond(r) == ~Blocked(r.req) /\ Event(React(r)) /\ UNCHANGED <<isolated, poisoned, healed>>
DropResponse(r) ==
  /\ ~healed
  /\ Event(replies' = replies \ {r} /\ UNCHANGED <<nodes, wire, calls>>)
  /\ UNCHANGED <<isolated, poisoned, healed>>

RpcTimeout(m) == Event(Timeout(m)) /\ UNCHANGED <<isolated, poisoned, healed>>

-----------------------------------------------------------------------------
(* Clients.                                                                 *)

Leads(i) == Available(nodes[i]) /\ nodes[i].role = "leader"

(* try: the healthy leader of the highest term gets the operation. *)
Best(i) == Leads(i) /\ \A j \in Node : Leads(j) => Disk(j).term <= Disk(i).term

Ticket(i, c) ==
  [at |-> i, done |-> FALSE,
   waiter |-> [index |-> LastIndex(Disk(i)) + 1, cmd |-> c,
               before |-> {a.index : a \in Answers}]]

Try(c) ==
  /\ ~err /\ ops[c].at = Nil /\ ~ops[c].done
  /\ \E i \in Node : /\ Best(i) /\ Submit(i, c)
                     /\ Audited([ops EXCEPT ![c] = Ticket(i, c)])
  /\ UNCHANGED <<isolated, poisoned, healed>>

(* "client-timeout" *)
GiveUp(c) ==
  /\ ~err /\ ops[c].at # Nil
  /\ Cancel(ops[c].at, ops[c].waiter)
  /\ Audited([ops EXCEPT ![c] = Idle])
  /\ UNCHANGED <<isolated, poisoned, healed>>

-----------------------------------------------------------------------------
(* Faults, and their end.                                                   *)

(* start: the node is closed, if it exists, and opened from its journal. *)
Restart(i) ==
  /\ nodes' = [nodes EXCEPT ![i] = Opened(@, i)]
  /\ calls' = {m \in calls : m.from # i}
  /\ replies' = {r \in replies : r.req.from # i}
  /\ UNCHANGED wire

Becomes(i, p) == poisoned' = [poisoned EXCEPT ![i] = p]

(* "disk-before", "disk-after": the journal fails at the node's next write,  *)
(* before it, which leaves the store as with a crash, or after it, which may *)
(* leave half of a handler's work.                                           *)
DiskFault(i) ==
  /\ Available(nodes[i])
  /\ Event(Stop(i) \/ Die(i)) /\ Becomes(i, "yes")

(* "pause" and "resume" of a node, which may have a poisoned journal. *)
SetPaused(i) ==
  \/ Event(Pause(i) \/ Resume(i)) /\ UNCHANGED poisoned
  \/ poisoned[i] = "yes" /\ Event(UNCHANGED vars) /\ Becomes(i, "paused")
  \/ poisoned[i] = "paused" /\ Event(UNCHANGED vars) /\ Becomes(i, "yes")

(* "crash" and "restart" replace the node. *)
Replace(i) ==
  \/ Event(Stop(i) \/ Restart(i)) /\ Becomes(i, "no")
  \/ poisoned[i] # "no" /\ Event(UNCHANGED vars) /\ Becomes(i, "no")

Fault(i) ==
  /\ ~healed
  /\ \/ (DiskFault(i) \/ SetPaused(i) \/ Replace(i)) /\ UNCHANGED isolated
     \/ Event(UNCHANGED vars) /\ isolated' = isolated \cup {i} /\ UNCHANGED poisoned
  /\ UNCHANGED healed

Heal ==
  /\ ~healed /\ isolated # {}
  /\ Event(UNCHANGED vars) /\ isolated' = {}
  /\ UNCHANGED <<poisoned, healed>>

Gone(n) == n.mode = "down" \/ n.failed

(* Mutant: the health of a paused node is not looked at. *)
RecoveredTrustsPaused(n, i) ==
  IF Gone(n) THEN IF poisoned[i] = "paused" THEN n ELSE Opened(n, i)
  ELSE [n EXCEPT !.mode = "up"]

(* A paused node is resumed; then a node that is gone, or whose journal is   *)
(* poisoned, is restarted.                                                   *)
Recovered(n, i) ==
  IF Gone(n) THEN Opened(n, i) ELSE [n EXCEPT !.mode = "up"]

(* "recover-all" *)
RecoverAll ==
  /\ ~healed
  /\ Event(/\ nodes' = [i \in Node |-> Recovered(nodes[i], i)]
           /\ calls' = {m \in calls : ~Gone(nodes[m.from])}
           /\ replies' = {r \in replies : ~Gone(nodes[r.req.from])}
           /\ UNCHANGED wire)
  /\ isolated' = {} /\ poisoned' = [i \in Node |-> "no"] /\ healed' = TRUE

(* converged: the digest of a machine stands for the entries applied. *)
Converged ==
  \A i, j \in Node : /\ Available(nodes[i])
                     /\ Disk(i).commit = LastIndex(Disk(i))
                     /\ nodes[i].machine = nodes[j].machine

-----------------------------------------------------------------------------
SimInit ==
  /\ nodes = [i \in Node |-> Opened(NewNode, i)]
  /\ wire = {} /\ calls = {} /\ replies = {}
  /\ isolated = {} /\ poisoned = [i \in Node |-> "no"] /\ healed = FALSE /\ err = FALSE
  /\ ops = [c \in Cmd |-> Idle]
  /\ memory = [commit |-> [i \in Node |-> 0], applied |-> [i \in Node |-> 0],
               votes |-> {}, leaders |-> {}, chains |-> {}, committed |-> {}]

SimNext ==
  \/ \E i \in Node : SimTick(i) \/ Fault(i)
  \/ \E i, j \in Node : SimReplicate(i, j)
  \/ \E m \in wire : Deliver(m) \/ DeliverAgain(m) \/ DropMessage(m)
  \/ \E r \in replies : Respond(r) \/ DropResponse(r)
  \/ \E m \in calls : RpcTimeout(m)
  \/ \E c \in Cmd : Try(c) \/ GiveUp(c)
  \/ Heal \/ RecoverAll

SimSpec == SimInit /\ [][SimNext]_simVars

-----------------------------------------------------------------------------
(* collect and check report no error, whatever the schedule of messages,     *)
(* clients and faults: Raft satisfies the audit, and the audit, which knows  *)
(* only what nodes that exist show between two events, raises no false       *)
(* alarm over a deposed leader or a commit that a restart brings to light.   *)
AuditPasses == ~err

(* Some node leads and no other has seen a later term. *)
InOffice == \E i \in Node : Leads(i) /\ \A j \in Node : Disk(j).term <= Disk(i).term

(* Run ends with Passed: once "recover-all" has run and a leader stays in    *)
(* office, every operation is acknowledged and the nodes converge.           *)
RunPasses == <>[](healed /\ InOffice) => <>(Converged /\ \A c \in Cmd : ops[c].done)
=============================================================================
