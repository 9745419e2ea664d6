---------------------------- MODULE MCSimulator -----------------------------
(***************************************************************************)
(* Bounds for model checking Simulator.                                    *)
(***************************************************************************)
EXTENDS Simulator

CONSTANTS First,   \* the member that is the first to start an election, and
          Second   \* the next to start one of its own; any, by symmetry

VARIABLE budget   \* what may still happen of each kind

mcVars == <<simVars, budget>>

Plenty == 99   \* a budget that is not counted

(* elections, tries, faults, and whether "recover-all" comes; mishaps:       *)
(* messages lost, duplicated or late, clients that give up; busy: messages   *)
(* under way when one is sent (not spent)                                    *)
Budget(elections, tries, mishaps, faults, recovers, busy) ==
  [elections |-> elections, tries |-> tries, mishaps |-> mishaps, faults |-> faults,
   recovers |-> recovers, busy |-> busy]

Budgets == {Budget(2, Plenty, 0, 0, 1, 1),   \* two leaders, then recovery
            Budget(1, Plenty, 1, 0, 1, 1),   \* a mishap, then recovery
            Budget(1, Plenty, 0, 2, 1, 1),   \* two faults, then recovery
            Budget(2, 0, 0, 1, 1, 1),        \* two leaders, a fault, recovery
            Budget(3, 0, 1, 0, 0, 1)}        \* three leaders and a mishap

Spend(kind) ==
  \/ budget[kind] = Plenty /\ UNCHANGED budget
  \/ /\ budget[kind] \in 1 .. Plenty - 1
     /\ budget' = [budget EXCEPT ![kind] = @ - 1]

Free(A) == A /\ UNCHANGED budget

Live(r) == \/ r.req.type = "append"
           \/ r.term > Disk(r.req.from).term
           \/ Current(nodes[r.req.from], r) /\ r.ok

Quiet == Cardinality(wire) + Cardinality({r \in replies : Live(r)}) < budget.busy

(* Leader i has entries to send to j, or news of a commit. *)
News(i, j) == \/ nodes[i].next[j] <= LastIndex(Disk(i))
              \/ Disk(j).commit < Disk(i).commit

(* Nothing but the timeout can end this call. *)
Abandoned(m) == m \notin wire /\ \A r \in replies : r.req # m

MCInit == SimInit /\ budget \in Budgets

Ran(i) == \E b \in nodes[i].ballots : b[2] = i

Ticks == \E i \in Node : /\ i = First \/ Ran(First)
                         /\ i \in {First, Second} \/ Ran(Second)
                         /\ SimTick(i)

(* The fate of a message at its arrival, and of a call at its end. *)
Arrives(m) ==
  \/ Deliver(m)
  \/ Blocked(m) /\ DropMessage(m)
  \/ nodes[m.to].mode = "down" /\ DropMessage(m)
Returns(r) ==
  \/ Live(r) /\ Respond(r)
  \/ Blocked(r.req) /\ DropResponse(r)

Mishaps ==
  \/ \E m \in wire : DeliverAgain(m) \/ DropMessage(m)
  \/ \E r \in replies : DropResponse(r)
  \/ \E c \in Cmd : GiveUp(c)
  \/ \E m \in calls : ~Abandoned(m) /\ RpcTimeout(m)

MCNext ==
  \/ Quiet /\ Spend("elections") /\ Ticks
  \/ Spend("faults") /\ \E i \in Node : Fault(i)
  \/ Spend("mishaps") /\ Mishaps
  \/ Spend("recovers") /\ RecoverAll
  \/ Spend("tries") /\ \E c \in Cmd : Try(c)
  \/ Free(\/ \E i, j \in Node : Quiet /\ News(i, j) /\ SimReplicate(i, j)
          \/ \E m \in wire : Arrives(m)
          \/ \E r \in replies : Returns(r)
          \/ \E m \in calls : m.type = "append" /\ Abandoned(m) /\ RpcTimeout(m)
          \/ Heal)

(* The same steps, told apart by what they do, once all faults have ended. *)
Sends ==
  \E i, j \in Node :
    /\ healed /\ Quiet /\ i # j /\ News(i, j) /\ Leads(i)
    /\ \A m \in calls : ~(m.type = "append" /\ m.from = i /\ m.to = j)
    /\ calls' = calls \cup {AppendTo(nodes[i], i, j)}
Takes == \E m \in wire : healed /\ wire' = wire \ {m}
Hears ==
  \E m \in calls : /\ healed
                   /\ \/ m.type = "append" /\ Abandoned(m)
                      \/ \E r \in replies : r.req = m /\ Live(r)
                   /\ calls' = calls \ {m}
Tries ==
  \E c \in Cmd, i \in Node :
    /\ healed /\ ~ops[c].done /\ ops[c].at = Nil /\ Best(i)
    /\ ops' = [ops EXCEPT ![c] = Ticket(i, c)]

(* Every event that has been scheduled is taken from the queue in the end. *)
MCSimSpec ==
  /\ MCInit /\ [][MCNext]_mcVars
  /\ WF_calls(Sends) /\ WF_wire(Takes) /\ WF_calls(Hears) /\ WF_ops(Tries)
=============================================================================
