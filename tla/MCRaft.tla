------------------------------- MODULE MCRaft -------------------------------
(***************************************************************************)
(* Bounds for model checking Raft.  Each bound is a guard on an action of  *)
(* Raft.  A behaviour begins with one of a few budgets, each of which lets *)
(* one part of the system act at length.                                   *)
(***************************************************************************)
EXTENDS RaftLedger, TLC

CONSTANT Budgets   \* what may happen: one of the sets defined below

VARIABLE budget    \* what may still happen of each kind

mcVars == <<nodes, wire, calls, replies, budget>>

Plenty == 99   \* a budget that is not counted

(* elections: elections started, or terms of a fixed leader                  *)
(* appends:   append requests sent                                           *)
(* submits:   client operations accepted                                     *)
(* mishaps:   requests lost or duplicated, calls given up early, heartbeats  *)
(*            without news, clients that give up                             *)
(* outages:   pauses, stops, and deaths in the middle of a handler           *)
(* busy:      requests and answers under way when one is sent (not spent)    *)
Budget(elections, appends, submits, mishaps, outages, busy) ==
  [elections |-> elections, appends |-> appends, submits |-> submits,
   mishaps |-> mishaps, outages |-> outages, busy |-> busy]

ElectionBudgets == {Budget(3, 1, 0, 0, 1, 9),       \* terms, votes and restarts
                    Budget(4, Plenty, 0, 0, 0, 1)}  \* four leaders
ServiceBudgets == {Budget(2, Plenty, 1, 2, 0, 1),   \* a bad network
                   Budget(2, Plenty, 2, 0, 0, 1),   \* two clients
                   Budget(2, 3, 2, 0, 0, 2)}        \* and two requests at a time
FixedLeaderBudgets == {Budget(2, Plenty, 1, 1, 1, 9)}
InspectBudgets == {Budget(2, Plenty, 1, 0, 1, 1)}

Spend(kind) ==
  \/ budget[kind] = Plenty /\ UNCHANGED budget
  \/ /\ budget[kind] \in 1 .. Plenty - 1
     /\ budget' = [budget EXCEPT ![kind] = @ - 1]

Free(A) == A /\ UNCHANGED budget

(* A vote answer that can no longer change anything is as good as lost. *)
Live(r) == \/ r.req.type = "append"
           \/ r.term > Disk(r.req.from).term
           \/ Current(nodes[r.req.from], r) /\ r.ok

Quiet == Cardinality(wire) + Cardinality({r \in replies : Live(r)}) < budget.busy

(* Leader i has entries to send to j, or news of a commit. *)
News(i, j) == \/ nodes[i].next[j] <= LastIndex(Disk(i))
              \/ Disk(j).commit < Disk(i).commit

(* Nothing but the timeout can end this call. *)
Abandoned(m) == m \notin wire /\ \A r \in replies : r.req # m

(* All nodes have opened their empty journals. *)
MCInit == /\ nodes = [i \in Node |-> Opened(NewNode, i)]
          /\ wire = {} /\ calls = {} /\ replies = {}
          /\ budget \in Budgets

NodeNext(i) ==
  \/ Quiet /\ Spend("elections") /\ Tick(i)
  \/ FixedLeader # i /\ Free(Open(i))
  \/ FixedLeader = i /\ Spend("elections") /\ Open(i)
  \/ Free(Resume(i))
  \/ Spend("outages") /\ (Pause(i) \/ Stop(i) \/ Die(i))
  \/ Spend("submits") /\ \E c \in Operation : Submit(i, c)
  \/ Spend("mishaps") /\ \E w \in nodes[i].pending : Cancel(i, w)
  \/ \E j \in Node : /\ Quiet
                     /\ Spend(IF News(i, j) THEN "appends" ELSE "mishaps")
                     /\ Replicate(i, j)

NetworkNext ==
  \/ \E m \in wire :
       \/ Free(Arrive(m))
       \/ Spend("mishaps") /\ (Duplicate(m) \/ Lose(m))
  \/ \E m \in calls :
       \/ Abandoned(m) /\ m.type = "append" /\ Free(Timeout(m))
       \/ ~Abandoned(m) /\ Spend("mishaps") /\ Timeout(m)
  \/ \E r \in replies : \/ Live(r) /\ Free(React(r))
                        \/ Spend("outages") /\ DieAnswering(r)

MCNext == (\E i \in Node : NodeNext(i)) \/ NetworkNext

MCSpec == MCInit /\ [][MCNext]_mcVars

Symmetry == Permutations(Node)
=============================================================================
