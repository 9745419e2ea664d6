-------------------------------- MODULE MCLab --------------------------------
(***************************************************************************)
(* Bounds for model checking Lab.  A behaviour begins with one of a few    *)
(* budgets, each of which lets one part of the lab act at length.          *)
(***************************************************************************)
EXTENDS Lab, TLC

CONSTANTS Speaker,    \* the member whose events are followed
          MaxPackets  \* requests in the proxies at a time

VARIABLE budget   \* what may still happen of each kind

Plenty == 99   \* a budget that is not counted

Budget(crashes, events, faults, pauses, workloads, resets, closes) ==
  [crashes |-> crashes, events |-> events, faults |-> faults, pauses |-> pauses,
   workloads |-> workloads, resets |-> resets, closes |-> closes]

Budgets == {Budget(1, 0, 0, 0, 0, 0, 1),        \* a death, a restart and Close
            Budget(1, 0, 0, 0, 0, 1, 0),        \* a death and a reset
            Budget(1, 4, 0, 0, 0, 0, 0),        \* event streams
            Budget(0, 0, Plenty, 0, 0, 0, 0),   \* network faults
            Budget(0, 0, 0, 0, 2, 0, 1),        \* workloads and Close
            Budget(1, 0, 0, 1, 0, 0, 0)}        \* pauses

Spend(kind) ==
  \/ budget[kind] = Plenty /\ UNCHANGED budget
  \/ /\ budget[kind] \in 1 .. Plenty - 1
     /\ budget' = [budget EXCEPT ![kind] = @ - 1]

Free(A) == A /\ UNCHANGED budget

MCLabInit == LabInit /\ budget \in Budgets

MCControl ==
  \/ \E n \in Member : Free(Restart(n)) \/ (Spend("crashes") /\ Crash(n))
  \/ Spend("pauses") /\ \E n \in Member, paused \in BOOLEAN : Pause(n, paused)
  \/ Spend("faults") /\ \E set \in SUBSET Member, loss \in BOOLEAN : SetFaults(set, loss)
  \/ Spend("workloads") /\ \E on \in BOOLEAN : Workload(on)
  \/ Spend("resets") /\ Reset
  \/ Spend("closes") /\ CloseBegin

Polls == \/ PollBegin \/ PollReturns
         \/ \E n \in Member : PollAnswered(n) \/ PollStore(n)
Waits == \E n \in Member : \E b \in 1 .. Boot(n) : Reap(n, b) \/ PublishExit(n, b)
Dies == \E n \in Member : \E b \in 1 .. Boot(n) : Exit(n, b, "killed")
Proxies == \E p \in packets : ProxyLooks(p) \/ ProxyAnswered(p) \/ ProxyEnds(p)
Returns == \E k \in 1 .. Len(tasks) : TaskReturns(k)
Ends == \E k \in 1 .. Len(tasks) : TaskEnds(k)

MCNodes ==
  \/ Spend("events") /\ Happens(Speaker)
  \/ Free(Dies)
  \/ Spend("crashes") /\ \E n \in Member : \E b \in 1 .. Boot(n) : Exit(n, b, "alive")
  \/ budget.faults # 0 /\ Cardinality(packets) < MaxPackets /\ \E n, k \in Member : Free(ProxyReceives(n, k))

MCWork ==
  \/ (\E n \in Member : NewStarts(n)) \/ NewDone
  \/ Polls \/ PollEnds \/ Waits \/ Returns \/ Ends \/ CloseReturns
  \/ ResetGoesOn \/ (\E r \in admin : AdminReturns(r))
  \/ Proxies
  \/ \E k \in 1 .. Len(tasks) : TaskCalls(k)

MCLabNext == MCControl \/ MCNodes \/ Free(MCWork)

mcLabVars == <<labVars, budget>>

(* The goroutines run, a killed process dies, a call comes back, and a       *)
(* select with a cancelled context takes that branch in the end.             *)
MCLabSpec ==
  /\ MCLabInit /\ [][MCLabNext]_mcLabVars
  /\ WF_mcLabVars(Free(Polls)) /\ SF_mcLabVars(Free(PollEnds))
  /\ WF_mcLabVars(Free(Waits)) /\ WF_mcLabVars(Free(Dies))
  /\ WF_mcLabVars(Free(Returns)) /\ SF_mcLabVars(Free(Ends))
  /\ WF_mcLabVars(Free(CloseReturns))
=============================================================================
