--------------------------------- MODULE Lab ---------------------------------
(***************************************************************************)
(* The chaos lab: Manager of internal/lab (manager.go, proxy.go and the    *)
(* chaos and workload handlers of http.go).                                *)
(*                                                                         *)
(* A section under Manager.mu is one step.  The goroutines that wait for a *)
(* process, poll the nodes, run the workload or proxy a request run next   *)
(* to the handlers of the dashboard.  The node processes are external:     *)
(* they live, publish events, apply entries and answer while they live.    *)
(*                                                                         *)
(* Left out, as only displayed: the lab's own events, the metrics, and the *)
(* digests and observations a snapshot compares.                           *)
(***************************************************************************)
EXTENDS EventRing, FiniteSets, FiniteSetsExt

CONSTANTS Member,   \* Manager.members
          Nil       \* no answer

ASSUME MemberAssumption == IsFiniteSet(Member) /\ Member # {}

VARIABLES
  stage,    \* of the Manager: in New, serving, in Close, Close has returned
  procs,    \* procs[n]: the processes started for n; n's cmd is the last one.
            \* life: "alive", "killed" but not yet gone, "dead" and not yet
            \* waited for, "reaped" with its exit to be published, "done"
  running,  \* Member.running
  poller,   \* the goroutine of pollLoop
  asks,     \* the goroutine of poll for each member
  views,    \* Manager.views: what was last seen of each node
  gaps,     \* Manager.eventGaps
  isolated, \* Manager.isolated
  drop,     \* Manager.drop is 100: every request is lost
  packets,  \* requests in the proxies: held back, sent to the target, answered
            \* by it, returned; overtaken is a history: a member was isolated
            \* after the proxy let it through
  tasks,    \* the workload goroutines
  switch,   \* Metrics.Workload
  admin,    \* admin requests under way to a node
  resetting, \* what the "reset" handler under way has left to do
  told      \* history: the node events published by the lab, per member

processVars == <<procs, running>>
pollVars == <<poller, asks, views, gaps, told>>
faultVars == <<isolated, drop, packets>>
workVars == <<tasks, switch>>
handlerVars == <<admin, resetting>>
labVars == <<stage, procs, running, poller, asks, views, gaps, isolated,
             drop, packets, tasks, switch, admin, resetting, told>>

Closing == stage \in {"closing", "closed"}   \* Manager.closing, ctx cancelled
Boot(n) == Len(procs[n])                     \* the process of Member.cmd
Lives(p) == p.life \in {"alive", "killed"}
Alive(n) == Boot(n) # 0 /\ Lives(procs[n][Boot(n)])

-----------------------------------------------------------------------------
(* Processes.                                                               *)

NewProcess == [life |-> "alive", paused |-> FALSE, ring |-> NewBuffer]

Started(n) == /\ procs' = [procs EXCEPT ![n] = Append(@, NewProcess)]
              /\ running' = [running EXCEPT ![n] = TRUE]

(* Mutant: a lab that is closing still starts processes. *)
StartWhileClosing(n) == IF running[n] THEN UNCHANGED processVars ELSE Started(n)

(* Start: nothing if the lab is closing or the process runs; exec may fail. *)
Start(n) == IF Closing \/ running[n] THEN UNCHANGED processVars
            ELSE Started(n) \/ UNCHANGED processVars

(* New starts the members one by one, and closes the lab if one fails. *)
NewStarts(n) ==
  /\ stage = "new" /\ Boot(n) = 0
  /\ Started(n)
  /\ UNCHANGED <<stage, pollVars, faultVars, workVars, handlerVars>>

NewDone ==
  /\ stage = "new" /\ \A n \in Member : Boot(n) # 0
  /\ stage' = "open" /\ poller' = "poll"
  /\ UNCHANGED <<processVars, asks, views, gaps, told, faultVars, workVars, handlerVars>>

(* The "restart" action of the dashboard. *)
Restart(n) ==
  /\ stage # "new"
  /\ Start(n)
  /\ UNCHANGED <<stage, pollVars, faultVars, workVars, handlerVars>>

Kills(ns) ==
  procs' = [n \in Member |->
              IF n \in ns /\ procs[n][Boot(n)].life = "alive"
                THEN [procs[n] EXCEPT ![Boot(n)].life = "killed"] ELSE procs[n]]

(* Mutant: a killed process is taken for gone at once. *)
CrashAtOnce(n) ==
  /\ stage # "new" /\ running[n]
  /\ Kills({n}) /\ running' = [running EXCEPT ![n] = FALSE]
  /\ UNCHANGED <<stage, pollVars, faultVars, workVars, handlerVars>>

Crash(n) ==
  /\ stage # "new" /\ running[n]
  /\ Kills({n})
  /\ UNCHANGED <<stage, running, pollVars, faultVars, workVars, handlerVars>>

(* A process ends: it was killed, or its node stopped by itself. *)
Exit(n, b, life) ==
  /\ procs[n][b].life = life /\ life \in {"alive", "killed"}
  /\ procs' = [procs EXCEPT ![n][b].life = "dead"]
  /\ UNCHANGED <<stage, running, pollVars, faultVars, workVars, handlerVars>>

(* cmd.Wait returns; the member no longer runs, if this is still its process. *)
Reap(n, b) ==
  /\ procs[n][b].life = "dead"
  /\ procs' = [procs EXCEPT ![n][b].life = "reaped"]
  /\ running' = [running EXCEPT ![n] = @ /\ b # Boot(n)]
  /\ UNCHANGED <<stage, pollVars, faultVars, workVars, handlerVars>>

(* The goroutine publishes PROCESS_EXITED, outside the lock, and ends. *)
PublishExit(n, b) ==
  /\ procs[n][b].life = "reaped"
  /\ procs' = [procs EXCEPT ![n][b].life = "done"]
  /\ UNCHANGED <<stage, running, pollVars, faultVars, workVars, handlerVars>>

(* The node of a live process publishes an event. *)
Happens(n) ==
  /\ Alive(n)
  /\ procs' = [procs EXCEPT ![n][Boot(n)].ring = Publish(@)]
  /\ UNCHANGED <<stage, running, pollVars, faultVars, workVars, handlerVars>>

-----------------------------------------------------------------------------
(* pollLoop and poll: every member is asked at once, outside the lock.      *)

PollBegin ==
  /\ poller \in {"poll", "rest"}
  /\ poller' = "asking"
  /\ asks' = [n \in Member |-> [at |-> "sent", got |-> Nil]]
  /\ UNCHANGED <<stage, processVars, views, gaps, told, faultVars, workVars, handlerVars>>

(* GET /v1/inspect of n: an answer of its live process, or none in time. *)
PollAnswered(n) ==
  LET p == procs[n][Boot(n)]
  IN  /\ asks[n].at = "sent"
      /\ \/ asks' = [asks EXCEPT ![n] = [at |-> "back", got |-> Nil]]
         \/ /\ Alive(n)
            /\ asks' = [asks EXCEPT ![n].at = "back",
                  ![n].got = [boot |-> Boot(n), events |-> After(p.ring, 0)]]
      /\ UNCHANGED <<stage, processVars, poller, views, gaps, told, faultVars, workVars,
                     handlerVars>>

(* The last event already published, if it is from the same process. *)
Cursor(prior, got) == IF prior.boot = got.boot THEN prior.last ELSE 0

(* Mutant: every overflow of the node's buffer is counted. *)
GapAtOverflow(prior, got) ==
  /\ got.events # <<>> /\ Cursor(prior, got) > 0
  /\ Head(got.events) > Cursor(prior, got)

Gap(prior, got) ==
  /\ got.events # <<>> /\ Cursor(prior, got) > 0
  /\ Head(got.events) > Cursor(prior, got) + 1

(* Mutant: a node that did not answer is shown as before. *)
UnseenStaysOnline(prior) == prior

(* Mutant: a node that did not answer is forgotten. *)
UnseenForgotten(prior) == [online |-> FALSE, boot |-> 0, last |-> 0]

(* The view of a node that did not answer. *)
Unseen(prior) == [prior EXCEPT !.online = FALSE]

PollStore(n) ==
  LET got == asks[n].got
      new == Newer(got.events, Cursor(views[n], got))
      fresh == [k \in 1 .. Len(new) |-> <<got.boot, new[k]>>]
  IN  /\ asks[n].at = "back"
      /\ asks' = [asks EXCEPT ![n] = [at |-> "none", got |-> Nil]]
      /\ \/ /\ got = Nil
            /\ views' = [views EXCEPT ![n] = Unseen(@)]
            /\ UNCHANGED <<gaps, told>>
         \/ /\ got # Nil
            /\ views' = [views EXCEPT ![n] =
                 [online |-> TRUE, boot |-> got.boot,
                  last |-> IF got.events = <<>> THEN 0 ELSE Last(got.events)]]
            /\ gaps' = gaps + (IF Gap(views[n], got) THEN 1 ELSE 0)
            /\ told' = [told EXCEPT ![n] = @ \o fresh]
      /\ UNCHANGED <<stage, processVars, poller, faultVars, workVars, handlerVars>>

PollReturns ==
  /\ poller = "asking" /\ \A n \in Member : asks[n].at = "none"
  /\ poller' = "rest"
  /\ UNCHANGED <<stage, processVars, asks, views, gaps, told, faultVars, workVars,
                 handlerVars>>

(* The select of pollLoop finds the context cancelled. *)
PollEnds ==
  /\ poller = "rest" /\ Closing
  /\ poller' = "ended"
  /\ UNCHANGED <<stage, processVars, asks, views, gaps, told, faultVars, workVars,
                 handlerVars>>

-----------------------------------------------------------------------------
(* Faults: SetFaults, Pause, the "reset" handler, and the proxies.          *)

(* Past the last look of the proxy at the isolated members. *)
LetGo(p) == p.at \in {"sent", "returned"}

(* SetFaults.  A proxy may hold any request for any time and lose it, so a   *)
(* delay, and a loss of less than 100%, change nothing here.                 *)
SetFaults(set, loss) ==
  /\ stage # "new"
  /\ isolated' = set /\ drop' = loss
  /\ packets' = {[p EXCEPT !.overtaken = @ \/ (LetGo(p) /\ {p.from, p.to} \cap set # {})] :
                    p \in packets}
  /\ UNCHANGED <<stage, processVars, pollVars, workVars, handlerVars>>

(* Pause: a request to the node, without the lock. *)
Pause(n, paused) ==
  /\ stage # "new"
  /\ admin' = admin \cup {[node |-> n, paused |-> paused]}
  /\ UNCHANGED <<stage, processVars, pollVars, isolated, drop, packets, workVars, resetting>>

(* The node pauses or resumes, or the request fails. *)
Paused(n, paused) ==
  \/ Alive(n) /\ procs' = [procs EXCEPT ![n][Boot(n)].paused = paused]
  \/ UNCHANGED procs

AdminReturns(r) ==
  /\ Paused(r.node, r.paused)
  /\ admin' = admin \ {r}
  /\ UNCHANGED <<stage, running, pollVars, faultVars, workVars, resetting>>

(* "reset" heals the network, then starts and resumes one member after the   *)
(* other; each of these is a call of its own.                                *)
Reset ==
  /\ stage # "new" /\ resetting = <<>>
  /\ isolated' = {} /\ drop' = FALSE
  /\ resetting' = FlattenSeq([k \in 1 .. Cardinality(Member) |->
                  LET n == SetToSeq(Member)[k] IN <<<<"start", n>>, <<"resume", n>>>>])
  /\ UNCHANGED <<stage, processVars, pollVars, packets, workVars, admin>>

ResetGoesOn ==
  /\ resetting # <<>>
  /\ resetting' = Tail(resetting)
  /\ \/ resetting[1][1] = "start" /\ Start(resetting[1][2])
     \/ resetting[1][1] = "resume" /\ Paused(resetting[1][2], FALSE) /\ UNCHANGED running
  /\ UNCHANGED <<stage, pollVars, faultVars, workVars, admin>>

Blocked(p) == p.from \in isolated \/ p.to \in isolated

(* A peer's request enters the proxy of its target, unless it is lost. *)
ProxyReceives(n, k) ==
  LET p == [from |-> n, to |-> k, at |-> "held", overtaken |-> FALSE]
  IN  /\ n # k /\ stage # "closed" /\ Alive(n)
      /\ ~Blocked(p) /\ ~drop
      /\ packets' = packets \cup {p}
      /\ UNCHANGED <<stage, processVars, pollVars, isolated, drop, workVars,
                     handlerVars>>

(* Mutant: the isolated members are not looked up again after the answer. *)
MayPassAnswers(p) == p.at = "answered" \/ ~Blocked(p)

(* Mutant: the isolated members are not looked up again after the delay. *)
MayPassHeld(p) == p.at = "held" \/ ~Blocked(p)

MayPass(p) == ~Blocked(p)

(* Under the lock: after its delay a request, and after the target's answer  *)
(* the answer, is let go only if neither member is isolated now.             *)
ProxyLooks(p) ==
  LET next == IF p.at = "held" THEN "sent" ELSE "returned"
  IN  /\ p.at \in {"held", "answered"}
      /\ packets' = (packets \ {p}) \cup {[q EXCEPT !.at = next] :
                                             q \in {q \in {p} : MayPass(q)}}
      /\ UNCHANGED <<stage, processVars, pollVars, isolated, drop, workVars,
                     handlerVars>>

(* http.Do, without the lock: the target handles the request and answers. *)
ProxyAnswered(p) ==
  /\ p.at = "sent" /\ Alive(p.to)
  /\ packets' = (packets \ {p}) \cup {[p EXCEPT !.at = "answered", !.overtaken = FALSE]}
  /\ UNCHANGED <<stage, processVars, pollVars, isolated, drop, workVars,
                 handlerVars>>

(* The sender gives up during the delay, the target does not answer, or the  *)
(* answer has reached the sender.                                            *)
ProxyEnds(p) ==
  /\ p.at \in {"held", "sent", "returned"}
  /\ packets' = packets \ {p}
  /\ UNCHANGED <<stage, processVars, pollVars, isolated, drop, workVars,
                 handlerVars>>

-----------------------------------------------------------------------------
(* The workload.                                                            *)

(* Mutant: switching the workload on does not end the one before. *)
CancelNone(ts) == ts

(* workCancel, if there is one: it belongs to the task started last. *)
CancelLast(ts) == IF ts = <<>> THEN ts ELSE [ts EXCEPT ![Len(ts)].cancelled = TRUE]

Workload(on) ==
  /\ stage # "new" /\ ~Closing
  /\ switch' = on
  /\ tasks' = CancelLast(tasks)
                \o (IF on THEN <<[cancelled |-> FALSE, at |-> "idle"]>> ELSE <<>>)
  /\ UNCHANGED <<stage, processVars, pollVars, faultVars, handlerVars>>

(* A workload goroutine sends a command, has its outcome, or finds its       *)
(* context cancelled.                                                        *)
TaskCalls(k) ==
  /\ tasks[k].at = "idle"
  /\ tasks' = [tasks EXCEPT ![k].at = "calling"]
  /\ UNCHANGED <<stage, processVars, pollVars, faultVars, switch, handlerVars>>

TaskReturns(k) ==
  /\ tasks[k].at = "calling"
  /\ tasks' = [tasks EXCEPT ![k].at = "idle"]
  /\ UNCHANGED <<stage, processVars, pollVars, faultVars, switch, handlerVars>>

TaskEnds(k) ==
  /\ tasks[k].at = "idle" /\ (tasks[k].cancelled \/ Closing)
  /\ tasks' = [tasks EXCEPT ![k].at = "ended"]
  /\ UNCHANGED <<stage, processVars, pollVars, faultVars, switch, handlerVars>>

-----------------------------------------------------------------------------
(* Close.                                                                   *)

(* Mutant: only the processes that answered are killed. *)
CloseBeginSpares ==
  /\ stage \in {"new", "open"}
  /\ stage' = "closing" /\ tasks' = CancelLast(tasks)
  /\ Kills({n \in Member : running[n] /\ views[n].online})
  /\ UNCHANGED <<running, pollVars, faultVars, switch, handlerVars>>

(* The context is cancelled and every running process killed, under the lock. *)
CloseBegin ==
  /\ stage \in {"new", "open"}
  /\ stage' = "closing" /\ tasks' = CancelLast(tasks)
  /\ Kills({n \in Member : running[n]})
  /\ UNCHANGED <<running, pollVars, faultVars, switch, handlerVars>>

(* The proxies are closed, and the goroutines of the WaitGroup have ended. *)
CloseReturns ==
  /\ stage = "closing"
  /\ \A n \in Member : \A b \in 1 .. Boot(n) : procs[n][b].life = "done"
  /\ poller \in {"off", "ended"}
  /\ \A k \in 1 .. Len(tasks) : tasks[k].at = "ended"
  /\ stage' = "closed" /\ packets' = {}
  /\ UNCHANGED <<processVars, pollVars, isolated, drop, workVars, handlerVars>>

-----------------------------------------------------------------------------
LabInit ==
  /\ stage = "new" /\ poller = "off"
  /\ procs = [n \in Member |-> <<>>]
  /\ running = [n \in Member |-> FALSE]
  /\ asks = [n \in Member |-> [at |-> "none", got |-> Nil]]
  /\ views = [n \in Member |-> [online |-> FALSE, boot |-> 0, last |-> 0]]
  /\ gaps = 0 /\ told = [n \in Member |-> <<>>]
  /\ isolated = {} /\ drop = FALSE /\ packets = {}
  /\ tasks = <<>> /\ switch = FALSE
  /\ admin = {} /\ resetting = <<>>

(* The requests of the dashboard. *)
Control ==
  \/ \E n \in Member : Restart(n) \/ Crash(n)
  \/ \E n \in Member, paused \in BOOLEAN : Pause(n, paused)
  \/ \E set \in SUBSET Member, loss \in BOOLEAN : SetFaults(set, loss)
  \/ \E on \in BOOLEAN : Workload(on)
  \/ Reset

(* Goroutines and handlers of the lab go on with what they have begun. *)
Work ==
  \/ \E n \in Member : NewStarts(n) \/ PollAnswered(n) \/ PollStore(n)
  \/ \E n \in Member : \E b \in 1 .. Boot(n) : Reap(n, b) \/ PublishExit(n, b)
  \/ NewDone \/ PollBegin \/ PollReturns \/ PollEnds \/ ResetGoesOn
  \/ \E r \in admin : AdminReturns(r)
  \/ \E p \in packets : ProxyLooks(p) \/ ProxyAnswered(p) \/ ProxyEnds(p)
  \/ \E k \in 1 .. Len(tasks) : TaskCalls(k) \/ TaskReturns(k) \/ TaskEnds(k)
  \/ CloseBegin \/ CloseReturns

(* The node processes. *)
Nodes ==
  \/ \E n \in Member : Happens(n)
  \/ \E n \in Member : \E b \in 1 .. Boot(n) : Exit(n, b, "alive") \/ Exit(n, b, "killed")
  \/ \E n, k \in Member : ProxyReceives(n, k)

LabNext == Control \/ Work \/ Nodes

LabSpec == LabInit /\ [][LabNext]_labVars

-----------------------------------------------------------------------------
(* Start and the goroutine that waits: a member never has two live           *)
(* processes, which would share its data directory and ports, whatever order *)
(* crashes, restarts and resets come in.                                     *)
OneProcess ==
  \A n \in Member :
    Cardinality({b \in 1 .. Boot(n) : Lives(procs[n][b])}) <= 1

(* Close kills what runs and nothing starts behind it: when it has returned, *)
(* no node process is left.                                                  *)
NoOrphans == stage = "closed" => \A n \in Member : ~Alive(n)

(* poll: the events of a process reach the lab's stream once and in order,   *)
(* whatever polls fail and however often the process is replaced.            *)
EventsInOrder ==
  \A n \in Member : \A k \in 2 .. Len(told[n]) :
    LET e == told[n][k - 1]
        f == told[n][k]
    IN  e[1] < f[1] \/ (e[1] = f[1] /\ e[2] < f[2])

(* poll: eventGaps is the number of places where the stream lacks events of  *)
(* a process it already had events of, because its buffer overflowed.        *)
GapsCounted ==
  LET jump(n) == {k \in 2 .. Len(told[n]) :
                    /\ told[n][k - 1][1] = told[n][k][1]
                    /\ told[n][k - 1][2] + 1 < told[n][k][2]}
  IN  gaps = Cardinality(UNION {{n} \X jump(n) : n \in Member})

(* Workload: the switch says whether a goroutine goes on sending commands,   *)
(* and there is never more than one.                                         *)
OneWorkload ==
  LET going == {k \in 1 .. Len(tasks) : ~tasks[k].cancelled}
  IN  ~Closing => Cardinality(going) = IF switch THEN 1 ELSE 0

(* Close: every goroutine it waits for ends, so it returns. *)
CloseEnds == stage = "closing" ~> stage = "closed"

(* poll and Snapshot: a node that is dead, and not started again, is shown   *)
(* offline, so that the lab does not go on claiming that all replicas agree. *)
DeathShows ==
  \A n \in Member :
    stage = "open" /\ ~Alive(n) ~> stage # "open" \/ Alive(n) \/ ~views[n].online

(* proxy: from the moment a member is isolated, nothing new crosses.  Of the  *)
(* requests to or from it, only those that were already let go can still      *)
(* reach their target, and only such answers their sender: none that was held *)
(* back, or in the hands of the target, when it was cut off, and none later.  *)
NothingCrosses == \A p \in packets : LetGo(p) /\ Blocked(p) => p.overtaken
=============================================================================
