------------------------------ MODULE LabProofs ------------------------------
(***************************************************************************)
(* Proofs about the chaos lab: for any number of members and any size of   *)
(* the event buffers, whatever order the handlers, the goroutines and the  *)
(* node processes take their steps in.                                     *)
(*                                                                         *)
(* The state falls into three parts that hardly touch: the processes with  *)
(* the stage of the Manager, the workload, and the polls with the stream   *)
(* they feed.  Each has its own inductive invariant.                       *)
(***************************************************************************)
EXTENDS Lab, TLAPS, FiniteSetTheorems

(* One round of the loop of Newer: x is an event's ID and the last one known. *)
Picked(out, x) == IF x[1] > x[2] THEN Append(out, x[1]) ELSE out

R == INSTANCE ReplayProofs WITH Op <- Picked

-----------------------------------------------------------------------------
(* Processes.                                                               *)

(* The IDs in a buffer are consecutive and end with the last one given. *)
Consecutive(items, last) ==
  /\ items \in Seq(Nat) /\ last \in Nat /\ Len(items) <= last
  /\ \A k \in 1 .. Len(items) : items[k] = last - Len(items) + k
  /\ last # 0 => Len(items) # 0

Process == {p \in [life : {"alive", "killed", "dead", "reaped", "done"},
                   paused : BOOLEAN, ring : Buffer] :
              Consecutive(p.ring.items, p.ring.next)}

Waited(p) == p.life \in {"alive", "killed", "dead"}

(* The processes s of a member, r its running flag: all but the last have    *)
(* been waited for, and r says whether the last has not.                     *)
Managed(s, r) ==
  /\ s \in Seq(Process) /\ r \in BOOLEAN
  /\ \A b \in 1 .. Len(s) : b # Len(s) => ~Waited(s[b])
  /\ r <=> (Len(s) # 0 /\ Waited(s[Len(s)]))

ProcessInv ==
  /\ procs = [n \in Member |-> procs[n]] /\ running = [n \in Member |-> running[n]]
  /\ \A n \in Member : Managed(procs[n], running[n])
  /\ \A r \in admin : r.paused \in BOOLEAN
  /\ stage = "closed" =>
       \A n \in Member : \A b \in 1 .. Len(procs[n]) : procs[n][b].life = "done"

(* Without the oldest of several. *)
LEMMA TailConsecutive ==
  ASSUME NEW items, NEW last, Consecutive(items, last), Len(items) # 0
  PROVE  /\ Tail(items) \in Seq(Nat) /\ Len(Tail(items)) <= last
         /\ \A k \in 1 .. Len(Tail(items)) : Tail(items)[k] = last - Len(Tail(items)) + k
<1>1. /\ items \in Seq(Nat) /\ last \in Nat /\ Len(items) \in Nat /\ Len(items) <= last
      /\ \A k \in 1 .. Len(items) : items[k] = last - Len(items) + k
  BY DEF Consecutive
<1>2. items # <<>>
  BY <1>1
<1>3. /\ Tail(items) \in Seq(Nat) /\ Len(Tail(items)) = Len(items) - 1
      /\ \A k \in 1 .. Len(Tail(items)) : Tail(items)[k] = items[k + 1]
  BY <1>1, <1>2
<1> QED BY <1>1, <1>3

(* Publish numbers the events without a gap. *)
LEMMA PublishKeeps ==
  ASSUME NEW b \in Buffer, Consecutive(b.items, b.next)
  PROVE  Publish(b) \in Buffer /\ Consecutive(Publish(b).items, Publish(b).next)
<1> DEFINE items == b.items
           last == b.next
           kept == IF Len(items) = Capacity THEN Tail(items) ELSE items
           t == Append(kept, last + 1)
<1>1. Publish(b) = [next |-> last + 1, items |-> t]
  BY DEF Publish
<1>2. Consecutive(items, last) /\ Capacity \in Nat \ {0}
  BY CapacityAssumption
<1> HIDE DEF items, last
<1>3. kept \in Seq(Nat) /\ last \in Nat /\ Len(kept) <= last
      /\ \A k \in 1 .. Len(kept) : kept[k] = last - Len(kept) + k
  <2>1. CASE Len(items) = Capacity
    <3>1. Len(items) # 0 /\ kept = Tail(items)
      BY <1>2, <2>1
    <3>2. last \in Nat
      BY <1>2 DEF Consecutive
    <3> HIDE DEF kept
    <3> QED BY <1>2, <3>1, <3>2, TailConsecutive
  <2>2. CASE Len(items) # Capacity
    BY <1>2, <2>2 DEF Consecutive
  <2> QED BY <2>1, <2>2
<1> HIDE DEF kept
<1>4. /\ t \in Seq(Nat) /\ Len(t) = Len(kept) + 1 /\ Len(kept) \in Nat
      /\ \A k \in 1 .. Len(kept) : t[k] = kept[k]
      /\ t[Len(kept) + 1] = last + 1
  BY <1>3
<1> HIDE DEF t
<1>5. ASSUME NEW k \in 1 .. Len(t) PROVE t[k] = last + 1 - Len(t) + k
  <2>1. CASE k = Len(kept) + 1
    <3>1. t[k] = last + 1
      BY <1>4, <2>1
    <3> QED BY <1>3, <1>4, <2>1, <3>1
  <2>2. CASE k # Len(kept) + 1
    <3>1. k \in 1 .. Len(kept)
      BY <1>4, <2>2
    <3> QED BY <1>3, <1>4, <3>1
  <2> QED BY <2>1, <2>2
<1>6. Consecutive(t, last + 1)
  BY <1>3, <1>4, <1>5 DEF Consecutive
<1>7. Publish(b).items = t /\ Publish(b).next = last + 1
  BY <1>1
<1> QED BY <1>1, <1>3, <1>4, <1>6, <1>7 DEF Buffer

(* Start appends a process when the last one has been waited for. *)
LEMMA StartManaged ==
  ASSUME NEW s, Managed(s, FALSE)
  PROVE  Managed(Append(s, NewProcess), TRUE)
<1>1. NewProcess \in Process
  <2>1. NewProcess \in [life : {"alive", "killed", "dead", "reaped", "done"},
                         paused : BOOLEAN, ring : Buffer]
    BY DEF NewProcess, NewBuffer, Buffer
  <2>2. NewProcess.ring.items = <<>> /\ NewProcess.ring.next = 0
    BY DEF NewProcess, NewBuffer
  <2>3. Consecutive(<<>>, 0)
    BY DEF Consecutive
  <2> QED BY <2>1, <2>2, <2>3 DEF Process
<1>2. NewProcess.life = "alive"
  BY DEF NewProcess
<1> DEFINE t == Append(s, NewProcess)
<1>3. /\ t \in Seq(Process) /\ Len(t) = Len(s) + 1 /\ Len(s) \in Nat
      /\ t[Len(s) + 1] = NewProcess
      /\ \A b \in 1 .. Len(s) : t[b] = s[b]
  BY <1>1 DEF Managed
<1> HIDE DEF t
<1>4. \A b \in 1 .. Len(s) : ~Waited(s[b])
  BY <1>3 DEF Managed
<1>5. \A b \in 1 .. Len(t) : b # Len(t) => ~Waited(t[b])
  BY <1>3, <1>4
<1>6. Len(t) # 0 /\ Waited(t[Len(t)])
  BY <1>2, <1>3 DEF Waited
<1>7. Managed(t, TRUE)
  BY <1>3, <1>5, <1>6 DEF Managed
<1> QED BY <1>7 DEF t

(* A process changes, but not whether it has been waited for. *)
LEMMA ChangeManaged ==
  ASSUME NEW s, NEW r, Managed(s, r), NEW b \in 1 .. Len(s), NEW p \in Process,
         Waited(p) <=> Waited(s[b])
  PROVE  Managed([s EXCEPT ![b] = p], r)
<1> DEFINE t == [s EXCEPT ![b] = p]
<1>1. /\ t \in Seq(Process) /\ Len(t) = Len(s) /\ Len(s) \in Nat
      /\ \A c \in 1 .. Len(s) : t[c] = IF c = b THEN p ELSE s[c]
  BY DEF Managed
<1> HIDE DEF t
<1>2. \A c \in 1 .. Len(s) : Waited(t[c]) <=> Waited(s[c])
  BY <1>1
<1>3. \A c \in 1 .. Len(t) : c # Len(t) => ~Waited(t[c])
  BY <1>1, <1>2 DEF Managed
<1>4. r \in BOOLEAN /\ (r <=> (Len(t) # 0 /\ Waited(t[Len(t)])))
  <2>1. CASE Len(s) = 0
    BY <1>1, <2>1 DEF Managed
  <2>2. CASE Len(s) # 0
    BY <1>1, <1>2, <2>2 DEF Managed
  <2> QED BY <2>1, <2>2
<1>5. Managed(t, r)
  BY <1>1, <1>3, <1>4 DEF Managed
<1> QED BY <1>5 DEF t

(* cmd.Wait returns: it was the last process of its member. *)
LEMMA ReapManaged ==
  ASSUME NEW s, NEW r, Managed(s, r), NEW b \in 1 .. Len(s), NEW p \in Process,
         Waited(s[b]), ~Waited(p)
  PROVE  b = Len(s) /\ Managed([s EXCEPT ![b] = p], FALSE)
<1> DEFINE t == [s EXCEPT ![b] = p]
<1>1. /\ t \in Seq(Process) /\ Len(t) = Len(s) /\ Len(s) \in Nat
      /\ \A c \in 1 .. Len(s) : t[c] = IF c = b THEN p ELSE s[c]
  BY DEF Managed
<1> HIDE DEF t
<1>2. b = Len(s)
  BY DEF Managed
<1>3. \A c \in 1 .. Len(t) : ~Waited(t[c])
  BY <1>1, <1>2 DEF Managed
<1>4. Managed(t, FALSE)
  <2>1. ~(Len(t) # 0 /\ Waited(t[Len(t)]))
    BY <1>1, <1>3
  <2> QED BY <1>1, <1>3, <2>1 DEF Managed
<1> QED BY <1>2, <1>4 DEF t

(* Every member keeps its processes, and their last event IDs only grow. *)
Grown ==
  \A n \in Member :
    /\ Len(procs[n]) <= Len(procs'[n])
    /\ Len(procs[n]) = Len(procs'[n]) /\ Len(procs[n]) # 0 =>
         procs[n][Len(procs[n])].ring.next <= procs'[n][Len(procs[n])].ring.next

LEMMA ProcessFacts ==
  ASSUME ProcessInv, NEW n \in Member
  PROVE  /\ procs[n] \in Seq(Process) /\ Len(procs[n]) \in Nat /\ running[n] \in BOOLEAN
         /\ \A b \in 1 .. Len(procs[n]) :
              procs[n][b] \in Process /\ procs[n][b].ring.next \in Nat
<1>1. procs[n] \in Seq(Process) /\ running[n] \in BOOLEAN
  BY DEF ProcessInv, Managed
<1>2. \A p \in Process : p.ring.next \in Nat
  BY DEF Process, Buffer
<1> QED BY <1>1, <1>2

(* Steps that leave the processes alone. *)
LEMMA ProcessStays ==
  ASSUME ProcessInv, UNCHANGED processVars, \A r \in admin' : r.paused \in BOOLEAN,
         stage' = "closed" => stage = "closed"
  PROVE  ProcessInv' /\ Grown
<1>1. procs' = procs /\ running' = running
  BY DEF processVars
<1>2. Grown
  BY <1>1, ProcessFacts DEF Grown
<1> QED BY <1>1, <1>2 DEF ProcessInv

(* A step that changes process b of n to p, and the running flag to r. *)
LEMMA ProcessChanges ==
  ASSUME ProcessInv, NEW n \in Member, NEW b \in 1 .. Len(procs[n]), NEW p \in Process, NEW r,
         procs' = [procs EXCEPT ![n] = [procs[n] EXCEPT ![b] = p]],
         running' = [running EXCEPT ![n] = r],
         Managed([procs[n] EXCEPT ![b] = p], r),
         procs[n][b].ring.next <= p.ring.next,
         \A a \in admin' : a.paused \in BOOLEAN,
         stage' = "closed" => stage = "closed" /\ p.life = "done"
  PROVE  ProcessInv' /\ Grown
<1>1. procs = [m \in Member |-> procs[m]] /\ running = [m \in Member |-> running[m]]
  BY DEF ProcessInv
<1>2. /\ procs' = [m \in Member |-> procs'[m]] /\ running' = [m \in Member |-> running'[m]]
      /\ procs'[n] = [procs[n] EXCEPT ![b] = p] /\ running'[n] = r
      /\ \A m \in Member : m # n => procs'[m] = procs[m] /\ running'[m] = running[m]
  BY <1>1
<1>3. procs[n] \in Seq(Process) /\ Len(procs[n]) \in Nat
  BY ProcessFacts
<1>4. /\ Len(procs'[n]) = Len(procs[n])
      /\ \A c \in 1 .. Len(procs[n]) : procs'[n][c] = IF c = b THEN p ELSE procs[n][c]
  BY <1>2, <1>3
<1>5. \A m \in Member : Managed(procs'[m], running'[m])
  BY <1>2 DEF ProcessInv
<1>6. stage' = "closed" =>
        \A m \in Member : \A c \in 1 .. Len(procs'[m]) : procs'[m][c].life = "done"
  <2> SUFFICES ASSUME stage' = "closed", NEW m \in Member, NEW c \in 1 .. Len(procs'[m])
               PROVE  procs'[m][c].life = "done"
    OBVIOUS
  <2>0. /\ p.life = "done"
        /\ \A x \in Member : \A y \in 1 .. Len(procs[x]) : procs[x][y].life = "done"
    BY DEF ProcessInv
  <2>1. CASE m = n
    BY <1>4, <2>0, <2>1
  <2>2. CASE m # n
    <3>1. procs'[m] = procs[m]
      BY <1>2, <2>2
    <3> QED BY <2>0, <3>1
  <2> QED BY <2>1, <2>2
<1>7. Grown
  <2> SUFFICES ASSUME NEW m \in Member
               PROVE  /\ Len(procs[m]) <= Len(procs'[m])
                      /\ Len(procs[m]) = Len(procs'[m]) /\ Len(procs[m]) # 0 =>
                           procs[m][Len(procs[m])].ring.next
                             <= procs'[m][Len(procs[m])].ring.next
    BY DEF Grown
  <2>1. Len(procs[m]) \in Nat
        /\ \A c \in 1 .. Len(procs[m]) : procs[m][c].ring.next \in Nat
    BY ProcessFacts
  <2>2. CASE m = n
    BY <1>4, <2>1, <2>2
  <2>3. CASE m # n
    BY <1>2, <2>1, <2>3
  <2> QED BY <2>2, <2>3
<1> QED BY <1>2, <1>5, <1>6, <1>7 DEF ProcessInv

(* Started, of a member that does not run. *)
LEMMA ProcessStarts ==
  ASSUME ProcessInv, NEW n \in Member, ~running[n], Started(n), stage' = stage,
         stage # "closed", admin' = admin
  PROVE  ProcessInv' /\ Grown
<1>1. procs = [m \in Member |-> procs[m]] /\ running = [m \in Member |-> running[m]]
  BY DEF ProcessInv
<1>2. /\ procs' = [m \in Member |-> procs'[m]] /\ running' = [m \in Member |-> running'[m]]
      /\ procs'[n] = Append(procs[n], NewProcess) /\ running'[n] = TRUE
      /\ \A m \in Member : m # n => procs'[m] = procs[m] /\ running'[m] = running[m]
  BY <1>1 DEF Started
<1>3. Managed(procs'[n], running'[n])
  <2>1. Managed(procs[n], FALSE)
    <3>1. Managed(procs[n], running[n]) /\ running[n] = FALSE
      BY DEF ProcessInv, Managed
    <3> QED BY <3>1
  <2>2. Managed(Append(procs[n], NewProcess), TRUE)
    BY <2>1, StartManaged
  <2> QED BY <1>2, <2>2
<1>4. \A m \in Member : Managed(procs'[m], running'[m])
  BY <1>2, <1>3 DEF ProcessInv
<1>5. Len(procs'[n]) = Len(procs[n]) + 1 /\ Len(procs[n]) \in Nat
  BY <1>2, ProcessFacts
<1>6. Grown
  <2> SUFFICES ASSUME NEW m \in Member
               PROVE  /\ Len(procs[m]) <= Len(procs'[m])
                      /\ Len(procs[m]) = Len(procs'[m]) /\ Len(procs[m]) # 0 =>
                           procs[m][Len(procs[m])].ring.next
                             <= procs'[m][Len(procs[m])].ring.next
    BY DEF Grown
  <2>1. Len(procs[m]) \in Nat
        /\ \A c \in 1 .. Len(procs[m]) : procs[m][c].ring.next \in Nat
    BY ProcessFacts
  <2>2. CASE m = n
    BY <1>5, <2>2
  <2>3. CASE m # n
    BY <1>2, <2>1, <2>3
  <2> QED BY <2>2, <2>3
<1> QED BY <1>2, <1>4, <1>6 DEF ProcessInv

(* Start, of any name: there is a process for members only. *)
LEMMA ProcessStartKept ==
  ASSUME ProcessInv, NEW n, Start(n), stage' = stage, admin' = admin
  PROVE  ProcessInv' /\ Grown
<1>1. CASE UNCHANGED processVars
  BY <1>1, ProcessStays DEF ProcessInv
<1>2. CASE ~UNCHANGED processVars
  <2>1. ~Closing /\ ~running[n] /\ Started(n)
    BY <1>2 DEF Start
  <2>2. stage # "closed"
    BY <2>1 DEF Closing
  <2>3. CASE n \in Member
    BY <2>1, <2>2, <2>3, ProcessStarts
  <2>4. CASE n \notin Member
    <3>1. procs = [m \in Member |-> procs[m]] /\ running = [m \in Member |-> running[m]]
      BY DEF ProcessInv
    <3>2. procs' = procs /\ running' = running
      BY <2>1, <2>4, <3>1 DEF Started
    <3> QED BY <1>2, <3>2 DEF processVars
  <2> QED BY <2>3, <2>4
<1> QED BY <1>1, <1>2

(* The life of process b of n goes on from one stage to another, without it   *)
(* being waited for.                                                          *)
LEMMA LifeChanges ==
  ASSUME ProcessInv, NEW n \in Member, NEW b \in 1 .. Len(procs[n]),
         NEW life \in {"alive", "killed", "dead", "reaped", "done"},
         procs' = [procs EXCEPT ![n][b].life = life], running' = running,
         Waited(procs[n][b]) <=> life \in {"alive", "killed", "dead"},
         stage' = stage, stage # "closed", admin' = admin
  PROVE  ProcessInv' /\ Grown
<1> DEFINE p == [procs[n][b] EXCEPT !.life = life]
<1>1. procs[n][b] \in Process /\ procs[n][b].ring.next \in Nat
  BY ProcessFacts
<1>2. p \in Process /\ p.life = life /\ p.ring = procs[n][b].ring
  BY <1>1 DEF Process
<1>3. procs' = [procs EXCEPT ![n] = [procs[n] EXCEPT ![b] = p]]
  OBVIOUS
<1>4. running' = [running EXCEPT ![n] = running[n]]
  BY DEF ProcessInv
<1> HIDE DEF p
<1>5. Waited(p) <=> Waited(procs[n][b])
  BY <1>2 DEF Waited
<1>6. Managed([procs[n] EXCEPT ![b] = p], running[n])
  BY <1>2, <1>5, ChangeManaged DEF ProcessInv
<1>7. procs[n][b].ring.next <= p.ring.next
  BY <1>1, <1>2
<1>8. \A a \in admin' : a.paused \in BOOLEAN
  BY DEF ProcessInv
<1> QED BY <1>2, <1>3, <1>4, <1>6, <1>7, <1>8, ProcessChanges

(* Kills: of every process the running ones are marked. *)
LEMMA KillsKeep ==
  ASSUME ProcessInv, NEW ns \in SUBSET Member, \A n \in ns : running[n], Kills(ns),
         running' = running, admin' = admin, stage # "closed", stage' # "closed"
  PROVE  ProcessInv' /\ Grown
<1>1. /\ procs' = [n \in Member |-> procs'[n]]
      /\ \A n \in Member : procs'[n] =
           IF n \in ns /\ procs[n][Boot(n)].life = "alive"
             THEN [procs[n] EXCEPT ![Boot(n)].life = "killed"] ELSE procs[n]
  BY DEF Kills
<1>2. ASSUME NEW n \in Member
      PROVE  /\ Managed(procs'[n], running[n])
             /\ Len(procs[n]) = Len(procs'[n])
             /\ Len(procs[n]) # 0 =>
                  procs[n][Len(procs[n])].ring.next <= procs'[n][Len(procs[n])].ring.next
  <2> DEFINE s == procs[n]
             b == Len(procs[n])
             p == [s[b] EXCEPT !.life = "killed"]
  <2>1. /\ s \in Seq(Process) /\ b \in Nat
        /\ \A c \in 1 .. b : s[c] \in Process /\ s[c].ring.next \in Nat
    BY ProcessFacts
  <2>2. Managed(s, running[n])
    BY DEF ProcessInv
  <2>3. CASE n \in ns /\ s[b].life = "alive"
    <3>1. b \in 1 .. b
      BY <2>1, <2>2, <2>3 DEF Managed
    <3>2. p \in Process /\ p.life = "killed" /\ p.ring = s[b].ring
      BY <2>1, <3>1 DEF Process
    <3>3. procs'[n] = [s EXCEPT ![b] = p]
      BY <1>1, <2>3 DEF Boot
    <3> HIDE DEF p
    <3>4. Waited(p) <=> Waited(s[b])
      BY <2>3, <3>2 DEF Waited
    <3>5. Managed([s EXCEPT ![b] = p], running[n])
      BY <2>2, <3>1, <3>2, <3>4, ChangeManaged
    <3>6. Len(procs'[n]) = b /\ procs'[n][b] = p
      BY <2>1, <3>1, <3>3
    <3>7. s[b].ring.next <= p.ring.next
      BY <2>1, <3>1, <3>2
    <3> QED BY <3>3, <3>5, <3>6, <3>7
  <2>4. CASE ~(n \in ns /\ s[b].life = "alive")
    <3>1. procs'[n] = procs[n]
      BY <1>1, <2>4 DEF Boot
    <3>2. b # 0 => s[b].ring.next <= s[b].ring.next
      BY <2>1
    <3> QED BY <2>1, <2>2, <3>1, <3>2
  <2> QED BY <2>3, <2>4
<1>3. Grown
  BY <1>2, ProcessFacts DEF Grown
<1>4. running' = [n \in Member |-> running'[n]]
  BY DEF ProcessInv
<1> QED BY <1>1, <1>2, <1>3, <1>4 DEF ProcessInv

LEMMA ProcessInitially == LabInit => ProcessInv
<1> SUFFICES ASSUME LabInit PROVE ProcessInv
  OBVIOUS
<1>1. Managed(<<>>, FALSE)
  BY DEF Managed
<1> QED BY <1>1 DEF LabInit, ProcessInv

LEMMA ControlKeepsProcesses ==
  ASSUME ProcessInv, Control
  PROVE  ProcessInv' /\ Grown
<1>1. ASSUME NEW n \in Member, Restart(n) PROVE ProcessInv' /\ Grown
  BY <1>1, ProcessStartKept DEF Restart, handlerVars
<1>2. ASSUME NEW n \in Member, Crash(n) PROVE ProcessInv' /\ Grown
  <2>1. {n} \in SUBSET Member /\ \A m \in {n} : running[m]
    BY <1>2 DEF Crash
  <2>2. Kills({n}) /\ running' = running /\ stage' = stage /\ admin' = admin
    BY <1>2 DEF Crash, handlerVars
  <2>3. stage # "closed"
    <3>1. Managed(procs[n], running[n]) /\ running[n]
      BY <2>1 DEF ProcessInv
    <3>2. Len(procs[n]) \in 1 .. Len(procs[n]) /\ Waited(procs[n][Len(procs[n])])
      BY <3>1, ProcessFacts DEF Managed
    <3> QED BY <3>2 DEF ProcessInv, Waited
  <2> QED BY <2>1, <2>2, <2>3, KillsKeep
<1>3. ASSUME NEW n \in Member, NEW paused \in BOOLEAN, Pause(n, paused)
      PROVE  ProcessInv' /\ Grown
  <2>1. \A r \in admin' : r.paused \in BOOLEAN
    BY <1>3 DEF Pause, ProcessInv
  <2> QED BY <1>3, <2>1, ProcessStays DEF Pause
<1>4. ASSUME NEW set \in SUBSET Member, NEW loss \in BOOLEAN, SetFaults(set, loss)
      PROVE  ProcessInv' /\ Grown
  BY <1>4, ProcessStays DEF SetFaults, handlerVars, ProcessInv
<1>5. ASSUME NEW on \in BOOLEAN, Workload(on) PROVE ProcessInv' /\ Grown
  BY <1>5, ProcessStays DEF Workload, handlerVars, ProcessInv
<1>6. CASE Reset
  BY <1>6, ProcessStays DEF Reset, ProcessInv
<1> QED BY <1>1, <1>2, <1>3, <1>4, <1>5, <1>6 DEF Control

(* The last process of a member that lives is there, and the lab not closed. *)
LEMMA AliveFacts ==
  ASSUME ProcessInv, NEW n \in Member, Alive(n)
  PROVE  /\ Boot(n) \in 1 .. Len(procs[n]) /\ Boot(n) = Len(procs[n])
         /\ Waited(procs[n][Boot(n)]) /\ stage # "closed"
<1>1. Boot(n) \in 1 .. Len(procs[n]) /\ Boot(n) = Len(procs[n])
  BY ProcessFacts DEF Alive, Boot
<1>2. procs[n][Boot(n)].life \in {"alive", "killed"}
  BY DEF Alive, Lives
<1> QED BY <1>1, <1>2 DEF Waited, ProcessInv

(* A live process gets another ring or is paused or resumed. *)
LEMMA LiveChanges ==
  ASSUME ProcessInv, NEW n \in Member, Alive(n), NEW p \in Process,
         procs' = [procs EXCEPT ![n] = [procs[n] EXCEPT ![Boot(n)] = p]], running' = running,
         p.life = procs[n][Boot(n)].life, procs[n][Boot(n)].ring.next <= p.ring.next,
         stage' = stage, \A a \in admin' : a.paused \in BOOLEAN
  PROVE  ProcessInv' /\ Grown
<1>1. Boot(n) \in 1 .. Len(procs[n]) /\ stage # "closed"
  BY AliveFacts
<1>2. Managed([procs[n] EXCEPT ![Boot(n)] = p], running[n])
  BY <1>1, ChangeManaged DEF ProcessInv, Waited
<1>3. running' = [running EXCEPT ![n] = running[n]]
  BY DEF ProcessInv
<1> QED BY <1>1, <1>2, <1>3, ProcessChanges

(* Pause and resume, of any name. *)
LEMMA PausedKeeps ==
  ASSUME ProcessInv, NEW n, NEW paused \in BOOLEAN, Paused(n, paused), running' = running,
         stage' = stage, \A a \in admin' : a.paused \in BOOLEAN
  PROVE  ProcessInv' /\ Grown
<1>1. CASE procs' = procs
  BY <1>1, ProcessStays DEF processVars
<1>2. CASE procs' # procs
  <2>1. Alive(n) /\ procs' = [procs EXCEPT ![n][Boot(n)].paused = paused]
    BY <1>2 DEF Paused
  <2>2. CASE n \in Member
    <3> DEFINE q == procs[n][Boot(n)]
               p == [q EXCEPT !.paused = paused]
    <3>1. q \in Process /\ q.ring.next \in Nat
      BY <2>1, <2>2, AliveFacts, ProcessFacts
    <3>2. p \in Process /\ p.life = q.life /\ p.ring = q.ring
      BY <3>1 DEF Process
    <3>3. procs' = [procs EXCEPT ![n] = [procs[n] EXCEPT ![Boot(n)] = p]]
      BY <2>1
    <3>4. q.ring.next <= p.ring.next
      BY <3>1, <3>2
    <3> HIDE DEF p
    <3> QED BY <2>1, <2>2, <3>2, <3>3, <3>4, LiveChanges
  <2>3. CASE n \notin Member
    BY <1>2, <2>1, <2>3 DEF ProcessInv
  <2> QED BY <2>2, <2>3
<1> QED BY <1>1, <1>2

LEMMA WorkKeepsProcesses ==
  ASSUME ProcessInv, Work
  PROVE  ProcessInv' /\ Grown
<1> USE DEF handlerVars
<1>0. \A r \in admin : r.paused \in BOOLEAN
  BY DEF ProcessInv
<1>1. ASSUME NEW n \in Member, NewStarts(n) PROVE ProcessInv' /\ Grown
  <2>1. ~running[n]
    BY <1>1, ProcessFacts DEF NewStarts, Boot, ProcessInv, Managed
  <2> QED BY <1>1, <2>1, ProcessStarts DEF NewStarts
<1>2. ASSUME NEW n \in Member, PollAnswered(n) PROVE ProcessInv' /\ Grown
  BY <1>0, <1>2, ProcessStays DEF PollAnswered
<1>3. ASSUME NEW n \in Member, PollStore(n) PROVE ProcessInv' /\ Grown
  BY <1>0, <1>3, ProcessStays DEF PollStore
<1>4. ASSUME NEW n \in Member, NEW b \in 1 .. Boot(n), Reap(n, b) PROVE ProcessInv' /\ Grown
  <2> DEFINE p == [procs[n][b] EXCEPT !.life = "reaped"]
  <2>1. /\ b \in 1 .. Len(procs[n])
        /\ procs[n][b] \in Process /\ procs[n][b].ring.next \in Nat
    BY ProcessFacts DEF Boot
  <2>2. p \in Process /\ p.life = "reaped" /\ p.ring = procs[n][b].ring
    BY <2>1 DEF Process
  <2>3. /\ procs[n][b].life = "dead"
        /\ procs' = [procs EXCEPT ![n] = [procs[n] EXCEPT ![b] = p]]
        /\ running' = [running EXCEPT ![n] = @ /\ b # Boot(n)]
        /\ stage' = stage /\ admin' = admin
    BY <1>4 DEF Reap
  <2> HIDE DEF p
  <2>4. b = Len(procs[n]) /\ Managed([procs[n] EXCEPT ![b] = p], FALSE)
    BY <2>1, <2>2, <2>3, ReapManaged DEF ProcessInv, Waited
  <2>5. running' = [running EXCEPT ![n] = FALSE]
    BY <2>3, <2>4 DEF Boot
  <2>6. stage # "closed"
    BY <2>1, <2>3 DEF ProcessInv
  <2>7. procs[n][b].ring.next <= p.ring.next
    BY <2>1, <2>2
  <2> QED BY <1>0, <2>1, <2>2, <2>3, <2>4, <2>5, <2>6, <2>7, ProcessChanges
<1>5. ASSUME NEW n \in Member, NEW b \in 1 .. Boot(n), PublishExit(n, b)
      PROVE  ProcessInv' /\ Grown
  <2>1. b \in 1 .. Len(procs[n]) /\ procs[n][b].life = "reaped"
    BY <1>5 DEF PublishExit, Boot
  <2>2. stage # "closed"
    BY <2>1 DEF ProcessInv
  <2>3. ~Waited(procs[n][b])
    BY <2>1 DEF Waited
  <2> QED BY <1>5, <2>1, <2>2, <2>3, LifeChanges DEF PublishExit
<1>6. CASE NewDone
  BY <1>0, <1>6, ProcessStays DEF NewDone
<1>7. CASE PollBegin
  BY <1>0, <1>7, ProcessStays DEF PollBegin
<1>8. CASE PollReturns
  BY <1>0, <1>8, ProcessStays DEF PollReturns
<1>9. CASE PollEnds
  BY <1>0, <1>9, ProcessStays DEF PollEnds
<1>10. CASE ResetGoesOn
  <2>1. stage' = stage /\ admin' = admin
    BY <1>10 DEF ResetGoesOn
  <2>2. CASE Start(resetting[1][2])
    BY <2>1, <2>2, ProcessStartKept
  <2>3. CASE Paused(resetting[1][2], FALSE) /\ UNCHANGED running
    BY <1>0, <2>1, <2>3, PausedKeeps
  <2> QED BY <1>10, <2>2, <2>3 DEF ResetGoesOn
<1>11. ASSUME NEW r \in admin, AdminReturns(r) PROVE ProcessInv' /\ Grown
  <2>1. r.paused \in BOOLEAN /\ \A a \in admin' : a.paused \in BOOLEAN
    BY <1>0, <1>11 DEF AdminReturns
  <2> QED BY <1>11, <2>1, PausedKeeps DEF AdminReturns
<1>12. ASSUME NEW p \in packets, ProxyLooks(p) \/ ProxyAnswered(p) \/ ProxyEnds(p)
       PROVE  ProcessInv' /\ Grown
  BY <1>0, <1>12, ProcessStays DEF ProxyLooks, ProxyAnswered, ProxyEnds
<1>13. ASSUME NEW k \in 1 .. Len(tasks), TaskCalls(k) \/ TaskReturns(k) \/ TaskEnds(k)
       PROVE  ProcessInv' /\ Grown
  BY <1>0, <1>13, ProcessStays DEF TaskCalls, TaskReturns, TaskEnds
<1>14. CASE CloseBegin
  <2> DEFINE ns == {n \in Member : running[n]}
  <2>1. /\ stage # "closed" /\ stage' # "closed" /\ Kills(ns)
        /\ running' = running /\ admin' = admin
    BY <1>14 DEF CloseBegin
  <2>2. ns \in SUBSET Member /\ \A n \in ns : running[n]
    OBVIOUS
  <2> HIDE DEF ns
  <2> QED BY <2>1, <2>2, KillsKeep
<1>15. CASE CloseReturns
  <2>1. /\ procs' = procs /\ running' = running /\ admin' = admin
        /\ \A n \in Member : \A b \in 1 .. Len(procs[n]) : procs[n][b].life = "done"
    BY <1>15 DEF CloseReturns, processVars, Boot
  <2>2. Grown
    BY <2>1, ProcessFacts DEF Grown
  <2> QED BY <1>0, <2>1, <2>2 DEF ProcessInv
<1> QED
  BY <1>1, <1>2, <1>3, <1>4, <1>5, <1>6, <1>7, <1>8, <1>9, <1>10, <1>11, <1>12, <1>13, <1>14,
     <1>15 DEF Work

LEMMA NodesKeepProcesses ==
  ASSUME ProcessInv, Nodes
  PROVE  ProcessInv' /\ Grown
<1> USE DEF handlerVars
<1>0. \A r \in admin : r.paused \in BOOLEAN
  BY DEF ProcessInv
<1>1. ASSUME NEW n \in Member, Happens(n) PROVE ProcessInv' /\ Grown
  <2> DEFINE q == procs[n][Boot(n)]
             p == [q EXCEPT !.ring = Publish(@)]
  <2>1. Alive(n) /\ running' = running /\ stage' = stage /\ admin' = admin
    BY <1>1 DEF Happens
  <2>2. procs' = [procs EXCEPT ![n] = [procs[n] EXCEPT ![Boot(n)] = p]]
    BY <1>1 DEF Happens
  <2>3. q \in Process /\ q.ring.next \in Nat
    BY <2>1, AliveFacts, ProcessFacts
  <2>4. q.ring \in Buffer /\ Consecutive(q.ring.items, q.ring.next)
    BY <2>3 DEF Process
  <2> HIDE DEF q
  <2>5. Publish(q.ring) \in Buffer
        /\ Consecutive(Publish(q.ring).items, Publish(q.ring).next)
    BY <2>4, PublishKeeps
  <2>6. p.ring = Publish(q.ring) /\ p.life = q.life /\ p \in Process
    BY <2>3, <2>5 DEF Process
  <2>7. q.ring.next <= p.ring.next
    <3>1. Publish(q.ring).next = q.ring.next + 1
      BY DEF Publish
    <3> QED BY <2>3, <2>6, <3>1
  <2> HIDE DEF p
  <2> QED BY <1>0, <2>1, <2>2, <2>6, <2>7, LiveChanges DEF q
<1>2. ASSUME NEW n \in Member, NEW b \in 1 .. Boot(n), NEW life, Exit(n, b, life)
      PROVE  ProcessInv' /\ Grown
  <2>1. b \in 1 .. Len(procs[n]) /\ procs[n][b].life \in {"alive", "killed"}
    BY <1>2 DEF Exit, Boot
  <2>2. stage # "closed"
    BY <2>1 DEF ProcessInv
  <2>3. Waited(procs[n][b])
    BY <2>1 DEF Waited
  <2> QED BY <1>2, <2>1, <2>2, <2>3, LifeChanges DEF Exit
<1>3. ASSUME NEW n \in Member, NEW k \in Member, ProxyReceives(n, k)
      PROVE  ProcessInv' /\ Grown
  BY <1>0, <1>3, ProcessStays DEF ProxyReceives
<1> QED BY <1>1, <1>2, <1>3 DEF Nodes

(* What the wait goroutine, Start and Close keep between them. *)
LEMMA ProcessStep ==
  ASSUME ProcessInv, [LabNext]_labVars
  PROVE  ProcessInv' /\ Grown
<1>1. CASE UNCHANGED labVars
  <2>1. UNCHANGED processVars /\ admin' = admin /\ stage' = stage
    BY <1>1 DEF labVars, processVars
  <2> QED BY <2>1, ProcessStays DEF ProcessInv
<1>2. CASE LabNext
  BY <1>2, ControlKeepsProcesses, WorkKeepsProcesses, NodesKeepProcesses DEF LabNext
<1> QED BY <1>1, <1>2

-----------------------------------------------------------------------------
(* The workload.                                                            *)

Task == [cancelled : BOOLEAN, at : {"idle", "calling", "ended"}]

(* Only the task started last may go on, and the switch says whether it does. *)
WorkInv ==
  /\ tasks \in Seq(Task)
  /\ switch \in BOOLEAN
  /\ \A k \in 1 .. Len(tasks) : k # Len(tasks) => tasks[k].cancelled
  /\ ~Closing => (switch <=> (Len(tasks) # 0 /\ ~tasks[Len(tasks)].cancelled))

LEMMA WorkInitially == LabInit => WorkInv
<1> SUFFICES ASSUME LabInit PROVE WorkInv
  OBVIOUS
<1>1. tasks = <<>> /\ switch = FALSE
  BY DEF LabInit
<1>2. tasks \in Seq(Task) /\ Len(tasks) = 0
  <2>1. tasks = <<>>
    BY <1>1
  <2> QED BY <2>1
<1>3. \A k \in 1 .. Len(tasks) : k # Len(tasks) => tasks[k].cancelled
  BY <1>2
<1>4. switch \in BOOLEAN /\ ~switch
  BY <1>1
<1>5. switch <=> (Len(tasks) # 0 /\ ~tasks[Len(tasks)].cancelled)
  BY <1>2, <1>4
<1> QED BY <1>2, <1>3, <1>4, <1>5 DEF WorkInv

(* workCancel: after it no task goes on. *)
LEMMA CancelAll ==
  ASSUME NEW ts \in Seq(Task), \A k \in 1 .. Len(ts) : k # Len(ts) => ts[k].cancelled
  PROVE  /\ CancelLast(ts) \in Seq(Task) /\ Len(CancelLast(ts)) = Len(ts)
         /\ \A k \in 1 .. Len(ts) : CancelLast(ts)[k].cancelled
<1>1. CASE ts = <<>>
  BY <1>1 DEF CancelLast
<1>2. CASE ts # <<>>
  <2> DEFINE t == [ts[Len(ts)] EXCEPT !.cancelled = TRUE]
             us == [ts EXCEPT ![Len(ts)] = t]
  <2>1. Len(ts) \in 1 .. Len(ts) /\ Len(ts) \in Nat
    BY <1>2
  <2>2. t \in Task /\ t.cancelled = TRUE
    <3>1. ts[Len(ts)] \in Task
      BY <2>1
    <3> QED BY <3>1 DEF Task
  <2>3. CancelLast(ts) = us
    BY <1>2 DEF CancelLast
  <2> HIDE DEF t
  <2>4. us \in Seq(Task) /\ Len(us) = Len(ts)
        /\ \A k \in 1 .. Len(ts) : us[k] = IF k = Len(ts) THEN t ELSE ts[k]
    BY <2>1, <2>2
  <2> HIDE DEF us
  <2> QED BY <2>2, <2>3, <2>4
<1> QED BY <1>1, <1>2

(* A goroutine of the workload goes on or ends. *)
LEMMA TaskMoves ==
  ASSUME WorkInv, NEW k \in 1 .. Len(tasks), NEW at \in {"idle", "calling", "ended"},
         tasks' = [tasks EXCEPT ![k].at = at], switch' = switch, stage' = stage
  PROVE  WorkInv'
<1> DEFINE t == [tasks[k] EXCEPT !.at = at]
<1>1. tasks \in Seq(Task) /\ tasks[k] \in Task /\ Len(tasks) \in Nat
  BY DEF WorkInv
<1>2. t \in Task /\ t.cancelled = tasks[k].cancelled
  BY <1>1 DEF Task
<1>3. tasks' = [tasks EXCEPT ![k] = t]
  OBVIOUS
<1> HIDE DEF t
<1>4. tasks' \in Seq(Task) /\ Len(tasks') = Len(tasks)
      /\ \A j \in 1 .. Len(tasks) : tasks'[j] = IF j = k THEN t ELSE tasks[j]
  BY <1>1, <1>2, <1>3
<1>5. \A j \in 1 .. Len(tasks) : tasks'[j].cancelled = tasks[j].cancelled
  BY <1>2, <1>4
<1>7. Len(tasks) # 0 => Len(tasks) \in 1 .. Len(tasks)
  BY <1>1
<1>8. Closing' = Closing
  BY DEF Closing
<1> QED BY <1>4, <1>5, <1>7, <1>8 DEF WorkInv

(* What Workload and Close keep of the tasks. *)
LEMMA WorkStep ==
  ASSUME WorkInv, [LabNext]_labVars
  PROVE  WorkInv'
<1>0. tasks \in Seq(Task) /\ Len(tasks) \in Nat
  BY DEF WorkInv
<1>1. ASSUME tasks' = tasks, switch' = switch, Closing => Closing' PROVE WorkInv'
  BY <1>1 DEF WorkInv
<1> USE DEF workVars
<1>2. CASE UNCHANGED labVars
  BY <1>1, <1>2 DEF labVars, Closing
<1>3. CASE Control
  <2>1. ASSUME NEW on \in BOOLEAN, Workload(on) PROVE WorkInv'
    <3> DEFINE old == CancelLast(tasks)
               t == [cancelled |-> FALSE, at |-> "idle"]
    <3>1. /\ old \in Seq(Task) /\ Len(old) = Len(tasks)
          /\ \A k \in 1 .. Len(tasks) : old[k].cancelled
      BY <1>0, CancelAll DEF WorkInv
    <3>2. /\ tasks' = old \o (IF on THEN <<t>> ELSE <<>>) /\ switch' = on
          /\ stage' = stage /\ ~Closing
      BY <2>1 DEF Workload
    <3>3. t \in Task /\ t.cancelled = FALSE
      BY DEF Task
    <3> HIDE DEF old, t
    <3>4. CASE on = FALSE
      <4>1. tasks' = old
        BY <3>1, <3>2, <3>4
      <4>3. Len(old) # 0 => Len(old) \in 1 .. Len(old)
        BY <1>0, <3>1
      <4> QED BY <3>1, <3>2, <3>4, <4>1, <4>3 DEF WorkInv
    <3>5. CASE on = TRUE
      <4>1. /\ tasks' \in Seq(Task) /\ Len(tasks') = Len(old) + 1
            /\ \A k \in 1 .. Len(old) : tasks'[k] = old[k]
            /\ tasks'[Len(old) + 1] = t
        BY <3>1, <3>2, <3>3, <3>5
      <4>3. \A k \in 1 .. Len(tasks') : k # Len(tasks') => tasks'[k].cancelled
        BY <1>0, <3>1, <4>1
      <4>4. Len(tasks') # 0 /\ ~tasks'[Len(tasks')].cancelled
        BY <1>0, <3>1, <3>3, <4>1
      <4> QED BY <3>2, <3>5, <4>1, <4>3, <4>4 DEF WorkInv
    <3> QED BY <3>4, <3>5
  <2>2. CASE ~\E on \in BOOLEAN : Workload(on)
    <3>1. tasks' = tasks /\ switch' = switch /\ stage' = stage
      BY <1>3, <2>2 DEF Control, Restart, Crash, Pause, SetFaults, Reset
    <3> QED BY <1>1, <3>1 DEF Closing
  <2> QED BY <2>1, <2>2
<1>4. CASE Work
  <2>1. ASSUME NEW k \in 1 .. Len(tasks), TaskCalls(k) PROVE WorkInv'
    BY <2>1, TaskMoves DEF TaskCalls
  <2>2. ASSUME NEW k \in 1 .. Len(tasks), TaskReturns(k) PROVE WorkInv'
    BY <2>2, TaskMoves DEF TaskReturns
  <2>3. ASSUME NEW k \in 1 .. Len(tasks), TaskEnds(k) PROVE WorkInv'
    BY <2>3, TaskMoves DEF TaskEnds
  <2>4. CASE CloseBegin
    <3>1. Closing' /\ tasks' = CancelLast(tasks) /\ switch' = switch
      BY <2>4 DEF CloseBegin, Closing
    <3>2. /\ CancelLast(tasks) \in Seq(Task) /\ Len(CancelLast(tasks)) = Len(tasks)
          /\ \A k \in 1 .. Len(tasks) : CancelLast(tasks)[k].cancelled
      BY <1>0, CancelAll DEF WorkInv
    <3> QED BY <3>1, <3>2 DEF WorkInv
  <2>5. CASE CloseReturns
    BY <1>1, <2>5 DEF CloseReturns, Closing
  <2>6. CASE NewDone
    BY <1>1, <2>6 DEF NewDone, Closing
  <2>7. ASSUME NEW n \in Member, NewStarts(n) PROVE WorkInv'
    BY <1>1, <2>7 DEF NewStarts, Closing
  <2>8. ASSUME NEW n \in Member, PollAnswered(n) PROVE WorkInv'
    BY <1>1, <2>8 DEF PollAnswered, Closing
  <2>9. ASSUME NEW n \in Member, PollStore(n) PROVE WorkInv'
    BY <1>1, <2>9 DEF PollStore, Closing
  <2>10. ASSUME NEW n \in Member, NEW b \in 1 .. Boot(n), Reap(n, b) \/ PublishExit(n, b)
         PROVE  WorkInv'
    BY <1>1, <2>10 DEF Reap, PublishExit, Closing
  <2>11. CASE PollBegin \/ PollReturns \/ PollEnds
    BY <1>1, <2>11 DEF PollBegin, PollReturns, PollEnds, Closing
  <2>12. CASE ResetGoesOn
    BY <1>1, <2>12 DEF ResetGoesOn, Closing
  <2>13. ASSUME NEW r \in admin, AdminReturns(r) PROVE WorkInv'
    BY <1>1, <2>13 DEF AdminReturns, Closing
  <2>14. ASSUME NEW p \in packets, ProxyLooks(p) \/ ProxyAnswered(p) \/ ProxyEnds(p)
         PROVE  WorkInv'
    BY <1>1, <2>14 DEF ProxyLooks, ProxyAnswered, ProxyEnds, Closing
  <2> QED
    BY <1>4, <2>1, <2>2, <2>3, <2>4, <2>5, <2>6, <2>7, <2>8, <2>9, <2>10, <2>11, <2>12,
       <2>13, <2>14 DEF Work
<1>5. CASE Nodes
  <2>1. tasks' = tasks /\ switch' = switch /\ stage' = stage
    BY <1>5 DEF Nodes, Happens, Exit, ProxyReceives
  <2> QED BY <1>1, <2>1 DEF Closing
<1> QED BY <1>2, <1>3, <1>4, <1>5 DEF LabNext

-----------------------------------------------------------------------------
(* Polls and the stream of events.                                          *)

Newest(events) == IF Len(events) = 0 THEN 0 ELSE events[Len(events)]

Precedes(e, f) == e[1] < f[1] \/ (e[1] = f[1] /\ e[2] < f[2])

(* A stream t that was fed up to view v: in order, nothing after what v      *)
(* shows, and what v shows last is the last of it.                           *)
Fed(t, v) ==
  /\ t \in Seq(Nat \X (Nat \ {0}))
  /\ \A k \in 1 .. Len(t) : ~Precedes(<<v.boot, v.last>>, t[k])
  /\ v.last # 0 => Len(t) # 0 /\ t[Len(t)] = <<v.boot, v.last>>
  /\ \A k \in 1 .. Len(t) : k # 1 => Precedes(t[k - 1], t[k])

(* Event id of process b is one that the processes s have published. *)
Shown(b, id, s) ==
  /\ b \in 0 .. Len(s)
  /\ b = Len(s) /\ b # 0 => id <= s[b].ring.next

View == [online : BOOLEAN, boot : Nat, last : Nat]
Answer == {g \in [boot : Nat, events : Seq(Nat)] : Consecutive(g.events, Newest(g.events))}

(* What a poll brought back is no older than what the view shows. *)
Later(g, v) == ~Precedes(<<g.boot, Newest(g.events)>>, <<v.boot, v.last>>)

PollOK(n) ==
  /\ views[n] \in View
  /\ Fed(told[n], views[n])
  /\ Shown(views[n].boot, views[n].last, procs[n])
  /\ asks[n] \in [at : {"none", "sent", "back"}, got : Answer \cup {Nil}]
  /\ asks[n].at = "back" /\ asks[n].got # Nil =>
       /\ Later(asks[n].got, views[n])
       /\ Shown(asks[n].got.boot, Newest(asks[n].got.events), procs[n])

PollInv ==
  /\ asks = [n \in Member |-> asks[n]] /\ views = [n \in Member |-> views[n]]
  /\ told = [n \in Member |-> told[n]]
  /\ \A n \in Member : PollOK(n)

(* The places where the stream of n lacks events, as GapsCounted counts them. *)
Jump(t) == {k \in 2 .. Len(t) : t[k - 1][1] = t[k][1] /\ t[k - 1][2] + 1 < t[k][2]}
Jumps == UNION {{n} \X Jump(told[n]) : n \in Member}

GapInv == IsFiniteSet(Jumps) /\ gaps = Cardinality(Jumps)

LabInv == ProcessInv /\ WorkInv /\ PollInv /\ GapInv

(* Newer of consecutive IDs leaves out the first j, the ones up to id. *)
Suffix(items, j, t) ==
  /\ t \in Seq(Nat) /\ Len(t) = Len(items) - j
  /\ \A k \in 1 .. Len(t) : t[k] = items[j + k]

LEMMA NewerSuffix ==
  ASSUME NEW items, NEW last, Consecutive(items, last), NEW id \in Nat
  PROVE  \E j \in 0 .. Len(items) :
           /\ \A k \in 1 .. Len(items) : items[k] > id <=> k > j
           /\ Suffix(items, j, Newer(items, id))
<1> DEFINE n == Len(items)
           m == id - (last - n)
           j == IF m < 0 THEN 0 ELSE IF m > n THEN n ELSE m
<1>1. /\ items \in Seq(Nat) /\ last \in Nat /\ n \in Nat /\ n <= last
      /\ \A k \in 1 .. n : items[k] = last - n + k
  BY DEF Consecutive
<1>2. j \in 0 .. n /\ \A k \in 1 .. n : items[k] > id <=> k > j
  <2> HIDE DEF n
  <2> QED BY <1>1
<1> HIDE DEF j
<1> DEFINE Loop(f) == f = [k \in 0 .. n |->
                             IF k = 0 THEN <<>> ELSE
                             IF items[k] > id THEN Append(f[k - 1], items[k]) ELSE f[k - 1]]
           f == CHOOSE g : Loop(g)
<1>3. Loop(f)
  <2> DEFINE asked == [k \in 1 .. n |-> <<items[k], id>>]
  <2>1. PICK g : R!Trace(<<>>, asked, n, g)
    BY <1>1, R!TraceExists
  <2>2. g = [k \in 0 .. n |-> g[k]]
    BY <2>1 DEF R!Trace
  <2>3. ASSUME NEW k \in 0 .. n
        PROVE  g[k] = IF k = 0 THEN <<>> ELSE
                      IF items[k] > id THEN Append(g[k - 1], items[k]) ELSE g[k - 1]
    <3>1. g[k] = IF k = 0 THEN <<>> ELSE Picked(g[k - 1], asked[k])
      BY <2>1 DEF R!Trace
    <3>2. CASE k = 0
      BY <3>1, <3>2
    <3>3. CASE k # 0
      <4>1. k \in 1 .. n
        BY <1>1, <3>3
      <4>2. asked[k][1] = items[k] /\ asked[k][2] = id
        BY <4>1
      <4> QED BY <3>1, <3>3, <4>2 DEF Picked
    <3> QED BY <3>2, <3>3
  <2>4. Loop(g)
    <3>1. g = [k \in 0 .. n |->
                 IF k = 0 THEN <<>> ELSE
                 IF items[k] > id THEN Append(g[k - 1], items[k]) ELSE g[k - 1]]
      BY <2>2, <2>3
    <3> QED BY <3>1
  <2> HIDE DEF Loop
  <2> QED BY <2>4
<1>4. Newer(items, id) = f[n]
  BY DEF Newer
<1> HIDE DEF f
<1>5. \A k \in 0 .. n : f[k] = IF k = 0 THEN <<>> ELSE
                          IF items[k] > id THEN Append(f[k - 1], items[k]) ELSE f[k - 1]
  BY <1>3
<1> DEFINE Right(k) == /\ f[k] \in Seq(Nat) /\ Len(f[k]) = IF k <= j THEN 0 ELSE k - j
                       /\ \A i \in 1 .. Len(f[k]) : f[k][i] = items[j + i]
           T == {k \in 0 .. n : ~Right(k)}
<1>6. T = {}
  <2> SUFFICES ASSUME T # {} PROVE FALSE
    OBVIOUS
  <2>1. PICK x \in T : \A y \in T : x <= y
    <3>1. T \subseteq Nat
      BY <1>1
    <3> HIDE DEF T
    <3> QED BY <3>1, R!Least
  <2>2. x \in 0 .. n /\ ~Right(x) /\ x \in Nat
    BY <1>1
  <2> HIDE DEF T
  <2>3. CASE x = 0
    <3>1. f[0] = <<>>
      BY <1>1, <1>5
    <3> QED BY <1>2, <2>2, <2>3, <3>1
  <2>4. CASE x # 0
    <3>1. x - 1 \in 0 .. n /\ x - 1 < x /\ x \in 1 .. n
      BY <1>1, <2>2, <2>4
    <3>2. Right(x - 1)
      <4> DEFINE y == x - 1
      <4>1. y \in 0 .. n /\ y \in Nat /\ ~(x <= y)
        BY <1>1, <2>2, <3>1
      <4> HIDE DEF y
      <4>2. y \notin T
        BY <2>1, <4>1
      <4> HIDE DEF Right
      <4>3. Right(y)
        BY <4>1, <4>2 DEF T
      <4> QED BY <4>3 DEF y
    <3>3. items[x] \in Nat
      <4> HIDE DEF T, n, Right
      <4> QED BY <1>1, <3>1 DEF n
    <3>4. CASE x > j
      <4>1. f[x] = Append(f[x - 1], items[x])
        BY <1>2, <1>5, <2>2, <2>4, <3>1, <3>4
      <4>2. Len(f[x - 1]) = x - 1 - j
        BY <1>2, <3>1, <3>2, <3>4
      <4>3. /\ f[x] \in Seq(Nat) /\ Len(f[x]) = x - j
            /\ \A i \in 1 .. x - 1 - j : f[x][i] = f[x - 1][i]
            /\ f[x][x - j] = items[x]
        <5> DEFINE old == f[x - 1]
                   y == items[x]
                   len == x - 1 - j
        <5>1. old \in Seq(Nat) /\ y \in Nat /\ Len(old) = len /\ len \in Nat /\ len + 1 = x - j
          BY <1>1, <1>2, <2>2, <3>2, <3>3, <3>4, <4>2
        <5> HIDE DEF old, y, len
        <5>2. /\ Append(old, y) \in Seq(Nat) /\ Len(Append(old, y)) = len + 1
              /\ \A i \in 1 .. len : Append(old, y)[i] = old[i]
              /\ Append(old, y)[len + 1] = y
          BY <5>1
        <5> QED BY <4>1, <5>1, <5>2 DEF old, y, len
      <4>4. ASSUME NEW i \in 1 .. Len(f[x]) PROVE f[x][i] = items[j + i]
        <5>1. CASE i = x - j
          <6>1. j + i = x
            BY <1>1, <1>2, <3>1, <5>1
          <6> QED BY <4>3, <5>1, <6>1
        <5>2. CASE i # x - j
          <6>1. i \in 1 .. x - 1 - j
            BY <1>1, <1>2, <3>1, <4>3, <5>2
          <6> QED BY <3>2, <4>2, <4>3, <6>1
        <5> QED BY <5>1, <5>2
      <4>5. Right(x)
        BY <1>2, <2>2, <3>4, <4>3, <4>4
      <4> HIDE DEF Right
      <4> QED BY <2>2, <4>5
    <3>5. CASE ~(x > j)
      <4>1. f[x] = f[x - 1]
        BY <1>2, <1>5, <2>2, <2>4, <3>1, <3>5
      <4>2. x <= j /\ x - 1 <= j
        BY <1>1, <1>2, <2>2, <3>5
      <4> QED BY <2>2, <3>2, <4>1, <4>2
    <3> QED BY <3>4, <3>5
  <2> QED BY <2>3, <2>4
<1>7. Right(n)
  BY <1>1, <1>6
<1>8. Suffix(items, j, Newer(items, id))
  <2>1. Len(f[n]) = n - j
    BY <1>1, <1>2, <1>7
  <2> QED BY <1>4, <1>7, <2>1 DEF Suffix
<1> QED BY <1>2, <1>8


LEMMA ShownGrows ==
  ASSUME ProcessInv, ProcessInv', Grown, NEW n \in Member, NEW b, NEW id \in Nat,
         Shown(b, id, procs[n])
  PROVE  Shown(b, id, procs'[n])
<1>1. /\ Len(procs[n]) \in Nat
      /\ \A c \in 1 .. Len(procs[n]) : procs[n][c].ring.next \in Nat
  BY ProcessFacts
<1>2. /\ Len(procs'[n]) \in Nat
      /\ \A c \in 1 .. Len(procs'[n]) : procs'[n][c].ring.next \in Nat
  <2>1. procs'[n] \in Seq(Process)
    BY DEF ProcessInv, Managed
  <2>2. \A p \in Process : p.ring.next \in Nat
    BY DEF Process, Buffer
  <2> QED BY <2>1, <2>2
<1>3. /\ Len(procs[n]) <= Len(procs'[n])
      /\ Len(procs[n]) = Len(procs'[n]) /\ Len(procs[n]) # 0 =>
           procs[n][Len(procs[n])].ring.next <= procs'[n][Len(procs[n])].ring.next
  BY DEF Grown
<1>4. b \in 0 .. Len(procs[n])
      /\ (b = Len(procs[n]) /\ b # 0 => id <= procs[n][b].ring.next)
  BY DEF Shown
<1>5. b \in 0 .. Len(procs'[n])
  BY <1>1, <1>2, <1>3, <1>4
<1>6. ASSUME b = Len(procs'[n]), b # 0 PROVE id <= procs'[n][b].ring.next
  <2>1. b = Len(procs[n]) /\ b \in 1 .. Len(procs[n]) /\ b \in 1 .. Len(procs'[n])
    BY <1>1, <1>2, <1>3, <1>4, <1>6
  <2>2. id <= procs[n][b].ring.next /\ procs[n][b].ring.next <= procs'[n][b].ring.next
    BY <1>3, <1>4, <1>6, <2>1
  <2>3. procs[n][b].ring.next \in Nat /\ procs'[n][b].ring.next \in Nat
    BY <1>1, <1>2, <2>1
  <2> QED BY <2>2, <2>3
<1> QED BY <1>5, <1>6 DEF Shown

(* Steps that do not touch the polls of n. *)
LEMMA PollStays ==
  ASSUME ProcessInv, ProcessInv', Grown, NEW n \in Member, PollOK(n),
         views'[n] = views[n], told'[n] = told[n], asks'[n] = asks[n]
  PROVE  PollOK(n)'
<1>1. views[n].last \in Nat
  BY DEF PollOK, View
<1>2. Shown(views[n].boot, views[n].last, procs'[n])
  BY <1>1, ShownGrows DEF PollOK
<1>3. asks[n].at = "back" /\ asks[n].got # Nil =>
        Shown(asks[n].got.boot, Newest(asks[n].got.events), procs'[n])
  <2> SUFFICES ASSUME asks[n].at = "back", asks[n].got # Nil
               PROVE  Shown(asks[n].got.boot, Newest(asks[n].got.events), procs'[n])
    OBVIOUS
  <2>1. asks[n].got \in Answer
        /\ Shown(asks[n].got.boot, Newest(asks[n].got.events), procs[n])
    <3>1. asks[n].got \in Answer \cup {Nil}
      BY DEF PollOK
    <3> QED BY <3>1 DEF PollOK
  <2>2. Newest(asks[n].got.events) \in Nat
    BY <2>1 DEF Answer, Consecutive
  <2> QED BY <2>1, <2>2, ShownGrows
<1> QED BY <1>2, <1>3 DEF PollOK

(* What a live node answers: all its buffer holds. *)
LEMMA AnswerOfRing ==
  ASSUME NEW p \in Process
  PROVE  LET events == After(p.ring, 0)
         IN  /\ events \in Seq(Nat) /\ Newest(events) = p.ring.next
             /\ Consecutive(events, p.ring.next)
<1> DEFINE items == p.ring.items
           last == p.ring.next
           events == Newer(items, 0)
<1>1. Consecutive(items, last)
  BY DEF Process
<1>2. After(p.ring, 0) = events
  BY DEF After
<1> HIDE DEF items, last
<1>3. PICK j \in 0 .. Len(items) :
        /\ \A k \in 1 .. Len(items) : items[k] > 0 <=> k > j
        /\ Suffix(items, j, events)
  BY <1>1, NewerSuffix
<1>4. /\ items \in Seq(Nat) /\ last \in Nat /\ Len(items) \in Nat /\ Len(items) <= last
      /\ \A k \in 1 .. Len(items) : items[k] = last - Len(items) + k
      /\ last # 0 => Len(items) # 0
  BY <1>1 DEF Consecutive
<1>5. j = 0
  <2> SUFFICES ASSUME j # 0 PROVE FALSE
    OBVIOUS
  <2>1. j \in 1 .. Len(items)
    BY <1>4
  <2> QED BY <1>3, <1>4, <2>1
<1> HIDE DEF events
<1>6. /\ events \in Seq(Nat) /\ Len(events) = Len(items)
      /\ \A k \in 1 .. Len(events) : events[k] = items[k]
  BY <1>3, <1>4, <1>5 DEF Suffix
<1>7. Consecutive(events, last)
  BY <1>4, <1>6 DEF Consecutive
<1>8. Newest(events) = last
  BY <1>4, <1>6 DEF Newest
<1> QED BY <1>2, <1>6, <1>7, <1>8 DEF last


(* poll publishes what is newer than its cursor.  In numbers: a view (b, l)    *)
(* has fed a stream t of length a; the answer is of process g and has the      *)
(* events d + 1 .. d + m, of which the first j are not newer than cursor c.    *)
Polled(a, m, d, c, j, b, l, g, t, u) ==
  /\ a \in Nat /\ m \in Nat /\ d \in Nat /\ c \in Nat /\ j \in 0 .. m
  /\ b \in Nat /\ l \in Nat /\ g \in Nat
  /\ m = 0 => d = 0
  /\ \A k \in 1 .. m : d + k > c <=> k > j
  /\ g = b => c = l
  /\ g # b => c = 0
  /\ g > b \/ (g = b /\ d + m >= l)
  /\ \A k \in 1 .. a : t[k][1] \in Nat /\ t[k][2] \in Nat /\ t[k][2] # 0
  /\ \A k \in 1 .. a : t[k][1] < b \/ (t[k][1] = b /\ t[k][2] <= l)
  /\ l # 0 => a # 0 /\ t[a][1] = b /\ t[a][2] = l
  /\ \A k \in 1 .. a : k # 1 => Precedes(t[k - 1], t[k])
  /\ \A k \in 1 .. a : u[k] = t[k]
  /\ \A k \in 1 .. m - j : u[a + k][1] = g /\ u[a + k][2] = d + j + k

JumpAt(t, k) == t[k - 1][1] = t[k][1] /\ t[k - 1][2] + 1 < t[k][2]

(* An element of the longer stream is an old one or one of the new ones. *)
LEMMA PolledElement ==
  ASSUME NEW a, NEW m, NEW d, NEW c, NEW j, NEW b, NEW l, NEW g, NEW t, NEW u,
         Polled(a, m, d, c, j, b, l, g, t, u), NEW k \in 1 .. a + m - j, k \notin 1 .. a
  PROVE  /\ u[k][1] = g /\ u[k][2] = d + j + k - a /\ u[k][2] \in Nat
         /\ u[k][2] > c /\ u[k][2] <= d + m /\ k > a
<1>1. /\ a \in Nat /\ m \in Nat /\ d \in Nat /\ c \in Nat /\ j \in 0 .. m
      /\ \A i \in 1 .. m - j : u[a + i][1] = g /\ u[a + i][2] = d + j + i
      /\ \A i \in 1 .. m : d + i > c <=> i > j
  BY DEF Polled
<1>2. k - a \in 1 .. m - j /\ a + (k - a) = k /\ j + (k - a) \in 1 .. m /\ j + (k - a) > j
  BY <1>1
<1>3. u[k][1] = g /\ u[k][2] = d + j + (k - a) /\ d + (j + (k - a)) > c
  BY <1>1, <1>2
<1> QED BY <1>1, <1>2, <1>3

LEMMA PolledOrder ==
  ASSUME NEW a, NEW m, NEW d, NEW c, NEW j, NEW b, NEW l, NEW g, NEW t, NEW u,
         Polled(a, m, d, c, j, b, l, g, t, u)
  PROVE  /\ \A k \in 1 .. a + m - j : ~Precedes(<<g, d + m>>, u[k])
         /\ \A k \in 1 .. a + m - j : k # 1 => Precedes(u[k - 1], u[k])
<1>1. /\ a \in Nat /\ m \in Nat /\ d \in Nat /\ c \in Nat /\ j \in 0 .. m
      /\ b \in Nat /\ l \in Nat /\ g \in Nat
      /\ g = b => c = l
      /\ g > b \/ (g = b /\ d + m >= l)
      /\ \A k \in 1 .. a : t[k][1] \in Nat /\ t[k][2] \in Nat
      /\ \A k \in 1 .. a : t[k][1] < b \/ (t[k][1] = b /\ t[k][2] <= l)
      /\ \A k \in 1 .. a : k # 1 => Precedes(t[k - 1], t[k])
      /\ \A k \in 1 .. a : u[k] = t[k]
  BY DEF Polled
<1>2. ASSUME NEW k \in 1 .. a + m - j PROVE ~Precedes(<<g, d + m>>, u[k])
  <2>1. CASE k \in 1 .. a
    BY <1>1, <2>1 DEF Precedes
  <2>2. CASE k \notin 1 .. a
    <3>1. u[k][1] = g /\ u[k][2] \in Nat /\ u[k][2] <= d + m
      BY <2>2, PolledElement
    <3> QED BY <1>1, <3>1 DEF Precedes
  <2> QED BY <2>1, <2>2
<1>3. ASSUME NEW k \in 1 .. a + m - j, k # 1 PROVE Precedes(u[k - 1], u[k])
  <2>0. k - 1 \in 1 .. a + m - j
    BY <1>1, <1>3
  <2>1. CASE k \in 1 .. a
    <3>1. k - 1 \in 1 .. a
      BY <1>1, <1>3, <2>1
    <3> QED BY <1>1, <1>3, <2>1, <3>1
  <2>2. CASE k \notin 1 .. a /\ k - 1 \in 1 .. a
    <3>1. u[k][1] = g /\ u[k][2] \in Nat /\ u[k][2] > c
      BY <2>2, PolledElement
    <3>2. /\ u[k - 1][1] \in Nat /\ u[k - 1][2] \in Nat
          /\ u[k - 1][1] < b \/ (u[k - 1][1] = b /\ u[k - 1][2] <= l)
      BY <1>1, <2>2
    <3> HIDE DEF Precedes
    <3>3. u[k - 1][1] < g \/ (u[k - 1][1] = g /\ u[k - 1][2] < u[k][2])
      <4> DEFINE x == u[k - 1][1]
                 y == u[k - 1][2]
                 z == u[k][2]
      <4>1. x \in Nat /\ y \in Nat /\ z \in Nat /\ z > c /\ (x < b \/ (x = b /\ y <= l))
        BY <3>1, <3>2
      <4> HIDE DEF x, y, z
      <4>2. x < g \/ (x = g /\ y < z)
        BY <1>1, <4>1
      <4> QED BY <4>2 DEF x, y, z
    <3> QED BY <3>1, <3>3 DEF Precedes
  <2>3. CASE k \notin 1 .. a /\ k - 1 \notin 1 .. a
    <3>1. u[k][1] = g /\ u[k][2] = d + j + k - a
      BY <2>3, PolledElement
    <3>2. u[k - 1][1] = g /\ u[k - 1][2] = d + j + (k - 1) - a
      BY <2>0, <2>3, PolledElement
    <3>3. d + j + (k - 1) - a < d + j + k - a
      BY <1>1
    <3> QED BY <3>1, <3>2, <3>3 DEF Precedes
  <2> QED BY <2>1, <2>2, <2>3
<1> QED BY <1>2, <1>3

LEMMA PolledLast ==
  ASSUME NEW a, NEW m, NEW d, NEW c, NEW j, NEW b, NEW l, NEW g, NEW t, NEW u,
         Polled(a, m, d, c, j, b, l, g, t, u), d + m # 0
  PROVE  /\ a + m - j \in 1 .. a + m - j
         /\ u[a + m - j][1] = g /\ u[a + m - j][2] = d + m
<1>1. /\ a \in Nat /\ m \in Nat /\ d \in Nat /\ c \in Nat /\ j \in 0 .. m
      /\ b \in Nat /\ l \in Nat /\ g \in Nat
      /\ m = 0 => d = 0
      /\ \A k \in 1 .. m : d + k > c <=> k > j
      /\ g = b => c = l
      /\ g # b => c = 0
      /\ g > b \/ (g = b /\ d + m >= l)
      /\ l # 0 => a # 0 /\ t[a][1] = b /\ t[a][2] = l
      /\ \A k \in 1 .. a : u[k] = t[k]
  BY DEF Polled
<1>2. m \in 1 .. m
  BY <1>1
<1>3. CASE j = m
  <2>1. ~(d + m > c)
    BY <1>1, <1>2, <1>3
  <2>2. c # 0 /\ g = b /\ c = l /\ d + m = l
    BY <1>1, <2>1
  <2>3. a \in 1 .. a /\ t[a][1] = b /\ t[a][2] = l /\ a + m - j = a
    BY <1>1, <1>3, <2>2
  <2>4. u[a] = t[a]
    BY <1>1, <2>3
  <2> QED BY <2>2, <2>3, <2>4
<1>4. CASE j # m
  <2>1. a + m - j \in 1 .. a + m - j /\ a + m - j \notin 1 .. a
    BY <1>1, <1>4
  <2>2. u[a + m - j][1] = g /\ u[a + m - j][2] = d + j + (a + m - j) - a
    BY <2>1, PolledElement
  <2>3. d + j + (a + m - j) - a = d + m
    BY <1>1
  <2> QED BY <2>1, <2>2, <2>3
<1> QED BY <1>3, <1>4

(* The condition of eventGaps++ holds just when the stream jumps where the    *)
(* new events begin, and within them it never does.                           *)
LEMMA PolledGap ==
  ASSUME NEW a, NEW m, NEW d, NEW c, NEW j, NEW b, NEW l, NEW g, NEW t, NEW u,
         Polled(a, m, d, c, j, b, l, g, t, u)
  PROVE  /\ (a + 1 \in 2 .. a + m - j /\ JumpAt(u, a + 1)) <=> (m # 0 /\ c > 0 /\ d + 1 > c + 1)
         /\ \A k \in 2 .. a + m - j : k # a + 1 =>
              (JumpAt(u, k) <=> k \in 2 .. a /\ JumpAt(t, k))
<1>1. /\ a \in Nat /\ m \in Nat /\ d \in Nat /\ c \in Nat /\ j \in 0 .. m
      /\ b \in Nat /\ l \in Nat /\ g \in Nat
      /\ \A k \in 1 .. m : d + k > c <=> k > j
      /\ g = b => c = l
      /\ g # b => c = 0
      /\ g > b \/ (g = b /\ d + m >= l)
      /\ \A k \in 1 .. a : t[k][1] \in Nat /\ t[k][2] \in Nat /\ t[k][2] # 0
      /\ \A k \in 1 .. a : t[k][1] < b \/ (t[k][1] = b /\ t[k][2] <= l)
      /\ l # 0 => a # 0 /\ t[a][1] = b /\ t[a][2] = l
      /\ \A k \in 1 .. a : u[k] = t[k]
  BY DEF Polled
<1>2. (a + 1) - 1 = a /\ a + 1 \notin 1 .. a
  BY <1>1
<1>3. ASSUME m # 0, c > 0, d + 1 > c + 1 PROVE a + 1 \in 2 .. a + m - j /\ JumpAt(u, a + 1)
  <2>1. 1 \in 1 .. m /\ j = 0
    BY <1>1, <1>3
  <2>2. g = b /\ c = l /\ a # 0 /\ t[a][1] = g /\ t[a][2] = c
    BY <1>1, <1>3
  <2>3. a + 1 \in 2 .. a + m - j /\ a + 1 \in 1 .. a + m - j /\ a \in 1 .. a
    BY <1>1, <2>1, <2>2
  <2>4. u[a + 1][1] = g /\ u[a + 1][2] = d + j + (a + 1) - a
    BY <1>2, <2>3, PolledElement
  <2>5. d + j + (a + 1) - a = d + 1
    BY <1>1, <2>1
  <2>6. u[a][1] = g /\ u[a][2] = c
    BY <1>1, <2>2, <2>3
  <2> QED BY <1>2, <1>3, <2>3, <2>4, <2>5, <2>6 DEF JumpAt
<1>4. ASSUME a + 1 \in 2 .. a + m - j, JumpAt(u, a + 1) PROVE m # 0 /\ c > 0 /\ d + 1 > c + 1
  <2>1. a + 1 \in 1 .. a + m - j /\ a \in 1 .. a
    BY <1>1, <1>4
  <2>2. u[a + 1][1] = g /\ u[a + 1][2] = d + j + (a + 1) - a
    BY <1>2, <2>1, PolledElement
  <2>3. d + j + (a + 1) - a = d + j + 1
    BY <1>1
  <2>4. u[a] = t[a] /\ t[a][1] \in Nat /\ t[a][2] \in Nat /\ t[a][2] # 0
        /\ (t[a][1] < b \/ (t[a][1] = b /\ t[a][2] <= l))
    BY <1>1, <2>1
  <2>5. t[a][1] = g /\ t[a][2] + 1 < d + j + 1
    <3>1. u[a][1] = u[a + 1][1] /\ u[a][2] + 1 < u[a + 1][2]
      BY <1>2, <1>4 DEF JumpAt
    <3> QED BY <2>2, <2>3, <2>4, <3>1
  <2>6. g = b /\ c = l /\ l # 0
    BY <1>1, <2>4, <2>5
  <2>7. t[a][2] = c
    BY <1>1, <2>6
  <2>8. j = 0
    <3> SUFFICES ASSUME j # 0 PROVE FALSE
      OBVIOUS
    <3>1. j \in 1 .. m /\ ~(d + j > c)
      BY <1>1
    <3> QED BY <1>1, <2>5, <2>7, <3>1
  <2> QED BY <1>1, <1>4, <2>5, <2>6, <2>7, <2>8
<1>5. ASSUME NEW k \in 2 .. a + m - j, k # a + 1
      PROVE  JumpAt(u, k) <=> k \in 2 .. a /\ JumpAt(t, k)
  <2>1. k \in 1 .. a + m - j /\ k - 1 \in 1 .. a + m - j
    BY <1>1
  <2>2. CASE k \in 1 .. a
    <3>1. k - 1 \in 1 .. a /\ k \in 2 .. a
      BY <1>1, <2>2
    <3>2. u[k] = t[k] /\ u[k - 1] = t[k - 1]
      BY <1>1, <2>2, <3>1
    <3> QED BY <3>1, <3>2 DEF JumpAt
  <2>3. CASE k \notin 1 .. a
    <3>1. k - 1 \notin 1 .. a /\ k \notin 2 .. a
      BY <1>1, <1>5, <2>3
    <3>2. u[k][2] = d + j + k - a
      BY <2>1, <2>3, PolledElement
    <3>3. u[k - 1][2] = d + j + (k - 1) - a
      BY <2>1, <3>1, PolledElement
    <3>4. ~(u[k - 1][2] + 1 < u[k][2])
      BY <1>1, <3>2, <3>3
    <3> QED BY <3>1, <3>4 DEF JumpAt
  <2> QED BY <2>2, <2>3
<1> QED BY <1>3, <1>4, <1>5


(* The stream t of a node with view v, once the answer g has been forwarded. *)
Forwarded(t, v, g) ==
  LET new == Newer(g.events, Cursor(v, g))
  IN  t \o [k \in 1 .. Len(new) |-> <<g.boot, new[k]>>]

(* The same for the stream and the events themselves. *)
LEMMA Feeds ==
  ASSUME NEW v \in View, NEW g \in Answer, NEW t, Fed(t, v), Later(g, v), NEW w \in View,
         w.boot = g.boot, w.last = Newest(g.events)
  PROVE  /\ Fed(Forwarded(t, v, g), w) /\ Len(t) \in Nat
         /\ Jump(Forwarded(t, v, g)) =
              Jump(t) \cup (IF Gap(v, g) THEN {Len(t) + 1} ELSE {})
<1> DEFINE events == g.events
           m == Len(events)
           last == Newest(events)
           c == Cursor(v, g)
           new == Newer(events, c)
           fresh == [k \in 1 .. Len(new) |-> <<g.boot, new[k]>>]
           u == t \o fresh
           Pair == Nat \X (Nat \ {0})
<1>1. g.boot \in Nat /\ events \in Seq(Nat) /\ last \in Nat /\ Consecutive(events, last)
  BY DEF Answer, Consecutive
<1>2. v.boot \in Nat /\ v.last \in Nat
  BY DEF View
<1>3. c \in Nat /\ (g.boot = v.boot => c = v.last) /\ (g.boot # v.boot => c = 0)
  BY <1>2 DEF Cursor
<1>4. g.boot > v.boot \/ (g.boot = v.boot /\ last >= v.last)
  BY <1>1, <1>2 DEF Later, Precedes
<1>5. /\ t \in Seq(Pair) /\ Len(t) \in Nat
      /\ \A k \in 1 .. Len(t) : t[k][1] \in Nat /\ t[k][2] \in Nat \ {0}
  BY DEF Fed
<1>6. \A k \in 1 .. Len(t) : t[k][1] < v.boot \/ (t[k][1] = v.boot /\ t[k][2] <= v.last)
  <2> SUFFICES ASSUME NEW k \in 1 .. Len(t)
               PROVE  t[k][1] < v.boot \/ (t[k][1] = v.boot /\ t[k][2] <= v.last)
    OBVIOUS
  <2> DEFINE x == t[k][1]
             y == t[k][2]
  <2>1. ~Precedes(<<v.boot, v.last>>, t[k])
    BY DEF Fed
  <2>2. ~(v.boot < x \/ (v.boot = x /\ v.last < y)) /\ x \in Nat /\ y \in Nat
    BY <1>5, <2>1 DEF Precedes
  <2> HIDE DEF x, y
  <2>3. x < v.boot \/ (x = v.boot /\ y <= v.last)
    BY <1>2, <2>2
  <2> QED BY <2>3 DEF x, y
<1>7. /\ v.last # 0 => Len(t) # 0 /\ t[Len(t)] = <<v.boot, v.last>>
      /\ \A k \in 1 .. Len(t) : k # 1 => Precedes(t[k - 1], t[k])
  BY DEF Fed
<1>8. Gap(v, g) <=> m # 0 /\ c > 0 /\ events[1] > c + 1
  <2>1. events # <<>> <=> m # 0
    BY <1>1
  <2>2. m # 0 => Head(events) = events[1]
    BY <1>1, <2>1
  <2> QED BY <2>1, <2>2 DEF Gap
<1> HIDE DEF c, last, events, new
<1>9. PICK j \in 0 .. m :
        /\ \A k \in 1 .. m : events[k] > c <=> k > j
        /\ Suffix(events, j, new)
  BY <1>1, <1>3, NewerSuffix DEF new
<1>10. /\ m \in Nat /\ m <= last /\ (last # 0 => m # 0)
       /\ \A k \in 1 .. m : events[k] = last - m + k
  BY <1>1 DEF Consecutive
<1>11. /\ new \in Seq(Nat) /\ Len(new) = m - j /\ Len(new) \in Nat
       /\ \A k \in 1 .. Len(new) : new[k] = events[j + k]
  BY <1>9, <1>10 DEF Suffix
<1> HIDE DEF m
<1> DEFINE d == last - m
           a == Len(t)
<1>12. d \in Nat /\ d + m = last /\ (m = 0 => d = 0) /\ a \in Nat
  BY <1>1, <1>5, <1>10
<1>13. \A k \in 1 .. m : events[k] = d + k
  BY <1>10
<1> HIDE DEF d
<1>14. \A k \in 1 .. m : d + k > c <=> k > j
  BY <1>9, <1>13
<1>15. ASSUME NEW k \in 1 .. m - j PROVE new[k] = d + j + k /\ new[k] \in Nat \ {0}
  <2>1. k \in 1 .. Len(new) /\ j + k \in 1 .. m /\ j + k > j
    BY <1>9, <1>10, <1>11
  <2>2. new[k] = d + (j + k) /\ d + (j + k) > c
    BY <1>11, <1>13, <1>14, <2>1
  <2> QED BY <1>3, <1>9, <1>10, <1>12, <2>2
<1>16. /\ fresh \in Seq(Pair) /\ Len(fresh) = m - j
       /\ \A k \in 1 .. m - j : fresh[k][1] = g.boot /\ fresh[k][2] = d + j + k
  <2>1. \A k \in 1 .. Len(new) : <<g.boot, new[k]>> \in Pair
    BY <1>1, <1>11, <1>15
  <2> HIDE DEF Pair
  <2>2. fresh \in Seq(Pair) /\ Len(fresh) = Len(new)
    BY <1>11, <2>1
  <2> QED BY <1>11, <1>15, <2>2
<1> HIDE DEF fresh, Pair
<1>17. /\ u \in Seq(Pair) /\ Len(u) = a + m - j
       /\ \A k \in 1 .. a : u[k] = t[k]
       /\ \A k \in 1 .. m - j : u[a + k] = fresh[k]
  <2> DEFINE q == m - j
  <2>1. t \in Seq(Pair) /\ fresh \in Seq(Pair) /\ Len(fresh) = q /\ q \in Nat
    BY <1>5, <1>9, <1>10, <1>16
  <2> HIDE DEF q
  <2>2. u \in Seq(Pair) /\ Len(u) = Len(t) + q
    BY <2>1
  <2>3. \A k \in 1 .. Len(t) : u[k] = t[k]
    BY <2>1
  <2>4. ASSUME NEW k \in 1 .. q PROVE u[a + k] = fresh[k]
    <3>1. a + k \in 1 .. Len(t) + Len(fresh) /\ a + k > Len(t) /\ (a + k) - Len(t) = k
      BY <1>12, <2>1
    <3> QED BY <2>1, <3>1
  <2> QED BY <2>2, <2>3, <2>4 DEF q
<1> HIDE DEF u, a
<1>18. Polled(a, m, d, c, j, v.boot, v.last, g.boot, t, u)
  <2>1. \A k \in 1 .. a : t[k][1] \in Nat /\ t[k][2] \in Nat /\ t[k][2] # 0
    BY <1>5 DEF a
  <2>2. \A k \in 1 .. a : t[k][1] < v.boot \/ (t[k][1] = v.boot /\ t[k][2] <= v.last)
    BY <1>6 DEF a
  <2>3. v.last # 0 => a # 0 /\ t[a][1] = v.boot /\ t[a][2] = v.last
    BY <1>7 DEF a
  <2>4. \A k \in 1 .. a : k # 1 => Precedes(t[k - 1], t[k])
    BY <1>7 DEF a
  <2>5. \A k \in 1 .. m - j : u[a + k][1] = g.boot /\ u[a + k][2] = d + j + k
    BY <1>16, <1>17
  <2>6. g.boot > v.boot \/ (g.boot = v.boot /\ d + m >= v.last)
    BY <1>4, <1>12
  <2> QED
    BY <1>1, <1>2, <1>3, <1>9, <1>10, <1>12, <1>14, <1>17, <2>1, <2>2, <2>3, <2>4, <2>5, <2>6
    DEF Polled
<1>19. Fed(u, w)
  <2>1. w.boot = g.boot /\ w.last = d + m /\ w.last = last
    BY <1>12 DEF last, events
  <2>0. /\ \A k \in 1 .. a + m - j : ~Precedes(<<g.boot, d + m>>, u[k])
        /\ \A k \in 1 .. a + m - j : k # 1 => Precedes(u[k - 1], u[k])
    BY <1>18, PolledOrder
  <2>2. \A k \in 1 .. Len(u) : ~Precedes(<<w.boot, w.last>>, u[k])
    BY <1>17, <2>0, <2>1
  <2>3. \A k \in 1 .. Len(u) : k # 1 => Precedes(u[k - 1], u[k])
    BY <1>17, <2>0
  <2>4. ASSUME w.last # 0 PROVE Len(u) # 0 /\ u[Len(u)] = <<w.boot, w.last>>
    <3>1. /\ Len(u) \in 1 .. Len(u)
          /\ u[Len(u)][1] = g.boot /\ u[Len(u)][2] = d + m
      BY <1>17, <1>18, <2>1, <2>4, PolledLast
    <3>2. u[Len(u)] \in Pair
      BY <1>17, <3>1
    <3>3. u[Len(u)] = <<u[Len(u)][1], u[Len(u)][2]>>
      BY <3>2 DEF Pair
    <3>4. Len(u) # 0
      BY <3>1
    <3> QED BY <2>1, <3>1, <3>3, <3>4
  <2> QED BY <1>17, <2>2, <2>3, <2>4 DEF Fed, Pair
<1>20. Jump(u) = Jump(t) \cup (IF Gap(v, g) THEN {a + 1} ELSE {})
  <2>1. (a + 1 \in 2 .. a + m - j /\ JumpAt(u, a + 1)) <=> Gap(v, g)
    <3>1. m # 0 => events[1] = d + 1
      BY <1>10, <1>13
    <3> QED BY <1>8, <1>18, <3>1, PolledGap
  <2>2. \A k \in 2 .. a + m - j : k # a + 1 => (JumpAt(u, k) <=> k \in 2 .. a /\ JumpAt(t, k))
    BY <1>18, PolledGap
  <2>3. Jump(u) = {k \in 2 .. a + m - j : JumpAt(u, k)}
    BY <1>17 DEF Jump, JumpAt
  <2>4. Jump(t) = {k \in 2 .. a : JumpAt(t, k)}
    BY DEF Jump, JumpAt, a
  <2>5. 2 .. a \subseteq 2 .. a + m - j /\ a + 1 \notin 2 .. a
    BY <1>9, <1>10, <1>12
  <2> DEFINE all == 2 .. a + m - j
             old == 2 .. a
             first == a + 1
  <2> HIDE DEF all, old, first
  <2>6. {k \in all : JumpAt(u, k)}
          = {k \in old : JumpAt(t, k)} \cup (IF Gap(v, g) THEN {first} ELSE {})
    <3>1. (first \in all /\ JumpAt(u, first)) <=> Gap(v, g)
      BY <2>1 DEF first, all
    <3>2. \A k \in all : k # first => (JumpAt(u, k) <=> k \in old /\ JumpAt(t, k))
      BY <2>2 DEF first, all, old
    <3>3. old \subseteq all /\ first \notin old
      BY <2>5 DEF first, all, old
    <3> QED BY <3>1, <3>2, <3>3
  <2> QED BY <2>3, <2>4, <2>6 DEF all, old, first
<1>21. u = Forwarded(t, v, g)
  BY DEF u, fresh, new, c, events, Forwarded
<1> QED BY <1>12, <1>19, <1>20, <1>21 DEF a


LEMMA PollInitially == LabInit => PollInv
<1> SUFFICES ASSUME LabInit PROVE PollInv
  OBVIOUS
<1>1. /\ asks = [n \in Member |-> [at |-> "none", got |-> Nil]]
      /\ views = [n \in Member |-> [online |-> FALSE, boot |-> 0, last |-> 0]]
      /\ told = [n \in Member |-> <<>>] /\ procs = [n \in Member |-> <<>>]
  BY DEF LabInit
<1>2. ASSUME NEW n \in Member PROVE PollOK(n)
  <2>1. /\ asks[n] = [at |-> "none", got |-> Nil]
        /\ told[n] = <<>> /\ procs[n] = <<>>
    BY <1>1
  <2>2. views[n] = [online |-> FALSE, boot |-> 0, last |-> 0]
    BY <1>1
  <2>3. views[n] \in View /\ views[n].boot = 0 /\ views[n].last = 0
    BY <2>2 DEF View
  <2>4. Shown(0, 0, <<>>)
    BY DEF Shown
  <2>5. Fed(<<>>, views[n])
    BY <2>3 DEF Fed
  <2> QED BY <2>1, <2>3, <2>4, <2>5 DEF PollOK
<1> QED BY <1>1, <1>2 DEF PollInv

LEMMA GapInitially == LabInit => GapInv
<1> SUFFICES ASSUME LabInit PROVE GapInv
  OBVIOUS
<1>1. \A n \in Member : Jump(told[n]) = {}
  BY DEF LabInit, Jump
<1>2. Jumps = {}
  BY <1>1 DEF Jumps
<1>3. gaps = 0
  BY DEF LabInit
<1> QED BY <1>2, <1>3, FS_EmptySet DEF GapInv

(* poll asks every member again. *)
LEMMA BeginKeepsPolls ==
  ASSUME ProcessInv, ProcessInv', Grown, PollInv, PollBegin
  PROVE  PollInv'
<1>1. /\ asks' = [n \in Member |-> [at |-> "sent", got |-> Nil]]
      /\ views' = views /\ told' = told
  BY DEF PollBegin
<1>2. ASSUME NEW n \in Member PROVE PollOK(n)'
  <2>1. asks'[n] = [at |-> "sent", got |-> Nil]
    BY <1>1
  <2>2. views[n].last \in Nat
    BY DEF PollInv, PollOK, View
  <2>3. Shown(views[n].boot, views[n].last, procs'[n])
    BY <2>2, ShownGrows DEF PollInv, PollOK
  <2> QED BY <1>1, <2>1, <2>3 DEF PollInv, PollOK
<1> QED BY <1>1, <1>2 DEF PollInv

(* The answer of a live process shows all the view of n shows, and more. *)
LEMMA AnsweredKeepsPolls ==
  ASSUME ProcessInv, ProcessInv', Grown, PollInv, NEW n \in Member, PollAnswered(n)
  PROVE  PollInv'
<1>1. views' = views /\ told' = told /\ procs' = procs
  BY DEF PollAnswered, processVars
<1>2. asks = [k \in Member |-> asks[k]] /\ asks[n].at = "sent"
  BY DEF PollInv, PollAnswered
<1>3. asks' = [k \in Member |-> asks'[k]] /\ \A k \in Member : k # n => asks'[k] = asks[k]
  BY <1>2 DEF PollAnswered
<1>4. ASSUME NEW k \in Member, k # n PROVE PollOK(k)'
  BY <1>1, <1>3, <1>4, PollStays DEF PollInv
<1>5. PollOK(n) /\ views[n] \in View
  BY DEF PollInv, PollOK
<1>6. PollOK(n)'
  <2>1. CASE asks' = [asks EXCEPT ![n] = [at |-> "back", got |-> Nil]]
    <3>1. asks'[n] = [at |-> "back", got |-> Nil]
      BY <1>2, <2>1
    <3> QED BY <1>1, <1>5, <3>1 DEF PollOK
  <2>2. CASE /\ Alive(n)
             /\ asks' = [asks EXCEPT ![n].at = "back",
                   ![n].got = [boot |-> Boot(n),
                               events |-> After(procs[n][Boot(n)].ring, 0)]]
    <3> DEFINE p == procs[n][Boot(n)]
               g == [boot |-> Boot(n), events |-> After(p.ring, 0)]
    <3>1. Boot(n) = Len(procs[n]) /\ Boot(n) \in 1 .. Len(procs[n]) /\ Boot(n) \in Nat
      BY <2>2, AliveFacts, ProcessFacts
    <3>2. p \in Process /\ p.ring.next \in Nat
      BY <3>1, ProcessFacts
    <3>3. asks'[n] = [at |-> "back", got |-> g]
      <4>1. asks[n] \in [at : {"none", "sent", "back"}, got : Answer \cup {Nil}]
        BY <1>5 DEF PollOK
      <4> HIDE DEF g
      <4>2. asks' = [asks EXCEPT ![n].at = "back", ![n].got = g]
        BY <2>2 DEF g
      <4> QED BY <1>2, <4>1, <4>2
    <3> DEFINE events == After(p.ring, 0)
               last == p.ring.next
    <3>4. events \in Seq(Nat) /\ Newest(events) = last /\ Consecutive(events, last)
      BY <3>2, AnswerOfRing
    <3>5. g.boot = Boot(n) /\ g.events = events
      OBVIOUS
    <3>6. g \in Answer
      <4>1. g = [boot |-> Boot(n), events |-> events]
        OBVIOUS
      <4> HIDE DEF g, events, last
      <4> QED BY <3>1, <3>4, <4>1 DEF Answer
    <3>7. Later(g, views[n])
      <4>1. Shown(views[n].boot, views[n].last, procs[n])
        BY <1>5 DEF PollOK
      <4>2. /\ views[n].boot \in Nat /\ views[n].last \in Nat /\ views[n].boot <= Boot(n)
            /\ views[n].boot = Boot(n) => views[n].last <= last
        BY <1>5, <3>1, <4>1 DEF Shown, View
      <4>3. ~Precedes(<<Boot(n), last>>, <<views[n].boot, views[n].last>>)
        BY <3>1, <3>2, <4>2 DEF Precedes
      <4> HIDE DEF g, events, last
      <4> QED BY <3>4, <3>5, <4>3 DEF Later
    <3>8. Shown(g.boot, Newest(g.events), procs[n])
      <4>1. Shown(Boot(n), last, procs[n])
        BY <3>1, <3>2 DEF Shown
      <4> HIDE DEF g, events, last
      <4> QED BY <3>4, <3>5, <4>1
    <3> HIDE DEF g
    <3>9. asks'[n].got = g /\ asks'[n] \in [at : {"none", "sent", "back"}, got : Answer \cup {Nil}]
      BY <3>3, <3>6
    <3> QED BY <1>1, <1>5, <3>7, <3>8, <3>9 DEF PollOK
  <2> QED BY <2>1, <2>2 DEF PollAnswered
<1> QED BY <1>1, <1>3, <1>4, <1>6 DEF PollInv


(* The stream and the gaps after poll has stored what came back from n. *)
LEMMA StoreKeepsPolls ==
  ASSUME ProcessInv, ProcessInv', Grown, PollInv, GapInv, NEW n \in Member, PollStore(n)
  PROVE  PollInv' /\ GapInv'
<1> DEFINE got == asks[n].got
<1>1. /\ asks = [k \in Member |-> asks[k]] /\ views = [k \in Member |-> views[k]]
      /\ told = [k \in Member |-> told[k]]
  BY DEF PollInv
<1>2. asks' = [asks EXCEPT ![n] = [at |-> "none", got |-> Nil]] /\ procs' = procs
      /\ asks[n].at = "back"
  BY DEF PollStore, processVars
<1>3. /\ asks' = [k \in Member |-> asks'[k]] /\ asks'[n] = [at |-> "none", got |-> Nil]
      /\ \A k \in Member : k # n => asks'[k] = asks[k]
  BY <1>1, <1>2
<1>4. PollOK(n)
  BY DEF PollInv
<1>5. CASE got = Nil
  <2>1. views' = [views EXCEPT ![n] = Unseen(@)] /\ gaps' = gaps /\ told' = told
    BY <1>5 DEF PollStore
  <2>2. /\ views' = [k \in Member |-> views'[k]] /\ views'[n] = Unseen(views[n])
        /\ \A k \in Member : k # n => views'[k] = views[k]
    BY <1>1, <2>1
  <2>3. ASSUME NEW k \in Member, k # n PROVE PollOK(k)'
    BY <1>3, <2>1, <2>2, <2>3, PollStays DEF PollInv
  <2>4. views'[n] \in View /\ views'[n].boot = views[n].boot /\ views'[n].last = views[n].last
    BY <1>4, <2>2 DEF PollOK, View, Unseen
  <2>5. Fed(told[n], views'[n])
    BY <1>4, <2>4 DEF PollOK, Fed
  <2>6. PollOK(n)'
    BY <1>2, <1>3, <1>4, <2>1, <2>4, <2>5 DEF PollOK
  <2>7. GapInv'
    BY <2>1 DEF GapInv, Jumps
  <2> QED BY <1>1, <1>3, <2>1, <2>2, <2>3, <2>6, <2>7 DEF PollInv
<1>6. CASE got # Nil
  <2> DEFINE w == [online |-> TRUE, boot |-> got.boot,
                   last |-> IF got.events = <<>> THEN 0 ELSE Last(got.events)]
             u == Forwarded(told[n], views[n], got)
  <2>1. /\ views' = [views EXCEPT ![n] = w]
        /\ gaps' = gaps + (IF Gap(views[n], got) THEN 1 ELSE 0)
        /\ told' = [told EXCEPT ![n] = u]
    BY <1>6 DEF PollStore, Forwarded
  <2>2. got \in Answer /\ views[n] \in View /\ Later(got, views[n]) /\ Fed(told[n], views[n])
        /\ Shown(got.boot, Newest(got.events), procs[n])
    <3>1. got \in Answer \cup {Nil}
      BY <1>4 DEF PollOK
    <3> QED BY <1>2, <1>4, <1>6, <3>1 DEF PollOK
  <2>3. w \in View /\ w.boot = got.boot /\ w.last = Newest(got.events)
    <3>1. got.boot \in Nat /\ got.events \in Seq(Nat) /\ Newest(got.events) \in Nat
      BY <2>2 DEF Answer, Consecutive
    <3>2. (IF got.events = <<>> THEN 0 ELSE Last(got.events)) = Newest(got.events)
      <4> DEFINE e == got.events
      <4>1. e \in Seq(Nat)
        BY <3>1
      <4> HIDE DEF e
      <4>2. (IF e = <<>> THEN 0 ELSE Last(e)) = Newest(e)
        BY <4>1 DEF Last, Newest
      <4> QED BY <4>2 DEF e
    <3> QED BY <3>1, <3>2 DEF View
  <2> HIDE DEF w
  <2>4. /\ Fed(u, w) /\ Len(told[n]) \in Nat
        /\ Jump(u) = Jump(told[n])
                       \cup (IF Gap(views[n], got) THEN {Len(told[n]) + 1} ELSE {})
    BY <2>2, <2>3, Feeds
  <2> HIDE DEF u
  <2>5. /\ views' = [k \in Member |-> views'[k]] /\ told' = [k \in Member |-> told'[k]]
        /\ views'[n] = w /\ told'[n] = u
        /\ \A k \in Member : k # n => views'[k] = views[k] /\ told'[k] = told[k]
    BY <1>1, <2>1
  <2>6. ASSUME NEW k \in Member, k # n PROVE PollOK(k)'
    BY <1>3, <2>5, <2>6, PollStays DEF PollInv
  <2>7. PollOK(n)'
    BY <1>2, <1>3, <2>2, <2>3, <2>4, <2>5 DEF PollOK
  <2>8. GapInv'
    <3> DEFINE x == <<n, Len(told[n]) + 1>>
    <3>1. IsFiniteSet(Jumps) /\ gaps = Cardinality(Jumps)
      BY DEF GapInv
    <3>2. x \notin Jumps
      <4>1. Len(told[n]) + 1 \notin Jump(told[n])
        BY <2>4 DEF Jump
      <4> QED BY <4>1 DEF Jumps
    <3>3. CASE Gap(views[n], got)
      <4>1. Jumps' = Jumps \cup {x}
        BY <2>4, <2>5, <3>3 DEF Jumps
      <4>2. IsFiniteSet(Jumps \cup {x}) /\ Cardinality(Jumps \cup {x}) = Cardinality(Jumps) + 1
        BY <3>1, <3>2, FS_AddElement
      <4> QED BY <2>1, <3>1, <3>3, <4>1, <4>2 DEF GapInv
    <3>4. CASE ~Gap(views[n], got)
      <4>1. Jumps' = Jumps
        BY <2>4, <2>5, <3>4 DEF Jumps
      <4>2. gaps' = gaps
        BY <2>1, <3>1, <3>4, FS_CardinalityType
      <4> QED BY <3>1, <4>1, <4>2 DEF GapInv
    <3> QED BY <3>3, <3>4
  <2> QED BY <1>3, <2>5, <2>6, <2>7, <2>8 DEF PollInv
<1> QED BY <1>5, <1>6

LEMMA PollStep ==
  ASSUME ProcessInv, ProcessInv', Grown, PollInv, GapInv, [LabNext]_labVars
  PROVE  PollInv' /\ GapInv'
<1>1. ASSUME asks' = asks, views' = views, told' = told, gaps' = gaps
      PROVE  PollInv' /\ GapInv'
  <2>1. ASSUME NEW n \in Member PROVE PollOK(n)'
    BY <1>1, PollStays DEF PollInv
  <2>2. GapInv'
    BY <1>1 DEF GapInv, Jumps
  <2> QED BY <1>1, <2>1, <2>2 DEF PollInv
<1> USE DEF pollVars
<1>2. CASE UNCHANGED labVars
  BY <1>1, <1>2 DEF labVars
<1>3. CASE Control
  <2>1. asks' = asks /\ views' = views /\ told' = told /\ gaps' = gaps
    BY <1>3 DEF Control, Restart, Crash, Pause, SetFaults, Workload, Reset
  <2> QED BY <1>1, <2>1
<1>4. CASE Nodes
  <2>1. asks' = asks /\ views' = views /\ told' = told /\ gaps' = gaps
    BY <1>4 DEF Nodes, Happens, Exit, ProxyReceives
  <2> QED BY <1>1, <2>1
<1>5. CASE Work
  <2>1. ASSUME NEW n \in Member, NewStarts(n) PROVE PollInv' /\ GapInv'
    BY <1>1, <2>1 DEF NewStarts
  <2>2. ASSUME NEW n \in Member, PollAnswered(n) PROVE PollInv' /\ GapInv'
    <3>1. gaps' = gaps /\ told' = told
      BY <2>2 DEF PollAnswered
    <3> QED BY <2>2, <3>1, AnsweredKeepsPolls DEF GapInv, Jumps
  <2>3. ASSUME NEW n \in Member, PollStore(n) PROVE PollInv' /\ GapInv'
    BY <2>3, StoreKeepsPolls
  <2>4. ASSUME NEW n \in Member, NEW b \in 1 .. Boot(n), Reap(n, b) \/ PublishExit(n, b)
        PROVE  PollInv' /\ GapInv'
    BY <1>1, <2>4 DEF Reap, PublishExit
  <2>5. CASE PollBegin
    <3>1. gaps' = gaps /\ told' = told
      BY <2>5 DEF PollBegin
    <3> QED BY <2>5, <3>1, BeginKeepsPolls DEF GapInv, Jumps
  <2>6. CASE NewDone \/ PollReturns \/ PollEnds
    BY <1>1, <2>6 DEF NewDone, PollReturns, PollEnds
  <2>7. CASE ResetGoesOn
    BY <1>1, <2>7 DEF ResetGoesOn
  <2>8. ASSUME NEW r \in admin, AdminReturns(r) PROVE PollInv' /\ GapInv'
    BY <1>1, <2>8 DEF AdminReturns
  <2>9. ASSUME NEW p \in packets, ProxyLooks(p) \/ ProxyAnswered(p) \/ ProxyEnds(p)
        PROVE  PollInv' /\ GapInv'
    BY <1>1, <2>9 DEF ProxyLooks, ProxyAnswered, ProxyEnds
  <2>10. ASSUME NEW k \in 1 .. Len(tasks), TaskCalls(k) \/ TaskReturns(k) \/ TaskEnds(k)
         PROVE  PollInv' /\ GapInv'
    BY <1>1, <2>10 DEF TaskCalls, TaskReturns, TaskEnds
  <2>11. CASE CloseBegin \/ CloseReturns
    BY <1>1, <2>11 DEF CloseBegin, CloseReturns
  <2> QED
    BY <1>5, <2>1, <2>2, <2>3, <2>4, <2>5, <2>6, <2>7, <2>8, <2>9, <2>10, <2>11 DEF Work
<1> QED BY <1>2, <1>3, <1>4, <1>5 DEF LabNext


-----------------------------------------------------------------------------
(* The properties of the lab.                                               *)

LEMMA LabInvariant == LabSpec => []LabInv
<1>1. LabInit => LabInv
  BY ProcessInitially, WorkInitially, PollInitially, GapInitially DEF LabInv
<1>2. LabInv /\ [LabNext]_labVars => LabInv'
  <2> SUFFICES ASSUME LabInv, [LabNext]_labVars PROVE LabInv'
    OBVIOUS
  <2>1. ProcessInv' /\ Grown
    BY ProcessStep DEF LabInv
  <2>2. WorkInv'
    BY WorkStep DEF LabInv
  <2>3. PollInv' /\ GapInv'
    BY <2>1, PollStep DEF LabInv
  <2> QED BY <2>1, <2>2, <2>3 DEF LabInv
<1> QED BY <1>1, <1>2, PTL DEF LabSpec

(* However many members there are and however crashes, restarts, resets and  *)
(* the waiting goroutines interleave, Manager.Start never leaves a member    *)
(* with two live processes.                                                  *)
THEOREM OneProcessEach == LabSpec => []OneProcess
<1>1. LabInv => OneProcess
  <2> SUFFICES ASSUME LabInv, NEW n \in Member
               PROVE  Cardinality({b \in 1 .. Boot(n) : Lives(procs[n][b])}) <= 1
    BY DEF OneProcess
  <2> DEFINE s == procs[n]
             live == {b \in 1 .. Boot(n) : Lives(procs[n][b])}
  <2>1. Managed(s, running[n])
    BY DEF LabInv, ProcessInv
  <2>2. Len(s) \in Nat /\ \A b \in 1 .. Len(s) : b # Len(s) => ~Waited(s[b])
    BY <2>1 DEF Managed
  <2>3. live \subseteq {Len(s)}
    BY <2>2 DEF Boot, Lives, Waited
  <2> HIDE DEF live
  <2>4. live = {} \/ live = {Len(s)}
    BY <2>3
  <2>5. Cardinality(live) = 0 \/ Cardinality(live) = 1
    BY <2>4, FS_EmptySet, FS_Singleton
  <2>6. Cardinality(live) <= 1
    BY <2>5
  <2> QED BY <2>6 DEF live
<1> QED BY <1>1, LabInvariant, PTL

(* When Manager.Close has returned, no node process of any member is left:   *)
(* nothing starts behind the kills.                                          *)
THEOREM NothingLeft == LabSpec => []NoOrphans
<1>1. LabInv => NoOrphans
  <2> SUFFICES ASSUME LabInv, stage = "closed", NEW n \in Member PROVE ~Alive(n)
    BY DEF NoOrphans
  <2>1. procs[n] \in Seq(Process) /\ Boot(n) \in Nat
    BY ProcessFacts DEF LabInv, Boot
  <2>2. \A b \in 1 .. Boot(n) : procs[n][b].life = "done"
    BY DEF LabInv, ProcessInv, Boot
  <2>3. Boot(n) # 0 => procs[n][Boot(n)].life = "done"
    BY <2>1, <2>2
  <2> QED BY <2>3 DEF Alive, Lives
<1> QED BY <1>1, LabInvariant, PTL

(* For every size of the event buffers: poll puts each event of a process in *)
(* the stream at most once and in order, across failed polls, answers that   *)
(* come late, and processes that are replaced.                               *)
THEOREM StreamOrdered == LabSpec => []EventsInOrder
<1>1. LabInv => EventsInOrder
  <2> SUFFICES ASSUME LabInv, NEW n \in Member, NEW k \in 2 .. Len(told[n])
               PROVE  \/ told[n][k - 1][1] < told[n][k][1]
                      \/ told[n][k - 1][1] = told[n][k][1] /\ told[n][k - 1][2] < told[n][k][2]
    BY DEF EventsInOrder
  <2>1. Fed(told[n], views[n])
    BY DEF LabInv, PollInv, PollOK
  <2>2. Len(told[n]) \in Nat
    BY <2>1 DEF Fed
  <2>3. k \in 1 .. Len(told[n]) /\ k # 1
    BY <2>2
  <2>4. Precedes(told[n][k - 1], told[n][k])
    BY <2>1, <2>3 DEF Fed
  <2> QED BY <2>4 DEF Precedes
<1> QED BY <1>1, LabInvariant, PTL

(* For every size of the event buffers: eventGaps counts exactly the places  *)
(* of the stream where an overflow of a process's buffer lost events.        *)
THEOREM GapsExact == LabSpec => []GapsCounted
<1>1. LabInv => GapsCounted
  BY DEF LabInv, GapInv, GapsCounted, Jumps, Jump
<1> QED BY <1>1, LabInvariant, PTL

(* Workload's switch and its goroutines: while the lab is open, exactly one  *)
(* goroutine goes on sending commands when the switch is on, none when off,  *)
(* however often it is switched.                                             *)
THEOREM OneWorker == LabSpec => []OneWorkload
<1>1. LabInv => OneWorkload
  <2> DEFINE going == {k \in 1 .. Len(tasks) : ~tasks[k].cancelled}
  <2> SUFFICES ASSUME LabInv, ~Closing
               PROVE  Cardinality(going) = IF switch THEN 1 ELSE 0
    BY DEF OneWorkload
  <2>1. /\ Len(tasks) \in Nat /\ switch \in BOOLEAN
        /\ \A k \in 1 .. Len(tasks) : k # Len(tasks) => tasks[k].cancelled
        /\ switch <=> (Len(tasks) # 0 /\ ~tasks[Len(tasks)].cancelled)
    BY DEF LabInv, WorkInv
  <2>2. CASE switch
    <3>1. going = {Len(tasks)}
      BY <2>1, <2>2
    <3> HIDE DEF going
    <3> QED BY <2>2, <3>1, FS_Singleton
  <2>3. CASE ~switch
    <3>1. going = {}
      BY <2>1, <2>3
    <3> HIDE DEF going
    <3> QED BY <2>3, <3>1, FS_EmptySet
  <2> QED BY <2>2, <2>3
<1> QED BY <1>1, LabInvariant, PTL
-----------------------------------------------------------------------------
(* The proxies.                                                             *)

Packet == [from : Member, to : Member, at : {"held", "sent", "answered", "returned"},
           overtaken : BOOLEAN]

(* What the proxy let go to or from an isolated member, it let go before. *)
PacketInv ==
  /\ packets \subseteq Packet
  /\ NothingCrosses

(* No proxy has a packet when the lab starts. *)
LEMMA PacketInitially == LabInit => PacketInv
BY DEF LabInit, PacketInv, NothingCrosses

(* A step that leaves packets and isolated members alone. *)
LEMMA PacketStays ==
  ASSUME PacketInv, packets' = packets, isolated' = isolated
  PROVE  PacketInv'
BY DEF PacketInv, NothingCrosses, Blocked, LetGo

(* SetFaults marks what is past the last look. *)
LEMMA FaultsKeepPackets ==
  ASSUME PacketInv, NEW set \in SUBSET Member, NEW loss \in BOOLEAN, SetFaults(set, loss)
  PROVE  PacketInv'
<1>1. isolated' = set
  BY DEF SetFaults
<1>2. ASSUME NEW q \in packets' PROVE q \in Packet /\ (LetGo(q) /\ Blocked(q)' => q.overtaken)
  <2>1. PICK p \in packets :
          q = [p EXCEPT !.overtaken = @ \/ (LetGo(p) /\ {p.from, p.to} \cap set # {})]
    BY DEF SetFaults
  <2>2. p \in Packet
    BY DEF PacketInv
  <2> DEFINE caught == p.overtaken \/ (LetGo(p) /\ {p.from, p.to} \cap set # {})
  <2>3. q = [p EXCEPT !.overtaken = caught]
    BY <2>1
  <2>4. caught \in BOOLEAN
    BY <2>2 DEF Packet
  <2>5. LetGo(p) /\ (p.from \in set \/ p.to \in set) => caught
    OBVIOUS
  <2> HIDE DEF caught
  <2>6. /\ q \in Packet /\ q.overtaken = caught
        /\ q.from = p.from /\ q.to = p.to /\ q.at = p.at
    BY <2>2, <2>3, <2>4 DEF Packet
  <2> QED BY <1>1, <2>5, <2>6 DEF LetGo, Blocked
<1> QED BY <1>2 DEF PacketInv, NothingCrosses, LetGo

(* A packet that leaves the proxy's hands is looked up under the lock. *)
LEMMA ProxyKeepsPackets ==
  ASSUME PacketInv, NEW p \in packets, ProxyLooks(p) \/ ProxyAnswered(p) \/ ProxyEnds(p)
  PROVE  PacketInv'
<1>1. p \in Packet /\ isolated' = isolated
  BY DEF PacketInv, ProxyLooks, ProxyAnswered, ProxyEnds
<1>2. ASSUME NEW q, packets' \subseteq packets \cup {q}, q \in Packet,
             LetGo(q) /\ Blocked(q) => q.overtaken
      PROVE  PacketInv'
  BY <1>1, <1>2 DEF PacketInv, NothingCrosses, LetGo, Blocked
<1>3. CASE ProxyLooks(p)
  <2> DEFINE next == IF p.at = "held" THEN "sent" ELSE "returned"
             q == [p EXCEPT !.at = next]
  <2>1. CASE MayPass(p)
    <3>1. packets' \subseteq packets \cup {q}
      BY <1>3 DEF ProxyLooks
    <3>2. q \in Packet /\ q.from = p.from /\ q.to = p.to
      BY <1>1 DEF Packet
    <3>3. ~Blocked(q)
      BY <2>1, <3>2 DEF MayPass, Blocked
    <3> QED BY <1>2, <3>1, <3>2, <3>3
  <2>2. CASE ~MayPass(p)
    <3>1. packets' \subseteq packets
      BY <1>3, <2>2 DEF ProxyLooks
    <3> QED BY <1>1, <3>1 DEF PacketInv, NothingCrosses, LetGo, Blocked
  <2> QED BY <2>1, <2>2
<1>4. CASE ProxyAnswered(p)
  <2> DEFINE q == [p EXCEPT !.at = "answered", !.overtaken = FALSE]
  <2>1. packets' \subseteq packets \cup {q}
    BY <1>4 DEF ProxyAnswered
  <2>2. q \in Packet /\ ~LetGo(q)
    BY <1>1 DEF Packet, LetGo
  <2> QED BY <1>2, <2>1, <2>2
<1>5. CASE ProxyEnds(p)
  <2>1. packets' \subseteq packets
    BY <1>5 DEF ProxyEnds
  <2> QED BY <1>1, <2>1 DEF PacketInv, NothingCrosses, LetGo, Blocked
<1> QED BY <1>3, <1>4, <1>5

(* Every step of the lab keeps isolated members apart. *)
LEMMA PacketStep ==
  ASSUME PacketInv, [LabNext]_labVars
  PROVE  PacketInv'
<1> USE DEF faultVars
<1>1. CASE UNCHANGED labVars
  BY <1>1, PacketStays DEF labVars
<1>2. CASE Control
  <2>1. ASSUME NEW n \in Member, Restart(n) \/ Crash(n) PROVE PacketInv'
    BY <2>1, PacketStays DEF Restart, Crash
  <2>2. ASSUME NEW n \in Member, NEW paused \in BOOLEAN, Pause(n, paused) PROVE PacketInv'
    BY <2>2, PacketStays DEF Pause
  <2>3. ASSUME NEW on \in BOOLEAN, Workload(on) PROVE PacketInv'
    BY <2>3, PacketStays DEF Workload
  <2>4. CASE Reset
    BY <2>4 DEF Reset, PacketInv, NothingCrosses, Blocked
  <2> QED BY <1>2, <2>1, <2>2, <2>3, <2>4, FaultsKeepPackets DEF Control
<1>3. CASE Work
  <2>1. ASSUME NEW n \in Member, NewStarts(n) \/ PollAnswered(n) \/ PollStore(n)
        PROVE  PacketInv'
    BY <2>1, PacketStays DEF NewStarts, PollAnswered, PollStore
  <2>2. ASSUME NEW n \in Member, NEW b \in 1 .. Boot(n), Reap(n, b) \/ PublishExit(n, b)
        PROVE  PacketInv'
    BY <2>2, PacketStays DEF Reap, PublishExit
  <2>3. CASE NewDone \/ PollBegin \/ PollReturns \/ PollEnds \/ ResetGoesOn
    BY <2>3, PacketStays DEF NewDone, PollBegin, PollReturns, PollEnds, ResetGoesOn
  <2>4. ASSUME NEW r \in admin, AdminReturns(r) PROVE PacketInv'
    BY <2>4, PacketStays DEF AdminReturns
  <2>5. ASSUME NEW k \in 1 .. Len(tasks), TaskCalls(k) \/ TaskReturns(k) \/ TaskEnds(k)
        PROVE  PacketInv'
    BY <2>5, PacketStays DEF TaskCalls, TaskReturns, TaskEnds
  <2>6. CASE CloseBegin
    BY <2>6, PacketStays DEF CloseBegin
  <2>7. CASE CloseReturns
    BY <2>7 DEF CloseReturns, PacketInv, NothingCrosses
  <2> QED
    BY <1>3, <2>1, <2>2, <2>3, <2>4, <2>5, <2>6, <2>7, ProxyKeepsPackets DEF Work
<1>4. CASE Nodes
  <2>1. ASSUME NEW n \in Member, Happens(n) PROVE PacketInv'
    BY <2>1, PacketStays DEF Happens
  <2>2. ASSUME NEW n \in Member, NEW b \in 1 .. Boot(n), NEW life, Exit(n, b, life)
        PROVE  PacketInv'
    BY <2>2, PacketStays DEF Exit
  <2>3. ASSUME NEW n \in Member, NEW k \in Member, ProxyReceives(n, k) PROVE PacketInv'
    <3> DEFINE q == [from |-> n, to |-> k, at |-> "held", overtaken |-> FALSE]
    <3>1. packets' = packets \cup {q} /\ isolated' = isolated
      BY <2>3 DEF ProxyReceives
    <3>2. q \in Packet /\ ~LetGo(q)
      BY DEF Packet, LetGo
    <3> QED BY <3>1, <3>2 DEF PacketInv, NothingCrosses, LetGo, Blocked
  <2> QED BY <1>4, <2>1, <2>2, <2>3 DEF Nodes
<1> QED BY <1>1, <1>2, <1>3, <1>4 DEF LabNext

(* However members are isolated and healed while requests and answers are in *)
(* the proxies: nothing the proxy lets go crosses the cut, in any lab.       *)
THEOREM IsolationHolds == LabSpec => []NothingCrosses
<1>1. LabInit => PacketInv
  BY PacketInitially
<1>2. PacketInv /\ [LabNext]_labVars => PacketInv'
  BY PacketStep
<1>3. PacketInv => NothingCrosses
  BY DEF PacketInv
<1> QED BY <1>1, <1>2, <1>3, PTL DEF LabSpec
=============================================================================
