---------------------------- MODULE DatabaseProofs ---------------------------
(***************************************************************************)
(* Proofs about the standalone database of database.go: reads and answers  *)
(* are durable, a command takes effect once, and the journal can always be *)
(* replayed.                                                               *)
(***************************************************************************)
EXTENDS Database, JournalProofs

-----------------------------------------------------------------------------
(* The machine.                                                             *)

(* Apply of a command that Check takes for new. *)
LEMMA ApplyNew ==
  ASSUME NEW m \in Machine, NEW c \in CommandType, Check(m, c) = "new"
  PROVE  /\ Apply(m, c) \in Machine
         /\ Apply(m, c).sessions[c.client] \in Session
         /\ Apply(m, c).sessions[c.client].cmd = c
         /\ \A id \in Client : id # c.client => Apply(m, c).sessions[id] = m.sessions[id]
         /\ m.sessions[c.client] # Missing => m.sessions[c.client].cmd.request < c.request
<1> DEFINE old == m.values[c.key]
           e == Effect(old, c)
           s == [cmd |-> c, result |-> e.result]
           v == [m.values EXCEPT ![c.key] = e.value]
           t == [m.sessions EXCEPT ![c.client] = s]
           n == Apply(m, c)
<1>1. /\ c.client \in Client /\ c.key \in Key /\ c.value \in Text /\ c.request \in Nat
      /\ c.op \in {"SET", "DELETE", "CAS"}
  BY DEF CommandType
<1>2. /\ m.values \in [Key -> Text \cup {Missing}] /\ m.count \in Nat
      /\ m.sessions \in [Client -> Session \cup {Missing}]
  BY DEF Machine
<1>3. old \in Text \cup {Missing}
  BY <1>1, <1>2
<1>4. e.value \in Text \cup {Missing} /\ e.result \in ResultType
  <2> HIDE DEF old
  <2> DEFINE write == c.op = "SET" \/ (c.op = "CAS" /\ old = c.expected)
  <2>1. CASE write
    <3>1. /\ e.value = c.value
          /\ e.result = [value |-> c.value, found |-> TRUE, applied |-> TRUE, conflict |-> FALSE]
      BY <2>1 DEF Effect
    <3> QED BY <1>1, <3>1 DEF ResultType
  <2>2. CASE ~write
    <3>1. /\ e.value = IF c.op = "DELETE" THEN Missing ELSE old
          /\ e.result = [value |-> IF old # Missing THEN old ELSE Empty, found |-> old # Missing,
                         applied |-> c.op = "DELETE" /\ old # Missing, conflict |-> c.op = "CAS"]
      BY <2>2 DEF Effect
    <3>2. (IF old # Missing THEN old ELSE Empty) \in Text
      BY <1>3, TextAssumption
    <3>3. e.result \in ResultType
      BY <3>1, <3>2 DEF ResultType
    <3> QED BY <1>3, <3>1, <3>3
  <2> QED BY <2>1, <2>2
<1>5. n = [m EXCEPT !.values = v, !.count = m.count + 1, !.sessions = t]
  BY DEF Apply, Machine
<1> HIDE DEF e
<1>6. s \in Session /\ s.cmd = c
  BY <1>4 DEF Session
<1> HIDE DEF s
<1>7. v \in [Key -> Text \cup {Missing}]
  BY <1>1, <1>2, <1>4
<1>8. /\ t \in [Client -> Session \cup {Missing}] /\ t[c.client] = s
      /\ \A id \in Client : id # c.client => t[id] = m.sessions[id]
  BY <1>1, <1>2, <1>6
<1> HIDE DEF v, t, n
<1>9. n \in Machine /\ n.sessions = t
  <2> DEFINE x == m.count + 1
  <2>1. x \in Nat
    BY <1>2
  <2>2. n = [m EXCEPT !.values = v, !.count = x, !.sessions = t]
    BY <1>5
  <2> HIDE DEF x
  <2> QED BY <1>7, <1>8, <2>1, <2>2 DEF Machine
<1>10. ASSUME m.sessions[c.client] # Missing
       PROVE  m.sessions[c.client].cmd.request < c.request
  <2> DEFINE x == m.sessions[c.client]
  <2>1. x # Missing
    BY <1>10
  <2>2. x = Missing \/ c.request > x.cmd.request
    BY DEF Check
  <2>3. x \in Session
    BY <1>1, <1>2, <2>1
  <2>4. x.cmd.request \in Nat
    BY <2>3 DEF Session, CommandType
  <2> HIDE DEF x
  <2>5. x.cmd.request < c.request
    BY <1>1, <2>1, <2>2, <2>4
  <2> QED BY <2>5 DEF x
<1> QED BY <1>6, <1>8, <1>9, <1>10 DEF n

LEMMA NewIsMachine == New \in Machine
BY DEF New, Machine

-----------------------------------------------------------------------------
(* Replays.                                                                 *)

R == INSTANCE ReplayProofs WITH Op <- Apply

LEMMA ReplayIs ==
  ASSUME NEW l
  PROVE  Replay(l) = R!Replayed(New, l)
BY DEF Replay, ReplayFrom, R!Replayed

LEMMA ReplayAppend ==
  ASSUME NEW S, NEW l \in Seq(S), NEW p \in S
  PROVE  Replay(Append(l, p)) = Apply(Replay(l), p)
BY ReplayIs, R!ReplayedAppend

LEMMA ReplayEmpty == Replay(<<>>) = New
BY ReplayIs, R!ReplayedEmpty

(* A longer journal begins with the shorter one. *)
LEMMA AppendPrefix ==
  ASSUME NEW S, NEW l \in Seq(S), NEW p \in S
  PROVE  /\ Append(l, p) \in Seq(S) /\ Len(Append(l, p)) = Len(l) + 1 /\ Len(l) \in Nat
         /\ \A k \in 1 .. Len(l) : Append(l, p)[k] = l[k]
         /\ Append(l, p)[Len(l) + 1] = p
         /\ \A k \in 0 .. Len(l) : SubSeq(Append(l, p), 1, k) = SubSeq(l, 1, k)
         /\ SubSeq(l, 1, Len(l)) = l
<1> DEFINE m == Append(l, p)
           n == Len(l)
<1>1. /\ m \in Seq(S) /\ Len(m) = n + 1 /\ n \in Nat
      /\ \A k \in 1 .. n : m[k] = l[k]
      /\ m[n + 1] = p
  OBVIOUS
<1>2. ASSUME NEW k \in 0 .. n PROVE SubSeq(m, 1, k) = SubSeq(l, 1, k)
  <2>1. SubSeq(m, 1, k) \in Seq(S) /\ Len(SubSeq(m, 1, k)) = k
    <3> HIDE DEF m
    <3> QED BY <1>1
  <2>2. SubSeq(l, 1, k) \in Seq(S) /\ Len(SubSeq(l, 1, k)) = k
    OBVIOUS
  <2>3. \A j \in 1 .. k : SubSeq(m, 1, k)[j] = m[j] /\ SubSeq(l, 1, k)[j] = l[j] /\ m[j] = l[j]
    <3> HIDE DEF m
    <3> QED BY <1>1
  <2>4. \A j \in 1 .. k : SubSeq(m, 1, k)[j] = SubSeq(l, 1, k)[j]
    BY <2>3
  <2> HIDE DEF m
  <2> QED BY <2>1, <2>2, <2>4, SeqEqual
<1>3. SubSeq(l, 1, n) = l
  OBVIOUS
<1> QED BY <1>1, <1>2, <1>3

LEMMA ReplayableAppend ==
  ASSUME NEW S, NEW l \in Seq(S), NEW p \in S, Replayable(l), Check(Replay(l), p) = "new"
  PROVE  Replayable(Append(l, p))
<1> DEFINE m == Append(l, p)
           n == Len(l)
<1>1. /\ m \in Seq(S) /\ Len(m) = n + 1 /\ n \in Nat
      /\ \A k \in 1 .. n : m[k] = l[k]
      /\ m[n + 1] = p
      /\ \A k \in 0 .. n : SubSeq(m, 1, k) = SubSeq(l, 1, k)
      /\ SubSeq(l, 1, n) = l
  BY AppendPrefix
<1> HIDE DEF m
<1>2. ASSUME NEW k \in 1 .. n + 1
      PROVE  Check(Replay(SubSeq(m, 1, k - 1)), m[k]) \in {"new", "duplicate"}
  <2>1. k - 1 \in 0 .. n
    BY <1>1
  <2>2. SubSeq(m, 1, k - 1) = SubSeq(l, 1, k - 1)
    BY <1>1, <2>1
  <2>3. CASE k \in 1 .. n
    BY <1>1, <2>2, <2>3 DEF Replayable
  <2>4. CASE k = n + 1
    <3>1. k - 1 = n
      BY <1>1, <2>4
    <3> QED BY <1>1, <2>2, <2>4, <3>1
  <2> QED BY <1>1, <2>3, <2>4
<1>3. Replayable(m)
  BY <1>1, <1>2 DEF Replayable
<1> QED BY <1>3 DEF m


-----------------------------------------------------------------------------
(* Journals the database may have.                                          *)

(* Command c is in the journal l once, and a replay gives it this result. *)
Once(l, c, result) ==
  \E k \in 1 .. Len(l) :
    /\ l[k] = c /\ \A j \in 1 .. Len(l) : l[j] = c => j = k
    /\ Replay(SubSeq(l, 1, k)).sessions[c.client].result = result

(* The session of a client is at least as far as its commands in l. *)
Filed(l) ==
  \A k \in 1 .. Len(l) :
    LET s == Replay(l).sessions[l[k].client]
    IN  s # Missing /\ l[k].request <= s.cmd.request

(* A session repeats a command of l and its result. *)
Backed(l) ==
  \A id \in Client :
    LET s == Replay(l).sessions[id]
    IN  s # Missing => Once(l, s.cmd, s.result)

Proper(l) ==
  /\ l \in Seq(Payload) /\ Replay(l) \in Machine
  /\ Replayable(l) /\ Filed(l) /\ Backed(l)

LEMMA ProperEmpty == Proper(<<>>)
<1>1. <<>> \in Seq(Payload) /\ Len(<<>>) = 0 /\ Replay(<<>>) = New
  BY ReplayEmpty
<1>2. \A id \in Client : New.sessions[id] = Missing
  BY DEF New
<1> QED BY <1>1, <1>2, NewIsMachine DEF Proper, Replayable, Filed, Backed

(* A new command is none of those before it. *)
LEMMA NewIsFresh ==
  ASSUME Payload \subseteq CommandType, NEW l, Proper(l), NEW c \in Payload,
         Check(Replay(l), c) = "new"
  PROVE  \A k \in 1 .. Len(l) : l[k] # c
<1> SUFFICES ASSUME NEW k \in 1 .. Len(l), l[k] = c PROVE FALSE
  OBVIOUS
<1> DEFINE s == Replay(l).sessions[c.client]
<1>1. s # Missing /\ c.request <= s.cmd.request
  BY DEF Proper, Filed
<1>2. s.cmd.request < c.request
  BY <1>1, ApplyNew DEF Proper
<1>3. s \in Session /\ c.request \in Nat
  BY <1>1 DEF Proper, Machine, CommandType
<1>4. s.cmd.request \in Nat
  BY <1>3 DEF Session, CommandType
<1> HIDE DEF s
<1> QED BY <1>1, <1>2, <1>3, <1>4

(* What is in the journal once stays there once behind a new command. *)
LEMMA OnceAppend ==
  ASSUME Payload \subseteq CommandType, NEW l, Proper(l), NEW c \in Payload,
         Check(Replay(l), c) = "new", NEW d, NEW result, Once(l, d, result)
  PROVE  Once(Append(l, c), d, result)
<1> DEFINE m == Append(l, c)
           n == Len(l)
<1>1. /\ Len(m) = n + 1 /\ n \in Nat
      /\ \A k \in 1 .. n : m[k] = l[k]
      /\ m[n + 1] = c
      /\ \A k \in 0 .. n : SubSeq(m, 1, k) = SubSeq(l, 1, k)
  BY AppendPrefix DEF Proper
<1>2. PICK k \in 1 .. n :
        /\ l[k] = d /\ \A j \in 1 .. n : l[j] = d => j = k
        /\ Replay(SubSeq(l, 1, k)).sessions[d.client].result = result
  BY DEF Once
<1>3. d # c
  BY <1>2, NewIsFresh
<1> HIDE DEF m
<1>4. k \in 1 .. Len(m) /\ m[k] = d /\ SubSeq(m, 1, k) = SubSeq(l, 1, k)
  BY <1>1, <1>2
<1>5. ASSUME NEW j \in 1 .. Len(m), m[j] = d PROVE j = k
  <2>1. j \in 1 .. n \/ j = n + 1
    BY <1>1
  <2> QED BY <1>1, <1>2, <1>3, <1>5, <2>1
<1>6. Once(m, d, result)
  BY <1>2, <1>4, <1>5 DEF Once
<1> QED BY <1>6 DEF m

(* Append behind a proper journal, of a command Check takes for new. *)
LEMMA ProperAppend ==
  ASSUME Payload \subseteq CommandType, NEW l, Proper(l), NEW c \in Payload,
         Check(Replay(l), c) = "new"
  PROVE  /\ Proper(Append(l, c))
         /\ Replay(Append(l, c)).sessions[c.client].cmd = c
         /\ Replay(Append(l, c)).sessions[c.client] # Missing
<1> DEFINE m == Append(l, c)
           n == Len(l)
           a == Replay(l)
           b == Replay(m)
<1>1. /\ m \in Seq(Payload) /\ Len(m) = n + 1 /\ n \in Nat
      /\ \A k \in 1 .. n : m[k] = l[k]
      /\ m[n + 1] = c
  BY AppendPrefix DEF Proper
<1>2. b = Apply(a, c)
  BY ReplayAppend DEF Proper
<1>3. a \in Machine /\ c \in CommandType /\ c.client \in Client /\ c.request \in Nat
  BY DEF Proper, CommandType
<1>4. /\ b \in Machine /\ b.sessions[c.client] \in Session /\ b.sessions[c.client].cmd = c
      /\ \A id \in Client : id # c.client => b.sessions[id] = a.sessions[id]
      /\ a.sessions[c.client] # Missing => a.sessions[c.client].cmd.request < c.request
  BY <1>2, <1>3, ApplyNew
<1>5. b.sessions[c.client] # Missing
  BY <1>4, SessionAssumption
<1>6. Replayable(m)
  BY ReplayableAppend DEF Proper
<1>7. \A k \in 1 .. n : l[k] # c
  BY NewIsFresh
<1>8. SubSeq(m, 1, n + 1) = m
  BY <1>1
<1>9. ASSUME NEW d, NEW result, Once(l, d, result) PROVE Once(m, d, result)
  BY <1>9, OnceAppend
<1> HIDE DEF m, a, b
<1>10. Filed(m)
  <2> SUFFICES ASSUME NEW k \in 1 .. n + 1
               PROVE  /\ b.sessions[m[k].client] # Missing
                      /\ m[k].request <= b.sessions[m[k].client].cmd.request
    BY <1>1 DEF Filed, b
  <2>1. CASE k = n + 1
    BY <1>1, <1>3, <1>4, <1>5, <2>1
  <2>2. CASE k \in 1 .. n
    <3> DEFINE s == a.sessions[l[k].client]
    <3>1. m[k] = l[k] /\ l[k] \in CommandType
      BY <1>1, <2>2 DEF Proper
    <3>2. s # Missing /\ l[k].request <= s.cmd.request
      BY <2>2 DEF Proper, Filed, a
    <3>3. CASE l[k].client # c.client
      BY <1>4, <3>1, <3>2, <3>3 DEF CommandType
    <3>4. CASE l[k].client = c.client
      <4>1. s \in Session /\ s.cmd.request < c.request
        BY <1>3, <1>4, <3>2, <3>4 DEF Machine
      <4>2. s.cmd.request \in Nat /\ l[k].request \in Nat
        BY <3>1, <4>1 DEF Session, CommandType
      <4> HIDE DEF s
      <4>3. l[k].request <= c.request
        BY <1>3, <3>2, <4>1, <4>2
      <4> QED BY <1>4, <1>5, <3>1, <3>4, <4>3
    <3> QED BY <3>3, <3>4
  <2> QED BY <1>1, <2>1, <2>2
<1>11. Backed(m)
  <2> SUFFICES ASSUME NEW id \in Client, b.sessions[id] # Missing
               PROVE  Once(m, b.sessions[id].cmd, b.sessions[id].result)
    BY DEF Backed, b
  <2>1. CASE id = c.client
    <3>1. n + 1 \in 1 .. Len(m)
      BY <1>1
    <3>2. ASSUME NEW j \in 1 .. Len(m), m[j] = c PROVE j = n + 1
      BY <1>1, <1>7, <3>2
    <3>3. Replay(SubSeq(m, 1, n + 1)).sessions[c.client].result = b.sessions[c.client].result
      BY <1>8 DEF b
    <3>4. Once(m, c, b.sessions[c.client].result)
      BY <1>1, <3>1, <3>2, <3>3 DEF Once
    <3> QED BY <1>4, <2>1, <3>4
  <2>2. CASE id # c.client
    <3>1. b.sessions[id] = a.sessions[id]
      BY <1>4, <2>2
    <3>2. Once(l, a.sessions[id].cmd, a.sessions[id].result)
      BY <3>1 DEF Proper, Backed, a
    <3> QED BY <1>9, <3>1, <3>2
  <2> QED BY <2>1, <2>2
<1>12. Proper(m)
  BY <1>1, <1>4, <1>6, <1>10, <1>11 DEF Proper, b
<1> QED BY <1>4, <1>5, <1>12 DEF m, b


-----------------------------------------------------------------------------
(* The inductive invariant.                                                 *)

(* The machine is that of the records the database was told are in the       *)
(* journal; while it is opened, that of the records that were found.         *)
MachineInv ==
  /\ pc \in {"ready", "written"} => machine = Replay(believed)
  /\ pc \in {"replayed", "flushed"} => machine = Replay(Recovered(data[path]))

(* Execute between Check and Apply, and outside it. *)
ExecuteInv ==
  /\ pc \in {"down", "replayed", "flushed", "ready", "written"}
  /\ pc \in {"ready", "written"} => file # None
  /\ pc = "ready" /\ ~failed => intents = {}
  /\ pc = "written" => Check(machine, Last(data[file]).payload) = "new"

(* Every journal a restart may find is proper and holds what was answered. *)
ToldInv ==
  /\ \A l \in Told : Proper(l)
  /\ \A a \in answers : \A l \in Told : Once(l, a.cmd, a.result)

DatabaseInv == JournalInv /\ MachineInv /\ ExecuteInv /\ ToldInv

LEMMA DatabaseInvInit == DatabaseInit => DatabaseInv
<1> SUFFICES ASSUME DatabaseInit PROVE DatabaseInv
  OBVIOUS
<1>1. JournalInv
  BY JournalInvInit DEF DatabaseInit
<1>2. pc = "down" /\ answers = {} /\ Told = {<<>>}
  BY DEF DatabaseInit, JournalInit, Told
<1> QED BY <1>1, <1>2, ProperEmpty DEF DatabaseInv, MachineInv, ExecuteInv, ToldInv

(* Nothing is told and nothing is answered. *)
LEMMA ToldKept ==
  ASSUME ToldInv, Told' \subseteq Told, answers' = answers
  PROVE  ToldInv'
<1>1. ASSUME NEW l \in Told' PROVE Proper(l)
  BY <1>1 DEF ToldInv
<1>2. ASSUME NEW a \in answers', NEW l \in Told' PROVE Once(l, a.cmd, a.result)
  BY <1>2 DEF ToldInv
<1> QED BY <1>1, <1>2 DEF ToldInv

(* A command that Check took for new may be in the journal from now on. *)
LEMMA ToldWritten ==
  ASSUME Payload \subseteq CommandType, ToldInv, NEW c \in Payload,
         Check(Replay(believed), c) = "new",
         Told' \subseteq Told \cup {Append(believed, c)}, answers' = answers
  PROVE  ToldInv'
<1>1. believed \in Told
  BY DEF Told
<1>2. Proper(believed) /\ Proper(Append(believed, c))
  BY <1>1, ProperAppend DEF ToldInv
<1>3. ASSUME NEW a \in answers PROVE Once(Append(believed, c), a.cmd, a.result)
  <2>1. Once(believed, a.cmd, a.result)
    BY <1>1 DEF ToldInv
  <2> QED BY <1>2, <2>1, OnceAppend
<1>4. ASSUME NEW l \in Told' PROVE Proper(l)
  BY <1>2, <1>4 DEF ToldInv
<1>5. ASSUME NEW a \in answers', NEW l \in Told' PROVE Once(l, a.cmd, a.result)
  BY <1>3, <1>5 DEF ToldInv
<1> QED BY <1>4, <1>5 DEF ToldInv

LEMMA ExecuteDuplicateInv ==
  ASSUME Payload \subseteq CommandType, DatabaseInv, NEW c \in Payload, ExecuteDuplicate(c)
  PROVE  DatabaseInv'
<1> DEFINE s == machine.sessions[c.client]
<1>1. UNCHANGED journalVars /\ machine' = machine /\ Healthy /\ Check(machine, c) = "duplicate"
  BY DEF ExecuteDuplicate
<1>2. JournalInv'
  BY <1>1, JournalInvUnchanged DEF DatabaseInv
<1>3. (MachineInv /\ ExecuteInv)'
  BY <1>1 DEF DatabaseInv, MachineInv, ExecuteInv, journalVars
<1>4. Told = {believed} /\ Told' = Told /\ machine = Replay(believed)
  BY <1>1 DEF DatabaseInv, MachineInv, ExecuteInv, Healthy, Told, journalVars
<1>5. s # Missing /\ s.cmd = c
  BY <1>1 DEF Check
<1>6. c.client \in Client /\ Backed(believed)
  BY <1>4 DEF DatabaseInv, ToldInv, Proper, CommandType
<1>7. Once(believed, c, s.result)
  BY <1>4, <1>5, <1>6 DEF Backed
<1>8. answers' = answers \cup {[cmd |-> c, result |-> s.result]}
  BY DEF ExecuteDuplicate, Answer
<1> HIDE DEF s
<1>9. ASSUME NEW a \in answers', NEW l \in Told' PROVE Once(l, a.cmd, a.result)
  <2>1. CASE a \in answers
    BY <1>4, <1>9, <2>1 DEF DatabaseInv, ToldInv
  <2>2. CASE a = [cmd |-> c, result |-> s.result]
    BY <1>4, <1>7, <1>9, <2>2
  <2> QED BY <1>8, <2>1, <2>2
<1>10. ToldInv'
  BY <1>4, <1>9 DEF DatabaseInv, ToldInv
<1> QED BY <1>2, <1>3, <1>10 DEF DatabaseInv

(* The record AppendWrite writes is the last of the file. *)
LEMMA WrittenLast ==
  ASSUME JournalInv, NEW p \in Payload, AppendWrite(p)
  PROVE  Last(data'[file']).payload = p
<1>1. /\ data \in [Inode -> Seq(Cell)] /\ file \in Inode /\ file' = file
      /\ data' = [data EXCEPT ![file] = Append(data[file], Whole(p))]
  BY DEF JournalInv, JournalTypeOK, AppendWrite
<1>2. data[file] \in Seq(Cell) /\ Whole(p) \in Cell
  BY <1>1 DEF Whole, Cell
<1>3. data'[file'] = Append(data[file], Whole(p))
  BY <1>1
<1> DEFINE d == data[file]
           w == Whole(p)
<1>4. d \in Seq(Cell) /\ w \in Cell /\ data'[file'] = Append(d, w)
  BY <1>2, <1>3
<1> HIDE DEF d, w
<1>5. Last(Append(d, w)) = w
  BY <1>4 DEF Last
<1> QED BY <1>4, <1>5, WholeIs DEF w

LEMMA ExecuteWriteInv ==
  ASSUME Payload \subseteq CommandType, DatabaseInv, NEW c \in Payload, ExecuteWrite(c)
  PROVE  DatabaseInv'
<1>1. /\ UNCHANGED <<machine, answers>> /\ Check(machine, c) = "new"
      /\ AppendWrite(c) \/ AppendWriteFails(c)
  BY DEF ExecuteWrite, MayLog
<1>2. /\ pc = "ready" /\ ~failed /\ file # None /\ file' = file /\ believed' = believed
      /\ machine = Replay(believed)
      /\ intents' \subseteq intents \cup {Append(believed, c)}
  BY <1>1 DEF AppendWrite, AppendWriteFails, Healthy, DatabaseInv, MachineInv, ExecuteInv
<1>3. ToldInv'
  <2>1. Told' \subseteq Told \cup {Append(believed, c)}
    BY <1>2 DEF Told
  <2> QED BY <1>1, <1>2, <2>1, ToldWritten DEF DatabaseInv
<1>4. JournalInv'
  BY <1>1, AppendWriteInv, AppendWriteFailsInv DEF DatabaseInv
<1>5. CASE AppendWrite(c)
  <2>1. pc' = "written"
    BY <1>5 DEF AppendWrite
  <2>2. Last(data'[file']).payload = c
    BY <1>5, WrittenLast DEF DatabaseInv
  <2>3. MachineInv'
    BY <1>1, <1>2, <2>1 DEF MachineInv
  <2>4. ExecuteInv'
    BY <1>1, <1>2, <2>1, <2>2 DEF ExecuteInv
  <2> QED BY <1>3, <1>4, <2>3, <2>4 DEF DatabaseInv
<1>6. CASE AppendWriteFails(c)
  <2>1. pc' = "ready" /\ failed'
    BY <1>2, <1>6 DEF AppendWriteFails
  <2>2. (MachineInv /\ ExecuteInv)'
    BY <1>1, <1>2, <2>1 DEF MachineInv, ExecuteInv
  <2> QED BY <1>3, <1>4, <2>2 DEF DatabaseInv
<1> QED BY <1>1, <1>5, <1>6

LEMMA ExecuteApplyInv ==
  ASSUME Payload \subseteq CommandType, DatabaseInv, ExecuteApply
  PROVE  DatabaseInv'
<1> DEFINE c == Last(data[file]).payload
           s == machine'.sessions[c.client]
<1>1. AppendSync /\ machine' = Apply(machine, c)
  BY DEF ExecuteApply
<1>2. answers' = answers \cup {[cmd |-> c, result |-> s.result]}
  BY DEF ExecuteApply, Answer
<1>3. JournalInv' /\ believed' \in Told /\ c \in Payload
  BY <1>1, AppendSyncInv DEF DatabaseInv
<1>4. /\ pc = "written" /\ pc' = "ready" /\ intents' = {} /\ file' = file
      /\ believed' = Append(believed, c)
  BY <1>1 DEF AppendSync
<1>5. file # None /\ Check(machine, c) = "new" /\ machine = Replay(believed)
  BY <1>4 DEF DatabaseInv, MachineInv, ExecuteInv
<1> HIDE DEF c
<1>6. Proper(believed) /\ believed \in Seq(Payload)
  BY DEF DatabaseInv, ToldInv, Told, Proper
<1>7. /\ Proper(believed')
      /\ Replay(believed').sessions[c.client].cmd = c
      /\ Replay(believed').sessions[c.client] # Missing
  BY <1>3, <1>4, <1>5, <1>6, ProperAppend
<1>8. machine' = Replay(believed')
  BY <1>1, <1>3, <1>4, <1>5, <1>6, ReplayAppend
<1>9. Told' = {believed'}
  BY <1>4 DEF Told
<1>10. Once(believed', c, s.result)
  <2>1. c.client \in Client /\ Backed(believed')
    BY <1>3, <1>7 DEF Proper, CommandType
  <2>2. s = Replay(believed').sessions[c.client]
    BY <1>8
  <2> HIDE DEF s
  <2> QED BY <1>7, <2>1, <2>2 DEF Backed
<1> HIDE DEF s
<1>11. ASSUME NEW a \in answers', NEW l \in Told' PROVE Once(l, a.cmd, a.result)
  <2>1. CASE a \in answers
    BY <1>3, <1>9, <1>11, <2>1 DEF DatabaseInv, ToldInv
  <2>2. CASE a = [cmd |-> c, result |-> s.result]
    BY <1>9, <1>10, <1>11, <2>2
  <2> QED BY <1>2, <2>1, <2>2
<1>12. ToldInv'
  BY <1>7, <1>9, <1>11 DEF ToldInv
<1>13. (MachineInv /\ ExecuteInv)'
  BY <1>4, <1>5, <1>8 DEF MachineInv, ExecuteInv
<1> QED BY <1>3, <1>12, <1>13 DEF DatabaseInv

LEMMA ExecuteFailsInv ==
  ASSUME DatabaseInv, ExecuteFails
  PROVE  DatabaseInv'
<1>1. AppendSyncFails /\ UNCHANGED <<machine, answers>>
  BY DEF ExecuteFails
<1>2. JournalInv'
  BY <1>1, AppendSyncFailsInv DEF DatabaseInv
<1>3. Told' = Told
  BY <1>1 DEF AppendSyncFails, Told
<1>4. ToldInv'
  BY <1>1, <1>3, ToldKept DEF DatabaseInv
<1>5. (MachineInv /\ ExecuteInv)'
  BY <1>1 DEF AppendSyncFails, DatabaseInv, MachineInv, ExecuteInv
<1> QED BY <1>2, <1>4, <1>5 DEF DatabaseInv

LEMMA OpenDatabaseInv ==
  ASSUME DatabaseInv, OpenDatabase
  PROVE  DatabaseInv'
<1> DEFINE r == Recovered(data[path])
<1>1. CASE OpenReplay /\ machine' = Replay(r) /\ UNCHANGED answers
  <2>1. JournalInv'
    BY <1>1, OpenReplayInv DEF DatabaseInv
  <2>2. Recovered(data'[path']) = r
    <3>1. /\ data \in [Inode -> Seq(Cell)] /\ path \in Inode /\ path' = path
          /\ data' = [data EXCEPT ![path] = SubSeq(data[path], 1, Len(r))]
      BY <1>1 DEF OpenReplay, DatabaseInv, JournalInv, JournalTypeOK
    <3>2. data[path] \in Seq(Cell)
      BY <3>1
    <3>3. r \in Seq(Payload) /\ SubSeq(data[path], 1, Len(r)) = Cells(r)
      BY <3>2, RecoveredType, Truncated
    <3> HIDE DEF r
    <3>4. data'[path'] = Cells(r)
      BY <3>1, <3>3
    <3> QED BY <3>3, <3>4, RecoveredCells
  <2>3. pc' = "replayed" /\ Told' = Told
    BY <1>1 DEF OpenReplay, Told
  <2>4. ToldInv'
    BY <1>1, <2>3, ToldKept DEF DatabaseInv
  <2> HIDE DEF r
  <2>5. (MachineInv /\ ExecuteInv)'
    BY <1>1, <2>2, <2>3 DEF MachineInv, ExecuteInv
  <2> QED BY <2>1, <2>4, <2>5 DEF DatabaseInv
<1>2. CASE OpenSync /\ UNCHANGED <<machine, answers>>
  <2>1. JournalInv'
    BY <1>2, OpenSyncInv DEF DatabaseInv
  <2>2. ToldInv'
    BY <1>2, ToldKept DEF OpenSync, Told, DatabaseInv
  <2>3. (MachineInv /\ ExecuteInv)'
    BY <1>2 DEF OpenSync, DatabaseInv, MachineInv, ExecuteInv
  <2> QED BY <2>1, <2>2, <2>3 DEF DatabaseInv
<1>3. CASE OpenDone /\ UNCHANGED <<machine, answers>>
  <2>1. JournalInv' /\ believed' \in Told
    BY <1>3, OpenDoneInv DEF DatabaseInv
  <2>2. Told' \subseteq Told
    BY <1>3, <2>1 DEF OpenDone, Told
  <2>3. ToldInv'
    BY <1>3, <2>2, ToldKept DEF DatabaseInv
  <2>4. file' # None
    BY <1>3, NoneAssumption DEF OpenDone, DatabaseInv, JournalInv, JournalTypeOK
  <2>5. (MachineInv /\ ExecuteInv)'
    BY <1>3, <2>4 DEF OpenDone, DatabaseInv, MachineInv, ExecuteInv
  <2> QED BY <2>1, <2>3, <2>5 DEF DatabaseInv
<1> QED BY <1>1, <1>2, <1>3 DEF OpenDatabase

LEMMA LeaveInv ==
  ASSUME DatabaseInv, Leave
  PROVE  DatabaseInv'
<1>1. (Kill \/ PowerLoss) /\ UNCHANGED <<machine, answers>>
  BY DEF Leave
<1>2. JournalInv'
  BY <1>1, KillInv, PowerLossInv DEF DatabaseInv
<1>3. pc' = "down" /\ Told' = Told
  BY <1>1 DEF Kill, PowerLoss, Told
<1>4. ToldInv'
  BY <1>1, <1>3, ToldKept DEF DatabaseInv
<1>5. (MachineInv /\ ExecuteInv)'
  BY <1>3 DEF MachineInv, ExecuteInv
<1> QED BY <1>2, <1>4, <1>5 DEF DatabaseInv

LEMMA DatabaseInvStep ==
  ASSUME Payload \subseteq CommandType, DatabaseInv, [DatabaseNext]_databaseVars
  PROVE  DatabaseInv'
<1>1. ASSUME NEW c \in Command, ExecuteDuplicate(c) \/ ExecuteWrite(c) PROVE DatabaseInv'
  BY <1>1, ExecuteDuplicateInv, ExecuteWriteInv DEF Command
<1>2. CASE ExecuteApply \/ ExecuteFails
  BY <1>2, ExecuteApplyInv, ExecuteFailsInv
<1>3. CASE OpenDatabase \/ Leave
  BY <1>3, OpenDatabaseInv, LeaveInv
<1>4. CASE UNCHANGED databaseVars
  <2>1. JournalInv'
    BY <1>4, JournalInvUnchanged DEF DatabaseInv, databaseVars, journalVars
  <2>2. ToldInv'
    BY <1>4, ToldKept DEF databaseVars, Told, DatabaseInv
  <2>3. (MachineInv /\ ExecuteInv)'
    BY <1>4 DEF databaseVars, DatabaseInv, MachineInv, ExecuteInv
  <2> QED BY <2>1, <2>2, <2>3 DEF DatabaseInv
<1> QED BY <1>1, <1>2, <1>3, <1>4 DEF DatabaseNext

LEMMA DatabaseInvAlways ==
  ASSUME Payload \subseteq CommandType
  PROVE  DatabaseSpec => []DatabaseInv
<1>1. DatabaseInv /\ [DatabaseNext]_databaseVars => DatabaseInv'
  BY DatabaseInvStep
<1> QED BY <1>1, DatabaseInvInit, PTL DEF DatabaseSpec

(* Execute syncs before it applies: for any commands and any crashes, what   *)
(* Get returns while the database is up is what every restart brings back.   *)
THEOREM ReadsDurable ==
  ASSUME Payload \subseteq CommandType
  PROVE  DatabaseSpec => []ReadsAreDurable
<1>1. DatabaseInv => ReadsAreDurable
  <2> SUFFICES ASSUME DatabaseInv, Healthy, NEW l \in Recoverable PROVE machine = Replay(l)
    BY DEF ReadsAreDurable
  <2>1. machine = Replay(believed) /\ intents = {}
    BY DEF Healthy, DatabaseInv, MachineInv, ExecuteInv
  <2>2. l \in {believed} \cup intents
    BY JournalInvSurvive DEF DatabaseInv, AcknowledgedSurvive
  <2> QED BY <2>1, <2>2
<1> QED BY <1>1, DatabaseInvAlways, PTL

(* Check before Append, Append before Apply: for any commands, retries and   *)
(* crashes, an answered command is in every journal a restart may find,      *)
(* exactly once, and a replay of it computes the result that was answered.   *)
THEOREM AnswersOnce ==
  ASSUME Payload \subseteq CommandType
  PROVE  DatabaseSpec => []AnsweredOnce
<1>1. DatabaseInv => AnsweredOnce
  <2> SUFFICES ASSUME DatabaseInv, NEW a \in answers, NEW l \in Recoverable
               PROVE  Once(l, a.cmd, a.result)
    BY DEF AnsweredOnce, Once
  <2>1. l \in Told
    BY JournalInvSurvive DEF DatabaseInv, AcknowledgedSurvive, Told
  <2> QED BY <2>1 DEF DatabaseInv, ToldInv
<1> QED BY <1>1, DatabaseInvAlways, PTL

(* Open: for any commands and any crashes, every journal a restart may find  *)
(* can be replayed to its end.                                               *)
THEOREM DatabaseReopens ==
  ASSUME Payload \subseteq CommandType
  PROVE  DatabaseSpec => []AlwaysOpens
<1>1. DatabaseInv => AlwaysOpens
  <2> SUFFICES ASSUME DatabaseInv, NEW l \in Recoverable PROVE Replayable(l)
    BY DEF AlwaysOpens
  <2>1. l \in Told
    BY JournalInvSurvive DEF DatabaseInv, AcknowledgedSurvive, Told
  <2> QED BY <2>1 DEF DatabaseInv, ToldInv, Proper
<1> QED BY <1>1, DatabaseInvAlways, PTL

=============================================================================
