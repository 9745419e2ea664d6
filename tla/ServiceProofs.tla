---------------------------- MODULE ServiceProofs ----------------------------
(***************************************************************************)
(* Proofs about the clients and the replicated machine, for any commands,  *)
(* callers and servers, however often and late a command is committed.     *)
(*                                                                         *)
(* First the machine: a session is the command with the highest request ID *)
(* of its client in the log, so a command is new to check exactly when it  *)
(* is the first of its client with so high an ID.  Then the callers: the   *)
(* targets a call has missed since the tables last changed include a run   *)
(* of consecutive cursors, and a run as long as the table holds everyone.  *)
(***************************************************************************)
EXTENDS Service, TLAPS

R == INSTANCE ReplayProofs WITH Op <- Apply

-----------------------------------------------------------------------------
(* The machine.                                                             *)

LEMMA NewMachine == New \in Machine
BY DEF New, Machine

(* The verdicts of check, by the session of the client. *)
LEMMA Verdicts ==
  ASSUME NEW m \in Machine, NEW c \in CommandType
  PROVE  LET s == m.sessions[c.client]
         IN  /\ s # Missing => s \in Session /\ s.cmd \in CommandType /\ s.cmd.request \in Nat
             /\ Check(m, c) = "new" <=> Validate(c) /\ (s = Missing \/ s.cmd.request < c.request)
             /\ Check(m, c) = "duplicate" <=> Validate(c) /\ s # Missing /\ s.cmd = c
<1> DEFINE s == m.sessions[c.client]
<1>1. c.client \in Client /\ c.request \in Nat
  BY DEF CommandType
<1>2. s \in Session \cup {Missing}
  BY <1>1 DEF Machine
<1>3. s # Missing => s \in Session /\ s.cmd \in CommandType /\ s.cmd.request \in Nat
  BY <1>2 DEF Session, CommandType
<1>4. Check(m, c) = IF ~Validate(c) THEN "invalid"
                    ELSE IF s = Missing \/ c.request > s.cmd.request THEN "new"
                    ELSE IF c.request < s.cmd.request THEN "stale"
                    ELSE IF c # s.cmd THEN "reused" ELSE "duplicate"
  BY DEF Check
<1> HIDE DEF s
<1>5. Check(m, c) = "new" <=> Validate(c) /\ (s = Missing \/ s.cmd.request < c.request)
  BY <1>1, <1>3, <1>4
<1>6. Check(m, c) = "duplicate" <=> Validate(c) /\ s # Missing /\ s.cmd = c
  BY <1>1, <1>3, <1>4
<1> QED BY <1>3, <1>5, <1>6 DEF s

(* The switch of Apply yields a value and a result. *)
LEMMA EffectTyped ==
  ASSUME NEW old \in Text \cup {Missing}, NEW c \in CommandType
  PROVE  Effect(old, c).value \in Text \cup {Missing} /\ Effect(old, c).result \in ResultType
<1> DEFINE e == Effect(old, c)
           write == c.op = "SET" \/ (c.op = "CAS" /\ old = c.expected)
<1>1. c.value \in Text
  BY DEF CommandType
<1>2. CASE write
  <2>1. /\ e.value = c.value
        /\ e.result = [value |-> c.value, found |-> TRUE, applied |-> TRUE, conflict |-> FALSE]
    BY <1>2 DEF Effect
  <2> QED BY <1>1, <2>1 DEF ResultType
<1>3. CASE ~write
  <2>1. /\ e.value = IF c.op = "DELETE" THEN Missing ELSE old
        /\ e.result = [value |-> IF old # Missing THEN old ELSE Empty, found |-> old # Missing,
                       applied |-> c.op = "DELETE" /\ old # Missing, conflict |-> c.op = "CAS"]
    BY <1>3 DEF Effect
  <2>2. (IF old # Missing THEN old ELSE Empty) \in Text
    BY TextAssumption
  <2>3. e.result \in ResultType
    BY <2>1, <2>2 DEF ResultType
  <2> QED BY <2>1, <2>3
<1> QED BY <1>2, <1>3

(* Apply of a new command: its key gets the effect, its client the session. *)
Changed(m, c, n) ==
  /\ n \in Machine
  /\ n.values = [m.values EXCEPT ![c.key] = Effect(m.values[c.key], c).value]
  /\ n.sessions[c.client] \in Session /\ n.sessions[c.client].cmd = c
  /\ \A id \in Client : id # c.client => n.sessions[id] = m.sessions[id]

LEMMA ApplyChanges ==
  ASSUME NEW m \in Machine, NEW c \in CommandType, Check(m, c) = "new"
  PROVE  Changed(m, c, Apply(m, c))
<1> DEFINE e == Effect(m.values[c.key], c)
           s == [cmd |-> c, result |-> e.result]
           v == [m.values EXCEPT ![c.key] = e.value]
           t == [m.sessions EXCEPT ![c.client] = s]
           x == m.count + 1
           n == Apply(m, c)
<1>1. c.client \in Client /\ c.key \in Key
  BY DEF CommandType
<1>2. /\ m.values \in [Key -> Text \cup {Missing}] /\ m.count \in Nat
      /\ m.sessions \in [Client -> Session \cup {Missing}]
  BY DEF Machine
<1>3. e.value \in Text \cup {Missing} /\ e.result \in ResultType
  BY <1>1, <1>2, EffectTyped
<1>4. n = [m EXCEPT !.values = v, !.count = x, !.sessions = t]
  BY DEF Apply, Machine
<1>5. v = [m.values EXCEPT ![c.key] = Effect(m.values[c.key], c).value]
  OBVIOUS
<1> HIDE DEF e
<1>6. s \in Session /\ s.cmd = c
  BY <1>3 DEF Session
<1> HIDE DEF s
<1>7. v \in [Key -> Text \cup {Missing}] /\ x \in Nat
  BY <1>1, <1>2, <1>3
<1>8. /\ t \in [Client -> Session \cup {Missing}] /\ t[c.client] = s
      /\ \A id \in Client : id # c.client => t[id] = m.sessions[id]
  BY <1>1, <1>2, <1>6
<1> HIDE DEF v, t, n, x
<1>9. n \in Machine /\ n.sessions = t /\ n.values = v
  BY <1>4, <1>7, <1>8 DEF Machine
<1>10. Changed(m, c, n)
  BY <1>5, <1>6, <1>8, <1>9 DEF Changed
<1> QED BY <1>10 DEF n

-----------------------------------------------------------------------------
(* Logs.                                                                    *)

LEMMA Appended ==
  ASSUME NEW S, NEW l \in Seq(S), NEW p \in S
  PROVE  /\ Append(l, p) \in Seq(S) /\ Len(Append(l, p)) = Len(l) + 1 /\ Len(l) \in Nat
         /\ \A k \in 1 .. Len(l) : Append(l, p)[k] = l[k]
         /\ Append(l, p)[Len(l) + 1] = p
OBVIOUS

LEMMA AppendedPrefix ==
  ASSUME NEW S, NEW l \in Seq(S), NEW p \in S, NEW k \in 0 .. Len(l)
  PROVE  SubSeq(Append(l, p), 1, k) = SubSeq(l, 1, k)
<1> DEFINE m == Append(l, p)
           n == Len(l)
<1>1. /\ m \in Seq(S) /\ Len(m) = n + 1 /\ n \in Nat /\ k \in Nat /\ k <= n
      /\ \A j \in 1 .. n : m[j] = l[j]
  BY Appended
<1> HIDE DEF m
<1>2. SubSeq(m, 1, k) = [j \in 1 .. k |-> m[j]]
  BY <1>1
<1>3. SubSeq(l, 1, k) = [j \in 1 .. k |-> l[j]]
  BY <1>1
<1>4. \A j \in 1 .. k : m[j] = l[j]
  BY <1>1
<1>5. SubSeq(m, 1, k) = SubSeq(l, 1, k)
  BY <1>2, <1>3, <1>4
<1> QED BY <1>5 DEF m

(* FirstAt in any log. *)
First(l, k) ==
  /\ Validate(l[k])
  /\ \A j \in 1 .. k - 1 :
       Validate(l[j]) /\ l[j].client = l[k].client => l[j].request < l[k].request

(* s is what log l leaves as the session of client id: the command with the  *)
(* highest request ID.                                                       *)
Filed(l, s, id) ==
  /\ s = Missing => \A k \in 1 .. Len(l) : ~(Validate(l[k]) /\ l[k].client = id)
  /\ s # Missing =>
       /\ s \in Session /\ s.cmd.client = id /\ Validate(s.cmd)
       /\ \E k \in 1 .. Len(l) : l[k] = s.cmd
       /\ \A k \in 1 .. Len(l) : Validate(l[k]) /\ l[k].client = id =>
                                   l[k].request <= s.cmd.request

(* A command is new to check exactly when it is the first of its client with *)
(* so high a request ID.                                                     *)
LEMMA NewIsFirst ==
  ASSUME NEW l \in Seq(CommandType), NEW m \in Machine, NEW c \in CommandType,
         Filed(l, m.sessions[c.client], c.client)
  PROVE  Check(m, c) = "new" <=> First(Append(l, c), Len(l) + 1)
<1> DEFINE s == m.sessions[c.client]
           n == Len(l)
           t == Append(l, c)
<1>1. n \in Nat /\ t[n + 1] = c /\ \A k \in 1 .. n : t[k] = l[k] /\ l[k] \in CommandType
  BY Appended
<1>2. c.request \in Nat /\ \A k \in 1 .. n : l[k].request \in Nat
  BY <1>1 DEF CommandType
<1>3. (s # Missing => s \in Session /\ s.cmd.request \in Nat)
      /\ (Check(m, c) = "new" <=> Validate(c) /\ (s = Missing \/ s.cmd.request < c.request))
  BY Verdicts
<1>4. Filed(l, s, c.client)
  OBVIOUS
<1> HIDE DEF s, t
<1>5. First(t, n + 1) <=> /\ Validate(c)
                          /\ \A k \in 1 .. n : Validate(l[k]) /\ l[k].client = c.client =>
                                                 l[k].request < c.request
  <2>1. (n + 1) - 1 = n
    BY <1>1
  <2> HIDE DEF n
  <2>2. First(t, n + 1) <=> /\ Validate(t[n + 1])
                            /\ \A k \in 1 .. n :
                                 Validate(t[k]) /\ t[k].client = t[n + 1].client =>
                                   t[k].request < t[n + 1].request
    BY <2>1 DEF First
  <2> QED BY <1>1, <2>2
<1> HIDE DEF n
<1> SUFFICES Check(m, c) = "new" <=> First(t, n + 1)
  BY DEF t, n
<1>6. CASE s = Missing
  <2>1. \A k \in 1 .. n : ~(Validate(l[k]) /\ l[k].client = c.client)
    BY <1>4, <1>6 DEF Filed, n
  <2> QED BY <1>3, <1>5, <1>6, <2>1
<1>7. CASE s # Missing
  <2>1. PICK k \in 1 .. n : l[k] = s.cmd
    BY <1>4, <1>7 DEF Filed, n
  <2>2. Validate(l[k]) /\ l[k].client = c.client
    BY <1>4, <1>7, <2>1 DEF Filed
  <2>3. ASSUME First(t, n + 1) PROVE Check(m, c) = "new"
    BY <1>3, <1>5, <2>1, <2>2, <2>3
  <2>4. ASSUME Check(m, c) = "new" PROVE First(t, n + 1)
    <3>1. Validate(c) /\ s.cmd.request < c.request
      BY <1>3, <1>7, <2>4
    <3>2. ASSUME NEW j \in 1 .. n, Validate(l[j]) /\ l[j].client = c.client
          PROVE  l[j].request < c.request
      <4>1. l[j].request <= s.cmd.request
        BY <1>4, <1>7, <3>2 DEF Filed, n
      <4> QED BY <1>2, <1>3, <1>7, <3>1, <4>1
    <3> QED BY <1>5, <3>1, <3>2
  <2> QED BY <2>3, <2>4
<1> QED BY <1>6, <1>7

(* The sessions after one more command. *)
LEMMA FiledNew ==
  ASSUME NEW l \in Seq(CommandType), NEW c \in CommandType, NEW s, NEW t \in Session,
         Filed(l, s, c.client), t.cmd = c, Validate(c),
         s # Missing => s.cmd.request < c.request
  PROVE  Filed(Append(l, c), t, c.client)
<1> DEFINE n == Len(l)
           m == Append(l, c)
<1>1. n \in Nat /\ Len(m) = n + 1 /\ m[n + 1] = c /\ \A k \in 1 .. n : m[k] = l[k] /\ l[k] \in CommandType
  BY Appended
<1>2. c.request \in Nat /\ \A k \in 1 .. n : l[k].request \in Nat
  BY <1>1 DEF CommandType
<1>3. s # Missing => s.cmd.request \in Nat
  BY DEF Filed, Session, CommandType
<1>4. t # Missing
  BY SessionAssumption
<1>5. \A k \in 1 .. n : Validate(l[k]) /\ l[k].client = c.client => l[k].request <= c.request
  <2>1. CASE s = Missing
    BY <2>1 DEF Filed
  <2>2. CASE s # Missing
    <3>1. \A k \in 1 .. n : Validate(l[k]) /\ l[k].client = c.client =>
                              l[k].request <= s.cmd.request
      BY <2>2 DEF Filed
    <3> HIDE DEF n
    <3> QED BY <1>2, <1>3, <2>2, <3>1
  <2> QED BY <2>1, <2>2
<1> HIDE DEF m, n
<1>6. \A k \in 1 .. n + 1 : k = n + 1 \/ k \in 1 .. n
  BY <1>1
<1>7. \A k \in 1 .. Len(m) : Validate(m[k]) /\ m[k].client = c.client => m[k].request <= c.request
  BY <1>1, <1>2, <1>5, <1>6
<1>8. n + 1 \in 1 .. Len(m)
  BY <1>1
<1>9. Filed(m, t, c.client)
  BY <1>1, <1>4, <1>7, <1>8 DEF Filed
<1> QED BY <1>9 DEF m

LEMMA FiledOld ==
  ASSUME NEW l \in Seq(CommandType), NEW c \in CommandType, NEW s, NEW id,
         Filed(l, s, id),
         Validate(c) /\ c.client = id => s # Missing /\ c.request <= s.cmd.request
  PROVE  Filed(Append(l, c), s, id)
<1> DEFINE n == Len(l)
           m == Append(l, c)
<1>1. n \in Nat /\ Len(m) = n + 1 /\ m[n + 1] = c /\ \A k \in 1 .. n : m[k] = l[k]
  BY Appended
<1> HIDE DEF m
<1>2. \A k \in 1 .. n + 1 : k = n + 1 \/ k \in 1 .. n
  BY <1>1
<1>3. \A k \in 1 .. n : k \in 1 .. n + 1
  BY <1>1
<1>4. CASE s = Missing
  <2>1. \A k \in 1 .. n : ~(Validate(l[k]) /\ l[k].client = id)
    BY <1>4 DEF Filed
  <2>2. \A k \in 1 .. Len(m) : ~(Validate(m[k]) /\ m[k].client = id)
    BY <1>1, <1>2, <1>4, <2>1
  <2>3. Filed(m, s, id)
    BY <1>4, <2>2 DEF Filed
  <2> QED BY <2>3 DEF m
<1>5. CASE s # Missing
  <2>1. /\ s \in Session /\ s.cmd.client = id /\ Validate(s.cmd)
        /\ \E k \in 1 .. n : l[k] = s.cmd
        /\ \A k \in 1 .. n : Validate(l[k]) /\ l[k].client = id => l[k].request <= s.cmd.request
    BY <1>5 DEF Filed
  <2> HIDE DEF n
  <2>2. \E k \in 1 .. Len(m) : m[k] = s.cmd
    BY <1>1, <1>3, <2>1
  <2>3. \A k \in 1 .. Len(m) : Validate(m[k]) /\ m[k].client = id => m[k].request <= s.cmd.request
    BY <1>1, <1>2, <2>1
  <2>4. Filed(m, s, id)
    BY <1>5, <2>1, <2>2, <2>3 DEF Filed
  <2> QED BY <2>4 DEF m
<1> QED BY <1>4, <1>5

-----------------------------------------------------------------------------
(* The values of the commands that were first, applied once each.           *)

(* x is a command and whether it was first. *)
Once(v, x) ==
  IF x[2] = 1 THEN [v EXCEPT ![x[1].key] = Effect(v[x[1].key], x[1]).value] ELSE v

Marked(l) == [k \in 1 .. Len(l) |-> <<l[k], IF First(l, k) THEN 1 ELSE 0>>]

O == INSTANCE ReplayProofs WITH Op <- Once

OnceValues(l) == O!Replayed(New.values, Marked(l))

LEMMA MarkedAppend ==
  ASSUME NEW l \in Seq(CommandType), NEW c \in CommandType
  PROVE  /\ Marked(l) \in Seq(CommandType \X {0, 1})
         /\ Marked(Append(l, c)) =
              Append(Marked(l), <<c, IF First(Append(l, c), Len(l) + 1) THEN 1 ELSE 0>>)
<1> DEFINE n == Len(l)
           m == Append(l, c)
           b == <<c, IF First(m, n + 1) THEN 1 ELSE 0>>
           S == CommandType \X {0, 1}
<1>1. /\ n \in Nat /\ Len(m) = n + 1 /\ m[n + 1] = c
      /\ \A k \in 1 .. n : m[k] = l[k] /\ l[k] \in CommandType
  <2>1. n \in Nat /\ \A k \in 1 .. n : l[k] \in CommandType
    OBVIOUS
  <2> QED BY <2>1, Appended
<1>2. Marked(l) \in Seq(S) /\ Len(Marked(l)) = n
      /\ \A k \in 1 .. n : Marked(l)[k] = <<l[k], IF First(l, k) THEN 1 ELSE 0>>
  <2>1. \A k \in 1 .. n : <<l[k], IF First(l, k) THEN 1 ELSE 0>> \in S
    BY <1>1
  <2> HIDE DEF S, n
  <2>2. Marked(l) = [k \in 1 .. n |-> <<l[k], IF First(l, k) THEN 1 ELSE 0>>]
    BY DEF Marked, n
  <2> QED BY <1>1, <2>1, <2>2
<1> HIDE DEF m, n
<1>3. Marked(m) = [k \in 1 .. n + 1 |-> <<m[k], IF First(m, k) THEN 1 ELSE 0>>]
  BY <1>1 DEF Marked
<1>4. b \in S
  OBVIOUS
<1>5. ASSUME NEW k \in 1 .. n PROVE First(m, k) <=> First(l, k)
  <2>1. m[k] = l[k] /\ \A j \in 1 .. k - 1 : j \in 1 .. n /\ m[j] = l[j]
    BY <1>1
  <2> QED BY <2>1 DEF First
<1>6. ASSUME NEW k \in 1 .. n + 1
      PROVE  <<m[k], IF First(m, k) THEN 1 ELSE 0>> = IF k = n + 1 THEN b ELSE Marked(l)[k]
  <2>1. CASE k = n + 1
    BY <1>1, <2>1
  <2>2. CASE k # n + 1
    <3>1. k \in 1 .. n
      BY <1>1, <2>2
    <3> QED BY <1>1, <1>2, <1>5, <2>2, <3>1
  <2> QED BY <2>1, <2>2
<1> HIDE DEF b, S
<1> DEFINE u == Marked(l)
<1>7. u \in Seq(S) /\ Len(u) = n
  BY <1>2
<1>8. \A k \in 1 .. n + 1 : <<m[k], IF First(m, k) THEN 1 ELSE 0>> = IF k = n + 1 THEN b ELSE u[k]
  BY <1>6
<1> HIDE DEF u
<1>9. Append(u, b) = [k \in 1 .. n + 1 |-> IF k = n + 1 THEN b ELSE u[k]]
  <2> DEFINE t == Append(u, b)
  <2>1. t \in Seq(S) /\ Len(t) = n + 1 /\ t[n + 1] = b /\ \A k \in 1 .. n : t[k] = u[k]
    BY <1>4, <1>7, Appended
  <2> HIDE DEF t
  <2>2. t = [k \in 1 .. n + 1 |-> t[k]]
    BY <2>1
  <2>3. \A k \in 1 .. n + 1 : k # n + 1 => k \in 1 .. n
    BY <1>1
  <2>4. \A k \in 1 .. n + 1 : t[k] = IF k = n + 1 THEN b ELSE u[k]
    BY <2>1, <2>3
  <2> QED BY <2>2, <2>4 DEF t
<1>10. Marked(m) = Append(u, b)
  BY <1>3, <1>8, <1>9
<1> QED BY <1>2, <1>10 DEF u, b, m, n, S

LEMMA OnceAppend ==
  ASSUME NEW l \in Seq(CommandType), NEW c \in CommandType
  PROVE  OnceValues(Append(l, c)) =
           IF First(Append(l, c), Len(l) + 1)
             THEN [OnceValues(l) EXCEPT ![c.key] = Effect(OnceValues(l)[c.key], c).value]
             ELSE OnceValues(l)
<1> DEFINE b == <<c, IF First(Append(l, c), Len(l) + 1) THEN 1 ELSE 0>>
           S == CommandType \X {0, 1}
           u == Marked(l)
<1>1. u \in Seq(S) /\ Marked(Append(l, c)) = Append(u, b) /\ b \in S
  BY MarkedAppend
<1> HIDE DEF u, b, S
<1>2. O!Replayed(New.values, Append(u, b)) = Once(O!Replayed(New.values, u), b)
  BY <1>1, O!ReplayedAppend
<1>3. OnceValues(Append(l, c)) = Once(OnceValues(l), b)
  BY <1>1, <1>2 DEF OnceValues, u
<1>4. b[1] = c /\ (b[2] = 1 <=> First(Append(l, c), Len(l) + 1))
  BY DEF b
<1> QED BY <1>3, <1>4 DEF Once

LEMMA OnceEmpty == OnceValues(<<>>) = New.values
<1>1. Marked(<<>>) = <<>>
  BY DEF Marked
<1> QED BY <1>1, O!ReplayedEmpty DEF OnceValues

(* That is what EffectOnce computes. *)
LEMMA EffectOnceIs ==
  ASSUME log \in Seq(CommandType), machine.values = OnceValues(log)
  PROVE  EffectOnce
<1> DEFINE n == Len(log)
           u == Marked(log)
           v == New.values
           P(f) == f = [k \in 0 .. n |->
                          IF k = 0 THEN v
                          ELSE IF FirstAt(k)
                            THEN [f[k - 1] EXCEPT ![log[k].key] = Effect(@, log[k]).value]
                            ELSE f[k - 1]]
           after == CHOOSE f : P(f)
<1>1. n \in Nat /\ Len(u) = n
  BY DEF Marked
<1>2. ASSUME NEW f, NEW k \in 1 .. n
      PROVE  Once(f[k - 1], u[k]) =
               IF FirstAt(k) THEN [f[k - 1] EXCEPT ![log[k].key] = Effect(@, log[k]).value]
                             ELSE f[k - 1]
  <2>1. u[k] = <<log[k], IF First(log, k) THEN 1 ELSE 0>>
    BY DEF Marked
  <2> HIDE DEF u
  <2>2. u[k][1] = log[k] /\ (u[k][2] = 1 <=> First(log, k))
    BY <2>1
  <2>3. FirstAt(k) <=> First(log, k)
    BY DEF First, FirstAt
  <2> QED BY <2>2, <2>3 DEF Once
<1>3. ASSUME NEW f
      PROVE  P(f) <=> O!Trace(v, u, n, f)
  <2> DEFINE a(k) == IF k = 0 THEN v
                     ELSE IF FirstAt(k)
                       THEN [f[k - 1] EXCEPT ![log[k].key] = Effect(@, log[k]).value]
                       ELSE f[k - 1]
             b(k) == IF k = 0 THEN v ELSE Once(f[k - 1], u[k])
  <2>1. \A k \in 0 .. n : a(k) = b(k)
    <3> SUFFICES ASSUME NEW k \in 0 .. n PROVE a(k) = b(k)
      OBVIOUS
    <3>1. CASE k = 0
      BY <3>1
    <3>2. CASE k # 0
      <4>1. k \in 1 .. n
        BY <1>1, <3>2
      <4> HIDE DEF u, v
      <4> QED BY <1>2, <3>2, <4>1
    <3> QED BY <3>1, <3>2
  <2>2. O!Trace(v, u, n, f) <=> f = [k \in 0 .. n |-> b(k)]
    BY DEF O!Trace
  <2>3. P(f) <=> f = [k \in 0 .. n |-> a(k)]
    OBVIOUS
  <2> HIDE DEF a, b, P, u, v, n
  <2>4. [k \in 0 .. n |-> a(k)] = [k \in 0 .. n |-> b(k)]
    BY <2>1
  <2> QED BY <2>2, <2>3, <2>4
<1>4. EffectOnce <=> machine.values = after[n]
  BY DEF EffectOnce
<1>5. PICK f : O!Trace(v, u, n, f) /\ O!Replayed(v, u) = f[n]
  <2> HIDE DEF u, v
  <2> QED BY <1>1, O!ReplayedTrace
<1> HIDE DEF P, u, v
<1>6. P(after)
  BY <1>3, <1>5
<1> HIDE DEF after, n
<1>7. O!Trace(v, u, n, after)
  BY <1>3, <1>6
<1>8. after[n] = f[n]
  <2>1. \A k \in 0 .. n : after[k] = f[k]
    <3>1. n \in Nat /\ n <= n /\ \A k \in 1 .. n : u[k] = u[k]
      BY <1>1
    <3> QED BY <1>5, <1>7, <3>1, O!TraceUnique
  <2> QED BY <1>1, <2>1
<1> QED BY <1>4, <1>5, <1>8 DEF OnceValues, u, v

-----------------------------------------------------------------------------
(* The replica.                                                             *)

LEMMA ReplayIs ==
  ASSUME NEW m, NEW l
  PROVE  ReplayFrom(m, l) = R!Replayed(m, l) /\ Replay(l) = R!Replayed(New, l)
BY DEF Replay, ReplayFrom, R!Replayed

(* The session of its client has reached command c. *)
Reached(m, c) ==
  m.sessions[c.client] # Missing /\ c.request <= m.sessions[c.client].cmd.request

ReplicaInv ==
  /\ log \in Seq(CommandType)
  /\ machine \in Machine /\ machine = Replay(log)
  /\ base \in 0 .. Len(log) /\ snapshot = Replay(SubSeq(log, 1, base))
  /\ \A id \in Client : Filed(log, machine.sessions[id], id)
  /\ machine.values = OnceValues(log)

(* An answer is the session it was given from, until a higher request.       *)
AnswerInv ==
  /\ answers \subseteq Session
  /\ \A a \in answers :
       /\ Reached(machine, a.cmd)
       /\ a.cmd.request = machine.sessions[a.cmd.client].cmd.request =>
            a = machine.sessions[a.cmd.client]
  /\ AnswersRepeat

(* What a call has returned for is refused by check, or answered once more.  *)
ReturnInv ==
  \A c \in returned : c \in CommandType /\ (Validate(c) => Reached(machine, c))

(* Sessions only move to higher requests. *)
Onward(m, n) ==
  \A id \in Client : m.sessions[id] # Missing =>
    /\ n.sessions[id] # Missing
    /\ m.sessions[id].cmd.request <= n.sessions[id].cmd.request

LEMMA OnwardReached ==
  ASSUME NEW m \in Machine, NEW n \in Machine, NEW c \in CommandType, Onward(m, n),
         Reached(m, c)
  PROVE  Reached(n, c)
<1> DEFINE s == m.sessions[c.client]
           t == n.sessions[c.client]
<1>1. c.client \in Client /\ c.request \in Nat
  BY DEF CommandType
<1>2. s # Missing /\ t # Missing /\ c.request <= s.cmd.request /\ s.cmd.request <= t.cmd.request
  BY <1>1 DEF Onward, Reached
<1>3. s.cmd.request \in Nat /\ t.cmd.request \in Nat
  BY <1>2, Verdicts
<1> HIDE DEF s, t
<1>4. c.request <= t.cmd.request
  BY <1>1, <1>2, <1>3
<1> QED BY <1>2, <1>4 DEF Reached, t

LEMMA ApplyOnward ==
  ASSUME NEW m \in Machine, NEW c \in CommandType
  PROVE  Apply(m, c) \in Machine /\ Onward(m, Apply(m, c))
<1> DEFINE n == Apply(m, c)
           s == m.sessions[c.client]
<1>1. \A id \in Client : m.sessions[id] # Missing => m.sessions[id].cmd.request \in Nat
  BY DEF Machine, Session, CommandType
<1>2. CASE Check(m, c) = "new"
  <2>1. Changed(m, c, n)
    BY <1>2, ApplyChanges
  <2>2. s = Missing \/ s.cmd.request < c.request
    BY <1>2, Verdicts
  <2>3. c.client \in Client /\ c.request \in Nat
    BY DEF CommandType
  <2> HIDE DEF n
  <2>4. n.sessions[c.client] # Missing /\ n.sessions[c.client].cmd = c
    BY <2>1, SessionAssumption DEF Changed
  <2>5. ASSUME NEW id \in Client, m.sessions[id] # Missing
        PROVE  /\ n.sessions[id] # Missing
               /\ m.sessions[id].cmd.request <= n.sessions[id].cmd.request
    <3>1. CASE id = c.client
      BY <1>1, <2>2, <2>3, <2>4, <2>5, <3>1
    <3>2. CASE id # c.client
      <4>1. n.sessions[id] = m.sessions[id]
        BY <2>1, <3>2 DEF Changed
      <4> QED BY <1>1, <2>5, <4>1
    <3> QED BY <3>1, <3>2
  <2>6. n \in Machine /\ Onward(m, n)
    BY <2>1, <2>5 DEF Onward, Changed
  <2> QED BY <2>6 DEF n
<1>3. CASE Check(m, c) # "new"
  <2>1. n = m
    BY <1>3 DEF Apply
  <2>2. Onward(m, m)
    BY <1>1 DEF Onward
  <2> QED BY <2>1, <2>2
<1> QED BY <1>2, <1>3

(* One more command: the machine is that of the longer log. *)
LEMMA CommitReplica ==
  ASSUME ReplicaInv, NEW c \in CommandType, Commit(c)
  PROVE  ReplicaInv'
<1> DEFINE m == machine
           n == Apply(machine, c)
           l == log
           s == m.sessions[c.client]
           e == Append(log, c)
<1>1. /\ l \in Seq(CommandType) /\ m \in Machine /\ m = Replay(l)
      /\ base \in 0 .. Len(l) /\ snapshot = Replay(SubSeq(l, 1, base))
      /\ \A id \in Client : Filed(l, m.sessions[id], id)
      /\ m.values = OnceValues(l)
  BY DEF ReplicaInv
<1>2. log' = e /\ machine' = n /\ base' = base /\ snapshot' = snapshot
  BY DEF Commit
<1>3. e \in Seq(CommandType) /\ Len(e) = Len(l) + 1 /\ Len(l) \in Nat
  BY <1>1, Appended
<1>4. n \in Machine
  BY <1>1, ApplyOnward
<1>5. n = Replay(e)
  <2>1. R!Replayed(New, Append(l, c)) = Apply(R!Replayed(New, l), c)
    BY <1>1, R!ReplayedAppend
  <2> QED BY <1>1, <2>1, ReplayIs
<1>6. base \in 0 .. Len(e) /\ snapshot = Replay(SubSeq(e, 1, base))
  <2>1. SubSeq(e, 1, base) = SubSeq(l, 1, base)
    BY <1>1, AppendedPrefix
  <2>2. base \in 0 .. Len(e)
    BY <1>1, <1>3
  <2> QED BY <1>1, <2>1, <2>2
<1>7. c.client \in Client /\ c.request \in Nat /\ Filed(l, s, c.client)
  BY <1>1 DEF CommandType
<1>8. Check(m, c) = "new" <=> First(e, Len(l) + 1)
  BY <1>1, <1>7, NewIsFirst
<1>9. (\A id \in Client : Filed(e, n.sessions[id], id)) /\ n.values = OnceValues(e)
  <2>1. CASE Check(m, c) = "new"
    <3>1. Changed(m, c, n)
      BY <1>1, <2>1, ApplyChanges
    <3>2. Validate(c) /\ (s = Missing \/ s.cmd.request < c.request)
      BY <1>1, <2>1, Verdicts
    <3>3. n.values = OnceValues(e)
      BY <1>1, <1>8, <2>1, <3>1, OnceAppend DEF Changed
    <3> HIDE DEF n, s
    <3>4. ASSUME NEW id \in Client PROVE Filed(e, n.sessions[id], id)
      <4>1. CASE id = c.client
        <5>1. n.sessions[c.client] \in Session /\ n.sessions[c.client].cmd = c
          BY <3>1 DEF Changed
        <5>2. Filed(e, n.sessions[c.client], c.client)
          BY <1>1, <1>7, <3>2, <5>1, FiledNew
        <5> QED BY <4>1, <5>2
      <4>2. CASE id # c.client
        <5>1. n.sessions[id] = m.sessions[id]
          BY <3>1, <4>2 DEF Changed
        <5>2. Filed(e, m.sessions[id], id)
          <6> DEFINE r == m.sessions[id]
          <6>1. Filed(l, r, id)
            BY <1>1
          <6> HIDE DEF r
          <6>2. Filed(e, r, id)
            BY <1>1, <4>2, <6>1, FiledOld
          <6> QED BY <6>2 DEF r
        <5> QED BY <5>1, <5>2
      <4> QED BY <4>1, <4>2
    <3> QED BY <3>3, <3>4
  <2>2. CASE Check(m, c) # "new"
    <3>1. n = m
      BY <2>2 DEF Apply
    <3>2. Validate(c) => s # Missing /\ ~(s.cmd.request < c.request) /\ s.cmd.request \in Nat
      BY <1>1, <2>2, Verdicts
    <3>3. OnceValues(e) = OnceValues(l)
      BY <1>1, <1>8, <2>2, OnceAppend
    <3>4. ASSUME NEW id \in Client PROVE Filed(e, m.sessions[id], id)
      <4> DEFINE r == m.sessions[id]
      <4>1. Filed(l, r, id)
        BY <1>1
      <4>2. Validate(c) /\ c.client = id => r # Missing /\ c.request <= r.cmd.request
        BY <1>7, <3>2
      <4> HIDE DEF r
      <4>3. Filed(e, r, id)
        BY <1>1, <4>1, <4>2, FiledOld
      <4> QED BY <4>3 DEF r
    <3> QED BY <1>1, <3>1, <3>3, <3>4
  <2> QED BY <2>1, <2>2
<1> QED BY <1>2, <1>3, <1>4, <1>5, <1>6, <1>9 DEF ReplicaInv

LEMMA CommitAnswers ==
  ASSUME ReplicaInv, AnswerInv, NEW c \in CommandType, Commit(c)
  PROVE  AnswerInv' /\ (Validate(c) => Reached(machine', c))
<1> DEFINE m == machine
           n == Apply(machine, c)
           s == m.sessions[c.client]
           t == n.sessions[c.client]
<1>1. /\ m \in Machine /\ n \in Machine /\ Onward(m, n) /\ machine' = n
      /\ c.client \in Client /\ c.request \in Nat
  BY ApplyOnward DEF ReplicaInv, Commit, CommandType
<1>2. /\ s # Missing => s \in Session /\ s.cmd \in CommandType /\ s.cmd.request \in Nat
      /\ Check(m, c) = "new" <=> Validate(c) /\ (s = Missing \/ s.cmd.request < c.request)
      /\ Check(m, c) = "duplicate" <=> Validate(c) /\ s # Missing /\ s.cmd = c
  BY <1>1, Verdicts
<1>3. /\ answers \subseteq Session /\ AnswersRepeat
      /\ \A a \in answers :
           /\ Reached(m, a.cmd)
           /\ a.cmd.request = m.sessions[a.cmd.client].cmd.request =>
                a = m.sessions[a.cmd.client]
  BY DEF AnswerInv
<1>4. \A a \in answers : a.cmd \in CommandType /\ a.cmd.client \in Client /\ a.cmd.request \in Nat
  BY <1>3 DEF Session, CommandType
<1>5. answers' = IF Check(m, c) \in {"new", "duplicate"}
                   THEN answers \cup {[cmd |-> c, result |-> t.result]} ELSE answers
  BY <1>1 DEF Commit
<1>6. CASE Check(m, c) = "new"
  <2>1. t \in Session /\ t.cmd = c /\ \A id \in Client : id # c.client => n.sessions[id] = m.sessions[id]
    BY <1>1, <1>6, ApplyChanges DEF Changed
  <2>2. Validate(c) /\ (s = Missing \/ s.cmd.request < c.request)
    BY <1>2, <1>6
  <2>3. t = [cmd |-> c, result |-> t.result] /\ t # Missing
    BY <2>1, SessionAssumption DEF Session
  <2>4. answers' = answers \cup {t}
    BY <1>5, <1>6, <2>3
  <2> HIDE DEF n
  <2>5. \A a \in answers : a.cmd.client = c.client => a.cmd.request < c.request
    BY <1>1, <1>2, <1>3, <1>4, <2>2 DEF Reached
  <2>6. ASSUME NEW a \in answers
        PROVE  /\ Reached(n, a.cmd)
               /\ a.cmd.request = n.sessions[a.cmd.client].cmd.request =>
                    a = n.sessions[a.cmd.client]
    <3>1. Reached(n, a.cmd)
      BY <1>1, <1>3, <1>4, OnwardReached
    <3>2. CASE a.cmd.client = c.client
      <4>1. a.cmd.request < c.request /\ n.sessions[a.cmd.client].cmd = c
        BY <2>1, <2>5, <3>2
      <4> QED BY <1>1, <1>4, <3>1, <4>1
    <3>3. CASE a.cmd.client # c.client
      BY <1>3, <1>4, <2>1, <3>1, <3>3
    <3> QED BY <3>2, <3>3
  <2> HIDE DEF t
  <2>7. Reached(n, c) /\ n.sessions[c.client] = t
    BY <1>1, <2>1, <2>3 DEF Reached, t
  <2>8. AnswersRepeat'
    <3> SUFFICES ASSUME NEW a \in answers', NEW b \in answers',
                        a.cmd.client = b.cmd.client, a.cmd.request = b.cmd.request
                 PROVE  a = b
      BY DEF AnswersRepeat
    <3>1. a \in answers /\ b \in answers => a = b
      BY <1>3 DEF AnswersRepeat
    <3>2. \A x \in answers : x.cmd.client = t.cmd.client => x.cmd.request # t.cmd.request
      BY <1>1, <1>4, <2>1, <2>5
    <3> QED BY <2>4, <3>1, <3>2
  <2>9. answers' \subseteq Session
    BY <1>3, <2>1, <2>4
  <2>10. \A a \in answers' :
           /\ Reached(n, a.cmd)
           /\ a.cmd.request = n.sessions[a.cmd.client].cmd.request =>
                a = n.sessions[a.cmd.client]
    BY <2>1, <2>4, <2>6, <2>7
  <2> QED BY <1>1, <2>7, <2>8, <2>9, <2>10 DEF AnswerInv
<1>7. CASE Check(m, c) # "new"
  <2>1. n = m
    BY <1>7 DEF Apply
  <2>2. Validate(c) => Reached(m, c)
    BY <1>1, <1>2, <1>7 DEF Reached
  <2>3. CASE Check(m, c) # "duplicate"
    <3>1. answers' = answers
      BY <1>5, <1>7, <2>3
    <3> QED BY <1>1, <2>1, <2>2, <3>1 DEF AnswerInv, AnswersRepeat
  <2>4. CASE Check(m, c) = "duplicate"
    <3>1. s \in Session /\ s.cmd = c /\ s # Missing /\ Reached(m, c)
      BY <1>2, <2>2, <2>4
    <3>2. s = [cmd |-> c, result |-> s.result]
      BY <3>1 DEF Session
    <3>3. answers' = answers \cup {s}
      BY <1>5, <2>1, <2>4, <3>2
    <3> HIDE DEF n, s
    <3>4. \A a \in answers : a.cmd.client = c.client /\ a.cmd.request = c.request => a = s
      BY <1>3, <3>1 DEF s
    <3>5. AnswersRepeat'
      <4> SUFFICES ASSUME NEW a \in answers', NEW b \in answers',
                          a.cmd.client = b.cmd.client, a.cmd.request = b.cmd.request
                   PROVE  a = b
        BY DEF AnswersRepeat
      <4>1. a \in answers /\ b \in answers => a = b
        BY <1>3 DEF AnswersRepeat
      <4> QED BY <3>1, <3>3, <3>4, <4>1
    <3>6. answers' \subseteq Session
      BY <1>3, <3>1, <3>3
    <3>7. s = m.sessions[s.cmd.client]
      BY <3>1 DEF s
    <3>8. \A a \in answers' :
           /\ Reached(m, a.cmd)
           /\ a.cmd.request = m.sessions[a.cmd.client].cmd.request =>
                a = m.sessions[a.cmd.client]
      BY <1>3, <3>1, <3>3, <3>7
    <3> QED BY <1>1, <2>1, <2>2, <3>5, <3>6, <3>8 DEF AnswerInv
  <2> QED BY <2>3, <2>4
<1> QED BY <1>6, <1>7

(* maybeSnapshotLocked. *)
LEMMA CheckpointReplica ==
  ASSUME ReplicaInv, Checkpoint
  PROVE  ReplicaInv' /\ machine' = machine /\ answers' = answers /\ log' = log
<1>1. log \in Seq(CommandType) /\ machine \in Machine /\ machine = Replay(log)
  BY DEF ReplicaInv
<1>2. /\ snapshot' = Snapshot(machine) /\ base' = Len(log) /\ log' = log
      /\ machine' = machine /\ answers' = answers
  BY DEF Checkpoint
<1>3. Snapshot(machine) = machine
  BY <1>1 DEF Snapshot, Machine
<1>4. Len(log) \in 0 .. Len(log) /\ SubSeq(log, 1, Len(log)) = log
  BY <1>1
<1> QED BY <1>1, <1>2, <1>3, <1>4 DEF ReplicaInv

(* OpenWithRuntime comes back with the machine that was lost. *)
LEMMA RestartReplica ==
  ASSUME ReplicaInv, Restart
  PROVE  ReplicaInv' /\ machine' = machine /\ answers' = answers /\ log' = log
<1>1. /\ log \in Seq(CommandType) /\ machine = Replay(log) /\ base \in 0 .. Len(log)
      /\ snapshot = Replay(SubSeq(log, 1, base))
  BY DEF ReplicaInv
<1>2. /\ machine' = ReplayFrom(snapshot, SubSeq(log, base + 1, Len(log)))
      /\ log' = log /\ snapshot' = snapshot /\ base' = base /\ answers' = answers
  BY DEF Restart
<1> DEFINE s == SubSeq(log, 1, base)
           t == SubSeq(log, base + 1, Len(log))
<1>3. R!Replayed(R!Replayed(New, s), t) = R!Replayed(New, log)
  BY <1>1, R!ReplayedSplit
<1> HIDE DEF s, t
<1>4. ReplayFrom(Replay(s), t) = Replay(log)
  BY <1>3, ReplayIs
<1>5. machine' = machine
  BY <1>1, <1>2, <1>4 DEF s, t
<1> QED BY <1>2, <1>5 DEF ReplicaInv

LEMMA ReplicaInitially ==
  ASSUME ServiceInit
  PROVE  ReplicaInv /\ AnswerInv /\ ReturnInv /\ sent \subseteq CommandType
<1>1. /\ log = <<>> /\ machine = New /\ snapshot = New /\ base = 0 /\ answers = {}
      /\ returned = {} /\ sent \subseteq CommandType
  BY DEF ServiceInit, ReplicaInit
<1>2. Replay(<<>>) = New
  BY ReplayIs, R!ReplayedEmpty
<1>3. <<>> \in Seq(CommandType) /\ Len(<<>>) = 0
  OBVIOUS
<1>4. SubSeq(log, 1, base) = <<>> /\ base \in 0 .. Len(log)
  BY <1>1
<1>5. \A id \in Client : Filed(<<>>, New.sessions[id], id)
  <2>1. \A id \in Client : New.sessions[id] = Missing
    BY DEF New
  <2> QED BY <1>3, <2>1 DEF Filed
<1>6. ReplicaInv
  BY <1>1, <1>2, <1>3, <1>4, <1>5, NewMachine, OnceEmpty DEF ReplicaInv
<1> QED BY <1>1, <1>6 DEF AnswerInv, ReturnInv, AnswersRepeat

(* A step leaves the machine alone, or commits a command. *)
Steady == log' = log /\ machine' = machine

LEMMA SteadyKeeps ==
  ASSUME ReturnInv, machine' = machine, returned' = returned
  PROVE  ReturnInv'
BY DEF ReturnInv, Reached

LEMMA CommitKeepsReturned ==
  ASSUME ReplicaInv, ReturnInv, NEW c \in CommandType, Commit(c)
  PROVE  \A r \in returned : r \in CommandType /\ (Validate(r) => Reached(machine', r))
<1>1. machine \in Machine /\ machine' = Apply(machine, c)
  BY DEF ReplicaInv, Commit
<1>2. Apply(machine, c) \in Machine /\ Onward(machine, Apply(machine, c))
  BY <1>1, ApplyOnward
<1> QED BY <1>1, <1>2, OnwardReached DEF ReturnInv

(* What Settled says of a step that commits command c. *)
LEMMA CommitSettled ==
  ASSUME ReplicaInv, ReturnInv, NEW c \in CommandType, Commit(c), NEW r \in returned,
         log' = Append(log, r)
  PROVE  machine'.values = machine.values
<1>1. log \in Seq(CommandType) /\ machine \in Machine
  BY DEF ReplicaInv
<1>2. r \in CommandType /\ (Validate(r) => Reached(machine, r))
  BY DEF ReturnInv
<1>3. Append(log, c) = Append(log, r) /\ machine' = Apply(machine, c)
  BY DEF Commit
<1>4. Append(log, c)[Len(log) + 1] = c /\ Append(log, r)[Len(log) + 1] = r
  BY <1>1, <1>2, Appended
<1>5. c = r
  BY <1>3, <1>4
<1> DEFINE s == machine.sessions[r.client]
<1>6. /\ s # Missing => s.cmd.request \in Nat
      /\ Check(machine, r) = "new" <=> Validate(r) /\ (s = Missing \/ s.cmd.request < r.request)
  BY <1>1, <1>2, Verdicts
<1>7. r.request \in Nat
  BY <1>2 DEF CommandType
<1>8. Validate(r) => s # Missing /\ r.request <= s.cmd.request
  BY <1>2 DEF Reached
<1> HIDE DEF s
<1>9. Check(machine, r) # "new"
  BY <1>6, <1>7, <1>8
<1> QED BY <1>3, <1>5, <1>9 DEF Apply

LEMMA SteadySettled ==
  ASSUME ReplicaInv, Steady, NEW r
  PROVE  log' # Append(log, r)
<1>1. log \in Seq(CommandType) /\ Len(log) \in Nat
  BY DEF ReplicaInv
<1>2. Len(Append(log, r)) = Len(log) + 1
  BY <1>1
<1> QED BY <1>1, <1>2 DEF Steady

-----------------------------------------------------------------------------
(* The tables of the client.                                                *)

U == INSTANCE ReplayProofs WITH Op <- add

(* t holds the servers of s, and more. *)
Extends(s, t) == t \in Seq(Server) /\ t # <<>> /\ ToSet(s) \subseteq ToSet(t)

LEMMA AddExtends ==
  ASSUME NEW s \in Seq(Server), NEW x \in Server
  PROVE  Extends(s, add(s, x)) /\ x \in ToSet(add(s, x))
<1>1. CASE x \in ToSet(s)
  <2>1. add(s, x) = s /\ s # <<>>
    BY <1>1 DEF add, ToSet
  <2> QED BY <1>1, <2>1 DEF Extends
<1>2. CASE x \notin ToSet(s)
  <2> DEFINE t == Append(s, x)
             n == Len(s)
  <2>1. add(s, x) = t
    BY <1>2 DEF add
  <2>2. /\ t \in Seq(Server) /\ Len(t) = n + 1 /\ n \in Nat /\ t[n + 1] = x
        /\ \A k \in 1 .. n : t[k] = s[k]
    BY Appended
  <2>3. DOMAIN s = 1 .. n /\ DOMAIN t = 1 .. n + 1
    BY <2>2
  <2> HIDE DEF t, n
  <2>4. n + 1 \in 1 .. n + 1 /\ \A k \in 1 .. n : k \in 1 .. n + 1
    BY <2>2
  <2>5. x \in ToSet(t) /\ ToSet(s) \subseteq ToSet(t)
    BY <2>2, <2>3, <2>4 DEF ToSet
  <2>6. t # <<>>
    BY <2>2
  <2> QED BY <2>1, <2>2, <2>5, <2>6 DEF Extends
<1> QED BY <1>1, <1>2

LEMMA AddAllIs ==
  ASSUME NEW s, NEW urls
  PROVE  addAll(s, urls) = U!Replayed(s, urls)
BY DEF addAll, U!Replayed

LEMMA AddAllExtends ==
  ASSUME NEW s \in Seq(Server), s # <<>>, NEW urls \in Seq(Server)
  PROVE  Extends(s, addAll(s, urls))
<1> DEFINE T == {t \in Seq(Server) : t # <<>> /\ ToSet(s) \subseteq ToSet(t)}
<1>1. s \in T /\ Len(urls) \in Nat
  OBVIOUS
<1>2. ASSUME NEW t \in T, NEW k \in 1 .. Len(urls) PROVE add(t, urls[k]) \in T
  <2>1. urls[k] \in Server /\ t \in Seq(Server) /\ ToSet(s) \subseteq ToSet(t)
    OBVIOUS
  <2>2. Extends(t, add(t, urls[k]))
    BY <2>1, AddExtends
  <2> QED BY <2>1, <2>2 DEF Extends
<1> HIDE DEF T
<1>3. U!Replayed(s, urls) \in T
  BY <1>1, <1>2, U!ReplayedStays
<1> QED BY <1>3, AddAllIs DEF T, Extends

LEMMA ServersInitially ==
  ASSUME NEW urls \in Seq(Server), urls # <<>>
  PROVE  addAll(<<>>, urls) \in Seq(Server) /\ addAll(<<>>, urls) # <<>>
<1> DEFINE n == Len(urls)
           p == SubSeq(urls, 1, 1)
           q == SubSeq(urls, 2, n)
           x == urls[1]
<1>1. n \in Nat /\ 1 \in 0 .. n /\ x \in Server /\ 1 \in 1 .. n
  OBVIOUS
<1>2. p = Append(<<>>, x) /\ q \in Seq(Server)
  <2> DEFINE a == Append(<<>>, x)
  <2>1. p = [j \in 1 .. 1 |-> urls[j]]
    BY <1>1
  <2>2. a \in Seq(Server) /\ Len(a) = 1 /\ a[1] = x
    BY <1>1
  <2>3. q \in Seq(Server)
    BY <1>1
  <2> HIDE DEF a, p, q
  <2>4. a = [j \in 1 .. 1 |-> a[j]]
    BY <2>2
  <2>5. \A j \in 1 .. 1 : a[j] = urls[j]
    BY <2>2
  <2>6. p = a
    BY <2>1, <2>4, <2>5
  <2> QED BY <2>3, <2>6 DEF a
<1>3. U!Replayed(<<>>, Append(<<>>, x)) = add(U!Replayed(<<>>, <<>>), x)
  <2>1. <<>> \in Seq(Server)
    OBVIOUS
  <2> HIDE DEF x
  <2> QED BY <1>1, <2>1, U!ReplayedAppend
<1>4. U!Replayed(<<>>, p) = add(<<>>, x)
  BY <1>2, <1>3, U!ReplayedEmpty
<1> DEFINE s == add(<<>>, x)
<1>5. s \in Seq(Server) /\ s # <<>>
  <2>1. <<>> \in Seq(Server)
    OBVIOUS
  <2> QED BY <1>1, <2>1, AddExtends DEF Extends
<1>6. U!Replayed(U!Replayed(<<>>, SubSeq(urls, 1, 1)), SubSeq(urls, 1 + 1, Len(urls)))
        = U!Replayed(<<>>, urls)
  BY <1>1, U!ReplayedSplit
<1>7. U!Replayed(s, q) = U!Replayed(<<>>, urls)
  BY <1>4, <1>6
<1> HIDE DEF s, q
<1>8. Extends(s, addAll(s, q))
  BY <1>2, <1>5, AddAllExtends
<1> QED BY <1>7, <1>8, AddAllIs DEF Extends

(* The calls under way. *)
CallType == [phase : {"idle", "ask", "learn", "add", "next"}, cmd : CommandType \cup {Null},
             target : Server \cup {Null}, cursor : Nat, attempt : Nat, status : Nat,
             redirect : Server \cup {Null}]

CallOK(d, s) ==
  /\ d \in CallType
  /\ d.phase # "idle" => /\ d.cmd \in CommandType /\ d.target \in ToSet(s)
                         /\ d.redirect \in ToSet(s) \cup {Null}

ClientInv ==
  /\ servers \in Seq(Server) /\ servers # <<>>
  /\ preferred \in ToSet(servers) \cup {Null}
  /\ do = [k \in Caller |-> do[k]]
  /\ \A k \in Caller : CallOK(do[k], servers)

LEMMA IdleOK == ASSUME NEW s PROVE CallOK(Idle, s)
BY DEF CallOK, CallType, Idle

LEMMA CallStays ==
  ASSUME NEW d, NEW s, NEW t, CallOK(d, s), Extends(s, t)
  PROVE  CallOK(d, t)
BY DEF CallOK, Extends

(* One call changes, and the tables grow. *)
LEMMA CallChanges ==
  ASSUME ClientInv, NEW k \in Caller, NEW d, do' = [do EXCEPT ![k] = d],
         Extends(servers, servers'), CallOK(d, servers'),
         preferred' \in ToSet(servers') \cup {Null}
  PROVE  ClientInv' /\ do'[k] = d
<1>1. /\ do' = [j \in Caller |-> do'[j]] /\ do'[k] = d
      /\ \A j \in Caller : j # k => do'[j] = do[j]
  BY DEF ClientInv
<1>2. ASSUME NEW j \in Caller PROVE CallOK(do'[j], servers')
  <2>1. CASE j = k
    BY <1>1, <2>1
  <2>2. CASE j # k
    <3>1. CallOK(do[j], servers)
      BY DEF ClientInv
    <3> QED BY <1>1, <2>2, <3>1, CallStays
  <2> QED BY <2>1, <2>2
<1> QED BY <1>1, <1>2 DEF ClientInv, Extends

LEMMA Unextended ==
  ASSUME ClientInv, servers' = servers
  PROVE  Extends(servers, servers')
BY DEF ClientInv, Extends

-----------------------------------------------------------------------------
(* The rotation.                                                            *)

LEMMA Division ==
  ASSUME NEW n \in Nat \ {0}, NEW i \in Nat
  PROVE  i = n * (i \div n) + (i % n) /\ i \div n \in Nat /\ i % n \in 0 .. n - 1
OBVIOUS

LEMMA Remainder ==
  ASSUME NEW n \in Nat \ {0}, NEW q \in Nat, NEW r \in 0 .. n - 1
  PROVE  (n * q + r) % n = r
OBVIOUS

LEMMA RoundOnce ==
  ASSUME NEW n \in Nat \ {0}, NEW i \in Nat
  PROVE  (i + n) % n = i % n
<1> DEFINE q == i \div n
           r == i % n
<1>1. i = n * q + r /\ q \in Nat /\ r \in 0 .. n - 1
  BY Division
<1> HIDE DEF q, r
<1>2. i + n = n * (q + 1) + r
  BY <1>1
<1>3. (n * (q + 1) + r) % n = r
  <2>1. q + 1 \in Nat
    BY <1>1
  <2> QED BY <1>1, <2>1, Remainder
<1> QED BY <1>2, <1>3 DEF r

(* Among n consecutive cursors each position of a table of n occurs. *)
LEMMA EveryPosition ==
  ASSUME NEW n \in Nat \ {0}, NEW w \in Nat, NEW j \in 0 .. n - 1
  PROVE  \E i \in w .. w + n - 1 : i % n = j
<1> DEFINE Hit(x) == \E i \in x .. x + n - 1 : i % n = j
           T == {x \in Nat : ~Hit(x)}
<1> SUFFICES ASSUME T # {} PROVE FALSE
  OBVIOUS
<1>1. PICK x \in T : \A y \in T : x <= y
  <2>1. T \subseteq Nat
    OBVIOUS
  <2> HIDE DEF T
  <2> QED BY <2>1, R!Least
<1>2. x \in Nat /\ ~Hit(x)
  OBVIOUS
<1>3. x # 0
  <2>1. j \in 0 .. 0 + n - 1 /\ j % n = j
    <3>1. n * 0 + j = j /\ 0 \in Nat
      OBVIOUS
    <3>2. (n * 0 + j) % n = j
      BY <3>1, Remainder
    <3> QED BY <3>1, <3>2
  <2>2. Hit(0)
    BY <2>1
  <2> QED BY <1>2, <2>2
<1> DEFINE y == x - 1
<1>4. y \in Nat /\ ~(x <= y) /\ y + 1 = x
  BY <1>2, <1>3
<1> HIDE DEF y
<1>5. Hit(y)
  BY <1>1, <1>4
<1>6. PICK i \in y .. y + n - 1 : i % n = j
  BY <1>5
<1>7. i \in Nat
  BY <1>4
<1>8. CASE i = y
  <2>1. (y + n) % n = j
    BY <1>4, <1>6, <1>8, RoundOnce
  <2>2. y + n \in x .. x + n - 1
    BY <1>2, <1>4
  <2> QED BY <1>2, <2>1, <2>2
<1>9. CASE i # y
  <2>1. i \in x .. x + n - 1
    BY <1>4, <1>6, <1>9
  <2> QED BY <1>2, <1>6, <2>1
<1> QED BY <1>8, <1>9

(* The table a call takes its targets from holds every known server. *)
LEMMA TableHolds ==
  ASSUME ClientInv, NEW x \in ToSet(servers)
  PROVE  /\ Len(servers) \in Nat \ {0} /\ Len(addresses) = Len(servers)
         /\ \A i \in 1 .. Len(servers) : addresses[i] \in ToSet(servers)
         /\ \E i \in 1 .. Len(servers) : addresses[i] = x
<1> DEFINE s == servers
           n == Len(servers)
           a == addresses
<1>1. s \in Seq(Server) /\ s # <<>> /\ preferred \in ToSet(s) \cup {Null} /\ Null \notin Server
  BY ClientAssumption DEF ClientInv
<1>2. n \in Nat \ {0} /\ DOMAIN s = 1 .. n /\ \A i \in 1 .. n : s[i] \in Server
  BY <1>1
<1>3. ToSet(s) = {s[i] : i \in 1 .. n}
  BY <1>2 DEF ToSet
<1>4. a = [i \in 1 .. n |-> IF preferred = Null THEN s[i]
                            ELSE IF i = 1 THEN preferred
                            ELSE IF s[i] = preferred THEN s[1] ELSE s[i]]
  BY <1>2 DEF addresses
<1> HIDE DEF a, n, s
<1>5. 1 \in 1 .. n
  BY <1>2
<1>6. \A i \in 1 .. n : a[i] \in ToSet(s)
  BY <1>1, <1>3, <1>4, <1>5
<1>7. Len(a) = n
  <2>1. a \in Seq(ToSet(s))
    BY <1>2, <1>4, <1>6
  <2>2. DOMAIN a = 1 .. n
    BY <1>4
  <2> QED BY <1>2, <2>1, <2>2
<1>8. PICK i \in 1 .. n : s[i] = x
  BY <1>3 DEF s
<1>9. CASE preferred = Null
  <2>1. a[i] = x
    BY <1>4, <1>8, <1>9
  <2> QED BY <1>2, <1>6, <1>7, <2>1 DEF a, n, s
<1>10. CASE preferred # Null /\ preferred = x
  <2>1. a[1] = x
    BY <1>4, <1>5, <1>10
  <2> QED BY <1>2, <1>5, <1>6, <1>7, <2>1 DEF a, n, s
<1>11. CASE preferred # Null /\ preferred # x /\ i # 1
  <2>1. a[i] = x
    BY <1>4, <1>8, <1>11
  <2> QED BY <1>2, <1>6, <1>7, <2>1 DEF a, n, s
<1>12. CASE preferred # Null /\ preferred # x /\ i = 1
  <2>1. PICK j \in 1 .. n : s[j] = preferred
    BY <1>1, <1>3, <1>12
  <2>2. j # 1 /\ a[j] = s[1]
    BY <1>4, <1>8, <1>12, <2>1
  <2> QED BY <1>2, <1>6, <1>7, <1>8, <1>12, <2>2 DEF a, n, s
<1> QED BY <1>9, <1>10, <1>11, <1>12

(* Call d has missed leader l m times: at the targets of the cursors w .. h, *)
(* and at no more redirects than rotations, but one or two.  a is the table  *)
(* and n its length.  While a request is under way, either the cursor's      *)
(* target has been missed, or it is the one that is asked.                   *)
Chase(d, m, a, n, l) ==
  \E w \in Nat, h \in Nat :
    /\ w <= h + 1
    /\ \A i \in w .. h : a[(i % n) + 1] # l
    /\ m <= 2 * (h - w) + 4
    /\ d.phase = "ask" =>
         \/ h = d.cursor /\ m <= 2 * (h - w) + 2 + (d.attempt % 2)
         \/ h + 1 = d.cursor /\ d.target = a[(d.cursor % n) + 1]
    /\ d.phase \in {"learn", "add", "next"} =>
         h = d.cursor /\ m <= 2 * (h - w) + 3 + (d.attempt % 2)

(* The request of d missed the leader too. *)
LEMMA FailChase ==
  ASSUME NEW d \in CallType, NEW e \in CallType, NEW m \in Nat, NEW a, NEW n, NEW l,
         d.phase = "ask", e.phase = "learn", e.cursor = d.cursor, e.attempt = d.attempt,
         d.target # l, m = 0 \/ Chase(d, m, a, n, l)
  PROVE  Chase(e, m + 1, a, n, l)
<1> DEFINE c == d.cursor
           b == d.attempt % 2
<1>1. c \in Nat /\ d.attempt \in Nat /\ b \in 0 .. 1
  BY DEF CallType
<1>2. e.phase = "learn" /\ e.cursor = c /\ e.attempt % 2 = b
  OBVIOUS
<1> HIDE DEF b, c
<1>3. ASSUME NEW w \in Nat, w <= c + 1, m <= 2 * (c - w) + 2 + b,
             \A i \in w .. c : a[(i % n) + 1] # l
      PROVE  Chase(e, m + 1, a, n, l)
  <2>1. m + 1 <= 2 * (c - w) + 4 /\ m + 1 <= 2 * (c - w) + 3 + b
    BY <1>1, <1>3
  <2> QED BY <1>1, <1>2, <1>3, <2>1 DEF Chase
<1>4. CASE m = 0
  <2> DEFINE w == c + 1
  <2>1. w \in Nat /\ w <= c + 1 /\ m <= 2 * (c - w) + 2 + b /\ w .. c = {}
    BY <1>1, <1>4
  <2> HIDE DEF w
  <2> QED BY <1>3, <2>1
<1>5. CASE Chase(d, m, a, n, l)
  <2>1. PICK w \in Nat, h \in Nat :
          /\ w <= h + 1
          /\ \A i \in w .. h : a[(i % n) + 1] # l
          /\ m <= 2 * (h - w) + 4
          /\ \/ h = c /\ m <= 2 * (h - w) + 2 + b
             \/ h + 1 = c /\ d.target = a[(c % n) + 1]
    BY <1>5 DEF Chase, b, c
  <2>2. CASE h = c /\ m <= 2 * (h - w) + 2 + b
    BY <1>3, <2>1, <2>2
  <2>3. CASE h + 1 = c /\ d.target = a[(c % n) + 1]
    <3>1. w <= c + 1 /\ m <= 2 * (c - w) + 2 + b
      BY <1>1, <2>1, <2>3
    <3>2. \A i \in w .. c : i \in w .. h \/ i = c
      BY <1>1, <2>3
    <3>3. \A i \in w .. c : a[(i % n) + 1] # l
      BY <2>1, <2>3, <3>2
    <3> QED BY <1>3, <3>1, <3>3
  <2> QED BY <2>1, <2>2, <2>3
<1> QED BY <1>4, <1>5

(* The next target: of the rotation, or of a redirect after a rotation. *)
LEMMA RetargetChase ==
  ASSUME NEW d \in CallType, NEW e \in CallType, NEW m \in Nat, NEW a, NEW n, NEW l,
         d.phase = "next", e.phase = "ask", e.attempt = d.attempt + 1,
         \/ e.cursor = d.cursor + 1 /\ e.target = a[(e.cursor % n) + 1]
         \/ e.cursor = d.cursor /\ d.attempt % 2 = 0,
         Chase(d, m, a, n, l)
  PROVE  Chase(e, m, a, n, l)
<1> DEFINE c == d.cursor
<1>1. c \in Nat /\ d.attempt \in Nat /\ e.attempt \in Nat
  BY DEF CallType
<1>2. PICK w \in Nat, h \in Nat :
        /\ w <= h + 1
        /\ \A i \in w .. h : a[(i % n) + 1] # l
        /\ m <= 2 * (h - w) + 4
        /\ h = c /\ m <= 2 * (h - w) + 3 + (d.attempt % 2)
  BY DEF Chase
<1>3. CASE e.cursor = d.cursor + 1 /\ e.target = a[(e.cursor % n) + 1]
  <2>1. h + 1 = e.cursor
    BY <1>2, <1>3
  <2> QED BY <1>2, <1>3, <2>1 DEF Chase
<1>4. CASE e.cursor = d.cursor /\ d.attempt % 2 = 0
  <2>1. e.attempt % 2 = 1
    BY <1>1, <1>4
  <2>2. h = e.cursor /\ m <= 2 * (h - w) + 2 + (e.attempt % 2)
    BY <1>2, <1>4, <2>1
  <2> QED BY <1>2, <2>2 DEF Chase
<1> QED BY <1>3, <1>4

(* So many misses that the run of cursors would hold the leader. *)
LEMMA ChaseEnds ==
  ASSUME ClientInv, NEW d \in CallType, NEW m \in Nat, leader \in ToSet(servers),
         Chase(d, m, addresses, Len(servers), leader)
  PROVE  m <= 2 * Len(servers)
<1> DEFINE n == Len(servers)
           a == addresses
<1>1. n \in Nat \ {0} /\ \E i \in 1 .. n : a[i] = leader
  BY TableHolds
<1> HIDE DEF n, a
<1>2. PICK w \in Nat, h \in Nat :
        /\ w <= h + 1
        /\ \A i \in w .. h : a[(i % n) + 1] # leader
        /\ m <= 2 * (h - w) + 4
  BY DEF Chase, a, n
<1>3. PICK i \in 1 .. n : a[i] = leader
  BY <1>1
<1> DEFINE j == i - 1
<1>4. j \in 0 .. n - 1 /\ j + 1 = i
  BY <1>1
<1> HIDE DEF j
<1>5. PICK x \in w .. w + n - 1 : x % n = j
  BY <1>1, <1>4, EveryPosition
<1>6. x \notin w .. h
  BY <1>2, <1>3, <1>4, <1>5
<1>7. h < w + n - 1
  BY <1>1, <1>5, <1>6
<1>8. m <= 2 * n
  BY <1>1, <1>2, <1>7
<1> QED BY <1>8 DEF n

-----------------------------------------------------------------------------
(* The steps of the service.                                                *)

MissInv ==
  /\ missed \in [Caller -> Nat]
  /\ \A k \in Caller : missed[k] # 0 =>
       /\ do[k].phase # "idle" /\ leader \in ToSet(servers)
       /\ Chase(do[k], missed[k], addresses, Len(servers), leader)

MachineInv == ReplicaInv /\ AnswerInv /\ ReturnInv /\ sent \subseteq CommandType

ServiceInv == MachineInv /\ ClientInv /\ MissInv

(* What Settled says of a step. *)
SettledStep ==
  \A c \in returned : log' = Append(log, c) => machine'.values = machine.values

LEMMA ReplicaStays ==
  ASSUME MachineInv, UNCHANGED replicaVars, sent' \subseteq CommandType,
         \A c \in returned' : c \in returned \/ (c \in CommandType /\ ~Validate(c))
  PROVE  MachineInv' /\ SettledStep
<1>1. /\ log' = log /\ machine' = machine /\ snapshot' = snapshot /\ base' = base
      /\ answers' = answers
  BY DEF replicaVars
<1>2. ReplicaInv' /\ AnswerInv'
  BY <1>1 DEF MachineInv, ReplicaInv, AnswerInv, AnswersRepeat
<1>3. ReturnInv'
  BY <1>1 DEF MachineInv, ReturnInv
<1>4. SettledStep
  BY <1>1, SteadySettled DEF MachineInv, SettledStep, Steady
<1> QED BY <1>2, <1>3, <1>4 DEF MachineInv

LEMMA CommitMachine ==
  ASSUME MachineInv, NEW c \in CommandType, Commit(c), sent' = sent,
         returned' \in {returned, returned \cup {c}}
  PROVE  MachineInv' /\ SettledStep
<1>1. ReplicaInv' /\ AnswerInv' /\ (Validate(c) => Reached(machine', c))
  BY CommitReplica, CommitAnswers DEF MachineInv
<1>2. \A r \in returned : r \in CommandType /\ (Validate(r) => Reached(machine', r))
  BY CommitKeepsReturned DEF MachineInv
<1>3. ReturnInv'
  BY <1>1, <1>2 DEF ReturnInv
<1>4. SettledStep
  BY CommitSettled DEF MachineInv, SettledStep
<1> QED BY <1>1, <1>3, <1>4 DEF MachineInv

LEMMA MissReset ==
  ASSUME missed' = NoneMissed
  PROVE  MissInv'
BY DEF MissInv, NoneMissed

(* Call k goes on as d and has missed the leader n times. *)
LEMMA MissCounts ==
  ASSUME ClientInv, MissInv, NEW k \in Caller, NEW d, NEW n \in Nat, leader' = leader,
         do' = [do EXCEPT ![k] = d], Miss(k, n),
         servers' = servers /\ preferred' = preferred /\ d # Idle /\ n # 0 =>
           /\ d.phase # "idle" /\ leader \in ToSet(servers)
           /\ Chase(d, n, addresses, Len(servers), leader)
  PROVE  MissInv'
<1>1. CASE servers' # servers \/ preferred' # preferred
  <2>1. missed' = NoneMissed
    BY <1>1 DEF Miss
  <2> QED BY <2>1, MissReset
<1>2. CASE servers' = servers /\ preferred' = preferred
  <2> DEFINE x == IF d = Idle THEN 0 ELSE n
  <2>1. do'[k] = d /\ \A j \in Caller : j # k => do'[j] = do[j]
    BY DEF ClientInv
  <2>2. missed' = [missed EXCEPT ![k] = x]
    BY <1>2, <2>1 DEF Miss
  <2>3. x \in Nat /\ (x # 0 => x = n /\ d # Idle)
    OBVIOUS
  <2> HIDE DEF x
  <2>4. /\ missed' \in [Caller -> Nat] /\ missed'[k] = x
        /\ \A j \in Caller : j # k => missed'[j] = missed[j]
    BY <2>2, <2>3 DEF MissInv
  <2>5. addresses' = addresses
    BY <1>2 DEF addresses
  <2>6. ASSUME NEW j \in Caller, missed'[j] # 0
        PROVE  /\ do'[j].phase # "idle" /\ leader \in ToSet(servers)
               /\ Chase(do'[j], missed'[j], addresses, Len(servers), leader)
    <3>1. CASE j = k
      BY <1>2, <2>1, <2>3, <2>4, <2>6, <3>1
    <3>2. CASE j # k
      BY <2>1, <2>4, <2>6, <3>2 DEF MissInv
    <3> QED BY <3>1, <3>2
  <2> QED BY <1>2, <2>4, <2>5, <2>6 DEF MissInv
<1> QED BY <1>1, <1>2

(* The next state of the call that asks. *)
Asked(d, status, redirect) ==
  IF Terminal(status) /\ status >= 300 THEN Idle
  ELSE [d EXCEPT !.phase = "learn", !.status = status, !.redirect = redirect]

LEMMA AskClient ==
  ASSUME ClientInv, NEW k \in Caller, NEW status \in Nat, NEW location \in Server \cup {Null},
         Ask(k, status, location)
  PROVE  /\ ClientInv' /\ do[k].phase = "ask"
         /\ \E redirect : /\ do' = [do EXCEPT ![k] = Asked(do[k], status, redirect)]
                          /\ CallOK(Asked(do[k], status, redirect), servers')
<1> DEFINE redirect == IF status = 307 THEN location ELSE Null
           d == do[k]
           e == Asked(d, status, redirect)
<1>1. /\ d.phase = "ask" /\ do' = [do EXCEPT ![k] = e]
      /\ servers' = IF redirect = Null THEN servers ELSE add(servers, redirect)
      /\ preferred' = IF Terminal(status) THEN d.target ELSE preferred
  BY DEF Ask, Asked
<1>2. /\ servers \in Seq(Server) /\ servers # <<>> /\ preferred \in ToSet(servers) \cup {Null}
      /\ d \in CallType /\ d.cmd \in CommandType /\ d.target \in ToSet(servers)
  BY <1>1 DEF ClientInv, CallOK
<1>3. redirect \in Server \cup {Null}
  OBVIOUS
<1> HIDE DEF redirect
<1>4. Extends(servers, servers') /\ redirect \in ToSet(servers') \cup {Null}
  <2>1. CASE redirect = Null
    BY <1>1, <1>2, <2>1 DEF Extends
  <2>2. CASE redirect # Null
    BY <1>1, <1>2, <1>3, <2>2, AddExtends
  <2> QED BY <2>1, <2>2
<1>5. d.target \in ToSet(servers') /\ preferred' \in ToSet(servers') \cup {Null}
  BY <1>1, <1>2, <1>4 DEF Extends
<1>6. CallOK(e, servers')
  <2>1. CASE Terminal(status) /\ status >= 300
    BY <2>1, IdleOK DEF Asked
  <2>2. CASE ~(Terminal(status) /\ status >= 300)
    <3>1. e = [d EXCEPT !.phase = "learn", !.status = status, !.redirect = redirect]
      BY <2>2 DEF Asked
    <3> HIDE DEF e, d
    <3>2. /\ e \in CallType /\ e.cmd = d.cmd /\ e.target = d.target /\ e.redirect = redirect
      BY <1>2, <1>3, <3>1 DEF CallType
    <3> QED BY <1>2, <1>4, <1>5, <3>2 DEF CallOK
  <2> QED BY <2>1, <2>2
<1> HIDE DEF e
<1>7. ClientInv'
  BY <1>1, <1>4, <1>5, <1>6, CallChanges
<1> QED BY <1>1, <1>6, <1>7 DEF e

LEMMA StatusIsNat ==
  /\ \A o \in {"done", "conflict", "stale", "reused", "invalid"} : StatusOf(o) \in Nat
  /\ \A o \in Unreplicated : StatusOf(o) \in Nat /\ ~Terminal(StatusOf(o))
BY DEF StatusOf, Terminal, Unreplicated

LEMMA CallStep ==
  ASSUME ServiceInv, NEW k \in Caller, NEW c \in CommandType, Call(k, c)
  PROVE  ServiceInv' /\ SettledStep
<1>1. /\ UNCHANGED replicaVars /\ leader' = leader /\ sent' = sent /\ returned' = returned
      /\ missed' = missed /\ do[k].phase = "idle" /\ servers' = servers /\ preferred' = preferred
      /\ do' = [do EXCEPT ![k] = [Idle EXCEPT !.phase = "ask", !.cmd = c,
                                              !.target = addresses[1]]]
  BY DEF Call, Begin
<1>2. MachineInv' /\ SettledStep
  BY <1>1, ReplicaStays DEF ServiceInv, MachineInv
<1> DEFINE d == [Idle EXCEPT !.phase = "ask", !.cmd = c, !.target = addresses[1]]
<1>3. addresses[1] \in ToSet(servers) /\ addresses[1] \in Server
  <2>1. servers \in Seq(Server) /\ servers # <<>> /\ 1 \in 1 .. Len(servers)
        /\ servers[1] \in ToSet(servers) /\ ToSet(servers) \subseteq Server
    BY DEF ServiceInv, ClientInv, ToSet
  <2> QED BY <2>1, TableHolds DEF ServiceInv
<1>4. CallOK(d, servers)
  BY <1>3 DEF CallOK, CallType, Idle
<1> HIDE DEF d
<1>5. ClientInv'
  <2>1. do' = [do EXCEPT ![k] = d]
    BY <1>1 DEF d
  <2>2. Extends(servers, servers')
    BY <1>1, Unextended DEF ServiceInv
  <2>3. CallOK(d, servers') /\ preferred' \in ToSet(servers') \cup {Null}
    BY <1>1, <1>4 DEF ServiceInv, ClientInv
  <2> QED BY <2>1, <2>2, <2>3, CallChanges DEF ServiceInv
<1>6. MissInv'
  <2>1. addresses' = addresses
    BY <1>1 DEF addresses
  <2>2. \A j \in Caller : j # k => do'[j] = do[j]
    BY <1>1 DEF ServiceInv, ClientInv
  <2>3. missed[k] = 0
    BY <1>1 DEF ServiceInv, MissInv
  <2> QED BY <1>1, <2>1, <2>2, <2>3 DEF ServiceInv, MissInv
<1> QED BY <1>2, <1>5, <1>6 DEF ServiceInv

LEMMA AnswerStep ==
  ASSUME ServiceInv, NEW k \in Caller, Answer(k)
  PROVE  ServiceInv' /\ SettledStep
<1> DEFINE c == do[k].cmd
           verdict == Check(machine, c)
           outcome == IF verdict \notin {"new", "duplicate"} THEN verdict
                      ELSE IF machine'.sessions[c.client].result.conflict
                        THEN "conflict" ELSE "done"
           status == StatusOf(outcome)
<1>1. /\ do[k].phase = "ask" /\ Ask(k, status, Null) /\ Miss(k, 0)
      /\ IF Validate(c) THEN Commit(c) ELSE UNCHANGED replicaVars
      /\ returned' = returned \cup {c} /\ leader' = leader /\ sent' = sent
  BY DEF Answer
<1>2. c \in CommandType
  BY <1>1 DEF ServiceInv, ClientInv, CallOK
<1>3. MachineInv' /\ SettledStep
  <2>1. CASE Validate(c)
    BY <1>1, <1>2, <2>1, CommitMachine DEF ServiceInv
  <2>2. CASE ~Validate(c)
    BY <1>1, <1>2, <2>2, ReplicaStays DEF ServiceInv, MachineInv
  <2> QED BY <2>1, <2>2
<1>4. status \in Nat
  <2>1. verdict \in {"invalid", "new", "stale", "reused", "duplicate"}
    BY DEF Check
  <2> HIDE DEF verdict
  <2>2. outcome \in {"done", "conflict", "stale", "reused", "invalid"}
    BY <2>1
  <2> HIDE DEF outcome
  <2> QED BY <2>2, StatusIsNat
<1> HIDE DEF status
<1>5. PICK redirect : /\ ClientInv'
                      /\ do' = [do EXCEPT ![k] = Asked(do[k], status, redirect)]
  BY <1>1, <1>4, AskClient DEF ServiceInv
<1> DEFINE d == Asked(do[k], status, redirect)
<1>6. do' = [do EXCEPT ![k] = d]
  BY <1>5
<1> HIDE DEF d
<1>7. MissInv'
  BY <1>1, <1>6, MissCounts DEF ServiceInv
<1> QED BY <1>3, <1>5, <1>7 DEF ServiceInv

LEMMA FailStep ==
  ASSUME ServiceInv, NEW k \in Caller, Fail(k)
  PROVE  ServiceInv' /\ SettledStep
<1> DEFINE d == do[k]
           c == d.cmd
           n == IF leader \in ToSet(servers) \ {d.target} THEN missed[k] + 1 ELSE 0
<1>1. /\ d.phase = "ask" /\ Miss(k, n) /\ UNCHANGED replicaVars /\ leader' = leader
      /\ sent' \in {sent, sent \cup {a \in {c} : Validate(a)}}
  BY DEF Fail
<1>2. d \in CallType /\ c \in CommandType
  BY <1>1 DEF ServiceInv, ClientInv, CallOK
<1>3. \E status \in Nat, location \in Server \cup {Null} :
        Ask(k, status, location) /\ ~Terminal(status) /\ returned' = returned
  <2>1. ASSUME NEW outcome \in Unreplicated, NEW s \in Server, Ask(k, StatusOf(outcome), s),
               returned' = IF Terminal(StatusOf(outcome)) THEN returned \cup {c} ELSE returned
        PROVE  \E status \in Nat, location \in Server \cup {Null} :
                 Ask(k, status, location) /\ ~Terminal(status) /\ returned' = returned
    BY <2>1, StatusIsNat
  <2>2. ASSUME Ask(k, 0, Null), returned' = returned
        PROVE  \E status \in Nat, location \in Server \cup {Null} :
                 Ask(k, status, location) /\ ~Terminal(status) /\ returned' = returned
    BY <2>2 DEF Terminal
  <2>3. \/ \E outcome \in Unreplicated, s \in Server :
             /\ Ask(k, StatusOf(outcome), s)
             /\ returned' = IF Terminal(StatusOf(outcome)) THEN returned \cup {c} ELSE returned
        \/ Ask(k, 0, Null) /\ returned' = returned
    BY DEF Fail
  <2> QED BY <2>1, <2>2, <2>3
<1>4. PICK status \in Nat, location \in Server \cup {Null} :
        Ask(k, status, location) /\ ~Terminal(status) /\ returned' = returned
  BY <1>3
<1>5. MachineInv' /\ SettledStep
  <2>1. sent' \subseteq CommandType
    BY <1>1, <1>2 DEF ServiceInv, MachineInv
  <2> QED BY <1>1, <1>4, <2>1, ReplicaStays DEF ServiceInv
<1>6. PICK redirect : /\ ClientInv'
                      /\ do' = [do EXCEPT ![k] = Asked(do[k], status, redirect)]
                      /\ CallOK(Asked(do[k], status, redirect), servers')
  BY <1>4, AskClient DEF ServiceInv
<1> DEFINE e == Asked(d, status, redirect)
<1>7. e \in CallType /\ e.phase = "learn" /\ e.cursor = d.cursor /\ e.attempt = d.attempt
      /\ do' = [do EXCEPT ![k] = e]
  <2>1. e = [d EXCEPT !.phase = "learn", !.status = status, !.redirect = redirect]
    BY <1>4 DEF Asked
  <2>2. e \in CallType /\ do' = [do EXCEPT ![k] = e]
    BY <1>6 DEF CallOK
  <2> HIDE DEF d, e
  <2>3. e.phase = "learn" /\ e.cursor = d.cursor /\ e.attempt = d.attempt
    BY <1>2, <2>1 DEF CallType
  <2> QED BY <2>2, <2>3
<1> HIDE DEF e
<1>8. missed[k] \in Nat /\ n \in Nat
  BY DEF ServiceInv, MissInv
<1>9. ASSUME n # 0
      PROVE  leader \in ToSet(servers) /\ Chase(e, n, addresses, Len(servers), leader)
  <2>1. n = missed[k] + 1 /\ leader \in ToSet(servers) /\ d.target # leader
    BY <1>9
  <2>2. missed[k] = 0 \/ Chase(d, missed[k], addresses, Len(servers), leader)
    BY DEF ServiceInv, MissInv
  <2> DEFINE m == missed[k]
             a == addresses
             z == Len(servers)
  <2>3. Chase(e, m + 1, a, z, leader)
    <3>1. m \in Nat /\ (m = 0 \/ Chase(d, m, a, z, leader))
      BY <1>8, <2>2
    <3> HIDE DEF m, a, z, d
    <3> QED BY <1>1, <1>2, <1>7, <2>1, <3>1, FailChase
  <2> QED BY <2>1, <2>3
<1> HIDE DEF n, d
<1>10. MissInv'
  BY <1>1, <1>7, <1>8, <1>9, MissCounts DEF ServiceInv
<1> QED BY <1>5, <1>6, <1>10 DEF ServiceInv

(* The call goes on as it is, in another phase of discover. *)
LEMMA PhaseStep ==
  ASSUME ServiceInv, NEW k \in Caller, NEW phase \in {"add", "next"},
         do[k].phase \in {"learn", "add"},
         do' = [do EXCEPT ![k] = [do[k] EXCEPT !.phase = phase]],
         leader' = leader, preferred' = preferred,
         Extends(servers, servers'), Miss(k, missed[k])
  PROVE  ClientInv' /\ MissInv'
<1> DEFINE d == do[k]
           e == [d EXCEPT !.phase = phase]
<1>1. CallOK(d, servers) /\ preferred \in ToSet(servers) \cup {Null}
  BY DEF ServiceInv, ClientInv
<1>2. CallOK(d, servers')
  BY <1>1, CallStays
<1>3. /\ e = [d EXCEPT !.phase = phase] /\ d \in CallType /\ d.phase \in {"learn", "add"}
      /\ do' = [do EXCEPT ![k] = e]
  BY <1>1 DEF CallOK
<1>4. missed[k] \in Nat
  BY DEF ServiceInv, MissInv
<1>5. missed[k] # 0 => leader \in ToSet(servers)
                       /\ Chase(d, missed[k], addresses, Len(servers), leader)
  BY DEF ServiceInv, MissInv
<1> HIDE DEF d, e
<1>6. /\ e \in CallType /\ e.phase = phase /\ e.cmd = d.cmd /\ e.target = d.target
      /\ e.redirect = d.redirect /\ e.cursor = d.cursor /\ e.attempt = d.attempt
  BY <1>3 DEF CallType
<1>7. CallOK(e, servers')
  BY <1>2, <1>3, <1>6 DEF CallOK
<1>8. ClientInv'
  BY <1>1, <1>3, <1>7, CallChanges DEF ServiceInv, Extends
<1>9. missed[k] # 0 => leader \in ToSet(servers)
                       /\ Chase(e, missed[k], addresses, Len(servers), leader)
  <2> SUFFICES ASSUME missed[k] # 0
               PROVE  leader \in ToSet(servers)
                      /\ Chase(e, missed[k], addresses, Len(servers), leader)
    OBVIOUS
  <2> DEFINE m == missed[k]
             a == addresses
             z == Len(servers)
  <2>1. Chase(d, m, a, z, leader)
    BY <1>5
  <2> HIDE DEF m, a, z
  <2>2. Chase(e, m, a, z, leader)
    BY <1>3, <1>6, <2>1 DEF Chase
  <2> QED BY <1>5, <2>2 DEF m, a, z
<1>10. MissInv'
  BY <1>3, <1>4, <1>6, <1>9, MissCounts DEF ServiceInv
<1> QED BY <1>8, <1>10

(* discover has returned: to the loop, or from Do. *)
LEMMA LearnedStep ==
  ASSUME ServiceInv, NEW k \in Caller, do[k].phase \in {"learn", "add"},
         do' = [do EXCEPT ![k] = Learned(do[k])], leader' = leader, preferred' = preferred,
         servers' = servers, Miss(k, missed[k])
  PROVE  ClientInv' /\ MissInv'
<1> DEFINE e == Learned(do[k])
<1>1. /\ servers \in Seq(Server) /\ servers # <<>> /\ preferred \in ToSet(servers) \cup {Null}
      /\ Extends(servers, servers')
  BY DEF ServiceInv, ClientInv, Extends
<1>2. CASE Terminal(do[k].status)
  <2>1. e = Idle /\ do' = [do EXCEPT ![k] = e]
    BY <1>2 DEF Learned
  <2> HIDE DEF e
  <2>2. CallOK(e, servers')
    BY <2>1, IdleOK
  <2>3. ClientInv'
    BY <1>1, <2>1, <2>2, CallChanges DEF ServiceInv, Extends
  <2>4. missed[k] \in Nat
    BY DEF ServiceInv, MissInv
  <2>5. MissInv'
    BY <2>1, <2>4, MissCounts DEF ServiceInv
  <2> QED BY <2>3, <2>5
<1>3. CASE ~Terminal(do[k].status)
  <2>1. do' = [do EXCEPT ![k] = [do[k] EXCEPT !.phase = "next"]]
    BY <1>3 DEF Learned
  <2>2. "next" \in {"add", "next"}
    OBVIOUS
  <2> QED BY <1>1, <2>1, <2>2, PhaseStep
<1> QED BY <1>2, <1>3

LEMMA DiscoverStep ==
  ASSUME ServiceInv, NEW k \in Caller, Discover(k)
  PROVE  ServiceInv' /\ SettledStep
<1> DEFINE d == do[k]
<1>1. /\ UNCHANGED replicaVars /\ leader' = leader /\ sent' = sent /\ returned' = returned
      /\ Miss(k, missed[k]) /\ d.phase \in {"learn", "add"} /\ preferred' = preferred
  BY DEF Discover, Learn, AddPeer
<1>2. MachineInv' /\ SettledStep
  BY <1>1, ReplicaStays DEF ServiceInv, MachineInv
<1>3. servers \in Seq(Server) /\ servers # <<>> /\ do = [c \in Caller |-> do[c]]
  BY DEF ServiceInv, ClientInv
<1>4. CASE servers' = servers /\ do' = [do EXCEPT ![k] = Learned(d)]
  BY <1>1, <1>2, <1>4, LearnedStep DEF ServiceInv
<1>5. CASE servers' = servers /\ do' = [do EXCEPT ![k] = [d EXCEPT !.phase = "add"]]
  <2>1. Extends(servers, servers')
    BY <1>3, <1>5 DEF Extends
  <2>2. "add" \in {"add", "next"}
    OBVIOUS
  <2> QED BY <1>1, <1>2, <1>5, <2>1, <2>2, PhaseStep DEF ServiceInv
<1>6. ASSUME NEW i \in DOMAIN Peers, d.phase = "add", servers' = add(servers, Peers[i]),
             do' = do
      PROVE  ServiceInv' /\ SettledStep
  <2> DEFINE e == [d EXCEPT !.phase = "add"]
  <2>1. Peers[i] \in Server
    BY ClientAssumption
  <2>2. Extends(servers, servers')
    BY <1>3, <1>6, <2>1, AddExtends
  <2>3. d \in CallType
    BY DEF ServiceInv, ClientInv, CallOK
  <2>4. e = d
    <3> HIDE DEF d
    <3> QED BY <1>6, <2>3 DEF CallType
  <2>5. do' = [do EXCEPT ![k] = e]
    BY <1>3, <1>6, <2>4
  <2>6. "add" \in {"add", "next"}
    OBVIOUS
  <2> QED BY <1>1, <1>2, <2>2, <2>5, <2>6, PhaseStep DEF ServiceInv
<1>7. CASE \E reached \in BOOLEAN : Learn(k, reached)
  BY <1>4, <1>5, <1>7 DEF Learn
<1>8. CASE AddPeer(k)
  BY <1>4, <1>6, <1>8 DEF AddPeer
<1> QED BY <1>7, <1>8 DEF Discover

LEMMA RotateStep ==
  ASSUME ServiceInv, NEW k \in Caller, Rotate(k)
  PROVE  ServiceInv' /\ SettledStep
<1> DEFINE d == do[k]
           m == missed[k]
<1>1. /\ UNCHANGED replicaVars /\ leader' = leader /\ sent' = sent /\ returned' = returned
      /\ Miss(k, m) /\ (Retarget(k) \/ GiveUp(k)) /\ preferred' = preferred
      /\ servers' = servers /\ m \in Nat
  BY DEF Rotate, Retarget, GiveUp, ServiceInv, MissInv
<1>2. MachineInv' /\ SettledStep
  BY <1>1, ReplicaStays DEF ServiceInv, MachineInv
<1>3. /\ Extends(servers, servers') /\ preferred' \in ToSet(servers') \cup {Null}
      /\ CallOK(d, servers)
  BY <1>1, Unextended DEF ServiceInv, ClientInv
<1>4. ASSUME do' = [do EXCEPT ![k] = Idle] PROVE ServiceInv' /\ SettledStep
  <2>1. ClientInv'
    BY <1>3, <1>4, IdleOK, CallChanges DEF ServiceInv
  <2> HIDE DEF m
  <2>2. MissInv'
    BY <1>1, <1>4, MissCounts DEF ServiceInv
  <2> QED BY <1>2, <2>1, <2>2 DEF ServiceInv
<1>5. CASE GiveUp(k)
  BY <1>4, <1>5 DEF GiveUp
<1>6. CASE Retarget(k)
  <2> DEFINE n == Len(addresses)
             f == Follows(d)
             cursor == IF f THEN d.cursor ELSE d.cursor + 1
             target == IF f THEN d.redirect ELSE addresses[(cursor % n) + 1]
             e == [d EXCEPT !.phase = "ask", !.target = target, !.cursor = cursor,
                            !.attempt = d.attempt + 1, !.status = 0, !.redirect = Null]
  <2>1. /\ d.phase = "next"
        /\ do' = [do EXCEPT ![k] = IF d.attempt + 1 = MaxAttempts THEN Idle ELSE e]
    BY <1>6 DEF Retarget
  <2>2. /\ d \in CallType /\ d.cmd \in CommandType /\ d.redirect \in ToSet(servers) \cup {Null}
        /\ d.cursor \in Nat /\ d.attempt \in Nat
    BY <1>3, <2>1 DEF CallOK, CallType
  <2>3. n = Len(servers) /\ n \in Nat \ {0} /\ ToSet(servers) \subseteq Server
        /\ \A i \in 1 .. n : addresses[i] \in ToSet(servers)
    <3>1. servers \in Seq(Server) /\ servers # <<>> /\ servers[1] \in ToSet(servers)
          /\ ToSet(servers) \subseteq Server
      BY DEF ServiceInv, ClientInv, ToSet
    <3> QED BY <3>1, TableHolds DEF ServiceInv
  <2>4. cursor \in Nat /\ target \in ToSet(servers)
    <3>1. cursor \in Nat
      BY <2>2
    <3>2. CASE f
      BY <2>2, <3>2 DEF Follows
    <3>3. CASE ~f
      <4> HIDE DEF cursor, n
      <4>1. cursor % n \in 0 .. n - 1
        BY <2>3, <3>1, Division
      <4>2. (cursor % n) + 1 \in 1 .. n
        BY <2>3, <4>1
      <4> QED BY <2>3, <3>1, <3>3, <4>2
    <3> QED BY <3>1, <3>2, <3>3
  <2>5. \/ cursor = d.cursor + 1 /\ target = addresses[(cursor % n) + 1]
        \/ cursor = d.cursor /\ d.attempt % 2 = 0
    BY DEF Follows
  <2>6. CASE d.attempt + 1 = MaxAttempts
    BY <1>4, <2>1, <2>6
  <2>7. CASE d.attempt + 1 # MaxAttempts
    <3> HIDE DEF target, cursor, n, d, f
    <3>1. do' = [do EXCEPT ![k] = e]
      BY <2>1, <2>7
    <3>2. /\ e \in CallType /\ e.phase = "ask" /\ e.target = target /\ e.cursor = cursor
          /\ e.attempt = d.attempt + 1 /\ e.cmd = d.cmd /\ e.redirect = Null
      <4> DEFINE x == d.attempt + 1
      <4>1. e = [d EXCEPT !.phase = "ask", !.target = target, !.cursor = cursor,
                          !.attempt = x, !.status = 0, !.redirect = Null]
        BY <2>2 DEF CallType
      <4>2. x \in Nat /\ target \in Server
        BY <2>2, <2>3, <2>4
      <4> HIDE DEF x, e
      <4>3. /\ e \in CallType /\ e.phase = "ask" /\ e.target = target /\ e.cursor = cursor
            /\ e.attempt = x /\ e.cmd = d.cmd /\ e.redirect = Null
        BY <2>2, <2>4, <4>1, <4>2 DEF CallType
      <4> QED BY <4>3 DEF x
    <3> HIDE DEF e
    <3>3. CallOK(e, servers')
      BY <1>1, <2>2, <2>4, <3>2 DEF CallOK
    <3>4. ClientInv'
      BY <1>3, <3>1, <3>3, CallChanges DEF ServiceInv
    <3>5. m # 0 => leader \in ToSet(servers) /\ Chase(e, m, addresses, Len(servers), leader)
      <4> SUFFICES ASSUME m # 0
                   PROVE  leader \in ToSet(servers)
                          /\ Chase(e, m, addresses, Len(servers), leader)
        OBVIOUS
      <4>1. leader \in ToSet(servers) /\ Chase(d, m, addresses, Len(servers), leader)
        BY DEF ServiceInv, MissInv, d
      <4> DEFINE a == addresses
      <4>2. /\ Chase(d, m, a, n, leader)
            /\ \/ e.cursor = d.cursor + 1 /\ e.target = a[(e.cursor % n) + 1]
               \/ e.cursor = d.cursor /\ d.attempt % 2 = 0
        BY <2>3, <2>5, <3>2, <4>1
      <4> HIDE DEF a, m
      <4>3. Chase(e, m, a, n, leader)
        BY <1>1, <2>1, <2>2, <3>2, <4>2, RetargetChase
      <4> QED BY <2>3, <4>1, <4>3 DEF a
    <3> HIDE DEF m
    <3>6. MissInv'
      BY <1>1, <3>1, <3>2, <3>5, MissCounts DEF ServiceInv
    <3> QED BY <1>2, <3>4, <3>6 DEF ServiceInv
  <2> QED BY <2>6, <2>7
<1> QED BY <1>1, <1>5, <1>6

LEMMA ClientStays ==
  ASSUME ClientInv, UNCHANGED clientVars
  PROVE  ClientInv'
BY DEF ClientInv, clientVars

LEMMA BackgroundStep ==
  ASSUME ServiceInv, Background
  PROVE  ServiceInv' /\ SettledStep
<1>1. /\ UNCHANGED clientVars /\ leader' = leader /\ sent' = sent /\ returned' = returned
      /\ missed' = missed
  BY DEF Background
<1>2. ClientInv'
  BY <1>1, ClientStays DEF ServiceInv
<1>3. MissInv'
  BY <1>1 DEF ServiceInv, MissInv, clientVars, addresses
<1>4. ASSUME machine' = machine, answers' = answers, log' = log, ReplicaInv'
      PROVE  MachineInv' /\ SettledStep
  <2>1. AnswerInv'
    BY <1>4 DEF ServiceInv, MachineInv, AnswerInv, AnswersRepeat
  <2>2. ReturnInv'
    BY <1>1, <1>4, SteadyKeeps DEF ServiceInv, MachineInv
  <2>3. SettledStep
    BY <1>4, SteadySettled DEF ServiceInv, MachineInv, SettledStep, Steady
  <2> QED BY <1>1, <1>4, <2>1, <2>2, <2>3 DEF ServiceInv, MachineInv
<1>5. MachineInv' /\ SettledStep
  <2>1. ASSUME NEW c \in sent, Commit(c) PROVE MachineInv' /\ SettledStep
    <3>1. c \in CommandType
      BY DEF ServiceInv, MachineInv
    <3> QED BY <1>1, <2>1, <3>1, CommitMachine DEF ServiceInv
  <2>2. CASE Checkpoint
    BY <1>4, <2>2, CheckpointReplica DEF ServiceInv, MachineInv
  <2>3. CASE Restart
    BY <1>4, <2>3, RestartReplica DEF ServiceInv, MachineInv
  <2> QED BY <2>1, <2>2, <2>3 DEF Background, ReplicaNext
<1> QED BY <1>2, <1>3, <1>5 DEF ServiceInv

LEMMA ServiceStep ==
  ASSUME ServiceInv, [ServiceNext]_serviceVars
  PROVE  ServiceInv' /\ SettledStep
<1>1. CASE UNCHANGED serviceVars
  <2>1. /\ UNCHANGED replicaVars /\ UNCHANGED clientVars /\ leader' = leader /\ sent' = sent
        /\ returned' = returned /\ missed' = missed
    BY <1>1 DEF serviceVars
  <2>2. MachineInv' /\ SettledStep
    BY <2>1, ReplicaStays DEF ServiceInv, MachineInv
  <2>3. ClientInv'
    BY <2>1, ClientStays DEF ServiceInv
  <2>4. MissInv'
    BY <2>1 DEF ServiceInv, MissInv, clientVars, addresses
  <2> QED BY <2>2, <2>3, <2>4 DEF ServiceInv
<1>2. ASSUME NEW k \in Caller, NEW c \in CommandType, Call(k, c)
      PROVE  ServiceInv' /\ SettledStep
  BY <1>2, CallStep
<1>3. ASSUME NEW k \in Caller, Answer(k) \/ Fail(k) \/ Discover(k) \/ Rotate(k)
      PROVE  ServiceInv' /\ SettledStep
  BY <1>3, AnswerStep, FailStep, DiscoverStep, RotateStep
<1>4. ASSUME NEW s \in Server \cup {Null}, Elect(s) PROVE ServiceInv' /\ SettledStep
  <2>1. /\ UNCHANGED replicaVars /\ UNCHANGED clientVars /\ sent' = sent
        /\ returned' = returned /\ missed' = NoneMissed
    BY <1>4 DEF Elect
  <2>2. MachineInv' /\ SettledStep
    BY <2>1, ReplicaStays DEF ServiceInv, MachineInv
  <2> QED BY <2>1, <2>2, ClientStays, MissReset DEF ServiceInv
<1>5. CASE Background
  BY <1>5, BackgroundStep
<1> QED BY <1>1, <1>2, <1>3, <1>4, <1>5 DEF ServiceNext

LEMMA ServiceInitially == ServiceInit => ServiceInv
<1> SUFFICES ASSUME ServiceInit PROVE ServiceInv
  OBVIOUS
<1>1. MachineInv
  BY ReplicaInitially DEF MachineInv
<1>2. /\ servers = addAll(<<>>, Seeds) /\ preferred = Null /\ do = [k \in Caller |-> Idle]
      /\ missed = NoneMissed
  BY DEF ServiceInit, ClientInit
<1>3. servers \in Seq(Server) /\ servers # <<>>
  BY <1>2, ServersInitially, ClientAssumption
<1>4. ClientInv
  BY <1>2, <1>3, IdleOK DEF ClientInv
<1>5. MissInv
  BY <1>2 DEF MissInv, NoneMissed
<1> QED BY <1>1, <1>4, <1>5 DEF ServiceInv

LEMMA ServiceInvariant == ServiceSpec => []ServiceInv
<1>1. ServiceInv /\ [ServiceNext]_serviceVars => ServiceInv'
  BY ServiceStep
<1> QED BY <1>1, ServiceInitially, PTL DEF ServiceSpec

-----------------------------------------------------------------------------
(* The properties of the service.                                           *)

(* For any clients and commands, and any log the cluster makes of their      *)
(* retries: Apply's sessions, Snapshot and Restore leave the values of the   *)
(* commands that were first with their request ID, applied once each.        *)
THEOREM AppliedOnce == ServiceSpec => []EffectOnce
<1>1. ServiceInv => EffectOnce
  BY EffectOnceIs DEF ServiceInv, MachineInv, ReplicaInv
<1> QED BY <1>1, ServiceInvariant, PTL

(* For any clients and commands: check gives a client that repeats a command *)
(* the answer it gave before, through checkpoints, restarts and whatever the *)
(* other clients did in between.                                             *)
THEOREM SameAnswer == ServiceSpec => []AnswersRepeat
<1>1. ServiceInv => AnswersRepeat
  BY DEF ServiceInv, MachineInv, AnswerInv
<1> QED BY <1>1, ServiceInvariant, PTL

(* For any callers, servers and failures: once Do has returned an answer for *)
(* a command, no copy of it that a leader commits later changes a value.     *)
THEOREM AnswersSettle == ServiceSpec => Settled
<1>1. ServiceInv /\ [ServiceNext]_serviceVars => [SettledStep]_serviceVars
  BY ServiceStep
<1>2. ServiceSpec => [][SettledStep]_serviceVars
  BY <1>1, ServiceInvariant, PTL DEF ServiceSpec
<1> QED BY <1>2 DEF Settled, SettledStep

(* For any number of servers, however stale the redirects and however the    *)
(* other callers change the tables: a call of Do misses the leader at most   *)
(* twice as often as there are known servers.                                *)
THEOREM LeaderReached == ServiceSpec => []ReachesLeader
<1>1. ServiceInv => ReachesLeader
  <2> SUFFICES ASSUME ServiceInv, NEW k \in Caller PROVE missed[k] <= 2 * Len(servers)
    BY DEF ReachesLeader
  <2>1. missed[k] \in Nat /\ ClientInv /\ do[k] \in CallType
    BY DEF ServiceInv, MissInv, ClientInv, CallOK
  <2>2. CASE missed[k] = 0
    <3>1. Len(servers) \in Nat
      BY <2>1 DEF ClientInv
    <3> QED BY <2>2, <3>1
  <2>3. CASE missed[k] # 0
    <3>1. leader \in ToSet(servers)
          /\ Chase(do[k], missed[k], addresses, Len(servers), leader)
      BY <2>3 DEF ServiceInv, MissInv
    <3> QED BY <2>1, <3>1, ChaseEnds
  <2> QED BY <2>2, <2>3
<1> QED BY <1>1, ServiceInvariant, PTL
=============================================================================
