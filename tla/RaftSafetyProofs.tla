-------------------------- MODULE RaftSafetyProofs --------------------------
(***************************************************************************)
(* Proofs about Raft, concluded: logs match, an entry on a majority of     *)
(* stores survives every election, what is committed stays, and Raft       *)
(* implements Ledger.                                                      *)
(***************************************************************************)
EXTENDS RaftNodeProofs, RaftLedger

-----------------------------------------------------------------------------
(***************************************************************************)
(* Log matching, for every cluster: logs that agree on the term of an      *)
(* entry agree on everything up to it, and the leader a node names was     *)
(* elected in its term.                                                    *)
(*                                                                         *)
(* Log matching is not inductive over the stores alone: a request carries  *)
(* a log of the past, and may arrive late.  The invariant speaks of Logs,  *)
(* the stores' logs and the logs the append requests were cut from.  One   *)
(* term has one leader (LeaderOnce), so every entry of a term is in that   *)
(* leader's log (OwnLog), and every request of the term is a prefix of it  *)
(* (LeaderPrefix, TermLogs).                                               *)
(*                                                                         *)
(* N is a state of the nodes and A a set of append requests; a step is     *)
(* one of three: no log is new (Calm), a leader sends (Sent), a leader     *)
(* appends one entry of its term (Extended).                               *)
(***************************************************************************)

LogOf(N, i) == FullLog(N[i].disk)
TermOf(N, i) == N[i].disk.term
Logs(N, A) == {LogOf(N, i) : i \in Node} \cup {m.whole : m \in A}

(* Log s holds an entry of term t at index k. *)
Has(s, k, t) == k <= Len(s) /\ s[k].term = t

(* s is a prefix of u. *)
Begins(s, u) == Len(s) <= Len(u) /\ Alike(s, u, Len(s))

(* The stores are whole and the requests honest. *)
Sane(N, A) ==
  /\ \A i \in Node : /\ Whole(N[i].disk) /\ N[i].reigns \in SUBSET Nat
                     /\ N[i].leader \in Node \cup {Nil}
  /\ \A m \in A : m \in AppendRequest /\ Honest(m)

OneReign(N) == \A i, j \in Node : \A t \in N[i].reigns : t \in N[j].reigns => i = j

Matching(N, A) ==
  \A s, u \in Logs(N, A) : \A k \in 1 .. Len(s) :
    k <= Len(u) /\ s[k].term = u[k].term => Alike(s, u, k)

(* The entries of a term start at one index in every log that has any. *)
Contiguous(N, A) ==
  \A s, u \in Logs(N, A) : \A k \in 1 .. Len(s) : \A l \in k .. Len(u) :
    s[k].term = u[l].term => u[k].term = s[k].term

EntriesLed(N, A) ==
  \A s \in Logs(N, A) : \A k \in 1 .. Len(s) : \E i \in Node : s[k].term \in N[i].reigns

Reigning(N) ==
  \A i \in Node :
    /\ \A t \in N[i].reigns : t <= TermOf(N, i)
    /\ N[i].role = "candidate" => TermOf(N, i) \notin N[i].reigns
    /\ N[i].role = "leader" => /\ TermOf(N, i) \in N[i].reigns /\ N[i].leader = i
                               /\ 0 < Len(LogOf(N, i))
                               /\ LogOf(N, i)[Len(LogOf(N, i))].term = TermOf(N, i)

AppendsLed(N, A) == \A m \in A : m.term \in N[m.from].reigns

OwnLog(N, A) ==
  \A i \in Node : N[i].role = "leader" =>
    \A s \in Logs(N, A) : \A k \in 1 .. Len(s) :
      s[k].term = TermOf(N, i) => Has(LogOf(N, i), k, TermOf(N, i))

(* A log with an entry of the request's term: the request has it too, or is  *)
(* a prefix of the log.                                                      *)
TermLogs(N, A) ==
  \A m \in A : \A s \in Logs(N, A) : \A k \in 1 .. Len(s) : s[k].term = m.term =>
    Has(m.whole, k, m.term) \/ (Len(m.whole) < k /\ Begins(m.whole, s))

LeaderPrefix(N, A) ==
  \A m \in A : \A i \in Node :
    N[i].role = "leader" /\ TermOf(N, i) = m.term => Begins(m.whole, LogOf(N, i))

Hints(N) == \A i \in Node : N[i].leader # Nil => TermOf(N, i) \in N[N[i].leader].reigns

LogInv(N, A) == /\ Matching(N, A) /\ Contiguous(N, A) /\ EntriesLed(N, A)
                /\ Reigning(N) /\ AppendsLed(N, A) /\ OwnLog(N, A)
                /\ TermLogs(N, A) /\ LeaderPrefix(N, A) /\ Hints(N)

-----------------------------------------------------------------------------
(* The three steps. *)

(* No log is new, no request is new, nobody becomes leader. *)
Calm(N, M, A, B) ==
  /\ B \in SUBSET A
  /\ \A i \in Node :
       /\ LogOf(M, i) \in Logs(N, A) /\ TermOf(N, i) <= TermOf(M, i)
       /\ M[i].reigns = N[i].reigns
       /\ M[i].role = "leader" =>
            /\ N[i].role = "leader" /\ M[i].leader = N[i].leader
            /\ LogOf(M, i) = LogOf(N, i) /\ TermOf(M, i) = TermOf(N, i)
       /\ M[i].role = "candidate" =>
            \/ TermOf(N, i) < TermOf(M, i)
            \/ N[i].role = "candidate" /\ TermOf(M, i) = TermOf(N, i)
       /\ \/ M[i].leader = Nil
          \/ M[i].leader = N[i].leader /\ TermOf(M, i) = TermOf(N, i)
          \/ \E m \in A : M[i].leader = m.from /\ TermOf(M, i) = m.term

(* Leader i sends m, a prefix of its log. *)
Sent(N, A, B, i, m) ==
  /\ B \in SUBSET (A \cup {m}) /\ N[i].role = "leader"
  /\ m.from = i /\ m.term = TermOf(N, i) /\ Begins(m.whole, LogOf(N, i))

(* Node i, a leader or about to become one, appends an entry of its term. *)
Extended(N, M, A, B, i) ==
  /\ B \in SUBSET A
  /\ \A j \in Node \ {i} : M[j] = N[j]
  /\ \E e : Longer(LogOf(N, i), LogOf(M, i), e) /\ e.term = TermOf(M, i)
  /\ M[i].role = "leader" /\ M[i].leader = i
  /\ M[i].reigns = N[i].reigns \cup {TermOf(M, i)}
  /\ TermOf(N, i) <= TermOf(M, i)
  /\ \/ N[i].role = "leader" /\ TermOf(M, i) = TermOf(N, i)
     \/ TermOf(M, i) \notin N[i].reigns

(* The logs are logs, in numbers. *)
LEMMA LogFacts ==
  ASSUME NEW N, NEW A, Sane(N, A)
  PROVE  /\ \A s \in Logs(N, A) : s \in Seq(Entry) /\ Len(s) \in Nat
         /\ \A s \in Logs(N, A) : \A k \in 1 .. Len(s) : s[k].term \in Nat /\ 0 < s[k].term
         /\ \A i \in Node : TermOf(N, i) \in Nat /\ LogOf(N, i) \in Logs(N, A)
         /\ \A m \in A : m.whole \in Logs(N, A) /\ m.term \in Nat /\ m.from \in Node
<1>1. ASSUME NEW i \in Node
      PROVE  /\ LogOf(N, i) \in Seq(Entry) /\ Ordered(LogOf(N, i), TermOf(N, i))
             /\ TermOf(N, i) \in Nat
  <2>1. Whole(N[i].disk)
    BY DEF Sane
  <2>2. N[i].disk \in Store
    BY <2>1 DEF Whole
  <2> QED BY <2>1, <2>2, WholeLog, StoreTypes DEF Whole, LogOf, TermOf
<1>2. ASSUME NEW m \in A
      PROVE  /\ m.whole \in Seq(Entry) /\ Ordered(m.whole, m.term)
             /\ m.term \in Nat /\ m.from \in Node
  BY DEF Sane, Honest, AppendRequest
<1>3. ASSUME NEW s \in Logs(N, A) PROVE s \in Seq(Entry) /\ \E b : Ordered(s, b)
  BY <1>1, <1>2 DEF Logs
<1>4. ASSUME NEW s \in Logs(N, A)
      PROVE  /\ Len(s) \in Nat
             /\ \A k \in 1 .. Len(s) : s[k].term \in Nat /\ 0 < s[k].term
  BY <1>3, EntryFacts DEF Ordered
<1>5. /\ \A i \in Node : LogOf(N, i) \in Logs(N, A)
      /\ \A m \in A : m.whole \in Logs(N, A)
  BY DEF Logs
<1> QED BY <1>1, <1>2, <1>3, <1>4, <1>5

(* A step that makes no log keeps the invariant. *)
LEMMA CalmStep ==
  ASSUME NEW N, NEW M, NEW A, NEW B, Sane(N, A), Sane(M, B), LogInv(N, A),
         Calm(N, M, A, B)
  PROVE  LogInv(M, B)
<1>1. \A s \in Logs(M, B) : s \in Logs(N, A)
  BY DEF Logs, Calm
<1>2. B \in SUBSET A
  BY DEF Calm
<1>3. /\ \A i \in Node : TermOf(N, i) \in Nat /\ TermOf(M, i) \in Nat
      /\ \A m \in A : m.whole \in Logs(N, A) /\ m.from \in Node
  BY LogFacts
<1>4. Matching(M, B) /\ Contiguous(M, B)
  BY <1>1 DEF LogInv, Matching, Contiguous
<1>5. EntriesLed(M, B)
  BY <1>1 DEF LogInv, EntriesLed, Calm
<1>6. Reigning(M)
  <2> SUFFICES ASSUME NEW i \in Node
               PROVE  /\ \A t \in M[i].reigns : t <= TermOf(M, i)
                      /\ M[i].role = "candidate" => TermOf(M, i) \notin M[i].reigns
                      /\ M[i].role = "leader" =>
                           /\ TermOf(M, i) \in M[i].reigns /\ M[i].leader = i
                           /\ 0 < Len(LogOf(M, i))
                           /\ LogOf(M, i)[Len(LogOf(M, i))].term = TermOf(M, i)
    BY DEF Reigning
  <2>1. /\ TermOf(N, i) <= TermOf(M, i) /\ M[i].reigns = N[i].reigns
        /\ M[i].reigns \in SUBSET Nat
        /\ \A t \in N[i].reigns : t <= TermOf(N, i)
    BY DEF Calm, LogInv, Reigning, Sane
  <2>2. \A t \in M[i].reigns : t <= TermOf(M, i)
    BY <1>3, <2>1
  <2>3. M[i].role = "candidate" => TermOf(M, i) \notin M[i].reigns
    <3>1. CASE TermOf(N, i) < TermOf(M, i)
      BY <1>3, <2>1, <3>1
    <3>2. CASE N[i].role = "candidate" /\ TermOf(M, i) = TermOf(N, i)
      BY <2>1, <3>2 DEF LogInv, Reigning
    <3> QED BY <3>1, <3>2 DEF Calm
  <2> QED BY <2>1, <2>2, <2>3 DEF Calm, LogInv, Reigning
<1>7. AppendsLed(M, B)
  BY <1>2, <1>3 DEF LogInv, AppendsLed, Calm
<1>8. OwnLog(M, B)
  BY <1>1 DEF LogInv, OwnLog, Calm
<1>9. TermLogs(M, B)
  BY <1>1, <1>2 DEF LogInv, TermLogs
<1>10. LeaderPrefix(M, B)
  BY <1>2 DEF LogInv, LeaderPrefix, Calm
<1>11. Hints(M)
  <2> SUFFICES ASSUME NEW i \in Node, M[i].leader # Nil
               PROVE  TermOf(M, i) \in M[M[i].leader].reigns
    BY DEF Hints
  <2>1. CASE M[i].leader = N[i].leader /\ TermOf(M, i) = TermOf(N, i)
    <3>1. M[i].leader \in Node
      BY DEF Sane
    <3> QED BY <2>1, <3>1 DEF LogInv, Hints, Calm
  <2>2. CASE \E m \in A : M[i].leader = m.from /\ TermOf(M, i) = m.term
    BY <1>3, <2>2 DEF LogInv, AppendsLed, Calm
  <2> QED BY <2>1, <2>2 DEF Calm
<1> QED BY <1>4, <1>5, <1>6, <1>7, <1>8, <1>9, <1>10, <1>11 DEF LogInv

(* A leader's request is a prefix of its log: it keeps the invariant. *)
LEMMA SentStep ==
  ASSUME NEW N, NEW A, NEW B, NEW i \in Node, NEW m, m \in AppendRequest, Honest(m),
         Sane(N, A), LogInv(N, A), OneReign(N), Sent(N, A, B, i, m)
  PROVE  LogInv(N, B)
<1> DEFINE L == LogOf(N, i)
           W == m.whole
           t == TermOf(N, i)
<1>1. /\ N[i].role = "leader" /\ m.from = i /\ m.term = t
      /\ Len(W) <= Len(L) /\ \A x \in 1 .. Len(W) : W[x] = L[x]
      /\ \A x \in B : x \in A \/ x = m
  BY DEF Sent, Begins, Alike
<1>2. /\ W \in Seq(Entry) /\ Len(W) \in Nat /\ L \in Logs(N, A) /\ Len(L) \in Nat
      /\ \A j \in Node : TermOf(N, j) \in Nat
      /\ \A s \in Logs(N, A) : Len(s) \in Nat
      /\ \A x \in A : x.whole \in Logs(N, A) /\ x.from \in Node
  BY LogFacts DEF AppendRequest
<1>3. \A s \in Logs(N, B) : s \in Logs(N, A) \/ s = W
  BY <1>1 DEF Logs
<1>4. t \in N[i].reigns
  BY <1>1 DEF LogInv, Reigning
<1> HIDE DEF L, W
<1>5. Matching(N, B)
  <2>1. ASSUME NEW u \in Logs(N, A), NEW k \in 1 .. Len(W), k <= Len(u), W[k].term = u[k].term
        PROVE  Alike(W, u, k)
    <3>1. k \in 1 .. Len(L) /\ L[k] = W[k]
      BY <1>1, <1>2
    <3>2. Alike(L, u, k)
      BY <1>2, <2>1, <3>1 DEF LogInv, Matching
    <3> QED BY <1>1, <1>2, <3>2 DEF Alike
  <2>2. ASSUME NEW u \in Logs(N, A), NEW k \in 1 .. Len(u), k <= Len(W), W[k].term = u[k].term
        PROVE  Alike(u, W, k)
    <3>1. k \in 1 .. Len(W) /\ k <= Len(u)
      BY <1>2, <2>2
    <3> QED BY <2>1, <2>2, <3>1 DEF Alike
  <2>3. \A k \in 1 .. Len(W) : Alike(W, W, k)
    BY DEF Alike
  <2> QED BY <1>3, <2>1, <2>2, <2>3 DEF Matching, LogInv
<1>6. Contiguous(N, B)
  <2>1. ASSUME NEW u \in Logs(N, A), NEW k \in 1 .. Len(W), NEW l \in k .. Len(u),
               W[k].term = u[l].term
        PROVE  u[k].term = W[k].term
    <3>1. k \in 1 .. Len(L) /\ L[k] = W[k]
      BY <1>1, <1>2
    <3> QED BY <1>2, <2>1, <3>1 DEF LogInv, Contiguous
  <2>2. ASSUME NEW s \in Logs(N, A), NEW k \in 1 .. Len(s), NEW l \in k .. Len(W),
               s[k].term = W[l].term
        PROVE  W[k].term = s[k].term
    <3>1. l \in k .. Len(L) /\ L[l] = W[l] /\ L[k] = W[k]
      BY <1>1, <1>2
    <3> QED BY <1>2, <2>2, <3>1 DEF LogInv, Contiguous
  <2>3. ASSUME NEW k \in 1 .. Len(W), NEW l \in k .. Len(W), W[k].term = W[l].term
        PROVE  W[k].term = W[k].term
    OBVIOUS
  <2> QED BY <1>3, <2>1, <2>2, <2>3 DEF Contiguous, LogInv
<1>7. EntriesLed(N, B)
  <2>1. ASSUME NEW k \in 1 .. Len(W) PROVE \E j \in Node : W[k].term \in N[j].reigns
    <3>1. k \in 1 .. Len(L) /\ L[k] = W[k]
      BY <1>1, <1>2
    <3> QED BY <1>2, <3>1 DEF LogInv, EntriesLed
  <2> QED BY <1>3, <2>1 DEF LogInv, EntriesLed
<1>8. AppendsLed(N, B)
  BY <1>1, <1>4 DEF LogInv, AppendsLed
<1>9. OwnLog(N, B)
  <2>1. ASSUME NEW j \in Node, N[j].role = "leader", NEW k \in 1 .. Len(W),
               W[k].term = TermOf(N, j)
        PROVE  Has(LogOf(N, j), k, TermOf(N, j))
    <3>1. k \in 1 .. Len(L) /\ L[k] = W[k]
      BY <1>1, <1>2
    <3> QED BY <1>2, <2>1, <3>1 DEF LogInv, OwnLog
  <2> QED BY <1>3, <2>1 DEF LogInv, OwnLog
<1>10. TermLogs(N, B)
  <2>1. ASSUME NEW s \in Logs(N, A), NEW k \in 1 .. Len(s), s[k].term = m.term
        PROVE  Has(W, k, m.term) \/ (Len(W) < k /\ Begins(W, s))
    <3>1. Has(L, k, t) /\ k \in Nat
      BY <1>1, <2>1 DEF LogInv, OwnLog, L
    <3>2. CASE k <= Len(W)
      <4>1. k \in 1 .. Len(W)
        BY <1>2, <3>2
      <4> QED BY <1>1, <3>1, <3>2, <4>1 DEF Has
    <3>3. CASE Len(W) < k
      <4>1. Alike(s, L, k)
        BY <1>1, <1>2, <2>1, <3>1 DEF LogInv, Matching, Has
      <4>2. Len(s) \in Nat
        BY <1>2
      <4>3. Begins(W, s)
        BY <1>1, <1>2, <3>3, <4>1, <4>2 DEF Begins, Alike
      <4> QED BY <3>3, <4>3
    <3> QED BY <1>2, <3>1, <3>2, <3>3
  <2>2. ASSUME NEW x \in A, NEW k \in 1 .. Len(W), W[k].term = x.term
        PROVE  Has(x.whole, k, x.term) \/ (Len(x.whole) < k /\ Begins(x.whole, W))
    <3>1. k \in 1 .. Len(L) /\ L[k] = W[k]
      BY <1>1, <1>2
    <3>2. Has(x.whole, k, x.term) \/ (Len(x.whole) < k /\ Begins(x.whole, L))
      BY <1>2, <2>2, <3>1 DEF LogInv, TermLogs
    <3>3. Len(x.whole) \in Nat
      BY <1>2
    <3> QED BY <1>1, <1>2, <3>2, <3>3 DEF Begins, Alike
  <2>3. ASSUME NEW k \in 1 .. Len(W), W[k].term = m.term PROVE Has(W, k, m.term)
    BY <2>3 DEF Has
  <2> QED BY <1>1, <1>3, <2>1, <2>2, <2>3 DEF LogInv, TermLogs, W
<1>11. LeaderPrefix(N, B)
  <2>1. ASSUME NEW j \in Node, N[j].role = "leader", TermOf(N, j) = m.term
        PROVE  Begins(W, LogOf(N, j))
    <3>1. m.term \in N[j].reigns
      BY <2>1 DEF LogInv, Reigning
    <3>2. j = i
      BY <1>1, <1>4, <3>1 DEF OneReign
    <3> QED BY <3>2 DEF Sent, W, L
  <2> QED BY <1>1, <2>1 DEF LogInv, LeaderPrefix, W
<1> QED BY <1>5, <1>6, <1>7, <1>8, <1>9, <1>10, <1>11 DEF LogInv

(* A leader's new entry is the first of its index and term: every entry of   *)
(* the term that any log has, the leader had already.                        *)
LEMMA FreshEntry ==
  ASSUME NEW N, NEW M, NEW A, NEW B, NEW i \in Node,
         Sane(N, A), LogInv(N, A), OneReign(M), Extended(N, M, A, B, i)
  PROVE  /\ \A s \in Logs(N, A) : \A k \in 1 .. Len(s) :
              s[k].term = TermOf(M, i) => Has(LogOf(N, i), k, TermOf(M, i))
         /\ \A m \in A : m.term = TermOf(M, i) => Begins(m.whole, LogOf(N, i))
<1> DEFINE t == TermOf(M, i)
<1>1. CASE N[i].role = "leader" /\ t = TermOf(N, i)
  BY <1>1 DEF LogInv, OwnLog, LeaderPrefix
<1>2. CASE t \notin N[i].reigns
  <2>1. ASSUME NEW j \in Node PROVE t \notin N[j].reigns
    <3>1. CASE j = i
      BY <1>2, <3>1
    <3>2. CASE j # i
      <4>1. M[j] = N[j] /\ t \in M[i].reigns
        BY <3>2 DEF Extended
      <4> QED BY <3>2, <4>1 DEF OneReign
    <3> QED BY <3>1, <3>2
  <2>2. \A s \in Logs(N, A) : \A k \in 1 .. Len(s) : s[k].term # t
    BY <2>1 DEF LogInv, EntriesLed
  <2>3. \A m \in A : m.term # t
    BY <2>1, LogFacts DEF LogInv, AppendsLed
  <2> QED BY <2>2, <2>3
<1> QED BY <1>1, <1>2 DEF Extended

(* A leader that appends an entry of its term keeps the invariant. *)
LEMMA ExtendedStep ==
  ASSUME NEW N, NEW M, NEW A, NEW B, NEW i \in Node,
         Sane(N, A), Sane(M, B), LogInv(N, A), OneReign(M), Extended(N, M, A, B, i)
  PROVE  LogInv(M, B)
<1> DEFINE L == LogOf(N, i)
           K == LogOf(M, i)
           t == TermOf(M, i)
           len == Len(L)
<1>1. PICK e : Longer(L, K, e) /\ e.term = t
  BY DEF Extended
<1>2. /\ B \in SUBSET A /\ \A j \in Node \ {i} : M[j] = N[j]
      /\ M[i].role = "leader" /\ M[i].leader = i
      /\ M[i].reigns = N[i].reigns \cup {t} /\ TermOf(N, i) <= t
  BY DEF Extended
<1>3. /\ L \in Logs(N, A) /\ len \in Nat /\ t \in Nat
      /\ \A s \in Logs(N, A) : Len(s) \in Nat
      /\ \A j \in Node : TermOf(N, j) \in Nat /\ LogOf(N, j) \in Logs(N, A)
      /\ \A m \in A : m.whole \in Logs(N, A) /\ m.from \in Node
  BY LogFacts
<1>4. /\ Len(K) = len + 1 /\ K[len + 1].term = t
      /\ \A k \in 1 .. len : K[k] = L[k]
  BY <1>1 DEF Longer, Alike
<1>5. /\ \A s \in Logs(N, A) : \A k \in 1 .. Len(s) : s[k].term = t => Has(L, k, t)
      /\ \A m \in A : m.term = t => Begins(m.whole, L)
  BY FreshEntry
<1>6. \A j \in Node \ {i} : /\ LogOf(M, j) = LogOf(N, j) /\ TermOf(M, j) = TermOf(N, j)
                            /\ M[j] = N[j]
  BY <1>2 DEF LogOf, TermOf
<1>7. \A j \in Node : N[j].reigns \subseteq M[j].reigns
  BY <1>2
<1>8. \A s \in Logs(M, B) : s \in Logs(N, A) \/ s = K
  BY <1>2, <1>6 DEF Logs
<1> HIDE DEF L, K, t, len
<1>9. \A k \in 1 .. Len(K) : k \in 1 .. len \/ k = len + 1
  BY <1>3, <1>4
<1>10. ASSUME NEW s \in Logs(N, A), NEW k \in 1 .. Len(s), s[k].term = t
       PROVE  k \in 1 .. len /\ L[k].term = t
  BY <1>3, <1>5, <1>10 DEF Has, len
<1>11. len + 1 \notin 1 .. len /\ 1 .. len \subseteq 1 .. Len(K) /\ 1 .. len = 1 .. Len(L)
  BY <1>3, <1>4 DEF len
<1>12. Matching(M, B)
  <2>1. ASSUME NEW u \in Logs(N, A), NEW k \in 1 .. Len(K), k <= Len(u), K[k].term = u[k].term
        PROVE  Alike(K, u, k)
    <3>0. k \in 1 .. Len(u)
      BY <1>3, <2>1
    <3>1. k # len + 1
      BY <1>4, <1>10, <1>11, <2>1, <3>0
    <3>2. k \in 1 .. len /\ K[k] = L[k]
      BY <1>4, <1>9, <3>1
    <3>3. Alike(L, u, k)
      BY <1>3, <1>11, <2>1, <3>2 DEF LogInv, Matching
    <3>4. \A x \in 1 .. k : x \in 1 .. len
      BY <1>3, <3>2
    <3> QED BY <1>4, <3>3, <3>4 DEF Alike
  <2>2. ASSUME NEW u \in Logs(N, A), NEW k \in 1 .. Len(u), k <= Len(K), K[k].term = u[k].term
        PROVE  Alike(u, K, k)
    <3>1. k \in 1 .. Len(K) /\ k <= Len(u)
      BY <1>3, <1>4, <2>2
    <3> QED BY <2>1, <2>2, <3>1 DEF Alike
  <2>3. \A k \in 1 .. Len(K) : Alike(K, K, k)
    BY DEF Alike
  <2> QED BY <1>8, <2>1, <2>2, <2>3 DEF Matching, LogInv
<1>13. Contiguous(M, B)
  <2>1. ASSUME NEW u \in Logs(N, A), NEW k \in 1 .. Len(K), NEW l \in k .. Len(u),
               K[k].term = u[l].term
        PROVE  u[k].term = K[k].term
    <3>0. l \in 1 .. Len(u) /\ l \in Nat /\ k <= l
      BY <1>3
    <3>1. k # len + 1
      BY <1>3, <1>4, <1>10, <2>1, <3>0
    <3>2. k \in 1 .. len /\ K[k] = L[k]
      BY <1>4, <1>9, <3>1
    <3> QED BY <1>3, <1>11, <2>1, <3>2 DEF LogInv, Contiguous
  <2>2. ASSUME NEW s \in Logs(N, A), NEW k \in 1 .. Len(s), NEW l \in k .. Len(K),
               s[k].term = K[l].term
        PROVE  K[k].term = s[k].term
    <3>1. CASE l = len + 1
      <4>1. k \in 1 .. len /\ L[k].term = t /\ s[k].term = t
        BY <1>4, <1>10, <2>2, <3>1
      <4> QED BY <1>4, <4>1
    <3>2. CASE l # len + 1
      <4>1. l \in 1 .. len /\ k \in 1 .. len /\ l \in k .. Len(L)
        BY <1>3, <1>4, <3>2 DEF len
      <4>2. K[l] = L[l] /\ K[k] = L[k]
        BY <1>4, <4>1
      <4> QED BY <1>3, <2>2, <4>1, <4>2 DEF LogInv, Contiguous
    <3> QED BY <3>1, <3>2
  <2> QED BY <1>8, <2>1, <2>2 DEF Contiguous, LogInv
<1>14. EntriesLed(M, B)
  <2>1. ASSUME NEW k \in 1 .. Len(K) PROVE \E j \in Node : K[k].term \in M[j].reigns
    <3>1. CASE k = len + 1
      BY <1>2, <1>4, <3>1
    <3>2. CASE k \in 1 .. len
      <4>1. PICK j \in Node : L[k].term \in N[j].reigns
        BY <1>3, <1>11, <3>2 DEF LogInv, EntriesLed
      <4> QED BY <1>4, <1>7, <3>2, <4>1
    <3> QED BY <1>9, <3>1, <3>2
  <2> QED BY <1>7, <1>8, <2>1 DEF LogInv, EntriesLed
<1>15. Reigning(M)
  <2> SUFFICES ASSUME NEW j \in Node
               PROVE  /\ \A x \in M[j].reigns : x <= TermOf(M, j)
                      /\ M[j].role = "candidate" => TermOf(M, j) \notin M[j].reigns
                      /\ M[j].role = "leader" =>
                           /\ TermOf(M, j) \in M[j].reigns /\ M[j].leader = j
                           /\ 0 < Len(LogOf(M, j))
                           /\ LogOf(M, j)[Len(LogOf(M, j))].term = TermOf(M, j)
    BY DEF Reigning
  <2>1. CASE j # i
    BY <1>6, <2>1 DEF LogInv, Reigning
  <2>2. CASE j = i
    <3>1. \A x \in N[i].reigns : x <= TermOf(N, i) /\ x \in Nat
      BY DEF LogInv, Reigning, Sane
    <3>2. \A x \in M[i].reigns : x <= t
      BY <1>2, <1>3, <3>1
    <3> QED BY <1>2, <1>3, <1>4, <2>2, <3>2 DEF K, t
  <2> QED BY <2>1, <2>2
<1>16. AppendsLed(M, B)
  BY <1>2, <1>3, <1>7 DEF LogInv, AppendsLed
<1>17. ASSUME NEW j \in Node, j # i, M[j].role = "leader"
       PROVE  TermOf(M, j) # t
  <2>1. TermOf(M, j) \in M[j].reigns /\ t \in M[i].reigns
    BY <1>2, <1>15, <1>17 DEF Reigning
  <2> QED BY <1>17, <2>1 DEF OneReign
<1>18. OwnLog(M, B)
  <2> SUFFICES ASSUME NEW j \in Node, M[j].role = "leader", NEW s \in Logs(M, B),
                      NEW k \in 1 .. Len(s), s[k].term = TermOf(M, j)
               PROVE  Has(LogOf(M, j), k, TermOf(M, j))
    BY DEF OwnLog
  <2>1. CASE j = i
    <3>1. CASE s = K
      BY <2>1, <3>1 DEF Has, K
    <3>2. CASE s \in Logs(N, A)
      <4>1. k \in 1 .. len /\ L[k].term = t
        BY <1>10, <2>1, <3>2 DEF t
      <4>2. k <= Len(K) /\ K[k].term = t
        BY <1>3, <1>4, <4>1
      <4> QED BY <2>1, <4>2 DEF Has, K, t
    <3> QED BY <1>8, <3>1, <3>2
  <2>2. CASE j # i
    <3>1. /\ N[j].role = "leader" /\ LogOf(M, j) = LogOf(N, j)
          /\ TermOf(M, j) = TermOf(N, j) /\ TermOf(M, j) # t
      BY <1>6, <1>17, <2>2
    <3>2. CASE s = K
      <4>1. k \in 1 .. Len(L) /\ L[k] = K[k]
        BY <1>4, <1>9, <1>11, <3>1, <3>2
      <4> QED BY <1>3, <3>1, <3>2, <4>1 DEF LogInv, OwnLog
    <3>3. CASE s \in Logs(N, A)
      BY <3>1, <3>3 DEF LogInv, OwnLog
    <3> QED BY <1>8, <3>2, <3>3
  <2> QED BY <2>1, <2>2
<1>19. ASSUME NEW m \in A, Begins(m.whole, L) PROVE Begins(m.whole, K)
  BY <1>3, <1>4, <1>19 DEF Begins, Alike, len
<1>20. TermLogs(M, B)
  <2>1. ASSUME NEW m \in A, NEW k \in 1 .. Len(K), K[k].term = m.term
        PROVE  Has(m.whole, k, m.term) \/ (Len(m.whole) < k /\ Begins(m.whole, K))
    <3>1. CASE k = len + 1
      <4>1. Begins(m.whole, L) /\ Len(m.whole) \in Nat
        BY <1>3, <1>4, <1>5, <2>1, <3>1
      <4>2. Len(m.whole) < k
        BY <1>3, <3>1, <4>1 DEF Begins, len
      <4> QED BY <1>19, <4>1, <4>2
    <3>2. CASE k \in 1 .. len
      <4>1. Has(m.whole, k, m.term) \/ (Len(m.whole) < k /\ Begins(m.whole, L))
        BY <1>3, <1>4, <1>11, <2>1, <3>2 DEF LogInv, TermLogs
      <4> QED BY <1>19, <4>1
    <3> QED BY <1>9, <3>1, <3>2
  <2> QED BY <1>2, <1>8, <2>1 DEF LogInv, TermLogs
<1>21. LeaderPrefix(M, B)
  <2> SUFFICES ASSUME NEW m \in B, NEW j \in Node, M[j].role = "leader",
                      TermOf(M, j) = m.term
               PROVE  Begins(m.whole, LogOf(M, j))
    BY DEF LeaderPrefix
  <2>1. CASE j = i
    BY <1>2, <1>5, <1>19, <2>1 DEF K, t
  <2>2. CASE j # i
    BY <1>2, <1>6, <2>2 DEF LogInv, LeaderPrefix
  <2> QED BY <2>1, <2>2
<1>22. Hints(M)
  <2> SUFFICES ASSUME NEW j \in Node, M[j].leader # Nil
               PROVE  TermOf(M, j) \in M[M[j].leader].reigns
    BY DEF Hints
  <2>1. CASE j = i
    BY <1>2, <2>1 DEF t
  <2>2. CASE j # i
    <3>1. M[j].leader \in Node /\ M[j].leader = N[j].leader /\ TermOf(M, j) = TermOf(N, j)
      BY <1>6, <2>2 DEF Sane
    <3> QED BY <1>7, <3>1 DEF LogInv, Hints
  <2> QED BY <2>1, <2>2
<1> QED BY <1>12, <1>13, <1>14, <1>15, <1>16, <1>18, <1>20, <1>21, <1>22 DEF LogInv

-----------------------------------------------------------------------------
(* Every kind of step is one of the three. *)

(* Node n becomes p: its log is n's or a request's, and it is no new leader. *)
Eased(n, p, A) ==
  /\ FullLog(p.disk) = FullLog(n.disk) \/ \E m \in A : FullLog(p.disk) = m.whole
  /\ n.disk.term <= p.disk.term /\ p.reigns = n.reigns
  /\ p.role = "leader" =>
       /\ n.role = "leader" /\ p.leader = n.leader
       /\ FullLog(p.disk) = FullLog(n.disk) /\ p.disk.term = n.disk.term
  /\ p.role = "candidate" => \/ n.disk.term < p.disk.term
                             \/ n.role = "candidate" /\ p.disk.term = n.disk.term
  /\ \/ p.leader = Nil
     \/ p.leader = n.leader /\ p.disk.term = n.disk.term
     \/ \E m \in A : p.leader = m.from /\ p.disk.term = m.term

(* The nodes and requests of a state are sane. *)
LEMMA StateSane ==
  ASSUME NodeInv
  PROVE  Sane(nodes, Appends) /\ nodes \in [Node -> NodeState]
<1>1. nodes \in [Node -> NodeState]
  BY DEF NodeInv, TypeInv, TypeOK
<1>2. \A i \in Node : /\ Whole(nodes[i].disk) /\ nodes[i].reigns \in SUBSET Nat
                      /\ nodes[i].leader \in Node \cup {Nil}
  <2>1. \A n \in NodeState : n.leader \in Node \cup {Nil}
    BY DEF NodeState
  <2> QED BY <1>1, <2>1, FitFacts, NodeTypes
<1>3. \A m \in Appends : m \in AppendRequest /\ Honest(m)
  BY MessageTypes DEF NodeInv
<1> QED BY <1>1, <1>2, <1>3 DEF Sane

(* One node eases, the others stay. *)
LEMMA EasedCalm ==
  ASSUME NEW N \in [Node -> NodeState], NEW A, NEW B, B \in SUBSET A, Sane(N, A),
         NEW i \in Node, NEW p, Eased(N[i], p, A)
  PROVE  Calm(N, [N EXCEPT ![i] = p], A, B)
<1> DEFINE M == [N EXCEPT ![i] = p]
<1>1. M[i] = p /\ \A j \in Node \ {i} : M[j] = N[j]
  OBVIOUS
<1> HIDE DEF M
<1>2. \A j \in Node : TermOf(N, j) \in Nat /\ LogOf(N, j) \in Logs(N, A)
  BY LogFacts
<1>3. \A m \in A : m.whole \in Logs(N, A)
  BY LogFacts
<1>4. LogOf(M, i) \in Logs(N, A)
  BY <1>1, <1>2, <1>3 DEF Eased, LogOf
<1>5. \A j \in Node \ {i} : LogOf(M, j) = LogOf(N, j) /\ TermOf(M, j) = TermOf(N, j)
  BY <1>1 DEF LogOf, TermOf
<1>6. Calm(N, M, A, B)
  BY <1>1, <1>2, <1>4, <1>5 DEF Calm, Eased, LogOf, TermOf
<1> QED BY <1>6 DEF M

(* A node that rests eases. *)
LEMMA RestEased ==
  ASSUME NEW n, NEW p, NEW l, NEW A, Rest(n, p, l),
         l = Nil \/ \E m \in A : l = m.from /\ m.term = p.disk.term
  PROVE  Eased(n, p, A)
BY DEF Rest, Eased, SamePast

(* A log in which m replaces what is new stays as it is or becomes the log   *)
(* that m was cut from; in both cases it begins with that log.               *)
LEMMA ReplacedLog ==
  ASSUME NEW L \in Seq(Entry), NEW K \in Seq(Entry), NEW m, m.whole \in Seq(Entry),
         m.prev \in Nat, NEW f \in Nat, Replaces(L, K, m, f),
         \A k \in 1 .. Len(L) : k <= Len(m.whole) /\ L[k].term = m.whole[k].term
                                  => Alike(L, m.whole, k)
  PROVE  (K = L \/ K = m.whole) /\ Begins(m.whole, K)
<1> DEFINE W == m.whole
           prev == m.prev
           ll == Len(L)
           lw == Len(W)
<1>1. /\ W \in Seq(Entry) /\ ll \in Nat /\ lw \in Nat /\ prev \in Nat
  OBVIOUS
<1>2. /\ prev < f /\ f <= lw + 1 /\ f <= ll + 1
      /\ \A x \in prev .. f - 1 : TermAt(L, x) = TermAt(W, x)
      /\ f = lw + 1 => K = L
      /\ f <= lw => /\ Len(K) = lw /\ Alike(K, L, f - 1)
                    /\ \A x \in f .. lw : K[x] = W[x]
  BY DEF Replaces
<1>3. Alike(L, W, f - 1)
  <2>1. CASE f - 1 = 0
    BY <2>1 DEF Alike
  <2>2. CASE f - 1 # 0
    <3> HIDE DEF prev, ll, lw
    <3>1. f - 1 \in prev .. f - 1 /\ f - 1 \in 1 .. ll /\ f - 1 <= lw
      BY <1>1, <1>2, <2>2
    <3>2. L[f - 1].term = W[f - 1].term
      BY <1>2, <2>2, <3>1 DEF TermAt
    <3> QED BY <3>1, <3>2 DEF ll, lw
  <2> QED BY <2>1, <2>2
<1>4. CASE f = lw + 1
  <2>1. lw <= ll /\ f - 1 = lw
    <3> HIDE DEF ll, lw
    <3> QED BY <1>1, <1>2, <1>4
  <2>2. Begins(W, L)
    BY <1>3, <2>1 DEF Begins, Alike
  <2> QED BY <1>2, <1>4, <2>2
<1>5. CASE f # lw + 1
  <2>0. f <= lw
    <3> HIDE DEF ll, lw
    <3> QED BY <1>1, <1>2, <1>5
  <2>1. /\ Len(K) = lw /\ Alike(K, L, f - 1) /\ \A x \in f .. lw : K[x] = W[x]
    BY <1>2, <2>0
  <2>2. Alike(K, W, Len(K))
    <3> SUFFICES ASSUME NEW x \in 1 .. lw PROVE K[x] = W[x]
      BY <2>1 DEF Alike
    <3>1. x \in 1 .. f - 1 \/ x \in f .. lw
      <4> HIDE DEF lw
      <4> QED BY <1>1
    <3> QED BY <1>3, <2>1, <3>1 DEF Alike
  <2>3. K = W
    BY <1>1, <2>1, <2>2, SameSequence
  <2>4. Begins(W, W)
    BY <1>1 DEF Begins, Alike
  <2> QED BY <2>3, <2>4
<1> QED BY <1>4, <1>5

(* AppendEntries leaves the log as it is, or makes it the request's log. *)
LEMMA InstallEased ==
  ASSUME NEW N, NEW A, Sane(N, A), Matching(N, A), NEW i \in Node, NEW m \in A,
         NEW c, Rest(N[i], c, m.from), c.role = "follower", c.leader = m.from,
         c.disk.term = m.term, NEW p, Whole(p.disk), Install(c, p, m)
  PROVE  Eased(N[i], p, A)
<1> DEFINE n == N[i]
           L == FullLog(n.disk)
           K == FullLog(p.disk)
<1>1. /\ p.disk.term = m.term /\ n.disk.term <= m.term /\ p.reigns = n.reigns
      /\ p.role = "follower" /\ p.leader = m.from
  BY DEF Install, Rest, SameOffice, SamePast
<1>2. FullLog(c.disk) = L
  BY DEF Rest
<1>3. PICK f \in Nat : Replaces(L, K, m, f)
  BY <1>2 DEF Install
<1>4. /\ L \in Logs(N, A) /\ m.whole \in Logs(N, A) /\ L \in Seq(Entry)
      /\ m.whole \in Seq(Entry) /\ m.prev \in Nat
  BY LogFacts DEF LogOf, Sane, AppendRequest
<1>5. K \in Seq(Entry)
  BY WholeLog
<1> HIDE DEF L, K
<1>6. \A k \in 1 .. Len(L) : k <= Len(m.whole) /\ L[k].term = m.whole[k].term
                               => Alike(L, m.whole, k)
  BY <1>4 DEF Matching
<1>7. K = L \/ K = m.whole
  BY <1>3, <1>4, <1>5, <1>6, ReplacedLog
<1> QED BY <1>1, <1>7 DEF Eased, L, K

(* A node that is crowned extends its log. *)
LEMMA LedExtends ==
  ASSUME NEW N \in [Node -> NodeState], NEW A, NEW B, B \in SUBSET A, Sane(N, A),
         NEW i \in Node, NEW c, NEW p, Led(c, p, i), FullLog(c.disk) = FullLog(N[i].disk),
         N[i].disk.term <= c.disk.term, c.reigns = N[i].reigns,
         c.disk.term \notin N[i].reigns
  PROVE  Extended(N, [N EXCEPT ![i] = p], A, B, i)
<1> DEFINE M == [N EXCEPT ![i] = p]
<1>1. M[i] = p /\ \A j \in Node \ {i} : M[j] = N[j]
  OBVIOUS
<1> HIDE DEF M
<1>2. PICK l : Crown(c, l, i) /\ Progress(l, p, i)
  BY DEF Led
<1> DEFINE e == [term |-> c.disk.term, cmd |-> Barrier]
<1>3. /\ Longer(FullLog(c.disk), FullLog(p.disk), e) /\ p.disk.term = c.disk.term
      /\ p.role = "leader" /\ p.leader = i /\ p.reigns = c.reigns \cup {c.disk.term}
  BY <1>2 DEF Crown, Appended, Progress, SameLog, SameOffice, SamePast
<1>4. e.term = c.disk.term
  OBVIOUS
<1> HIDE DEF e
<1>5. Extended(N, M, A, B, i)
  BY <1>1, <1>3, <1>4 DEF Extended, LogOf, TermOf
<1> QED BY <1>5 DEF M

(* Every step is calm, sends, or extends a leader's log. *)
LEMMA LogKinds ==
  ASSUME NodeInv, NodeInv', NextKind, LogInv(nodes, Appends)
  PROVE  \/ Calm(nodes, nodes', Appends, Appends')
         \/ /\ nodes' = nodes
            /\ \E i \in Node : \E m \in AppendRequest :
                 Honest(m) /\ Sent(nodes, Appends, Appends', i, m)
         \/ \E i \in Node : Extended(nodes, nodes', Appends, Appends', i)
<1> DEFINE N == nodes
           A == Appends
           B == Appends'
           Goal == \/ Calm(nodes, nodes', Appends, Appends')
                   \/ /\ nodes' = nodes
                      /\ \E i \in Node : \E m \in AppendRequest :
                           Honest(m) /\ Sent(nodes, Appends, Appends', i, m)
                   \/ \E i \in Node : Extended(nodes, nodes', Appends, Appends', i)
<1>1. N \in [Node -> NodeState] /\ Sane(N, A)
  BY StateSane
<1>2. \A i \in Node : N[i].disk.term \in Nat /\ N[i].reigns \in SUBSET Nat
  BY <1>1, FitFacts, NodeTypes
<1>3. CASE SendKind
  <2>1. PICK i \in Node, m \in AppendRequest :
          /\ nodes[i].role = "leader" /\ Honest(m) /\ CopyOf(nodes[i], m)
          /\ m.from = i /\ Appends' \in SUBSET (Appends \cup {m})
    BY <1>3, SentAppends
  <2>2. Sent(N, A, B, i, m)
    BY <2>1 DEF Sent, CopyOf, Begins, LogOf, TermOf
  <2>3. nodes' = nodes
    BY <1>3 DEF SendKind
  <2> QED BY <2>1, <2>2, <2>3
<1>4. SUFFICES ASSUME B \in SUBSET A PROVE Goal
  BY <1>3, AppendsAfter
<1>5. ASSUME NEW i \in Node, NEW p, Becomes(i, p), Eased(N[i], p, A) PROVE Goal
  <2>1. Calm(N, [N EXCEPT ![i] = p], A, B)
    BY <1>1, <1>4, <1>5, EasedCalm
  <2>2. nodes' = [N EXCEPT ![i] = p]
    BY <1>5 DEF Becomes
  <2> QED BY <2>1, <2>2
<1>6. ASSUME NEW i \in Node, NEW c, NEW p, Becomes(i, p), Led(c, p, i),
             FullLog(c.disk) = FullLog(N[i].disk), N[i].disk.term <= c.disk.term,
             c.reigns = N[i].reigns, c.disk.term \notin N[i].reigns
      PROVE  Goal
  <2>1. Extended(N, [N EXCEPT ![i] = p], A, B, i)
    BY <1>1, <1>4, <1>6, LedExtends
  <2>2. nodes' = [N EXCEPT ![i] = p]
    BY <1>6 DEF Becomes
  <2> QED BY <2>1, <2>2
<1>7. ASSUME NEW i \in Node PROVE \A t \in N[i].reigns : t <= N[i].disk.term
  BY DEF LogInv, Reigning, TermOf
<1> HIDE DEF Goal, N, A, B
<1>8. CASE RestKind
  <2>1. PICK i \in Node : \E p, l :
          /\ Becomes(i, p) /\ Rest(N[i], p, l)
          /\ l = Nil \/ \E m \in A : l = m.from /\ m.term = p.disk.term
    BY <1>8 DEF RestKind, N, A
  <2>2. PICK p, l :
          /\ Becomes(i, p) /\ Rest(N[i], p, l)
          /\ l = Nil \/ \E m \in A : l = m.from /\ m.term = p.disk.term
    BY <2>1
  <2>3. Eased(N[i], p, A)
    BY <2>2, RestEased
  <2> QED BY <1>5, <2>2, <2>3
<1>9. CASE VoteKind
  <2>1. PICK m \in wire : \E p : /\ m \in VoteRequest /\ Becomes(m.to, p)
                                 /\ N[m.to].disk.term <= m.term /\ Voted(N[m.to], p, m)
    BY <1>9 DEF VoteKind, N
  <2>2. PICK p : Becomes(m.to, p) /\ Voted(N[m.to], p, m)
    BY <2>1
  <2>3. m.to \in Node
    BY <2>1 DEF VoteRequest
  <2>4. Eased(N[m.to], p, A)
    BY <2>1, <2>2 DEF Voted, Eased, SameOffice
  <2> QED BY <1>5, <2>2, <2>3, <2>4
<1>10. CASE CampaignKind
  <2>1. PICK i \in Node : \E p : Becomes(i, p) /\ Campaign(N[i], p, i)
    BY <1>10 DEF CampaignKind, N
  <2>2. PICK p : Becomes(i, p) /\ Campaign(N[i], p, i)
    BY <2>1
  <2>3. Eased(N[i], p, A)
    BY <1>2, <2>2 DEF Campaign, Eased
  <2> QED BY <1>5, <2>2, <2>3
<1>11. CASE CampaignLedKind
  <2>1. PICK i \in Node : \E c, p : Becomes(i, p) /\ Campaign(N[i], c, i) /\ Led(c, p, i)
    BY <1>11 DEF CampaignLedKind, N
  <2>2. PICK c, p : Becomes(i, p) /\ Campaign(N[i], c, i) /\ Led(c, p, i)
    BY <2>1
  <2>3. /\ FullLog(c.disk) = FullLog(N[i].disk) /\ c.reigns = N[i].reigns
        /\ c.disk.term = N[i].disk.term + 1
    BY <2>2 DEF Campaign
  <2>4. N[i].disk.term <= c.disk.term /\ c.disk.term \notin N[i].reigns
    BY <1>2, <1>7, <2>3
  <2> QED BY <1>6, <2>2, <2>3, <2>4
<1>12. CASE LedKind
  <2>1. PICK i \in Node : \E p : /\ Becomes(i, p) /\ N[i].role = "candidate"
                                 /\ Led(N[i], p, i)
    BY <1>12 DEF LedKind, N
  <2>2. PICK p : Becomes(i, p) /\ Led(N[i], p, i)
    BY <2>1
  <2>3. N[i].disk.term \notin N[i].reigns
    BY <2>1 DEF LogInv, Reigning, TermOf, N
  <2>4. N[i].disk.term <= N[i].disk.term
    BY <1>2
  <2> QED BY <1>6, <2>2, <2>3, <2>4
<1>13. CASE OpenKind
  <2>1. PICK i \in Node : \E c, p :
          /\ Becomes(i, p) /\ Revived(N[i], c)
          /\ \/ p = c /\ c.disk.term = N[i].disk.term
             \/ Led(c, p, i) /\ c.disk.term = N[i].disk.term + 1
    BY <1>13 DEF OpenKind, N
  <2>2. PICK c, p :
          /\ Becomes(i, p) /\ Revived(N[i], c)
          /\ \/ p = c /\ c.disk.term = N[i].disk.term
             \/ Led(c, p, i) /\ c.disk.term = N[i].disk.term + 1
    BY <2>1
  <2>3. CASE p = c /\ c.disk.term = N[i].disk.term
    <3>1. Eased(N[i], p, A)
      BY <1>2, <2>2, <2>3 DEF Revived, Eased, SamePast
    <3> QED BY <1>5, <2>2, <3>1
  <2>4. CASE Led(c, p, i) /\ c.disk.term = N[i].disk.term + 1
    <3>1. FullLog(c.disk) = FullLog(N[i].disk) /\ c.reigns = N[i].reigns
      BY <2>2 DEF Revived, SamePast
    <3>2. N[i].disk.term <= c.disk.term /\ c.disk.term \notin N[i].reigns
      BY <1>2, <1>7, <2>4
    <3> QED BY <1>6, <2>2, <2>4, <3>1, <3>2
  <2> QED BY <2>2, <2>3, <2>4
<1>14. CASE MatchKind
  <2>1. PICK r \in replies : \E c, x, p :
          /\ Becomes(r.req.from, p) /\ Matched(N[r.req.from], c, r)
          /\ Progress(c, x, r.req.from) /\ Rest(x, p, Nil)
    BY <1>14 DEF MatchKind, N
  <2> DEFINE i == r.req.from
  <2>2. PICK c, x, p : /\ Becomes(i, p) /\ Matched(N[i], c, r)
                       /\ Progress(c, x, i) /\ Rest(x, p, Nil)
    BY <2>1
  <2>3. i \in Node
    BY MessageTypes
  <2>4. Eased(N[i], p, A)
    BY <1>2, <2>2, <2>3
       DEF Matched, Progress, Rest, Eased, SameLog, SameOffice, SamePast
  <2> QED BY <1>5, <2>2, <2>3, <2>4
<1>15. CASE SubmitKind
  <2>1. PICK i \in Node, cmd \in Operation : \E c, p :
          /\ Becomes(i, p) /\ N[i].role = "leader"
          /\ Proposed(N[i], c, i, cmd) /\ Progress(c, p, i)
    BY <1>15 DEF SubmitKind, N
  <2>2. PICK c, p : /\ Becomes(i, p) /\ N[i].role = "leader"
                    /\ Proposed(N[i], c, i, cmd) /\ Progress(c, p, i)
    BY <2>1
  <2> DEFINE e == [term |-> N[i].disk.term, cmd |-> cmd]
             M == [N EXCEPT ![i] = p]
  <2>3. /\ Longer(FullLog(N[i].disk), FullLog(p.disk), e) /\ p.disk.term = N[i].disk.term
        /\ p.role = "leader" /\ p.leader = N[i].leader /\ p.reigns = N[i].reigns
    BY <2>2 DEF Proposed, Appended, Progress, SameLog, SameOffice, SamePast
  <2>4. e.term = N[i].disk.term
    OBVIOUS
  <2>5. N[i].leader = i /\ N[i].disk.term \in N[i].reigns
    BY <2>2 DEF LogInv, Reigning, TermOf, N
  <2>6. M[i] = p /\ (\A j \in Node \ {i} : M[j] = N[j]) /\ nodes' = M
    BY <1>1, <2>2 DEF Becomes, N
  <2> HIDE DEF e, M
  <2>7. Extended(N, M, A, B, i)
    BY <1>2, <1>4, <2>2, <2>3, <2>4, <2>5, <2>6 DEF Extended, LogOf, TermOf
  <2> QED BY <2>6, <2>7 DEF Goal, N, A, B
<1>16. CASE InstallKind
  <2>1. PICK m \in wire : \E c, p :
          /\ m \in AppendRequest /\ Becomes(m.to, p)
          /\ Rest(N[m.to], c, m.from) /\ c.role = "follower" /\ c.leader = m.from
          /\ c.disk.term = m.term /\ Install(c, p, m)
    BY <1>16 DEF InstallKind, N
  <2>2. PICK c, p :
          /\ m \in AppendRequest /\ Becomes(m.to, p)
          /\ Rest(N[m.to], c, m.from) /\ c.role = "follower" /\ c.leader = m.from
          /\ c.disk.term = m.term /\ Install(c, p, m)
    BY <2>1
  <2>3. m \in A /\ m.to \in Node
    BY <2>2 DEF Appends, A, AppendRequest
  <2>4. Whole(p.disk)
    BY <2>2 DEF Becomes, Fit, Settled, Ready
  <2>5. Matching(N, A)
    BY DEF LogInv, N, A
  <2>6. Eased(N[m.to], p, A)
    BY <1>1, <2>2, <2>3, <2>4, <2>5, InstallEased
  <2> QED BY <1>5, <2>2, <2>3, <2>6
<1> QED BY <1>8, <1>9, <1>10, <1>11, <1>12, <1>13, <1>14, <1>15, <1>16, <1>3 DEF NextKind, Goal

-----------------------------------------------------------------------------
(* The invariant of every reachable state. *)

LogsInv == NodeInv /\ ElectionInv /\ LogInv(nodes, Appends)

(* Distinct nodes lead in distinct terms. *)
LEMMA OneReignOf ==
  ASSUME NodeInv, ElectionInv
  PROVE  OneReign(nodes)
<1>1. ElectionSafety
  BY ReignsApart DEF NodeInv
<1> QED BY <1>1 DEF ElectionSafety, OneReign

(* Every step keeps the invariant. *)
LEMMA LogsInvStep ==
  ASSUME LogsInv, [Next]_vars
  PROVE  LogsInv'
<1>1. NodeInv /\ ElectionInv /\ LogInv(nodes, Appends)
  BY DEF LogsInv
<1>2. NodeInv' /\ ElectionInv'
  BY <1>1, NodeInvStep, NextElection DEF NodeInv
<1>3. NextKind
  BY <1>1, NextKinds
<1>4. OneReign(nodes)
  BY <1>1, OneReignOf
<1>5. OneReign(nodes')
  <2>1. (NodeInv /\ ElectionInv => OneReign(nodes))'
    BY OneReignOf, PTL
  <2> QED BY <1>2, <2>1
<1>6. Sane(nodes, Appends)
  BY <1>1, StateSane
<1>7. Sane(nodes', Appends')
  <2>1. (NodeInv => Sane(nodes, Appends))'
    BY StateSane, PTL
  <2> QED BY <1>2, <2>1
<1>8. LogInv(nodes', Appends')
  <2>1. CASE Calm(nodes, nodes', Appends, Appends')
    BY <1>1, <1>6, <1>7, <2>1, CalmStep
  <2>2. ASSUME nodes' = nodes, NEW i \in Node, NEW m \in AppendRequest, Honest(m),
               Sent(nodes, Appends, Appends', i, m)
        PROVE  LogInv(nodes', Appends')
    BY <1>1, <1>4, <1>6, <2>2, SentStep
  <2>3. ASSUME NEW i \in Node, Extended(nodes, nodes', Appends, Appends', i)
        PROVE  LogInv(nodes', Appends')
    BY <1>1, <1>5, <1>6, <1>7, <2>3, ExtendedStep
  <2> QED BY <1>1, <1>2, <1>3, <2>1, <2>2, <2>3, LogKinds
<1> QED BY <1>2, <1>8 DEF LogsInv

(* Empty logs match. *)
LEMMA LogsInvInit ==
  ASSUME Init
  PROVE  LogsInv
<1>1. NodeInv /\ ElectionInv
  BY NodeInvInit, InitElection
<1>2. /\ \A i \in Node : /\ nodes[i].disk = EmptyStore /\ nodes[i].role = "follower"
                         /\ nodes[i].reigns = {} /\ nodes[i].leader = Nil
      /\ Appends = {}
  BY DEF Init, NewNode, Appends
<1>3. Len(FullLog(EmptyStore)) = 0
  <2> DEFINE log == <<Sentinel>>
  <2>1. EmptyStore.snap = <<>> /\ EmptyStore.log = log
    BY DEF EmptyStore
  <2>2. Tail(log) = <<>>
    OBVIOUS
  <2>3. FullLog(EmptyStore) = <<>> \o <<>>
    BY <2>1, <2>2 DEF FullLog
  <2> QED BY <2>3
<1>4. \A s \in Logs(nodes, Appends) : Len(s) = 0
  BY <1>2, <1>3 DEF Logs, LogOf
<1>5. LogInv(nodes, Appends)
  BY <1>2, <1>4 DEF LogInv, Matching, Contiguous, EntriesLed, Reigning, AppendsLed,
                    OwnLog, TermLogs, LeaderPrefix, Hints
<1> QED BY <1>1, <1>5 DEF LogsInv

(* Every reachable state. *)
LEMMA LogsInvAlways == Spec => []LogsInv
<1>1. Init => LogsInv
  BY LogsInvInit
<1>2. LogsInv /\ [Next]_vars => LogsInv'
  BY LogsInvStep
<1> QED BY <1>1, <1>2, PTL DEF Spec

(* The leader a node names was elected in the node's term, in every cluster,  *)
(* however late the request arrived that named it.                            *)
THEOREM HintedLeaderElected == Spec => []LeaderHintElected
<1>1. LogsInv => LeaderHintElected
  BY DEF LogsInv, LogInv, Hints, TermOf, LeaderHintElected, Disk
<1> QED BY <1>1, LogsInvAlways, PTL

(* AppendEntries' consistency test keeps the logs matching: stores that agree *)
(* on the term of an entry agree on every entry up to it, whatever the        *)
(* network delays or repeats, whoever crashes, compacted prefixes included.   *)
THEOREM LogsMatch == Spec => []LogMatching
<1>1. ASSUME LogsInv PROVE LogMatching
  <2> SUFFICES ASSUME NEW i \in Node, NEW j \in Node,
                      NEW k \in 1 .. Smaller(Len(FullLog(nodes[i].disk)),
                                             Len(FullLog(nodes[j].disk))),
                      FullLog(nodes[i].disk)[k].term = FullLog(nodes[j].disk)[k].term
               PROVE  SubSeq(FullLog(nodes[i].disk), 1, k)
                        = SubSeq(FullLog(nodes[j].disk), 1, k)
    BY DEF LogMatching, Disk
  <2> DEFINE L == LogOf(nodes, i)
             K == LogOf(nodes, j)
  <2>1. /\ L \in Logs(nodes, Appends) /\ K \in Logs(nodes, Appends)
        /\ L \in Seq(Entry) /\ K \in Seq(Entry) /\ Len(L) \in Nat /\ Len(K) \in Nat
    BY <1>1, StateSane, LogFacts DEF LogsInv
  <2>2. L = FullLog(nodes[i].disk) /\ K = FullLog(nodes[j].disk)
    BY DEF LogOf
  <2> HIDE DEF L, K
  <2>3. k \in 1 .. Len(L) /\ k <= Len(K) /\ L[k].term = K[k].term
    BY <2>1, <2>2 DEF Smaller
  <2>4. Alike(L, K, k)
    BY <1>1, <2>1, <2>3 DEF LogsInv, LogInv, Matching
  <2>5. SubSeq(L, 1, k) = SubSeq(K, 1, k)
    BY <2>1, <2>3, <2>4 DEF Alike
  <2> QED BY <2>2, <2>5
<1> QED BY <1>1, LogsInvAlways, PTL

-----------------------------------------------------------------------------
(***************************************************************************)
(* Why an entry on a majority of stores survives every election.           *)
(*                                                                         *)
(* A node's history `stored` holds <<k, t>> if the node wrote an entry at  *)
(* index k while in the entry's term t.  <<k, t>> is Chosen once a quorum  *)
(* has stored it, and Choosable while that may still happen: every member  *)
(* of some quorum has stored it or has not left term t.  As time goes on   *)
(* fewer entries are choosable, so what is said of every choosable entry   *)
(* need only be shown again for what a step adds:                          *)
(*   Inherited  a log with an entry of a later term holds it;              *)
(*   Heeded     a request of a later term agrees with whoever holds it;    *)
(*   Stays      whoever stored it holds it still;                          *)
(*   Backed     a candidate of a later term holds it if one of its voters  *)
(*              stored it.                                                 *)
(* The fixed leader's mode has no votes: there the quorums are those with  *)
(* the fixed leader.                                                       *)
(***************************************************************************)

Quora == {Q \in SUBSET Node : Majority(Q) /\ (FixedLeader # Nil => FixedLeader \in Q)}

Chosen(N, k, t) == \E Q \in Quora : \A j \in Q : <<k, t>> \in N[j].stored

Choosable(N, k, t) ==
  \E Q \in Quora : \A j \in Q : <<k, t>> \in N[j].stored \/ TermOf(N, j) <= t

(* Log s holds an entry of term t at index k. *)
Holds(s, k, t) == k \in 1 .. Len(s) /\ s[k].term = t

(* ElectionInv, for a state of the nodes. *)
Elected(N) ==
  /\ OneReign(N)
  /\ \A i, j \in Node : \A t \in Nat : <<t, i>> \in N[j].ballots => t <= TermOf(N, j)
  /\ FixedLeader = Nil => \A i \in Node : \A t \in N[i].reigns :
                            Majority({j \in Node : <<t, i>> \in N[j].ballots})
  /\ FixedLeader # Nil => \A i \in Node : \A t \in N[i].reigns : i = FixedLeader

(* What the earlier modules say of the nodes N and the append requests A. *)
Good(N, A) ==
  N \in [Node -> NodeState] /\ Sane(N, A) /\ LogInv(N, A) /\ Elected(N)

-----------------------------------------------------------------------------
(* The invariant.  V is a set of vote requests. *)

(* A node stored no entry of a later term, and every entry of its own. *)
Kept(N) ==
  \A j \in Node :
    /\ \A k, t \in Nat : <<k, t>> \in N[j].stored => t <= TermOf(N, j)
    /\ \A k \in 1 .. Len(LogOf(N, j)) :
         LogOf(N, j)[k].term = TermOf(N, j) => <<k, TermOf(N, j)>> \in N[j].stored

(* Nobody was voted for in a term it has not reached. *)
Behind(N) ==
  \A i, j \in Node : \A t \in Nat : <<t, i>> \in N[j].ballots => t <= TermOf(N, i)

(* A vote request of a candidate's own term describes its log. *)
Asking(N, V) ==
  \A m \in V :
    /\ m \in VoteRequest /\ m.term <= TermOf(N, m.from)
    /\ N[m.from].role = "candidate" /\ TermOf(N, m.from) = m.term =>
         /\ m.lastIndex = Len(LogOf(N, m.from))
         /\ m.lastTerm = TermAt(LogOf(N, m.from), Len(LogOf(N, m.from)))

Inherited(N, A) ==
  \A k, t \in Nat : Choosable(N, k, t) =>
    \A s \in Logs(N, A) : \A x \in 1 .. Len(s) : t < s[x].term => Holds(s, k, t)

Heeded(N, A) ==
  \A k, t \in Nat : Choosable(N, k, t) =>
    \A m \in A : t < m.term =>
      \A s \in Logs(N, A) : Holds(s, k, t) =>
        \A x \in 1 .. k : x <= Len(m.whole) => m.whole[x] = s[x]

Stays(N) ==
  \A k, t \in Nat : Choosable(N, k, t) =>
    \A j \in Node : <<k, t>> \in N[j].stored => Holds(LogOf(N, j), k, t)

Backed(N) ==
  \A k, t \in Nat : Choosable(N, k, t) =>
    \A i, j \in Node :
      /\ N[i].role = "candidate" /\ t < TermOf(N, i)
      /\ <<TermOf(N, i), i>> \in N[j].ballots /\ <<k, t>> \in N[j].stored
      => Holds(LogOf(N, i), k, t)

SafeInv(N, A, V) == /\ Kept(N) /\ Behind(N) /\ Asking(N, V)
                    /\ Inherited(N, A) /\ Heeded(N, A) /\ Stays(N) /\ Backed(N)

-----------------------------------------------------------------------------
(* Facts about one state. *)

(* The fields of the nodes are typed, and the logs ordered. *)
LEMMA NodeFacts ==
  ASSUME NEW N, NEW A, Good(N, A), NEW i \in Node
  PROVE  /\ TermOf(N, i) \in Nat /\ LogOf(N, i) \in Logs(N, A)
         /\ LogOf(N, i) \in Seq(Entry) /\ Len(LogOf(N, i)) \in Nat
         /\ Ordered(LogOf(N, i), TermOf(N, i))
         /\ N[i] \in NodeState /\ Whole(N[i].disk)
         /\ N[i].stored \in SUBSET (Nat \X Nat)
         /\ N[i].ballots \in SUBSET (Nat \X Node)
         /\ N[i].reigns \in SUBSET Nat /\ N[i].match \in [Node -> Nat]
<1>1. Sane(N, A) /\ N[i] \in NodeState
  BY DEF Good
<1>2. TermOf(N, i) \in Nat /\ LogOf(N, i) \in Logs(N, A)
  BY <1>1, LogFacts
<1>3. LogOf(N, i) \in Seq(Entry) /\ Len(LogOf(N, i)) \in Nat
  BY <1>1, <1>2, LogFacts
<1>4. Whole(N[i].disk)
  BY <1>1 DEF Sane
<1>5. Ordered(LogOf(N, i), TermOf(N, i))
  BY <1>4 DEF Whole, LogOf, TermOf
<1>6. /\ N[i].stored \in SUBSET (Nat \X Nat)
      /\ N[i].ballots \in SUBSET (Nat \X Node)
      /\ N[i].reigns \in SUBSET Nat /\ N[i].match \in [Node -> Nat]
  BY <1>1 DEF NodeState
<1> QED BY <1>1, <1>2, <1>3, <1>4, <1>5, <1>6

(* The logs are sequences of entries whose terms never decrease. *)
LEMMA SeqFacts ==
  ASSUME NEW N, NEW A, Good(N, A), NEW s \in Logs(N, A)
  PROVE  /\ s \in Seq(Entry) /\ Len(s) \in Nat
         /\ \A k \in 1 .. Len(s) : s[k].term \in Nat /\ 0 < s[k].term
         /\ \A k \in 1 .. Len(s) : \A l \in k .. Len(s) : s[k].term <= s[l].term
<1>1. Sane(N, A)
  BY DEF Good
<1>2. \E b : Ordered(s, b)
  <2>1. \A i \in Node : Ordered(LogOf(N, i), TermOf(N, i))
    BY NodeFacts
  <2>2. \A m \in A : Ordered(m.whole, m.term)
    BY <1>1 DEF Sane, Honest
  <2> QED BY <2>1, <2>2 DEF Logs
<1> QED BY <1>1, <1>2, LogFacts DEF Ordered

(* The append requests are typed, and their logs are logs. *)
LEMMA RequestFacts ==
  ASSUME NEW N, NEW A, Good(N, A), NEW m \in A
  PROVE  /\ m \in AppendRequest /\ Honest(m) /\ m.whole \in Logs(N, A)
         /\ m.term \in Nat /\ m.from \in Node /\ m.to \in Node
         /\ m.prev \in Nat /\ m.commit \in Nat
         /\ m.whole \in Seq(Entry) /\ Len(m.whole) \in Nat
BY LogFacts DEF Good, Sane, AppendRequest

(* A quorum has a member among the voters of any leader: whatever was        *)
(* choosable before that leader's term, a voter (or the leader) has stored.  *)
LEMMA LaterReign ==
  ASSUME NEW N, NEW A, Good(N, A), NEW x \in Node, NEW u \in N[x].reigns,
         NEW k \in Nat, NEW t \in Nat, t < u, Choosable(N, k, t)
  PROVE  \E j \in Node : /\ u <= TermOf(N, j) /\ <<k, t>> \in N[j].stored
                         /\ <<u, x>> \in N[j].ballots \/ j = x
<1>1. PICK Q \in Quora : \A j \in Q : <<k, t>> \in N[j].stored \/ TermOf(N, j) <= t
  BY DEF Choosable
<1>2. u \in Nat /\ \A j \in Node : TermOf(N, j) \in Nat
  BY NodeFacts
<1>3. Q \in SUBSET Node /\ Majority(Q)
  BY DEF Quora
<1>4. CASE FixedLeader = Nil
  <2> DEFINE T == {j \in Node : <<u, x>> \in N[j].ballots}
  <2>1. Majority(T) /\ T \in SUBSET Node
    BY <1>4 DEF Good, Elected
  <2> HIDE DEF T
  <2>2. PICK j \in Node : j \in Q /\ j \in T
    BY <1>3, <2>1, MajoritiesMeet
  <2>3. <<u, x>> \in N[j].ballots
    BY <2>2 DEF T
  <2>4. u <= TermOf(N, j)
    BY <1>2, <2>3 DEF Good, Elected
  <2>5. ~(TermOf(N, j) <= t)
    BY <1>2, <2>4
  <2> QED BY <1>1, <2>2, <2>3, <2>4, <2>5
<1>5. CASE FixedLeader # Nil
  <2>1. x = FixedLeader /\ x \in Q
    BY <1>5 DEF Good, Elected, Quora
  <2>2. u <= TermOf(N, x)
    BY DEF Good, LogInv, Reigning
  <2>3. ~(TermOf(N, x) <= t)
    BY <1>2, <2>2
  <2> QED BY <1>1, <2>1, <2>2, <2>3
<1> QED BY <1>4, <1>5

(* What is chosen is choosable, and somebody holds it. *)
LEMMA ChosenHeld ==
  ASSUME NEW N, NEW A, Good(N, A), Stays(N), NEW k \in Nat, NEW t \in Nat, Chosen(N, k, t)
  PROVE  /\ Choosable(N, k, t)
         /\ \E j \in Node : <<k, t>> \in N[j].stored /\ Holds(LogOf(N, j), k, t)
<1>1. PICK Q \in Quora : \A j \in Q : <<k, t>> \in N[j].stored
  BY DEF Chosen
<1>2. Choosable(N, k, t)
  BY <1>1 DEF Choosable
<1>3. Q \in SUBSET Node /\ Majority(Q)
  BY DEF Quora
<1>4. PICK j \in Node : j \in Q
  <2>1. Q \cap Q # {}
    BY <1>3, MajoritiesMeet
  <2> QED BY <1>3, <2>1
<1> QED BY <1>1, <1>2, <1>4 DEF Stays

(* A store in which m replaces what is new keeps any prefix with which m     *)
(* agrees as far as it goes.                                                 *)
LEMMA ReplaceKeeps ==
  ASSUME NEW L \in Seq(Entry), NEW K \in Seq(Entry), NEW m, m.whole \in Seq(Entry),
         m.prev \in Nat, NEW f \in Nat, Replaces(L, K, m, f),
         NEW c \in Nat, c <= Len(L),
         \A x \in 1 .. c : x <= Len(m.whole) => m.whole[x] = L[x]
  PROVE  c <= Len(K) /\ Alike(K, L, c) /\ (f <= Len(m.whole) => c < f)
<1> DEFINE W == m.whole
           ll == Len(L)
           lw == Len(W)
<1>1. ll \in Nat /\ lw \in Nat /\ c <= ll
  OBVIOUS
<1>2. CASE f = lw + 1
  <2>1. K = L
    BY <1>2 DEF Replaces
  <2> QED BY <1>1, <1>2, <2>1 DEF Alike
<1>3. CASE f # lw + 1
  <2>1. f <= lw + 1 /\ m.prev < f
    BY DEF Replaces
  <2>2. f <= lw /\ 1 <= f
    <3> HIDE DEF lw
    <3> QED BY <1>1, <1>3, <2>1
  <2>3. /\ f = ll + 1 \/ TermAt(L, f) # TermAt(W, f)
        /\ Len(K) = lw /\ Alike(K, L, f - 1)
    BY <2>2 DEF Replaces
  <2>4. c < f
    <3>1. CASE f <= c
      <4>1. f \in 1 .. c /\ f # ll + 1 /\ f # 0
        <5> HIDE DEF ll
        <5> QED BY <1>1, <2>2, <3>1
      <4>2. W[f] = L[f]
        BY <2>2, <4>1
      <4> QED BY <2>3, <4>1, <4>2 DEF TermAt
    <3> QED BY <3>1
  <2>5. c <= Len(K) /\ \A x \in 1 .. c : x \in 1 .. f - 1
    <3> HIDE DEF lw
    <3> QED BY <1>1, <2>2, <2>3, <2>4
  <2> QED BY <2>3, <2>4, <2>5 DEF Alike
<1> QED BY <1>2, <1>3

-----------------------------------------------------------------------------
(* The steps of the nodes N to the nodes M. *)

(* Terms grow, and an entry is stored while in its term. *)
Moved(N, M) ==
  \A j \in Node :
    /\ TermOf(N, j) <= TermOf(M, j) /\ N[j].stored \subseteq M[j].stored
    /\ \A k, t \in Nat : <<k, t>> \in M[j].stored =>
         <<k, t>> \in N[j].stored \/ t = TermOf(M, j)

(* Nothing becomes choosable. *)
LEMMA ChoosableBack ==
  ASSUME NEW N, NEW M, NEW A, NEW B, Good(N, A), Good(M, B), Moved(N, M),
         NEW k \in Nat, NEW t \in Nat, Choosable(M, k, t)
  PROVE  Choosable(N, k, t)
<1>1. PICK Q \in Quora : \A j \in Q : <<k, t>> \in M[j].stored \/ TermOf(M, j) <= t
  BY DEF Choosable
<1>2. ASSUME NEW j \in Q PROVE <<k, t>> \in N[j].stored \/ TermOf(N, j) <= t
  <2>1. j \in Node
    BY DEF Quora
  <2>2. TermOf(N, j) \in Nat /\ TermOf(M, j) \in Nat
    BY <2>1, NodeFacts
  <2> QED BY <1>1, <2>1, <2>2 DEF Moved
<1> QED BY <1>2 DEF Choosable

(* Nothing chosen is lost. *)
LEMMA ChosenOn ==
  ASSUME NEW N, NEW M, Moved(N, M), NEW k, NEW t, Chosen(N, k, t)
  PROVE  Chosen(M, k, t)
<1>1. PICK Q \in Quora : \A j \in Q : <<k, t>> \in N[j].stored
  BY DEF Chosen
<1>2. \A j \in Q : j \in Node
  BY DEF Quora
<1>3. \A j \in Q : <<k, t>> \in M[j].stored
  BY <1>1, <1>2 DEF Moved
<1> QED BY <1>3 DEF Chosen

(* Nobody writes to a log. *)
Still(N, M) ==
  \A j \in Node : /\ LogOf(M, j) = LogOf(N, j) /\ M[j].stored = N[j].stored
                  /\ TermOf(N, j) <= TermOf(M, j)

(* Nobody writes to a log or becomes a candidate; votes are for requests in  *)
(* V that are not behind the voter's log.                                    *)
Granting(N, M, V) ==
  /\ Still(N, M)
  /\ \A j \in Node : M[j].role = "candidate" =>
       N[j].role = "candidate" /\ TermOf(M, j) = TermOf(N, j)
  /\ \A i, j \in Node : \A t \in Nat : <<t, i>> \in M[j].ballots =>
       \/ <<t, i>> \in N[j].ballots
       \/ \E m \in V : m.from = i /\ m.term = t /\ NotAhead(LogOf(N, j), m)

(* Node i becomes a candidate in a later term, and asks for votes. *)
Ran(N, M, V, U, i) ==
  /\ Still(N, M) /\ TermOf(N, i) < TermOf(M, i)
  /\ \A j \in Node \ {i} : M[j] = N[j]
  /\ M[i].role = "candidate"
  /\ M[i].ballots = N[i].ballots \cup {<<TermOf(M, i), i>>}
  /\ \A m \in U :
       \/ m \in V
       \/ /\ m \in VoteRequest /\ m.from = i /\ m.term = TermOf(M, i)
          /\ m.lastIndex = Len(LogOf(M, i))
          /\ m.lastTerm = TermAt(LogOf(M, i), Len(LogOf(M, i)))

(* Node i appends to its log as the leader of its term, or of a new one. *)
Grown(N, M, A, B, i) ==
  /\ Extended(N, M, A, B, i)
  /\ M[i].stored = N[i].stored \cup {<<Len(LogOf(M, i)), TermOf(M, i)>>}
  /\ \/ M[i].ballots = N[i].ballots /\ N[i].role \in {"candidate", "leader"}
     \/ /\ TermOf(N, i) < TermOf(M, i)
        /\ M[i].ballots \in SUBSET (N[i].ballots \cup {<<TermOf(M, i), i>>})
  /\ N[i].role = "leader" => TermOf(M, i) = TermOf(N, i)

(* Follower i stores what is new in m. *)
Taken(N, M, A, B, i, m) ==
  /\ B \in SUBSET A /\ m \in A
  /\ \A j \in Node \ {i} : M[j] = N[j]
  /\ TermOf(N, i) <= m.term /\ TermOf(M, i) = m.term
  /\ M[i].role = "follower" /\ M[i].ballots = N[i].ballots
  /\ \E f \in Nat :
       /\ Replaces(LogOf(N, i), LogOf(M, i), m, f)
       /\ f <= Len(m.whole) => N[i].disk.commit < f
       /\ M[i].stored = N[i].stored \cup
            {<<k, m.term>> : k \in {x \in f .. Len(m.whole) : m.whole[x].term = m.term}}

(* Where no log is written, what is true of logs and stores stays true. *)
LEMMA StillSafe ==
  ASSUME NEW N, NEW M, NEW A, NEW B, Good(N, A), Good(M, B), B \in SUBSET A,
         Still(N, M), Kept(N), Inherited(N, A), Heeded(N, A), Stays(N)
  PROVE  Moved(N, M) /\ Kept(M) /\ Inherited(M, B) /\ Heeded(M, B) /\ Stays(M)
<1>1. Moved(N, M)
  BY DEF Still, Moved
<1>2. \A s \in Logs(M, B) : s \in Logs(N, A)
  BY DEF Still, Logs
<1>3. ASSUME NEW k \in Nat, NEW t \in Nat, Choosable(M, k, t) PROVE Choosable(N, k, t)
  BY <1>1, <1>3, ChoosableBack
<1>4. Kept(M)
  <2> SUFFICES ASSUME NEW j \in Node
               PROVE  /\ \A k, t \in Nat : <<k, t>> \in M[j].stored => t <= TermOf(M, j)
                      /\ \A k \in 1 .. Len(LogOf(M, j)) : LogOf(M, j)[k].term = TermOf(M, j)
                            => <<k, TermOf(M, j)>> \in M[j].stored
    BY DEF Kept
  <2>1. /\ LogOf(M, j) = LogOf(N, j) /\ M[j].stored = N[j].stored
        /\ TermOf(N, j) <= TermOf(M, j) /\ TermOf(N, j) \in Nat /\ TermOf(M, j) \in Nat
    BY NodeFacts DEF Still
  <2>2. \A k, t \in Nat : <<k, t>> \in M[j].stored => t <= TermOf(M, j)
    BY <2>1 DEF Kept
  <2>3. ASSUME NEW k \in 1 .. Len(LogOf(M, j)), LogOf(M, j)[k].term = TermOf(M, j)
        PROVE  <<k, TermOf(M, j)>> \in M[j].stored
    <3>1. LogOf(N, j)[k].term <= TermOf(N, j)
      BY <2>1, NodeFacts DEF Ordered
    <3>2. TermOf(M, j) = TermOf(N, j)
      BY <2>1, <2>3, <3>1
    <3> QED BY <2>1, <2>3, <3>2 DEF Kept
  <2> QED BY <2>2, <2>3
<1>5. Inherited(M, B)
  BY <1>2, <1>3 DEF Inherited
<1>6. Heeded(M, B)
  BY <1>2, <1>3 DEF Heeded
<1>7. Stays(M)
  BY <1>3 DEF Stays, Still
<1> QED BY <1>1, <1>4, <1>5, <1>6, <1>7

(* A vote is granted only to a candidate whose log holds what is choosable   *)
(* and the voter stored.                                                     *)
LEMMA GrantingSafe ==
  ASSUME NEW N, NEW M, NEW A, NEW B, NEW V, NEW U, Good(N, A), Good(M, B),
         B \in SUBSET A, U \in SUBSET V, SafeInv(N, A, V), Granting(N, M, V)
  PROVE  SafeInv(M, B, U) /\ Moved(N, M)
<1>1. Moved(N, M) /\ Kept(M) /\ Inherited(M, B) /\ Heeded(M, B) /\ Stays(M)
  BY StillSafe DEF SafeInv, Granting
<1>2. \A j \in Node : /\ TermOf(N, j) \in Nat /\ TermOf(M, j) \in Nat
                      /\ TermOf(N, j) <= TermOf(M, j) /\ LogOf(M, j) = LogOf(N, j)
                      /\ M[j].stored = N[j].stored
  BY NodeFacts DEF Granting, Still
<1>3. ASSUME NEW m \in V PROVE m.from \in Node /\ m.term \in Nat /\ m.term <= TermOf(N, m.from)
  BY DEF SafeInv, Asking, VoteRequest
<1>4. Behind(M)
  <2> SUFFICES ASSUME NEW i \in Node, NEW j \in Node, NEW t \in Nat, <<t, i>> \in M[j].ballots
               PROVE  t <= TermOf(N, i)
    BY <1>2 DEF Behind
  <2> QED BY <1>3 DEF Granting, SafeInv, Behind
<1>5. Asking(M, U)
  <2> SUFFICES ASSUME NEW m \in U
               PROVE  /\ m \in VoteRequest /\ m.term <= TermOf(M, m.from)
                      /\ M[m.from].role = "candidate" /\ TermOf(M, m.from) = m.term =>
                           /\ m.lastIndex = Len(LogOf(M, m.from))
                           /\ m.lastTerm = TermAt(LogOf(M, m.from), Len(LogOf(M, m.from)))
    BY DEF Asking
  <2>1. m \in V
    OBVIOUS
  <2> QED BY <1>2, <1>3, <2>1 DEF Granting, SafeInv, Asking
<1>6. Backed(M)
  <2> SUFFICES ASSUME NEW k \in Nat, NEW t \in Nat, Choosable(M, k, t),
                      NEW i \in Node, NEW j \in Node, M[i].role = "candidate",
                      t < TermOf(M, i), <<TermOf(M, i), i>> \in M[j].ballots,
                      <<k, t>> \in M[j].stored
               PROVE  Holds(LogOf(M, i), k, t)
    BY DEF Backed
  <2> DEFINE L == LogOf(N, i)
             J == LogOf(N, j)
             T == TermOf(N, i)
  <2>1. /\ N[i].role = "candidate" /\ TermOf(M, i) = T /\ LogOf(M, i) = L
        /\ <<k, t>> \in N[j].stored /\ t < T
    BY <1>2 DEF Granting
  <2>2. Choosable(N, k, t)
    BY <1>1, ChoosableBack
  <2>3. CASE <<T, i>> \in N[j].ballots
    BY <2>1, <2>2, <2>3 DEF SafeInv, Backed
  <2>4. ASSUME NEW m \in V, m.from = i, m.term = T, NotAhead(J, m)
        PROVE  Holds(L, k, t)
    <3>1. m.lastIndex = Len(L) /\ m.lastTerm = TermAt(L, Len(L))
      BY <2>1, <2>4 DEF SafeInv, Asking
    <3>2. Holds(J, k, t)
      BY <2>1, <2>2 DEF SafeInv, Stays
    <3>3. /\ L \in Logs(N, A) /\ J \in Logs(N, A) /\ Len(L) \in Nat /\ Len(J) \in Nat
      BY NodeFacts
    <3>4. \A x \in 1 .. Len(L) : t < L[x].term => Holds(L, k, t)
      BY <2>2, <3>3 DEF SafeInv, Inherited
    <3>5. /\ \A x \in 1 .. Len(L) : L[x].term \in Nat
          /\ \A x \in 1 .. Len(J) : J[x].term \in Nat
          /\ \A x \in 1 .. Len(J) : \A y \in x .. Len(J) : J[x].term <= J[y].term
      BY <3>3, SeqFacts
    <3> HIDE DEF L, J
    <3> DEFINE ll == Len(L)
               lj == Len(J)
    <3>6. /\ k \in 1 .. lj /\ lj \in 1 .. lj /\ lj \in k .. lj /\ lj # 0
      BY <3>2, <3>3 DEF Holds
    <3>7. t <= J[lj].term /\ TermAt(J, lj) = J[lj].term /\ J[lj].term \in Nat
      BY <3>2, <3>5, <3>6 DEF Holds, TermAt
    <3>8. \/ TermAt(L, ll) > TermAt(J, lj)
          \/ TermAt(L, ll) = TermAt(J, lj) /\ ll >= lj
      BY <2>4, <3>1 DEF NotAhead
    <3>9. CASE ll = 0
      <4>1. TermAt(L, ll) = 0
        BY <3>9 DEF TermAt
      <4> HIDE DEF ll
      <4> QED BY <3>3, <3>6, <3>7, <3>8, <3>9, <4>1 DEF lj
    <3>10. CASE ll # 0
      <4>1. ll \in 1 .. ll /\ TermAt(L, ll) = L[ll].term /\ L[ll].term \in Nat
        BY <3>3, <3>5, <3>10 DEF TermAt
      <4>2. CASE t < L[ll].term
        BY <3>4, <4>1, <4>2
      <4>3. CASE ~(t < L[ll].term)
        <5>1. L[ll].term = t /\ J[k].term = t /\ ll >= lj
          BY <3>2, <3>7, <3>8, <4>1, <4>3 DEF Holds
        <5>2. ll \in k .. ll /\ k \in 1 .. ll
          BY <3>3, <3>6, <5>1
        <5>3. L[k].term = t
          BY <3>3, <3>6, <5>1, <5>2 DEF Good, LogInv, Contiguous
        <5> QED BY <5>2, <5>3 DEF Holds
      <4> QED BY <4>2, <4>3
    <3> QED BY <3>9, <3>10
  <2> HIDE DEF L, J, T
  <2>5. <<T, i>> \in M[j].ballots /\ T \in Nat
    BY <1>2, <2>1 DEF T
  <2> QED BY <2>1, <2>3, <2>4, <2>5 DEF Granting, J
<1> QED BY <1>1, <1>4, <1>5, <1>6 DEF SafeInv

(* A new candidate has no vote but its own, and holds what it stored. *)
LEMMA RanSafe ==
  ASSUME NEW N, NEW M, NEW A, NEW B, NEW V, NEW U, NEW i \in Node, Good(N, A), Good(M, B),
         B \in SUBSET A, SafeInv(N, A, V), Ran(N, M, V, U, i)
  PROVE  SafeInv(M, B, U) /\ Moved(N, M)
<1>1. Moved(N, M) /\ Kept(M) /\ Inherited(M, B) /\ Heeded(M, B) /\ Stays(M)
  BY StillSafe DEF SafeInv, Ran
<1>2. \A j \in Node : /\ TermOf(N, j) \in Nat /\ TermOf(M, j) \in Nat
                      /\ TermOf(N, j) <= TermOf(M, j) /\ LogOf(M, j) = LogOf(N, j)
                      /\ M[j].stored = N[j].stored
  BY NodeFacts DEF Ran, Still
<1>3. /\ TermOf(N, i) < TermOf(M, i) /\ \A j \in Node \ {i} : M[j] = N[j]
      /\ M[i].ballots = N[i].ballots \cup {<<TermOf(M, i), i>>}
  BY DEF Ran
<1>4. \A j \in Node \ {i} : TermOf(M, j) = TermOf(N, j)
  BY <1>3 DEF TermOf
<1>5. ASSUME NEW x \in Node, NEW j \in Node, NEW t \in Nat, <<t, x>> \in M[j].ballots
      PROVE  <<t, x>> \in N[j].ballots \/ (j = i /\ x = i /\ t = TermOf(M, i))
  BY <1>3, <1>5
<1>6. Behind(M)
  <2> SUFFICES ASSUME NEW x \in Node, NEW j \in Node, NEW t \in Nat, <<t, x>> \in M[j].ballots
               PROVE  t <= TermOf(M, x)
    BY DEF Behind
  <2> QED BY <1>2, <1>5 DEF SafeInv, Behind
<1>7. Asking(M, U)
  <2> SUFFICES ASSUME NEW m \in U
               PROVE  /\ m \in VoteRequest /\ m.term <= TermOf(M, m.from)
                      /\ M[m.from].role = "candidate" /\ TermOf(M, m.from) = m.term =>
                           /\ m.lastIndex = Len(LogOf(M, m.from))
                           /\ m.lastTerm = TermAt(LogOf(M, m.from), Len(LogOf(M, m.from)))
    BY DEF Asking
  <2>1. CASE m \in V
    <3>1. m \in VoteRequest /\ m.from \in Node /\ m.term \in Nat /\ m.term <= TermOf(N, m.from)
      BY <2>1 DEF SafeInv, Asking, VoteRequest
    <3>2. CASE m.from = i
      BY <1>2, <1>3, <3>1, <3>2
    <3>3. CASE m.from # i
      BY <1>2, <1>3, <1>4, <2>1, <3>1, <3>3 DEF SafeInv, Asking
    <3> QED BY <3>2, <3>3
  <2>2. CASE m \notin V
    BY <1>2, <2>2 DEF Ran
  <2> QED BY <2>1, <2>2
<1>8. Backed(M)
  <2> SUFFICES ASSUME NEW k \in Nat, NEW t \in Nat, Choosable(M, k, t),
                      NEW x \in Node, NEW j \in Node, M[x].role = "candidate",
                      t < TermOf(M, x), <<TermOf(M, x), x>> \in M[j].ballots,
                      <<k, t>> \in M[j].stored
               PROVE  Holds(LogOf(M, x), k, t)
    BY DEF Backed
  <2>1. Choosable(N, k, t) /\ <<k, t>> \in N[j].stored
    BY <1>1, <1>2, ChoosableBack
  <2>2. CASE x # i
    <3>1. /\ M[x] = N[x] /\ TermOf(M, x) = TermOf(N, x)
          /\ <<TermOf(N, x), x>> \in N[j].ballots
      BY <1>2, <1>3, <1>4, <1>5, <2>2
    <3> QED BY <1>2, <2>1, <3>1 DEF SafeInv, Backed
  <2>3. CASE x = i
    <3>1. ~(<<TermOf(M, i), i>> \in N[j].ballots)
      BY <1>2, <1>3 DEF SafeInv, Behind
    <3>2. j = i
      BY <1>2, <1>5, <2>3, <3>1
    <3> QED BY <1>1, <2>3, <3>2 DEF Stays
  <2> QED BY <2>2, <2>3
<1> QED BY <1>1, <1>6, <1>7, <1>8 DEF SafeInv

(* A leader holds what was choosable before its term: it has an entry of its *)
(* term already, or its voters stored it.                                    *)
LEMMA LeaderHolds ==
  ASSUME NEW N, NEW M, NEW A, NEW B, NEW V, NEW i \in Node, Good(N, A), Good(M, B),
         SafeInv(N, A, V), Moved(N, M), Grown(N, M, A, B, i),
         NEW k \in Nat, NEW t \in Nat, t < TermOf(M, i), Choosable(M, k, t)
  PROVE  Holds(LogOf(N, i), k, t)
<1> DEFINE T == TermOf(M, i)
<1>1. Choosable(N, k, t)
  BY ChoosableBack
<1>2. /\ T \in Nat /\ TermOf(N, i) \in Nat /\ LogOf(N, i) \in Logs(N, A)
      /\ Len(LogOf(N, i)) \in Nat
  BY NodeFacts
<1>3. CASE N[i].role = "leader"
  <2>1. TermOf(N, i) = T
    BY <1>3 DEF Grown
  <2>2. 0 < Len(LogOf(N, i)) /\ LogOf(N, i)[Len(LogOf(N, i))].term = T
    BY <1>3, <2>1 DEF Good, LogInv, Reigning
  <2>3. Len(LogOf(N, i)) \in 1 .. Len(LogOf(N, i))
    BY <1>2, <2>2
  <2> QED BY <1>1, <1>2, <2>2, <2>3 DEF SafeInv, Inherited
<1>4. CASE N[i].role # "leader"
  <2>1. T \in M[i].reigns
    BY DEF Grown, Extended
  <2>2. PICK j \in Node : /\ T <= TermOf(M, j) /\ <<k, t>> \in M[j].stored
                          /\ <<T, i>> \in M[j].ballots \/ j = i
    BY <2>1, LaterReign
  <2>3. \A x \in Node \ {i} : M[x] = N[x]
    BY DEF Grown, Extended
  <2>4. <<k, t>> \in N[j].stored
    <3>1. CASE j = i
      BY <3>1, <2>2 DEF Grown
    <3>2. CASE j # i
      BY <2>2, <2>3, <3>2
    <3> QED BY <3>1, <3>2
  <2>5. CASE j = i
    BY <1>1, <2>4, <2>5 DEF SafeInv, Stays
  <2>6. CASE j # i
    <3>1. <<T, i>> \in N[j].ballots
      BY <2>2, <2>3, <2>6
    <3>2. T <= TermOf(N, i)
      BY <1>2, <3>1 DEF SafeInv, Behind
    <3>3. TermOf(N, i) <= T
      BY DEF Moved
    <3>4. T = TermOf(N, i)
      BY <1>2, <3>2, <3>3
    <3>5. N[i].role = "candidate"
      BY <1>2, <1>4, <3>4 DEF Grown
    <3> QED BY <1>1, <2>4, <3>1, <3>4, <3>5 DEF SafeInv, Backed
  <2> QED BY <2>5, <2>6
<1> QED BY <1>3, <1>4

(* A leader's new entry is not in anybody's log or store. *)
LEMMA FreshStored ==
  ASSUME NEW N, NEW M, NEW A, NEW B, NEW V, NEW i \in Node, Good(N, A), Good(M, B),
         SafeInv(N, A, V), Grown(N, M, A, B, i), NEW j \in Node,
         Choosable(N, Len(LogOf(M, i)), TermOf(M, i))
  PROVE  <<Len(LogOf(M, i)), TermOf(M, i)>> \notin N[j].stored
<1> DEFINE L == LogOf(N, i)
           K == LogOf(M, i)
           T == TermOf(M, i)
<1>1. Sane(N, A) /\ LogInv(N, A) /\ OneReign(M) /\ Extended(N, M, A, B, i)
  BY DEF Good, Elected, Grown
<1>2. Len(K) = Len(L) + 1 /\ Len(L) \in Nat /\ T \in Nat /\ Len(K) \in Nat
  BY NodeFacts DEF Grown, Extended, Longer
<1>3. LogOf(N, j) \in Logs(N, A)
  BY NodeFacts
<1>4. SUFFICES ASSUME <<Len(K), T>> \in N[j].stored PROVE FALSE
  OBVIOUS
<1>5. Holds(LogOf(N, j), Len(K), T)
  BY <1>2, <1>4 DEF SafeInv, Stays
<1>6. Has(L, Len(K), T)
  BY <1>1, <1>3, <1>5, FreshEntry DEF Holds
<1> QED BY <1>2, <1>6 DEF Has

(* A leader's new entry changes nothing for what was choosable. *)
LEMMA GrownSafe ==
  ASSUME NEW N, NEW M, NEW A, NEW B, NEW V, NEW U, NEW i \in Node, Good(N, A), Good(M, B),
         U \in SUBSET V, SafeInv(N, A, V), Grown(N, M, A, B, i)
  PROVE  SafeInv(M, B, U) /\ Moved(N, M)
<1> DEFINE L == LogOf(N, i)
           K == LogOf(M, i)
           T == TermOf(M, i)
           len == Len(L)
<1>1. /\ Extended(N, M, A, B, i) /\ \A j \in Node \ {i} : M[j] = N[j]
      /\ M[i].stored = N[i].stored \cup {<<Len(K), T>>} /\ M[i].role = "leader"
      /\ B \in SUBSET A /\ T \in M[i].reigns /\ TermOf(N, i) <= T
  BY DEF Grown, Extended
<1>2. \A j \in Node : /\ TermOf(N, j) \in Nat /\ TermOf(M, j) \in Nat
                      /\ Len(LogOf(N, j)) \in Nat /\ Len(LogOf(M, j)) \in Nat
                      /\ LogOf(N, j) \in Logs(N, A)
  BY NodeFacts
<1>3. \A j \in Node \ {i} : /\ TermOf(M, j) = TermOf(N, j) /\ LogOf(M, j) = LogOf(N, j)
  BY <1>1 DEF TermOf, LogOf
<1>4. /\ len \in Nat /\ Len(K) = len + 1 /\ K[len + 1].term = T
      /\ \A x \in 1 .. len : K[x] = L[x]
  BY <1>1, <1>2 DEF Extended, Longer, Alike
<1>5. \A s \in Logs(M, B) : s \in Logs(N, A) \/ s = K
  BY <1>1, <1>3 DEF Logs
<1>6. Moved(N, M)
  <2>1. ASSUME NEW j \in Node
        PROVE  /\ TermOf(N, j) <= TermOf(M, j) /\ N[j].stored \subseteq M[j].stored
               /\ \A k, t \in Nat : <<k, t>> \in M[j].stored =>
                    <<k, t>> \in N[j].stored \/ t = TermOf(M, j)
    <3>1. CASE j = i
      BY <1>1, <3>1
    <3>2. CASE j # i
      BY <1>1, <1>2, <1>3, <3>2
    <3> QED BY <3>1, <3>2
  <2> QED BY <2>1 DEF Moved
<1>7. ASSUME NEW k \in Nat, NEW t \in Nat, Choosable(M, k, t) PROVE Choosable(N, k, t)
  BY <1>6, <1>7, ChoosableBack
<1> HIDE DEF L, K, T, len
<1>8. ASSUME NEW k, NEW t, Holds(L, k, t) PROVE Holds(K, k, t)
  BY <1>4, <1>8 DEF Holds, len
<1>9. \A x \in 1 .. Len(K) : (x \in 1 .. len /\ x \in 1 .. Len(L) /\ K[x] = L[x]) \/ x = len + 1
  BY <1>4 DEF len
<1>10. L \in Logs(N, A) /\ L = LogOf(N, i) /\ K = LogOf(M, i) /\ T = TermOf(M, i) /\ T \in Nat
  BY <1>2 DEF L, K, T
<1>11. Kept(M)
  <2> SUFFICES ASSUME NEW j \in Node
               PROVE  /\ \A k, t \in Nat : <<k, t>> \in M[j].stored => t <= TermOf(M, j)
                      /\ \A k \in 1 .. Len(LogOf(M, j)) : LogOf(M, j)[k].term = TermOf(M, j)
                            => <<k, TermOf(M, j)>> \in M[j].stored
    BY DEF Kept
  <2>1. CASE j # i
    BY <1>1, <1>3, <2>1 DEF SafeInv, Kept
  <2>2. CASE j = i
    <3>1. \A k, t \in Nat : <<k, t>> \in N[i].stored => t <= TermOf(N, i)
      BY DEF SafeInv, Kept
    <3>2. \A k, t \in Nat : <<k, t>> \in M[i].stored => t <= T
      BY <1>1, <1>2, <1>10, <3>1
    <3>3. ASSUME NEW k \in 1 .. Len(K), K[k].term = T PROVE <<k, T>> \in M[i].stored
      <4>1. CASE k = len + 1
        BY <1>1, <1>4, <4>1
      <4>2. CASE k # len + 1
        <5>1. k \in 1 .. Len(L) /\ L[k].term = T
          BY <1>9, <3>3, <4>2
        <5>2. L[k].term <= TermOf(N, i)
          BY <1>10, <5>1, NodeFacts DEF Ordered
        <5>3. TermOf(N, i) = T
          BY <1>1, <1>2, <1>10, <5>1, <5>2
        <5>4. <<k, T>> \in N[i].stored
          BY <1>10, <5>1, <5>3 DEF SafeInv, Kept
        <5> QED BY <1>1, <5>4
      <4> QED BY <4>1, <4>2
    <3> QED BY <1>10, <2>2, <3>2, <3>3
  <2> QED BY <2>1, <2>2
<1>12. Behind(M)
  <2> SUFFICES ASSUME NEW x \in Node, NEW j \in Node, NEW t \in Nat, <<t, x>> \in M[j].ballots
               PROVE  t <= TermOf(M, x)
    BY DEF Behind
  <2>1. <<t, x>> \in N[j].ballots \/ (x = i /\ t = T)
    <3>1. CASE j = i
      BY <1>10, <3>1 DEF Grown
    <3>2. CASE j # i
      BY <1>1, <3>2
    <3> QED BY <3>1, <3>2
  <2>2. <<t, x>> \in N[j].ballots => t <= TermOf(N, x)
    BY DEF SafeInv, Behind
  <2>3. TermOf(N, x) <= TermOf(M, x)
    BY <1>6 DEF Moved
  <2> QED BY <1>2, <1>10, <2>1, <2>2, <2>3
<1>13. Asking(M, U)
  <2> SUFFICES ASSUME NEW m \in U
               PROVE  /\ m \in VoteRequest /\ m.term <= TermOf(M, m.from)
                      /\ M[m.from].role = "candidate" /\ TermOf(M, m.from) = m.term =>
                           /\ m.lastIndex = Len(LogOf(M, m.from))
                           /\ m.lastTerm = TermAt(LogOf(M, m.from), Len(LogOf(M, m.from)))
    BY DEF Asking
  <2>1. m \in V /\ m \in VoteRequest /\ m.from \in Node /\ m.term \in Nat
        /\ m.term <= TermOf(N, m.from)
    BY DEF SafeInv, Asking, VoteRequest
  <2>2. TermOf(N, m.from) <= TermOf(M, m.from)
    BY <1>6, <2>1 DEF Moved
  <2>3. CASE m.from = i
    BY <1>1, <1>2, <2>1, <2>2, <2>3
  <2>4. CASE m.from # i
    BY <1>1, <1>3, <2>1, <2>4 DEF SafeInv, Asking
  <2> QED BY <2>3, <2>4
<1>14. Inherited(M, B)
  <2> SUFFICES ASSUME NEW k \in Nat, NEW t \in Nat, Choosable(M, k, t), NEW s \in Logs(M, B),
                      NEW x \in 1 .. Len(s), t < s[x].term
               PROVE  Holds(s, k, t)
    BY DEF Inherited
  <2>1. CASE s \in Logs(N, A)
    BY <1>7, <2>1 DEF SafeInv, Inherited
  <2>2. CASE s = K
    <3>1. CASE x = len + 1
      <4>1. t < T
        BY <1>4, <2>2, <3>1
      <4>2. Holds(L, k, t)
        BY <1>6, <1>10, <4>1, LeaderHolds
      <4> QED BY <1>8, <2>2, <4>2
    <3>2. CASE x # len + 1
      <4>1. x \in 1 .. Len(L) /\ t < L[x].term
        BY <1>9, <2>2, <3>2
      <4>2. Holds(L, k, t)
        BY <1>7, <1>10, <4>1 DEF SafeInv, Inherited
      <4> QED BY <1>8, <2>2, <4>2
    <3> QED BY <3>1, <3>2
  <2> QED BY <1>5, <2>1, <2>2
<1>15. ASSUME NEW k \in Nat, NEW t \in Nat, Choosable(M, k, t), NEW s \in Logs(M, B),
              Holds(s, k, t), k # len + 1 \/ s # K
       PROVE  \E u \in Logs(N, A) : Holds(u, k, t) /\ Alike(s, u, k)
  <2>1. CASE s \in Logs(N, A)
    BY <1>15, <2>1 DEF Alike
  <2>2. CASE s = K
    <3>1. k \in 1 .. len /\ k \in 1 .. Len(L) /\ K[k] = L[k]
      BY <1>9, <1>15, <2>2 DEF Holds
    <3>2. Holds(L, k, t)
      BY <1>15, <2>2, <3>1 DEF Holds
    <3>3. Alike(K, L, k)
      <4>1. \A x \in 1 .. k : x \in 1 .. len
        BY <1>4, <3>1
      <4> QED BY <1>4, <4>1 DEF Alike
    <3> QED BY <1>10, <2>2, <3>2, <3>3
  <2> QED BY <1>5, <2>1, <2>2
<1>16. Heeded(M, B)
  <2> SUFFICES ASSUME NEW k \in Nat, NEW t \in Nat, Choosable(M, k, t), NEW m \in B,
                      t < m.term, NEW s \in Logs(M, B), Holds(s, k, t)
               PROVE  \A x \in 1 .. k : x <= Len(m.whole) => m.whole[x] = s[x]
    BY DEF Heeded
  <2>1. CASE k # len + 1 \/ s # K
    <3>1. PICK u \in Logs(N, A) : Holds(u, k, t) /\ Alike(s, u, k)
      BY <1>15, <2>1
    <3>2. \A x \in 1 .. k : x <= Len(m.whole) => m.whole[x] = u[x]
      BY <1>1, <1>7, <3>1 DEF SafeInv, Heeded
    <3> QED BY <3>1, <3>2 DEF Alike
  <2>2. CASE k = len + 1 /\ s = K
    <3>1. t = T /\ k = Len(K)
      BY <1>4, <2>2 DEF Holds
    <3>2. m.from \in Node /\ m.term \in Nat /\ m.term \in M[m.from].reigns
      BY RequestFacts DEF Good, LogInv, AppendsLed
    <3>3. PICK j \in Node : m.term <= TermOf(M, j) /\ <<k, t>> \in M[j].stored
      BY <3>2, LaterReign
    <3>4. j # i
      BY <1>2, <1>10, <3>1, <3>2, <3>3
    <3>5. <<Len(K), T>> \in N[j].stored
      BY <1>1, <3>1, <3>3, <3>4
    <3>6. Choosable(N, Len(K), T)
      BY <1>7, <3>1
    <3> QED BY <1>10, <3>5, <3>6, FreshStored
  <2> QED BY <2>1, <2>2
<1>17. Stays(M)
  <2> SUFFICES ASSUME NEW k \in Nat, NEW t \in Nat, Choosable(M, k, t), NEW j \in Node,
                      <<k, t>> \in M[j].stored
               PROVE  Holds(LogOf(M, j), k, t)
    BY DEF Stays
  <2>1. CASE j # i
    BY <1>1, <1>3, <1>7, <2>1 DEF SafeInv, Stays
  <2>2. CASE j = i
    <3>1. CASE <<k, t>> \in N[i].stored
      <4>1. Holds(L, k, t)
        BY <1>7, <1>10, <3>1 DEF SafeInv, Stays
      <4> QED BY <1>8, <1>10, <2>2, <4>1
    <3>2. CASE <<k, t>> \notin N[i].stored
      <4>1. k = Len(K) /\ t = T
        BY <1>1, <2>2, <3>2 DEF K, T
      <4>2. k \in 1 .. Len(K) /\ K[k].term = t
        BY <1>4, <4>1
      <4> QED BY <1>10, <2>2, <4>2 DEF Holds
    <3> QED BY <3>1, <3>2
  <2> QED BY <2>1, <2>2
<1>18. Backed(M)
  <2> SUFFICES ASSUME NEW k \in Nat, NEW t \in Nat, Choosable(M, k, t),
                      NEW x \in Node, NEW j \in Node, M[x].role = "candidate",
                      t < TermOf(M, x), <<TermOf(M, x), x>> \in M[j].ballots,
                      <<k, t>> \in M[j].stored
               PROVE  Holds(LogOf(M, x), k, t)
    BY DEF Backed
  <2>1. x # i /\ M[x] = N[x] /\ TermOf(M, x) = TermOf(N, x) /\ LogOf(M, x) = LogOf(N, x)
    BY <1>1, <1>3
  <2>2. Choosable(N, k, t)
    BY <1>7
  <2>3. CASE j # i
    BY <1>1, <2>1, <2>2, <2>3 DEF SafeInv, Backed
  <2>4. CASE j = i
    <3>1. TermOf(M, x) <= T
      BY <1>2, <1>10, <2>4 DEF Good, Elected
    <3>2. <<k, t>> \in N[i].stored
      BY <1>1, <1>2, <1>10, <2>4, <3>1
    <3>3. <<TermOf(N, x), x>> \in N[i].ballots
      BY <2>1, <2>4 DEF Grown
    <3> QED BY <2>1, <2>2, <3>2, <3>3 DEF SafeInv, Backed
  <2> QED BY <2>3, <2>4
<1> QED BY <1>6, <1>11, <1>12, <1>13, <1>14, <1>16, <1>17, <1>18 DEF SafeInv

(* A request agrees with whatever a log holds that was choosable in the       *)
(* request's term or before.                                                  *)
LEMMA RequestAgrees ==
  ASSUME NEW N, NEW A, Good(N, A), Heeded(N, A), NEW m \in A, NEW s \in Logs(N, A),
         NEW k \in Nat, NEW t \in Nat, Choosable(N, k, t), Holds(s, k, t), t <= m.term
  PROVE  \A x \in 1 .. k : x <= Len(m.whole) => m.whole[x] = s[x]
<1>1. m.term \in Nat /\ m.whole \in Logs(N, A) /\ Len(m.whole) \in Nat /\ Len(s) \in Nat
  BY RequestFacts, SeqFacts
<1>2. CASE t < m.term
  BY <1>2 DEF Heeded
<1>3. CASE t = m.term
  <2>1. Has(m.whole, k, m.term) \/ (Len(m.whole) < k /\ Begins(m.whole, s))
    BY <1>3 DEF Good, LogInv, TermLogs, Holds
  <2>2. CASE Has(m.whole, k, m.term)
    <3>1. k \in 1 .. Len(s) /\ k <= Len(m.whole) /\ s[k].term = m.whole[k].term
      BY <1>3, <2>2 DEF Has, Holds
    <3>2. Alike(s, m.whole, k)
      BY <1>1, <3>1 DEF Good, LogInv, Matching
    <3> QED BY <3>2 DEF Alike
  <2>3. CASE Begins(m.whole, s)
    <3>1. \A x \in 1 .. k : x <= Len(m.whole) => x \in 1 .. Len(m.whole)
      BY <1>1
    <3> QED BY <2>3, <3>1 DEF Begins, Alike
  <2> QED BY <2>1, <2>2, <2>3
<1> QED BY <1>1, <1>2, <1>3

(* A follower that stores a request keeps what was choosable and it stored.   *)
LEMMA TakenSafe ==
  ASSUME NEW N, NEW M, NEW A, NEW B, NEW V, NEW U, NEW i \in Node, NEW m,
         Good(N, A), Good(M, B), U \in SUBSET V, SafeInv(N, A, V), Taken(N, M, A, B, i, m)
  PROVE  SafeInv(M, B, U) /\ Moved(N, M)
<1> DEFINE L == LogOf(N, i)
           K == LogOf(M, i)
           W == m.whole
           T == m.term
           lw == Len(W)
<1>1. PICK f \in Nat :
        /\ Replaces(L, K, m, f)
        /\ M[i].stored = N[i].stored \cup
             {<<k, T>> : k \in {x \in f .. lw : W[x].term = T}}
  BY DEF Taken
<1>2. /\ B \in SUBSET A /\ m \in A /\ \A j \in Node \ {i} : M[j] = N[j]
      /\ TermOf(N, i) <= T /\ TermOf(M, i) = T
      /\ M[i].role = "follower" /\ M[i].ballots = N[i].ballots
  BY DEF Taken
<1>3. \A j \in Node : /\ TermOf(N, j) \in Nat /\ TermOf(M, j) \in Nat
                      /\ LogOf(N, j) \in Logs(N, A)
  BY NodeFacts
<1>4. /\ L \in Seq(Entry) /\ K \in Seq(Entry) /\ W \in Seq(Entry) /\ m.prev \in Nat
      /\ W \in Logs(N, A) /\ L \in Logs(N, A) /\ T \in Nat /\ lw \in Nat
      /\ Len(L) \in Nat /\ Len(K) \in Nat
  BY <1>2, NodeFacts, RequestFacts
<1>5. \A j \in Node \ {i} : TermOf(M, j) = TermOf(N, j) /\ LogOf(M, j) = LogOf(N, j)
  BY <1>2 DEF TermOf, LogOf
<1>6. K = L \/ K = W
  <2>1. \A k \in 1 .. Len(L) : k <= Len(W) /\ L[k].term = W[k].term => Alike(L, W, k)
    BY <1>4 DEF Good, LogInv, Matching
  <2> HIDE DEF L, K
  <2> QED BY <1>1, <1>4, <2>1, ReplacedLog
<1>7. \A s \in Logs(M, B) : s \in Logs(N, A)
  BY <1>2, <1>4, <1>5, <1>6 DEF Logs
<1>8. /\ f <= lw + 1 /\ 0 < f /\ f <= Len(L) + 1
      /\ f = lw + 1 => K = L
      /\ f <= lw => /\ Len(K) = lw /\ \A x \in 1 .. f - 1 : K[x] = L[x]
                    /\ \A x \in f .. lw : K[x] = W[x]
  BY <1>1, <1>4 DEF Replaces, Alike
<1>9. Moved(N, M)
  <2>1. ASSUME NEW j \in Node
        PROVE  /\ TermOf(N, j) <= TermOf(M, j) /\ N[j].stored \subseteq M[j].stored
               /\ \A k, t \in Nat : <<k, t>> \in M[j].stored =>
                    <<k, t>> \in N[j].stored \/ t = TermOf(M, j)
    <3>1. CASE j = i
      BY <1>1, <1>2, <3>1
    <3>2. CASE j # i
      BY <1>2, <1>3, <1>5, <3>2
    <3> QED BY <3>1, <3>2
  <2> QED BY <2>1 DEF Moved
<1>10. ASSUME NEW k \in Nat, NEW t \in Nat, Choosable(M, k, t) PROVE Choosable(N, k, t)
  BY <1>9, <1>10, ChoosableBack
<1>11. Inherited(M, B) /\ Heeded(M, B)
  BY <1>2, <1>7, <1>10 DEF SafeInv, Inherited, Heeded
<1>12. ASSUME NEW k \in Nat, NEW t \in Nat, <<k, t>> \in M[i].stored, <<k, t>> \notin N[i].stored
       PROVE  t = T /\ k \in f .. lw /\ W[k].term = T
  BY <1>1, <1>12
<1>13. ASSUME NEW k \in f .. lw PROVE k \in 1 .. Len(K) /\ K[k] = W[k]
  <2> HIDE DEF lw, K
  <2>1. f <= lw /\ k \in 1 .. lw
    BY <1>4, <1>8
  <2> QED BY <1>8, <2>1
<1> HIDE DEF L, K, W, T, lw
<1>14. Kept(M)
  <2> SUFFICES ASSUME NEW j \in Node
               PROVE  /\ \A k, t \in Nat : <<k, t>> \in M[j].stored => t <= TermOf(M, j)
                      /\ \A k \in 1 .. Len(LogOf(M, j)) : LogOf(M, j)[k].term = TermOf(M, j)
                            => <<k, TermOf(M, j)>> \in M[j].stored
    BY DEF Kept
  <2>1. CASE j # i
    BY <1>2, <1>5, <2>1 DEF SafeInv, Kept
  <2>2. CASE j = i
    <3>1. \A k, t \in Nat : <<k, t>> \in N[i].stored => t <= TermOf(N, i)
      BY DEF SafeInv, Kept
    <3>2. ASSUME NEW k \in Nat, NEW t \in Nat, <<k, t>> \in M[i].stored PROVE t <= T
      <4>1. TermOf(N, i) \in Nat /\ T \in Nat /\ TermOf(N, i) <= T
        BY ONLY <1>2, <1>3, <1>4, i \in Node
      <4>2. CASE <<k, t>> \in N[i].stored
        <5>1. t <= TermOf(N, i)
          BY ONLY <3>1, <4>2, k \in Nat, t \in Nat
        <5> QED BY ONLY <4>1, <5>1, t \in Nat
      <4>3. CASE <<k, t>> \notin N[i].stored
        <5>1. t = T
          BY ONLY <1>12, <3>2, <4>3, k \in Nat, t \in Nat
        <5> QED BY ONLY <4>1, <5>1
      <4> QED BY ONLY <4>2, <4>3
    <3>3. ASSUME NEW k \in 1 .. Len(K), K[k].term = T PROVE <<k, T>> \in M[i].stored
      <4>1. CASE k \in f .. lw
        BY <1>1, <1>13, <3>3, <4>1
      <4>2. CASE k \notin f .. lw
        <5>1. k \in 1 .. Len(L) /\ K[k] = L[k]
          <6>1. CASE f = lw + 1
            BY <1>8, <6>1
          <6>2. CASE f # lw + 1
            <7>1. k \in 1 .. f - 1 /\ f <= lw
              BY <1>4, <1>8, <4>2, <6>2
            <7>2. K[k] = L[k]
              BY <1>8, <7>1
            <7>3. k \in 1 .. Len(L)
              BY <1>4, <1>8, <7>1
            <7> QED BY <7>2, <7>3
          <6> QED BY <6>1, <6>2
        <5>2. L[k].term <= TermOf(N, i)
          BY <5>1, NodeFacts DEF Ordered, L
        <5>3. TermOf(N, i) = T
          BY <1>2, <1>3, <1>4, <3>3, <5>1, <5>2
        <5>4. <<k, T>> \in N[i].stored
          BY <3>3, <5>1, <5>3 DEF SafeInv, Kept, L
        <5> QED BY <1>1, <5>4
      <4> QED BY <4>1, <4>2
    <3> QED BY <1>2, <2>2, <3>2, <3>3 DEF K, T
  <2> QED BY <2>1, <2>2
<1>15. Behind(M)
  <2> SUFFICES ASSUME NEW x \in Node, NEW j \in Node, NEW t \in Nat, <<t, x>> \in M[j].ballots
               PROVE  t <= TermOf(M, x)
    BY DEF Behind
  <2>1. <<t, x>> \in N[j].ballots
    BY <1>2
  <2>2. t <= TermOf(N, x)
    BY <2>1 DEF SafeInv, Behind
  <2>3. TermOf(N, x) <= TermOf(M, x)
    BY <1>9 DEF Moved
  <2> QED BY <1>3, <2>2, <2>3
<1>16. Asking(M, U)
  <2> SUFFICES ASSUME NEW v \in U
               PROVE  /\ v \in VoteRequest /\ v.term <= TermOf(M, v.from)
                      /\ M[v.from].role = "candidate" /\ TermOf(M, v.from) = v.term =>
                           /\ v.lastIndex = Len(LogOf(M, v.from))
                           /\ v.lastTerm = TermAt(LogOf(M, v.from), Len(LogOf(M, v.from)))
    BY DEF Asking
  <2>1. v \in V /\ v \in VoteRequest /\ v.from \in Node /\ v.term \in Nat
        /\ v.term <= TermOf(N, v.from)
    BY DEF SafeInv, Asking, VoteRequest
  <2>2. TermOf(N, v.from) <= TermOf(M, v.from)
    BY <1>9, <2>1 DEF Moved
  <2>3. CASE v.from = i
    BY <1>2, <1>3, <2>1, <2>2, <2>3
  <2>4. CASE v.from # i
    BY <1>2, <1>5, <2>1, <2>4 DEF SafeInv, Asking
  <2> QED BY <2>3, <2>4
<1>17. Stays(M)
  <2> SUFFICES ASSUME NEW k \in Nat, NEW t \in Nat, Choosable(M, k, t), NEW j \in Node,
                      <<k, t>> \in M[j].stored
               PROVE  Holds(LogOf(M, j), k, t)
    BY DEF Stays
  <2>1. CASE j # i
    BY <1>2, <1>5, <1>10, <2>1 DEF SafeInv, Stays
  <2>2. CASE j = i
    <3>1. CASE <<k, t>> \in N[i].stored
      <4>1. Holds(L, k, t) /\ Choosable(N, k, t)
        BY <1>10, <3>1 DEF SafeInv, Stays, L
      <4>2. t <= m.term
        <5>1. t <= TermOf(N, i)
          BY <3>1 DEF SafeInv, Kept
        <5> QED BY <1>2, <1>3, <1>4, <5>1 DEF T
      <4>3. \A x \in 1 .. k : x <= Len(m.whole) => m.whole[x] = L[x]
        BY <1>2, <1>4, <4>1, <4>2, RequestAgrees DEF SafeInv
      <4>4. k <= Len(L) /\ k \in 1 .. k
        BY <1>4, <4>1 DEF Holds
      <4>5. k <= Len(K) /\ Alike(K, L, k)
        BY <1>1, <1>4, <4>3, <4>4, ReplaceKeeps DEF W
      <4>6. k \in 1 .. Len(K) /\ K[k] = L[k]
        BY <1>4, <4>1, <4>4, <4>5 DEF Holds, Alike
      <4> QED BY <2>2, <4>1, <4>6 DEF Holds, K
    <3>2. CASE <<k, t>> \notin N[i].stored
      <4>1. t = T /\ k \in f .. lw /\ W[k].term = T
        BY <1>12, <2>2, <3>2
      <4>2. k \in 1 .. Len(K) /\ K[k].term = t
        BY <1>13, <4>1
      <4> QED BY <2>2, <4>2 DEF Holds, K
    <3> QED BY <3>1, <3>2
  <2> QED BY <2>1, <2>2
<1>18. Backed(M)
  <2> SUFFICES ASSUME NEW k \in Nat, NEW t \in Nat, Choosable(M, k, t),
                      NEW x \in Node, NEW j \in Node, M[x].role = "candidate",
                      t < TermOf(M, x), <<TermOf(M, x), x>> \in M[j].ballots,
                      <<k, t>> \in M[j].stored
               PROVE  Holds(LogOf(M, x), k, t)
    BY DEF Backed
  <2>1. x # i /\ M[x] = N[x] /\ TermOf(M, x) = TermOf(N, x) /\ LogOf(M, x) = LogOf(N, x)
    BY <1>2, <1>5
  <2>2. Choosable(N, k, t)
    BY <1>10
  <2>3. CASE j # i
    BY <1>2, <2>1, <2>2, <2>3 DEF SafeInv, Backed
  <2>4. CASE j = i
    <3>1. TermOf(M, x) <= T
      BY <1>2, <1>3, <2>4 DEF Good, Elected
    <3>2. <<k, t>> \in N[i].stored
      <4>1. t # T
        BY <1>3, <1>4, <3>1
      <4> QED BY <1>12, <2>4, <4>1
    <3>3. <<TermOf(N, x), x>> \in N[i].ballots
      BY <1>2, <2>1, <2>4
    <3> QED BY <2>1, <2>2, <3>2, <3>3 DEF SafeInv, Backed
  <2> QED BY <2>3, <2>4
<1> QED BY <1>9, <1>11, <1>14, <1>15, <1>16, <1>17, <1>18 DEF SafeInv

(* A leader holds everything that was choosable before its term. *)
LEMMA LeaderInherits ==
  ASSUME NEW N, NEW A, Good(N, A), Inherited(N, A), NEW i \in Node, N[i].role = "leader",
         NEW k \in Nat, NEW t \in Nat, Choosable(N, k, t), t < TermOf(N, i)
  PROVE  Holds(LogOf(N, i), k, t)
<1>1. LogOf(N, i) \in Logs(N, A) /\ Len(LogOf(N, i)) \in Nat
  BY NodeFacts
<1>2. 0 < Len(LogOf(N, i)) /\ LogOf(N, i)[Len(LogOf(N, i))].term = TermOf(N, i)
  BY DEF Good, LogInv, Reigning
<1>3. Len(LogOf(N, i)) \in 1 .. Len(LogOf(N, i))
  BY <1>1, <1>2
<1> QED BY <1>1, <1>2, <1>3 DEF Inherited

(* A leader's request agrees with what was choosable, as the leader does. *)
LEMMA SentSafe ==
  ASSUME NEW N, NEW A, NEW B, NEW V, NEW U, NEW i \in Node, NEW m,
         Good(N, A), Good(N, B), U \in SUBSET V, SafeInv(N, A, V), Sent(N, A, B, i, m)
  PROVE  SafeInv(N, B, U) /\ Moved(N, N)
<1>1. /\ Kept(N) /\ Behind(N) /\ Asking(N, V) /\ Inherited(N, A) /\ Heeded(N, A)
      /\ Stays(N) /\ Backed(N)
  BY DEF SafeInv
<1>2. Moved(N, N)
  BY NodeFacts DEF Moved
<1>3. Asking(N, U)
  BY <1>1 DEF Asking
<1>4. CASE m \notin B
  <2>1. B \in SUBSET A
    BY <1>4 DEF Sent
  <2>2. \A s \in Logs(N, B) : s \in Logs(N, A)
    BY <2>1 DEF Logs
  <2>3. Inherited(N, B) /\ Heeded(N, B)
    BY <1>1, <2>1, <2>2 DEF Inherited, Heeded
  <2> QED BY <1>1, <1>2, <1>3, <2>3 DEF SafeInv
<1>5. CASE m \in B
  <2> DEFINE L == LogOf(N, i)
             W == m.whole
  <2>1. /\ L \in Logs(N, A) /\ Len(L) \in Nat /\ Len(W) \in Nat /\ m.term = TermOf(N, i)
        /\ N[i].role = "leader"
    BY <1>5, NodeFacts, RequestFacts DEF Sent
  <2>2. Len(W) <= Len(L) /\ \A x \in 1 .. Len(W) : W[x] = L[x] /\ x \in 1 .. Len(L)
    BY <2>1 DEF Sent, Begins, Alike
  <2>3. \A s \in Logs(N, B) : s \in Logs(N, A) \/ s = W
    BY DEF Logs, Sent
  <2>4. /\ \A x \in 1 .. Len(L) : L[x].term \in Nat
        /\ \A x \in 1 .. Len(L) : \A y \in x .. Len(L) : L[x].term <= L[y].term
    BY <2>1, SeqFacts
  <2> HIDE DEF L, W
  <2>5. Inherited(N, B)
    <3> SUFFICES ASSUME NEW k \in Nat, NEW t \in Nat, Choosable(N, k, t),
                        NEW x \in 1 .. Len(W), t < W[x].term
                 PROVE  Holds(W, k, t)
      BY <1>1, <2>3 DEF Inherited
    <3>1. Holds(L, k, t)
      BY <1>1, <2>1, <2>2 DEF Inherited
    <3>2. k < x
      <4>1. CASE x <= k
        <5>1. x \in 1 .. Len(L) /\ k \in x .. Len(L)
          BY <2>1, <2>2, <3>1, <4>1 DEF Holds
        <5>2. L[x].term <= t /\ L[x].term \in Nat /\ L[x] = W[x]
          BY <2>2, <2>4, <3>1, <5>1 DEF Holds
        <5> QED BY <5>2
      <4> QED BY <4>1
    <3>3. k \in 1 .. Len(W)
      BY <2>1, <3>1, <3>2 DEF Holds
    <3> QED BY <2>2, <3>1, <3>3 DEF Holds
  <2>6. ASSUME NEW k \in Nat, NEW t \in Nat, NEW s \in Logs(N, B), Holds(s, k, t)
        PROVE  \E u \in Logs(N, A) : Holds(u, k, t) /\ Alike(s, u, k)
    <3>1. CASE s \in Logs(N, A)
      BY <2>6, <3>1 DEF Alike
    <3>2. CASE s = W
      <4>1. Holds(L, k, t)
        BY <2>2, <2>6, <3>2 DEF Holds
      <4>2. \A x \in 1 .. k : x \in 1 .. Len(W)
        BY <2>1, <2>6, <3>2 DEF Holds
      <4>3. Alike(W, L, k)
        BY <2>2, <4>2 DEF Alike
      <4> QED BY <2>1, <3>2, <4>1, <4>3
    <3> QED BY <2>3, <3>1, <3>2
  <2>7. Heeded(N, B)
    <3> SUFFICES ASSUME NEW k \in Nat, NEW t \in Nat, Choosable(N, k, t), NEW r \in B,
                        t < r.term, NEW s \in Logs(N, B), Holds(s, k, t)
                 PROVE  \A x \in 1 .. k : x <= Len(r.whole) => r.whole[x] = s[x]
      BY DEF Heeded
    <3>1. PICK u \in Logs(N, A) : Holds(u, k, t) /\ Alike(s, u, k)
      BY <2>6
    <3>2. CASE r \in A
      <4>1. \A x \in 1 .. k : x <= Len(r.whole) => r.whole[x] = u[x]
        BY <1>1, <3>1, <3>2 DEF Heeded
      <4> QED BY <3>1, <4>1 DEF Alike
    <3>3. CASE r = m
      <4>1. Holds(L, k, t)
        BY <1>1, <2>1, <3>3, LeaderInherits DEF L
      <4>2. Alike(L, u, k)
        BY <2>1, <3>1, <4>1 DEF Good, LogInv, Matching, Holds
      <4>3. \A x \in 1 .. k : x <= Len(W) => W[x] = u[x]
        <5>1. \A x \in 1 .. k : x <= Len(W) => x \in 1 .. Len(W)
          BY <2>1
        <5> QED BY <2>2, <4>2, <5>1 DEF Alike
      <4> QED BY <3>1, <3>3, <4>3 DEF Alike, W
    <3> QED BY <3>2, <3>3 DEF Sent
  <2> QED BY <1>1, <1>2, <1>3, <2>5, <2>7 DEF SafeInv
<1> QED BY <1>4, <1>5

-----------------------------------------------------------------------------
(* What every step keeps. *)

(* Whoever holds a chosen entry after the step agrees with somebody who held *)
(* it before.                                                                *)
Traced(N, M, A, B) ==
  \A k, t \in Nat : Chosen(N, k, t) =>
    \A s \in Logs(M, B) : Holds(s, k, t) =>
      \E u \in Logs(N, A) : Holds(u, k, t) /\ Alike(s, u, k)

(* A log stays, gets longer, or takes a request of the node's term or later. *)
Rooted(N, M, A) ==
  \A j \in Node :
    \/ Begins(LogOf(N, j), LogOf(M, j))
    \/ \E m \in A : TermOf(N, j) <= m.term /\
         \E f \in Nat : Replaces(LogOf(N, j), LogOf(M, j), m, f)

Steady(N, M, A, B) == Moved(N, M) /\ Traced(N, M, A, B) /\ Rooted(N, M, A)

(* No log is new. *)
LEMMA OldTraced ==
  ASSUME NEW N, NEW M, NEW A, NEW B, \A s \in Logs(M, B) : s \in Logs(N, A)
  PROVE  Traced(N, M, A, B)
BY DEF Traced, Alike

(* Every log begins with itself. *)
LEMMA StillRooted ==
  ASSUME NEW N, NEW M, NEW A, Good(N, A), Still(N, M)
  PROVE  Rooted(N, M, A)
<1>1. ASSUME NEW j \in Node PROVE Begins(LogOf(N, j), LogOf(M, j))
  <2>1. Len(LogOf(N, j)) \in Nat /\ LogOf(M, j) = LogOf(N, j)
    BY NodeFacts DEF Still
  <2> QED BY <2>1 DEF Begins, Alike
<1> QED BY <1>1 DEF Rooted

(* The entry a leader appends was not chosen before. *)
LEMMA GrownSteady ==
  ASSUME NEW N, NEW M, NEW A, NEW B, NEW V, NEW i \in Node, Good(N, A), Good(M, B),
         SafeInv(N, A, V), Moved(N, M), Grown(N, M, A, B, i)
  PROVE  Steady(N, M, A, B)
<1> DEFINE L == LogOf(N, i)
           K == LogOf(M, i)
           len == Len(L)
<1>1. B \in SUBSET A /\ \A j \in Node \ {i} : M[j] = N[j]
  BY DEF Grown, Extended
<1>2. /\ L \in Logs(N, A) /\ len \in Nat /\ Len(K) = len + 1
      /\ K[len + 1].term = TermOf(M, i)
      /\ \A x \in 1 .. len : K[x] = L[x]
  BY NodeFacts DEF Grown, Extended, Longer, Alike
<1>3. \A j \in Node \ {i} : LogOf(M, j) = LogOf(N, j)
  BY <1>1 DEF LogOf
<1>4. \A s \in Logs(M, B) : s \in Logs(N, A) \/ s = K
  BY <1>1, <1>3 DEF Logs
<1>5. Rooted(N, M, A)
  <2>1. ASSUME NEW j \in Node PROVE Begins(LogOf(N, j), LogOf(M, j))
    <3>1. CASE j = i
      <4>1. len <= Len(K)
        <5> HIDE DEF len
        <5> QED BY <1>2
      <4> QED BY <1>2, <3>1, <4>1 DEF Begins, Alike
    <3>2. CASE j # i
      <4>1. Len(LogOf(N, j)) \in Nat
        BY NodeFacts
      <4> QED BY <1>3, <3>2, <4>1 DEF Begins, Alike
    <3> QED BY <3>1, <3>2
  <2> QED BY <2>1 DEF Rooted
<1>6. Traced(N, M, A, B)
  <2> SUFFICES ASSUME NEW k \in Nat, NEW t \in Nat, Chosen(N, k, t), NEW s \in Logs(M, B),
                      Holds(s, k, t)
               PROVE  \E u \in Logs(N, A) : Holds(u, k, t) /\ Alike(s, u, k)
    BY DEF Traced
  <2>1. CASE s \in Logs(N, A)
    BY <2>1 DEF Alike
  <2>2. CASE s = K
    <3>1. PICK j \in Node : <<k, t>> \in N[j].stored /\ Choosable(N, k, t)
      BY ChosenHeld DEF SafeInv
    <3>2. k # Len(K)
      <4>1. CASE k = Len(K)
        <5>1. t = TermOf(M, i)
          BY <1>2, <2>2, <4>1 DEF Holds
        <5>2. Choosable(N, Len(LogOf(M, i)), TermOf(M, i))
          BY <3>1, <4>1, <5>1
        <5> QED BY <3>1, <4>1, <5>1, <5>2, FreshStored
      <4> QED BY <4>1
    <3> HIDE DEF K, L, len
    <3>3. k \in 1 .. len /\ \A x \in 1 .. k : x \in 1 .. len
      BY <1>2, <2>2, <3>2 DEF Holds
    <3>4. Holds(L, k, t)
      BY <1>2, <2>2, <3>3 DEF Holds, len
    <3>5. Alike(K, L, k)
      BY <1>2, <3>3 DEF Alike
    <3> QED BY <1>2, <2>2, <3>4, <3>5
  <2> QED BY <1>4, <2>1, <2>2
<1> QED BY <1>5, <1>6 DEF Steady

(* A follower's new log is its own or the request's. *)
LEMMA TakenSteady ==
  ASSUME NEW N, NEW M, NEW A, NEW B, NEW i \in Node, NEW m, Good(N, A), Good(M, B),
         Moved(N, M), Taken(N, M, A, B, i, m)
  PROVE  Steady(N, M, A, B) /\ Begins(m.whole, LogOf(M, i))
<1> DEFINE L == LogOf(N, i)
           K == LogOf(M, i)
<1>1. PICK f \in Nat : Replaces(L, K, m, f)
  BY DEF Taken
<1>2. /\ B \in SUBSET A /\ m \in A /\ \A j \in Node \ {i} : M[j] = N[j]
      /\ TermOf(N, i) <= m.term
  BY DEF Taken
<1>3. /\ L \in Seq(Entry) /\ K \in Seq(Entry) /\ m.whole \in Seq(Entry) /\ m.prev \in Nat
      /\ m.whole \in Logs(N, A) /\ L \in Logs(N, A)
      /\ \A j \in Node : LogOf(N, j) \in Logs(N, A) /\ Len(LogOf(N, j)) \in Nat
  BY <1>2, NodeFacts, RequestFacts
<1>4. \A j \in Node \ {i} : LogOf(M, j) = LogOf(N, j)
  BY <1>2 DEF LogOf
<1>5. (K = L \/ K = m.whole) /\ Begins(m.whole, K)
  <2>1. \A k \in 1 .. Len(L) : k <= Len(m.whole) /\ L[k].term = m.whole[k].term
                                 => Alike(L, m.whole, k)
    BY <1>3 DEF Good, LogInv, Matching
  <2> HIDE DEF L, K
  <2> QED BY <1>1, <1>3, <2>1, ReplacedLog
<1>6. \A s \in Logs(M, B) : s \in Logs(N, A)
  BY <1>2, <1>3, <1>4, <1>5 DEF Logs
<1>7. Rooted(N, M, A)
  <2>1. \A j \in Node \ {i} : Begins(LogOf(N, j), LogOf(M, j))
    BY <1>3, <1>4 DEF Begins, Alike
  <2> QED BY <1>1, <1>2, <2>1 DEF Rooted
<1> QED BY <1>5, <1>6, <1>7, OldTraced DEF Steady

(* A leader's request is a part of its log. *)
LEMMA SentSteady ==
  ASSUME NEW N, NEW A, NEW B, NEW i \in Node, NEW m, Good(N, A), Good(N, B),
         Moved(N, N), Sent(N, A, B, i, m)
  PROVE  Steady(N, N, A, B)
<1>1. Rooted(N, N, A)
  BY StillRooted, NodeFacts DEF Still
<1>2. Traced(N, N, A, B)
  <2> SUFFICES ASSUME NEW k \in Nat, NEW t \in Nat, NEW s \in Logs(N, B), Holds(s, k, t)
               PROVE  \E u \in Logs(N, A) : Holds(u, k, t) /\ Alike(s, u, k)
    BY DEF Traced
  <2>1. CASE s \in Logs(N, A)
    BY <2>1 DEF Alike
  <2>2. CASE s \notin Logs(N, A)
    <3>1. s = m.whole
      BY <2>2 DEF Logs, Sent
    <3>2. LogOf(N, i) \in Logs(N, A) /\ Len(LogOf(N, i)) \in Nat /\ Len(s) \in Nat
      BY NodeFacts, SeqFacts
    <3>3. Begins(s, LogOf(N, i))
      BY <3>1 DEF Sent
    <3>4. \A x \in 1 .. k : x \in 1 .. Len(s) /\ x \in 1 .. Len(LogOf(N, i))
      BY <3>2, <3>3 DEF Holds, Begins
    <3>5. Alike(s, LogOf(N, i), k)
      BY <3>3, <3>4 DEF Begins, Alike
    <3>6. k \in 1 .. k
      BY DEF Holds
    <3>7. Holds(LogOf(N, i), k, t)
      BY <3>4, <3>5, <3>6 DEF Holds, Alike
    <3> QED BY <3>2, <3>5, <3>7
  <2> QED BY <2>1, <2>2
<1> QED BY <1>1, <1>2 DEF Steady

(* The five steps. *)
SafeStep(N, M, A, B, V, U) ==
  \/ Granting(N, M, V) /\ B \in SUBSET A /\ U \in SUBSET V
  \/ \E i \in Node : Ran(N, M, V, U, i) /\ B \in SUBSET A
  \/ \E i \in Node : Grown(N, M, A, B, i) /\ U \in SUBSET V
  \/ \E i \in Node : \E m \in A : Taken(N, M, A, B, i, m) /\ U \in SUBSET V
  \/ M = N /\ U \in SUBSET V /\ \E i \in Node : \E m : Sent(N, A, B, i, m)

(* Every step keeps the invariant and is steady. *)
LEMMA StepSafe ==
  ASSUME NEW N, NEW M, NEW A, NEW B, NEW V, NEW U, Good(N, A), Good(M, B),
         SafeInv(N, A, V), SafeStep(N, M, A, B, V, U)
  PROVE  SafeInv(M, B, U) /\ Steady(N, M, A, B)
<1>1. ASSUME Still(N, M), B \in SUBSET A, Moved(N, M) PROVE Steady(N, M, A, B)
  <2>1. \A s \in Logs(M, B) : s \in Logs(N, A)
    BY <1>1 DEF Still, Logs
  <2> QED BY <1>1, <2>1, OldTraced, StillRooted DEF Steady
<1>2. CASE Granting(N, M, V) /\ B \in SUBSET A /\ U \in SUBSET V
  BY <1>1, <1>2, GrantingSafe DEF Granting
<1>3. ASSUME NEW i \in Node, Ran(N, M, V, U, i), B \in SUBSET A
      PROVE  SafeInv(M, B, U) /\ Steady(N, M, A, B)
  BY <1>1, <1>3, RanSafe DEF Ran
<1>4. ASSUME NEW i \in Node, Grown(N, M, A, B, i), U \in SUBSET V
      PROVE  SafeInv(M, B, U) /\ Steady(N, M, A, B)
  BY <1>4, GrownSafe, GrownSteady
<1>5. ASSUME NEW i \in Node, NEW m \in A, Taken(N, M, A, B, i, m), U \in SUBSET V
      PROVE  SafeInv(M, B, U) /\ Steady(N, M, A, B)
  BY <1>5, TakenSafe, TakenSteady
<1>6. ASSUME M = N, NEW i \in Node, NEW m, Sent(N, A, B, i, m), U \in SUBSET V
      PROVE  SafeInv(M, B, U) /\ Steady(N, M, A, B)
  BY <1>6, SentSafe, SentSteady
<1> QED BY <1>2, <1>3, <1>4, <1>5, <1>6 DEF SafeStep

-----------------------------------------------------------------------------
(* Every kind of step is one of the five. *)

(* The vote requests under way. *)
Polls == {m \in wire : m.type = "vote"}

PollsTyped == \A m \in Polls : m \in VoteRequest

(* They are vote requests. *)
LEMMA PollTypes ==
  ASSUME NodeInv
  PROVE  PollsTyped
BY MessageTypes DEF PollsTyped, Polls

(* Node n becomes p without writing to its log: no new candidate, and a vote  *)
(* only for a candidate that is not behind.                                   *)
Abides(n, p, V) ==
  /\ FullLog(p.disk) = FullLog(n.disk) /\ p.stored = n.stored
  /\ n.disk.term <= p.disk.term
  /\ p.role = "candidate" => n.role = "candidate" /\ p.disk.term = n.disk.term
  /\ \/ p.ballots = n.ballots
     \/ \E m \in V : /\ p.ballots = n.ballots \cup {<<m.term, m.from>>}
                     /\ NotAhead(FullLog(n.disk), m)

(* One node abides, the others stay. *)
LEMMA AbidesGranting ==
  ASSUME NEW N \in [Node -> NodeState], NEW V, NEW i \in Node, NEW p,
         \A j \in Node : TermOf(N, j) \in Nat, Abides(N[i], p, V)
  PROVE  Granting(N, [N EXCEPT ![i] = p], V)
<1> DEFINE M == [N EXCEPT ![i] = p]
<1>1. M[i] = p /\ \A j \in Node \ {i} : M[j] = N[j]
  OBVIOUS
<1> HIDE DEF M
<1>2. Still(N, M)
  BY <1>1 DEF Still, Abides, LogOf, TermOf
<1>3. ASSUME NEW j \in Node, M[j].role = "candidate"
      PROVE  N[j].role = "candidate" /\ TermOf(M, j) = TermOf(N, j)
  BY <1>1, <1>3 DEF Abides, TermOf
<1>4. ASSUME NEW x \in Node, NEW j \in Node, NEW t \in Nat, <<t, x>> \in M[j].ballots
      PROVE  \/ <<t, x>> \in N[j].ballots
             \/ \E m \in V : m.from = x /\ m.term = t /\ NotAhead(LogOf(N, j), m)
  <2>1. CASE j # i
    BY <1>1, <1>4, <2>1
  <2>2. CASE j = i /\ p.ballots = N[i].ballots
    BY <1>1, <1>4, <2>2
  <2>3. ASSUME j = i, NEW m \in V, p.ballots = N[i].ballots \cup {<<m.term, m.from>>},
               NotAhead(FullLog(N[i].disk), m), <<t, x>> \notin N[i].ballots
        PROVE  m.from = x /\ m.term = t /\ NotAhead(LogOf(N, j), m)
    <3>1. <<t, x>> = <<m.term, m.from>>
      BY <1>1, <1>4, <2>3
    <3> QED BY <2>3, <3>1 DEF LogOf
  <2> QED BY <2>1, <2>2, <2>3 DEF Abides
<1>5. Granting(N, M, V)
  BY <1>2, <1>3, <1>4 DEF Granting
<1> QED BY <1>5 DEF M

(* A new leader writes its first entry. *)
LEMMA LedGrown ==
  ASSUME NEW N \in [Node -> NodeState], NEW A, NEW B, B \in SUBSET A, Sane(N, A),
         NEW i \in Node, NEW c, NEW p, Led(c, p, i), FullLog(c.disk) = FullLog(N[i].disk),
         N[i].disk.term <= c.disk.term, c.reigns = N[i].reigns,
         c.disk.term \notin N[i].reigns, c.stored = N[i].stored, N[i].role # "leader",
         \/ c.ballots = N[i].ballots /\ N[i].role = "candidate"
         \/ /\ N[i].disk.term < c.disk.term
            /\ c.ballots \in SUBSET (N[i].ballots \cup {<<c.disk.term, i>>})
  PROVE  Grown(N, [N EXCEPT ![i] = p], A, B, i)
<1> DEFINE M == [N EXCEPT ![i] = p]
<1>1. M[i] = p /\ \A j \in Node \ {i} : M[j] = N[j]
  OBVIOUS
<1>2. Extended(N, M, A, B, i)
  BY LedExtends
<1> HIDE DEF M
<1>3. PICK l : Crown(c, l, i) /\ Progress(l, p, i)
  BY DEF Led
<1>4. /\ p.disk.term = c.disk.term /\ FullLog(p.disk) = FullLog(l.disk)
      /\ p.stored = c.stored \cup {<<Len(FullLog(p.disk)), c.disk.term>>}
      /\ p.ballots = c.ballots
  BY <1>3 DEF Crown, Appended, Progress, SameLog, SamePast
<1>5. Grown(N, M, A, B, i)
  BY <1>1, <1>2, <1>4 DEF Grown, LogOf, TermOf
<1> QED BY <1>5 DEF M

(* A leader writes an entry for a client. *)
LEMMA ProposedGrown ==
  ASSUME NEW N \in [Node -> NodeState], NEW A, NEW B, B \in SUBSET A, NEW i \in Node,
         NEW c, NEW p, NEW cmd, N[i].role = "leader", N[i].leader = i,
         N[i].disk.term \in N[i].reigns, N[i].disk.term \in Nat,
         Proposed(N[i], c, i, cmd), Progress(c, p, i)
  PROVE  Grown(N, [N EXCEPT ![i] = p], A, B, i)
<1> DEFINE e == [term |-> N[i].disk.term, cmd |-> cmd]
           M == [N EXCEPT ![i] = p]
<1>1. /\ Longer(FullLog(N[i].disk), FullLog(p.disk), e) /\ p.disk.term = N[i].disk.term
      /\ p.role = "leader" /\ p.leader = N[i].leader /\ p.reigns = N[i].reigns
      /\ p.ballots = N[i].ballots
      /\ p.stored = N[i].stored \cup {<<Len(FullLog(p.disk)), N[i].disk.term>>}
  BY DEF Proposed, Appended, Progress, SameLog, SameOffice, SamePast
<1>2. e.term = N[i].disk.term /\ M[i] = p /\ \A j \in Node \ {i} : M[j] = N[j]
  OBVIOUS
<1> HIDE DEF e, M
<1>3. Extended(N, M, A, B, i)
  BY <1>1, <1>2 DEF Extended, LogOf, TermOf
<1>4. Grown(N, M, A, B, i)
  BY <1>1, <1>2, <1>3 DEF Grown, LogOf, TermOf
<1> QED BY <1>4 DEF M

(* A follower stores what is new in a request. *)
LEMMA InstallTaken ==
  ASSUME NEW N \in [Node -> NodeState], NEW A, NEW B, B \in SUBSET A, NEW m \in A,
         m.to \in Node, NEW c, NEW p, Rest(N[m.to], c, m.from), c.role = "follower",
         c.disk.term = m.term, Install(c, p, m)
  PROVE  Taken(N, [N EXCEPT ![m.to] = p], A, B, m.to, m)
<1> DEFINE i == m.to
           M == [N EXCEPT ![i] = p]
<1>1. M[i] = p /\ \A j \in Node \ {i} : M[j] = N[j]
  OBVIOUS
<1> HIDE DEF M
<1>2. /\ N[i].disk.term <= m.term /\ p.disk.term = m.term /\ p.role = "follower"
      /\ p.ballots = N[i].ballots /\ c.stored = N[i].stored
      /\ c.disk.commit = N[i].disk.commit /\ FullLog(c.disk) = FullLog(N[i].disk)
  BY DEF Install, Rest, SameOffice, SamePast
<1>3. Taken(N, M, A, B, i, m)
  BY <1>1, <1>2 DEF Taken, Install, LogOf, TermOf
<1> QED BY <1>3 DEF M

(* Every kind of step is one of the five. *)
LEMMA SafeKinds ==
  ASSUME NodeInv, NodeInv', NextKind, LogInv(nodes, Appends)
  PROVE  SafeStep(nodes, nodes', Appends, Appends', Polls, Polls')
<1> DEFINE N == nodes
           A == Appends
           B == Appends'
           V == Polls
           U == Polls'
           Goal == SafeStep(nodes, nodes', Appends, Appends', Polls, Polls')
<1>1. N \in [Node -> NodeState] /\ Sane(N, A)
  BY StateSane
<1>2. \A i \in Node : N[i].disk.term \in Nat /\ N[i].reigns \in SUBSET Nat
  BY <1>1, FitFacts, NodeTypes
<1>3. \A i \in Node : TermOf(N, i) \in Nat
  BY <1>2 DEF TermOf
<1>4. CASE SendKind
  <2>1. PICK i \in Node, m \in AppendRequest :
          /\ nodes[i].role = "leader" /\ Honest(m) /\ CopyOf(nodes[i], m)
          /\ m.from = i /\ Appends' \in SUBSET (Appends \cup {m})
    BY <1>4, SentAppends
  <2>2. Sent(N, A, B, i, m)
    BY <2>1 DEF Sent, CopyOf, Begins, LogOf, TermOf
  <2>3. nodes' = nodes /\ U \in SUBSET V
    <3>1. PICK x \in AppendRequest : wire' \in SUBSET (wire \cup {x})
      BY <1>4 DEF SendKind
    <3>2. x.type = "append"
      BY DEF AppendRequest
    <3> QED BY <1>4, <3>1, <3>2 DEF SendKind, Polls
  <2> QED BY <2>2, <2>3 DEF SafeStep
<1>5. SUFFICES ASSUME B \in SUBSET A PROVE Goal
  BY <1>4, AppendsAfter
<1>6. ASSUME wire' \in SUBSET wire PROVE U \in SUBSET V
  BY <1>6 DEF Polls
<1>7. ASSUME NEW i \in Node, NEW p, Becomes(i, p), Abides(N[i], p, V), wire' \in SUBSET wire
      PROVE  Goal
  <2>1. Granting(N, [N EXCEPT ![i] = p], V)
    BY <1>1, <1>3, <1>7, AbidesGranting
  <2>2. nodes' = [N EXCEPT ![i] = p]
    BY <1>7 DEF Becomes
  <2> QED BY <1>5, <1>6, <1>7, <2>1, <2>2 DEF SafeStep
<1>8. ASSUME NEW i \in Node, NEW c, NEW p, Becomes(i, p), Led(c, p, i), wire' \in SUBSET wire,
             FullLog(c.disk) = FullLog(N[i].disk), N[i].disk.term <= c.disk.term,
             c.reigns = N[i].reigns, c.disk.term \notin N[i].reigns,
             c.stored = N[i].stored, N[i].role # "leader",
             \/ c.ballots = N[i].ballots /\ N[i].role = "candidate"
             \/ /\ N[i].disk.term < c.disk.term
                /\ c.ballots \in SUBSET (N[i].ballots \cup {<<c.disk.term, i>>})
      PROVE  Goal
  <2>1. Grown(N, [N EXCEPT ![i] = p], A, B, i)
    BY <1>1, <1>5, <1>8, LedGrown
  <2>2. nodes' = [N EXCEPT ![i] = p]
    BY <1>8 DEF Becomes
  <2> QED BY <1>6, <1>8, <2>1, <2>2 DEF SafeStep
<1>9. ASSUME NEW i \in Node PROVE \A t \in N[i].reigns : t <= N[i].disk.term
  BY DEF LogInv, Reigning, TermOf
<1>10. Hush => wire' \in SUBSET wire
  BY DEF Hush
<1> HIDE DEF Goal, N, A, B, V, U
<1>11. CASE RestKind
  <2>1. PICK i \in Node : \E p, l : Becomes(i, p) /\ Rest(N[i], p, l) /\ Hush
    BY <1>11 DEF RestKind, N
  <2>2. PICK p, l : Becomes(i, p) /\ Rest(N[i], p, l) /\ Hush
    BY <2>1
  <2>3. Abides(N[i], p, V)
    BY <2>2 DEF Rest, Abides, SamePast
  <2> QED BY <1>7, <1>10, <2>2, <2>3
<1>12. CASE VoteKind
  <2>1. PICK m \in wire : \E p : /\ m \in VoteRequest /\ Becomes(m.to, p) /\ Hush
                                 /\ N[m.to].disk.term <= m.term /\ Voted(N[m.to], p, m)
    BY <1>12 DEF VoteKind, N
  <2>2. PICK p : Becomes(m.to, p) /\ Voted(N[m.to], p, m)
    BY <2>1
  <2>3. m.to \in Node /\ m \in V /\ m.term \in Nat
    BY <2>1 DEF VoteRequest, Polls, V
  <2>4. Abides(N[m.to], p, V)
    BY <1>2, <2>1, <2>2, <2>3 DEF Voted, Abides, SameOffice
  <2> QED BY <1>7, <1>10, <2>1, <2>2, <2>3, <2>4
<1>13. CASE CampaignKind
  <2>1. PICK i \in Node : \E p : Becomes(i, p) /\ Campaign(N[i], p, i) /\ Asked(p, i)
    BY <1>13 DEF CampaignKind, N
  <2>2. PICK p : Becomes(i, p) /\ Campaign(N[i], p, i) /\ Asked(p, i)
    BY <2>1
  <2> DEFINE M == [N EXCEPT ![i] = p]
  <2>3. M[i] = p /\ (\A j \in Node \ {i} : M[j] = N[j]) /\ nodes' = M
    BY <1>1, <2>2 DEF Becomes, N
  <2> HIDE DEF M
  <2>4. /\ FullLog(p.disk) = FullLog(N[i].disk) /\ p.disk.term = N[i].disk.term + 1
        /\ p.role = "candidate" /\ p.stored = N[i].stored
        /\ p.ballots = N[i].ballots \cup {<<p.disk.term, i>>}
    BY <2>2 DEF Campaign
  <2>5. /\ LogOf(M, i) = LogOf(N, i) /\ TermOf(M, i) = p.disk.term
        /\ TermOf(N, i) < TermOf(M, i) /\ LogOf(M, i) = FullLog(p.disk)
        /\ TermOf(N, i) <= TermOf(M, i) /\ M[i].stored = N[i].stored
    BY <1>2, <2>3, <2>4 DEF LogOf, TermOf
  <2>6. Still(N, M)
    <3>1. ASSUME NEW j \in Node
          PROVE  /\ LogOf(M, j) = LogOf(N, j) /\ M[j].stored = N[j].stored
                 /\ TermOf(N, j) <= TermOf(M, j)
      <4>1. CASE j = i
        BY <2>5, <4>1
      <4>2. CASE j # i
        BY <1>3, <2>3, <4>2 DEF LogOf, TermOf
      <4> QED BY <4>1, <4>2
    <3> QED BY <3>1 DEF Still
  <2>7. ASSUME NEW m \in U, m \notin V
        PROVE  /\ m \in VoteRequest /\ m.from = i /\ m.term = TermOf(M, i)
               /\ m.lastIndex = Len(LogOf(M, i))
               /\ m.lastTerm = TermAt(LogOf(M, i), Len(LogOf(M, i)))
    <3>1. m \in wire' /\ m.type = "vote" /\ m \notin wire
      BY <2>7 DEF Polls, U, V
    <3>2. m \in VoteRequest
      <4>1. (NodeInv => PollsTyped)'
        BY PollTypes, PTL
      <4> QED BY <2>7, <4>1 DEF PollsTyped, U
    <3> QED BY <2>2, <2>5, <3>1, <3>2 DEF Asked
  <2>8. Ran(N, M, V, U, i)
    BY <2>3, <2>4, <2>5, <2>6, <2>7 DEF Ran
  <2> QED BY <1>5, <2>3, <2>8 DEF Goal, SafeStep, N, A, B, U, V
<1>14. CASE CampaignLedKind
  <2>1. PICK i \in Node : \E c, p : /\ Becomes(i, p) /\ Hush /\ N[i].role # "leader"
                                    /\ Campaign(N[i], c, i) /\ Led(c, p, i)
    BY <1>14 DEF CampaignLedKind, N
  <2>2. PICK c, p : /\ Becomes(i, p) /\ Hush /\ N[i].role # "leader"
                    /\ Campaign(N[i], c, i) /\ Led(c, p, i)
    BY <2>1
  <2>3. /\ FullLog(c.disk) = FullLog(N[i].disk) /\ c.reigns = N[i].reigns
        /\ c.disk.term = N[i].disk.term + 1 /\ c.stored = N[i].stored
        /\ c.ballots = N[i].ballots \cup {<<c.disk.term, i>>}
    BY <2>2 DEF Campaign
  <2>4. /\ N[i].disk.term <= c.disk.term /\ c.disk.term \notin N[i].reigns
        /\ N[i].disk.term < c.disk.term
    BY <1>2, <1>9, <2>3
  <2> QED BY <1>8, <1>10, <2>2, <2>3, <2>4
<1>15. CASE LedKind
  <2>1. PICK i \in Node : \E p : /\ Becomes(i, p) /\ Hush /\ N[i].role = "candidate"
                                 /\ Led(N[i], p, i)
    BY <1>15 DEF LedKind, N
  <2>2. PICK p : Becomes(i, p) /\ Led(N[i], p, i)
    BY <2>1
  <2>3. N[i].disk.term \notin N[i].reigns
    BY <2>1 DEF LogInv, Reigning, TermOf, N
  <2>4. N[i].disk.term <= N[i].disk.term
    BY <1>2
  <2> QED BY <1>8, <1>10, <2>1, <2>2, <2>3, <2>4
<1>16. CASE OpenKind
  <2>1. PICK i \in Node : \E c, p :
          /\ Becomes(i, p) /\ Hush /\ N[i].mode = "down" /\ Revived(N[i], c)
          /\ \/ p = c /\ c.disk.term = N[i].disk.term
             \/ Led(c, p, i) /\ c.disk.term = N[i].disk.term + 1
    BY <1>16 DEF OpenKind, N
  <2>2. PICK c, p :
          /\ Becomes(i, p) /\ Hush /\ N[i].mode = "down" /\ Revived(N[i], c)
          /\ \/ p = c /\ c.disk.term = N[i].disk.term
             \/ Led(c, p, i) /\ c.disk.term = N[i].disk.term + 1
    BY <2>1
  <2>3. CASE p = c /\ c.disk.term = N[i].disk.term
    <3>1. Abides(N[i], p, V)
      BY <1>2, <2>2, <2>3 DEF Revived, Abides, SamePast
    <3> QED BY <1>7, <1>10, <2>2, <3>1
  <2>4. CASE Led(c, p, i) /\ c.disk.term = N[i].disk.term + 1
    <3>1. /\ FullLog(c.disk) = FullLog(N[i].disk) /\ c.reigns = N[i].reigns
          /\ c.stored = N[i].stored /\ c.ballots = N[i].ballots
      BY <2>2 DEF Revived, SamePast
    <3>2. /\ N[i].disk.term <= c.disk.term /\ c.disk.term \notin N[i].reigns
          /\ N[i].disk.term < c.disk.term
      BY <1>2, <1>9, <2>4
    <3>3. N[i].role # "leader"
      BY <2>2, FitFacts DEF Fit, N
    <3> QED BY <1>8, <1>10, <2>2, <2>4, <3>1, <3>2, <3>3
  <2> QED BY <2>2, <2>3, <2>4
<1>17. CASE MatchKind
  <2>1. PICK r \in replies : \E c, x, p :
          /\ Becomes(r.req.from, p) /\ Hush /\ Matched(N[r.req.from], c, r)
          /\ N[r.req.from].role = "leader"
          /\ Progress(c, x, r.req.from) /\ Rest(x, p, Nil)
    BY <1>17 DEF MatchKind, N
  <2> DEFINE i == r.req.from
  <2>2. PICK c, x, p : /\ Becomes(i, p) /\ Hush /\ Matched(N[i], c, r) /\ N[i].role = "leader"
                       /\ Progress(c, x, i) /\ Rest(x, p, Nil)
    BY <2>1
  <2>3. i \in Node
    BY MessageTypes
  <2>4. Abides(N[i], p, V)
    BY <1>2, <2>2, <2>3
       DEF Matched, Progress, Rest, Abides, SameLog, SameOffice, SamePast
  <2> QED BY <1>7, <1>10, <2>2, <2>3, <2>4
<1>18. CASE SubmitKind
  <2>1. PICK i \in Node, cmd \in Operation : \E c, p :
          /\ Becomes(i, p) /\ Hush /\ N[i].role = "leader"
          /\ Proposed(N[i], c, i, cmd) /\ Progress(c, p, i)
    BY <1>18 DEF SubmitKind, N
  <2>2. PICK c, p : /\ Becomes(i, p) /\ Hush /\ N[i].role = "leader"
                    /\ Proposed(N[i], c, i, cmd) /\ Progress(c, p, i)
    BY <2>1
  <2>3. N[i].leader = i /\ N[i].disk.term \in N[i].reigns
    BY <2>2 DEF LogInv, Reigning, TermOf, N
  <2>4. nodes' = [N EXCEPT ![i] = p]
    BY <2>2 DEF Becomes, N
  <2>5. Grown(N, [N EXCEPT ![i] = p], A, B, i)
    BY <1>1, <1>2, <1>5, <2>2, <2>3, ProposedGrown
  <2> QED BY <1>6, <1>10, <2>2, <2>4, <2>5 DEF Goal, SafeStep, N, A, B, U, V
<1>19. CASE InstallKind
  <2>1. PICK m \in wire : \E c, p :
          /\ m \in AppendRequest /\ Becomes(m.to, p)
          /\ Rest(N[m.to], c, m.from) /\ c.role = "follower"
          /\ c.disk.term = m.term /\ Install(c, p, m) /\ wire' \in SUBSET wire
    BY <1>19 DEF InstallKind, N
  <2>2. PICK c, p :
          /\ m \in AppendRequest /\ Becomes(m.to, p)
          /\ Rest(N[m.to], c, m.from) /\ c.role = "follower"
          /\ c.disk.term = m.term /\ Install(c, p, m) /\ wire' \in SUBSET wire
    BY <2>1
  <2>3. m \in A /\ m.to \in Node
    BY <2>2 DEF Appends, A, AppendRequest
  <2>4. nodes' = [N EXCEPT ![m.to] = p]
    BY <2>2 DEF Becomes, N
  <2>5. Taken(N, [N EXCEPT ![m.to] = p], A, B, m.to, m)
    BY <1>1, <1>5, <2>2, <2>3, InstallTaken
  <2> QED BY <1>6, <2>2, <2>3, <2>4, <2>5 DEF Goal, SafeStep, N, A, B, U, V
<1> QED BY <1>4, <1>11, <1>12, <1>13, <1>14, <1>15, <1>16, <1>17, <1>18, <1>19
        DEF NextKind, Goal

-----------------------------------------------------------------------------
(* The invariant of every reachable state. *)

SafetyInv == LogsInv /\ SafeInv(nodes, Appends, Polls)

(* The nodes and requests of a state are good. *)
LEMMA StateGood ==
  ASSUME LogsInv
  PROVE  Good(nodes, Appends)
<1>1. nodes \in [Node -> NodeState] /\ Sane(nodes, Appends) /\ OneReign(nodes)
      /\ LogInv(nodes, Appends)
  BY StateSane, OneReignOf DEF LogsInv
<1>2. \A i, j \in Node : \A t \in Nat : <<t, i>> \in nodes[j].ballots => t <= TermOf(nodes, j)
  BY DEF LogsInv, ElectionInv, BallotsRecorded, Ballot, TermOf
<1>3. FixedLeader = Nil => \A i \in Node : \A t \in nodes[i].reigns :
                             Majority({j \in Node : <<t, i>> \in nodes[j].ballots})
  BY DEF LogsInv, ElectionInv, ReignsElected, Backers, Ballot
<1>4. FixedLeader # Nil => \A i \in Node : \A t \in nodes[i].reigns : i = FixedLeader
  BY DEF LogsInv, ElectionInv, FixedReigns
<1> QED BY <1>1, <1>2, <1>3, <1>4 DEF Good, Elected

(* Every step keeps the invariant, and is steady. *)
LEMMA SafetyInvStep ==
  ASSUME SafetyInv, [Next]_vars
  PROVE  SafetyInv' /\ Steady(nodes, nodes', Appends, Appends')
<1>1. LogsInv /\ SafeInv(nodes, Appends, Polls) /\ NodeInv /\ LogInv(nodes, Appends)
  BY DEF SafetyInv, LogsInv
<1>2. LogsInv' /\ NodeInv'
  BY <1>1, LogsInvStep DEF LogsInv
<1>3. NextKind
  BY <1>1, NextKinds
<1>4. Good(nodes, Appends)
  BY <1>1, StateGood
<1>5. Good(nodes', Appends')
  <2>1. (LogsInv => Good(nodes, Appends))'
    BY StateGood, PTL
  <2> QED BY <1>2, <2>1
<1>6. SafeStep(nodes, nodes', Appends, Appends', Polls, Polls')
  BY <1>1, <1>2, <1>3, SafeKinds
<1>7. SafeInv(nodes', Appends', Polls') /\ Steady(nodes, nodes', Appends, Appends')
  BY <1>1, <1>4, <1>5, <1>6, StepSafe
<1> QED BY <1>2, <1>7 DEF SafetyInv

(* Nobody has stored anything. *)
LEMMA SafetyInvInit ==
  ASSUME Init
  PROVE  SafetyInv
<1>1. LogsInv
  BY LogsInvInit
<1>2. Good(nodes, Appends)
  BY <1>1, StateGood
<1>3. /\ \A i \in Node : /\ nodes[i].stored = {} /\ nodes[i].ballots = {}
                         /\ nodes[i].disk = EmptyStore
      /\ Appends = {} /\ Polls = {}
  BY DEF Init, NewNode, Appends, Polls
<1>4. \A s \in Logs(nodes, Appends) : Len(s) = 0
  <2>1. Len(FullLog(EmptyStore)) = 0
    <3> DEFINE log == <<Sentinel>>
    <3>1. EmptyStore.snap = <<>> /\ EmptyStore.log = log
      BY DEF EmptyStore
    <3>2. Tail(log) = <<>>
      OBVIOUS
    <3>3. FullLog(EmptyStore) = <<>> \o <<>>
      BY <3>1, <3>2 DEF FullLog
    <3> QED BY <3>3
  <2> QED BY <1>3, <2>1 DEF Logs, LogOf
<1>5. \A i \in Node : Len(LogOf(nodes, i)) = 0
  BY <1>2, <1>4, NodeFacts
<1> QED BY <1>1, <1>3, <1>4, <1>5
        DEF SafetyInv, SafeInv, Kept, Behind, Asking, Inherited, Heeded, Stays, Backed

(* Every reachable state. *)
LEMMA SafetyInvAlways == Spec => []SafetyInv
<1>1. Init => SafetyInv
  BY SafetyInvInit
<1>2. SafetyInv /\ [Next]_vars => SafetyInv'
  BY SafetyInvStep
<1> QED BY <1>1, <1>2, PTL DEF Spec

-----------------------------------------------------------------------------
(***************************************************************************)
(* What is committed stays, for every cluster: nobody's committed log      *)
(* contradicts another's, leaders hold it, clients were answered from it,  *)
(* compaction drops only what everybody holds, and no handler of           *)
(* AppendEntries ever meets a request it would call corrupt.               *)
(*                                                                         *)
(* A leader's match table, and the acknowledgements under way to it, are   *)
(* pledges of the followers (PledgeInv): whoever pledged index k stored    *)
(* the entry there if it is of the leader's term.  So a commit index is    *)
(* Sealed: at it or above it an entry was chosen, in a term not later than *)
(* the node's, and every log that holds the entry agrees up to the index.  *)
(* The invariants of choosable entries then say that seals last and that   *)
(* leaders and their requests respect them.                                *)
(***************************************************************************)

CommitOf(N, i) == N[i].disk.commit
BaseOf(N, i) == N[i].disk.base

(* Leader i counts on j for index k, or may: R are the requests answered     *)
(* with success.                                                             *)
Pledged(N, R, i, j, k) ==
  \/ k <= N[i].match[j]
  \/ \E m \in R : m.from = i /\ m.to = j /\ m.term = TermOf(N, i) /\ k <= Len(m.whole)

Secured(N, i, j, k) ==
  /\ k <= Len(LogOf(N, i)) /\ TermOf(N, i) <= TermOf(N, j)
  /\ LogOf(N, i)[k].term = TermOf(N, i) => <<k, TermOf(N, i)>> \in N[j].stored
  /\ TermOf(N, j) = TermOf(N, i) =>
       k <= Len(LogOf(N, j)) /\ Alike(LogOf(N, j), LogOf(N, i), k)

PledgeInv(N, R) ==
  \A i, j \in Node : \A k \in Nat :
    N[i].role = "leader" /\ 0 < k /\ Pledged(N, R, i, j, k) => Secured(N, i, j, k)

(* The first c entries of s are final, by a choice made in term b or before. *)
Sealed(N, A, s, c, b) ==
  \/ c = 0
  \/ \E k, t \in Nat : /\ c <= k /\ t <= b /\ Chosen(N, k, t)
                       /\ \A u \in Logs(N, A) : Holds(u, k, t) => Alike(u, s, c)

-----------------------------------------------------------------------------
(* Seals. *)

(* A seal lasts. *)
LEMMA SealOn ==
  ASSUME NEW N, NEW M, NEW A, NEW B, Steady(N, M, A, B), NEW s, NEW c \in Nat, NEW b,
         Sealed(N, A, s, c, b)
  PROVE  Sealed(M, B, s, c, b)
<1>1. CASE c = 0
  BY <1>1 DEF Sealed
<1>2. ASSUME NEW k \in Nat, NEW t \in Nat, c <= k, t <= b, Chosen(N, k, t),
             \A u \in Logs(N, A) : Holds(u, k, t) => Alike(u, s, c)
      PROVE  Sealed(M, B, s, c, b)
  <2>1. Chosen(M, k, t)
    BY <1>2, ChosenOn DEF Steady
  <2>2. ASSUME NEW v \in Logs(M, B), Holds(v, k, t) PROVE Alike(v, s, c)
    <3>1. PICK u \in Logs(N, A) : Holds(u, k, t) /\ Alike(v, u, k)
      BY <1>2, <2>2 DEF Steady, Traced
    <3>2. Alike(u, s, c)
      BY <1>2, <3>1
    <3>3. \A x \in 1 .. c : x \in 1 .. k
      BY <1>2
    <3> QED BY <3>1, <3>2, <3>3 DEF Alike
  <2> QED BY <1>2, <2>1, <2>2 DEF Sealed
<1> QED BY <1>1, <1>2 DEF Sealed

(* A seal covers shorter prefixes, of logs that are alike, in later terms. *)
LEMMA SealLess ==
  ASSUME NEW N, NEW A, NEW s, NEW c \in Nat, NEW b \in Nat, Sealed(N, A, s, c, b),
         NEW u, NEW d \in Nat, d <= c, Alike(u, s, d), NEW e \in Nat, b <= e
  PROVE  Sealed(N, A, u, d, e)
<1>1. CASE d = 0
  BY <1>1 DEF Sealed
<1>2. CASE d # 0
  <2>1. PICK k \in Nat, t \in Nat :
          /\ c <= k /\ t <= b /\ Chosen(N, k, t)
          /\ \A v \in Logs(N, A) : Holds(v, k, t) => Alike(v, s, c)
    BY <1>2 DEF Sealed
  <2>2. d <= k /\ t <= e
    BY <2>1
  <2>3. ASSUME NEW v \in Logs(N, A), Holds(v, k, t) PROVE Alike(v, u, d)
    <3>1. Alike(v, s, c) /\ \A x \in 1 .. d : x \in 1 .. c
      BY <2>1, <2>3
    <3> QED BY <3>1 DEF Alike
  <2> QED BY <2>1, <2>2, <2>3 DEF Sealed
<1> QED BY <1>1, <1>2

(* Somebody's log holds what seals. *)
LEMMA SealHeld ==
  ASSUME NEW N, NEW A, Good(N, A), Stays(N), NEW s, NEW c \in Nat, NEW b,
         Sealed(N, A, s, c, b), c # 0
  PROVE  \E k, t \in Nat : \E u \in Logs(N, A) :
           /\ c <= k /\ t <= b /\ Chosen(N, k, t) /\ Choosable(N, k, t)
           /\ Holds(u, k, t) /\ Alike(u, s, c)
           /\ \A v \in Logs(N, A) : Holds(v, k, t) => Alike(v, s, c)
<1>1. PICK k \in Nat, t \in Nat :
        /\ c <= k /\ t <= b /\ Chosen(N, k, t)
        /\ \A v \in Logs(N, A) : Holds(v, k, t) => Alike(v, s, c)
  BY DEF Sealed
<1>2. PICK j \in Node : Choosable(N, k, t) /\ Holds(LogOf(N, j), k, t)
  BY <1>1, ChosenHeld
<1>3. LogOf(N, j) \in Logs(N, A)
  BY NodeFacts
<1> QED BY <1>1, <1>2, <1>3

(* A request agrees with what was sealed in its term or before. *)
LEMMA SealedAgrees ==
  ASSUME NEW N, NEW A, Good(N, A), Stays(N), Heeded(N, A), NEW m \in A,
         NEW s, NEW c \in Nat, NEW b \in Nat, Sealed(N, A, s, c, b), b <= m.term
  PROVE  \A x \in 1 .. c : x <= Len(m.whole) => m.whole[x] = s[x]
<1>1. CASE c = 0
  BY <1>1
<1>2. CASE c # 0
  <2>1. PICK k \in Nat, t \in Nat, u \in Logs(N, A) :
          /\ c <= k /\ t <= b /\ Choosable(N, k, t) /\ Holds(u, k, t) /\ Alike(u, s, c)
    BY <1>2, SealHeld
  <2>2. t <= m.term
    BY <2>1, RequestFacts
  <2>3. \A x \in 1 .. k : x <= Len(m.whole) => m.whole[x] = u[x]
    BY <2>1, <2>2, RequestAgrees
  <2>4. \A x \in 1 .. c : x \in 1 .. k
    BY <2>1
  <2> QED BY <2>1, <2>3, <2>4 DEF Alike
<1> QED BY <1>1, <1>2

(* A leader holds what was sealed in its term or before. *)
LEMMA SealedLeader ==
  ASSUME NEW N, NEW A, Good(N, A), Stays(N), Inherited(N, A),
         NEW i \in Node, N[i].role = "leader",
         NEW s, NEW c \in Nat, NEW b \in Nat, Sealed(N, A, s, c, b), b <= TermOf(N, i)
  PROVE  c <= Len(LogOf(N, i)) /\ Alike(LogOf(N, i), s, c)
<1> DEFINE L == LogOf(N, i)
<1>1. L \in Logs(N, A) /\ Len(L) \in Nat /\ TermOf(N, i) \in Nat
  BY NodeFacts
<1>2. CASE c = 0
  BY <1>1, <1>2 DEF Alike
<1>3. CASE c # 0
  <2>1. PICK k \in Nat, t \in Nat, u \in Logs(N, A) :
          /\ c <= k /\ t <= b /\ Choosable(N, k, t) /\ Holds(u, k, t)
          /\ \A v \in Logs(N, A) : Holds(v, k, t) => Alike(v, s, c)
    BY <1>3, SealHeld
  <2>2. Holds(L, k, t)
    <3>1. CASE t < TermOf(N, i)
      BY <2>1, <3>1, LeaderInherits
    <3>2. CASE t = TermOf(N, i)
      <4>1. Has(L, k, t)
        BY <2>1, <3>2 DEF Good, LogInv, OwnLog, Holds
      <4> QED BY <1>1, <2>1, <4>1 DEF Has, Holds
    <3> QED BY <1>1, <2>1, <3>1, <3>2
  <2>3. Alike(L, s, c)
    BY <1>1, <2>1, <2>2
  <2>4. c <= Len(L)
    <3> HIDE DEF L
    <3> QED BY <1>1, <2>1, <2>2 DEF Holds
  <2> QED BY <2>3, <2>4
<1> QED BY <1>2, <1>3

(* Two seals agree. *)
LEMMA SealsMeet ==
  ASSUME NEW N, NEW A, Good(N, A), Stays(N), Inherited(N, A),
         NEW s, NEW c \in Nat, NEW b, Sealed(N, A, s, c, b),
         NEW u, NEW d \in Nat, NEW e, Sealed(N, A, u, d, e),
         NEW x \in 1 .. c, x \in 1 .. d
  PROVE  s[x] = u[x]
<1>1. PICK k \in Nat, t \in Nat, v \in Logs(N, A) :
        /\ Choosable(N, k, t) /\ Holds(v, k, t)
        /\ \A w \in Logs(N, A) : Holds(w, k, t) => Alike(w, s, c)
  <2>1. c # 0
    OBVIOUS
  <2> QED BY <2>1, SealHeld
<1>2. PICK l \in Nat, r \in Nat, y \in Logs(N, A) :
        /\ Choosable(N, l, r) /\ Holds(y, l, r)
        /\ \A w \in Logs(N, A) : Holds(w, l, r) => Alike(w, u, d)
  <2>1. d # 0
    OBVIOUS
  <2> QED BY <2>1, SealHeld
<1>3. \E w \in Logs(N, A) : Holds(w, k, t) /\ Holds(w, l, r)
  <2>1. CASE t < r
    <3>1. Holds(y, k, t)
      BY <1>1, <1>2, <2>1 DEF Inherited, Holds
    <3> QED BY <1>2, <3>1
  <2>2. CASE r < t
    <3>1. Holds(v, l, r)
      BY <1>1, <1>2, <2>2 DEF Inherited, Holds
    <3> QED BY <1>1, <3>1
  <2>3. CASE r = t /\ k <= l
    <3>1. /\ k \in 1 .. Len(v) /\ l \in k .. Len(y) /\ k \in 1 .. Len(y)
          /\ v[k].term = y[l].term
      BY <1>1, <1>2, <2>3, SeqFacts DEF Holds
    <3>2. y[k].term = v[k].term
      BY <3>1 DEF Good, LogInv, Contiguous
    <3>3. Holds(y, k, t)
      BY <1>1, <3>1, <3>2 DEF Holds
    <3> QED BY <1>2, <3>3
  <2>4. CASE r = t /\ l <= k
    <3>1. /\ l \in 1 .. Len(y) /\ k \in l .. Len(v) /\ l \in 1 .. Len(v)
          /\ y[l].term = v[k].term
      BY <1>1, <1>2, <2>4, SeqFacts DEF Holds
    <3>2. v[l].term = y[l].term
      BY <3>1 DEF Good, LogInv, Contiguous
    <3>3. Holds(v, l, r)
      BY <1>2, <3>1, <3>2 DEF Holds
    <3> QED BY <1>1, <3>3
  <2> QED BY <2>1, <2>2, <2>3, <2>4
<1>4. PICK w \in Logs(N, A) : Alike(w, s, c) /\ Alike(w, u, d)
  BY <1>1, <1>2, <1>3
<1> QED BY <1>4 DEF Alike

(* A node keeps what it holds of a seal that is not later than its term. *)
LEMMA SealedKept ==
  ASSUME NEW N, NEW M, NEW A, NEW B, Good(N, A), Good(M, B), Stays(N), Heeded(N, A),
         Steady(N, M, A, B), NEW j \in Node, NEW s, NEW c \in Nat, NEW b \in Nat,
         Sealed(N, A, s, c, b), b <= TermOf(N, j),
         c <= Len(LogOf(N, j)), Alike(LogOf(N, j), s, c)
  PROVE  c <= Len(LogOf(M, j)) /\ Alike(LogOf(M, j), s, c)
<1> DEFINE L == LogOf(N, j)
           K == LogOf(M, j)
<1>1. /\ L \in Seq(Entry) /\ K \in Seq(Entry) /\ Len(L) \in Nat /\ Len(K) \in Nat
      /\ TermOf(N, j) \in Nat
  BY NodeFacts
<1>2. CASE Begins(L, K)
  <2>1. c <= Len(K) /\ \A x \in 1 .. c : x \in 1 .. Len(L)
    <3> HIDE DEF L, K
    <3> QED BY <1>1, <1>2 DEF Begins, L
  <2> QED BY <1>2, <2>1 DEF Begins, Alike
<1>3. ASSUME NEW m \in A, TermOf(N, j) <= m.term, NEW f \in Nat, Replaces(L, K, m, f)
      PROVE  c <= Len(K) /\ Alike(K, s, c)
  <2>1. /\ m.whole \in Seq(Entry) /\ m.prev \in Nat /\ m.term \in Nat
    BY RequestFacts
  <2>2. b <= m.term
    BY <1>1, <1>3, <2>1
  <2>3. \A x \in 1 .. c : x <= Len(m.whole) => m.whole[x] = L[x]
    BY <2>2, SealedAgrees DEF Alike
  <2>4. c <= Len(K) /\ Alike(K, L, c)
    <3> HIDE DEF L, K
    <3>1. c <= Len(L)
      BY DEF L
    <3> QED BY <1>1, <1>3, <2>1, <2>3, <3>1, ReplaceKeeps
  <2> QED BY <2>4 DEF Alike
<1> QED BY <1>2, <1>3 DEF Steady, Rooted

-----------------------------------------------------------------------------
(* Pledges. *)

(* What a leader may commit is chosen. *)
LEMMA QuorateChosen ==
  ASSUME NEW N, NEW A, NEW R, Good(N, A), Kept(N), PledgeInv(N, R),
         NEW i \in Node, N[i].role = "leader",
         NEW k \in 1 .. Len(LogOf(N, i)), LogOf(N, i)[k].term = TermOf(N, i),
         NEW Q \in SUBSET Node, Majority(Q), i \in Q,
         \A j \in Q : j = i \/ Pledged(N, R, i, j, k)
  PROVE  Chosen(N, k, TermOf(N, i))
<1>1. k \in Nat /\ 0 < k
  OBVIOUS
<1>2. ASSUME NEW j \in Q PROVE <<k, TermOf(N, i)>> \in N[j].stored
  <2>1. CASE j = i
    BY <2>1 DEF Kept
  <2>2. CASE j # i
    <3>1. Secured(N, i, j, k)
      BY <1>1, <2>2 DEF PledgeInv
    <3> QED BY <3>1 DEF Secured
  <2> QED BY <2>1, <2>2
<1>3. FixedLeader # Nil => FixedLeader \in Q
  <2>1. TermOf(N, i) \in N[i].reigns
    BY DEF Good, LogInv, Reigning
  <2> QED BY <2>1 DEF Good, Elected
<1>4. Q \in Quora
  BY <1>3 DEF Quora
<1> QED BY <1>2, <1>4 DEF Chosen

(* Nobody gets a new pledge or becomes leader. *)
Eases(N, M, R, S) ==
  \A i \in Node : M[i].role = "leader" =>
    /\ N[i].role = "leader" /\ TermOf(M, i) = TermOf(N, i)
    /\ \A j \in Node : \A k \in Nat : 0 < k /\ Pledged(M, S, i, j, k) => Pledged(N, R, i, j, k)

LEMMA EasesPledges ==
  ASSUME NEW N, NEW M, NEW A, NEW B, NEW R, NEW S, Good(N, A), Good(M, B), Still(N, M),
         PledgeInv(N, R), Eases(N, M, R, S)
  PROVE  PledgeInv(M, S)
<1> SUFFICES ASSUME NEW i \in Node, NEW j \in Node, NEW k \in Nat, M[i].role = "leader",
                    0 < k, Pledged(M, S, i, j, k)
             PROVE  Secured(M, i, j, k)
  BY DEF PledgeInv
<1>1. N[i].role = "leader" /\ TermOf(M, i) = TermOf(N, i) /\ Pledged(N, R, i, j, k)
  BY DEF Eases
<1>2. Secured(N, i, j, k)
  BY <1>1 DEF PledgeInv
<1>3. /\ LogOf(M, i) = LogOf(N, i) /\ LogOf(M, j) = LogOf(N, j) /\ M[j].stored = N[j].stored
      /\ TermOf(N, j) <= TermOf(M, j) /\ TermOf(N, j) \in Nat /\ TermOf(M, j) \in Nat
      /\ TermOf(N, i) \in Nat
  BY NodeFacts DEF Still
<1>4. /\ TermOf(M, i) <= TermOf(M, j)
      /\ TermOf(M, j) = TermOf(M, i) => TermOf(N, j) = TermOf(N, i)
  BY <1>1, <1>2, <1>3 DEF Secured
<1> QED BY <1>1, <1>2, <1>3, <1>4 DEF Secured

(* Node i counts its own log, and of the others what it knew as a leader of  *)
(* the same term.                                                            *)
Tallied(N, M, i) ==
  /\ M[i].match[i] = Len(LogOf(M, i))
  /\ \/ N[i].role = "leader" /\ \A j \in Node \ {i} : M[i].match[j] = N[i].match[j]
     \/ TermOf(M, i) \notin N[i].reigns /\ \A j \in Node \ {i} : M[i].match[j] = 0

(* A new leader has no pledges, an old one keeps them. *)
LEMMA GrownPledges ==
  ASSUME NEW N, NEW M, NEW A, NEW B, NEW R, NEW S, NEW i \in Node, Good(N, A), Good(M, B),
         R \in SUBSET A, S \in SUBSET R, S \in SUBSET B, Kept(M),
         PledgeInv(N, R), Grown(N, M, A, B, i), Tallied(N, M, i)
  PROVE  /\ PledgeInv(M, S)
         /\ \A j \in Node \ {i} : \A k \in Nat : 0 < k /\ Pledged(M, S, i, j, k) =>
              N[i].role = "leader" /\ TermOf(M, i) = TermOf(N, i) /\ Pledged(N, R, i, j, k)
<1> DEFINE L == LogOf(N, i)
           K == LogOf(M, i)
           T == TermOf(M, i)
<1>1. /\ \A j \in Node \ {i} : M[j] = N[j]
      /\ M[i].role = "leader" /\ T \in M[i].reigns /\ N[i].stored \subseteq M[i].stored
      /\ TermOf(N, i) <= T
  BY DEF Grown, Extended
<1>2. \A j \in Node : /\ TermOf(N, j) \in Nat /\ TermOf(M, j) \in Nat
                      /\ Len(LogOf(N, j)) \in Nat /\ Len(LogOf(M, j)) \in Nat
  BY NodeFacts
<1>3. Len(K) = Len(L) + 1 /\ \A x \in 1 .. Len(L) : K[x] = L[x]
  BY DEF Grown, Extended, Longer, Alike
<1>4. \A j \in Node \ {i} : LogOf(M, j) = LogOf(N, j) /\ TermOf(M, j) = TermOf(N, j)
  BY <1>1 DEF LogOf, TermOf
<1>5. ASSUME NEW j \in Node \ {i}, NEW k \in Nat, 0 < k, Pledged(M, S, i, j, k)
      PROVE  N[i].role = "leader" /\ T = TermOf(N, i) /\ Pledged(N, R, i, j, k)
  <2>1. CASE N[i].role = "leader" /\ \A x \in Node \ {i} : M[i].match[x] = N[i].match[x]
    <3>1. T = TermOf(N, i)
      BY <2>1 DEF Grown
    <3> QED BY <1>5, <2>1, <3>1 DEF Pledged
  <2>2. CASE T \notin N[i].reigns /\ \A x \in Node \ {i} : M[i].match[x] = 0
    <3>1. ~(k <= M[i].match[j])
      BY <1>5, <2>2
    <3>2. PICK m \in S : m.from = i /\ m.term = T
      BY <1>5, <3>1 DEF Pledged
    <3>3. m.term \in N[m.from].reigns
      BY <3>2 DEF Good, LogInv, AppendsLed
    <3> QED BY <2>2, <3>2, <3>3
  <2> QED BY <2>1, <2>2 DEF Tallied
<1>6. PledgeInv(M, S)
  <2> SUFFICES ASSUME NEW x \in Node, NEW j \in Node, NEW k \in Nat, M[x].role = "leader",
                      0 < k, Pledged(M, S, x, j, k)
               PROVE  Secured(M, x, j, k)
    BY DEF PledgeInv
  <2>1. CASE x = i /\ j = i
    <3>1. k <= Len(K)
      <4>1. CASE k <= M[i].match[i]
        BY <4>1 DEF Tallied
      <4>2. ASSUME NEW m \in S, m.term = T, k <= Len(m.whole) PROVE k <= Len(K)
        <5>1. Begins(m.whole, K)
          BY <1>1, <4>2 DEF Good, LogInv, LeaderPrefix
        <5>2. Len(m.whole) \in Nat
          BY RequestFacts
        <5> HIDE DEF K
        <5>3. Len(K) \in Nat
          BY <1>2 DEF K
        <5> QED BY <4>2, <5>1, <5>2, <5>3 DEF Begins
      <4> QED BY <2>1, <4>1, <4>2 DEF Pledged
    <3>2. k \in 1 .. Len(K)
      BY <1>2, <3>1
    <3>3. K[k].term = T => <<k, T>> \in M[i].stored
      BY <3>2 DEF Kept
    <3> QED BY <1>2, <2>1, <3>1, <3>3 DEF Secured, Alike
  <2>2. CASE x = i /\ j # i
    <3>1. N[i].role = "leader" /\ T = TermOf(N, i) /\ Pledged(N, R, i, j, k)
      BY <1>5, <2>2
    <3>2. Secured(N, i, j, k)
      BY <3>1 DEF PledgeInv
    <3>3. k \in 1 .. Len(L) /\ k <= Len(K) /\ \A y \in 1 .. k : y \in 1 .. Len(L)
      <4> DEFINE len == Len(L)
      <4>1. k <= len /\ len \in Nat /\ Len(K) = len + 1
        BY <1>2, <1>3, <3>2 DEF Secured
      <4> HIDE DEF len
      <4>2. k \in 1 .. len /\ k <= len + 1 /\ \A y \in 1 .. k : y \in 1 .. len
        BY <4>1
      <4> QED BY <4>1, <4>2 DEF len
    <3>4. K[k] = L[k] /\ Alike(K, L, k)
      BY <1>3, <3>3 DEF Alike
    <3>5. M[j] = N[j] /\ LogOf(M, j) = LogOf(N, j) /\ TermOf(M, j) = TermOf(N, j)
      BY <1>1, <1>4, <2>2
    <3> HIDE DEF K, L, T
    <3>6. K = LogOf(M, i) /\ L = LogOf(N, i) /\ T = TermOf(M, i)
      BY DEF K, L, T
    <3> QED BY <2>2, <3>1, <3>2, <3>3, <3>4, <3>5, <3>6 DEF Secured, Alike
  <2>3. CASE x # i
    <3>1. /\ N[x].role = "leader" /\ M[x] = N[x] /\ LogOf(M, x) = LogOf(N, x)
          /\ TermOf(M, x) = TermOf(N, x)
      BY <1>1, <1>4, <2>3
    <3>2. Pledged(N, R, x, j, k)
      BY <3>1 DEF Pledged
    <3>3. Secured(N, x, j, k)
      BY <3>1, <3>2 DEF PledgeInv
    <3>4. CASE j # i
      BY <1>1, <1>4, <3>1, <3>3, <3>4 DEF Secured
    <3>5. CASE j = i
      <4>1. T # TermOf(M, x)
        <5>1. TermOf(M, x) \in M[x].reigns
          BY DEF Good, LogInv, Reigning
        <5> QED BY <1>1, <2>3, <5>1 DEF Good, Elected, OneReign
      <4>2. TermOf(M, x) <= T
        BY <1>1, <1>2, <3>1, <3>3, <3>5 DEF Secured
      <4> QED BY <1>1, <3>1, <3>3, <3>5, <4>1, <4>2 DEF Secured
    <3> QED BY <3>4, <3>5
  <2> QED BY <2>1, <2>2, <2>3
<1> QED BY <1>5, <1>6

(* A follower that acknowledges a request holds it, and what it pledged      *)
(* before.                                                                   *)
LEMMA TakenPledges ==
  ASSUME NEW N, NEW M, NEW A, NEW B, NEW R, NEW S, NEW i \in Node, NEW m,
         Good(N, A), Good(M, B), R \in SUBSET A, S \in SUBSET (R \cup {m}), m.to = i,
         Kept(M), Moved(N, M), PledgeInv(N, R), Taken(N, M, A, B, i, m)
  PROVE  PledgeInv(M, S)
<1> DEFINE L == LogOf(N, i)
           K == LogOf(M, i)
           W == m.whole
<1>1. /\ m \in A /\ \A j \in Node \ {i} : M[j] = N[j]
      /\ TermOf(N, i) <= m.term /\ TermOf(M, i) = m.term
      /\ M[i].role = "follower" /\ N[i].stored \subseteq M[i].stored
  BY DEF Taken
<1>2. PICK f \in Nat : Replaces(L, K, m, f)
  BY DEF Taken
<1>3. /\ L \in Seq(Entry) /\ K \in Seq(Entry) /\ W \in Seq(Entry) /\ m.prev \in Nat
      /\ m.term \in Nat /\ Len(W) \in Nat /\ Len(K) \in Nat
      /\ \A j \in Node : TermOf(N, j) \in Nat
  BY <1>1, NodeFacts, RequestFacts
<1>4. \A j \in Node \ {i} : LogOf(M, j) = LogOf(N, j) /\ TermOf(M, j) = TermOf(N, j)
  BY <1>1 DEF LogOf, TermOf
<1>5. Begins(W, K)
  BY TakenSteady
<1> SUFFICES ASSUME NEW x \in Node, NEW j \in Node, NEW k \in Nat, M[x].role = "leader",
                    0 < k, Pledged(M, S, x, j, k)
             PROVE  Secured(M, x, j, k)
  BY DEF PledgeInv
<1> DEFINE X == LogOf(N, x)
<1>6. /\ x # i /\ N[x].role = "leader" /\ M[x] = N[x] /\ LogOf(M, x) = X
      /\ TermOf(M, x) = TermOf(N, x)
  BY <1>1, <1>4
<1>7. X \in Seq(Entry) /\ Len(X) \in Nat
  BY NodeFacts
<1>8. TermOf(N, x) = m.term => Begins(W, X)
  BY <1>1, <1>6 DEF Good, LogInv, LeaderPrefix
<1> HIDE DEF L, K, W, X
<1>9. CASE Pledged(N, R, x, j, k)
  <2>1. Secured(N, x, j, k)
    BY <1>6, <1>9 DEF PledgeInv
  <2>2. CASE j # i
    BY <1>1, <1>4, <1>6, <2>1, <2>2 DEF Secured, X
  <2>3. CASE j = i
    <3>1. /\ k <= Len(X) /\ TermOf(N, x) <= TermOf(N, i)
          /\ X[k].term = TermOf(N, x) => <<k, TermOf(N, x)>> \in N[i].stored
          /\ TermOf(N, i) = TermOf(N, x) => k <= Len(L) /\ Alike(L, X, k)
      BY <2>1, <2>3 DEF Secured, X, L
    <3>2. TermOf(N, x) <= m.term
      BY <1>1, <1>3, <3>1
    <3>3. ASSUME m.term = TermOf(N, x) PROVE k <= Len(K) /\ Alike(K, X, k)
      <4>1. TermOf(N, i) = TermOf(N, x)
        BY <1>1, <1>3, <3>1, <3>3
      <4>2. \A y \in 1 .. k : y <= Len(m.whole) => m.whole[y] = L[y]
        <5>1. \A y \in 1 .. k : y <= Len(W) => y \in 1 .. Len(W)
          BY <1>3
        <5>2. \A y \in 1 .. k : y <= Len(W) => W[y] = L[y]
          BY <1>8, <3>1, <3>3, <4>1, <5>1 DEF Begins, Alike
        <5> QED BY <5>2 DEF W
      <4>3. k <= Len(K) /\ Alike(K, L, k)
        BY <1>2, <1>3, <3>1, <4>1, <4>2, ReplaceKeeps DEF W
      <4> QED BY <3>1, <4>1, <4>3 DEF Alike
    <3> QED BY <1>1, <1>6, <2>3, <3>1, <3>2, <3>3 DEF Secured, K
  <2> QED BY <2>2, <2>3
<1>10. CASE ~Pledged(N, R, x, j, k)
  <2>1. j = i /\ m.term = TermOf(N, x) /\ k <= Len(W)
    BY <1>6, <1>10 DEF Pledged, W
  <2>2. Begins(W, X)
    BY <1>8, <2>1
  <2>3. k <= Len(K) /\ k <= Len(X) /\ k \in 1 .. Len(K) /\ \A y \in 1 .. k : y \in 1 .. Len(W)
    BY <1>3, <1>5, <1>7, <2>1, <2>2 DEF Begins
  <2>4. Alike(K, X, k)
    BY <1>5, <2>2, <2>3 DEF Begins, Alike
  <2>5. K[k] = X[k]
    <3>1. k \in 1 .. k
      OBVIOUS
    <3> QED BY <2>4, <3>1 DEF Alike
  <2>6. K[k].term = m.term => <<k, m.term>> \in M[i].stored
    BY <1>1, <2>3 DEF Kept, K
  <2>7. TermOf(M, x) <= TermOf(M, i)
    BY <1>1, <1>3, <1>6, <2>1
  <2> QED BY <1>1, <1>6, <2>1, <2>3, <2>4, <2>5, <2>6, <2>7 DEF Secured, K
<1> QED BY <1>9, <1>10

-----------------------------------------------------------------------------
(* Commit indices. *)

(* What a node has committed is sealed in its term. *)
CommitsSealed(N, A) ==
  \A i \in Node : Sealed(N, A, LogOf(N, i), CommitOf(N, i), TermOf(N, i))

(* What a request tells a follower to commit is sealed in the request's. *)
RequestsSealed(N, A) ==
  \A m \in A : Sealed(N, A, m.whole, Smaller(m.commit, Len(m.whole)), m.term)

(* Whoever pledged what its leader has committed holds it for ever, in later *)
(* terms too.                                                                *)
PledgesHeld(N, R) ==
  \A i, j \in Node : N[i].role = "leader" /\ Pledged(N, R, i, j, CommitOf(N, i)) =>
    CommitOf(N, i) <= Len(LogOf(N, j)) /\ Alike(LogOf(N, j), LogOf(N, i), CommitOf(N, i))

(* What a node has compacted is sealed in a term everybody has reached, and  *)
(* everybody holds it.                                                       *)
BasesHeld(N, A) ==
  \A i \in Node : BaseOf(N, i) # 0 =>
    \E b \in Nat : /\ Sealed(N, A, LogOf(N, i), BaseOf(N, i), b)
                   /\ \A j \in Node : /\ b <= TermOf(N, j) /\ BaseOf(N, i) <= Len(LogOf(N, j))
                                      /\ Alike(LogOf(N, j), LogOf(N, i), BaseOf(N, i))

(* What a client was told is in a sealed log. *)
AnswersSealed(N, A) ==
  \A i \in Node : \A a \in N[i].answered :
    \E s : \E c, b \in Nat : /\ a.index \in 1 .. c /\ Sealed(N, A, s, c, b)
                             /\ s[a.index] = a.entry

CommitInv(N, A, R) ==
  /\ PledgeInv(N, R) /\ CommitsSealed(N, A) /\ RequestsSealed(N, A)
  /\ PledgesHeld(N, R) /\ BasesHeld(N, A) /\ AnswersSealed(N, A)

(* Leader i's commit index is of its own term and chosen. *)
Decided(M, i) ==
  /\ CommitOf(M, i) \in 1 .. Len(LogOf(M, i))
  /\ LogOf(M, i)[CommitOf(M, i)].term = TermOf(M, i)
  /\ Chosen(M, CommitOf(M, i), TermOf(M, i))

(* What a step may do to node i's commit index and base, to the requests,    *)
(* and to the pledges of what leader i has committed.                        *)
CommitMove(N, M, A, i) ==
  \/ CommitOf(M, i) = CommitOf(N, i)
  \/ Decided(M, i)
  \/ \E m \in A : /\ m.term = TermOf(M, i) /\ Begins(m.whole, LogOf(M, i))
                  /\ CommitOf(M, i) = Smaller(m.commit, Len(m.whole))
BaseMove(N, M, S, i) ==
  \/ BaseOf(M, i) = BaseOf(N, i)
  \/ /\ M[i].role = "leader" /\ BaseOf(M, i) = CommitOf(M, i)
     /\ \A j \in Node \ {i} : Pledged(M, S, i, j, CommitOf(M, i))
RequestMoves(N, A, B) ==
  \A m \in B :
    \/ m \in A
    \/ \E i \in Node : /\ m.term = TermOf(N, i) /\ m.commit = CommitOf(N, i)
                       /\ Begins(m.whole, LogOf(N, i))
PledgeMove(N, M, R, S, i) ==
  M[i].role = "leader" /\ 0 < CommitOf(M, i) =>
    \A j \in Node \ {i} : Pledged(M, S, i, j, CommitOf(M, i)) =>
      \/ /\ N[i].role = "leader" /\ TermOf(M, i) = TermOf(N, i)
         /\ CommitOf(M, i) = CommitOf(N, i) /\ Pledged(N, R, i, j, CommitOf(N, i))
      \/ Decided(M, i)
      \/ /\ CommitOf(M, i) <= Len(LogOf(M, j))
         /\ Alike(LogOf(M, j), LogOf(M, i), CommitOf(M, i))

CommitMoves(N, M, A) == \A i \in Node : CommitMove(N, M, A, i)
BaseMoves(N, M, S) == \A i \in Node : BaseMove(N, M, S, i)
PledgeMoves(N, M, R, S) == \A i \in Node : PledgeMove(N, M, R, S, i)

Furthered(N, M, A, B, R, S) ==
  /\ CommitMoves(N, M, A) /\ RequestMoves(N, A, B) /\ PledgeMoves(N, M, R, S)
  /\ BaseMoves(N, M, S) /\ \A i \in Node : AnswersFrom(N[i], M[i])

(* Indices are in the log. *)
LEMMA CommitFacts ==
  ASSUME NEW N, NEW A, Good(N, A), NEW i \in Node
  PROVE  /\ CommitOf(N, i) \in Nat /\ BaseOf(N, i) \in Nat
         /\ CommitOf(N, i) <= Len(LogOf(N, i)) /\ BaseOf(N, i) <= CommitOf(N, i)
         /\ Alike(N[i].disk.snap, LogOf(N, i), BaseOf(N, i))
         /\ Len(N[i].disk.snap) = BaseOf(N, i) /\ N[i].disk.snap \in Seq(Entry)
<1>1. Whole(N[i].disk)
  BY NodeFacts
<1>2. N[i].disk \in Store /\ Len(N[i].disk.snap) = N[i].disk.base
  BY <1>1 DEF Whole
<1>3. N[i].disk.commit \in Nat /\ N[i].disk.base \in Nat /\ N[i].disk.snap \in Seq(Entry)
  BY <1>2, StoreTypes
<1> QED BY <1>1, <1>2, <1>3, WholeLog DEF CommitOf, BaseOf, LogOf

(* A decided index is sealed. *)
LEMMA DecidedSealed ==
  ASSUME NEW M, NEW B, Good(M, B), NEW i \in Node, Decided(M, i)
  PROVE  Sealed(M, B, LogOf(M, i), CommitOf(M, i), TermOf(M, i))
<1> DEFINE K == LogOf(M, i)
           c == CommitOf(M, i)
           T == TermOf(M, i)
<1>1. c \in Nat /\ T \in Nat /\ K \in Logs(M, B) /\ Len(K) \in Nat
  BY NodeFacts, CommitFacts
<1>2. c \in 1 .. Len(K) /\ K[c].term = T /\ Chosen(M, c, T)
  BY DEF Decided
<1>3. ASSUME NEW u \in Logs(M, B), Holds(u, c, T) PROVE Alike(u, K, c)
  <2> HIDE DEF K, c, T
  <2>1. c \in 1 .. Len(u) /\ c <= Len(K) /\ u[c].term = K[c].term
    BY <1>1, <1>2, <1>3 DEF Holds
  <2> QED BY <1>1, <2>1 DEF Good, LogInv, Matching
<1>4. c <= c /\ T <= T
  BY <1>1
<1> QED BY <1>1, <1>2, <1>3, <1>4 DEF Sealed

(* Every commit index stays sealed. *)
LEMMA CommitsOn ==
  ASSUME NEW N, NEW M, NEW A, NEW B, Good(N, A), Good(M, B), Stays(N), Heeded(N, A),
         Steady(N, M, A, B), CommitsSealed(N, A), RequestsSealed(N, A), CommitMoves(N, M, A)
  PROVE  CommitsSealed(M, B)
<1> SUFFICES ASSUME NEW i \in Node
             PROVE  Sealed(M, B, LogOf(M, i), CommitOf(M, i), TermOf(M, i))
  BY DEF CommitsSealed
<1> DEFINE L == LogOf(N, i)
           K == LogOf(M, i)
           c == CommitOf(N, i)
           d == CommitOf(M, i)
           T == TermOf(N, i)
           U == TermOf(M, i)
<1>1. /\ c \in Nat /\ d \in Nat /\ T \in Nat /\ U \in Nat /\ T <= U /\ c <= Len(L)
      /\ Len(L) \in Nat /\ Len(K) \in Nat /\ d <= Len(K)
  BY NodeFacts, CommitFacts DEF Steady, Moved
<1>2. CASE d = c
  <2>1. Sealed(N, A, L, c, T) /\ T <= T /\ Alike(L, L, c)
    BY <1>1 DEF CommitsSealed, Alike
  <2>2. Alike(K, L, c)
    <3> HIDE DEF c, T
    <3>1. c <= Len(LogOf(N, i)) /\ T <= TermOf(N, i) /\ Alike(LogOf(N, i), L, c)
      BY <1>1, <2>1 DEF T
    <3> QED BY <1>1, <2>1, <3>1, SealedKept
  <2>3. Sealed(M, B, L, c, T) /\ c <= c
    <3> HIDE DEF L, c, T
    <3> QED BY <1>1, <2>1, SealOn
  <2> HIDE DEF L, K, c, d, T, U
  <2>4. Sealed(M, B, K, c, U)
    BY <1>1, <2>2, <2>3, SealLess
  <2> QED BY <1>2, <2>4 DEF K, d, U
<1>3. CASE Decided(M, i)
  BY <1>3, DecidedSealed
<1>4. ASSUME NEW m \in A, m.term = U, Begins(m.whole, K), d = Smaller(m.commit, Len(m.whole))
      PROVE  Sealed(M, B, K, d, U)
  <2> DEFINE w == Smaller(m.commit, Len(m.whole))
  <2>1. m.term \in Nat /\ w \in Nat /\ w <= Len(m.whole) /\ Len(m.whole) \in Nat
    BY RequestFacts DEF Smaller
  <2>2. Sealed(N, A, m.whole, w, m.term)
    BY DEF RequestsSealed
  <2> HIDE DEF w
  <2>3. Sealed(M, B, m.whole, w, m.term) /\ w <= w /\ m.term <= m.term
    BY <2>1, <2>2, SealOn
  <2>4. Alike(K, m.whole, w)
    <3>1. \A x \in 1 .. w : x \in 1 .. Len(m.whole)
      BY <2>1
    <3> QED BY <1>4, <3>1 DEF Begins, Alike
  <2>5. Sealed(M, B, K, w, m.term)
    <3> HIDE DEF K
    <3> QED BY <2>1, <2>3, <2>4, SealLess
  <2> QED BY <1>4, <2>5 DEF w
<1> QED BY <1>2, <1>3, <1>4 DEF CommitMoves, CommitMove

(* Every request stays sealed. *)
LEMMA RequestsOn ==
  ASSUME NEW N, NEW M, NEW A, NEW B, Good(N, A), Good(M, B), Steady(N, M, A, B),
         CommitsSealed(N, A), RequestsSealed(N, A), RequestMoves(N, A, B)
  PROVE  RequestsSealed(M, B)
<1> SUFFICES ASSUME NEW m \in B
             PROVE  Sealed(M, B, m.whole, Smaller(m.commit, Len(m.whole)), m.term)
  BY DEF RequestsSealed
<1> DEFINE w == Smaller(m.commit, Len(m.whole))
<1>1. /\ m.term \in Nat /\ w \in Nat /\ w <= Len(m.whole) /\ Len(m.whole) \in Nat
      /\ m.commit \in Nat /\ w <= m.commit
  BY RequestFacts DEF Smaller
<1>2. CASE m \in A
  <2>1. Sealed(N, A, m.whole, w, m.term)
    BY <1>2 DEF RequestsSealed
  <2> HIDE DEF w
  <2>2. Sealed(M, B, m.whole, w, m.term)
    BY <1>1, <2>1, SealOn
  <2> QED BY <2>2 DEF w
<1>3. ASSUME NEW i \in Node, m.term = TermOf(N, i), m.commit = CommitOf(N, i),
             Begins(m.whole, LogOf(N, i))
      PROVE  Sealed(M, B, m.whole, w, m.term)
  <2> HIDE DEF w
  <2>1. Sealed(N, A, LogOf(N, i), m.commit, m.term)
    BY <1>3 DEF CommitsSealed
  <2>2. Sealed(M, B, LogOf(N, i), m.commit, m.term) /\ m.term <= m.term
    BY <1>1, <2>1, SealOn
  <2>3. Alike(m.whole, LogOf(N, i), w)
    <3>1. \A x \in 1 .. w : x \in 1 .. Len(m.whole)
      BY <1>1
    <3> QED BY <1>3, <3>1 DEF Begins, Alike
  <2> QED BY <1>1, <2>2, <2>3, SealLess
<1> QED BY <1>2, <1>3 DEF RequestMoves

(* Pledges of committed entries are kept. *)
LEMMA PledgesOn ==
  ASSUME NEW N, NEW M, NEW A, NEW B, NEW R, NEW S, Good(N, A), Good(M, B),
         Stays(N), Heeded(N, A), Stays(M), Steady(N, M, A, B),
         CommitsSealed(N, A), PledgeInv(N, R), PledgesHeld(N, R),
         PledgeInv(M, S), PledgeMoves(N, M, R, S)
  PROVE  PledgesHeld(M, S)
<1> SUFFICES ASSUME NEW i \in Node, NEW j \in Node, M[i].role = "leader",
                    Pledged(M, S, i, j, CommitOf(M, i))
             PROVE  /\ CommitOf(M, i) <= Len(LogOf(M, j))
                    /\ Alike(LogOf(M, j), LogOf(M, i), CommitOf(M, i))
  BY DEF PledgesHeld
<1> DEFINE c == CommitOf(M, i)
           K == LogOf(M, i)
           J == LogOf(M, j)
           T == TermOf(M, i)
<1>1. /\ c \in Nat /\ c <= Len(K) /\ Len(J) \in Nat /\ T \in Nat
      /\ K \in Logs(M, B) /\ J \in Logs(M, B)
  BY NodeFacts, CommitFacts
<1>2. CASE j = i
  BY <1>1, <1>2 DEF Alike
<1>3. CASE c = 0
  BY <1>1, <1>3 DEF Alike
<1>4. CASE j # i /\ c # 0
  <2>1. 0 < c
    <3> HIDE DEF c
    <3> QED BY <1>1, <1>4
  <2>2. CASE /\ N[i].role = "leader" /\ T = TermOf(N, i)
             /\ c = CommitOf(N, i) /\ Pledged(N, R, i, j, CommitOf(N, i))
    <3>1. Sealed(N, A, LogOf(N, i), c, T)
      BY <2>2 DEF CommitsSealed
    <3>2. c <= Len(LogOf(N, j)) /\ Alike(LogOf(N, j), LogOf(N, i), c)
      BY <2>2 DEF PledgesHeld
    <3>3. T <= TermOf(N, j)
      BY <1>1, <2>1, <2>2 DEF PledgeInv, Secured
    <3>4. c <= Len(LogOf(N, i)) /\ Alike(LogOf(N, i), LogOf(N, i), c) /\ T <= TermOf(N, i)
      BY <1>1, <2>2, CommitFacts DEF Alike
    <3> HIDE DEF c, T
    <3>5. c <= Len(J) /\ Alike(J, LogOf(N, i), c)
      BY <1>1, <3>1, <3>2, <3>3, SealedKept
    <3>6. Alike(K, LogOf(N, i), c)
      BY <1>1, <3>1, <3>4, SealedKept
    <3> QED BY <3>5, <3>6 DEF Alike, c
  <2>3. CASE Decided(M, i)
    <3>1. c \in 1 .. Len(K) /\ K[c].term = T /\ Chosen(M, c, T)
      BY <2>3 DEF Decided
    <3>2. <<c, T>> \in M[j].stored
      BY <1>1, <2>1, <3>1 DEF PledgeInv, Secured
    <3>3. Choosable(M, c, T)
      <4> HIDE DEF c, T
      <4> QED BY <1>1, <3>1, ChosenHeld
    <3>4. Holds(J, c, T)
      BY <1>1, <3>2, <3>3 DEF Stays
    <3> HIDE DEF c, T, J, K
    <3>5. c \in 1 .. Len(J) /\ c <= Len(K) /\ J[c].term = K[c].term
      BY <1>1, <3>1, <3>4 DEF Holds
    <3>6. Alike(J, K, c)
      BY <1>1, <3>5 DEF Good, LogInv, Matching
    <3>7. c <= Len(J)
      BY <1>1, <3>5
    <3> QED BY <3>6, <3>7 DEF c, J, K
  <2> QED BY <1>4, <2>1, <2>2, <2>3 DEF PledgeMoves, PledgeMove
<1> QED BY <1>2, <1>3, <1>4

(* Everybody keeps what anybody has compacted. *)
LEMMA BasesOn ==
  ASSUME NEW N, NEW M, NEW A, NEW B, NEW S, Good(N, A), Good(M, B),
         Stays(N), Heeded(N, A), Steady(N, M, A, B), CommitsSealed(M, B), BasesHeld(N, A),
         PledgeInv(M, S), PledgesHeld(M, S), BaseMoves(N, M, S)
  PROVE  BasesHeld(M, B)
<1> SUFFICES ASSUME NEW i \in Node, BaseOf(M, i) # 0
             PROVE  \E b \in Nat :
                      /\ Sealed(M, B, LogOf(M, i), BaseOf(M, i), b)
                      /\ \A j \in Node : /\ b <= TermOf(M, j) /\ BaseOf(M, i) <= Len(LogOf(M, j))
                                         /\ Alike(LogOf(M, j), LogOf(M, i), BaseOf(M, i))
  BY DEF BasesHeld
<1> DEFINE d == BaseOf(M, i)
           K == LogOf(M, i)
<1>1. d \in Nat /\ d <= CommitOf(M, i) /\ CommitOf(M, i) \in Nat /\ CommitOf(M, i) <= Len(K)
  BY CommitFacts
<1>2. \A j \in Node : /\ TermOf(N, j) \in Nat /\ TermOf(M, j) \in Nat
                      /\ TermOf(N, j) <= TermOf(M, j)
  BY NodeFacts DEF Steady, Moved
<1>3. CASE d = BaseOf(N, i)
  <2> DEFINE L == LogOf(N, i)
  <2>1. PICK b \in Nat : /\ Sealed(N, A, L, d, b)
                         /\ \A j \in Node : /\ b <= TermOf(N, j) /\ d <= Len(LogOf(N, j))
                                            /\ Alike(LogOf(N, j), L, d)
    BY <1>3 DEF BasesHeld
  <2> HIDE DEF d, L
  <2>2. \A j \in Node : d <= Len(LogOf(M, j)) /\ Alike(LogOf(M, j), L, d)
    BY <1>1, <2>1, SealedKept
  <2>3. \A j \in Node : b <= TermOf(M, j)
    BY <1>2, <2>1
  <2>4. Sealed(M, B, L, d, b) /\ d <= d /\ b <= b
    BY <1>1, <2>1, SealOn
  <2>5. Alike(K, L, d)
    BY <2>2
  <2>6. Sealed(M, B, K, d, b)
    <3> HIDE DEF K
    <3> QED BY <1>1, <2>4, <2>5, SealLess
  <2>7. \A j \in Node : /\ b <= TermOf(M, j) /\ d <= Len(LogOf(M, j))
                        /\ Alike(LogOf(M, j), K, d)
    BY <2>2, <2>3, <2>5 DEF Alike
  <2> QED BY <2>6, <2>7 DEF d
<1>4. CASE /\ M[i].role = "leader" /\ d = CommitOf(M, i)
           /\ \A j \in Node \ {i} : Pledged(M, S, i, j, CommitOf(M, i))
  <2> DEFINE T == TermOf(M, i)
  <2>1. Sealed(M, B, K, d, T) /\ T \in Nat
    BY <1>2, <1>4 DEF CommitsSealed
  <2>2. 0 < d
    <3> HIDE DEF d
    <3> QED BY <1>1 DEF d
  <2>3. ASSUME NEW j \in Node
        PROVE  T <= TermOf(M, j) /\ d <= Len(LogOf(M, j)) /\ Alike(LogOf(M, j), K, d)
    <3>1. CASE j = i
      BY <1>1, <1>2, <1>4, <3>1 DEF Alike
    <3>2. CASE j # i
      <4>1. Pledged(M, S, i, j, d)
        BY <1>4, <3>2
      <4>2. T <= TermOf(M, j)
        BY <1>1, <1>4, <2>2, <4>1 DEF PledgeInv, Secured
      <4> QED BY <1>4, <4>1, <4>2 DEF PledgesHeld
    <3> QED BY <3>1, <3>2
  <2> QED BY <2>1, <2>3
<1> QED BY <1>3, <1>4 DEF BaseMoves, BaseMove

(* Every answer stays sealed. *)
LEMMA AnswersOn ==
  ASSUME NEW N, NEW M, NEW A, NEW B, Good(N, A), Good(M, B), Steady(N, M, A, B),
         AnswersSealed(N, A), CommitsSealed(M, B), \A i \in Node : AnswersFrom(N[i], M[i])
  PROVE  AnswersSealed(M, B)
<1> SUFFICES ASSUME NEW i \in Node, NEW a \in M[i].answered
             PROVE  \E s : \E c, b \in Nat : /\ a.index \in 1 .. c /\ Sealed(M, B, s, c, b)
                                             /\ s[a.index] = a.entry
  BY DEF AnswersSealed
<1>1. CASE a \in N[i].answered
  <2>1. PICK s : \E c, b \in Nat : /\ a.index \in 1 .. c /\ Sealed(N, A, s, c, b)
                                   /\ s[a.index] = a.entry
    BY <1>1 DEF AnswersSealed
  <2>2. PICK c \in Nat, b \in Nat : /\ a.index \in 1 .. c /\ Sealed(N, A, s, c, b)
                                    /\ s[a.index] = a.entry
    BY <2>1
  <2>3. Sealed(M, B, s, c, b)
    BY <2>2, SealOn
  <2> QED BY <2>2, <2>3
<1>2. CASE a \notin N[i].answered
  <2> DEFINE c == CommitOf(M, i)
             K == LogOf(M, i)
             T == TermOf(M, i)
  <2>1. 1 <= a.index /\ a.index <= c /\ a.entry = K[a.index]
    BY <1>2 DEF AnswersFrom, CommitOf, LogOf
  <2>2. c \in Nat /\ T \in Nat /\ a.index \in Nat
    <3>1. M[i].answered \in SUBSET Answer
      BY NodeFacts, NodeTypes
    <3>2. a.index \in Nat
      BY <3>1 DEF Answer
    <3> QED BY <3>2, NodeFacts, CommitFacts
  <2>3. Sealed(M, B, K, c, T)
    BY DEF CommitsSealed
  <2> HIDE DEF c, K, T
  <2>4. a.index \in 1 .. c
    BY <2>1, <2>2
  <2> QED BY <2>1, <2>2, <2>3, <2>4
<1> QED BY <1>1, <1>2

(* Every such step keeps the invariant. *)
LEMMA FurtheredCommits ==
  ASSUME NEW N, NEW M, NEW A, NEW B, NEW R, NEW S, Good(N, A), Good(M, B),
         Stays(N), Heeded(N, A), Stays(M), Steady(N, M, A, B), CommitInv(N, A, R),
         PledgeInv(M, S), Furthered(N, M, A, B, R, S)
  PROVE  CommitInv(M, B, S)
<1>1. CommitsSealed(M, B)
  BY CommitsOn DEF CommitInv, Furthered
<1>2. RequestsSealed(M, B)
  BY RequestsOn DEF CommitInv, Furthered
<1>3. PledgesHeld(M, S)
  BY PledgesOn DEF CommitInv, Furthered
<1>4. BasesHeld(M, B)
  BY <1>1, <1>3, BasesOn DEF CommitInv, Furthered
<1>5. AnswersSealed(M, B)
  BY <1>1, AnswersOn DEF CommitInv, Furthered
<1> QED BY <1>1, <1>2, <1>3, <1>4, <1>5 DEF CommitInv

-----------------------------------------------------------------------------
(* What one node's step does to commit indices. *)

(* One node changes, and no request is sent or acknowledged. *)
LEMMA FurtheredByOne ==
  ASSUME NEW N, NEW M, NEW A, NEW B, NEW R, NEW S, B \in SUBSET A, S \in SUBSET R,
         NEW i \in Node, \A j \in Node \ {i} : M[j] = N[j],
         CommitMove(N, M, A, i), PledgeMove(N, M, R, S, i), BaseMove(N, M, S, i),
         AnswersFrom(N[i], M[i])
  PROVE  Furthered(N, M, A, B, R, S)
<1>1. ASSUME NEW x \in Node \ {i}
      PROVE  /\ CommitOf(M, x) = CommitOf(N, x) /\ BaseOf(M, x) = BaseOf(N, x)
             /\ TermOf(M, x) = TermOf(N, x) /\ M[x] = N[x]
  BY DEF CommitOf, BaseOf, TermOf
<1>2. CommitMoves(N, M, A) /\ BaseMoves(N, M, S)
  BY <1>1 DEF CommitMoves, CommitMove, BaseMoves, BaseMove
<1>3. ASSUME NEW x \in Node \ {i} PROVE PledgeMove(N, M, R, S, x)
  BY <1>1 DEF PledgeMove, Pledged
<1>4. RequestMoves(N, A, B)
  BY DEF RequestMoves
<1>5. \A x \in Node : AnswersFrom(N[x], M[x])
  BY <1>1 DEF AnswersFrom
<1> QED BY <1>2, <1>3, <1>4, <1>5 DEF Furthered, PledgeMoves

(* Node n becomes p: nothing is written, committed or compacted. *)
Idle(n, p) ==
  /\ FullLog(p.disk) = FullLog(n.disk) /\ p.stored = n.stored
  /\ n.disk.term <= p.disk.term /\ p.disk.commit = n.disk.commit
  /\ p.disk.base = n.disk.base /\ AnswersFrom(n, p)
  /\ p.role = "leader" => n.role = "leader" /\ p.match = n.match /\ p.disk.term = n.disk.term

(* Such a step leaves pledges and commit indices alone. *)
LEMMA IdleFurthers ==
  ASSUME NEW N, NEW M, NEW A, NEW B, NEW R, NEW S, Good(N, A), Good(M, B),
         B \in SUBSET A, S \in SUBSET R, PledgeInv(N, R), NEW i \in Node,
         \A j \in Node \ {i} : M[j] = N[j], Idle(N[i], M[i])
  PROVE  PledgeInv(M, S) /\ Furthered(N, M, A, B, R, S)
<1>1. ASSUME NEW j \in Node \ {i} PROVE LogOf(M, j) = LogOf(N, j) /\ TermOf(M, j) = TermOf(N, j)
  BY DEF LogOf, TermOf
<1>2. \A j \in Node : TermOf(N, j) \in Nat
  BY NodeFacts
<1>3. Still(N, M)
  <2>1. LogOf(M, i) = LogOf(N, i) /\ M[i].stored = N[i].stored /\ TermOf(N, i) <= TermOf(M, i)
    BY DEF Idle, LogOf, TermOf
  <2> QED BY <1>1, <1>2, <2>1 DEF Still
<1>4. Eases(N, M, R, S)
  <2>1. ASSUME NEW x \in Node, M[x].role = "leader"
        PROVE  N[x].role = "leader" /\ TermOf(M, x) = TermOf(N, x) /\ M[x].match = N[x].match
    BY <1>1, <2>1 DEF Idle, TermOf
  <2> QED BY <2>1 DEF Eases, Pledged
<1>5. PledgeInv(M, S)
  BY <1>3, <1>4, EasesPledges
<1>6. CommitOf(M, i) = CommitOf(N, i) /\ BaseOf(M, i) = BaseOf(N, i) /\ AnswersFrom(N[i], M[i])
  BY DEF Idle, CommitOf, BaseOf
<1>7. PledgeMove(N, M, R, S, i)
  <2>1. CommitOf(N, i) \in Nat
    BY CommitFacts
  <2> QED BY <1>4, <1>6, <2>1 DEF PledgeMove, Eases
<1>8. CommitMove(N, M, A, i) /\ BaseMove(N, M, S, i)
  BY <1>6 DEF CommitMove, BaseMove
<1>9. Furthered(N, M, A, B, R, S)
  BY <1>6, <1>7, <1>8, FurtheredByOne
<1> QED BY <1>5, <1>9

(* What advanceCommitLocked commits on a leader with log and term of N[i] is *)
(* chosen, if its match table only holds pledges.                            *)
LEMMA QuorateFinal ==
  ASSUME NEW N, NEW A, NEW R, Good(N, A), Kept(N), PledgeInv(N, R), NEW i \in Node,
         N[i].role = "leader", NEW l, Whole(l.disk), FullLog(l.disk) = LogOf(N, i),
         l.disk.term = TermOf(N, i), NEW k \in Quorate(l, i),
         \A j \in Node \ {i} : k <= l.match[j] => Pledged(N, R, i, j, k),
         l.match \in [Node -> Nat]
  PROVE  /\ k \in 1 .. Len(LogOf(N, i)) /\ LogOf(N, i)[k].term = TermOf(N, i)
         /\ Chosen(N, k, TermOf(N, i))
<1> DEFINE L == LogOf(N, i)
           Q == {i} \cup {j \in Node : l.match[j] >= k}
<1>1. /\ l.disk.commit \in Nat /\ l.disk.base \in Nat /\ l.disk.base <= l.disk.commit
      /\ LastIndex(l.disk) = Len(L) /\ Len(L) \in Nat
      /\ \A x \in l.disk.base + 1 .. Len(L) : EntryAt(l.disk, x) = L[x]
  BY WholeLog, StoreTypes, SMTT(30) DEF Whole
<1>2. /\ k \in l.disk.commit + 1 .. LastIndex(l.disk)
      /\ EntryAt(l.disk, k).term = l.disk.term /\ Majority(Q)
  BY DEF Quorate
<1> HIDE DEF L, Q
<1>3. k \in 1 .. Len(L) /\ k \in l.disk.base + 1 .. Len(L) /\ k \in Nat
  BY <1>1, <1>2
<1>4. L[k].term = TermOf(N, i)
  BY <1>1, <1>2, <1>3
<1>5. Q \in SUBSET Node /\ i \in Q /\ \A j \in Q : j = i \/ Pledged(N, R, i, j, k)
  <2>1. ASSUME NEW j \in Node, l.match[j] >= k, j # i PROVE Pledged(N, R, i, j, k)
    <3>1. l.match[j] \in Nat
      OBVIOUS
    <3>2. k <= l.match[j]
      BY <1>3, <2>1, <3>1
    <3> QED BY <2>1, <3>2
  <2> QED BY <2>1 DEF Q
<1>6. Chosen(N, k, TermOf(N, i))
  BY <1>2, <1>3, <1>4, <1>5, QuorateChosen DEF L
<1> QED BY <1>3, <1>4, <1>6 DEF L

(* A leader that wrote an entry, as l, commits, answers and compacts. *)
LEMMA GrownFurthers ==
  ASSUME NEW N, NEW M, NEW A, NEW B, NEW R, NEW S, Good(N, A), Good(M, B),
         B \in SUBSET A, R \in SUBSET A, S \in SUBSET R, S \in SUBSET B,
         Kept(M), PledgeInv(N, R), NEW i \in Node, Grown(N, M, A, B, i),
         NEW l, Settled(l), Progress(l, M[i], i), l.role = "leader",
         l.match[i] = Len(FullLog(l.disk)), l.disk.commit = N[i].disk.commit,
         l.disk.base = N[i].disk.base, AnswersFrom(N[i], l),
         \/ N[i].role = "leader" /\ \A j \in Node \ {i} : l.match[j] = N[i].match[j]
         \/ l.disk.term \notin N[i].reigns /\ \A j \in Node \ {i} : l.match[j] = 0
  PROVE  PledgeInv(M, S) /\ Furthered(N, M, A, B, R, S)
<1> DEFINE p == M[i]
           k == CommitOf(M, i)
<1>1. /\ FullLog(l.disk) = LogOf(M, i) /\ l.disk.term = TermOf(M, i)
      /\ p.match = l.match /\ p.role = "leader" /\ Whole(l.disk)
      /\ p.match \in [Node -> Nat] /\ \A j \in Node \ {i} : M[j] = N[j]
  BY NodeFacts
     DEF Progress, SameLog, SameOffice, LogOf, TermOf, Settled, Ready, Grown, Extended
<1>2. Tallied(N, M, i)
  BY <1>1 DEF Tallied
<1>3. /\ PledgeInv(M, S)
      /\ \A j \in Node \ {i} : \A x \in Nat : 0 < x /\ Pledged(M, S, i, j, x) =>
           N[i].role = "leader" /\ TermOf(M, i) = TermOf(N, i) /\ Pledged(N, R, i, j, x)
  BY <1>2, GrownPledges
<1>4. k \in Nat /\ CommitOf(N, i) \in Nat
  BY CommitFacts
<1>5. k = CommitOf(N, i) \/ Decided(M, i)
  <2>1. CASE k \in Quorate(l, i)
    <3>1. \A j \in Node \ {i} : k <= l.match[j] => Pledged(M, S, i, j, k)
      BY <1>1 DEF Pledged
    <3> HIDE DEF k
    <3>2. /\ k \in 1 .. Len(LogOf(M, i)) /\ LogOf(M, i)[k].term = TermOf(M, i)
          /\ Chosen(M, k, TermOf(M, i))
      BY <1>1, <1>3, <2>1, <3>1, QuorateFinal
    <3> QED BY <3>2 DEF Decided, k
  <2> QED BY <2>1 DEF Progress, CommitOf
<1>6. CommitMove(N, M, A, i)
  BY <1>5 DEF CommitMove
<1>7. PledgeMove(N, M, R, S, i)
  BY <1>3, <1>4, <1>5 DEF PledgeMove
<1>8. BaseMove(N, M, S, i)
  <2>1. CASE p.disk.base = l.disk.base
    BY <2>1 DEF BaseMove, BaseOf
  <2>2. CASE p.disk.base = p.disk.commit /\ \A j \in Node \ {i} : l.match[j] >= p.disk.commit
    <3>1. BaseOf(M, i) = k /\ \A j \in Node \ {i} : l.match[j] >= k
      BY <2>2 DEF BaseOf, CommitOf
    <3>2. \A j \in Node \ {i} : k <= p.match[j]
      BY <1>1, <1>4, <3>1
    <3> QED BY <1>1, <3>1, <3>2 DEF BaseMove, Pledged
  <2> QED BY <2>1, <2>2 DEF Progress
<1>9. AnswersFrom(N[i], p)
  <2> SUFFICES ASSUME NEW a \in p.answered, a \notin N[i].answered
               PROVE  /\ 1 <= a.index /\ a.index <= p.disk.commit
                      /\ a.entry = FullLog(p.disk)[a.index]
    BY DEF AnswersFrom
  <2>1. CASE a \notin l.answered
    BY <2>1 DEF Progress, AnswersFrom
  <2>2. CASE a \in l.answered
    <3>1. 1 <= a.index /\ a.index <= CommitOf(N, i) /\ a.entry = LogOf(M, i)[a.index]
      BY <1>1, <2>2 DEF AnswersFrom, CommitOf
    <3>2. CommitOf(N, i) <= k
      <4>1. CASE k \in Quorate(l, i)
        <5>1. k \in CommitOf(N, i) + 1 .. LastIndex(l.disk)
          BY <4>1 DEF Quorate, CommitOf
        <5> HIDE DEF k
        <5> QED BY <1>4, <5>1
      <4> QED BY <1>4, <4>1 DEF Progress, CommitOf
    <3>3. a.index \in Nat
      <4>1. a \in Answer
        BY NodeFacts, NodeTypes
      <4> QED BY <4>1 DEF Answer
    <3>4. a.index <= k
      <4> HIDE DEF k
      <4> QED BY <1>4, <3>1, <3>2, <3>3
    <3> QED BY <3>1, <3>4 DEF CommitOf, LogOf
  <2> QED BY <2>1, <2>2
<1>10. Furthered(N, M, A, B, R, S)
  BY <1>1, <1>6, <1>7, <1>8, <1>9, FurtheredByOne
<1> QED BY <1>3, <1>10

(* A leader hears of a pledge, commits, answers, compacts, and may die       *)
(* before it compacts.                                                       *)
LEMMA MatchFurthers ==
  ASSUME NEW N, NEW M, NEW A, NEW B, NEW R, NEW S, Good(N, A), Good(M, B),
         B \in SUBSET A, R \in SUBSET A, S \in SUBSET R, Kept(N), Moved(N, M), PledgeInv(N, R),
         NEW r, r.req \in R, r.req.term = TermOf(N, r.req.from),
         N[r.req.from].role = "leader",
         \A j \in Node \ {r.req.from} : M[j] = N[j],
         NEW c, NEW x, Matched(N[r.req.from], c, r), Progress(c, x, r.req.from),
         Rest(x, M[r.req.from], Nil),
         \/ M[r.req.from] = x
         \/ /\ x.disk.base = N[r.req.from].disk.base
            /\ TermOf(M, r.req.from) = TermOf(N, r.req.from)
  PROVE  PledgeInv(M, S) /\ Furthered(N, M, A, B, R, S)
<1> DEFINE m == r.req
           i == m.from
           n == N[i]
           p == M[i]
           k == CommitOf(M, i)
           T == TermOf(N, i)
<1>1. /\ i \in Node /\ m.to \in Node /\ Len(m.whole) \in Nat
      /\ Len(m.whole) = m.prev + Len(m.entries)
  BY RequestFacts DEF Honest
<1>2. /\ n.match \in [Node -> Nat] /\ n \in NodeState /\ Whole(n.disk) /\ T \in Nat
      /\ LogOf(M, i) \in Seq(Entry)
  BY <1>1, NodeFacts
<1>3. c.match = [n.match EXCEPT ![m.to] = Larger(n.match[m.to], Len(m.whole))]
  BY <1>1 DEF Matched, MatchAfter
<1>4. c.match \in [Node -> Nat]
  BY <1>1, <1>2, <1>3 DEF Larger
<1>5. ASSUME NEW j \in Node, NEW y \in Nat, y <= c.match[j] PROVE Pledged(N, R, i, j, y)
  <2>1. CASE j # m.to
    BY <1>2, <1>3, <1>5, <2>1 DEF Pledged
  <2>2. CASE j = m.to
    <3>1. y <= n.match[j] \/ y <= Len(m.whole)
      BY <1>1, <1>2, <1>3, <1>5, <2>2 DEF Larger
    <3> QED BY <2>2, <3>1 DEF Pledged
  <2> QED BY <2>1, <2>2
<1>6. /\ c.disk = n.disk /\ c.role = "leader" /\ x.match = c.match
      /\ FullLog(x.disk) = LogOf(N, i) /\ x.disk.term = T
      /\ LogOf(M, i) = LogOf(N, i) /\ M[i].stored = N[i].stored
      /\ x.disk.commit = k /\ x.role = "leader"
  BY DEF Matched, Progress, Rest, SameLog, SameOffice, SamePast, LogOf, TermOf, CommitOf
<1>7. TermOf(M, i) = T
  BY <1>6 DEF TermOf
<1>8. p.role = "leader" => p.match = c.match
  BY <1>6 DEF Rest
<1> HIDE DEF T
<1>9. Still(N, M)
  <2>1. ASSUME NEW j \in Node
        PROVE  /\ LogOf(M, j) = LogOf(N, j) /\ M[j].stored = N[j].stored
               /\ TermOf(N, j) <= TermOf(M, j)
    <3>1. CASE j = i
      BY <1>2, <1>6, <1>7, <3>1 DEF T
    <3>2. CASE j # i
      BY <3>2, NodeFacts DEF LogOf, TermOf
    <3> QED BY <3>1, <3>2
  <2> QED BY <2>1 DEF Still
<1>10. Eases(N, M, R, S)
  <2>1. ASSUME NEW j \in Node, NEW y \in Nat, p.role = "leader", Pledged(M, S, i, j, y)
        PROVE  Pledged(N, R, i, j, y)
    <3>1. CASE y <= p.match[j]
      BY <1>5, <1>8, <2>1, <3>1
    <3>2. CASE ~(y <= p.match[j])
      BY <1>7, <2>1, <3>2 DEF Pledged, T
    <3> QED BY <3>1, <3>2
  <2>2. ASSUME NEW y \in Node, y # i, M[y].role = "leader"
        PROVE  /\ N[y].role = "leader" /\ TermOf(M, y) = TermOf(N, y)
               /\ M[y].match = N[y].match
    BY <2>2 DEF TermOf
  <2>3. ASSUME NEW y \in Node, y # i, M[y].role = "leader", NEW j \in Node, NEW z \in Nat,
               Pledged(M, S, y, j, z)
        PROVE  Pledged(N, R, y, j, z)
    BY <2>2, <2>3 DEF Pledged
  <2> QED BY <1>7, <2>1, <2>2, <2>3 DEF Eases, T
<1>11. PledgeInv(M, S)
  BY <1>9, <1>10, EasesPledges
<1>12. k \in Nat /\ CommitOf(N, i) \in Nat
  BY <1>1, CommitFacts
<1>13. k = CommitOf(N, i) \/ Decided(M, i)
  <2>1. CASE k \in Quorate(c, i)
    <3>1. \A j \in Node \ {i} : k <= c.match[j] => Pledged(N, R, i, j, k)
      BY <1>5, <1>12
    <3>2. Whole(c.disk) /\ FullLog(c.disk) = LogOf(N, i) /\ c.disk.term = TermOf(N, i)
      BY <1>2, <1>6 DEF LogOf, TermOf
    <3> HIDE DEF k, i
    <3>3. /\ k \in 1 .. Len(LogOf(N, i)) /\ LogOf(N, i)[k].term = TermOf(N, i)
          /\ Chosen(N, k, TermOf(N, i))
      <4>1. N[i].role = "leader"
        BY DEF i
      <4> QED BY <1>1, <1>4, <2>1, <3>1, <3>2, <4>1, QuorateFinal
    <3>4. Chosen(M, k, TermOf(N, i))
      BY <3>3, ChosenOn
    <3> QED BY <1>6, <1>7, <3>3, <3>4 DEF Decided, k, T
  <2> QED BY <1>6, <2>1 DEF Progress, CommitOf
<1>14. CommitMove(N, M, A, i)
  BY <1>13 DEF CommitMove
<1>15. PledgeMove(N, M, R, S, i)
  BY <1>1, <1>10, <1>12, <1>13 DEF PledgeMove, Eases
<1>16. BaseMove(N, M, S, i)
  <2>1. CASE x.disk.base = n.disk.base
    BY <2>1 DEF BaseMove, BaseOf, Rest
  <2>2. CASE p = x /\ x.disk.base # n.disk.base
    <3>1. BaseOf(M, i) = k /\ \A j \in Node \ {i} : c.match[j] >= k
      BY <1>6, <2>2 DEF Progress, BaseOf, CommitOf
    <3>2. \A j \in Node \ {i} : k <= p.match[j]
      BY <1>4, <1>6, <1>12, <2>2, <3>1
    <3> QED BY <1>6, <2>2, <3>1, <3>2 DEF BaseMove, Pledged
  <2> QED BY <2>1, <2>2
<1>17. AnswersFrom(n, p)
  <2>1. AnswersFrom(c, x)
    BY DEF Progress
  <2>2. c.answered = n.answered
    BY DEF Matched
  <2>3. /\ p.answered = x.answered /\ p.disk.commit = x.disk.commit
        /\ FullLog(p.disk) = FullLog(x.disk)
    BY DEF Rest
  <2> HIDE DEF n, p
  <2> QED BY ONLY <2>1, <2>2, <2>3 DEF AnswersFrom
<1>18. Furthered(N, M, A, B, R, S)
  BY <1>1, <1>14, <1>15, <1>16, <1>17, FurtheredByOne
<1> QED BY <1>11, <1>18

(* A follower stores, commits and acknowledges a request. *)
LEMMA InstallFurthers ==
  ASSUME NEW N, NEW M, NEW A, NEW B, NEW R, NEW S, NEW m, Good(N, A), Good(M, B),
         B \in SUBSET A, R \in SUBSET A, S \in SUBSET (R \cup {m}), Kept(M), Moved(N, M),
         PledgeInv(N, R), Taken(N, M, A, B, m.to, m), m.to \in Node,
         CommitOf(M, m.to) = CommitAfter(N[m.to].disk, m),
         BaseOf(M, m.to) = BaseOf(N, m.to), AnswersFrom(N[m.to], M[m.to])
  PROVE  PledgeInv(M, S) /\ Furthered(N, M, A, B, R, S)
<1> DEFINE i == m.to
           K == LogOf(M, i)
           W == m.whole
<1>1. /\ m \in A /\ \A j \in Node \ {i} : M[j] = N[j]
      /\ TermOf(M, i) = m.term /\ M[i].role = "follower"
  BY DEF Taken
<1>2. /\ W \in Seq(Entry) /\ Len(W) \in Nat /\ Len(W) = m.prev + Len(m.entries)
      /\ m.commit \in Nat /\ Len(K) \in Nat /\ CommitOf(N, i) \in Nat
  BY <1>1, RequestFacts, NodeFacts, CommitFacts DEF Honest
<1>3. Begins(W, K)
  BY TakenSteady
<1>4. PledgeInv(M, S)
  BY TakenPledges
<1>5. CommitMove(N, M, A, i)
  <2>1. \/ CommitOf(M, i) = CommitOf(N, i)
        \/ CommitOf(M, i) = Smaller(m.commit, Len(m.whole))
    BY <1>2 DEF CommitAfter, Larger, CommitOf
  <2> QED BY <1>1, <1>3, <2>1 DEF CommitMove
<1>6. ASSUME NEW x \in Node \ {i}
      PROVE  /\ CommitOf(M, x) = CommitOf(N, x) /\ BaseOf(M, x) = BaseOf(N, x)
             /\ TermOf(M, x) = TermOf(N, x) /\ LogOf(M, x) = LogOf(N, x) /\ M[x] = N[x]
  BY <1>1 DEF CommitOf, BaseOf, TermOf, LogOf
<1>7. CommitMoves(N, M, A) /\ BaseMoves(N, M, S)
  BY <1>5, <1>6 DEF CommitMoves, CommitMove, BaseMoves, BaseMove
<1>8. PledgeMove(N, M, R, S, i)
  BY <1>1 DEF PledgeMove
<1>9. ASSUME NEW x \in Node \ {i} PROVE PledgeMove(N, M, R, S, x)
  <2> SUFFICES ASSUME M[x].role = "leader", NEW j \in Node \ {x},
                      Pledged(M, S, x, j, CommitOf(M, x)),
                      ~Pledged(N, R, x, j, CommitOf(N, x))
               PROVE  /\ CommitOf(M, x) <= Len(LogOf(M, j))
                      /\ Alike(LogOf(M, j), LogOf(M, x), CommitOf(M, x))
    BY <1>6 DEF PledgeMove
  <2> DEFINE c == CommitOf(M, x)
             X == LogOf(M, x)
  <2>1. j = i /\ m.term = TermOf(N, x) /\ c <= Len(W)
    BY <1>6 DEF Pledged
  <2>2. Begins(W, X)
    BY <1>1, <1>6, <2>1 DEF Good, LogInv, LeaderPrefix
  <2>3. c \in Nat
    BY CommitFacts
  <2> HIDE DEF c, X, K, W
  <2>4. c <= Len(K) /\ \A y \in 1 .. c : y \in 1 .. Len(W)
    BY <1>2, <1>3, <2>1, <2>3 DEF Begins
  <2>5. Alike(K, X, c)
    BY <1>3, <2>2, <2>4 DEF Begins, Alike
  <2> QED BY <2>1, <2>4, <2>5 DEF c, X, K
<1>10. RequestMoves(N, A, B)
  BY DEF RequestMoves, Taken
<1>11. \A x \in Node : AnswersFrom(N[x], M[x])
  BY <1>6 DEF AnswersFrom
<1>12. Furthered(N, M, A, B, R, S)
  BY <1>7, <1>8, <1>9, <1>10, <1>11 DEF Furthered, PledgeMoves
<1> QED BY <1>4, <1>12

(* A leader sends a request. *)
LEMMA SendFurthers ==
  ASSUME NEW N, NEW A, NEW B, NEW R, NEW S, S \in SUBSET R, PledgeInv(N, R),
         NEW i \in Node, NEW m, B \in SUBSET (A \cup {m}), CopyOf(N[i], m)
  PROVE  PledgeInv(N, S) /\ Furthered(N, N, A, B, R, S)
<1>1. PledgeInv(N, S)
  BY DEF PledgeInv, Pledged
<1>2. m.term = TermOf(N, i) /\ m.commit = CommitOf(N, i) /\ Begins(m.whole, LogOf(N, i))
  BY DEF CopyOf, TermOf, CommitOf, LogOf, Begins
<1>3. RequestMoves(N, A, B)
  BY <1>2 DEF RequestMoves
<1>4. CommitMoves(N, N, A) /\ BaseMoves(N, N, S)
  BY DEF CommitMoves, CommitMove, BaseMoves, BaseMove
<1>5. PledgeMoves(N, N, R, S)
  BY DEF PledgeMoves, PledgeMove, Pledged
<1>6. \A x \in Node : AnswersFrom(N[x], N[x])
  BY DEF AnswersFrom
<1> QED BY <1>1, <1>3, <1>4, <1>5, <1>6 DEF Furthered

-----------------------------------------------------------------------------
(* Every kind of step furthers. *)

(* The append requests acknowledged in answers under way. *)
Acks == {r.req : r \in {x \in replies : x.req.type = "append" /\ x.ok}}

(* They are append requests. *)
LEMMA AcksAppends == Acks \in SUBSET Appends
BY DEF Acks, Appends

(* Where nothing is acknowledged, there are no new ones. *)
LEMMA HushAcks ==
  ASSUME Hush
  PROVE  Acks' \in SUBSET Acks
BY DEF Hush, Acks

(* A new leader's first entry leaves what its node answered in place. *)
LEMMA LedAnswers ==
  ASSUME NEW n, NEW c, Settled(c), AnswersFrom(n, c), NEW l, NEW i, Crown(c, l, i),
         c.disk.commit = n.disk.commit
  PROVE  AnswersFrom(n, l)
<1> SUFFICES ASSUME NEW a \in l.answered, a \notin n.answered
             PROVE  /\ 1 <= a.index /\ a.index <= l.disk.commit
                    /\ a.entry = FullLog(l.disk)[a.index]
  BY DEF AnswersFrom
<1>1. /\ l.answered = c.answered /\ l.disk.commit = c.disk.commit
      /\ Alike(FullLog(l.disk), FullLog(c.disk), Len(FullLog(c.disk)))
  BY DEF Crown, Appended, Longer
<1>2. /\ 1 <= a.index /\ a.index <= c.disk.commit
      /\ a.entry = FullLog(c.disk)[a.index]
  BY <1>1 DEF AnswersFrom
<1>3. /\ c.disk.commit <= Len(FullLog(c.disk)) /\ Len(FullLog(c.disk)) \in Nat
      /\ c.disk.commit \in Nat /\ a.index \in Nat
  <2>1. Whole(c.disk) /\ c \in NodeState
    BY DEF Settled, Ready
  <2>2. a \in Answer
    BY <1>1, <2>1, NodeTypes
  <2> QED BY <2>1, <2>2, WholeLog, NodeTypes, StoreTypes DEF Answer
<1>4. a.index \in 1 .. Len(FullLog(c.disk))
  BY <1>2, <1>3
<1> QED BY <1>1, <1>2, <1>4 DEF Alike

(* Every kind of step furthers. *)
LEMMA CommitKinds ==
  ASSUME SafetyInv, SafetyInv', NextKind, PledgeInv(nodes, Acks),
         Steady(nodes, nodes', Appends, Appends')
  PROVE  /\ PledgeInv(nodes', Acks')
         /\ Furthered(nodes, nodes', Appends, Appends', Acks, Acks')
<1> DEFINE N == nodes
           M == nodes'
           A == Appends
           B == Appends'
           R == Acks
           S == Acks'
           Goal == PledgeInv(M, S) /\ Furthered(N, M, A, B, R, S)
<1>1. /\ NodeInv /\ LogsInv /\ LogsInv' /\ Kept(N) /\ Kept(M) /\ Moved(N, M)
      /\ PledgeInv(N, R)
  BY DEF SafetyInv, SafeInv, LogsInv, Steady
<1>2. Good(N, A)
  BY <1>1, StateGood
<1>3. Good(M, B)
  <2>1. (LogsInv => Good(nodes, Appends))'
    BY StateGood, PTL
  <2> QED BY <1>1, <2>1
<1>4. N \in [Node -> NodeState] /\ Sane(N, A)
  BY <1>2 DEF Good
<1>5. \A i \in Node : N[i].disk.term \in Nat /\ N[i].reigns \in SUBSET Nat
  BY <1>1, <1>4, FitFacts, NodeTypes
<1>6. R \in SUBSET A /\ S \in SUBSET B
  <2>1. (Acks \in SUBSET Appends)'
    BY AcksAppends, PTL
  <2> QED BY <2>1, AcksAppends
<1>7. Hush => S \in SUBSET R
  BY HushAcks
<1>8. ASSUME NEW i \in Node, NEW p, Becomes(i, p)
      PROVE  M = [N EXCEPT ![i] = p] /\ M[i] = p /\ \A j \in Node \ {i} : M[j] = N[j]
  <2>1. M = [N EXCEPT ![i] = p]
    BY <1>8 DEF Becomes
  <2> HIDE DEF M
  <2> QED BY <1>4, <2>1
<1>9. CASE SendKind
  <2>1. PICK i \in Node, m \in AppendRequest :
          CopyOf(nodes[i], m) /\ Appends' \in SUBSET (Appends \cup {m})
    BY <1>1, <1>9, SentAppends
  <2>2. nodes' = nodes /\ S \in SUBSET R
    BY <1>9 DEF SendKind, Acks
  <2>3. PledgeInv(N, S) /\ Furthered(N, N, A, B, R, S)
    <3> HIDE DEF N, R, S, A, B
    <3> QED BY <1>1, <2>1, <2>2, SendFurthers DEF N, A, B
  <2> QED BY <2>2, <2>3
<1>10. SUFFICES ASSUME B \in SUBSET A PROVE Goal
  BY <1>1, <1>9, AppendsAfter
<1> HIDE DEF Goal, N, M, A, B, R, S
<1>11. ASSUME NEW i \in Node, NEW p, Becomes(i, p), Idle(N[i], p), S \in SUBSET R
       PROVE  Goal
  <2>1. M[i] = p /\ \A j \in Node \ {i} : M[j] = N[j]
    BY <1>8, <1>11
  <2> QED BY <1>1, <1>2, <1>3, <1>10, <1>11, <2>1, IdleFurthers DEF Goal
<1>12. ASSUME NEW i \in Node, NEW c, NEW p, Becomes(i, p), Led(c, p, i), Hush, Settled(c),
              FullLog(c.disk) = FullLog(N[i].disk), N[i].disk.term <= c.disk.term,
              c.disk.commit = N[i].disk.commit, c.disk.base = N[i].disk.base,
              AnswersFrom(N[i], c),
              c.reigns = N[i].reigns, c.disk.term \notin N[i].reigns,
              c.stored = N[i].stored, N[i].role # "leader",
              \/ c.ballots = N[i].ballots /\ N[i].role = "candidate"
              \/ /\ N[i].disk.term < c.disk.term
                 /\ c.ballots \in SUBSET (N[i].ballots \cup {<<c.disk.term, i>>})
       PROVE  Goal
  <2>1. M = [N EXCEPT ![i] = p] /\ M[i] = p
    BY <1>8, <1>12
  <2>2. Grown(N, M, A, B, i)
    BY <1>4, <1>10, <1>12, <2>1, LedGrown
  <2>3. PICK l : Settled(l) /\ Crown(c, l, i) /\ Progress(l, p, i)
    BY <1>12 DEF Led
  <2>4. /\ l.role = "leader" /\ l.match[i] = Len(FullLog(l.disk))
        /\ l.disk.commit = N[i].disk.commit /\ l.disk.base = N[i].disk.base
        /\ l.disk.term \notin N[i].reigns /\ \A j \in Node \ {i} : l.match[j] = 0
    BY <1>12, <2>3 DEF Crown, Appended
  <2>5. AnswersFrom(N[i], l)
    BY <1>12, <2>3, LedAnswers
  <2>6. S \in SUBSET R
    BY <1>7, <1>12
  <2> QED BY <1>1, <1>2, <1>3, <1>6, <1>10, <2>1, <2>2, <2>3, <2>4, <2>5, <2>6,
             GrownFurthers DEF Goal
<1>13. ASSUME NEW i \in Node PROVE \A t \in N[i].reigns : t <= N[i].disk.term
  BY <1>2 DEF Good, LogInv, Reigning, TermOf
<1>14. CASE RestKind
  <2>1. PICK i \in Node : \E p, l : Becomes(i, p) /\ Rest(N[i], p, l) /\ Hush
    BY <1>14 DEF RestKind, N
  <2>2. PICK p, l : Becomes(i, p) /\ Rest(N[i], p, l) /\ Hush
    BY <2>1
  <2>3. Idle(N[i], p)
    BY <2>2 DEF Rest, Idle, SamePast, AnswersFrom
  <2> QED BY <1>7, <1>11, <2>2, <2>3
<1>15. CASE VoteKind
  <2>1. PICK m \in wire : \E p : /\ m \in VoteRequest /\ Becomes(m.to, p) /\ Hush
                                 /\ N[m.to].disk.term <= m.term /\ Voted(N[m.to], p, m)
    BY <1>15 DEF VoteKind, N
  <2>2. PICK p : Becomes(m.to, p) /\ Voted(N[m.to], p, m)
    BY <2>1
  <2>3. m.to \in Node
    BY <2>1 DEF VoteRequest
  <2>4. Idle(N[m.to], p)
    BY <2>1, <2>2 DEF Voted, Idle, SameOffice, AnswersFrom
  <2> QED BY <1>7, <1>11, <2>1, <2>2, <2>3, <2>4
<1>16. CASE CampaignKind
  <2>1. PICK i \in Node : \E p : Becomes(i, p) /\ Campaign(N[i], p, i)
    BY <1>16 DEF CampaignKind, N
  <2>2. PICK p : Becomes(i, p) /\ Campaign(N[i], p, i)
    BY <2>1
  <2>3. Idle(N[i], p)
    BY <1>5, <2>2 DEF Campaign, Idle, AnswersFrom
  <2>4. S \in SUBSET R
    BY <1>16 DEF CampaignKind, Acks, S, R
  <2> QED BY <1>11, <2>2, <2>3, <2>4
<1>17. CASE CampaignLedKind
  <2>1. PICK i \in Node : \E c, p :
          /\ Becomes(i, p) /\ Hush /\ N[i].role # "leader" /\ Settled(c)
          /\ Campaign(N[i], c, i) /\ Led(c, p, i)
    BY <1>17 DEF CampaignLedKind, N
  <2>2. PICK c, p : /\ Becomes(i, p) /\ Hush /\ N[i].role # "leader" /\ Settled(c)
                    /\ Campaign(N[i], c, i) /\ Led(c, p, i)
    BY <2>1
  <2>3. /\ FullLog(c.disk) = FullLog(N[i].disk) /\ c.reigns = N[i].reigns
        /\ c.disk.term = N[i].disk.term + 1 /\ c.stored = N[i].stored
        /\ c.ballots = N[i].ballots \cup {<<c.disk.term, i>>}
        /\ c.disk.commit = N[i].disk.commit /\ c.disk.base = N[i].disk.base
        /\ AnswersFrom(N[i], c)
    BY <2>2 DEF Campaign, AnswersFrom
  <2>4. /\ N[i].disk.term <= c.disk.term /\ c.disk.term \notin N[i].reigns
        /\ N[i].disk.term < c.disk.term
    BY <1>5, <1>13, <2>3
  <2> QED BY <1>12, <2>2, <2>3, <2>4
<1>18. CASE LedKind
  <2>1. PICK i \in Node : \E p : /\ Becomes(i, p) /\ Hush /\ N[i].role = "candidate"
                                 /\ Led(N[i], p, i)
    BY <1>18 DEF LedKind, N
  <2>2. PICK p : Becomes(i, p) /\ Led(N[i], p, i)
    BY <2>1
  <2>3. N[i].disk.term \notin N[i].reigns
    BY <1>2, <2>1 DEF Good, LogInv, Reigning, TermOf
  <2>4. N[i].disk.term <= N[i].disk.term /\ AnswersFrom(N[i], N[i])
    BY <1>5 DEF AnswersFrom
  <2>5. Settled(N[i])
    <3>1. Fit(N[i])
      BY <1>1, FitFacts DEF N
    <3> QED BY <2>1, <3>1 DEF Fit
  <2> QED BY <1>12, <2>1, <2>2, <2>3, <2>4, <2>5
<1>19. CASE OpenKind
  <2>1. PICK i \in Node : \E c, p :
          /\ Becomes(i, p) /\ Hush /\ N[i].mode = "down" /\ Revived(N[i], c) /\ Settled(c)
          /\ \/ p = c /\ c.disk.term = N[i].disk.term
             \/ Led(c, p, i) /\ c.disk.term = N[i].disk.term + 1
    BY <1>19 DEF OpenKind, N
  <2>2. PICK c, p :
          /\ Becomes(i, p) /\ Hush /\ N[i].mode = "down" /\ Revived(N[i], c) /\ Settled(c)
          /\ \/ p = c /\ c.disk.term = N[i].disk.term
             \/ Led(c, p, i) /\ c.disk.term = N[i].disk.term + 1
    BY <2>1
  <2>3. CASE p = c /\ c.disk.term = N[i].disk.term
    <3>1. Idle(N[i], p)
      BY <1>5, <2>2, <2>3 DEF Revived, Idle, SamePast
    <3> QED BY <1>7, <1>11, <2>2, <3>1
  <2>4. CASE Led(c, p, i) /\ c.disk.term = N[i].disk.term + 1
    <3>1. /\ FullLog(c.disk) = FullLog(N[i].disk) /\ c.reigns = N[i].reigns
          /\ c.stored = N[i].stored /\ c.ballots = N[i].ballots
          /\ c.disk.commit = N[i].disk.commit /\ c.disk.base = N[i].disk.base
          /\ AnswersFrom(N[i], c)
      BY <2>2 DEF Revived, SamePast
    <3>2. /\ N[i].disk.term <= c.disk.term /\ c.disk.term \notin N[i].reigns
          /\ N[i].disk.term < c.disk.term
      BY <1>5, <1>13, <2>4
    <3>3. N[i].role # "leader"
      BY <1>1, <2>2, FitFacts DEF Fit, N
    <3> QED BY <1>12, <2>2, <2>4, <3>1, <3>2, <3>3
  <2> QED BY <2>2, <2>3, <2>4
<1>20. CASE MatchKind
  <2>1. PICK r \in replies : \E c, x, p :
          /\ Becomes(r.req.from, p) /\ Hush /\ Matched(N[r.req.from], c, r)
          /\ r.req \in AppendRequest /\ r.ok /\ r.req.term = N[r.req.from].disk.term
          /\ N[r.req.from].role = "leader"
          /\ Progress(c, x, r.req.from) /\ Rest(x, p, Nil)
          /\ \/ p = x
             \/ /\ x.disk.base = N[r.req.from].disk.base
                /\ p.disk.term = N[r.req.from].disk.term
    BY <1>20 DEF MatchKind, N
  <2> DEFINE i == r.req.from
  <2>2. PICK c, x, p :
          /\ Becomes(i, p) /\ Hush /\ Matched(N[i], c, r)
          /\ Progress(c, x, i) /\ Rest(x, p, Nil)
          /\ p = x \/ (x.disk.base = N[i].disk.base /\ p.disk.term = N[i].disk.term)
    BY <2>1
  <2>3. i \in Node /\ r.req \in R
    BY <1>1, <2>1, MessageTypes DEF Acks, R, AppendRequest
  <2>4. M[i] = p /\ \A j \in Node \ {i} : M[j] = N[j]
    BY <1>8, <2>2, <2>3
  <2>5. S \in SUBSET R
    BY <1>7, <2>2
  <2>6. /\ r.req.term = TermOf(N, i) /\ Rest(x, M[i], Nil)
        /\ M[i] = x \/ (x.disk.base = N[i].disk.base /\ TermOf(M, i) = TermOf(N, i))
    BY <2>1, <2>2, <2>4 DEF TermOf
  <2> QED BY <1>1, <1>2, <1>3, <1>6, <1>10, <2>1, <2>2, <2>3, <2>4, <2>5, <2>6,
             MatchFurthers DEF Goal
<1>21. CASE SubmitKind
  <2>1. PICK i \in Node, cmd \in Operation : \E c, p :
          /\ Becomes(i, p) /\ Hush /\ N[i].role = "leader"
          /\ Proposed(N[i], c, i, cmd) /\ Settled(c) /\ Progress(c, p, i)
    BY <1>21 DEF SubmitKind, N
  <2>2. PICK c, p : /\ Becomes(i, p) /\ Hush /\ N[i].role = "leader"
                    /\ Proposed(N[i], c, i, cmd) /\ Settled(c) /\ Progress(c, p, i)
    BY <2>1
  <2>3. N[i].leader = i /\ N[i].disk.term \in N[i].reigns
    BY <1>2, <2>2 DEF Good, LogInv, Reigning, TermOf
  <2>4. M = [N EXCEPT ![i] = p] /\ M[i] = p
    BY <1>8, <2>2
  <2>5. Grown(N, M, A, B, i)
    BY <1>4, <1>5, <1>10, <2>2, <2>3, <2>4, ProposedGrown
  <2>6. /\ c.role = "leader" /\ c.match[i] = Len(FullLog(c.disk))
        /\ c.disk.commit = N[i].disk.commit /\ c.disk.base = N[i].disk.base
        /\ AnswersFrom(N[i], c) /\ \A j \in Node \ {i} : c.match[j] = N[i].match[j]
    BY <2>2 DEF Proposed, Appended, AnswersFrom
  <2>7. S \in SUBSET R
    BY <1>7, <2>2
  <2> QED BY <1>1, <1>2, <1>3, <1>6, <1>10, <2>2, <2>4, <2>5, <2>6, <2>7,
             GrownFurthers DEF Goal
<1>22. CASE InstallKind
  <2>1. PICK m \in wire : \E c, p :
          /\ m \in AppendRequest /\ Becomes(m.to, p)
          /\ Rest(N[m.to], c, m.from) /\ c.role = "follower"
          /\ c.disk.term = m.term /\ Install(c, p, m)
          /\ \A r \in replies' : r \in replies \/ r.req = m
    BY <1>22 DEF InstallKind, N
  <2>2. PICK c, p :
          /\ m \in AppendRequest /\ Becomes(m.to, p)
          /\ Rest(N[m.to], c, m.from) /\ c.role = "follower"
          /\ c.disk.term = m.term /\ Install(c, p, m)
    BY <2>1
  <2>3. m \in A /\ m.to \in Node
    BY <2>2 DEF Appends, A, AppendRequest
  <2>4. M = [N EXCEPT ![m.to] = p] /\ M[m.to] = p
    BY <1>8, <2>2, <2>3
  <2>5. Taken(N, M, A, B, m.to, m)
    BY <1>4, <1>10, <2>2, <2>3, <2>4, InstallTaken
  <2>6. S \in SUBSET (R \cup {m})
    BY <2>1 DEF Acks, S, R
  <2>7. /\ CommitOf(M, m.to) = CommitAfter(N[m.to].disk, m)
        /\ BaseOf(M, m.to) = BaseOf(N, m.to) /\ AnswersFrom(N[m.to], M[m.to])
    BY <2>2, <2>4 DEF Install, Rest, CommitOf, BaseOf, CommitAfter, AnswersFrom
  <2> QED BY <1>1, <1>2, <1>3, <1>6, <1>10, <2>3, <2>5, <2>6, <2>7,
             InstallFurthers DEF Goal
<1> QED BY <1>9, <1>14, <1>15, <1>16, <1>17, <1>18, <1>19, <1>20, <1>21, <1>22
        DEF NextKind, Goal, N, M, A, B, R, S

-----------------------------------------------------------------------------
(* The invariant of every reachable state. *)

CommitsInv == SafetyInv /\ CommitInv(nodes, Appends, Acks)

(* Every step keeps the invariant, is steady and furthers. *)
LEMMA CommitsInvStep ==
  ASSUME CommitsInv, [Next]_vars
  PROVE  /\ CommitsInv' /\ Steady(nodes, nodes', Appends, Appends')
         /\ \A i \in Node : AnswersFrom(nodes[i], nodes'[i])
<1>1. SafetyInv /\ CommitInv(nodes, Appends, Acks) /\ PledgeInv(nodes, Acks)
  BY DEF CommitsInv, CommitInv
<1>2. SafetyInv' /\ Steady(nodes, nodes', Appends, Appends')
  BY <1>1, SafetyInvStep
<1>3. NextKind
  BY <1>1, NextKinds DEF SafetyInv, LogsInv
<1>4. /\ PledgeInv(nodes', Acks')
      /\ Furthered(nodes, nodes', Appends, Appends', Acks, Acks')
  BY <1>1, <1>2, <1>3, CommitKinds
<1>5. Good(nodes, Appends)
  BY <1>1, StateGood DEF SafetyInv
<1>6. Good(nodes', Appends')
  <2>1. (LogsInv => Good(nodes, Appends))'
    BY StateGood, PTL
  <2> QED BY <1>2, <2>1 DEF SafetyInv
<1>7. Stays(nodes) /\ Heeded(nodes, Appends) /\ Stays(nodes')
  BY <1>1, <1>2 DEF SafetyInv, SafeInv
<1>8. CommitInv(nodes', Appends', Acks')
  BY <1>1, <1>2, <1>4, <1>5, <1>6, <1>7, FurtheredCommits
<1> QED BY <1>2, <1>4, <1>8 DEF CommitsInv, Furthered

(* Nothing is committed. *)
LEMMA CommitsInvInit ==
  ASSUME Init
  PROVE  CommitsInv
<1>1. SafetyInv
  BY SafetyInvInit
<1>2. /\ \A i \in Node : /\ CommitOf(nodes, i) = 0 /\ BaseOf(nodes, i) = 0
                         /\ nodes[i].role = "follower" /\ nodes[i].answered = {}
      /\ Appends = {}
  BY DEF Init, NewNode, EmptyStore, CommitOf, BaseOf, Appends
<1>3. CommitInv(nodes, Appends, Acks)
  BY <1>2 DEF CommitInv, PledgeInv, CommitsSealed, RequestsSealed, PledgesHeld, BasesHeld,
              AnswersSealed, Sealed
<1> QED BY <1>1, <1>3 DEF CommitsInv

(* Every reachable state. *)
LEMMA CommitsInvAlways == Spec => []CommitsInv
<1>1. Init => CommitsInv
  BY CommitsInvInit
<1>2. CommitsInv /\ [Next]_vars => CommitsInv'
  BY CommitsInvStep
<1> QED BY <1>1, <1>2, PTL DEF Spec

(* The parts of the invariant. *)
LEMMA CommitsInvFacts ==
  ASSUME CommitsInv
  PROVE  /\ Good(nodes, Appends) /\ Kept(nodes) /\ Stays(nodes)
         /\ Inherited(nodes, Appends) /\ Heeded(nodes, Appends)
         /\ PledgeInv(nodes, Acks) /\ CommitsSealed(nodes, Appends)
         /\ BasesHeld(nodes, Appends) /\ AnswersSealed(nodes, Appends) /\ NodeInv
BY StateGood DEF CommitsInv, SafetyInv, SafeInv, CommitInv, LogsInv

-----------------------------------------------------------------------------
(* The theorems. *)

(* A sequence that agrees with a longer one is its prefix. *)
LEMMA AlikePrefix ==
  ASSUME NEW s \in Seq(Entry), NEW u \in Seq(Entry), Len(s) <= Len(u), Alike(s, u, Len(s))
  PROVE  IsPrefix(s, u)
<1>1. SubSeq(s, 1, Len(s)) = SubSeq(u, 1, Len(s))
  BY DEF Alike
<1> QED BY <1>1 DEF IsPrefix

(* The first entries of a log. *)
LEMMA FirstEntries ==
  ASSUME NEW s \in Seq(Entry), NEW k \in Nat, k <= Len(s)
  PROVE  /\ SubSeq(s, 1, k) \in Seq(Entry) /\ Len(SubSeq(s, 1, k)) = k
         /\ Alike(SubSeq(s, 1, k), s, k)
BY DEF Alike

(* What a node has committed. *)
LEMMA CommittedFacts ==
  ASSUME CommitsInv, NEW i \in Node
  PROVE  /\ Committed(Disk(i)) \in Seq(Entry)
         /\ Len(Committed(Disk(i))) = CommitOf(nodes, i)
         /\ Alike(Committed(Disk(i)), LogOf(nodes, i), CommitOf(nodes, i))
<1>1. Good(nodes, Appends)
  BY CommitsInvFacts
<1> DEFINE L == LogOf(nodes, i)
           c == CommitOf(nodes, i)
<1>2. Committed(Disk(i)) = SubSeq(L, 1, c)
  BY DEF Committed, Disk, LogOf, CommitOf
<1>3. L \in Seq(Entry) /\ c \in Nat /\ c <= Len(L)
  BY <1>1, NodeFacts, CommitFacts
<1> HIDE DEF L, c
<1>4. /\ SubSeq(L, 1, c) \in Seq(Entry) /\ Len(SubSeq(L, 1, c)) = c
      /\ Alike(SubSeq(L, 1, c), L, c)
  BY <1>3, FirstEntries
<1> QED BY <1>2, <1>4 DEF L, c

(* Two nodes agree on what both have committed. *)
LEMMA CommittedAgree ==
  ASSUME CommitsInv, NEW i \in Node, NEW j \in Node,
         CommitOf(nodes, i) <= CommitOf(nodes, j)
  PROVE  IsPrefix(Committed(Disk(i)), Committed(Disk(j)))
<1> DEFINE s == Committed(Disk(i))
           u == Committed(Disk(j))
           c == CommitOf(nodes, i)
           d == CommitOf(nodes, j)
           L == LogOf(nodes, i)
           K == LogOf(nodes, j)
<1>1. /\ s \in Seq(Entry) /\ u \in Seq(Entry) /\ Len(s) = c /\ Len(u) = d
      /\ Alike(s, L, c) /\ Alike(u, K, d)
  BY CommittedFacts
<1>2. /\ Good(nodes, Appends) /\ Stays(nodes) /\ Inherited(nodes, Appends)
      /\ Sealed(nodes, Appends, L, c, TermOf(nodes, i))
      /\ Sealed(nodes, Appends, K, d, TermOf(nodes, j))
  BY CommitsInvFacts DEF CommitsSealed
<1>3. c \in Nat /\ d \in Nat
  BY <1>2, CommitFacts
<1> HIDE DEF s, u, c, d, L, K
<1>4. c <= d
  BY DEF c, d
<1>5. ASSUME NEW x \in 1 .. c PROVE s[x] = u[x]
  <2>1. x \in 1 .. d
    BY <1>3, <1>4
  <2>2. L[x] = K[x]
    BY <1>2, <1>3, <2>1, SealsMeet
  <2> QED BY <1>1, <2>1, <2>2 DEF Alike
<1>6. IsPrefix(s, u)
  BY <1>1, <1>4, <1>5, AlikePrefix DEF Alike
<1> QED BY <1>6 DEF s, u

(* advanceCommitLocked and AppendEntries commit the same entries everywhere:  *)
(* in every cluster, what two stores call committed never disagrees, whoever  *)
(* crashes, whatever the network loses, repeats or delays.                    *)
THEOREM MachinesAgree == Spec => []StateMachineSafety
<1>1. ASSUME CommitsInv PROVE StateMachineSafety
  <2> SUFFICES ASSUME NEW i \in Node, NEW j \in Node
               PROVE  Agree(Committed(Disk(i)), Committed(Disk(j)))
    BY DEF StateMachineSafety
  <2>1. CommitOf(nodes, i) \in Nat /\ CommitOf(nodes, j) \in Nat
    BY <1>1, CommitsInvFacts, CommitFacts
  <2>2. CASE CommitOf(nodes, i) <= CommitOf(nodes, j)
    BY <1>1, <2>2, CommittedAgree DEF Agree
  <2>3. CASE CommitOf(nodes, j) <= CommitOf(nodes, i)
    BY <1>1, <2>3, CommittedAgree DEF Agree
  <2> QED BY <2>1, <2>2, <2>3
<1> QED BY <1>1, CommitsInvAlways, PTL

(* The up-to-date test of RequestVote: in every cluster a leader holds every  *)
(* entry that was committed anywhere in its own term or an earlier one.       *)
THEOREM LeadersComplete == Spec => []LeaderCompleteness
<1>1. ASSUME CommitsInv PROVE LeaderCompleteness
  <2> SUFFICES ASSUME NEW i \in Node, NEW j \in Node, nodes[i].role = "leader",
                      Disk(j).term <= Disk(i).term
               PROVE  IsPrefix(Committed(Disk(j)), FullLog(Disk(i)))
    BY DEF LeaderCompleteness
  <2> DEFINE s == Committed(Disk(j))
             c == CommitOf(nodes, j)
             L == LogOf(nodes, i)
             K == LogOf(nodes, j)
  <2>1. /\ Good(nodes, Appends) /\ Stays(nodes) /\ Inherited(nodes, Appends)
        /\ Sealed(nodes, Appends, K, c, TermOf(nodes, j))
    BY <1>1, CommitsInvFacts DEF CommitsSealed
  <2>2. /\ c \in Nat /\ TermOf(nodes, j) \in Nat /\ TermOf(nodes, j) <= TermOf(nodes, i)
        /\ L \in Seq(Entry)
    BY <2>1, CommitFacts, NodeFacts DEF TermOf, Disk
  <2>3. s \in Seq(Entry) /\ Len(s) = c /\ Alike(s, K, c)
    BY <1>1, CommittedFacts
  <2> HIDE DEF c, s, K
  <2>4. c <= Len(L) /\ Alike(L, K, c)
    BY <2>1, <2>2, SealedLeader
  <2> HIDE DEF L
  <2>5. IsPrefix(s, L)
    BY <2>2, <2>3, <2>4, AlikePrefix DEF Alike
  <2> QED BY <2>5 DEF s, L, LogOf, Disk
<1> QED BY <1>1, CommitsInvAlways, PTL

(* acceptAppendLocked: in every cluster, what a leader believes a follower of *)
(* its term holds, the follower holds, however late the answers arrive.       *)
THEOREM MatchHeld == Spec => []MatchSound
<1>1. ASSUME CommitsInv PROVE MatchSound
  <2> SUFFICES ASSUME NEW i \in Node, NEW j \in Node, nodes[i].role = "leader",
                      Disk(j).term <= Disk(i).term
               PROVE  /\ nodes[i].match[j] <= Len(FullLog(Disk(i)))
                      /\ IsPrefix(SubSeq(FullLog(Disk(i)), 1, nodes[i].match[j]),
                                  FullLog(Disk(j)))
    BY DEF MatchSound
  <2> DEFINE k == nodes[i].match[j]
             L == LogOf(nodes, i)
             K == LogOf(nodes, j)
  <2>1. Good(nodes, Appends) /\ PledgeInv(nodes, Acks)
    BY <1>1, CommitsInvFacts
  <2>2. /\ L \in Seq(Entry) /\ K \in Seq(Entry) /\ Len(L) \in Nat /\ Len(K) \in Nat
        /\ k \in Nat /\ TermOf(nodes, i) \in Nat /\ TermOf(nodes, j) \in Nat
        /\ TermOf(nodes, j) <= TermOf(nodes, i)
    <3>1. nodes[i].match \in [Node -> Nat]
      BY <2>1, NodeFacts
    <3> QED BY <2>1, <3>1, NodeFacts DEF TermOf, Disk
  <2>3. k <= Len(L) /\ k <= Len(K) /\ Alike(K, L, k)
    <3>1. CASE k = 0
      BY <2>2, <3>1 DEF Alike
    <3>2. CASE k # 0
      <4>1. 0 < k /\ Pledged(nodes, Acks, i, j, k)
        <5>1. k <= k
          BY <2>2
        <5> QED BY <2>2, <3>2, <5>1 DEF Pledged
      <4>2. Secured(nodes, i, j, k)
        BY <2>1, <2>2, <4>1 DEF PledgeInv
      <4>3. TermOf(nodes, j) = TermOf(nodes, i)
        BY <2>2, <4>2 DEF Secured
      <4> QED BY <4>2, <4>3 DEF Secured
    <3> QED BY <3>1, <3>2
  <2> HIDE DEF k, L, K
  <2> DEFINE s == SubSeq(L, 1, k)
  <2>4. s \in Seq(Entry) /\ Len(s) = k /\ Alike(s, L, k)
    BY <2>2, <2>3, FirstEntries
  <2> HIDE DEF s
  <2>5. IsPrefix(s, K)
    BY <2>2, <2>3, <2>4, AlikePrefix DEF Alike
  <2> QED BY <2>3, <2>5 DEF s, k, L, K, LogOf, Disk
<1> QED BY <1>1, CommitsInvAlways, PTL

(* maybeSnapshotLocked: in every cluster, what one node has compacted is in   *)
(* every node's log, so no follower ever needs a snapshot.                    *)
THEOREM CompactedHeld == Spec => []CompactedEverywhere
<1>1. ASSUME CommitsInv PROVE CompactedEverywhere
  <2> SUFFICES ASSUME NEW i \in Node, NEW j \in Node
               PROVE  IsPrefix(Disk(i).snap, FullLog(Disk(j)))
    BY DEF CompactedEverywhere
  <2> DEFINE s == nodes[i].disk.snap
             d == BaseOf(nodes, i)
             L == LogOf(nodes, i)
             K == LogOf(nodes, j)
  <2>1. Good(nodes, Appends) /\ BasesHeld(nodes, Appends)
    BY <1>1, CommitsInvFacts
  <2>2. /\ s \in Seq(Entry) /\ Len(s) = d /\ d \in Nat /\ Alike(s, L, d)
        /\ K \in Seq(Entry) /\ Len(K) \in Nat
    BY <2>1, CommitFacts, NodeFacts
  <2>3. d <= Len(K) /\ Alike(K, L, d)
    <3>1. CASE d = 0
      BY <2>2, <3>1 DEF Alike
    <3>2. CASE d # 0
      BY <2>1, <3>2 DEF BasesHeld
    <3> QED BY <3>1, <3>2
  <2> HIDE DEF s, d, L, K
  <2>4. IsPrefix(s, K)
    BY <2>2, <2>3, AlikePrefix DEF Alike
  <2> QED BY <2>4 DEF s, K, LogOf, Disk
<1> QED BY <1>1, CommitsInvAlways, PTL

(* applyLocked: in every cluster, the entry a client was answered for holds   *)
(* the client's own command and is in the logs of a majority for ever after.  *)
THEOREM AnswersDurable == Spec => []AnsweredIsDurable
<1>1. ASSUME CommitsInv PROVE AnsweredIsDurable
  <2> SUFFICES ASSUME NEW i \in Node, NEW a \in nodes[i].answered
               PROVE  /\ a.entry.cmd = a.cmd
                      /\ Majority({j \in Node : LET L == FullLog(Disk(j))
                                                IN  Len(L) >= a.index /\ L[a.index] = a.entry})
    BY DEF AnsweredIsDurable, Answers
  <2>1. /\ Good(nodes, Appends) /\ Stays(nodes) /\ AnswersSealed(nodes, Appends) /\ NodeInv
    BY <1>1, CommitsInvFacts
  <2>2. a.entry.cmd = a.cmd
    BY <2>1, FitFacts
  <2>3. PICK s : \E c, b \in Nat : /\ a.index \in 1 .. c /\ Sealed(nodes, Appends, s, c, b)
                                   /\ s[a.index] = a.entry
    BY <2>1 DEF AnswersSealed
  <2>4. PICK c \in Nat, b \in Nat : /\ a.index \in 1 .. c /\ Sealed(nodes, Appends, s, c, b)
                                    /\ s[a.index] = a.entry
    BY <2>3
  <2>5. PICK k \in Nat, t \in Nat :
          /\ c <= k /\ Chosen(nodes, k, t) /\ Choosable(nodes, k, t)
          /\ \A v \in Logs(nodes, Appends) : Holds(v, k, t) => Alike(v, s, c)
    <3>1. c # 0
      BY <2>4
    <3> QED BY <2>1, <2>4, <3>1, SealHeld
  <2>6. PICK Q \in Quora : \A j \in Q : <<k, t>> \in nodes[j].stored
    BY <2>5 DEF Chosen
  <2> DEFINE T == {j \in Node : LET L == FullLog(Disk(j))
                                IN  Len(L) >= a.index /\ L[a.index] = a.entry}
  <2>7. ASSUME NEW j \in Q PROVE j \in T
    <3> DEFINE J == LogOf(nodes, j)
    <3>1. j \in Node
      BY DEF Quora
    <3>2. Holds(J, k, t)
      BY <2>1, <2>5, <2>6, <3>1 DEF Stays
    <3>3. Alike(J, s, c) /\ Len(J) \in Nat
      BY <2>1, <2>5, <3>1, <3>2, NodeFacts
    <3>4. J[a.index] = a.entry
      BY <2>4, <3>3 DEF Alike
    <3> HIDE DEF J
    <3>5. Len(J) >= a.index
      BY <2>4, <2>5, <3>2, <3>3 DEF Holds
    <3>6. J = FullLog(Disk(j))
      BY DEF J, LogOf, Disk
    <3> QED BY <3>1, <3>4, <3>5, <3>6
  <2>8. Q \in SUBSET Node /\ Majority(Q) /\ T \in SUBSET Node
    BY DEF Quora
  <2> HIDE DEF T
  <2>9. Majority(T)
    BY <2>7, <2>8, MajorityGrows
  <2> QED BY <2>2, <2>9 DEF T
<1> QED BY <1>1, CommitsInvAlways, PTL

(* The handler of AppendEntries reports no error about a request that agrees *)
(* with what the node has committed and with its log where the terms agree.  *)
LEMMA NoErrorHere ==
  ASSUME NEW d, Whole(d), NEW m \in AppendRequest, Honest(m), Matches(d, m),
         \A x \in 1 .. Len(FullLog(d)) :
           x <= Len(m.whole) /\ FullLog(d)[x].term = m.whole[x].term =>
             FullLog(d)[x] = m.whole[x],
         \A x \in 1 .. d.commit : x <= Len(m.whole) => m.whole[x] = FullLog(d)[x]
  PROVE  ~AppendError(d, m)
<1> DEFINE L == FullLog(d)
           W == m.whole
           from == ReplaceFrom(d, m)
           f == IF from = 0 THEN Len(W) + 1 ELSE from
           seen == IF from = 0 THEN 1 .. Len(m.entries) ELSE 1 .. (from - m.prev - 1)
           prev == m.prev
           len == Len(m.entries)
<1>1. /\ prev \in Nat /\ m.entries \in Seq(Entry) /\ len \in Nat /\ W \in Seq(Entry)
      /\ m.term \in Nat /\ Len(W) \in Nat
  BY DEF AppendRequest
<1>2. /\ Len(W) = prev + len /\ \A x \in 1 .. len : m.entries[x] = W[prev + x]
      /\ Ordered(W, m.term)
  BY DEF Honest
<1>3. /\ f \in Nat /\ prev < f /\ f <= Len(W) + 1 /\ f <= Len(L) + 1
      /\ \A x \in prev .. f - 1 : TermAt(L, x) = TermAt(W, x)
      /\ from # 0 => from <= Len(W) /\ (f = Len(L) + 1 \/ TermAt(L, f) # TermAt(W, f))
      /\ from \in Nat
  BY ReplaceFromExact
<1>4. /\ Len(L) \in Nat /\ d.commit <= Len(L) /\ d.base \in Nat /\ d.commit \in Nat
      /\ \A x \in d.base + 1 .. Len(L) : EntryAt(d, x) = L[x]
  BY WholeLog, StoreTypes DEF Whole
<1>5. d.base <= prev
  BY DEF Matches
<1>6. seen = 1 .. (f - prev - 1)
  BY <1>1, <1>2, <1>3
<1>7. ASSUME NEW x \in 1 .. Len(W) PROVE 0 < W[x].term /\ W[x].term <= m.term /\ W[x].term \in Nat
  <2>1. W[x].term \in Nat
    BY <1>1, EntryFacts
  <2> QED BY <1>2, <2>1 DEF Ordered
<1>8. (from = 0 => f = Len(W) + 1) /\ (from # 0 => f = from)
  OBVIOUS
<1>9. \A x \in 1 .. Len(L) : x <= Len(W) /\ L[x].term = W[x].term => L[x] = W[x]
  OBVIOUS
<1>10. \A x \in 1 .. d.commit : x <= Len(W) => W[x] = L[x]
  OBVIOUS
<1> HIDE DEF L, W, from, f, seen, prev, len
<1>11. ASSUME NEW k \in 1 .. len, k \in seen
       PROVE  m.entries[k].cmd = EntryAt(d, prev + k).cmd
  <2> DEFINE x == prev + k
  <2>1. x \in prev .. f - 1 /\ x \in 1 .. Len(L) /\ x <= Len(W) /\ x # 0
        /\ x \in d.base + 1 .. Len(L)
    BY <1>1, <1>2, <1>3, <1>4, <1>5, <1>6, <1>11
  <2> HIDE DEF x
  <2>2. L[x].term = W[x].term
    BY <1>3, <2>1 DEF TermAt
  <2>3. L[x] = W[x] /\ EntryAt(d, x) = L[x]
    BY <1>4, <1>9, <2>1, <2>2
  <2> QED BY <1>2, <1>11, <2>3 DEF x
<1>12. ASSUME NEW k \in 1 .. len PROVE ~(m.entries[k].term > m.term) /\ m.entries[k].term # 0
  <2>1. prev + k \in 1 .. Len(W)
    BY <1>1, <1>2
  <2>2. m.entries[k] = W[prev + k]
    BY <1>2
  <2>3. /\ 0 < W[prev + k].term /\ W[prev + k].term <= m.term /\ W[prev + k].term \in Nat
    BY <1>7, <2>1
  <2> QED BY <1>1, <2>2, <2>3
<1>13. ~(from # 0 /\ from <= d.commit)
  <2> SUFFICES ASSUME from # 0, from <= d.commit PROVE FALSE
    OBVIOUS
  <2>1. f = from /\ f \in 1 .. d.commit /\ f <= Len(W) /\ f # Len(L) + 1 /\ f # 0
    BY <1>3, <1>4, <1>8
  <2>2. W[f] = L[f]
    BY <1>10, <2>1
  <2> QED BY <1>3, <2>1, <2>2 DEF TermAt
<1>14. \A k \in seen : k \in 1 .. len
  BY <1>1, <1>2, <1>3, <1>6
<1> QED BY <1>11, <1>12, <1>13, <1>14 DEF AppendError, from, seen, prev, len

(* In every cluster AppendEntries returns none of its errors ("same index and *)
(* term with different command", "attempt to overwrite committed entry",      *)
(* "malformed log entry"), whatever request arrives however late.             *)
THEOREM AppendsAccepted == Spec => []NoAppendError
<1>1. ASSUME CommitsInv PROVE NoAppendError
  <2> SUFFICES ASSUME NEW m \in wire, m.type = "append", m.term >= Disk(m.to).term,
                      Matches(Disk(m.to), m)
               PROVE  ~AppendError(Disk(m.to), m)
    BY DEF NoAppendError
  <2> DEFINE i == m.to
             L == LogOf(nodes, i)
             c == CommitOf(nodes, i)
             T == TermOf(nodes, i)
  <2>1. /\ Good(nodes, Appends) /\ Stays(nodes) /\ Heeded(nodes, Appends) /\ NodeInv
        /\ CommitsSealed(nodes, Appends)
    BY <1>1, CommitsInvFacts
  <2>2. m \in Appends /\ m \in AppendRequest /\ Honest(m) /\ i \in Node
    BY <2>1, MessageTypes
  <2>3. /\ Whole(nodes[i].disk) /\ L \in Logs(nodes, Appends) /\ Len(L) \in Nat
        /\ T \in Nat /\ c \in Nat /\ c <= Len(L) /\ m.term \in Nat
        /\ m.whole \in Logs(nodes, Appends)
    BY <2>1, <2>2, NodeFacts, CommitFacts, RequestFacts
  <2>4. Sealed(nodes, Appends, L, c, T)
    BY <2>1, <2>2 DEF CommitsSealed
  <2>5. T <= m.term
    <3>1. m.term >= T
      BY DEF TermOf, Disk
    <3> HIDE DEF T
    <3> QED BY <2>3, <3>1
  <2>6. L = FullLog(Disk(i)) /\ c = Disk(i).commit /\ Disk(i) = nodes[i].disk
    BY DEF LogOf, CommitOf, Disk
  <2> HIDE DEF L, c, T
  <2>7. \A x \in 1 .. c : x <= Len(m.whole) => m.whole[x] = L[x]
    BY <2>1, <2>2, <2>3, <2>4, <2>5, SealedAgrees
  <2>8. \A x \in 1 .. Len(L) :
          x <= Len(m.whole) /\ L[x].term = m.whole[x].term => L[x] = m.whole[x]
    <3> SUFFICES ASSUME NEW x \in 1 .. Len(L), x <= Len(m.whole), L[x].term = m.whole[x].term
                 PROVE  L[x] = m.whole[x]
      OBVIOUS
    <3>1. Alike(L, m.whole, x)
      BY <2>1, <2>3 DEF Good, LogInv, Matching
    <3>2. x \in 1 .. x
      BY <2>3
    <3> QED BY <3>1, <3>2 DEF Alike
  <2> QED BY <2>2, <2>3, <2>6, <2>7, <2>8, NoErrorHere
<1> QED BY <1>1, CommitsInvAlways, PTL

-----------------------------------------------------------------------------
(***************************************************************************)
(* Raft implements Ledger.  What is committed is one history by the seals  *)
(* above; what is left is who is answered, and when.  Two                  *)
(* clients answered at one index would be answered by one node, since the  *)
(* entry's term has one leader, and a node answers above what it had       *)
(* committed.  A client that called after index k was answered waits above *)
(* k, or, on a deposed leader that does not know it, at an index somebody  *)
(* has committed for another leader, and so is never answered.             *)
(***************************************************************************)

-----------------------------------------------------------------------------
(* What the handlers do to the clients that wait. *)

(* A node has the fields of NodeState. *)
Fielded(n) ==
  DOMAIN n = {"disk", "mode", "failed", "role", "leader", "votes", "next", "match",
              "pending", "applied", "machine", "ballots", "reigns", "stored", "answered"}

(* Node n becomes p without a new client: whoever is answered has waited. *)
Serves(n, p) ==
  /\ Fielded(p) /\ n.answered \subseteq p.answered /\ p.pending \subseteq n.pending
  /\ \A a \in p.answered :
       \/ a \in n.answered
       \/ \E w \in n.pending : w.index = a.index /\ w.before = a.before

(* Clients may leave, and nobody is answered. *)
Dismisses(n, p) == p.pending \subseteq n.pending /\ p.answered = n.answered

(* Handlers are made of such steps. *)
LEMMA ServesOn ==
  ASSUME NEW n, NEW c, NEW p, Serves(n, c), Serves(c, p)
  PROVE  Serves(n, p)
BY DEF Serves

(* Where nobody waits, nobody is answered. *)
LEMMA ServesNobody ==
  ASSUME NEW n, NEW p, Serves(n, p), n.pending = {}
  PROVE  Dismisses(n, p) /\ p.pending = {}
BY DEF Serves, Dismisses

(* persistLocked serves nobody; one that fails drops the clients. *)
LEMMA PersistServes ==
  ASSUME NEW n, Fielded(n), NEW term, NEW vote, NEW commit, NEW from, NEW entries
  PROVE  Serves(n, PersistLocked(n, term, vote, commit, from, entries))
BY DEF Serves, PersistLocked, Fielded

(* persistLocked answers nobody. *)
LEMMA PersistDismisses ==
  ASSUME NEW n, Fielded(n), NEW term, NEW vote, NEW commit, NEW from, NEW entries
  PROVE  LET p == PersistLocked(n, term, vote, commit, from, entries)
         IN  Fielded(p) /\ Dismisses(n, p)
BY DEF Dismisses, PersistLocked, Fielded

(* A deposed leader drops its clients. *)
LEMMA StepDownServes ==
  ASSUME NEW n, Fielded(n), NEW term, NEW leader, ~n.failed
  PROVE  LET p == StepDownLocked(n, term, leader)
         IN  Serves(n, p) /\ Dismisses(n, p) /\ p.pending = {}
<1> DEFINE p == IF term > n.disk.term
                  THEN PersistLocked(n, term, Nil, n.disk.commit, 0, <<>>)
                  ELSE n
<1>1. Serves(n, p) /\ p.answered = n.answered /\ (p.failed => p.pending = {})
  BY PersistServes DEF Serves, PersistLocked, Fielded
<1>2. StepDownLocked(n, term, leader)
        = IF p.failed THEN p
          ELSE [p EXCEPT !.role = "follower", !.leader = leader, !.pending = {}]
  BY DEF StepDownLocked
<1> HIDE DEF p
<1> QED BY <1>1, <1>2 DEF Serves, Fielded, Dismisses

(* maybeSnapshotLocked serves nobody. *)
LEMMA SnapshotServes ==
  ASSUME NEW n, Fielded(n), NEW i
  PROVE  Serves(n, MaybeSnapshotLocked(n, i))
BY DEF Serves, MaybeSnapshotLocked, Fielded

(* applyLocked answers clients that waited. *)
LEMMA ApplyServes ==
  ASSUME NEW n, Fielded(n), NEW i
  PROVE  Serves(n, ApplyLocked(n, i))
<1> DEFINE d == n.disk
           done == {w \in n.pending : n.applied < w.index /\ w.index <= d.commit}
           new == {[index |-> w.index, cmd |-> w.cmd, before |-> w.before,
                    entry |-> EntryAt(d, w.index)] : w \in done}
           applied == Larger(n.applied, d.commit)
           machine == n.machine \o EntriesBetween(d, n.applied + 1, d.commit)
           x == [n EXCEPT !.applied = applied, !.machine = machine,
                          !.pending = @ \ done, !.answered = @ \cup new]
<1>1. ApplyLocked(n, i) = MaybeSnapshotLocked(x, i)
  BY DEF ApplyLocked
<1>2. \A a \in new : \E w \in n.pending : w.index = a.index /\ w.before = a.before
  OBVIOUS
<1> HIDE DEF done, new, applied, machine, d
<1>3. Serves(n, x)
  BY <1>2 DEF Serves, Fielded
<1> HIDE DEF x
<1>4. Serves(x, MaybeSnapshotLocked(x, i))
  BY <1>3, SnapshotServes DEF Serves
<1> QED BY <1>1, <1>3, <1>4, ServesOn

(* advanceCommitLocked answers clients that waited. *)
LEMMA AdvanceServes ==
  ASSUME NEW n, Fielded(n), NEW i
  PROVE  Serves(n, AdvanceCommitLocked(n, i))
<1> DEFINE p == PersistLocked(n, n.disk.term, n.disk.vote, Max(Quorate(n, i)), 0, <<>>)
<1>1. Serves(n, n) /\ Serves(n, p)
  BY PersistServes DEF Serves
<1>2. AdvanceCommitLocked(n, i) \in {n, p, ApplyLocked(p, i)}
  BY DEF AdvanceCommitLocked
<1> HIDE DEF p
<1>3. Serves(n, ApplyLocked(p, i))
  BY <1>1, ApplyServes, ServesOn DEF Serves
<1> QED BY <1>1, <1>2, <1>3

(* becomeLeaderLocked takes no client. *)
LEMMA BecomeLeaderServes ==
  ASSUME NEW n, Fielded(n), NEW i
  PROVE  Serves(n, BecomeLeaderLocked(n, i))
<1> DEFINE last == LastIndex(n.disk)
           next == [j \in Node |-> last + 1]
           match == [j \in Node |-> 0]
           reigns == n.reigns \cup {n.disk.term}
           l == [n EXCEPT !.role = "leader", !.leader = i, !.next = next,
                          !.match = match, !.reigns = reigns]
           barrier == [term |-> n.disk.term, cmd |-> Barrier]
           p == PersistLocked(l, n.disk.term, n.disk.vote, n.disk.commit,
                              last + 1, <<barrier>>)
           c == [p EXCEPT !.match[i] = last + 1]
<1>1. BecomeLeaderLocked(n, i) \in {p, AdvanceCommitLocked(c, i)}
  BY DEF BecomeLeaderLocked
<1> HIDE DEF next, match, reigns, barrier
<1>2. Serves(n, l)
  BY DEF Serves, Fielded
<1> HIDE DEF l, last
<1>3. Serves(n, p)
  BY <1>2, PersistServes, ServesOn DEF Serves
<1> HIDE DEF p
<1>4. Serves(p, c)
  BY <1>3 DEF Serves, Fielded
<1> HIDE DEF c
<1>5. Serves(c, AdvanceCommitLocked(c, i))
  BY <1>4, AdvanceServes DEF Serves
<1> QED BY <1>1, <1>3, <1>4, <1>5, ServesOn

(* startElectionLocked takes no client. *)
LEMMA StartElectionServes ==
  ASSUME NEW n, Fielded(n), NEW i
  PROVE  Serves(n, StartElectionLocked(n, i))
<1> DEFINE term == n.disk.term + 1
           p == PersistLocked(n, term, i, n.disk.commit, 0, <<>>)
           c == [p EXCEPT !.role = "candidate", !.leader = Nil, !.votes = {i},
                          !.ballots = @ \cup {<<term, i>>}]
<1>1. StartElectionLocked(n, i) \in {p, c, BecomeLeaderLocked(c, i)}
  BY DEF StartElectionLocked
<1>2. Serves(n, p)
  BY PersistServes
<1> HIDE DEF p, term
<1>3. Serves(p, c)
  BY <1>2 DEF Serves, Fielded
<1> HIDE DEF c
<1>4. Serves(c, BecomeLeaderLocked(c, i))
  BY <1>3, BecomeLeaderServes DEF Serves
<1> QED BY <1>1, <1>2, <1>3, <1>4, ServesOn

(* The end of AppendEntries takes no client. *)
LEMMA InstallServes ==
  ASSUME NEW n, Fielded(n), NEW i, NEW m
  PROVE  Serves(n, InstallEntries(n, i, m))
<1> DEFINE d == n.disk
           from == ReplaceFrom(d, m)
           commit == CommitAfter(d, m)
           new == IF from = 0 THEN <<>>
                  ELSE SubSeq(m.entries, from - m.prev, Len(m.entries))
           p == PersistLocked(n, d.term, d.vote, commit, from, new)
<1>1. InstallEntries(n, i, m) \in {n, p, ApplyLocked(p, i)}
  BY DEF InstallEntries
<1> HIDE DEF from, commit, new, d
<1>2. Serves(n, n) /\ Serves(n, p)
  BY PersistServes DEF Serves
<1> HIDE DEF p
<1>3. Serves(p, ApplyLocked(p, i))
  BY <1>2, ApplyServes DEF Serves
<1> QED BY <1>1, <1>2, <1>3, ServesOn

(* A node that is opened has no clients, and answers none. *)
LEMMA OpenedServes ==
  ASSUME NEW n, Fielded(n), NEW i
  PROVE  Dismisses(n, Opened(n, i))
<1> DEFINE d == n.disk
           s == [Stopped(n) EXCEPT !.mode = "up", !.applied = d.base, !.machine = d.snap]
           r == ApplyLocked(s, i)
           p == PersistLocked(r, d.term + 1, i, d.commit, 0, <<>>)
<1>1. Opened(n, i) \in {r, p, BecomeLeaderLocked(p, i)}
  BY DEF Opened
<1>2. Fielded(s) /\ s.pending = {} /\ s.answered = n.answered
  BY DEF Stopped, Fielded
<1> HIDE DEF d, s
<1>3. Serves(s, r)
  BY <1>2, ApplyServes
<1> HIDE DEF r
<1>4. Serves(s, p)
  BY <1>3, PersistServes, ServesOn DEF Serves
<1> HIDE DEF p
<1>5. Serves(s, BecomeLeaderLocked(p, i))
  BY <1>4, BecomeLeaderServes, ServesOn DEF Serves
<1> QED BY <1>1, <1>2, <1>3, <1>4, <1>5, ServesNobody DEF Dismisses


(* RequestVote answers no client. *)
LEMMA VoteServes ==
  ASSUME NEW n, Fielded(n), NEW m, ~n.failed
  PROVE  Dismisses(n, VoteHandled(n, m).node)
<1> DEFINE p == IF m.term > n.disk.term THEN StepDownLocked(n, m.term, Nil) ELSE n
           granted == ~p.failed /\ MayVote(p.disk, m)
           r == PersistLocked(p, m.term, m.from, p.disk.commit, 0, <<>>)
           q == IF granted /\ p.disk.vote = Nil THEN r ELSE p
           v == [q EXCEPT !.ballots = @ \cup {<<m.term, m.from>>}]
<1>1. VoteHandled(n, m).node \in {q, v}
  BY DEF VoteHandled
<1> HIDE DEF granted
<1>2. Serves(n, p) /\ Dismisses(n, p)
  BY StepDownServes DEF Serves, Dismisses
<1> HIDE DEF p
<1>3. Fielded(r) /\ r.pending \subseteq p.pending /\ r.answered = p.answered
  BY <1>2, PersistDismisses DEF Dismisses, Serves
<1> HIDE DEF r
<1>4. Fielded(q) /\ Dismisses(n, q)
  BY <1>2, <1>3 DEF Dismisses, Serves
<1> HIDE DEF q
<1>5. Dismisses(n, v)
  BY <1>4 DEF Dismisses, Fielded
<1> QED BY <1>1, <1>4, <1>5

-----------------------------------------------------------------------------
(* Every step is silent, or one of a leader that may take a client and      *)
(* answers some.                                                            *)

DismissStep == \A i \in Node : Dismisses(nodes[i], nodes'[i])

(* Node n takes the client w as it becomes p. *)
Fresh(n, p, w) ==
  /\ w.index = Len(FullLog(n.disk)) + 1 /\ w.index <= Len(FullLog(p.disk))
  /\ FullLog(p.disk)[w.index].term = n.disk.term
  /\ w.before = {a.index : a \in Answers}

(* Leader i serves the clients of q. *)
ClientStep ==
  \E i \in Node : \E p, q :
    LET n == nodes[i]
    IN  /\ nodes' = [nodes EXCEPT ![i] = p]
        /\ n.role = "leader" /\ p.disk.term = n.disk.term
        /\ Begins(FullLog(n.disk), FullLog(p.disk))
        /\ q.answered = n.answered /\ Serves(q, p)
        /\ \A w \in q.pending : w \in n.pending \/ Fresh(n, p, w)

(* Nodes have fields, and clients wait on leaders. *)
LEMMA ClientFacts ==
  ASSUME NodeInv, NEW i \in Node
  PROVE  /\ Fielded(nodes[i]) /\ nodes \in [Node -> NodeState]
         /\ nodes[i].role # "leader" => nodes[i].pending = {}
         /\ nodes[i].mode = "down" => nodes[i].pending = {}
         /\ Available(nodes[i]) => ~nodes[i].failed
<1>1. nodes \in [Node -> NodeState] /\ nodes[i] \in NodeState
  BY DEF NodeInv, TypeInv, TypeOK
<1>2. Fielded(nodes[i])
  BY <1>1 DEF NodeState, Fielded
<1>3. Fit(nodes[i])
  BY DEF NodeInv
<1> QED BY <1>1, <1>2, <1>3 DEF Fit, Settled, Ready, Available

(* One silent node makes a silent step. *)
LEMMA DismissOne ==
  ASSUME NodeInv, NEW i \in Node, NEW p, nodes' = [nodes EXCEPT ![i] = p],
         Dismisses(nodes[i], p)
  PROVE  DismissStep
<1>1. nodes \in [Node -> NodeState]
  BY ClientFacts
<1> QED BY <1>1 DEF DismissStep, Dismisses

(* A node without clients makes a silent step. *)
LEMMA ServesOne ==
  ASSUME NodeInv, NEW i \in Node, NEW p, nodes' = [nodes EXCEPT ![i] = p],
         Serves(nodes[i], p), nodes[i].pending = {}
  PROVE  DismissStep
BY ServesNobody, DismissOne

(* A step that changes no node. *)
LEMMA UnchangedDismisses ==
  ASSUME UNCHANGED nodes
  PROVE  DismissStep
BY DEF DismissStep, Dismisses

(* The end of a process. *)
LEMMA HaltDismisses ==
  ASSUME NodeInv, NEW i \in Node, NEW d, Halt(i, d)
  PROVE  DismissStep
<1> DEFINE n == nodes[i]
           p == [Stopped(n) EXCEPT !.disk = d]
<1>1. nodes' = [nodes EXCEPT ![i] = p]
  BY DEF Halt
<1>2. Fielded(n)
  BY ClientFacts
<1> HIDE DEF n
<1>3. Dismisses(n, p)
  BY <1>2 DEF Stopped, Fielded, Dismisses
<1> HIDE DEF p
<1> QED BY <1>1, <1>3, DismissOne DEF n

(* A request that arrives: a node that steps down answers nobody, whatever *)
(* it then commits.                                                        *)
LEMMA HandleDismisses ==
  ASSUME NodeInv, NEW m \in wire, Handle(m)
  PROVE  DismissStep
<1> DEFINE n == nodes[m.to]
           p == StepDownLocked(n, m.term, m.from)
           q == InstallEntries(p, m.to, m)
           h == VoteHandled(n, m).node
<1>1. m.to \in Node
  BY MessageTypes
<1>2. Fielded(n) /\ (Available(n) => ~n.failed)
  BY <1>1, ClientFacts
<1>3. CASE RequestVoteStale(m) \/ AppendEntriesStale(m)
  BY <1>3, UnchangedDismisses DEF RequestVoteStale, AppendEntriesStale
<1>4. CASE RequestVote(m)
  <2>1. Available(n) /\ nodes' = [nodes EXCEPT ![m.to] = h]
    BY <1>4 DEF RequestVote
  <2> QED BY <1>1, <1>2, <2>1, VoteServes, DismissOne
<1>5. ASSUME Available(n) PROVE Serves(n, p) /\ Dismisses(n, p) /\ p.pending = {}
  BY <1>2, <1>5, StepDownServes
<1>6. CASE AppendEntriesMismatch(m)
  BY <1>1, <1>5, <1>6, DismissOne DEF AppendEntriesMismatch
<1>7. CASE AppendEntriesMatch(m)
  <2>1. Available(n) /\ nodes' \in {[nodes EXCEPT ![m.to] = p], [nodes EXCEPT ![m.to] = q]}
    BY <1>7 DEF AppendEntriesMatch
  <2>2. Fielded(p) /\ Dismisses(n, p) /\ p.pending = {}
    BY <1>5, <2>1 DEF Serves
  <2> HIDE DEF p, n
  <2>3. Serves(p, q)
    BY <2>2, InstallServes
  <2>4. Dismisses(n, q)
    BY <2>2, <2>3, ServesNobody DEF Dismisses
  <2> HIDE DEF q
  <2> QED BY <1>1, <2>1, <2>2, <2>4, DismissOne DEF n
<1> QED BY <1>3, <1>4, <1>6, <1>7 DEF Handle


(* An answer that moves no commit index: a candidate has no clients. *)
LEMMA ReactDismisses ==
  ASSUME NodeInv, NEW r \in replies,
         ReplyIgnored(r) \/ ReplyNewerTerm(r) \/ VoteGranted(r) \/ AppendRefused(r)
  PROVE  DismissStep
<1> DEFINE i == r.req.from
           j == r.req.to
           n == nodes[i]
           s == StepDownLocked(n, r.term, Nil)
           v == [n EXCEPT !.votes = @ \cup {j}]
           l == BecomeLeaderLocked(v, i)
           x == [n EXCEPT !.next[j] = NextAfter(r)]
<1>1. i \in Node
  BY MessageTypes
<1>2. /\ Fielded(n) /\ (Available(n) => ~n.failed)
      /\ n.role # "leader" => n.pending = {}
  BY <1>1, ClientFacts
<1>3. CASE ReplyIgnored(r)
  BY <1>3, UnchangedDismisses DEF ReplyIgnored
<1>4. CASE ReplyNewerTerm(r)
  <2>1. Available(n) /\ nodes' = [nodes EXCEPT ![i] = s]
    BY <1>4 DEF ReplyNewerTerm
  <2>2. Dismisses(n, s)
    BY <1>2, <2>1, StepDownServes
  <2> HIDE DEF s
  <2> QED BY <1>1, <2>1, <2>2, DismissOne
<1>5. CASE VoteGranted(r)
  <2>1. /\ n.role = "candidate"
        /\ nodes' \in {[nodes EXCEPT ![i] = v], [nodes EXCEPT ![i] = l]}
    BY <1>5 DEF VoteGranted, Current
  <2>2. n.pending = {}
    BY <1>2, <2>1
  <2> HIDE DEF n
  <2>3. Serves(n, v)
    BY <1>2 DEF Serves, Fielded
  <2> HIDE DEF v
  <2>4. Serves(n, l)
    BY <2>3, BecomeLeaderServes, ServesOn DEF Serves
  <2> HIDE DEF l
  <2> QED BY <1>1, <2>1, <2>2, <2>3, <2>4, ServesOne DEF n
<1>6. CASE AppendRefused(r)
  <2>1. UNCHANGED nodes \/ nodes' = [nodes EXCEPT ![i] = x]
    BY <1>6 DEF AppendRefused
  <2>2. Dismisses(n, x)
    <3> HIDE DEF n
    <3> QED BY <1>2 DEF Dismisses, Fielded
  <2> HIDE DEF x
  <2> QED BY <1>1, <2>1, <2>2, DismissOne, UnchangedDismisses
<1> QED BY <1>3, <1>4, <1>5, <1>6

(* acceptAppendLocked of a success. *)
LEMMA SucceededServes ==
  ASSUME NodeInv, NEW r \in replies, AppendSucceeded(r)
  PROVE  ClientStep
<1> DEFINE i == r.req.from
           j == r.req.to
           n == nodes[i]
           k == MatchAfter(n, r.req)
           x == [n EXCEPT !.match[j] = k, !.next[j] = k + 1]
           a == AdvanceCommitLocked(x, i)
           p == MaybeSnapshotLocked(a, i)
<1>1. i \in Node
  BY MessageTypes
<1>2. nodes' = [nodes EXCEPT ![i] = p] /\ n.role = "leader"
  BY DEF AppendSucceeded, Current
<1>3. Fielded(n) /\ nodes \in [Node -> NodeState]
  BY <1>1, ClientFacts
<1>4. Serves(n, p)
  <2> HIDE DEF n, k
  <2>1. Serves(n, x)
    BY <1>3 DEF Serves, Fielded
  <2> HIDE DEF x
  <2>2. Serves(x, a)
    BY <2>1, AdvanceServes DEF Serves
  <2> HIDE DEF a
  <2>3. Serves(a, p)
    BY <2>2, SnapshotServes DEF Serves
  <2> HIDE DEF p
  <2> QED BY <2>1, <2>2, <2>3, ServesOn
<1>5. nodes'[i] = p
  BY <1>1, <1>2, <1>3
<1> HIDE DEF p
<1>6. FullLog(p.disk) = FullLog(n.disk) /\ p.disk.term = n.disk.term
  <2>1. MatchKind
    BY AppendSucceededKind
  <2>2. PICK s \in replies : \E c, y, q :
          /\ Becomes(s.req.from, q) /\ s.req \in AppendRequest
          /\ Matched(nodes[s.req.from], c, s) /\ Progress(c, y, s.req.from) /\ Rest(y, q, Nil)
          /\ q = y \/ q.disk.term = nodes[s.req.from].disk.term
    BY <2>1, ZenonT(30) DEF MatchKind
  <2>3. PICK c, y, q :
          /\ Becomes(s.req.from, q) /\ s.req \in AppendRequest
          /\ Matched(nodes[s.req.from], c, s) /\ Progress(c, y, s.req.from) /\ Rest(y, q, Nil)
          /\ q = y \/ q.disk.term = nodes[s.req.from].disk.term
    BY <2>2
  <2> DEFINE o == nodes[s.req.from]
  <2>4. FullLog(q.disk) = FullLog(o.disk) /\ q.disk.term = o.disk.term
    BY <2>3 DEF Matched, Progress, SameLog, Rest
  <2>5. nodes' = [nodes EXCEPT ![s.req.from] = q] /\ s.req.from \in Node
    BY <2>3, MessageTypes DEF Becomes
  <2> QED BY <1>1, <1>3, <1>5, <2>4, <2>5
<1>7. Begins(FullLog(n.disk), FullLog(p.disk))
  <2>1. Len(FullLog(n.disk)) \in Nat
    <3>1. Whole(n.disk)
      BY <1>1 DEF NodeInv, Fit, Settled, Ready
    <3> QED BY <3>1, WholeLog
  <2> QED BY <1>6, <2>1 DEF Begins, Alike
<1> QED BY <1>1, <1>2, <1>4, <1>6, <1>7 DEF ClientStep

(* A leader that dies behind answers to clients. *)
LEMMA DieAnsweringServes ==
  ASSUME NodeInv, NEW r \in replies, DieAnswering(r)
  PROVE  ClientStep
<1> DEFINE i == r.req.from
           n == nodes[i]
           d == n.disk
<1>1. i \in Node /\ TypeInv
  BY MessageTypes DEF NodeInv
<1>2. PICK e, A : /\ Departing(i, r, e, A) /\ e \in MidwayStores(i)
                  /\ nodes' = [nodes EXCEPT ![i] = Departed(n, e, A)]
  BY <1>1, DieAnsweringFacts
<1> DEFINE p == Departed(n, e, A)
           top == Max(Quorate([n EXCEPT !.match[r.req.to] = MatchAfter(n, r.req)], i))
<1>3. /\ n.role = "leader" /\ Parting(n, e, A) /\ e = [d EXCEPT !.commit = top]
  BY <1>2 DEF Departing, Current
<1>4. n \in NodeState /\ Whole(d) /\ d \in Store
  BY <1>1, FitFacts
<1>5. e \in Store /\ A \in SUBSET Answer
  BY <1>1, <1>2, DepartingSound
<1>6. /\ p \in NodeState /\ p.disk = e /\ p.pending = {}
      /\ p.answered = n.answered \cup A
  BY <1>4, <1>5, DepartedType
<1>7. nodes' = [nodes EXCEPT ![i] = p]
  BY <1>2
<1> HIDE DEF p, top
<1>8. e.term = d.term /\ e.log = d.log /\ e.snap = d.snap /\ e.base = d.base
  BY <1>3, <1>4 DEF Store
<1>9. FullLog(e) = FullLog(d)
  BY <1>8 DEF FullLog
<1>10. Begins(FullLog(d), FullLog(p.disk))
  <2>1. Len(FullLog(d)) \in Nat
    BY <1>4, WholeLog
  <2> QED BY <1>6, <1>9, <2>1 DEF Begins, Alike
<1>11. \A a \in A : \E w \in n.pending : w.index = a.index /\ w.before = a.before
  BY <1>3 DEF Parting
<1>12. Fielded(p)
  BY <1>6 DEF NodeState, Fielded
<1> HIDE DEF n
<1>13. Serves(n, p)
  BY <1>6, <1>11, <1>12 DEF Serves
<1> QED BY <1>1, <1>3, <1>6, <1>7, <1>8, <1>10, <1>13 DEF ClientStep, n

(* Execute and Get. *)
LEMMA SubmitServes ==
  ASSUME NodeInv, NEW i \in Node, NEW cmd \in Operation, Submit(i, cmd)
  PROVE  ClientStep
<1> DEFINE n == nodes[i]
           index == LastIndex(n.disk) + 1
           before == {a.index : a \in Answers}
           w == [index |-> index, cmd |-> cmd, before |-> before]
           a == PersistLocked(n, n.disk.term, n.disk.vote, n.disk.commit, index,
                              <<[term |-> n.disk.term, cmd |-> cmd]>>)
           q == [a EXCEPT !.pending = {x \in @ : x.index # index} \cup {w},
                          !.match[i] = index]
           p == AdvanceCommitLocked(q, i)
<1>1. /\ n.role = "leader" /\ Available(n)
      /\ nodes' = [nodes EXCEPT ![i] = IF a.failed THEN a ELSE p]
  BY DEF Submit
<1>2. Fielded(n) /\ nodes \in [Node -> NodeState] /\ Ready(n) /\ Settled(n)
  BY <1>1, ClientFacts, AvailableSettled
<1>3. index = Len(FullLog(n.disk)) + 1 /\ index \in Nat /\ Len(FullLog(n.disk)) \in Nat
  BY <1>2, WholeLog, ReadyFacts DEF Ready
<1>4. before \in SUBSET Nat
  <2>1. \A j \in Node : nodes[j].answered \in SUBSET Answer
    BY NodeTypes DEF NodeInv, TypeInv, TypeOK
  <2>2. \A x \in Answers : x \in Answer
    BY <2>1 DEF Answers
  <2>3. \A x \in Answer : x.index \in Nat
    BY DEF Answer
  <2> QED BY <2>2, <2>3
<1> HIDE DEF before
<1>5. w \in Waiter /\ w.index = index /\ w.cmd = cmd /\ w.before = before
  BY <1>3, <1>4 DEF Waiter
<1> HIDE DEF w
<1>6. ~a.failed /\ Settled(q) /\ Proposed(n, q, i, cmd)
  <2>1. n.role = "leader" /\ w \in Waiter /\ w.index = LastIndex(n.disk) + 1 /\ w.cmd = cmd
    BY <1>1, <1>5
  <2>2. Settled(n) /\ n.mode = "up"
    BY <1>1, <1>2 DEF Available
  <2> HIDE DEF n
  <2> QED BY <2>1, <2>2, SubmitExact, ZenonT(30)
<1> HIDE DEF index
<1>7. Fielded(a) /\ a.answered = n.answered /\ a.pending \subseteq n.pending
  BY <1>2, PersistDismisses DEF Dismisses
<1> HIDE DEF a
<1>8. /\ Fielded(q) /\ q.answered = n.answered
      /\ \A x \in q.pending : x \in n.pending \/ x = w
  BY <1>7 DEF Fielded
<1> HIDE DEF q
<1>9. Serves(q, p) /\ Progress(q, p, i)
  BY <1>6, <1>8, AdvanceServes, AdvanceExact DEF Settled
<1> HIDE DEF p
<1>10. /\ FullLog(p.disk) = FullLog(q.disk) /\ p.disk.term = n.disk.term
       /\ Longer(FullLog(n.disk), FullLog(p.disk), [term |-> n.disk.term, cmd |-> cmd])
  BY <1>6, <1>9 DEF Progress, SameLog, Proposed, Appended
<1>11. Begins(FullLog(n.disk), FullLog(p.disk))
  BY <1>3, <1>10 DEF Begins, Longer, Alike
<1>12. Fresh(n, p, w)
  BY <1>3, <1>5, <1>10 DEF Fresh, Longer, before
<1>13. \A x \in q.pending : x \in n.pending \/ Fresh(n, p, x)
  BY <1>8, <1>12
<1> QED BY <1>1, <1>6, <1>8, <1>9, <1>10, <1>11, <1>13 DEF ClientStep

(* Every step. *)
LEMMA NextClients ==
  ASSUME NodeInv, [Next]_vars
  PROVE  DismissStep \/ ClientStep
<1>1. CASE UNCHANGED vars
  BY <1>1, UnchangedDismisses DEF vars
<1>2. ASSUME NEW i \in Node, Tick(i) PROVE DismissStep
  <2>1. Fielded(nodes[i]) /\ nodes[i].pending = {}
    BY <1>2, ClientFacts DEF Tick
  <2>2. nodes' = [nodes EXCEPT ![i] = StartElectionLocked(nodes[i], i)]
    BY <1>2 DEF Tick
  <2> QED BY <2>1, <2>2, StartElectionServes, ServesOne
<1>3. ASSUME NEW i \in Node, Open(i) PROVE DismissStep
  <2>1. Fielded(nodes[i]) /\ nodes' = [nodes EXCEPT ![i] = Opened(nodes[i], i)]
    BY <1>3, ClientFacts DEF Open
  <2> QED BY <2>1, OpenedServes, DismissOne
<1>4. ASSUME NEW i \in Node, Stop(i) \/ Die(i) PROVE DismissStep
  BY <1>4, HaltDismisses DEF Stop, Die
<1>5. ASSUME NEW i \in Node, Pause(i) \/ Resume(i) \/ \E w \in nodes[i].pending : Cancel(i, w)
      PROVE  DismissStep
  <2>1. Fielded(nodes[i]) /\ nodes \in [Node -> NodeState]
    BY ClientFacts
  <2>2. nodes' = [nodes EXCEPT ![i] = nodes'[i]]
    BY <1>5, <2>1 DEF Pause, Resume, Cancel
  <2>3. Dismisses(nodes[i], nodes'[i])
    BY <1>5, <2>1 DEF Pause, Resume, Cancel, Fielded, Dismisses
  <2> QED BY <2>2, <2>3, DismissOne
<1>6. ASSUME NEW i \in Node, NEW j \in Node, Replicate(i, j) PROVE DismissStep
  BY <1>6, HaltDismisses, UnchangedDismisses DEF Replicate
<1>7. ASSUME NEW i \in Node, NEW c \in Operation, Submit(i, c) PROVE ClientStep
  BY <1>7, SubmitServes
<1>8. ASSUME NEW m \in wire, Arrive(m) \/ Duplicate(m) \/ Lose(m) PROVE DismissStep
  BY <1>8, HandleDismisses, UnchangedDismisses DEF Arrive, Duplicate, Lose
<1>9. ASSUME NEW m \in calls, Timeout(m) PROVE DismissStep
  BY <1>9, UnchangedDismisses DEF Timeout
<1>10. ASSUME NEW r \in replies, React(r) \/ DieAnswering(r)
       PROVE  DismissStep \/ ClientStep
  BY <1>10, ReactDismisses, SucceededServes, DieAnsweringServes DEF React
<1> QED BY <1>1, <1>2, <1>3, <1>4, <1>5, <1>6, <1>7, <1>8, <1>9, <1>10 DEF Next


-----------------------------------------------------------------------------
(* What only grows. *)

Grows(n, p) == n.disk.commit <= p.disk.commit /\ n.reigns \subseteq p.reigns

(* A leader that commits. *)
LEMMA ProgressGrows ==
  ASSUME NEW n, NEW p, NEW i, Progress(n, p, i), n.disk.commit \in Nat
  PROVE  Grows(n, p)
BY DEF Progress, Quorate, SamePast, Grows

(* A candidate that becomes leader. *)
LEMMA LedGrows ==
  ASSUME NEW n, NEW p, NEW i, Led(n, p, i), n.disk.commit \in Nat
  PROVE  Grows(n, p)
<1>1. PICK l : Crown(n, l, i) /\ Progress(l, p, i)
  BY DEF Led
<1>2. l.disk.commit = n.disk.commit /\ n.reigns \subseteq l.reigns
  BY <1>1 DEF Crown, Appended
<1> QED BY <1>1, <1>2, ProgressGrows DEF Grows

(* Commit indices and reigns only grow. *)
LEMMA NextGrows ==
  ASSUME NodeInv, NextKind, NEW j \in Node
  PROVE  Grows(nodes[j], nodes'[j])
<1>1. nodes \in [Node -> NodeState] /\ \A i \in Node : nodes[i].disk.commit \in Nat
  BY NodeTypes, StoreTypes DEF NodeInv, TypeInv, TypeOK
<1>2. Grows(nodes[j], nodes[j])
  BY <1>1 DEF Grows
<1>3. ASSUME NEW i \in Node, NEW p, Becomes(i, p), Grows(nodes[i], p)
      PROVE  Grows(nodes[j], nodes'[j])
  BY <1>1, <1>2, <1>3 DEF Becomes
<1>4. CASE RestKind
  <2>1. PICK i \in Node : \E p, l : Becomes(i, p) /\ Rest(nodes[i], p, l)
    BY <1>4 DEF RestKind
  <2> PICK p, l : Becomes(i, p) /\ Rest(nodes[i], p, l)
    BY <2>1
  <2>2. Grows(nodes[i], p)
    BY <1>1, <2>1 DEF Rest, SamePast, Grows
  <2> QED BY <1>3, <2>1, <2>2
<1>5. CASE VoteKind
  <2>1. PICK m \in wire : \E p : Becomes(m.to, p) /\ Voted(nodes[m.to], p, m)
    BY <1>5 DEF VoteKind
  <2> PICK p : Becomes(m.to, p) /\ Voted(nodes[m.to], p, m)
    BY <2>1
  <2>2. m.to \in Node
    BY MessageTypes
  <2>3. Grows(nodes[m.to], p)
    BY <1>1, <2>1, <2>2 DEF Voted, Grows
  <2> QED BY <1>3, <2>1, <2>2, <2>3
<1>6. CASE CampaignKind
  <2>1. PICK i \in Node : \E p : Becomes(i, p) /\ Campaign(nodes[i], p, i)
    BY <1>6 DEF CampaignKind
  <2> PICK p : Becomes(i, p) /\ Campaign(nodes[i], p, i)
    BY <2>1
  <2>2. Grows(nodes[i], p)
    BY <1>1, <2>1 DEF Campaign, Grows
  <2> QED BY <1>3, <2>1, <2>2
<1>7. CASE CampaignLedKind
  <2>1. PICK i \in Node : \E c, p : Becomes(i, p) /\ Campaign(nodes[i], c, i) /\ Led(c, p, i)
    BY <1>7 DEF CampaignLedKind
  <2> PICK c, p : Becomes(i, p) /\ Campaign(nodes[i], c, i) /\ Led(c, p, i)
    BY <2>1
  <2>2. c.disk.commit = nodes[i].disk.commit /\ c.reigns = nodes[i].reigns
    BY <2>1 DEF Campaign
  <2>3. Grows(nodes[i], p)
    BY <1>1, <2>1, <2>2, LedGrows DEF Grows
  <2> QED BY <1>3, <2>1, <2>3
<1>8. CASE LedKind
  <2>1. PICK i \in Node : \E p : Becomes(i, p) /\ Led(nodes[i], p, i)
    BY <1>8 DEF LedKind
  <2> PICK p : Becomes(i, p) /\ Led(nodes[i], p, i)
    BY <2>1
  <2> QED BY <1>1, <1>3, <2>1, LedGrows
<1>9. CASE OpenKind
  <2>1. PICK i \in Node : \E c, p : Becomes(i, p) /\ Revived(nodes[i], c) /\ (p = c \/ Led(c, p, i))
    BY <1>9 DEF OpenKind
  <2> PICK c, p : Becomes(i, p) /\ Revived(nodes[i], c) /\ (p = c \/ Led(c, p, i))
    BY <2>1
  <2>2. c.disk.commit = nodes[i].disk.commit /\ c.reigns = nodes[i].reigns
    BY <2>1 DEF Revived, SamePast
  <2>3. Grows(c, p)
    BY <1>1, <2>1, <2>2, LedGrows DEF Grows
  <2>4. Grows(nodes[i], p)
    BY <2>2, <2>3 DEF Grows
  <2> QED BY <1>3, <2>1, <2>4
<1>10. CASE MatchKind
  <2>1. PICK r \in replies : \E c, x, p :
          /\ Becomes(r.req.from, p) /\ Matched(nodes[r.req.from], c, r)
          /\ Progress(c, x, r.req.from) /\ Rest(x, p, Nil)
    BY <1>10 DEF MatchKind
  <2>2. PICK c, x, p : /\ Becomes(r.req.from, p) /\ Matched(nodes[r.req.from], c, r)
                       /\ Progress(c, x, r.req.from) /\ Rest(x, p, Nil)
    BY <2>1
  <2>3. r.req.from \in Node
    BY MessageTypes
  <2>4. c.disk.commit = nodes[r.req.from].disk.commit /\ c.reigns = nodes[r.req.from].reigns
    BY <2>2 DEF Matched, SamePast
  <2>5. Grows(c, x)
    BY <1>1, <2>2, <2>3, <2>4, ProgressGrows
  <2>6. p.disk.commit = x.disk.commit /\ p.reigns = x.reigns
    BY <2>2 DEF Rest, SamePast
  <2>7. Grows(nodes[r.req.from], p)
    BY <2>4, <2>5, <2>6 DEF Grows
  <2> QED BY <1>3, <2>2, <2>3, <2>7
<1>11. CASE SubmitKind
  <2>1. PICK i \in Node, cmd \in Operation : \E c, p :
          /\ Becomes(i, p) /\ Proposed(nodes[i], c, i, cmd) /\ Progress(c, p, i)
    BY <1>11 DEF SubmitKind
  <2>2. PICK c, p : /\ Becomes(i, p) /\ Proposed(nodes[i], c, i, cmd) /\ Progress(c, p, i)
    BY <2>1
  <2>3. c.disk.commit = nodes[i].disk.commit /\ c.reigns = nodes[i].reigns
    BY <2>2 DEF Proposed, Appended
  <2>4. Grows(c, p)
    BY <1>1, <2>2, <2>3, ProgressGrows
  <2>5. Grows(nodes[i], p)
    BY <2>3, <2>4 DEF Grows
  <2> QED BY <1>3, <2>2, <2>5
<1>12. CASE InstallKind
  <2>1. PICK m \in wire : \E c, p : /\ Becomes(m.to, p) /\ Rest(nodes[m.to], c, m.from)
                                    /\ Settled(c) /\ Install(c, p, m)
    BY <1>12 DEF InstallKind
  <2>2. PICK c, p : /\ Becomes(m.to, p) /\ Rest(nodes[m.to], c, m.from)
                    /\ Settled(c) /\ Install(c, p, m)
    BY <2>1
  <2>3. m.to \in Node
    BY MessageTypes
  <2>4. c.disk.commit = nodes[m.to].disk.commit /\ c.reigns = nodes[m.to].reigns
    BY <2>2 DEF Rest, SamePast
  <2>5. p.disk.commit = CommitAfter(c.disk, m) /\ p.reigns = c.reigns
    BY <2>2 DEF Install
  <2>6. nodes[m.to].disk.commit <= p.disk.commit
    <3>1. p.disk.commit \in Nat
      BY <2>2, NodeTypes, StoreTypes DEF Becomes, Fit, Settled, Ready
    <3> QED BY <1>1, <2>3, <2>4, <2>5, <3>1 DEF CommitAfter, Larger
  <2>7. Grows(nodes[m.to], p)
    BY <2>4, <2>5, <2>6 DEF Grows
  <2> QED BY <1>3, <2>2, <2>3, <2>7
<1>13. CASE SendKind
  BY <1>2, <1>13 DEF SendKind
<1> QED BY <1>4, <1>5, <1>6, <1>7, <1>8, <1>9, <1>10, <1>11, <1>12, <1>13 DEF NextKind


-----------------------------------------------------------------------------
(* The invariant. *)

(* A client was answered for an entry its node has committed, of a term the  *)
(* node led.                                                                 *)
AnswersOwn(N) ==
  \A i \in Node : \A a \in N[i].answered :
    /\ 1 <= a.index /\ a.index <= CommitOf(N, i)
    /\ a.entry = LogOf(N, i)[a.index] /\ a.entry.term \in N[i].reigns

(* A client that called after k was answered waits above k, or in vain:      *)
(* somebody has committed another leader's entry at its index.               *)
Late(N, i, index, before) ==
  \A k \in before :
    \/ k < index
    \/ \E j \in Node : /\ index <= CommitOf(N, j)
                       /\ LogOf(N, j)[index].term # TermOf(N, i)

WaitersLate(N) ==
  \A i \in Node : \A w \in N[i].pending : Late(N, i, w.index, w.before)

LedgerInv == CommitsInv /\ AnswersOwn(nodes) /\ WaitersLate(nodes)

(* What one node has committed, nobody commits differently in the next state. *)
LEMMA CommittedOn ==
  ASSUME CommitsInv, CommitsInv', Steady(nodes, nodes', Appends, Appends'),
         NEW i \in Node, NEW j \in Node,
         NEW x \in 1 .. CommitOf(nodes, i), x <= CommitOf(nodes', j)
  PROVE  LogOf(nodes, i)[x] = LogOf(nodes', j)[x]
<1> DEFINE N == nodes
           M == nodes'
           A == Appends
           B == Appends'
<1>1. /\ Good(N, A) /\ Sealed(N, A, LogOf(N, i), CommitOf(N, i), TermOf(N, i))
  BY CommitsInvFacts DEF CommitsSealed
<1>2. /\ Good(M, B) /\ Stays(M) /\ Inherited(M, B)
      /\ Sealed(M, B, LogOf(M, j), CommitOf(M, j), TermOf(M, j))
  <2>1. (CommitsInv => /\ Good(nodes, Appends) /\ Stays(nodes) /\ Inherited(nodes, Appends)
                       /\ CommitsSealed(nodes, Appends))'
    BY CommitsInvFacts, PTL
  <2> QED BY <2>1 DEF CommitsSealed
<1>3. CommitOf(N, i) \in Nat
  BY <1>1, CommitFacts
<1>4. CommitOf(M, j) \in Nat
  BY <1>2, CommitFacts
<1>5. Sealed(M, B, LogOf(N, i), CommitOf(N, i), TermOf(N, i))
  BY <1>1, <1>3, SealOn
<1>6. x \in 1 .. CommitOf(M, j)
  BY <1>3, <1>4
<1> HIDE DEF M, N, A, B
<1>7. LogOf(N, i)[x] = LogOf(M, j)[x]
  BY <1>2, <1>3, <1>4, <1>5, <1>6, SealsMeet DEF N
<1> QED BY <1>7 DEF N, M

(* The client a leader takes calls after everyone that was answered. *)
LEMMA FreshLate ==
  ASSUME LedgerInv, NEW i \in Node, nodes[i].role = "leader",
         NEW p, NEW w, Fresh(nodes[i], p, w)
  PROVE  Late(nodes, i, w.index, w.before)
<1>1. Good(nodes, Appends) /\ AnswersOwn(nodes)
  BY CommitsInvFacts DEF LedgerInv
<1>2. Len(LogOf(nodes, i)) \in Nat /\ w.index = Len(LogOf(nodes, i)) + 1
  BY <1>1, NodeFacts DEF Fresh, LogOf
<1> SUFFICES ASSUME NEW k \in w.before, ~(k < w.index)
             PROVE  \E j \in Node : /\ w.index <= CommitOf(nodes, j)
                                    /\ LogOf(nodes, j)[w.index].term # TermOf(nodes, i)
  BY DEF Late
<1>3. PICK j \in Node : \E a \in nodes[j].answered : a.index = k
  BY DEF Fresh, Answers
<1> PICK a \in nodes[j].answered : a.index = k
  BY <1>3
<1>4. /\ CommitOf(nodes, j) \in Nat /\ CommitOf(nodes, j) <= Len(LogOf(nodes, j))
      /\ Len(LogOf(nodes, j)) \in Nat /\ LogOf(nodes, j) \in Logs(nodes, Appends)
      /\ k <= CommitOf(nodes, j) /\ a \in Answer
  BY <1>1, <1>3, NodeFacts, CommitFacts, NodeTypes DEF AnswersOwn
<1>5. k \in Nat
  BY <1>3, <1>4 DEF Answer
<1>6. w.index <= CommitOf(nodes, j) /\ w.index \in 1 .. Len(LogOf(nodes, j))
  BY <1>2, <1>4, <1>5
<1>7. ASSUME LogOf(nodes, j)[w.index].term = TermOf(nodes, i) PROVE FALSE
  <2>1. Has(LogOf(nodes, i), w.index, TermOf(nodes, i))
    BY <1>1, <1>4, <1>6, <1>7 DEF Good, LogInv, OwnLog
  <2> QED BY <1>2, <2>1 DEF Has
<1> QED BY <1>6, <1>7

(* Somebody is told a on node i. *)
Told(N, M, i, a) ==
  /\ a.index \in Nat /\ CommitOf(N, i) < a.index /\ a.index <= CommitOf(M, i)
  /\ a.entry = LogOf(M, i)[a.index] /\ a.entry.cmd = a.cmd
  /\ a.entry.term = TermOf(N, i) /\ a.entry.term \in M[i].reigns
  /\ Late(N, i, a.index, a.before)

(* The clients that wait on node i after a step. *)
Waiting(N, M, i) ==
  \A w \in M[i].pending : TermOf(M, i) = TermOf(N, i) /\ Late(N, i, w.index, w.before)

(* A client waits on a leader of its entry's term, above the commit index. *)
LEMMA WaiterFacts ==
  ASSUME NodeInv, NEW i \in Node, NEW w \in nodes[i].pending
  PROVE  /\ nodes[i].role = "leader" /\ w.index \in Nat
         /\ nodes[i].disk.commit < w.index /\ w.index <= Len(FullLog(nodes[i].disk))
         /\ FullLog(nodes[i].disk)[w.index].term = nodes[i].disk.term
<1>1. Fit(nodes[i]) /\ nodes[i] \in NodeState
  BY DEF NodeInv, TypeInv, TypeOK
<1>2. Settled(nodes[i])
  BY <1>1 DEF Fit
<1>3. w.index \in Nat
  BY <1>1, NodeTypes DEF Waiter
<1>4. /\ nodes[i].role = "leader" /\ nodes[i].applied < w.index
      /\ w.index <= Len(FullLog(nodes[i].disk)) /\ nodes[i].applied = nodes[i].disk.commit
  BY <1>2 DEF Settled, Ready
<1>5. FullLog(nodes[i].disk)[w.index] = [term |-> nodes[i].disk.term, cmd |-> w.cmd]
  BY <1>2 DEF Settled, Ready
<1>6. FullLog(nodes[i].disk)[w.index].term = nodes[i].disk.term
  BY <1>5
<1> QED BY <1>3, <1>4, <1>6

(* A leader that stays one stays in its term. *)
LEMMA LeaderTerm ==
  ASSUME NodeInv, NextKind, NEW j \in Node,
         nodes[j].role = "leader", nodes'[j].role = "leader"
  PROVE  nodes'[j].disk.term = nodes[j].disk.term
<1>1. nodes \in [Node -> NodeState]
  BY DEF NodeInv, TypeInv, TypeOK
<1>2. ASSUME NEW i \in Node, NEW p, Becomes(i, p),
             nodes[i].role = "leader" /\ p.role = "leader" => p.disk.term = nodes[i].disk.term
      PROVE  nodes'[j].disk.term = nodes[j].disk.term
  BY <1>1, <1>2 DEF Becomes
<1>3. CASE RestKind
  <2>1. PICK i \in Node : \E p, l : Becomes(i, p) /\ Rest(nodes[i], p, l)
    BY <1>3 DEF RestKind
  <2> PICK p, l : Becomes(i, p) /\ Rest(nodes[i], p, l)
    BY <2>1
  <2>2. p.role = "leader" => p.disk.term = nodes[i].disk.term
    BY <2>1 DEF Rest
  <2> QED BY <1>2, <2>1, <2>2
<1>4. CASE VoteKind
  <2>1. PICK m \in wire : \E p : Becomes(m.to, p) /\ Voted(nodes[m.to], p, m)
    BY <1>4 DEF VoteKind
  <2> PICK p : Becomes(m.to, p) /\ Voted(nodes[m.to], p, m)
    BY <2>1
  <2>2. m.to \in Node
    BY MessageTypes
  <2>3. p.role = "leader" => p.disk.term = nodes[m.to].disk.term
    BY <2>1 DEF Voted
  <2> QED BY <1>2, <2>1, <2>2, <2>3
<1>5. CASE CampaignKind \/ CampaignLedKind \/ LedKind \/ OpenKind
  <2>1. \A i \in Node : nodes[i].mode = "down" => nodes[i].role # "leader"
    BY DEF NodeInv, Fit
  <2>2. PICK i \in Node : \E p : Becomes(i, p) /\ nodes[i].role # "leader"
    BY <1>5, <2>1 DEF CampaignKind, CampaignLedKind, LedKind, OpenKind
  <2> QED BY <1>2, <2>2
<1>6. CASE MatchKind
  <2>1. PICK r \in replies : \E c, x, p :
          /\ Becomes(r.req.from, p) /\ Matched(nodes[r.req.from], c, r)
          /\ Progress(c, x, r.req.from) /\ Rest(x, p, Nil)
    BY <1>6 DEF MatchKind
  <2>2. PICK c, x, p : /\ Becomes(r.req.from, p) /\ Matched(nodes[r.req.from], c, r)
                       /\ Progress(c, x, r.req.from) /\ Rest(x, p, Nil)
    BY <2>1
  <2>3. r.req.from \in Node
    BY MessageTypes
  <2>4. p.role = "leader" => p.disk.term = nodes[r.req.from].disk.term
    BY <2>2 DEF Matched, Progress, SameLog, Rest
  <2> QED BY <1>2, <2>2, <2>3, <2>4
<1>7. CASE SubmitKind
  <2>1. PICK i \in Node, cmd \in Operation : \E c, p :
          /\ Becomes(i, p) /\ Proposed(nodes[i], c, i, cmd) /\ Progress(c, p, i)
    BY <1>7 DEF SubmitKind
  <2>2. PICK c, p : /\ Becomes(i, p) /\ Proposed(nodes[i], c, i, cmd) /\ Progress(c, p, i)
    BY <2>1
  <2>3. p.disk.term = nodes[i].disk.term
    BY <2>2 DEF Proposed, Appended, Progress, SameLog
  <2> QED BY <1>2, <2>2, <2>3
<1>8. CASE InstallKind
  <2>1. PICK m \in wire : \E c, p : /\ Becomes(m.to, p) /\ c.role = "follower"
                                    /\ Install(c, p, m)
    BY <1>8 DEF InstallKind
  <2>2. PICK c, p : Becomes(m.to, p) /\ c.role = "follower" /\ Install(c, p, m)
    BY <2>1
  <2>3. m.to \in Node
    BY MessageTypes
  <2>4. p.role # "leader"
    BY <2>2 DEF Install, SameOffice
  <2> QED BY <1>2, <2>2, <2>3, <2>4
<1>9. CASE SendKind
  BY <1>9 DEF SendKind
<1> QED BY <1>3, <1>4, <1>5, <1>6, <1>7, <1>8, <1>9 DEF NextKind

(* Who is answered, and who waits, after a step. *)
ServedBy(N, M, i) ==
  /\ N[i].answered \subseteq M[i].answered
  /\ \A a \in M[i].answered : a \in N[i].answered \/ Told(N, M, i, a)
  /\ Waiting(N, M, i)

(* A leader serves clients that waited or are fresh. *)
LEMMA ClientServed ==
  ASSUME LedgerInv, CommitsInv', NEW i \in Node, NEW p, NEW q, nodes'[i] = p,
         nodes[i].role = "leader", p.disk.term = nodes[i].disk.term,
         Begins(FullLog(nodes[i].disk), FullLog(p.disk)),
         q.answered = nodes[i].answered, Serves(q, p),
         \A w \in q.pending : w \in nodes[i].pending \/ Fresh(nodes[i], p, w),
         AnswersFrom(nodes[i], p), Grows(nodes[i], p)
  PROVE  ServedBy(nodes, nodes', i)
<1> DEFINE n == nodes[i]
<1>1. NodeInv /\ Good(nodes, Appends) /\ WaitersLate(nodes)
  BY CommitsInvFacts DEF LedgerInv
<1>2. /\ n.disk.commit \in Nat /\ Len(FullLog(n.disk)) \in Nat
      /\ n.disk.commit <= Len(FullLog(n.disk)) /\ n.disk.term \in n.reigns
  <2>1. n.disk.commit \in Nat /\ n.disk.commit <= Len(FullLog(n.disk))
    BY <1>1, CommitFacts DEF CommitOf, LogOf
  <2>2. Len(FullLog(n.disk)) \in Nat
    BY <1>1, NodeFacts DEF LogOf
  <2>3. n.disk.term \in n.reigns
    BY <1>1 DEF Good, LogInv, Reigning, TermOf
  <2> QED BY <2>1, <2>2, <2>3
<1>3. ASSUME NEW w \in q.pending
      PROVE  /\ w.index \in Nat /\ n.disk.commit < w.index
             /\ FullLog(p.disk)[w.index].term = n.disk.term
             /\ Late(nodes, i, w.index, w.before)
  <2>1. CASE w \in n.pending
    <3>1. /\ w.index \in Nat /\ n.disk.commit < w.index
          /\ w.index <= Len(FullLog(n.disk))
          /\ FullLog(n.disk)[w.index].term = n.disk.term
      BY <1>1, <2>1, WaiterFacts
    <3>2. w.index \in 1 .. Len(FullLog(n.disk))
      BY <1>2, <3>1
    <3>3. FullLog(n.disk)[w.index] = FullLog(p.disk)[w.index]
      BY <3>2 DEF Begins, Alike
    <3>4. Late(nodes, i, w.index, w.before)
      BY <1>1, <2>1 DEF WaitersLate
    <3> QED BY <3>1, <3>3, <3>4
  <2>2. CASE Fresh(n, p, w)
    <3>1. Late(nodes, i, w.index, w.before)
      BY <2>2, FreshLate
    <3> QED BY <1>2, <2>2, <3>1 DEF Fresh
  <2> QED BY <1>3, <2>1, <2>2
<1>4. ASSUME NEW a \in p.answered, a \notin n.answered
      PROVE  Told(nodes, nodes', i, a)
  <2>1. PICK w \in q.pending : w.index = a.index /\ w.before = a.before
    BY <1>4 DEF Serves
  <2>2. a.index <= p.disk.commit /\ a.entry = FullLog(p.disk)[a.index]
    BY <1>4 DEF AnswersFrom
  <2>3. a.entry.cmd = a.cmd
    <3>1. (NodeInv)'
      <4>1. (CommitsInv => NodeInv)'
        BY CommitsInvFacts, PTL
      <4> QED BY <4>1
    <3>2. Fit(p)
      BY <3>1 DEF NodeInv
    <3> QED BY <1>4, <3>2 DEF Fit, Settled, Ready
  <2>4. a.entry.term = n.disk.term /\ n.disk.term \in p.reigns
    BY <1>2, <1>3, <2>1, <2>2 DEF Grows
  <2> QED BY <1>3, <2>1, <2>2, <2>3, <2>4 DEF Told, CommitOf, LogOf, TermOf
<1>5. Waiting(nodes, nodes', i)
  BY <1>3 DEF Waiting, Serves, TermOf
<1> QED BY <1>4, <1>5 DEF ServedBy, Serves

(* Every step serves clients so. *)
LEMMA StepServes ==
  ASSUME LedgerInv, CommitsInv', [Next]_vars, NextKind, NEW i \in Node,
         AnswersFrom(nodes[i], nodes'[i])
  PROVE  ServedBy(nodes, nodes', i)
<1>1. NodeInv /\ WaitersLate(nodes) /\ nodes \in [Node -> NodeState]
  BY CommitsInvFacts, ClientFacts DEF LedgerInv
<1>2. NodeInv'
  <2>1. (CommitsInv => NodeInv)'
    BY CommitsInvFacts, PTL
  <2> QED BY <2>1
<1>3. ASSUME Dismisses(nodes[i], nodes'[i]) PROVE ServedBy(nodes, nodes', i)
  <2>1. ASSUME NEW w \in nodes'[i].pending
        PROVE  TermOf(nodes', i) = TermOf(nodes, i) /\ Late(nodes, i, w.index, w.before)
    <3>1. w \in nodes[i].pending
      BY <1>3, <2>1 DEF Dismisses
    <3>2. nodes[i].role = "leader"
      BY <1>1, <3>1, WaiterFacts
    <3>3. nodes'[i].role = "leader"
      <4>1. Fit(nodes'[i])
        BY <1>2 DEF NodeInv
      <4> QED BY <2>1, <4>1 DEF Fit, Settled, Ready
    <3> QED BY <1>1, <3>1, <3>2, <3>3, LeaderTerm DEF WaitersLate, TermOf
  <2> QED BY <1>3, <2>1 DEF ServedBy, Dismisses, Waiting
<1>4. CASE DismissStep
  BY <1>3, <1>4 DEF DismissStep
<1>5. CASE ClientStep
  <2>1. PICK j \in Node : \E p, q :
          /\ nodes' = [nodes EXCEPT ![j] = p]
          /\ nodes[j].role = "leader" /\ p.disk.term = nodes[j].disk.term
          /\ Begins(FullLog(nodes[j].disk), FullLog(p.disk))
          /\ q.answered = nodes[j].answered /\ Serves(q, p)
          /\ \A w \in q.pending : w \in nodes[j].pending \/ Fresh(nodes[j], p, w)
    BY <1>5 DEF ClientStep
  <2>2. CASE i = j
    <3>1. Grows(nodes[i], nodes'[i])
      BY <1>1, NextGrows
    <3> QED BY <1>1, <2>1, <2>2, <3>1, ClientServed
  <2>3. CASE i # j
    <3>1. nodes'[i] = nodes[i]
      BY <1>1, <2>1, <2>3
    <3> QED BY <1>3, <3>1 DEF Dismisses
  <2> QED BY <2>2, <2>3
<1> QED BY <1>1, <1>4, <1>5, NextClients


-----------------------------------------------------------------------------
(* The invariant of every reachable state. *)

(* A state and the next one. *)
LEMMA LedgerStepFacts ==
  ASSUME LedgerInv, [Next]_vars
  PROVE  /\ CommitsInv /\ CommitsInv' /\ Steady(nodes, nodes', Appends, Appends')
         /\ \A i \in Node : /\ Grows(nodes[i], nodes'[i]) /\ ServedBy(nodes, nodes', i)
                            /\ CommitOf(nodes, i) \in Nat /\ CommitOf(nodes', i) \in Nat
<1>1. CommitsInv
  BY DEF LedgerInv
<1>2. /\ CommitsInv' /\ Steady(nodes, nodes', Appends, Appends')
      /\ \A i \in Node : AnswersFrom(nodes[i], nodes'[i])
  BY <1>1, CommitsInvStep
<1>3. NodeInv /\ NextKind
  BY <1>1, CommitsInvFacts, NextKinds
<1>4. Good(nodes, Appends)
  BY <1>1, CommitsInvFacts
<1>5. Good(nodes', Appends')
  <2>1. (CommitsInv => Good(nodes, Appends))'
    BY CommitsInvFacts, PTL
  <2> QED BY <1>2, <2>1
<1>6. ASSUME NEW i \in Node
      PROVE  CommitOf(nodes, i) \in Nat /\ CommitOf(nodes', i) \in Nat
  BY <1>4, <1>5, CommitFacts
<1> QED BY <1>1, <1>2, <1>3, <1>6, NextGrows, StepServes

(* Every step keeps who was answered for what. *)
LEMMA AnswersOwnStep ==
  ASSUME LedgerInv, [Next]_vars
  PROVE  AnswersOwn(nodes')
<1>1. /\ CommitsInv /\ CommitsInv' /\ Steady(nodes, nodes', Appends, Appends')
      /\ \A i \in Node : /\ Grows(nodes[i], nodes'[i]) /\ ServedBy(nodes, nodes', i)
                         /\ CommitOf(nodes, i) \in Nat /\ CommitOf(nodes', i) \in Nat
  BY LedgerStepFacts
<1> SUFFICES ASSUME NEW i \in Node, NEW a \in nodes'[i].answered
             PROVE  /\ 1 <= a.index /\ a.index <= CommitOf(nodes', i)
                    /\ a.entry = LogOf(nodes', i)[a.index]
                    /\ a.entry.term \in nodes'[i].reigns
  BY DEF AnswersOwn
<1>2. CASE a \in nodes[i].answered
  <2>1. /\ 1 <= a.index /\ a.index <= CommitOf(nodes, i)
        /\ a.entry = LogOf(nodes, i)[a.index] /\ a.entry.term \in nodes[i].reigns
    BY <1>2 DEF LedgerInv, AnswersOwn
  <2>2. CommitOf(nodes, i) <= CommitOf(nodes', i) /\ nodes[i].reigns \subseteq nodes'[i].reigns
    BY <1>1 DEF Grows, CommitOf
  <2>3. a.index \in Nat
    <3>1. Good(nodes, Appends)
      BY <1>1, CommitsInvFacts
    <3>2. a \in Answer
      BY <1>2, <3>1, NodeFacts, NodeTypes
    <3> QED BY <3>2 DEF Answer
  <2>4. a.index \in 1 .. CommitOf(nodes, i) /\ a.index <= CommitOf(nodes', i)
    BY <1>1, <2>1, <2>2, <2>3
  <2>5. LogOf(nodes, i)[a.index] = LogOf(nodes', i)[a.index]
    BY <1>1, <2>4, CommittedOn
  <2> QED BY <2>1, <2>2, <2>4, <2>5
<1>3. CASE Told(nodes, nodes', i, a)
  <2>1. a.index \in Nat /\ CommitOf(nodes, i) < a.index
    BY <1>3 DEF Told
  <2>2. 1 <= a.index
    BY <1>1, <2>1
  <2> QED BY <1>3, <2>2 DEF Told
<1> QED BY <1>1, <1>2, <1>3 DEF ServedBy

(* Clients wait above the commit index. *)
LEMMA WaitersAbove ==
  NodeInv => \A x \in Node : \A v \in nodes[x].pending :
               v.index \in Nat /\ nodes[x].disk.commit < v.index
BY WaiterFacts

(* Every step keeps the waiting clients late. *)
LEMMA WaitersLateStep ==
  ASSUME LedgerInv, [Next]_vars
  PROVE  WaitersLate(nodes')
<1>1. /\ CommitsInv /\ CommitsInv' /\ Steady(nodes, nodes', Appends, Appends')
      /\ \A i \in Node : /\ Grows(nodes[i], nodes'[i]) /\ ServedBy(nodes, nodes', i)
                         /\ CommitOf(nodes, i) \in Nat /\ CommitOf(nodes', i) \in Nat
  BY LedgerStepFacts
<1> SUFFICES ASSUME NEW i \in Node, NEW w \in nodes'[i].pending, NEW k \in w.before,
                    ~(k < w.index)
             PROVE  \E j \in Node : /\ w.index <= CommitOf(nodes', j)
                                    /\ LogOf(nodes', j)[w.index].term # TermOf(nodes', i)
  BY DEF WaitersLate, Late
<1>2. TermOf(nodes', i) = TermOf(nodes, i) /\ Late(nodes, i, w.index, w.before)
  BY <1>1 DEF ServedBy, Waiting
<1>3. PICK j \in Node : /\ w.index <= CommitOf(nodes, j)
                        /\ LogOf(nodes, j)[w.index].term # TermOf(nodes, i)
  BY <1>2 DEF Late
<1>4. w.index \in Nat /\ 0 < w.index
  <2>1. (CommitsInv => NodeInv)'
    BY CommitsInvFacts, PTL
  <2>2. NodeInv'
    BY <1>1, <2>1
  <2>3. (NodeInv => \A x \in Node : \A v \in nodes[x].pending :
                      v.index \in Nat /\ nodes[x].disk.commit < v.index)'
    BY WaitersAbove, PTL
  <2>4. w.index \in Nat /\ CommitOf(nodes', i) < w.index
    BY <2>2, <2>3 DEF CommitOf
  <2> QED BY <1>1, <2>4
<1>5. CommitOf(nodes, j) <= CommitOf(nodes', j)
  BY <1>1 DEF Grows, CommitOf
<1>6. w.index \in 1 .. CommitOf(nodes, j) /\ w.index <= CommitOf(nodes', j)
  BY <1>1, <1>3, <1>4, <1>5
<1>7. LogOf(nodes, j)[w.index] = LogOf(nodes', j)[w.index]
  BY <1>1, <1>6, CommittedOn
<1> QED BY <1>2, <1>3, <1>6, <1>7

(* Nobody waits and nobody was answered. *)
LEMMA LedgerInvInit ==
  ASSUME Init
  PROVE  LedgerInv
<1>1. \A i \in Node : nodes[i].answered = {} /\ nodes[i].pending = {}
  BY DEF Init, NewNode
<1> QED BY <1>1, CommitsInvInit DEF LedgerInv, AnswersOwn, WaitersLate

(* Every step keeps the invariant. *)
LEMMA LedgerInvStep ==
  ASSUME LedgerInv, [Next]_vars
  PROVE  LedgerInv'
BY LedgerStepFacts, AnswersOwnStep, WaitersLateStep DEF LedgerInv

(* Every reachable state. *)
LEMMA LedgerInvAlways == Spec => []LedgerInv
<1>1. Init => LedgerInv
  BY LedgerInvInit
<1>2. LedgerInv /\ [Next]_vars => LedgerInv'
  BY LedgerInvStep
<1> QED BY <1>1, <1>2, PTL DEF Spec


-----------------------------------------------------------------------------
(* The refinement. *)

(* Among finitely many numbers one is largest. *)
LEMMA Largest ==
  ASSUME NEW S, IsFiniteSet(S), S # {}, NEW f \in [S -> Nat]
  PROVE  \E i \in S : \A j \in S : f[j] <= f[i]
<1> DEFINE Lacks(T) == /\ T \in SUBSET S /\ T # {} /\ IsFiniteSet(T)
                       /\ ~ \E i \in T : \A j \in T : f[j] <= f[i]
           C == {n \in Nat : \E T \in SUBSET S : Lacks(T) /\ Cardinality(T) = n}
<1> SUFFICES ASSUME Lacks(S) PROVE FALSE
  OBVIOUS
<1>1. Cardinality(S) \in C
  BY FS_CardinalityType
<1>2. PICK n \in C : \A m \in C : n <= m
  BY <1>1, LeastNatural
<1>3. PICK T \in SUBSET S : Lacks(T) /\ Cardinality(T) = n
  BY <1>2
<1>4. PICK x \in T : TRUE
  BY <1>3
<1> DEFINE U == T \ {x}
<1>5. IsFiniteSet(U) /\ Cardinality(U) = n - 1 /\ n \in Nat /\ Cardinality(U) \in Nat
  BY <1>2, <1>3, <1>4, FS_RemoveElement, FS_CardinalityType
<1>6. CASE U = {}
  <2>1. \A j \in T : j = x
    BY <1>6
  <2> QED BY <1>3, <1>4, <2>1
<1>7. CASE U # {}
  <2>1. ~Lacks(U)
    <3>1. n - 1 \notin C
      BY <1>2, <1>5
    <3> QED BY <1>3, <1>5, <3>1
  <2>2. PICK i \in U : \A j \in U : f[j] <= f[i]
    BY <1>3, <1>5, <1>7, <2>1
  <2>3. i \in S /\ x \in S /\ \A j \in T : j \in S /\ (j = x \/ j \in U)
    BY <1>3, <1>4, <2>2
  <2>4. f[i] \in Nat /\ f[x] \in Nat /\ \A j \in T : f[j] \in Nat
    BY <2>3
  <2>5. CASE f[x] <= f[i]
    BY <1>3, <2>2, <2>3, <2>4, <2>5
  <2>6. CASE f[i] <= f[x]
    <3>1. \A j \in T : f[j] <= f[x]
      BY <2>2, <2>3, <2>4, <2>6
    <3> QED BY <1>3, <1>4, <3>1
  <2> QED BY <2>4, <2>5, <2>6
<1> QED BY <1>6, <1>7

(* The history is what some node has committed, and nobody more. *)
LEMMA HistoryFacts ==
  ASSUME CommitsInv
  PROVE  \E i \in Node :
           /\ History = Committed(Disk(i)) /\ Len(History) = CommitOf(nodes, i)
           /\ History \in Seq(Entry)
           /\ Alike(History, LogOf(nodes, i), CommitOf(nodes, i))
           /\ \A j \in Node : CommitOf(nodes, j) <= CommitOf(nodes, i)
<1> DEFINE logs == {Committed(Disk(i)) : i \in Node}
           f == [i \in Node |-> CommitOf(nodes, i)]
<1>1. \A i \in Node : /\ Committed(Disk(i)) \in Seq(Entry)
                      /\ Len(Committed(Disk(i))) = CommitOf(nodes, i)
                      /\ Alike(Committed(Disk(i)), LogOf(nodes, i), CommitOf(nodes, i))
  BY CommittedFacts
<1>2. f \in [Node -> Nat]
  <2>1. Good(nodes, Appends)
    BY CommitsInvFacts
  <2> QED BY <2>1, CommitFacts
<1>3. PICK k \in Node : \A j \in Node : f[j] <= f[k]
  BY <1>2, NodeAssumption, Largest
<1>4. \E h \in logs : \A l \in logs : Len(l) <= Len(h)
  BY <1>1, <1>3
<1>5. History \in logs /\ \A l \in logs : Len(l) <= Len(History)
  BY <1>4 DEF History
<1>6. PICK i \in Node : History = Committed(Disk(i))
  BY <1>5
<1>7. \A j \in Node : CommitOf(nodes, j) <= CommitOf(nodes, i)
  BY <1>1, <1>5, <1>6
<1> QED BY <1>1, <1>6, <1>7


(* Two nodes agree on what both have committed. *)
OneHistory(N) ==
  \A i, j \in Node : \A x \in 1 .. CommitOf(N, i) :
    x <= CommitOf(N, j) => LogOf(N, i)[x] = LogOf(N, j)[x]

(* In every state. *)
LEMMA SameCommitted == CommitsInv => OneHistory(nodes)
<1> SUFFICES ASSUME CommitsInv, NEW i \in Node, NEW j \in Node,
                    NEW x \in 1 .. CommitOf(nodes, i), x <= CommitOf(nodes, j)
             PROVE  LogOf(nodes, i)[x] = LogOf(nodes, j)[x]
  BY DEF OneHistory
<1>1. /\ Good(nodes, Appends) /\ Stays(nodes) /\ Inherited(nodes, Appends)
      /\ Sealed(nodes, Appends, LogOf(nodes, i), CommitOf(nodes, i), TermOf(nodes, i))
      /\ Sealed(nodes, Appends, LogOf(nodes, j), CommitOf(nodes, j), TermOf(nodes, j))
  BY CommitsInvFacts DEF CommitsSealed
<1>2. CommitOf(nodes, i) \in Nat /\ CommitOf(nodes, j) \in Nat
  BY <1>1, CommitFacts
<1>3. x \in 1 .. CommitOf(nodes, j)
  BY <1>2
<1> QED BY <1>1, <1>2, <1>3, SealsMeet

(* One leader per term. *)
LEMMA ReignsOne == CommitsInv => OneReign(nodes)
BY CommitsInvFacts DEF Good, Elected

(* One step of the cluster is one of the ledger. *)
LEMMA LedgerStep ==
  ASSUME LedgerInv, [Next]_vars
  PROVE  Abstract!Next
<1>1. /\ CommitsInv /\ CommitsInv' /\ Steady(nodes, nodes', Appends, Appends')
      /\ \A i \in Node : /\ Grows(nodes[i], nodes'[i]) /\ ServedBy(nodes, nodes', i)
                         /\ CommitOf(nodes, i) \in Nat /\ CommitOf(nodes', i) \in Nat
  BY LedgerStepFacts
<1>2. PICK h \in Node :
        /\ Len(History) = CommitOf(nodes, h) /\ History \in Seq(Entry)
        /\ Alike(History, LogOf(nodes, h), CommitOf(nodes, h))
        /\ \A j \in Node : CommitOf(nodes, j) <= CommitOf(nodes, h)
  BY <1>1, HistoryFacts
<1>3. PICK g \in Node :
        /\ Len(History') = CommitOf(nodes', g) /\ History' \in Seq(Entry)
        /\ Alike(History', LogOf(nodes', g), CommitOf(nodes', g))
        /\ \A j \in Node : CommitOf(nodes', j) <= CommitOf(nodes', g)
  <2>1. (CommitsInv => \E i \in Node :
           /\ History = Committed(Disk(i)) /\ Len(History) = CommitOf(nodes, i)
           /\ History \in Seq(Entry)
           /\ Alike(History, LogOf(nodes, i), CommitOf(nodes, i))
           /\ \A j \in Node : CommitOf(nodes, j) <= CommitOf(nodes, i))'
    BY HistoryFacts, PTL
  <2> QED BY <1>1, <2>1
<1>4. CommitOf(nodes, h) <= CommitOf(nodes', g)
  <2>1. CommitOf(nodes, h) <= CommitOf(nodes', h) /\ CommitOf(nodes', h) <= CommitOf(nodes', g)
    BY <1>1, <1>3 DEF Grows, CommitOf
  <2> QED BY <1>1, <2>1
<1>5. Alike(History, History', CommitOf(nodes, h))
  <2> SUFFICES ASSUME NEW x \in 1 .. CommitOf(nodes, h) PROVE History[x] = History'[x]
    BY DEF Alike
  <2>1. x <= CommitOf(nodes', g) /\ x \in 1 .. CommitOf(nodes', g)
    BY <1>1, <1>4
  <2>2. LogOf(nodes, h)[x] = LogOf(nodes', g)[x]
    BY <1>1, <2>1, CommittedOn
  <2> QED BY <1>2, <1>3, <2>1, <2>2 DEF Alike
<1>6. IsPrefix(History, History')
  BY <1>2, <1>3, <1>4, <1>5, AlikePrefix
<1>7. Answers \subseteq Answers'
  BY <1>1 DEF Answers, ServedBy
<1>8. ASSUME NEW a \in Answers', a \notin Answers
      PROVE  /\ 0 < a.index /\ a.index <= Len(History')
             /\ History'[a.index] = a.entry /\ a.entry.cmd = a.cmd
             /\ \A k \in a.before : k < a.index
             /\ \A b \in Answers : b.index # a.index
  <2>1. PICK i \in Node : a \in nodes'[i].answered /\ a \notin nodes[i].answered
    BY <1>8 DEF Answers
  <2>2. Told(nodes, nodes', i, a)
    BY <1>1, <2>1 DEF ServedBy
  <2>3. /\ a.index \in 1 .. CommitOf(nodes', i) /\ a.index \in 1 .. CommitOf(nodes', g)
        /\ CommitOf(nodes, i) < a.index
        /\ a.entry = LogOf(nodes', i)[a.index] /\ a.entry.cmd = a.cmd
        /\ a.entry.term = TermOf(nodes, i) /\ a.entry.term \in nodes'[i].reigns
    <3>1. a.index \in Nat /\ CommitOf(nodes, i) < a.index /\ a.index <= CommitOf(nodes', i)
      BY <2>2 DEF Told
    <3>2. CommitOf(nodes', i) <= CommitOf(nodes', g)
      BY <1>3
    <3>3. a.index \in 1 .. CommitOf(nodes', i) /\ a.index \in 1 .. CommitOf(nodes', g)
      BY <1>1, <3>1, <3>2
    <3> QED BY <2>2, <3>3 DEF Told
  <2>4. History'[a.index] = a.entry
    <3>1. LogOf(nodes', i)[a.index] = LogOf(nodes', g)[a.index]
      <4>1. (CommitsInv => OneHistory(nodes))'
        BY SameCommitted, PTL
      <4> QED BY <1>1, <2>3, <4>1 DEF OneHistory
    <3> QED BY <1>3, <2>3, <3>1 DEF Alike
  <2>5. ASSUME NEW j \in Node, a.index <= CommitOf(nodes, j)
        PROVE  LogOf(nodes, j)[a.index] = a.entry
    <3>1. a.index \in 1 .. CommitOf(nodes, j) /\ a.index <= CommitOf(nodes', i)
      BY <1>1, <2>3, <2>5
    <3> QED BY <1>1, <2>3, <3>1, CommittedOn
  <2>6. \A k \in a.before : k < a.index
    BY <2>2, <2>3, <2>5 DEF Told, Late
  <2>7. ASSUME NEW b \in Answers, b.index = a.index PROVE FALSE
    <3>1. PICK j \in Node : b \in nodes[j].answered
      BY DEF Answers
    <3>2. /\ b.index <= CommitOf(nodes, j) /\ b.entry = LogOf(nodes, j)[b.index]
          /\ b.entry.term \in nodes[j].reigns
      BY <3>1 DEF LedgerInv, AnswersOwn
    <3>3. b.entry = a.entry
      BY <2>5, <2>7, <3>2
    <3>4. a.entry.term \in nodes'[j].reigns
      BY <1>1, <3>2, <3>3 DEF Grows
    <3>5. i = j
      <4>1. (CommitsInv => OneReign(nodes))'
        BY ReignsOne, PTL
      <4> QED BY <1>1, <2>3, <3>4, <4>1 DEF OneReign
    <3> QED BY <1>1, <2>3, <2>7, <3>2, <3>5
  <2> QED BY <1>3, <2>3, <2>4, <2>6, <2>7
<1> QED BY <1>6, <1>7, <1>8 DEF Abstract!Next, Abstract!IsPrefix, IsPrefix

(* Elections, repair, crashes and restarts never rewrite what any member ever *)
(* committed, and applyLocked answers a client once, for its own committed    *)
(* entry, after everything that was answered before the client called: for    *)
(* every cluster, the detailed specification implements the ledger.           *)
THEOREM ClusterIsLedger == Spec => LedgerSpec
<1>1. Init => Abstract!Init
  <2> SUFFICES ASSUME Init PROVE History = <<>> /\ Answers = {}
    BY DEF Abstract!Init
  <2>1. LedgerInv /\ CommitsInv
    BY LedgerInvInit DEF LedgerInv
  <2>2. \A i \in Node : nodes[i].answered = {} /\ CommitOf(nodes, i) = 0
    BY DEF Init, NewNode, EmptyStore, CommitOf
  <2>3. History \in Seq(Entry) /\ Len(History) = 0
    BY <2>1, <2>2, HistoryFacts
  <2>4. History = <<>>
    BY <2>3
  <2> QED BY <2>2, <2>4 DEF Answers
<1>2. LedgerInv /\ [Next]_vars => [Abstract!Next]_<<History, Answers>>
  BY LedgerStep
<1> QED BY <1>1, <1>2, LedgerInvAlways, PTL DEF Spec, LedgerSpec, Abstract!Spec
=============================================================================
