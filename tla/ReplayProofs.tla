---------------------------- MODULE ReplayProofs -----------------------------
(***************************************************************************)
(* What a replay computes: the records of a sequence applied one after the *)
(* other to a base.  The store and the machine are both replayed; this     *)
(* module is instantiated with what each does with a record.               *)
(***************************************************************************)
EXTENDS Integers, Sequences, TLAPS, WellFoundedInduction

CONSTANT Op(_, _)  \* the state after a record

Replayed(base, s) ==
  LET after[k \in 0 .. Len(s)] == IF k = 0 THEN base ELSE Op(after[k - 1], s[k])
  IN  after[Len(s)]

(* The states of a replay of the first n records. *)
Trace(base, s, n, f) == f = [k \in 0 .. n |-> IF k = 0 THEN base ELSE Op(f[k - 1], s[k])]

(* A set of naturals has a least member; this is the induction below. *)
LEMMA Least ==
  ASSUME NEW T, T \subseteq Nat, T # {}
  PROVE  \E x \in T : \A y \in T : x <= y
<1>1. PICK x \in T : \A y \in T : ~ (<<y, x>> \in OpToRel(<, Nat))
  BY NatLessThanWellFounded, WFMin
<1>2. ASSUME NEW y \in T PROVE x <= y
  <2>1. x \in Nat /\ y \in Nat
    OBVIOUS
  <2>2. ~ (<<y, x>> \in OpToRel(<, Nat))
    BY <1>1
  <2> QED BY <2>1, <2>2 DEF OpToRel
<1> QED BY <1>2

LEMMA TraceExists ==
  ASSUME NEW base, NEW s, NEW n \in Nat
  PROVE  \E f : Trace(base, s, n, f)
<1> DEFINE T == {m \in Nat : ~ \E f : Trace(base, s, m, f)}
<1> SUFFICES ASSUME T # {} PROVE FALSE
  OBVIOUS
<1>1. PICK x \in T : \A y \in T : x <= y
  <2>1. T \subseteq Nat
    OBVIOUS
  <2> HIDE DEF T
  <2> QED BY <2>1, Least
<1>2. CASE x = 0
  <2> DEFINE g == [k \in 0 .. 0 |-> base]
  <2>1. Trace(base, s, 0, g)
    BY DEF Trace
  <2> QED BY <1>2, <2>1
<1>3. CASE x # 0
  <2>1. x - 1 \in Nat /\ x - 1 < x /\ x \in Nat
    BY <1>3
  <2>2. PICK f : Trace(base, s, x - 1, f)
    BY <1>1, <2>1
  <2> DEFINE g == [k \in 0 .. x |-> IF k = x THEN Op(f[x - 1], s[x]) ELSE f[k]]
  <2>3. ASSUME NEW k \in 0 .. x
        PROVE  g[k] = IF k = 0 THEN base ELSE Op(g[k - 1], s[k])
    <3>1. CASE k = x
      <4>1. g[k - 1] = f[x - 1] /\ k # 0
        BY <2>1, <3>1
      <4> QED BY <3>1, <4>1
    <3>2. CASE k # x
      <4>1. k \in 0 .. x - 1
        BY <2>1, <3>2
      <4>2. f[k] = IF k = 0 THEN base ELSE Op(f[k - 1], s[k])
        BY <2>2, <4>1 DEF Trace
      <4>3. k # 0 => g[k - 1] = f[k - 1]
        BY <2>1, <4>1
      <4> QED BY <3>2, <4>2, <4>3
    <3> QED BY <3>1, <3>2
  <2>4. Trace(base, s, x, g)
    <3>1. g = [k \in 0 .. x |-> g[k]]
      OBVIOUS
    <3> HIDE DEF g
    <3> QED BY <2>3, <3>1 DEF Trace
  <2> QED BY <2>4
<1> QED BY <1>2, <1>3

LEMMA ReplayedTrace ==
  ASSUME NEW base, NEW s, Len(s) \in Nat
  PROVE  \E f : Trace(base, s, Len(s), f) /\ Replayed(base, s) = f[Len(s)]
<1> DEFINE after == CHOOSE f : Trace(base, s, Len(s), f)
<1>1. Trace(base, s, Len(s), after)
  BY TraceExists
<1>2. Replayed(base, s) = after[Len(s)]
  BY DEF Replayed, Trace
<1> QED BY <1>1, <1>2

(* The states of a replay are those of every longer one. *)
LEMMA TraceUnique ==
  ASSUME NEW base, NEW s, NEW t, NEW n \in Nat, NEW m \in Nat, n <= m, NEW f, NEW g,
         \A k \in 1 .. n : s[k] = t[k], Trace(base, s, n, f), Trace(base, t, m, g)
  PROVE  \A k \in 0 .. n : f[k] = g[k]
<1> DEFINE T == {k \in 0 .. n : f[k] # g[k]}
<1> SUFFICES ASSUME T # {} PROVE FALSE
  OBVIOUS
<1>1. PICK x \in T : \A y \in T : x <= y
  <2>1. T \subseteq Nat
    OBVIOUS
  <2> HIDE DEF T
  <2> QED BY <2>1, Least
<1>2. x \in 0 .. n /\ x \in Nat /\ f[x] # g[x] /\ x \in 0 .. m
  OBVIOUS
<1>3. f[x] = IF x = 0 THEN base ELSE Op(f[x - 1], s[x])
  BY <1>2 DEF Trace
<1>4. g[x] = IF x = 0 THEN base ELSE Op(g[x - 1], t[x])
  BY <1>2 DEF Trace
<1>5. x # 0
  BY <1>2, <1>3, <1>4
<1>6. x - 1 \in 0 .. n /\ x - 1 < x /\ x \in 1 .. n
  BY <1>2, <1>5
<1>7. f[x - 1] = g[x - 1]
  BY <1>1, <1>2, <1>6
<1> QED BY <1>2, <1>3, <1>4, <1>5, <1>6, <1>7

LEMMA ReplayedEmpty ==
  ASSUME NEW base
  PROVE  Replayed(base, <<>>) = base
<1>1. PICK f : Trace(base, <<>>, 0, f) /\ Replayed(base, <<>>) = f[0]
  BY ReplayedTrace
<1> QED BY <1>1 DEF Trace

LEMMA ReplayedAppend ==
  ASSUME NEW base, NEW S, NEW l \in Seq(S), NEW p \in S
  PROVE  Replayed(base, Append(l, p)) = Op(Replayed(base, l), p)
<1> DEFINE m == Append(l, p)
<1>1. /\ m \in Seq(S) /\ Len(m) = Len(l) + 1 /\ Len(l) \in Nat
      /\ \A k \in 1 .. Len(l) : l[k] = m[k]
      /\ m[Len(l) + 1] = p
  OBVIOUS
<1> HIDE DEF m
<1>2. PICK f : Trace(base, l, Len(l), f) /\ Replayed(base, l) = f[Len(l)]
  BY <1>1, ReplayedTrace
<1>3. PICK g : Trace(base, m, Len(l) + 1, g) /\ Replayed(base, m) = g[Len(l) + 1]
  BY <1>1, ReplayedTrace
<1>4. f[Len(l)] = g[Len(l)]
  <2>1. \A k \in 0 .. Len(l) : f[k] = g[k]
    <3> DEFINE n == Len(l)
               j == Len(l) + 1
    <3>1. n \in Nat /\ j \in Nat /\ n <= j
      BY <1>1
    <3>2. (\A k \in 1 .. n : l[k] = m[k]) /\ Trace(base, l, n, f) /\ Trace(base, m, j, g)
      BY <1>1, <1>2, <1>3
    <3> HIDE DEF n, j
    <3>3. \A k \in 0 .. n : f[k] = g[k]
      BY <3>1, <3>2, TraceUnique
    <3> QED BY <3>3 DEF n
  <2> QED BY <1>1, <2>1
<1>5. g[Len(l) + 1] = Op(g[Len(l)], p)
  <2> DEFINE n == Len(l)
             j == n + 1
  <2>1. n \in Nat /\ j \in 0 .. j /\ j # 0 /\ j - 1 = n /\ m[j] = p
    BY <1>1
  <2>2. Trace(base, m, j, g)
    BY <1>3
  <2> HIDE DEF n, j
  <2>3. g[j] = IF j = 0 THEN base ELSE Op(g[j - 1], m[j])
    BY <2>1, <2>2 DEF Trace
  <2>4. g[j] = Op(g[n], p)
    BY <2>1, <2>3
  <2> QED BY <2>4 DEF j, n
<1> QED BY <1>2, <1>3, <1>4, <1>5 DEF m

(* What every record keeps, a replay keeps. *)
LEMMA ReplayedStays ==
  ASSUME NEW base, NEW s, Len(s) \in Nat, NEW T, base \in T,
         \A x \in T : \A k \in 1 .. Len(s) : Op(x, s[k]) \in T
  PROVE  Replayed(base, s) \in T
<1> DEFINE n == Len(s)
<1>1. n \in Nat /\ \A x \in T : \A k \in 1 .. n : Op(x, s[k]) \in T
  OBVIOUS
<1>2. PICK f : Trace(base, s, n, f) /\ Replayed(base, s) = f[n]
  BY ReplayedTrace
<1> HIDE DEF n
<1> DEFINE B == {k \in 0 .. n : f[k] \notin T}
<1>3. B = {}
  <2> SUFFICES ASSUME B # {} PROVE FALSE
    OBVIOUS
  <2>1. PICK x \in B : \A y \in B : x <= y
    <3>1. B \subseteq Nat
      BY <1>1
    <3> HIDE DEF B
    <3> QED BY <3>1, Least
  <2>2. x \in 0 .. n /\ f[x] \notin T
    OBVIOUS
  <2>3. f[x] = IF x = 0 THEN base ELSE Op(f[x - 1], s[x])
    BY <1>2, <2>2 DEF Trace
  <2>4. x # 0
    BY <2>2, <2>3
  <2>5. x - 1 \in 0 .. n /\ x \in 1 .. n /\ ~(x <= x - 1)
    BY <1>1, <2>2, <2>4
  <2>6. f[x - 1] \in T
    BY <2>1, <2>5
  <2> QED BY <1>1, <2>2, <2>3, <2>4, <2>5, <2>6
<1>4. n \in 0 .. n
  BY <1>1
<1> QED BY <1>2, <1>3, <1>4

LEMMA Slice ==
  ASSUME NEW S, NEW l \in Seq(S), NEW a \in Nat, NEW b \in Nat, 1 <= a, b <= Len(l), a <= b + 1
  PROVE  /\ Len(SubSeq(l, a, b)) = b - a + 1
         /\ \A k \in 1 .. b - a + 1 : SubSeq(l, a, b)[k] = l[a + k - 1]
OBVIOUS

(* A replay may stop and go on from where it was. *)
LEMMA ReplayedSplit ==
  ASSUME NEW base, NEW S, NEW l \in Seq(S), NEW m \in 0 .. Len(l)
  PROVE  Replayed(Replayed(base, SubSeq(l, 1, m)), SubSeq(l, m + 1, Len(l))) = Replayed(base, l)
<1> DEFINE n == Len(l)
           s == SubSeq(l, 1, m)
           t == SubSeq(l, m + 1, n)
           d == n - m
<1>1. n \in Nat /\ m \in Nat /\ m <= n /\ d \in Nat /\ m + d = n
  OBVIOUS
<1>2. Len(s) = m /\ \A k \in 1 .. m : s[k] = l[k]
  BY <1>1
<1>3. Len(t) = d /\ \A k \in 1 .. d : t[k] = l[m + k]
  <2> DEFINE a == m + 1
  <2>1. a \in Nat /\ 1 <= a /\ n <= Len(l) /\ a <= n + 1 /\ n - a + 1 = d
    BY <1>1
  <2>2. \A k \in 1 .. d : a + k - 1 = m + k
    BY <1>1
  <2> HIDE DEF a, n, d
  <2>3. /\ Len(SubSeq(l, a, n)) = n - a + 1
        /\ \A k \in 1 .. n - a + 1 : SubSeq(l, a, n)[k] = l[a + k - 1]
    BY <1>1, <2>1, Slice
  <2> QED BY <2>1, <2>2, <2>3 DEF a
<1>4. PICK f : Trace(base, l, n, f) /\ Replayed(base, l) = f[n]
  BY <1>1, ReplayedTrace
<1> HIDE DEF n, s, t, d
<1>5. PICK g : Trace(base, s, m, g) /\ Replayed(base, s) = g[m]
  BY <1>1, <1>2, ReplayedTrace
<1>6. g[m] = f[m]
  <2>1. \A k \in 0 .. m : g[k] = f[k]
    <3>1. \A k \in 1 .. m : s[k] = l[k]
      BY <1>2
    <3>2. m \in Nat /\ n \in Nat /\ m <= n /\ Trace(base, s, m, g) /\ Trace(base, l, n, f)
      BY <1>1, <1>4, <1>5
    <3> QED BY <3>1, <3>2, TraceUnique
  <2> QED BY <1>1, <2>1
<1>7. PICK h : Trace(f[m], t, d, h) /\ Replayed(f[m], t) = h[d]
  BY <1>1, <1>3, ReplayedTrace
<1> DEFINE e == [k \in 0 .. d |-> f[m + k]]
<1>8. Trace(f[m], t, d, e)
  <2>1. ASSUME NEW k \in 0 .. d
        PROVE  e[k] = IF k = 0 THEN f[m] ELSE Op(e[k - 1], t[k])
    <3>1. CASE k = 0
      BY <1>1, <3>1
    <3>2. CASE k # 0
      <4>1. /\ m + k \in 0 .. n /\ m + k # 0 /\ (m + k) - 1 = m + (k - 1)
            /\ k - 1 \in 0 .. d /\ k \in 1 .. d
        BY <1>1, <3>2
      <4>2. f[m + k] = Op(f[(m + k) - 1], l[m + k])
        BY <1>4, <4>1 DEF Trace
      <4>3. e[k] = f[m + k] /\ e[k - 1] = f[m + (k - 1)]
        BY <4>1
      <4> QED BY <1>3, <3>2, <4>1, <4>2, <4>3
    <3> QED BY <3>1, <3>2
  <2>2. e = [k \in 0 .. d |-> e[k]]
    OBVIOUS
  <2> HIDE DEF e
  <2> QED BY <2>1, <2>2 DEF Trace
<1>9. h[d] = e[d] /\ e[d] = f[n]
  <2>1. e[d] = f[m + d]
    BY <1>1
  <2> HIDE DEF e
  <2>2. \A k \in 0 .. d : h[k] = e[k]
    BY <1>1, <1>7, <1>8, TraceUnique
  <2> QED BY <1>1, <2>1, <2>2
<1>10. Replayed(Replayed(base, s), t) = Replayed(base, l)
  BY <1>4, <1>5, <1>6, <1>7, <1>9
<1> QED BY <1>10 DEF s, t, n
=============================================================================
