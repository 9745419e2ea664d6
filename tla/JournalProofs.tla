---------------------------- MODULE JournalProofs ----------------------------
(***************************************************************************)
(* Proofs about the write-ahead log of wal.go: its fields keep their       *)
(* types, and whatever crash or power loss comes between two of its system *)
(* calls, what it acknowledged survives.                                   *)
(***************************************************************************)
EXTENDS Journal, TLAPS, WellFoundedInduction, SequenceTheorems

-----------------------------------------------------------------------------
(* Recovered and Survivors.                                                 *)

(* The cells of a file in which every record is whole. *)
Cells(l) == [k \in 1 .. Len(l) |-> Whole(l[k])]

(* A bounded set of naturals has a greatest member. *)
LEMMA Greatest ==
  ASSUME NEW m \in Nat, NEW S, S \subseteq 0 .. m, S # {}
  PROVE  \E k \in S : \A l \in S : l <= k
<1> DEFINE T == {m - k : k \in S}
<1>1. T \subseteq Nat /\ T # {}
  <2>1. ASSUME NEW k \in S PROVE m - k \in Nat
    <3>1. k \in 0 .. m
      OBVIOUS
    <3> QED BY <3>1
  <2> QED BY <2>1
<1>2. PICK x \in T : \A y \in T : ~ (<<y, x>> \in OpToRel(<, Nat))
  <2> HIDE DEF T
  <2> QED BY <1>1, NatLessThanWellFounded, WFMin
<1>3. \A y \in T : ~ (y < x)
  BY <1>1, <1>2 DEF OpToRel
<1>4. PICK k \in S : x = m - k
  OBVIOUS
<1>5. \A l \in S : l <= k
  BY <1>3, <1>4
<1> QED BY <1>5

(* Recovered stops at a torn cell or at the end. *)
LEMMA RecoveredIs ==
  ASSUME NEW cells \in Seq(Cell)
  PROVE  \E n \in 0 .. Len(cells) :
           /\ \A k \in 1 .. n : cells[k].whole
           /\ n < Len(cells) => ~cells[n + 1].whole
           /\ Recovered(cells) = [k \in 1 .. n |-> cells[k].payload]
<1> DEFINE before == {k \in 0 .. Len(cells) : \A l \in 1 .. k : cells[l].whole}
           n == CHOOSE k \in before : \A l \in before : l <= k
<1>1. Len(cells) \in Nat
  OBVIOUS
<1>2. before \subseteq 0 .. Len(cells) /\ 0 \in before
  BY <1>1
<1>3. \E k \in before : \A l \in before : l <= k
  <2> HIDE DEF before
  <2> QED BY <1>1, <1>2, Greatest
<1>4. n \in before /\ \A l \in before : l <= n
  <2> HIDE DEF before
  <2> QED BY <1>3
<1>5. Recovered(cells) = [k \in 1 .. n |-> cells[k].payload]
  BY DEF Recovered
<1> HIDE DEF n
<1>6. n \in 0 .. Len(cells) /\ \A l \in 1 .. n : cells[l].whole
  BY <1>4
<1>7. ASSUME n < Len(cells) PROVE ~cells[n + 1].whole
  <2> SUFFICES ASSUME cells[n + 1].whole PROVE FALSE
    OBVIOUS
  <2>1. \A l \in 1 .. n + 1 : l \in 1 .. n \/ l = n + 1
    BY <1>6
  <2>2. n + 1 \in 0 .. Len(cells)
    BY <1>1, <1>6, <1>7
  <2>3. n + 1 \in before
    BY <1>6, <2>1, <2>2
  <2> QED BY <1>4, <1>6, <2>3
<1> QED BY <1>5, <1>6, <1>7

(* A part of a file. *)
LEMMA CutIs ==
  ASSUME NEW d \in Seq(Cell), NEW k \in 0 .. Len(d)
  PROVE  /\ SubSeq(d, 1, k) \in Seq(Cell) /\ Len(SubSeq(d, 1, k)) = k
         /\ \A l \in 1 .. k : SubSeq(d, 1, k)[l] = d[l]
OBVIOUS

(* A part of a file with a torn cell behind it. *)
LEMMA TornIs ==
  ASSUME NEW d \in Seq(Cell), NEW k \in 1 .. Len(d), NEW c,
         c = Append(SubSeq(d, 1, k - 1), Torn(d[k].payload))
  PROVE  /\ c \in Seq(Cell) /\ Len(c) = k
         /\ \A l \in 1 .. k - 1 : c[l] = d[l]
         /\ c[k] = Torn(d[k].payload)
<1>1. k - 1 \in 0 .. Len(d) /\ k \in 1 .. Len(d)
  OBVIOUS
<1>2. d[k] \in Cell
  BY <1>1
<1>3. Torn(d[k].payload) \in Cell
  BY <1>2 DEF Torn, Cell
<1> DEFINE s == SubSeq(d, 1, k - 1)
           t == Torn(d[k].payload)
<1>4. s \in Seq(Cell) /\ Len(s) = k - 1 /\ \A l \in 1 .. k - 1 : s[l] = d[l]
  BY <1>1, CutIs
<1>5. t \in Cell /\ c = Append(s, t)
  BY <1>3
<1> HIDE DEF s, t
<1>6. c \in Seq(Cell) /\ Len(c) = k /\ (\A l \in 1 .. k - 1 : c[l] = s[l]) /\ c[k] = t
  BY <1>4, <1>5
<1> QED BY <1>4, <1>6 DEF t

LEMMA CellsType ==
  ASSUME NEW l \in Seq(Payload)
  PROVE  Cells(l) \in Seq(Cell) /\ Len(Cells(l)) = Len(l)
BY DEF Cells, Whole, Cell

LEMMA RecoveredType ==
  ASSUME NEW cells \in Seq(Cell)
  PROVE  Recovered(cells) \in Seq(Payload) /\ Len(Recovered(cells)) <= Len(cells)
<1>1. PICK n \in 0 .. Len(cells) :
              Recovered(cells) = [k \in 1 .. n |-> cells[k].payload]
  BY RecoveredIs
<1>2. ASSUME NEW k \in 1 .. n PROVE cells[k].payload \in Payload
  <2>1. k \in 1 .. Len(cells)
    OBVIOUS
  <2>2. cells[k] \in Cell
    BY <2>1
  <2> QED BY <2>2 DEF Cell
<1> HIDE DEF Recovered
<1> QED BY <1>1, <1>2

LEMMA WholeIs == \A p : Whole(p).payload = p /\ Whole(p).whole
BY DEF Whole

(* Whole records are all recovered. *)
LEMMA RecoveredCells ==
  ASSUME NEW l \in Seq(Payload)
  PROVE  Recovered(Cells(l)) = l
<1> DEFINE c == Cells(l)
<1>1. c \in Seq(Cell) /\ Len(c) = Len(l) /\ Len(l) \in Nat
  BY CellsType
<1>2. \A k \in 1 .. Len(l) : c[k] = Whole(l[k])
  BY DEF Cells
<1> HIDE DEF c
<1>3. Recovered(c) = l
  <2>1. PICK n \in 0 .. Len(c) :
              /\ n < Len(c) => ~c[n + 1].whole
              /\ Recovered(c) = [k \in 1 .. n |-> c[k].payload]
    BY <1>1, RecoveredIs
  <2>2. n = Len(l)
    <3> SUFFICES ASSUME n < Len(l) PROVE FALSE
      BY <1>1
    <3>1. n + 1 \in 1 .. Len(l)
      BY <1>1
    <3>2. c[n + 1].whole
      BY <1>2, <3>1, WholeIs
    <3> QED BY <1>1, <2>1, <3>2
  <2>3. \A k \in 1 .. Len(l) : c[k].payload = l[k]
    BY <1>2, WholeIs
  <2>4. Recovered(c) = [k \in 1 .. Len(l) |-> l[k]]
    BY <2>1, <2>2, <2>3
  <2> QED BY <2>4
<1> QED BY <1>3 DEF c

(* Whole records are all recovered, and a torn one behind them is not. *)
LEMMA RecoveredWhole ==
  ASSUME NEW l \in Seq(Payload), NEW p \in Payload
  PROVE  /\ Recovered(Cells(l)) = l
         /\ Recovered(Append(Cells(l), Torn(p))) = l
         /\ Append(Cells(l), Whole(p)) = Cells(Append(l, p))
<1> DEFINE c == Cells(l)
           d == Append(Cells(l), Torn(p))
<1>1. c \in Seq(Cell) /\ Len(c) = Len(l) /\ Len(l) \in Nat
  BY CellsType
<1>2. \A k \in 1 .. Len(l) : c[k] = Whole(l[k])
  BY DEF Cells
<1>3. Torn(p) \in Cell
  BY DEF Torn, Cell
<1>4. /\ d \in Seq(Cell) /\ Len(d) = Len(l) + 1
      /\ \A k \in 1 .. Len(l) : d[k] = c[k]
      /\ d[Len(l) + 1] = Torn(p)
  <2> HIDE DEF c
  <2>1. c = Cells(l) BY DEF c
  <2> QED BY <1>1, <1>3, <2>1
<1> HIDE DEF c, d
<1>5. Recovered(c) = l
  BY RecoveredCells DEF c
<1>6. Recovered(d) = l
  <2>1. PICK n \in 0 .. Len(d) :
              /\ \A k \in 1 .. n : d[k].whole
              /\ n < Len(d) => ~d[n + 1].whole
              /\ Recovered(d) = [k \in 1 .. n |-> d[k].payload]
    BY <1>4, RecoveredIs
  <2>2. n = Len(l)
    <3>1. CASE n < Len(l)
      <4>1. n + 1 \in 1 .. Len(l)
        BY <1>1, <3>1
      <4>2. d[n + 1].whole
        BY <1>2, <1>4, <4>1, WholeIs
      <4> QED BY <1>1, <1>4, <2>1, <3>1, <4>2
    <3>2. CASE n = Len(l) + 1
      <4>1. Len(l) + 1 \in 1 .. n
        BY <1>1, <3>2
      <4>2. ~d[Len(l) + 1].whole
        BY <1>4 DEF Torn
      <4> QED BY <2>1, <4>1, <4>2
    <3> QED BY <1>1, <1>4, <3>1, <3>2
  <2>3. \A k \in 1 .. Len(l) : d[k].payload = l[k]
    BY <1>2, <1>4, WholeIs
  <2>4. Recovered(d) = [k \in 1 .. Len(l) |-> l[k]]
    BY <2>1, <2>2, <2>3
  <2> QED BY <2>4
<1>7. Append(Cells(l), Whole(p)) = Cells(Append(l, p))
  <2> DEFINE m == Append(l, p)
             t == Append(c, Whole(p))
  <2>1. /\ m \in Seq(Payload) /\ Len(m) = Len(l) + 1
        /\ \A k \in 1 .. Len(l) : m[k] = l[k]
        /\ m[Len(l) + 1] = p
    BY <1>1
  <2>2. Whole(p) \in Cell
    BY DEF Whole, Cell
  <2>3. /\ t \in Seq(Cell) /\ Len(t) = Len(l) + 1
        /\ \A k \in 1 .. Len(l) : t[k] = c[k]
        /\ t[Len(l) + 1] = Whole(p)
    BY <1>1, <2>2
  <2> HIDE DEF m, t
  <2>4. Cells(m) \in Seq(Cell) /\ Len(Cells(m)) = Len(l) + 1
    BY <2>1, CellsType
  <2>5. \A k \in 1 .. Len(l) + 1 : Cells(m)[k] = Whole(m[k])
    BY <2>1 DEF Cells
  <2>6. ASSUME NEW k \in 1 .. Len(l) + 1 PROVE t[k] = Cells(m)[k]
    <3>1. k \in 1 .. Len(l) \/ k = Len(l) + 1
      BY <1>1
    <3> QED BY <1>2, <2>1, <2>3, <2>5, <3>1
  <2>7. t = Cells(m)
    BY <2>3, <2>4, <2>6, SeqEqual
  <2> QED BY <2>7 DEF m, t, c
<1> QED BY <1>5, <1>6, <1>7 DEF c, d

(* The two sequences of a prefix, entry by entry. *)
LEMMA PrefixEntries ==
  ASSUME NEW s \in Seq(Cell), NEW d \in Seq(Cell), IsPrefix(s, d)
  PROVE  Len(s) <= Len(d) /\ \A k \in 1 .. Len(s) : s[k] = d[k]
<1>1. Len(s) <= Len(d) /\ SubSeq(s, 1, Len(s)) = SubSeq(d, 1, Len(s))
  BY DEF IsPrefix
<1>2. \A k \in 1 .. Len(s) : SubSeq(s, 1, Len(s))[k] = s[k]
  OBVIOUS
<1>3. \A k \in 1 .. Len(s) : SubSeq(d, 1, Len(s))[k] = d[k]
  BY <1>1
<1> QED BY <1>1, <1>2, <1>3

(* A survivor is the safe file, or a part of the written one, the last cell  *)
(* of it possibly torn, with the safe file in front.                         *)
LEMMA SurvivorIs ==
  ASSUME NEW s \in Seq(Cell), NEW d \in Seq(Cell), NEW c \in Survivors(s, d)
  PROVE  \/ c = s
         \/ c = d
         \/ \E k \in 0 .. Len(d) : c = SubSeq(d, 1, k) /\ IsPrefix(s, c)
         \/ \E k \in 1 .. Len(d) :
              c = Append(SubSeq(d, 1, k - 1), Torn(d[k].payload)) /\ IsPrefix(s, c)
BY DEF Survivors

LEMMA SurvivorsType ==
  ASSUME NEW s \in Seq(Cell), NEW d \in Seq(Cell)
  PROVE  Survivors(s, d) \subseteq Seq(Cell)
<1> SUFFICES ASSUME NEW c \in Survivors(s, d) PROVE c \in Seq(Cell)
  OBVIOUS
<1>1. ASSUME NEW k \in 0 .. Len(d), c = SubSeq(d, 1, k) PROVE c \in Seq(Cell)
  BY <1>1, CutIs
<1>2. ASSUME NEW k \in 1 .. Len(d),
             c = Append(SubSeq(d, 1, k - 1), Torn(d[k].payload))
      PROVE  c \in Seq(Cell)
  BY <1>2, TornIs
<1> QED BY <1>1, <1>2, SurvivorIs

(* Nothing but itself survives a file that is all on the medium. *)
LEMMA SurvivorsSettled ==
  ASSUME NEW s \in Seq(Cell)
  PROVE  Survivors(s, s) = {s}
<1>1. s \in Survivors(s, s)
  BY DEF Survivors
<1> SUFFICES ASSUME NEW c \in Survivors(s, s) PROVE c = s
  BY <1>1
<1>2. ASSUME NEW k \in 0 .. Len(s), c = SubSeq(s, 1, k), IsPrefix(s, c)
      PROVE  c = s
  <2>1. c \in Seq(Cell) /\ Len(c) = k
    BY <1>2, CutIs
  <2>2. Len(s) <= Len(c)
    BY <1>2, <2>1, PrefixEntries
  <2>3. k = Len(s)
    BY <2>1, <2>2
  <2> QED BY <1>2, <2>3
<1>3. ASSUME NEW k \in 1 .. Len(s), IsPrefix(s, c),
             c = Append(SubSeq(s, 1, k - 1), Torn(s[k].payload))
      PROVE  c = s
  <2>1. c \in Seq(Cell) /\ Len(c) = k
    BY <1>3, TornIs
  <2>2. Len(s) <= Len(c) /\ \A l \in 1 .. Len(s) : s[l] = c[l]
    BY <1>3, <2>1, PrefixEntries
  <2>3. Len(s) = Len(c)
    BY <2>1, <2>2
  <2> QED BY <2>1, <2>2, <2>3, SeqEqual
<1> QED BY <1>2, <1>3, SurvivorIs

(* What survives of one record behind a file that is on the medium. *)
LEMMA SurvivorsOneMore ==
  ASSUME NEW s \in Seq(Cell), NEW x \in Cell
  PROVE  Survivors(s, Append(s, x))
           \subseteq {s, Append(s, x), Append(s, Torn(x.payload))}
<1> DEFINE d == Append(s, x)
<1>1. d \in Seq(Cell) /\ Len(d) = Len(s) + 1 /\ d[Len(s) + 1] = x
  OBVIOUS
<1>2. SubSeq(d, 1, Len(s)) = s
  OBVIOUS
<1>3. SubSeq(d, 1, Len(s) + 1) = d
  OBVIOUS
<1> SUFFICES ASSUME NEW c \in Survivors(s, d)
             PROVE  c \in {s, d, Append(s, Torn(x.payload))}
  OBVIOUS
<1> HIDE DEF d
<1>4. c \in Seq(Cell)
  BY <1>1, SurvivorsType
<1>5. ASSUME NEW k \in 0 .. Len(d), c = SubSeq(d, 1, k), IsPrefix(s, c)
      PROVE  c \in {s, d}
  <2>1. Len(c) = k
    BY <1>1, <1>5, CutIs
  <2>2. Len(s) <= Len(c)
    BY <1>4, <1>5, PrefixEntries
  <2>3. k = Len(s) \/ k = Len(s) + 1
    BY <1>1, <2>1, <2>2
  <2> QED BY <1>2, <1>3, <1>5, <2>3
<1>6. ASSUME NEW k \in 1 .. Len(d), IsPrefix(s, c),
             c = Append(SubSeq(d, 1, k - 1), Torn(d[k].payload))
      PROVE  c \in {s, Append(s, Torn(x.payload))}
  <2>1. Len(c) = k
    BY <1>1, <1>6, TornIs
  <2>2. Len(s) <= Len(c) /\ \A l \in 1 .. Len(s) : s[l] = c[l]
    BY <1>4, <1>6, PrefixEntries
  <2>3. CASE k = Len(s)
    BY <1>4, <2>1, <2>2, <2>3, SeqEqual
  <2>4. CASE k = Len(s) + 1
    <3>1. k - 1 = Len(s) /\ d[k] = x
      BY <1>1, <2>4
    <3> QED BY <1>2, <1>6, <3>1
  <2> QED BY <1>1, <2>1, <2>2, <2>3, <2>4
<1> QED BY <1>1, <1>4, <1>5, <1>6, SurvivorIs


(* OpenJournal truncates a file to what it recovers; no other outcome        *)
(* becomes possible by it.                                                   *)
LEMMA Truncated ==
  ASSUME NEW s \in Seq(Cell), NEW d \in Seq(Cell)
  PROVE  /\ SubSeq(d, 1, Len(Recovered(d))) = Cells(Recovered(d))
         /\ Survivors(s, Cells(Recovered(d)))
              \subseteq Survivors(s, d) \cup {Cells(Recovered(d))}
<1> DEFINE r == Recovered(d)
           t == Cells(r)
<1>1. PICK n \in 0 .. Len(d) :
              /\ \A k \in 1 .. n : d[k].whole
              /\ r = [k \in 1 .. n |-> d[k].payload]
  BY RecoveredIs
<1>2. r \in Seq(Payload)
  BY RecoveredType
<1> HIDE DEF r
<1>3. Len(r) = n /\ n \in Nat
  BY <1>1, <1>2
<1>4. t \in Seq(Cell) /\ Len(t) = n
  BY <1>2, <1>3, CellsType
<1>5. ASSUME NEW k \in 1 .. n PROVE t[k] = d[k]
  <2>1. k \in 1 .. Len(d) /\ d[k].whole
    BY <1>1, <1>3
  <2>2. d[k] \in Cell
    BY <2>1
  <2>3. t[k] = Whole(d[k].payload)
    BY <1>1, <1>3 DEF Cells
  <2> QED BY <2>1, <2>2, <2>3 DEF Cell, Whole
<1> HIDE DEF t
<1>6. SubSeq(d, 1, n) = t
  <2>1. SubSeq(d, 1, n) \in Seq(Cell) /\ Len(SubSeq(d, 1, n)) = n
    BY CutIs
  <2>2. \A k \in 1 .. n : SubSeq(d, 1, n)[k] = t[k]
    BY <1>5, CutIs
  <2> QED BY <1>4, <2>1, <2>2, SeqEqual
<1>7. ASSUME NEW k \in 0 .. n PROVE SubSeq(t, 1, k) = SubSeq(d, 1, k)
  <2>1. k \in 0 .. Len(d) /\ k \in 0 .. Len(t)
    BY <1>3, <1>4
  <2>2. SubSeq(t, 1, k) \in Seq(Cell) /\ Len(SubSeq(t, 1, k)) = k
    BY <1>4, <2>1, CutIs
  <2>3. SubSeq(d, 1, k) \in Seq(Cell) /\ Len(SubSeq(d, 1, k)) = k
    BY <2>1, CutIs
  <2>4. \A l \in 1 .. k : SubSeq(t, 1, k)[l] = t[l] /\ SubSeq(d, 1, k)[l] = d[l]
    BY <1>4, <2>1, CutIs
  <2>5. \A l \in 1 .. k : SubSeq(t, 1, k)[l] = SubSeq(d, 1, k)[l]
    BY <1>5, <2>4
  <2> QED BY <2>2, <2>3, <2>5, SeqEqual
<1>8. ASSUME NEW c \in Survivors(s, t), c # t
      PROVE  c \in Survivors(s, d)
  <2>1. CASE c = s
    BY <2>1 DEF Survivors
  <2>2. ASSUME NEW k \in 0 .. Len(t), c = SubSeq(t, 1, k), IsPrefix(s, c)
        PROVE  c \in Survivors(s, d)
    <3>1. k \in 0 .. Len(d) /\ c = SubSeq(d, 1, k)
      <4>1. k \in 0 .. n
        BY <1>4, <2>2
      <4>2. k \in 0 .. Len(d)
        BY <1>3, <4>1
      <4> QED BY <1>7, <2>2, <4>1, <4>2
    <3> QED BY <2>2, <3>1 DEF Survivors
  <2>3. ASSUME NEW k \in 1 .. Len(t), IsPrefix(s, c),
               c = Append(SubSeq(t, 1, k - 1), Torn(t[k].payload))
        PROVE  c \in Survivors(s, d)
    <3>1. k \in 1 .. Len(d) /\ k \in 1 .. n /\ k - 1 \in 0 .. n
      BY <1>3, <1>4
    <3>2. c = Append(SubSeq(d, 1, k - 1), Torn(d[k].payload))
      BY <1>5, <1>7, <2>3, <3>1
    <3> QED BY <2>3, <3>1, <3>2 DEF Survivors
  <2> QED BY <1>4, <1>8, <2>1, <2>2, <2>3, SurvivorIs
<1>9. SubSeq(d, 1, Len(r)) = t /\ Survivors(s, t) \subseteq Survivors(s, d) \cup {t}
  BY <1>3, <1>6, <1>8
<1> QED BY <1>9 DEF r, t

-----------------------------------------------------------------------------
(* The inductive invariant.                                                 *)

(* The journals a restart is allowed to find. *)
Told == {believed} \cup intents

(* A file with the records l, all of them on the medium. *)
Settled(f, l) == data[f] = Cells(l) /\ safe[f] = Cells(l)

(* A crash now leaves a journal the owner was told of, if f has the name. *)
Survives(f) == \A c \in Survivors(safe[f], data[f]) : Recovered(c) \in Told

Replacing == {"copied", "synced", "closed", "renamed", "named"}

(* The open file is the one the path names, durably, and it holds what the   *)
(* owner believes unless a write of this process is under way or has failed. *)
FileInv ==
  file # None =>
    /\ file = path /\ path = safePath
    /\ pc \in {"ready", "written", "copied", "synced"}
    /\ ~failed /\ pc # "written" => Settled(path, believed)

(* Append between its write and its sync. *)
WrittenInv ==
  pc = "written" =>
    /\ file # None
    /\ \E p \in Payload : /\ data[path] = Cells(Append(believed, p))
                          /\ Append(believed, p) \in Told

(* Replace: the temporary file is synced before it gets the name, and the    *)
(* name is durable before the owner is told.                                 *)
ReplaceInv ==
  /\ pc \in {"copied", "synced", "closed"} =>
       /\ tmp \in Inode \ {path, safePath}
       /\ \E l \in Seq(Payload) : /\ data[tmp] = Cells(l)
                                  /\ pc # "copied" => safe[tmp] = Cells(l)
  /\ pc = "named" => path = safePath

(* Outside a write, both files a restart may find are settled. *)
SettledInv ==
  pc \in {"ready"} \cup Replacing /\ ~failed =>
    \A f \in {path, safePath} : \E l \in Told : Settled(f, l)

(* OpenJournal between its steps. *)
OpenInv ==
  pc \in {"replayed", "flushed"} =>
    \E l \in Told : /\ data[path] = Cells(l)
                    /\ pc = "flushed" => safe[path] = Cells(l)

(* A failed journal stays as it is until it is opened again. *)
FailedInv == failed => pc = "ready"

JournalInv ==
  /\ JournalTypeOK
  /\ \A f \in {path, safePath} : Survives(f)
  /\ FileInv /\ WrittenInv /\ ReplaceInv /\ SettledInv /\ OpenInv /\ FailedInv


-----------------------------------------------------------------------------
(* Every step keeps the invariant.                                          *)

(* One record behind a settled file is lost, torn or kept. *)
LEMMA OneMoreSurvives ==
  ASSUME NEW l \in Seq(Payload), NEW p \in Payload, NEW c
  PROVE  /\ c \in Survivors(Cells(l), Append(Cells(l), Whole(p)))
              => Recovered(c) \in {l, Append(l, p)}
         /\ c \in Survivors(Cells(l), Append(Cells(l), Torn(p)))
              => Recovered(c) = l
<1>1. Cells(l) \in Seq(Cell) /\ Append(l, p) \in Seq(Payload)
  BY CellsType
<1>2. Whole(p) \in Cell /\ Torn(p) \in Cell
  BY DEF Cell, Whole, Torn
<1>3. Whole(p).payload = p /\ Torn(p).payload = p
  BY DEF Whole, Torn
<1>4. /\ Recovered(Cells(l)) = l
      /\ Recovered(Append(Cells(l), Torn(p))) = l
      /\ Recovered(Append(Cells(l), Whole(p))) = Append(l, p)
  BY <1>1, RecoveredWhole
<1>5. /\ Survivors(Cells(l), Append(Cells(l), Whole(p)))
           \subseteq {Cells(l), Append(Cells(l), Whole(p)), Append(Cells(l), Torn(p))}
      /\ Survivors(Cells(l), Append(Cells(l), Torn(p)))
           \subseteq {Cells(l), Append(Cells(l), Torn(p))}
  BY <1>1, <1>2, <1>3, SurvivorsOneMore
<1> QED BY <1>4, <1>5

(* A settled file leaves its records and nothing else. *)
LEMMA SettledSurvives ==
  ASSUME NEW l \in Seq(Payload), NEW c \in Survivors(Cells(l), Cells(l))
  PROVE  Recovered(c) = l
<1>1. Cells(l) \in Seq(Cell)
  BY CellsType
<1>2. c = Cells(l)
  BY <1>1, SurvivorsSettled
<1> QED BY <1>2, RecoveredCells

LEMMA ToldType ==
  ASSUME JournalTypeOK
  PROVE  Told \subseteq Seq(Payload)
BY DEF JournalTypeOK, Told

LEMMA JournalInvInit == JournalInit => JournalInv
<1> SUFFICES ASSUME JournalInit PROVE JournalInv
  OBVIOUS
<1> USE DEF JournalInit
<1>1. JournalTypeOK
  <2>1. <<>> \in Seq(Cell) /\ <<>> \in Seq(Payload)
    OBVIOUS
  <2>2. data \in [Inode -> Seq(Cell)] /\ safe \in [Inode -> Seq(Cell)]
    BY <2>1
  <2>3. path \in Inode /\ safePath \in Inode
    BY DEF Inode
  <2> QED BY <2>1, <2>2, <2>3 DEF JournalTypeOK
<1>2. ASSUME NEW f \in {path, safePath} PROVE Survives(f)
  <2>1. safe[f] = <<>> /\ data[f] = <<>>
    BY DEF Inode
  <2>2. Cells(<<>>) = <<>>
    BY DEF Cells
  <2>3. <<>> \in Seq(Payload) /\ <<>> \in Told
    BY DEF Told
  <2> QED BY <2>1, <2>2, <2>3, SettledSurvives DEF Survives
<1>3. FileInv /\ WrittenInv /\ ReplaceInv /\ SettledInv /\ OpenInv /\ FailedInv
  BY DEF FileInv, WrittenInv, ReplaceInv, SettledInv, OpenInv, FailedInv, Replacing
<1> QED BY <1>1, <1>2, <1>3 DEF JournalInv

LEMMA AppendWriteInv ==
  ASSUME JournalInv, NEW p \in Payload, AppendWrite(p)
  PROVE  JournalInv'
<1> USE DEF AppendWrite, Healthy
<1>1. /\ data \in [Inode -> Seq(Cell)] /\ safe \in [Inode -> Seq(Cell)]
      /\ path \in Inode /\ file = path /\ path = safePath
      /\ believed \in Seq(Payload) /\ intents \in SUBSET Seq(Payload)
      /\ data[path] = Cells(believed) /\ safe[path] = Cells(believed)
  BY DEF JournalInv, JournalTypeOK, FileInv, Settled
<1>2. Append(Cells(believed), Whole(p)) = Cells(Append(believed, p))
  BY <1>1, RecoveredWhole
<1>3. Append(believed, p) \in Seq(Payload) /\ Cells(Append(believed, p)) \in Seq(Cell)
  <2>1. Append(believed, p) \in Seq(Payload)
    BY <1>1
  <2> QED BY <2>1, CellsType
<1>4. /\ data' = [data EXCEPT ![path] = Cells(Append(believed, p))]
      /\ data'[path] = Cells(Append(believed, p))
  BY <1>1, <1>2
<1>5. JournalTypeOK'
  BY <1>1, <1>3, <1>4 DEF JournalInv, JournalTypeOK
<1>6. believed \in Told' /\ Append(believed, p) \in Told'
  BY DEF Told
<1>7. ASSUME NEW f \in {path', safePath'} PROVE Survives(f)'
  <2>1. f = path /\ safe'[f] = Cells(believed)
        /\ data'[f] = Append(Cells(believed), Whole(p))
    BY <1>1, <1>2, <1>4
  <2> QED BY <1>1, <1>6, <2>1, OneMoreSurvives DEF Survives
<1>8. WrittenInv'
  BY <1>1, <1>4, <1>6 DEF WrittenInv
<1>9. (FileInv /\ ReplaceInv /\ SettledInv /\ OpenInv /\ FailedInv)'
  BY <1>1 DEF FileInv, ReplaceInv, SettledInv, OpenInv, FailedInv, Replacing
<1> QED BY <1>5, <1>7, <1>8, <1>9 DEF JournalInv

LEMMA AppendWriteFailsInv ==
  ASSUME JournalInv, NEW p \in Payload, AppendWriteFails(p)
  PROVE  JournalInv'
<1> USE DEF Healthy
<1>1. /\ pc = "ready" /\ pc' = "ready" /\ failed'
      /\ path' = path /\ safePath' = safePath /\ file' = file /\ safe' = safe
      /\ tmp' = tmp /\ believed' = believed
  BY DEF AppendWriteFails
<1>2. (WrittenInv /\ ReplaceInv /\ SettledInv /\ OpenInv /\ FailedInv)'
  BY <1>1 DEF WrittenInv, ReplaceInv, SettledInv, OpenInv, FailedInv, Replacing
<1>3. FileInv'
  BY <1>1 DEF FileInv, JournalInv
<1>4. CASE UNCHANGED <<data, intents>>
  <2>1. JournalTypeOK'
    BY <1>1, <1>4 DEF JournalInv, JournalTypeOK
  <2>2. \A f \in {path', safePath'} : Survives(f)'
    BY <1>1, <1>4 DEF JournalInv, Survives, Told
  <2> QED BY <1>2, <1>3, <2>1, <2>2 DEF JournalInv
<1>5. ASSUME file # None
      PROVE  /\ data \in [Inode -> Seq(Cell)] /\ safe \in [Inode -> Seq(Cell)]
             /\ path \in Inode /\ file = path /\ path = safePath
             /\ believed \in Seq(Payload) /\ intents \in SUBSET Seq(Payload)
             /\ data[path] = Cells(believed) /\ safe[path] = Cells(believed)
             /\ Cells(believed) \in Seq(Cell)
  <2>1. ~failed
    BY DEF AppendWriteFails
  <2> QED BY <1>1, <1>5, <2>1, CellsType DEF JournalInv, JournalTypeOK, FileInv, Settled
<1>6. CASE /\ file # None
           /\ data' = [data EXCEPT ![file] = Append(@, Torn(p))]
           /\ UNCHANGED intents
  <2>1. data'[path] = Append(Cells(believed), Torn(p))
    BY <1>5, <1>6
  <2>2. Torn(p) \in Cell
    BY DEF Torn, Cell
  <2>3. data' \in [Inode -> Seq(Cell)]
    BY <1>5, <1>6, <2>2
  <2>4. JournalTypeOK'
    BY <1>1, <1>6, <2>3 DEF JournalInv, JournalTypeOK
  <2>5. ASSUME NEW f \in {path', safePath'} PROVE Survives(f)'
    <3>1. f = path /\ safe'[f] = Cells(believed)
      BY <1>1, <1>5, <1>6
    <3>2. believed \in Told'
      BY <1>1 DEF Told
    <3> QED BY <1>5, <1>6, <2>1, <3>1, <3>2, OneMoreSurvives DEF Survives
  <2> QED BY <1>2, <1>3, <2>4, <2>5 DEF JournalInv
<1>7. CASE /\ file # None
           /\ data' = [data EXCEPT ![file] = Append(@, Whole(p))]
           /\ intents' = intents \cup {Append(believed, p)}
  <2>1. data'[path] = Append(Cells(believed), Whole(p))
    BY <1>5, <1>7
  <2>2. Whole(p) \in Cell
    BY DEF Whole, Cell
  <2>3. data' \in [Inode -> Seq(Cell)] /\ Append(believed, p) \in Seq(Payload)
    BY <1>5, <1>7, <2>2
  <2>4. JournalTypeOK'
    BY <1>1, <1>5, <1>7, <2>3 DEF JournalInv, JournalTypeOK
  <2>5. ASSUME NEW f \in {path', safePath'} PROVE Survives(f)'
    <3>1. f = path /\ safe'[f] = Cells(believed)
      BY <1>1, <1>5, <1>7
    <3>2. believed \in Told' /\ Append(believed, p) \in Told'
      BY <1>1, <1>7 DEF Told
    <3> QED BY <1>5, <1>7, <2>1, <3>1, <3>2, OneMoreSurvives DEF Survives
  <2> QED BY <1>2, <1>3, <2>4, <2>5 DEF JournalInv
<1> QED BY <1>4, <1>6, <1>7 DEF AppendWriteFails



LEMMA AppendSyncInv ==
  ASSUME JournalInv, AppendSync
  PROVE  JournalInv' /\ believed' \in Told /\ Last(data[file]).payload \in Payload
<1> USE DEF AppendSync
<1>1. /\ data \in [Inode -> Seq(Cell)] /\ safe \in [Inode -> Seq(Cell)]
      /\ path \in Inode /\ file = path /\ path = safePath
      /\ believed \in Seq(Payload)
      /\ ~failed
  BY DEF JournalInv, JournalTypeOK, FileInv, WrittenInv, FailedInv
<1>2. PICK p \in Payload : /\ data[path] = Cells(Append(believed, p))
                           /\ Append(believed, p) \in Told
  BY DEF JournalInv, WrittenInv
<1>3. data[path] = Append(Cells(believed), Whole(p))
  BY <1>1, <1>2, RecoveredWhole
<1>4. Last(data[path]).payload = p
  <2>1. Cells(believed) \in Seq(Cell) /\ Whole(p) \in Cell
    BY <1>1, CellsType DEF Whole, Cell
  <2>2. Last(data[path]) = Whole(p)
    BY <1>3, <2>1 DEF Last
  <2> QED BY <2>2, WholeIs
<1>5. believed' = Append(believed, p) /\ believed' \in Seq(Payload)
  BY <1>1, <1>4
<1>6. believed' \in Told /\ Told' = {believed'}
  BY <1>2, <1>5 DEF Told
<1>7. Settled(path, believed)'
  BY <1>1, <1>2, <1>5 DEF Settled
<1>8. JournalTypeOK'
  <2>1. safe' \in [Inode -> Seq(Cell)]
    BY <1>1
  <2> QED BY <1>5, <2>1 DEF JournalInv, JournalTypeOK
<1>9. Survives(path)'
  BY <1>5, <1>6, <1>7, SettledSurvives DEF Survives, Settled
<1>10. path' = safePath'
  BY <1>1
<1>11. (FileInv /\ SettledInv)'
  BY <1>1, <1>6, <1>7, <1>10 DEF FileInv, SettledInv
<1>12. (WrittenInv /\ ReplaceInv /\ OpenInv /\ FailedInv)'
  BY <1>1 DEF WrittenInv, ReplaceInv, OpenInv, FailedInv
<1> QED BY <1>1, <1>4, <1>6, <1>8, <1>9, <1>10, <1>11, <1>12 DEF JournalInv

(* The steps that touch none of the files a restart may find. *)
LEMMA FilesKept ==
  ASSUME JournalInv, UNCHANGED <<path, safePath, believed, intents>>,
         \A f \in {path, safePath} : data'[f] = data[f] /\ safe'[f] = safe[f]
  PROVE  \A f \in {path', safePath'} : Survives(f)'
BY DEF JournalInv, Survives, Told

LEMMA AppendSyncFailsInv ==
  ASSUME JournalInv, AppendSyncFails
  PROVE  JournalInv'
<1> USE DEF AppendSyncFails, fileSystem
<1>1. JournalTypeOK'
  BY DEF JournalInv, JournalTypeOK
<1>2. \A f \in {path', safePath'} : Survives(f)'
  BY FilesKept
<1>3. (FileInv /\ WrittenInv /\ ReplaceInv /\ SettledInv /\ OpenInv /\ FailedInv)'
  BY DEF JournalInv, FileInv, WrittenInv, ReplaceInv, SettledInv, OpenInv, FailedInv
<1> QED BY <1>1, <1>2, <1>3 DEF JournalInv

(* The temporary file is none of the two a restart may find. *)
LEMMA ReplaceCreateInv ==
  ASSUME JournalInv, NEW payloads \in Seq(Payload), ReplaceCreate(payloads)
  PROVE  JournalInv'
<1> USE DEF ReplaceCreate, Healthy
<1>1. /\ data \in [Inode -> Seq(Cell)] /\ safe \in [Inode -> Seq(Cell)]
      /\ path \in Inode /\ safePath \in Inode
  BY DEF JournalInv, JournalTypeOK
<1>2. \E f \in Inode : f \notin {path, safePath}
  <2>1. 1 \in Inode /\ 2 \in Inode /\ 3 \in Inode
    BY DEF Inode
  <2>2. 1 \notin {path, safePath} \/ 2 \notin {path, safePath} \/ 3 \notin {path, safePath}
    OBVIOUS
  <2> QED BY <2>1, <2>2
<1>3. tmp' \in Inode /\ tmp' \notin {path, safePath}
  BY <1>2
<1>4. data' = [data EXCEPT ![tmp'] = Cells(payloads)]
  BY DEF Cells
<1>5. Cells(payloads) \in Seq(Cell) /\ <<>> \in Seq(Cell)
  BY CellsType
<1>6. JournalTypeOK'
  <2>1. data' \in [Inode -> Seq(Cell)] /\ safe' \in [Inode -> Seq(Cell)]
    BY <1>1, <1>4, <1>5
  <2> QED BY <1>3, <2>1 DEF JournalInv, JournalTypeOK
<1>7. /\ \A f \in {path, safePath} : data'[f] = data[f] /\ safe'[f] = safe[f]
      /\ data'[tmp'] = Cells(payloads)
  BY <1>1, <1>3, <1>4
<1>8. \A f \in {path', safePath'} : Survives(f)'
  BY <1>7, FilesKept
<1>9. FileInv'
  BY <1>7 DEF JournalInv, FileInv, Settled
<1>10. SettledInv'
  BY <1>7 DEF JournalInv, SettledInv, Settled, Told
<1>11. (WrittenInv /\ ReplaceInv /\ OpenInv /\ FailedInv)'
  BY <1>3, <1>7 DEF WrittenInv, ReplaceInv, OpenInv, FailedInv
<1> QED BY <1>6, <1>8, <1>9, <1>10, <1>11 DEF JournalInv

LEMMA ReplaceSyncInv ==
  ASSUME JournalInv, ReplaceSync
  PROVE  JournalInv'
<1> USE DEF ReplaceSync
<1>1. /\ data \in [Inode -> Seq(Cell)] /\ safe \in [Inode -> Seq(Cell)]
      /\ path \in Inode /\ safePath \in Inode
  BY DEF JournalInv, JournalTypeOK
<1>2. /\ tmp \in Inode \ {path, safePath}
      /\ \E l \in Seq(Payload) : data[tmp] = Cells(l)
  BY DEF JournalInv, ReplaceInv
<1>3. /\ safe' \in [Inode -> Seq(Cell)] /\ safe'[tmp] = data[tmp]
      /\ \A f \in {path, safePath} : data'[f] = data[f] /\ safe'[f] = safe[f]
  BY <1>1, <1>2
<1>4. JournalTypeOK'
  BY <1>3 DEF JournalInv, JournalTypeOK
<1>5. \A f \in {path', safePath'} : Survives(f)'
  BY <1>3, FilesKept
<1>6. (FileInv /\ SettledInv)'
  BY <1>3 DEF JournalInv, FileInv, SettledInv, Settled, Told, Replacing
<1>7. (WrittenInv /\ ReplaceInv /\ OpenInv /\ FailedInv)'
  BY <1>2, <1>3 DEF JournalInv, WrittenInv, ReplaceInv, OpenInv, FailedInv
<1> QED BY <1>4, <1>5, <1>6, <1>7 DEF JournalInv

LEMMA ReplaceCloseInv ==
  ASSUME JournalInv, ReplaceClose
  PROVE  JournalInv'
<1> USE DEF ReplaceClose, fileSystem
<1>1. JournalTypeOK'
  BY DEF JournalInv, JournalTypeOK
<1>2. \A f \in {path', safePath'} : Survives(f)'
  BY FilesKept
<1>3. (FileInv /\ SettledInv)'
  BY DEF JournalInv, FileInv, SettledInv, Settled, Told, Replacing
<1>4. (WrittenInv /\ ReplaceInv /\ OpenInv /\ FailedInv)'
  BY DEF JournalInv, WrittenInv, ReplaceInv, OpenInv, FailedInv
<1> QED BY <1>1, <1>2, <1>3, <1>4 DEF JournalInv

(* The name goes to a file that is all on the medium. *)
LEMMA ReplaceRenameInv ==
  ASSUME JournalInv, ReplaceRename
  PROVE  JournalInv'
<1> USE DEF ReplaceRename
<1>1. tmp \in Inode \ {path, safePath}
  BY DEF JournalInv, ReplaceInv
<1>2. PICK l \in Seq(Payload) : data[tmp] = Cells(l) /\ safe[tmp] = Cells(l)
  BY DEF JournalInv, ReplaceInv
<1>3. Recovered(data[tmp]) = l
  BY <1>2, RecoveredCells
<1>4. l \in Told' /\ Told \subseteq Told'
  BY <1>3 DEF Told
<1>5. JournalTypeOK'
  BY <1>1, <1>3 DEF JournalInv, JournalTypeOK
<1>6. Survives(path)'
  BY <1>2, <1>4, SettledSurvives DEF Survives
<1>7. Survives(safePath)'
  BY <1>4 DEF JournalInv, Survives
<1>8. SettledInv'
  <2>1. PICK m \in Told : Settled(safePath, m)
    BY DEF JournalInv, SettledInv, Replacing, FailedInv
  <2>2. Settled(safePath, m)' /\ m \in Told'
    BY <1>4, <2>1 DEF Settled
  <2>3. Settled(path, l)'
    BY <1>2 DEF Settled
  <2> QED BY <1>4, <2>2, <2>3 DEF SettledInv
<1>9. (FileInv /\ WrittenInv /\ ReplaceInv /\ OpenInv /\ FailedInv)'
  BY DEF JournalInv, FileInv, WrittenInv, ReplaceInv, OpenInv, FailedInv
<1> QED BY <1>5, <1>6, <1>7, <1>8, <1>9 DEF JournalInv

LEMMA ReplaceSyncDirectoryInv ==
  ASSUME JournalInv, ReplaceSyncDirectory
  PROVE  JournalInv'
<1> USE DEF ReplaceSyncDirectory
<1>1. JournalTypeOK'
  BY DEF JournalInv, JournalTypeOK
<1>2. \A f \in {path', safePath'} : Survives(f)'
  BY DEF JournalInv, Survives, Told
<1>3. (FileInv /\ SettledInv)'
  BY DEF JournalInv, FileInv, SettledInv, Settled, Told, Replacing
<1>4. (WrittenInv /\ ReplaceInv /\ OpenInv /\ FailedInv)'
  BY DEF JournalInv, WrittenInv, ReplaceInv, OpenInv, FailedInv
<1> QED BY <1>1, <1>2, <1>3, <1>4 DEF JournalInv

LEMMA ReplaceReopenInv ==
  ASSUME JournalInv, ReplaceReopen
  PROVE  JournalInv' /\ believed' \in Told
<1> USE DEF ReplaceReopen, fileSystem
<1>1. path = safePath /\ ~failed
  BY DEF JournalInv, ReplaceInv, FailedInv
<1>2. PICK l \in Told : Settled(path, l)
  BY <1>1 DEF JournalInv, SettledInv, Replacing
<1>3. l \in Seq(Payload)
  BY ToldType DEF JournalInv
<1>4. believed' = l
  BY <1>2, <1>3, RecoveredCells DEF Settled
<1>5. Settled(path, believed)' /\ believed' \in Told'
  BY <1>2, <1>4 DEF Settled, Told
<1>6. JournalTypeOK'
  BY <1>3, <1>4 DEF JournalInv, JournalTypeOK
<1>7. \A f \in {path', safePath'} : Survives(f)'
  BY <1>1, <1>3, <1>4, <1>5, SettledSurvives DEF Survives, Settled
<1>8. (FileInv /\ SettledInv)'
  BY <1>1, <1>5 DEF FileInv, SettledInv
<1>9. (WrittenInv /\ ReplaceInv /\ OpenInv /\ FailedInv)'
  BY <1>1 DEF WrittenInv, ReplaceInv, OpenInv, FailedInv
<1> QED BY <1>4, <1>6, <1>7, <1>8, <1>9 DEF JournalInv

LEMMA ReplaceFailsInv ==
  ASSUME JournalInv, ReplaceFails
  PROVE  JournalInv'
<1> USE DEF ReplaceFails, fileSystem
<1>1. JournalTypeOK'
  BY DEF JournalInv, JournalTypeOK
<1>2. \A f \in {path', safePath'} : Survives(f)'
  BY FilesKept
<1>3. ~failed
  BY DEF JournalInv, FailedInv
<1>4. (FileInv /\ SettledInv)'
  BY <1>3 DEF JournalInv, FileInv, SettledInv, Settled, Told, Replacing
<1>5. (WrittenInv /\ ReplaceInv /\ OpenInv /\ FailedInv)'
  BY DEF JournalInv, WrittenInv, ReplaceInv, OpenInv, FailedInv
<1> QED BY <1>1, <1>2, <1>4, <1>5 DEF JournalInv


LEMMA OpenReplayInv ==
  ASSUME JournalInv, OpenReplay
  PROVE  JournalInv' /\ Recovered(data[path]) \in Told
<1> USE DEF OpenReplay
<1> DEFINE r == Recovered(data[path])
<1>1. /\ data \in [Inode -> Seq(Cell)] /\ safe \in [Inode -> Seq(Cell)]
      /\ path \in Inode /\ safePath \in Inode
      /\ data[path] \in Seq(Cell) /\ safe[path] \in Seq(Cell)
  BY DEF JournalInv, JournalTypeOK
<1>2. r \in Seq(Payload) /\ Cells(r) \in Seq(Cell)
  BY <1>1, RecoveredType, CellsType
<1>3. /\ SubSeq(data[path], 1, Len(r)) = Cells(r)
      /\ Survivors(safe[path], Cells(r)) \subseteq Survivors(safe[path], data[path]) \cup {Cells(r)}
  BY <1>1, Truncated
<1>4. data' = [data EXCEPT ![path] = Cells(r)]
  BY <1>3
<1>5. data[path] \in Survivors(safe[path], data[path])
  BY DEF Survivors
<1>6. r \in Told
  BY <1>5 DEF JournalInv, Survives
<1>7. Recovered(Cells(r)) = r
  BY <1>2, RecoveredCells
<1> HIDE DEF r
<1>8. data'[path] = Cells(r) /\ data' \in [Inode -> Seq(Cell)] /\ Told' = Told
  BY <1>1, <1>2, <1>4 DEF Told
<1>9. JournalTypeOK'
  BY <1>8 DEF JournalInv, JournalTypeOK
<1>10. Survives(path)'
  BY <1>3, <1>6, <1>7, <1>8 DEF JournalInv, Survives
<1>11. Survives(safePath)'
  <2>1. CASE safePath = path
    BY <1>10, <2>1
  <2>2. CASE safePath # path
    <3>1. data'[safePath] = data[safePath]
      BY <1>1, <1>4, <2>2
    <3> QED BY <1>8, <3>1 DEF JournalInv, Survives
  <2> QED BY <2>1, <2>2
<1>12. OpenInv'
  BY <1>6, <1>8 DEF OpenInv
<1>13. (FileInv /\ WrittenInv /\ ReplaceInv /\ SettledInv /\ FailedInv)'
  BY DEF JournalInv, FileInv, WrittenInv, ReplaceInv, SettledInv, FailedInv, Replacing
<1> QED BY <1>6, <1>9, <1>10, <1>11, <1>12, <1>13 DEF JournalInv, r

LEMMA OpenSyncInv ==
  ASSUME JournalInv, OpenSync
  PROVE  JournalInv'
<1> USE DEF OpenSync
<1>1. /\ data \in [Inode -> Seq(Cell)] /\ safe \in [Inode -> Seq(Cell)]
      /\ path \in Inode /\ safePath \in Inode
  BY DEF JournalInv, JournalTypeOK
<1>2. PICK l \in Told : data[path] = Cells(l)
  BY DEF JournalInv, OpenInv
<1>3. l \in Seq(Payload)
  BY ToldType DEF JournalInv
<1>4. /\ safe' \in [Inode -> Seq(Cell)] /\ safe'[path] = Cells(l)
      /\ l \in Told' /\ Told' = Told
  BY <1>1, <1>2 DEF Told
<1>5. JournalTypeOK'
  BY <1>4 DEF JournalInv, JournalTypeOK
<1>6. Survives(path)'
  BY <1>2, <1>3, <1>4, SettledSurvives DEF Survives
<1>7. Survives(safePath)'
  <2>1. CASE safePath = path
    BY <1>6, <2>1
  <2>2. CASE safePath # path
    <3>1. safe'[safePath] = safe[safePath]
      BY <1>1, <2>2
    <3> QED BY <1>4, <3>1 DEF JournalInv, Survives
  <2> QED BY <2>1, <2>2
<1>8. OpenInv'
  BY <1>2, <1>4 DEF OpenInv
<1>9. (FileInv /\ WrittenInv /\ ReplaceInv /\ SettledInv /\ FailedInv)'
  BY DEF JournalInv, FileInv, WrittenInv, ReplaceInv, SettledInv, FailedInv, Replacing
<1> QED BY <1>5, <1>6, <1>7, <1>8, <1>9 DEF JournalInv

LEMMA OpenDoneInv ==
  ASSUME JournalInv, OpenDone
  PROVE  JournalInv' /\ believed' \in Told
<1> USE DEF OpenDone
<1>1. PICK l \in Told : data[path] = Cells(l) /\ safe[path] = Cells(l)
  BY DEF JournalInv, OpenInv
<1>2. l \in Seq(Payload)
  BY ToldType DEF JournalInv
<1>3. believed' = l
  BY <1>1, <1>2, RecoveredCells
<1>4. Settled(path, believed)' /\ believed' \in Told'
  BY <1>1, <1>3 DEF Settled, Told
<1>5. JournalTypeOK'
  BY <1>2, <1>3 DEF JournalInv, JournalTypeOK
<1>6. \A f \in {path', safePath'} : Survives(f)'
  BY <1>2, <1>3, <1>4, SettledSurvives DEF Survives, Settled
<1>7. (FileInv /\ SettledInv)'
  BY <1>4 DEF FileInv, SettledInv
<1>8. (WrittenInv /\ ReplaceInv /\ OpenInv /\ FailedInv)'
  BY DEF WrittenInv, ReplaceInv, OpenInv, FailedInv
<1> QED BY <1>3, <1>5, <1>6, <1>7, <1>8 DEF JournalInv

LEMMA KillInv ==
  ASSUME JournalInv, Kill
  PROVE  JournalInv'
<1> USE DEF Kill, fileSystem
<1>1. JournalTypeOK'
  BY DEF JournalInv, JournalTypeOK
<1>2. \A f \in {path', safePath'} : Survives(f)'
  BY FilesKept
<1>3. (FileInv /\ WrittenInv /\ ReplaceInv /\ SettledInv /\ OpenInv /\ FailedInv)'
  BY DEF FileInv, WrittenInv, ReplaceInv, SettledInv, OpenInv, FailedInv, Replacing
<1> QED BY <1>1, <1>2, <1>3 DEF JournalInv

LEMMA PowerLossInv ==
  ASSUME JournalInv, PowerLoss
  PROVE  JournalInv'
<1> USE DEF PowerLoss
<1>1. /\ data \in [Inode -> Seq(Cell)] /\ safe \in [Inode -> Seq(Cell)]
      /\ path \in Inode /\ safePath \in Inode
  BY DEF JournalInv, JournalTypeOK
<1>2. \A f \in Inode : data'[f] \in Survivors(safe[f], data[f]) /\ data'[f] \in Seq(Cell)
  BY <1>1, SurvivorsType
<1>3. data' \in [Inode -> Seq(Cell)] /\ safe' = data'
  BY <1>2
<1>4. path' \in {path, safePath} /\ safePath' = path'
  OBVIOUS
<1>5. JournalTypeOK'
  BY <1>3, <1>4 DEF JournalInv, JournalTypeOK
<1>6. Survives(path)'
  <2>1. PICK f \in {path, safePath} : path' = f
    BY <1>4
  <2>2. Survivors(data'[f], data'[f]) = {data'[f]}
    BY <1>1, <1>2, SurvivorsSettled
  <2>3. Recovered(data'[f]) \in Told
    BY <1>1, <1>2 DEF JournalInv, Survives
  <2>4. Told' = Told
    BY DEF Told
  <2> QED BY <1>3, <2>1, <2>2, <2>3, <2>4 DEF Survives
<1>7. (FileInv /\ WrittenInv /\ ReplaceInv /\ SettledInv /\ OpenInv /\ FailedInv)'
  BY DEF FileInv, WrittenInv, ReplaceInv, SettledInv, OpenInv, FailedInv, Replacing
<1> QED BY <1>4, <1>5, <1>6, <1>7 DEF JournalInv

LEMMA JournalInvUnchanged ==
  ASSUME JournalInv, UNCHANGED journalVars
  PROVE  JournalInv'
BY DEF journalVars, JournalInv, JournalTypeOK, Survives, FileInv, WrittenInv, ReplaceInv,
       SettledInv, OpenInv, FailedInv, Told, Settled

LEMMA JournalInvStep == JournalInv /\ [JournalNext]_journalVars => JournalInv'
<1> SUFFICES ASSUME JournalInv, [JournalNext]_journalVars PROVE JournalInv'
  OBVIOUS
<1>1. ASSUME NEW p \in Payload, AppendWrite(p) \/ AppendWriteFails(p) PROVE JournalInv'
  BY <1>1, AppendWriteInv, AppendWriteFailsInv
<1>2. CASE AppendSync \/ AppendSyncFails
  BY <1>2, AppendSyncInv, AppendSyncFailsInv
<1>3. ASSUME NEW p \in Payload, ReplaceCreate(<<p>>) PROVE JournalInv'
  <2>1. <<p>> \in Seq(Payload)
    OBVIOUS
  <2> QED BY <1>3, <2>1, ReplaceCreateInv
<1>4. CASE ReplaceSync \/ ReplaceClose \/ ReplaceRename \/ ReplaceSyncDirectory
  BY <1>4, ReplaceSyncInv, ReplaceCloseInv, ReplaceRenameInv, ReplaceSyncDirectoryInv
<1>5. CASE ReplaceReopen \/ ReplaceFails
  BY <1>5, ReplaceReopenInv, ReplaceFailsInv
<1>6. CASE OpenReplay \/ OpenSync \/ OpenDone
  BY <1>6, OpenReplayInv, OpenSyncInv, OpenDoneInv
<1>7. CASE Kill \/ PowerLoss
  BY <1>7, KillInv, PowerLossInv
<1>8. CASE UNCHANGED journalVars
  BY <1>8, JournalInvUnchanged
<1> QED BY <1>1, <1>2, <1>3, <1>4, <1>5, <1>6, <1>7, <1>8 DEF JournalNext

LEMMA JournalInvAlways == JournalSpec => []JournalInv
BY JournalInvInit, JournalInvStep, PTL DEF JournalSpec

(* What a restart finds is one of the journals the owner was told of. *)
LEMMA JournalInvSurvive == JournalInv => AcknowledgedSurvive
<1> SUFFICES ASSUME JournalInv, NEW l \in Recoverable PROVE l \in Told
  BY DEF AcknowledgedSurvive, Told
<1>1. PICK f \in {path, safePath} :
            \E c \in Survivors(safe[f], data[f]) : l = Recovered(c)
  BY DEF Recoverable
<1>2. PICK c \in Survivors(safe[f], data[f]) : l = Recovered(c)
  BY <1>1
<1> QED BY <1>2 DEF JournalInv, Survives

(* OpenJournal, Append and Replace: for any records, and any sequence of     *)
(* calls, errors, kills and power losses, the fields of a WAL keep their     *)
(* types and its path names a file.                                          *)
THEOREM JournalTyped == JournalSpec => []JournalTypeOK
<1>1. JournalInv => JournalTypeOK
  BY DEF JournalInv
<1> QED BY <1>1, JournalInvAlways, PTL

(* Append and Replace: for any records, whenever the process dies or the     *)
(* power fails, the next OpenJournal finds exactly what was acknowledged, or *)
(* the whole outcome of a call that never was.                               *)
THEOREM AcknowledgedKept == JournalSpec => []AcknowledgedSurvive
BY JournalInvAlways, JournalInvSurvive, PTL

=============================================================================
