--------------------------- MODULE RaftNodeProofs ---------------------------
(***************************************************************************)
(* Proofs about Raft for every cluster, every network and every sequence   *)
(* of crashes and restarts.  First: every state is typed, a node votes     *)
(* once in a term, and a term has one leader.  Then: what the *Locked      *)
(* functions, and the steps built of them, do to one node and to the       *)
(* messages.                                                               *)
(***************************************************************************)
EXTENDS Raft, TLAPS, FiniteSetTheorems, WellFoundedInduction

-----------------------------------------------------------------------------
(***************************************************************************)
(* Every reachable state of Raft is typed, for every cluster.              *)
(*                                                                         *)
(* TypeOK is not inductive: a slice of the log is a sequence of entries    *)
(* only between bounds the types do not know, and applyLocked appends to   *)
(* the machine only if nothing committed was applied already.  TypeInv     *)
(* adds those bounds.  There is one lemma per *Locked function, saying it  *)
(* keeps a node Sound, and one per action.  The lemmas also say what a     *)
(* function keeps of a node's vote and term (Keeps), which the election    *)
(* proofs use.                                                             *)
(***************************************************************************)

-----------------------------------------------------------------------------
(* What a handler keeps of a store and of a node, beyond their types. *)

Bounds(d) == /\ 1 <= Len(d.log)
             /\ d.base <= d.commit
             /\ d.commit <= LastIndex(d)

(* Nothing is committed on an open node that has not been applied there. *)
Sound(n) == /\ n \in NodeState
            /\ Bounds(n.disk)
            /\ n.mode # "down" => n.disk.commit <= n.applied

(* A store never goes back to an earlier term nor changes a vote. *)
Later(d, e) == \/ d.term < e.term
               \/ d.term = e.term /\ (d.vote # Nil => e.vote = d.vote)

(* A step from node n to node p that takes no part in an election. *)
Keeps(n, p) ==
  /\ Later(n.disk, p.disk)
  /\ p.ballots = n.ballots /\ p.reigns = n.reigns
  /\ p.role = "candidate" =>
       /\ n.role = "candidate" /\ p.disk.term = n.disk.term
       /\ p.votes = n.votes

-----------------------------------------------------------------------------
(* Operators of DiskStore. *)

(* The hard-state records persistLocked writes. *)
HardState == [term : Nat, vote : Node \cup {Nil}, commit : Nat, from : Nat,
              entries : Seq(Entry)]

(* A non-empty set of naturals has a least member. *)
LEMMA LeastNatural ==
  ASSUME NEW T \in SUBSET Nat, T # {}
  PROVE  \E x \in T : \A y \in T : x <= y
<1> DEFINE R == OpToRel(<, Nat)
<1>1. PICK x \in T : \A y \in T : ~(<<y, x>> \in R)
  BY NatLessThanWellFounded, WFMin
<1>2. ASSUME NEW y \in T PROVE x <= y
  <2>1. x \in Nat /\ y \in Nat
    OBVIOUS
  <2>2. ~(y < x)
    BY <1>1, <2>1 DEF OpToRel
  <2> QED BY <2>1, <2>2
<1> QED BY <1>2

(* Min of FiniteSetsExt picks a member of a non-empty set of naturals. *)
LEMMA MinInSet ==
  ASSUME NEW lo \in Nat, NEW hi \in Nat, NEW S \in SUBSET (lo .. hi), S # {}
  PROVE  Min(S) \in S
<1>1. S \in SUBSET Nat
  OBVIOUS
<1>2. \E x \in S : \A y \in S : x <= y
  BY <1>1, LeastNatural
<1> QED BY <1>2 DEF Min

(* Max picks a member of a non-empty set of naturals below a bound. *)
LEMMA MaxInSet ==
  ASSUME NEW lo \in Nat, NEW hi \in Nat, NEW S \in SUBSET (lo .. hi), S # {}
  PROVE  Max(S) \in S
<1> DEFINE T == {hi - x : x \in S}
<1>1. T \in SUBSET Nat /\ T # {}
  OBVIOUS
<1>2. PICK t \in T : \A y \in T : t <= y
  BY <1>1, LeastNatural
<1>3. PICK x \in S : t = hi - x
  OBVIOUS
<1>4. ASSUME NEW y \in S PROVE x >= y
  <2>1. t <= hi - y
    BY <1>2
  <2>2. x \in Nat /\ y \in Nat
    OBVIOUS
  <2> QED BY <1>3, <2>1, <2>2
<1> QED BY <1>4 DEF Max

(* Concatenation keeps the element type. *)
LEMMA ConcatType ==
  ASSUME NEW s \in Seq(Entry), NEW t \in Seq(Entry)
  PROVE  s \o t \in Seq(Entry) /\ Len(s \o t) = Len(s) + Len(t)
OBVIOUS

(* The fields of a store have the types of durableState. *)
LEMMA StoreTypes ==
  ASSUME NEW d \in Store
  PROVE  /\ d.term \in Nat /\ d.commit \in Nat /\ d.base \in Nat
         /\ d.vote \in Node \cup {Nil}
         /\ d.log \in Seq(Entry) /\ Len(d.log) \in Nat
         /\ d.snap \in Seq(Entry)
BY DEF Store

(* The index of the last entry is at least base and commit. *)
LEMMA BoundsFacts ==
  ASSUME NEW d \in Store, Bounds(d)
  PROVE  /\ LastIndex(d) \in Nat
         /\ LastIndex(d) = d.base + Len(d.log) - 1
         /\ d.base <= LastIndex(d)
         /\ d.base <= d.commit
         /\ d.commit <= LastIndex(d)
BY StoreTypes DEF Bounds, LastIndex

(* entryLocked returns an entry for every index the log holds. *)
LEMMA EntryAtType ==
  ASSUME NEW d \in Store, Bounds(d), NEW k \in Nat,
         d.base <= k, k <= LastIndex(d)
  PROVE  EntryAt(d, k) \in Entry /\ EntryAt(d, k).term \in Nat
<1>1. k - d.base + 1 \in 1 .. Len(d.log)
  BY StoreTypes DEF LastIndex
<1>2. d.log[k - d.base + 1] \in Entry
  BY <1>1, StoreTypes
<1> QED BY <1>2 DEF EntryAt, Entry

LEMMA SliceType ==
  ASSUME NEW s \in Seq(Entry), NEW p \in Nat, NEW q \in Int, 1 <= p, q <= Len(s)
  PROVE  /\ SubSeq(s, p, q) \in Seq(Entry)
         /\ p <= q => Len(SubSeq(s, p, q)) = q - p + 1
OBVIOUS

(* A slice of the log between two held indices is a log. *)
LEMMA EntriesBetweenType ==
  ASSUME NEW d \in Store, Bounds(d), NEW k \in Nat, NEW l \in Int,
         d.base <= k, l <= LastIndex(d)
  PROVE  /\ EntriesBetween(d, k, l) \in Seq(Entry)
         /\ k <= l => Len(EntriesBetween(d, k, l)) = l - k + 1
<1> DEFINE base == d.base
           len == Len(d.log)
           p == k - base + 1
           q == l - base + 1
<1>1. d.log \in Seq(Entry) /\ base \in Nat /\ len \in Nat /\ base <= k /\ l <= base + len - 1
  BY StoreTypes DEF LastIndex
<1>2. EntriesBetween(d, k, l) = SubSeq(d.log, p, q)
  BY DEF EntriesBetween
<1> HIDE DEF base, len
<1>3. /\ p \in Nat /\ 1 <= p /\ q \in Int /\ q <= len
      /\ q - p + 1 = l - k + 1 /\ (k <= l => p <= q)
  BY <1>1
<1> HIDE DEF p, q
<1> QED BY <1>1, <1>2, <1>3, SliceType DEF len

(* diskStore.accept keeps a store sound when validate let the record through. *)
LEMMA AcceptSound ==
  ASSUME NEW d \in Store, Bounds(d),
         NEW r \in HardState, Validate(d, r)
  PROVE  LET e == Accept(d, r)
         IN  /\ e \in Store /\ Bounds(e) /\ Later(d, e)
             /\ e.base = d.base /\ e.commit = r.commit
             /\ e.term = r.term /\ e.vote = r.vote
<1> DEFINE term == r.term
           vote == r.vote
           commit == r.commit
           from == r.from
           entries == r.entries
           e == Accept(d, r)
<1>1. /\ term \in Nat /\ vote \in Node \cup {Nil} /\ commit \in Nat
      /\ from \in Nat /\ entries \in Seq(Entry)
  BY DEF HardState
<1> USE <1>1
<1>2. /\ d.term <= term /\ d.commit <= commit
      /\ term = d.term /\ d.vote # Nil => vote = d.vote
  BY <1>1 DEF Validate
<1>3. CASE from = 0
  <2>1. e = [d EXCEPT !.term = term, !.vote = vote, !.commit = commit]
    BY <1>3, <1>1 DEF Accept, Store
  <2>2. commit <= LastIndex(d)
    BY <1>3, <1>1 DEF Validate
  <2>3. /\ e \in Store /\ e.base = d.base /\ e.commit = commit
        /\ e.term = term /\ e.vote = vote /\ e.log = d.log
    BY <2>1 DEF Store
  <2> HIDE DEF e
  <2>4. Bounds(e)
    BY <1>2, <2>2, <2>3, StoreTypes DEF Bounds, LastIndex
  <2>5. Later(d, e)
    BY <1>2, <2>3, StoreTypes DEF Later
  <2> QED BY <2>3, <2>4, <2>5 DEF e
<1>4. CASE from # 0
  <2> DEFINE keep == SubSeq(d.log, 1, from - d.base)
  <2>1. /\ d.commit < from /\ from <= LastIndex(d) + 1
        /\ commit < from + Len(entries)
    BY <1>4, <1>1 DEF Validate
  <2>2. from - d.base \in 1 .. Len(d.log)
    <3> DEFINE base == d.base
               top == d.commit
               len == Len(d.log)
    <3>1. /\ base \in Nat /\ top \in Nat /\ len \in Nat /\ base <= top
          /\ top < from /\ from <= (base + len - 1) + 1
      BY <2>1, BoundsFacts, StoreTypes DEF LastIndex
    <3> HIDE DEF base, top, len, from
    <3>2. from \in Nat
      BY <1>1
    <3>3. from - base \in 1 .. len
      BY ONLY <3>1, <3>2
    <3> QED BY <3>3 DEF base, len
  <2>3. keep \in Seq(Entry) /\ Len(keep) = from - d.base
    <3>1. d.log \in Seq(Entry)
      BY StoreTypes
    <3> QED BY <2>2, <3>1
  <2>4. e = [d EXCEPT !.term = term, !.vote = vote, !.commit = commit,
                      !.log = keep \o entries]
    BY <1>4, <1>1 DEF Accept, Store
  <2> HIDE DEF keep
  <2>5. /\ keep \o entries \in Seq(Entry)
        /\ Len(keep \o entries) = from - d.base + Len(entries)
    BY <2>3, ConcatType
  <2>6. /\ e \in Store /\ e.base = d.base /\ e.commit = commit
        /\ e.term = term /\ e.vote = vote
        /\ Len(e.log) = from - d.base + Len(entries)
    BY <2>4, <2>5 DEF Store
  <2> HIDE DEF e
  <2>7. Len(entries) \in Nat
    OBVIOUS
  <2>8. Bounds(e)
    <3>1. d.base <= d.commit
      BY DEF Bounds
    <3>2. 1 <= Len(e.log)
      BY <2>2, <2>6, <2>7, StoreTypes
    <3>3. e.base <= e.commit
      BY <1>2, <2>6, <3>1, StoreTypes
    <3>4. e.commit <= e.base + Len(e.log) - 1
      BY <2>1, <2>6, <2>7, StoreTypes
    <3> QED BY <3>2, <3>3, <3>4 DEF Bounds, LastIndex
  <2>9. Later(d, e)
    BY <1>2, <2>6, StoreTypes DEF Later
  <2> QED BY <2>6, <2>8, <2>9 DEF e
<1> QED BY <1>3, <1>4

(* A checkpoint at a committed index keeps the store sound. *)
LEMMA AcceptCheckpointSound ==
  ASSUME NEW d \in Store, Bounds(d), NEW history \in Seq(Entry)
  PROVE  LET e == AcceptCheckpoint(d, history, d.commit)
         IN  /\ e \in Store /\ Bounds(e) /\ Later(d, e)
             /\ e.commit = d.commit /\ e.base = d.commit
             /\ e.term = d.term /\ e.vote = d.vote
<1> DEFINE kept == EntriesBetween(d, d.commit, LastIndex(d))
           e == AcceptCheckpoint(d, history, d.commit)
<1>1. /\ kept \in Seq(Entry)
      /\ Len(kept) = LastIndex(d) - d.commit + 1
  <2>1. /\ LastIndex(d) \in Nat /\ d.commit \in Nat
        /\ d.base <= d.commit /\ d.commit <= LastIndex(d)
    BY BoundsFacts, StoreTypes
  <2> QED BY <2>1, EntriesBetweenType
<1> HIDE DEF kept
<1>2. e = [d EXCEPT !.base = d.commit, !.snap = history, !.log = kept]
  BY DEF AcceptCheckpoint, kept
<1>3. /\ e \in Store /\ e.commit = d.commit /\ e.base = d.commit
      /\ e.term = d.term /\ e.vote = d.vote
      /\ Len(e.log) = LastIndex(d) - d.commit + 1
  BY <1>1, <1>2 DEF Store
<1> HIDE DEF e
<1>4. Bounds(e)
  <2>1. /\ LastIndex(d) \in Nat /\ d.commit \in Nat /\ d.commit <= LastIndex(d)
    BY BoundsFacts, StoreTypes
  <2>2. 1 <= Len(e.log) /\ e.commit <= e.base + Len(e.log) - 1
    BY <1>3, <2>1
  <2>3. e.base <= e.commit
    BY <1>3, <2>1
  <2> QED BY <2>2, <2>3 DEF Bounds, LastIndex
<1>5. Later(d, e)
  BY <1>3 DEF Later
<1> QED BY <1>3, <1>4, <1>5 DEF e

-----------------------------------------------------------------------------
(* The *Locked operators. *)

(* Node p is node n after persistLocked of this term, vote and commit index. *)
Persisted(n, p, term, vote, commit) ==
  /\ p \in NodeState /\ Bounds(p.disk) /\ Later(n.disk, p.disk)
  /\ p.disk.base = n.disk.base
  /\ p.mode = n.mode /\ p.applied = n.applied
  /\ p.votes = n.votes /\ p.ballots = n.ballots /\ p.reigns = n.reigns
  /\ \/ p.failed /\ p.disk = n.disk /\ p.role = "follower"
     \/ /\ p.failed = n.failed /\ p.role = n.role
        /\ p.disk.term = term /\ p.disk.vote = vote /\ p.disk.commit = commit

(* persistLocked keeps the node sound, stored or failed, and touches no     *)
(* history.                                                                 *)
LEMMA PersistSound ==
  ASSUME NEW n \in NodeState, Bounds(n.disk),
         NEW term \in Nat, NEW vote \in Node \cup {Nil}, NEW commit \in Nat,
         NEW from \in Nat, NEW entries \in Seq(Entry)
  PROVE  Persisted(n, PersistLocked(n, term, vote, commit, from, entries),
                   term, vote, commit)
<1> DEFINE r == Record(term, vote, commit, from, entries)
           p == PersistLocked(n, term, vote, commit, from, entries)
<1>1. CASE Validate(n.disk, r)
  <2> DEFINE e == Accept(n.disk, r)
  <2>0. n.disk \in Store
    BY DEF NodeState
  <2>1. /\ e \in Store /\ Bounds(e) /\ Later(n.disk, e) /\ e.base = n.disk.base
        /\ e.term = term /\ e.vote = vote /\ e.commit = commit
    <3>1. /\ r \in HardState
          /\ r.term = term /\ r.vote = vote /\ r.commit = commit
      BY DEF HardState, Record
    <3> HIDE DEF r
    <3> QED BY <1>1, <2>0, <3>1, AcceptSound
  <2> DEFINE own == {k \in 1 .. Len(entries) : entries[k].term = term}
             grown == n.stored \cup {<<from + k - 1, term>> : k \in own}
  <2>2. p = [n EXCEPT !.disk = e, !.stored = grown]
    BY <1>1 DEF PersistLocked, NodeState
  <2>4. grown \in SUBSET (Nat \X Nat)
    <3>1. n.stored \in SUBSET (Nat \X Nat)
      BY DEF NodeState
    <3>2. \A k \in own : from + k - 1 \in Nat
      OBVIOUS
    <3> QED BY <3>1, <3>2
  <2> HIDE DEF e, p, grown
  <2>3. /\ p \in NodeState /\ p.disk = e
        /\ p.mode = n.mode /\ p.applied = n.applied
        /\ p.votes = n.votes /\ p.ballots = n.ballots /\ p.reigns = n.reigns
        /\ p.role = n.role /\ p.failed = n.failed
    BY <2>1, <2>2, <2>4 DEF NodeState
  <2> QED BY <2>1, <2>3 DEF p, Persisted
<1>2. CASE ~Validate(n.disk, r)
  <2>1. p = [n EXCEPT !.failed = TRUE, !.role = "follower", !.leader = Nil,
                      !.pending = {}]
    BY <1>2 DEF PersistLocked
  <2> HIDE DEF p
  <2>2. /\ p \in NodeState /\ p.disk = n.disk
        /\ p.mode = n.mode /\ p.applied = n.applied
        /\ p.votes = n.votes /\ p.ballots = n.ballots /\ p.reigns = n.reigns
        /\ p.role = "follower" /\ p.failed
    BY <2>1 DEF NodeState
  <2>3. Later(n.disk, n.disk)
    BY DEF Later
  <2> QED BY <2>2, <2>3 DEF p, Persisted
<1> QED BY <1>1, <1>2

(* The fields of a node have the types of the Node struct. *)
LEMMA NodeTypes ==
  ASSUME NEW n \in NodeState
  PROVE  /\ n.disk \in Store /\ n.applied \in Nat /\ n.machine \in Seq(Entry)
         /\ n.match \in [Node -> Nat] /\ n.next \in [Node -> Nat]
         /\ n.votes \in SUBSET Node /\ n.reigns \in SUBSET Nat
         /\ n.ballots \in SUBSET (Nat \X Node)
         /\ n.pending \in SUBSET Waiter /\ n.answered \in SUBSET Answer
         /\ n.failed \in BOOLEAN
         /\ n.mode \in {"up", "paused", "down"}
BY DEF NodeState

(* Keeps composes: a handler is a chain of *Locked functions. *)
LEMMA KeepsTransitive ==
  ASSUME NEW n \in NodeState, NEW p \in NodeState, NEW q \in NodeState,
         Keeps(n, p), Keeps(p, q)
  PROVE  Keeps(n, q)
<1>1. /\ n.disk.term \in Nat /\ p.disk.term \in Nat /\ q.disk.term \in Nat
  BY NodeTypes, StoreTypes
<1>2. Later(n.disk, p.disk) /\ Later(p.disk, q.disk)
  BY DEF Keeps
<1>3. Later(n.disk, q.disk)
  BY <1>1, <1>2 DEF Later
<1> QED BY <1>3 DEF Keeps

(* maybeSnapshotLocked keeps the node sound. *)
LEMMA MaybeSnapshotSound ==
  ASSUME NEW n \in NodeState, Bounds(n.disk), n.disk.commit <= n.applied,
         NEW i \in Node
  PROVE  LET p == MaybeSnapshotLocked(n, i)
         IN  /\ Sound(p) /\ Keeps(n, p) /\ p.mode = n.mode
             /\ p.disk.term = n.disk.term /\ p.disk.commit = n.disk.commit
             /\ p.role \in {n.role, "follower"}
<1> DEFINE p == MaybeSnapshotLocked(n, i)
<1>0. n.disk \in Store /\ n.machine \in Seq(Entry)
  BY NodeTypes
<1>1. Later(n.disk, n.disk)
  BY DEF Later
<1>2. CASE ~Compactable(n, i)
  BY <1>1, <1>2 DEF MaybeSnapshotLocked, Sound, Keeps
<1>3. CASE Compactable(n, i) /\ ValidateCheckpoint(n.disk, n.disk.commit)
  <2> DEFINE e == AcceptCheckpoint(n.disk, n.machine, n.disk.commit)
  <2>1. /\ e \in Store /\ Bounds(e) /\ Later(n.disk, e)
        /\ e.commit = n.disk.commit /\ e.term = n.disk.term
    BY <1>0, AcceptCheckpointSound
  <2>2. p = [n EXCEPT !.disk = e]
    BY <1>3 DEF MaybeSnapshotLocked, NodeState
  <2> HIDE DEF e, p
  <2>3. /\ p \in NodeState /\ p.disk = e /\ p.applied = n.applied
        /\ p.mode = n.mode /\ p.role = n.role
        /\ p.votes = n.votes /\ p.ballots = n.ballots /\ p.reigns = n.reigns
    BY <2>1, <2>2 DEF NodeState
  <2> QED BY <2>1, <2>3 DEF p, Sound, Keeps
<1>4. CASE Compactable(n, i) /\ ~ValidateCheckpoint(n.disk, n.disk.commit)
  <2>1. p = [n EXCEPT !.failed = TRUE, !.role = "follower", !.leader = Nil,
                      !.pending = {}]
    BY <1>4 DEF MaybeSnapshotLocked
  <2> HIDE DEF p
  <2>2. /\ p \in NodeState /\ p.disk = n.disk /\ p.applied = n.applied
        /\ p.mode = n.mode /\ p.role = "follower"
        /\ p.votes = n.votes /\ p.ballots = n.ballots /\ p.reigns = n.reigns
    BY <2>1 DEF NodeState
  <2> QED BY <1>1, <2>2 DEF p, Sound, Keeps
<1> QED BY <1>2, <1>3, <1>4

(* applyLocked keeps the node sound and leaves nothing committed unapplied. *)
LEMMA ApplySound ==
  ASSUME NEW n \in NodeState, Bounds(n.disk), n.disk.base <= n.applied,
         NEW i \in Node
  PROVE  LET p == ApplyLocked(n, i)
         IN  /\ Sound(p) /\ Keeps(n, p) /\ p.mode = n.mode
             /\ p.disk.term = n.disk.term /\ p.disk.commit = n.disk.commit
             /\ p.role \in {n.role, "follower"}
<1> DEFINE d == n.disk
           done == {w \in n.pending : n.applied < w.index /\ w.index <= d.commit}
           answer(w) == [index |-> w.index, cmd |-> w.cmd,
                         before |-> w.before, entry |-> EntryAt(d, w.index)]
           new == {answer(w) : w \in done}
           more == EntriesBetween(d, n.applied + 1, d.commit)
           a == [n EXCEPT !.applied = Larger(@, d.commit),
                          !.machine = @ \o more,
                          !.pending = @ \ done,
                          !.answered = @ \cup new]
<1>1. /\ d \in Store /\ n.applied \in Nat /\ n.machine \in Seq(Entry)
      /\ n.pending \in SUBSET Waiter /\ n.answered \in SUBSET Answer
  BY NodeTypes
<1>2. /\ d.base \in Nat /\ d.commit \in Nat /\ LastIndex(d) \in Nat
      /\ d.commit <= LastIndex(d)
  BY <1>1, StoreTypes, BoundsFacts
<1>3. more \in Seq(Entry)
  BY <1>1, <1>2, EntriesBetweenType
<1>4. n.machine \o more \in Seq(Entry)
  BY <1>1, <1>3, ConcatType
<1>5. new \in SUBSET Answer
  <2> SUFFICES ASSUME NEW w \in done PROVE answer(w) \in Answer
    OBVIOUS
  <2>1. w \in Waiter /\ n.applied < w.index /\ w.index <= d.commit
    BY <1>1
  <2>2. w.index \in Nat /\ w.cmd \in Operation /\ w.before \in SUBSET Nat
    BY <2>1 DEF Waiter
  <2>3. EntryAt(d, w.index) \in Entry
    <3>1. d.base <= w.index /\ w.index <= LastIndex(d)
      BY <1>1, <1>2, <2>1, <2>2
    <3> QED BY <1>1, <2>2, <3>1, EntryAtType
  <2> QED BY <2>2, <2>3 DEF Answer
<1>6. Larger(n.applied, d.commit) \in Nat /\ d.commit <= Larger(n.applied, d.commit)
  BY <1>1, <1>2 DEF Larger
<1>7. n.pending \ done \in SUBSET Waiter
  BY <1>1
<1>8. ApplyLocked(n, i) = MaybeSnapshotLocked(a, i)
  BY DEF ApplyLocked
<1> HIDE DEF new, more, done
<1>9. /\ a \in NodeState /\ a.disk = d
      /\ a.applied = Larger(n.applied, d.commit)
      /\ a.mode = n.mode /\ a.role = n.role
      /\ a.votes = n.votes /\ a.ballots = n.ballots /\ a.reigns = n.reigns
  BY <1>1, <1>4, <1>5, <1>6, <1>7 DEF NodeState
<1> HIDE DEF a
<1>10. LET p == MaybeSnapshotLocked(a, i)
       IN  /\ Sound(p) /\ Keeps(a, p) /\ p.mode = a.mode
           /\ p.disk.term = a.disk.term /\ p.disk.commit = a.disk.commit
           /\ p.role \in {a.role, "follower"}
  BY <1>6, <1>9, MaybeSnapshotSound
<1> QED BY <1>8, <1>9, <1>10 DEF Keeps

(* What a leader may commit lies between its commit index and its last entry. *)
LEMMA QuorateType ==
  ASSUME NEW n \in NodeState, Bounds(n.disk), NEW i \in Node,
         Quorate(n, i) # {}
  PROVE  /\ Max(Quorate(n, i)) \in Nat
         /\ n.disk.commit < Max(Quorate(n, i))
         /\ Max(Quorate(n, i)) <= LastIndex(n.disk)
<1>1. n.disk \in Store
  BY NodeTypes
<1>2. n.disk.commit \in Nat /\ LastIndex(n.disk) \in Nat
  BY <1>1, StoreTypes, BoundsFacts
<1>3. Quorate(n, i) \in SUBSET ((n.disk.commit + 1) .. LastIndex(n.disk))
  BY DEF Quorate
<1>4. Max(Quorate(n, i)) \in Quorate(n, i)
  <2>1. n.disk.commit + 1 \in Nat
    BY <1>2
  <2> QED BY <1>2, <1>3, <2>1, MaxInSet
<1> QED BY <1>2, <1>3, <1>4

(* advanceCommitLocked keeps the node sound. *)
LEMMA AdvanceSound ==
  ASSUME NEW n, Sound(n), NEW i \in Node
  PROVE  LET p == AdvanceCommitLocked(n, i)
         IN  /\ Sound(p) /\ Keeps(n, p) /\ p.mode = n.mode
             /\ p.disk.term = n.disk.term /\ p.role \in {n.role, "follower"}
<1> DEFINE q == AdvanceCommitLocked(n, i)
           k == Max(Quorate(n, i))
           p == PersistLocked(n, n.disk.term, n.disk.vote, k, 0, <<>>)
<1>1. /\ n \in NodeState /\ Bounds(n.disk) /\ n.disk \in Store
      /\ n.applied \in Nat
  BY NodeTypes DEF Sound
<1>2. Later(n.disk, n.disk)
  BY DEF Later
<1>3. CASE n.role # "leader" \/ ~Available(n) \/ Quorate(n, i) = {}
  <2>1. q = n
    BY <1>3 DEF AdvanceCommitLocked
  <2> QED BY <1>2, <2>1 DEF Keeps
<1>4. CASE n.role = "leader" /\ Available(n) /\ Quorate(n, i) # {}
  <2>1. k \in Nat
    BY <1>1, <1>4, QuorateType
  <2>2. n.disk.term \in Nat /\ n.disk.vote \in Node \cup {Nil}
        /\ n.disk.base \in Nat /\ n.disk.commit \in Nat
        /\ n.disk.base <= n.disk.commit
    BY <1>1, StoreTypes, BoundsFacts
  <2>3. n.disk.commit <= n.applied
    BY <1>4 DEF Sound, Available
  <2> HIDE DEF k
  <2>4. /\ p \in NodeState /\ Bounds(p.disk) /\ Later(n.disk, p.disk)
        /\ p.disk.base = n.disk.base
        /\ p.mode = n.mode /\ p.applied = n.applied
        /\ p.votes = n.votes /\ p.ballots = n.ballots /\ p.reigns = n.reigns
        /\ \/ p.failed /\ p.disk = n.disk /\ p.role = "follower"
           \/ p.failed = n.failed /\ p.role = n.role /\ p.disk.term = n.disk.term
    <3>1. <<>> \in Seq(Entry) /\ 0 \in Nat
      OBVIOUS
    <3>2. Persisted(n, p, n.disk.term, n.disk.vote, k)
      BY <1>1, <2>1, <2>2, <3>1, PersistSound
    <3> HIDE DEF p
    <3> QED BY <3>2 DEF Persisted
  <2>5. q = IF p.failed THEN p ELSE ApplyLocked(p, i)
    BY <1>4 DEF AdvanceCommitLocked, k
  <2> HIDE DEF p
  <2>6. Keeps(n, p) /\ p.disk.term = n.disk.term /\ p.role \in {n.role, "follower"}
    BY <2>4 DEF Keeps
  <2>7. CASE p.failed
    <3>1. q = p
      BY <2>5, <2>7
    <3>2. ~n.failed
      BY <1>4 DEF Available
    <3>3. p.disk = n.disk
      BY <2>4, <2>7, <3>2
    <3>4. Sound(p)
      BY <2>3, <2>4, <3>3 DEF Sound
    <3> QED BY <2>4, <2>6, <3>1, <3>4
  <2>8. CASE ~p.failed
    <3> DEFINE b == ApplyLocked(p, i)
    <3>1. q = b
      BY <2>5, <2>8
    <3>2. p.disk.base <= p.applied
      BY <1>1, <2>2, <2>3, <2>4
    <3>3. /\ Sound(b) /\ Keeps(p, b) /\ b.mode = p.mode
          /\ b.disk.term = p.disk.term /\ b.role \in {p.role, "follower"}
      BY <2>4, <3>2, ApplySound
    <3> HIDE DEF b, q
    <3>4. Keeps(n, b)
      BY <1>1, <2>4, <2>6, <3>3, KeepsTransitive DEF Sound
    <3> QED BY <2>4, <2>6, <3>1, <3>3, <3>4 DEF q
  <2> QED BY <2>7, <2>8
<1> QED BY <1>3, <1>4

(* stepDownLocked keeps the node sound and never goes back a term. *)
LEMMA StepDownSound ==
  ASSUME NEW n, Sound(n), ~n.failed,
         NEW term \in Nat, NEW leader \in Node \cup {Nil}
  PROVE  LET p == StepDownLocked(n, term, leader)
         IN  /\ Sound(p) /\ Keeps(n, p) /\ p.mode = n.mode
             /\ p.role = "follower"
             /\ p.failed \/ p.disk.term = Larger(term, n.disk.term)
<1> DEFINE q == StepDownLocked(n, term, leader)
           p == IF term > n.disk.term
                  THEN PersistLocked(n, term, Nil, n.disk.commit, 0, <<>>)
                  ELSE n
           f == [p EXCEPT !.role = "follower", !.leader = leader, !.pending = {}]
<1>1. /\ n \in NodeState /\ Bounds(n.disk) /\ n.disk \in Store
      /\ n.applied \in Nat /\ n.failed \in BOOLEAN
  BY NodeTypes DEF Sound
<1>2. n.disk.term \in Nat /\ n.disk.commit \in Nat
  BY <1>1, StoreTypes
<1>3. /\ p \in NodeState /\ Bounds(p.disk) /\ Later(n.disk, p.disk)
      /\ p.disk.commit = n.disk.commit
      /\ p.mode = n.mode /\ p.applied = n.applied
      /\ p.votes = n.votes /\ p.ballots = n.ballots /\ p.reigns = n.reigns
      /\ p.failed => p.role = "follower"
      /\ ~p.failed => p.disk.term = Larger(term, n.disk.term)
  <2>1. CASE term > n.disk.term
    <3>1. <<>> \in Seq(Entry) /\ 0 \in Nat /\ Nil \in Node \cup {Nil}
      OBVIOUS
    <3> DEFINE b == PersistLocked(n, term, Nil, n.disk.commit, 0, <<>>)
    <3>2. /\ b \in NodeState /\ Bounds(b.disk) /\ Later(n.disk, b.disk)
          /\ b.mode = n.mode /\ b.applied = n.applied
          /\ b.votes = n.votes /\ b.ballots = n.ballots /\ b.reigns = n.reigns
          /\ \/ b.failed /\ b.disk = n.disk /\ b.role = "follower"
             \/ /\ b.failed = n.failed /\ b.role = n.role
                /\ b.disk.term = term /\ b.disk.commit = n.disk.commit
      <4>1. Persisted(n, b, term, Nil, n.disk.commit)
        BY <1>1, <1>2, <3>1, PersistSound
      <4> HIDE DEF b
      <4> QED BY <4>1 DEF Persisted
    <3>3. p = b
      BY <2>1
    <3>4. Larger(term, n.disk.term) = term
      BY <1>2, <2>1 DEF Larger
    <3> HIDE DEF b, p
    <3> QED BY <3>2, <3>3, <3>4
  <2>2. CASE ~(term > n.disk.term)
    <3>1. p = n
      BY <2>2
    <3>2. Larger(term, n.disk.term) = n.disk.term
      BY <1>2, <2>2 DEF Larger
    <3> HIDE DEF p
    <3> QED BY <1>1, <3>1, <3>2 DEF Later
  <2> QED BY <2>1, <2>2
<1>4. q = IF p.failed THEN p ELSE f
  BY DEF StepDownLocked
<1> HIDE DEF p
<1>5. p.mode # "down" => p.disk.commit <= p.applied
  BY <1>3 DEF Sound
<1>6. CASE p.failed
  <2>1. q = p
    BY <1>4, <1>6
  <2> HIDE DEF q
  <2> QED BY <1>3, <1>5, <1>6, <2>1 DEF Sound, Keeps, q
<1>7. CASE ~p.failed
  <2>1. q = f
    BY <1>4, <1>7
  <2>2. /\ f \in NodeState /\ f.disk = p.disk /\ f.role = "follower"
        /\ f.mode = p.mode /\ f.applied = p.applied
        /\ f.votes = p.votes /\ f.ballots = p.ballots /\ f.reigns = p.reigns
    BY <1>3 DEF NodeState
  <2> HIDE DEF q, f
  <2> QED BY <1>3, <1>5, <1>7, <2>1, <2>2 DEF Sound, Keeps, q
<1> QED BY <1>6, <1>7

(* Node p is node n after it won the term its disk holds. *)
Crowned(n, p) ==
  /\ Sound(p) /\ Later(n.disk, p.disk) /\ p.mode = n.mode
  /\ p.ballots = n.ballots /\ p.reigns = n.reigns \cup {n.disk.term}
  /\ p.disk.term = n.disk.term /\ p.role # "candidate"

(* becomeLeaderLocked keeps the node sound and adds one reign. *)
LEMMA BecomeLeaderSound ==
  ASSUME NEW n, Sound(n), ~n.failed, NEW i \in Node
  PROVE  Crowned(n, BecomeLeaderLocked(n, i))
<1> DEFINE d == n.disk
           last == LastIndex(d)
           l == [n EXCEPT !.role = "leader", !.leader = i,
                          !.next = [j \in Node |-> last + 1],
                          !.match = [j \in Node |-> 0],
                          !.reigns = @ \cup {d.term}]
           barrier == [term |-> d.term, cmd |-> Barrier]
           p == PersistLocked(l, d.term, d.vote, d.commit, last + 1, <<barrier>>)
           m == [p EXCEPT !.match[i] = last + 1]
           a == AdvanceCommitLocked(m, i)
           b == BecomeLeaderLocked(n, i)
<1>1. n \in NodeState /\ Bounds(d) /\ d \in Store /\ n.reigns \in SUBSET Nat
  BY NodeTypes DEF Sound
<1>2. /\ d.term \in Nat /\ d.commit \in Nat /\ d.vote \in Node \cup {Nil}
      /\ last + 1 \in Nat
  BY <1>1, StoreTypes, BoundsFacts
<1>3. <<barrier>> \in Seq(Entry)
  BY <1>2 DEF Entry, Operation
<1>4. b = IF p.failed THEN p ELSE a
  BY DEF BecomeLeaderLocked
<1> HIDE DEF last, barrier
<1>5. /\ l \in NodeState /\ l.disk = d /\ l.mode = n.mode
      /\ l.applied = n.applied /\ l.failed = n.failed
      /\ l.votes = n.votes /\ l.ballots = n.ballots
      /\ l.reigns = n.reigns \cup {d.term} /\ l.role = "leader"
  BY <1>1, <1>2 DEF NodeState
<1> HIDE DEF l
<1>6. Persisted(l, p, d.term, d.vote, d.commit)
  BY <1>1, <1>2, <1>3, <1>5, PersistSound
<1> HIDE DEF p
<1>7. /\ p \in NodeState /\ Bounds(p.disk) /\ Later(d, p.disk)
      /\ p.mode = n.mode /\ p.applied = n.applied
      /\ p.disk.commit = d.commit /\ p.disk.term = d.term
      /\ p.votes = n.votes /\ p.ballots = n.ballots
      /\ p.reigns = n.reigns \cup {d.term} /\ p.role # "candidate"
  BY <1>5, <1>6 DEF Persisted
<1>8. Sound(p)
  BY <1>7 DEF Sound
<1>9. /\ m \in NodeState /\ m.disk = p.disk /\ m.mode = p.mode
      /\ m.applied = p.applied /\ m.votes = p.votes
      /\ m.ballots = p.ballots /\ m.reigns = p.reigns /\ m.role = p.role
  BY <1>2, <1>7 DEF NodeState
<1> HIDE DEF m
<1>10. Sound(m)
  BY <1>8, <1>9 DEF Sound
<1>11. /\ Sound(a) /\ Keeps(m, a) /\ a.mode = m.mode
       /\ a.disk.term = m.disk.term /\ a.role \in {m.role, "follower"}
  BY <1>10, AdvanceSound
<1> HIDE DEF a, b
<1>12. Crowned(n, p)
  BY <1>7, <1>8 DEF Crowned
<1>13. Crowned(n, a)
  <2>1. Later(d, a.disk)
    <3>1. /\ d.term \in Nat /\ p.disk.term \in Nat /\ a.disk.term \in Nat
      BY <1>1, <1>7, <1>11, NodeTypes, StoreTypes DEF Sound
    <3>2. Later(d, p.disk) /\ Later(p.disk, a.disk)
      BY <1>7, <1>9, <1>11 DEF Keeps
    <3> QED BY <3>1, <3>2 DEF Later
  <2> QED BY <1>7, <1>9, <1>11, <2>1 DEF Crowned, Keeps
<1> QED BY <1>4, <1>12, <1>13 DEF b

(* Node p is node n after it started an election of its own. *)
Campaigned(n, p, i) ==
  /\ Sound(p) /\ p.mode = n.mode
  /\ \/ /\ Later(n.disk, p.disk) /\ p.role = "follower"
        /\ p.votes = n.votes /\ p.ballots = n.ballots /\ p.reigns = n.reigns
     \/ /\ p.disk.term = n.disk.term + 1 /\ p.disk.vote = i
        /\ p.ballots = n.ballots \cup {<<n.disk.term + 1, i>>}
        /\ p.role = "candidate" => p.votes = {i}
        /\ \/ p.reigns = n.reigns
           \/ /\ Majority({i}) /\ p.role # "candidate"
              /\ p.reigns = n.reigns \cup {n.disk.term + 1}

(* startElectionLocked keeps the node sound; its ballot is for itself in a  *)
(* new term.                                                                *)
LEMMA StartElectionSound ==
  ASSUME NEW n, Sound(n), ~n.failed, NEW i \in Node
  PROVE  Campaigned(n, StartElectionLocked(n, i), i)
<1> DEFINE term == n.disk.term + 1
           p == PersistLocked(n, term, i, n.disk.commit, 0, <<>>)
           c == [p EXCEPT !.role = "candidate", !.leader = Nil, !.votes = {i},
                          !.ballots = @ \cup {<<term, i>>}]
           b == BecomeLeaderLocked(c, i)
           q == StartElectionLocked(n, i)
<1>1. n \in NodeState /\ Bounds(n.disk) /\ n.disk \in Store
  BY NodeTypes DEF Sound
<1>2. term \in Nat /\ n.disk.commit \in Nat /\ n.disk.term \in Nat
  BY <1>1, StoreTypes
<1>3. <<>> \in Seq(Entry) /\ 0 \in Nat
  OBVIOUS
<1>4. q = IF p.failed THEN p ELSE IF Majority({i}) THEN b ELSE c
  BY DEF StartElectionLocked
<1> HIDE DEF term
<1>5. Persisted(n, p, term, i, n.disk.commit)
  BY <1>1, <1>2, <1>3, PersistSound
<1> HIDE DEF p
<1>6. p \in NodeState /\ Bounds(p.disk) /\ p.mode = n.mode /\ p.applied = n.applied
      /\ p.disk.commit = n.disk.commit /\ p.ballots \in SUBSET (Nat \X Node)
      /\ p.votes = n.votes /\ p.ballots = n.ballots /\ p.reigns = n.reigns
      /\ Later(n.disk, p.disk)
  BY <1>5, NodeTypes DEF Persisted
<1>7. Sound(p)
  BY <1>6 DEF Sound
<1>8. CASE p.failed
  <2>1. p.role = "follower" /\ q = p
    BY <1>4, <1>5, <1>8 DEF Persisted
  <2> HIDE DEF q
  <2> QED BY <1>6, <1>7, <2>1 DEF Campaigned, q
<1>9. CASE ~p.failed
  <2>1. p.disk.term = term /\ p.disk.vote = i
    BY <1>5, <1>9 DEF Persisted
  <2>2. /\ c \in NodeState /\ c.disk = p.disk /\ c.mode = p.mode
        /\ c.applied = p.applied /\ c.failed = p.failed
        /\ c.votes = {i} /\ c.ballots = p.ballots \cup {<<term, i>>}
        /\ c.reigns = p.reigns /\ c.role = "candidate"
    <3> DEFINE grown == p.ballots \cup {<<term, i>>}
    <3>1. grown \in SUBSET (Nat \X Node)
      BY <1>2, <1>6
    <3>2. c = [p EXCEPT !.role = "candidate", !.leader = Nil, !.votes = {i},
                        !.ballots = grown]
      OBVIOUS
    <3> HIDE DEF grown, c
    <3>3. /\ c \in NodeState /\ c.disk = p.disk /\ c.mode = p.mode
          /\ c.applied = p.applied /\ c.failed = p.failed
          /\ c.votes = {i} /\ c.ballots = grown
          /\ c.reigns = p.reigns /\ c.role = "candidate"
      BY <1>6, <3>1, <3>2 DEF NodeState
    <3> QED BY <3>3 DEF grown
  <2> HIDE DEF c
  <2>3. Sound(c) /\ ~c.failed
    BY <1>7, <1>9, <2>2 DEF Sound
  <2>4. CASE ~Majority({i})
    <3>1. q = c
      BY <1>4, <1>9, <2>4
    <3> HIDE DEF q
    <3> QED BY <1>6, <2>1, <2>2, <2>3, <3>1 DEF Campaigned, q, term
  <2>5. CASE Majority({i})
    <3>1. q = b
      BY <1>4, <1>9, <2>5
    <3>2. Crowned(c, b)
      BY <2>3, BecomeLeaderSound
    <3> HIDE DEF b, q
    <3>3. b.disk.term = term /\ b.disk.vote = i
      <4>1. i # Nil
        BY NodeAssumption
      <4> QED BY <1>2, <2>1, <2>2, <3>2, <4>1 DEF Crowned, Later
    <3> QED BY <1>6, <2>1, <2>2, <2>5, <3>1, <3>2, <3>3
            DEF Crowned, Campaigned, q, term
  <2> QED BY <2>4, <2>5
<1> QED BY <1>8, <1>9

(* A stopped node keeps its store and its histories only. *)
LEMMA StoppedType ==
  ASSUME NEW n \in NodeState, NEW d \in Store
  PROVE  LET p == [Stopped(n) EXCEPT !.disk = d]
         IN  /\ p \in NodeState /\ p.disk = d /\ p.mode = "down"
             /\ p.ballots = n.ballots /\ p.reigns = n.reigns
             /\ p.role = "follower"
<1> DEFINE zero == [j \in Node |-> 0]
           empty == <<>>
           p == [Stopped(n) EXCEPT !.disk = d]
<1>1. zero \in [Node -> Nat] /\ empty \in Seq(Entry)
  OBVIOUS
<1>2. p = [n EXCEPT !.mode = "down", !.failed = FALSE, !.role = "follower",
                    !.leader = Nil, !.votes = {}, !.next = zero,
                    !.match = zero, !.pending = {}, !.applied = 0,
                    !.machine = empty, !.disk = d]
  BY DEF Stopped
<1> HIDE DEF zero, empty, p
<1>3. /\ p \in NodeState /\ p.disk = d /\ p.mode = "down"
      /\ p.ballots = n.ballots /\ p.reigns = n.reigns /\ p.role = "follower"
  BY <1>1, <1>2 DEF NodeState
<1> QED BY <1>3 DEF p

(* Node p is node n after OpenWithRuntime. *)
Reopened(n, p, i) ==
  /\ Sound(p) /\ Later(n.disk, p.disk) /\ p.ballots = n.ballots
  /\ p.role # "candidate"
  /\ p.reigns = n.reigns \/ FixedLeader = i

(* OpenWithRuntime makes a sound node of a sound store. *)
LEMMA OpenedSound ==
  ASSUME NEW n, Sound(n), NEW i \in Node
  PROVE  Reopened(n, Opened(n, i), i)
<1> DEFINE d == n.disk
           zero == [j \in Node |-> 0]
           s == [Stopped(n) EXCEPT !.mode = "up", !.applied = d.base,
                                   !.machine = d.snap]
           r == ApplyLocked(s, i)
           p == PersistLocked(r, d.term + 1, i, d.commit, 0, <<>>)
           b == BecomeLeaderLocked(p, i)
           q == Opened(n, i)
<1>1. n \in NodeState /\ Bounds(d) /\ d \in Store
  BY NodeTypes DEF Sound
<1>2. /\ d.base \in Nat /\ d.snap \in Seq(Entry) /\ d.term \in Nat
      /\ d.term + 1 \in Nat /\ d.commit \in Nat
  BY <1>1, StoreTypes
<1>3. q = IF FixedLeader # i THEN r ELSE IF p.failed THEN p ELSE b
  BY DEF Opened
<1>4. /\ s \in NodeState /\ s.disk = d /\ s.mode = "up" /\ s.applied = d.base
      /\ s.ballots = n.ballots /\ s.reigns = n.reigns /\ s.role = "follower"
  <2>1. zero \in [Node -> Nat] /\ <<>> \in Seq(Entry)
    OBVIOUS
  <2> DEFINE s0 == Stopped(n)
  <2>2. s0 = [n EXCEPT !.mode = "down", !.failed = FALSE, !.role = "follower",
                       !.leader = Nil, !.votes = {}, !.next = zero,
                       !.match = zero, !.pending = {}, !.applied = 0,
                       !.machine = <<>>]
    BY DEF Stopped
  <2>3. s = [s0 EXCEPT !.mode = "up", !.applied = d.base, !.machine = d.snap]
    OBVIOUS
  <2> HIDE DEF zero, s, s0
  <2>4. /\ s0 \in NodeState /\ s0.disk = d /\ s0.role = "follower"
        /\ s0.ballots = n.ballots /\ s0.reigns = n.reigns
    BY ONLY <1>1, <2>1, <2>2 DEF NodeState
  <2> QED BY ONLY <1>2, <2>3, <2>4 DEF NodeState
<1> HIDE DEF s, zero
<1>5. /\ Sound(r) /\ Keeps(s, r) /\ r.mode = s.mode
      /\ r.disk.term = s.disk.term /\ r.disk.commit = s.disk.commit
      /\ r.role \in {s.role, "follower"}
  <2>1. s.disk.base <= s.applied
    BY <1>2, <1>4
  <2> QED BY <1>1, <1>4, <2>1, ApplySound
<1> HIDE DEF r
<1>6. Later(d, r.disk) /\ r.ballots = n.ballots /\ r.reigns = n.reigns
      /\ r.role = "follower"
  BY <1>4, <1>5 DEF Keeps
<1>7. CASE FixedLeader # i
  <2>1. q = r
    BY <1>3, <1>7
  <2> HIDE DEF q
  <2> QED BY <1>5, <1>6, <2>1 DEF Reopened, q
<1>8. CASE FixedLeader = i
  <2>1. r \in NodeState /\ Bounds(r.disk) /\ <<>> \in Seq(Entry) /\ 0 \in Nat
    BY <1>5 DEF Sound
  <2>2. Persisted(r, p, d.term + 1, i, d.commit)
    BY <1>2, <2>1, PersistSound
  <2> HIDE DEF p
  <2>3. /\ p \in NodeState /\ Bounds(p.disk) /\ Later(r.disk, p.disk)
        /\ p.ballots = n.ballots /\ p.role # "candidate"
    BY <1>6, <2>2 DEF Persisted
  <2>4. /\ d.term \in Nat /\ r.disk.term \in Nat /\ p.disk.term \in Nat
    BY <1>1, <2>1, <2>3, NodeTypes, StoreTypes
  <2>5. Later(d, p.disk)
    BY <1>6, <2>3, <2>4 DEF Later
  <2>6. Sound(p)
    <3>1. p.disk.commit <= p.applied
      <4>1. r.disk.commit <= r.applied
        BY <1>4, <1>5 DEF Sound
      <4> QED BY <1>4, <1>5, <2>2, <4>1 DEF Persisted
    <3> QED BY <2>3, <3>1 DEF Sound
  <2>7. CASE p.failed
    <3>1. q = p
      BY <1>3, <1>8, <2>7
    <3> HIDE DEF q
    <3> QED BY <1>8, <2>3, <2>5, <2>6, <3>1 DEF Reopened, q
  <2>8. CASE ~p.failed
    <3>1. q = b
      BY <1>3, <1>8, <2>8
    <3>2. Crowned(p, b)
      BY <2>6, <2>8, BecomeLeaderSound
    <3> HIDE DEF q, b
    <3>3. Later(d, b.disk)
      <4>1. b.disk.term \in Nat
        BY <3>2, NodeTypes, StoreTypes DEF Crowned, Sound
      <4> QED BY <2>4, <2>5, <3>2, <4>1 DEF Crowned, Later
    <3> QED BY <1>8, <2>3, <3>1, <3>2, <3>3 DEF Reopened, Crowned, q
  <2> QED BY <2>7, <2>8
<1> QED BY <1>7, <1>8

(* Node h.node is node n after RequestVote of m. *)
VoteCast(n, h, m) ==
  LET p == h.node
  IN  /\ Sound(p) /\ Later(n.disk, p.disk) /\ h.granted \in BOOLEAN
      /\ p.reigns = n.reigns
      /\ p.role = "candidate" =>
           /\ n.role = "candidate" /\ p.disk.term = n.disk.term
           /\ p.votes = n.votes
      /\ \/ p.ballots = n.ballots /\ (h.granted => p.failed)
         \/ /\ p.ballots = n.ballots \cup {<<m.term, m.from>>}
            /\ p.disk.term = m.term /\ p.disk.vote = m.from

(* RequestVote keeps the node sound; what it grants it has recorded. *)
LEMMA VoteHandledSound ==
  ASSUME NEW n, Sound(n), ~n.failed, NEW m \in VoteRequest,
         m.term >= n.disk.term
  PROVE  VoteCast(n, VoteHandled(n, m), m)
<1> DEFINE p == IF m.term > n.disk.term THEN StepDownLocked(n, m.term, Nil) ELSE n
           granted == ~p.failed /\ MayVote(p.disk, m)
           b == PersistLocked(p, m.term, m.from, p.disk.commit, 0, <<>>)
           q == IF granted /\ p.disk.vote = Nil THEN b ELSE p
           grown == q.ballots \cup {<<m.term, m.from>>}
           v == [q EXCEPT !.ballots = grown]
           h == VoteHandled(n, m)
<1>1. m.term \in Nat /\ m.from \in Node
  BY DEF VoteRequest
<1>2. n \in NodeState /\ n.disk.term \in Nat /\ n.failed \in BOOLEAN
  BY NodeTypes, StoreTypes DEF Sound
<1>3. /\ Sound(p) /\ Keeps(n, p) /\ (~p.failed => p.disk.term = m.term)
      /\ p.failed => p.role = "follower"
  <2>1. CASE m.term > n.disk.term
    <3> DEFINE w == StepDownLocked(n, m.term, Nil)
    <3>1. p = w
      BY <2>1
    <3>2. /\ Sound(w) /\ Keeps(n, w) /\ w.role = "follower"
          /\ w.failed \/ w.disk.term = Larger(m.term, n.disk.term)
      BY <1>1, StepDownSound
    <3>3. Larger(m.term, n.disk.term) = m.term
      BY <1>1, <1>2, <2>1 DEF Larger
    <3> HIDE DEF w, p
    <3> QED BY <3>1, <3>2, <3>3
  <2>2. CASE ~(m.term > n.disk.term)
    <3>1. p = n /\ m.term = n.disk.term
      BY <1>1, <1>2, <2>2
    <3> HIDE DEF p
    <3> QED BY <3>1 DEF Keeps, Later
  <2> QED BY <2>1, <2>2
<1>4. h = [node |-> IF granted /\ ~q.failed THEN v ELSE q, granted |-> granted]
  BY DEF VoteHandled
<1> HIDE DEF p
<1>5. p \in NodeState /\ p.disk \in Store /\ Bounds(p.disk) /\ p.disk.commit \in Nat
      /\ p.disk.term \in Nat /\ p.disk.vote \in Node \cup {Nil}
  BY <1>3, NodeTypes, StoreTypes DEF Sound
<1>6. granted => p.disk.vote \in {Nil, m.from}
  BY DEF MayVote
<1>7. granted \in BOOLEAN /\ (granted => ~p.failed)
  OBVIOUS
<1> HIDE DEF granted
<1>8. /\ Sound(q) /\ Keeps(n, q)
      /\ granted /\ ~q.failed => q.disk.term = m.term /\ q.disk.vote = m.from
  <2>1. CASE granted /\ p.disk.vote = Nil
    <3>1. q = b
      BY <2>1
    <3>2. Persisted(p, b, m.term, m.from, p.disk.commit)
      <4>1. <<>> \in Seq(Entry) /\ 0 \in Nat
        OBVIOUS
      <4> QED BY <1>1, <1>5, <4>1, PersistSound
    <3> HIDE DEF b, q
    <3>3. Sound(b)
      BY <1>3, <3>2 DEF Persisted, Sound
    <3>4. p.disk.term = m.term
      BY <1>3, <1>7, <2>1
    <3>5. Keeps(p, b)
      BY <3>2, <3>4 DEF Persisted, Keeps
    <3>6. Keeps(n, b)
      BY <1>2, <1>3, <1>5, <3>3, <3>5, KeepsTransitive DEF Sound
    <3> QED BY <3>1, <3>2, <3>3, <3>6 DEF Persisted
  <2>2. CASE ~(granted /\ p.disk.vote = Nil)
    <3>1. q = p
      BY <2>2
    <3> HIDE DEF q
    <3> QED BY <1>3, <1>6, <1>7, <2>2, <3>1
  <2> QED BY <2>1, <2>2
<1> HIDE DEF q
<1>9. CASE granted /\ ~q.failed
  <2>1. h.node = v /\ h.granted = granted
    BY <1>4, <1>9
  <2>2. q \in NodeState /\ q.ballots \in SUBSET (Nat \X Node)
    BY <1>8, NodeTypes DEF Sound
  <2>3. grown \in SUBSET (Nat \X Node)
    BY <1>1, <2>2
  <2>4. grown = q.ballots \cup {<<m.term, m.from>>}
    OBVIOUS
  <2> HIDE DEF grown
  <2>5. /\ v \in NodeState /\ v.disk = q.disk /\ v.mode = q.mode
        /\ v.applied = q.applied /\ v.role = q.role /\ v.votes = q.votes
        /\ v.reigns = q.reigns /\ v.ballots = grown
    BY <2>2, <2>3 DEF NodeState
  <2> HIDE DEF v, h
  <2>6. Sound(v)
    BY <1>8, <2>5 DEF Sound
  <2> QED BY <1>7, <1>8, <1>9, <2>1, <2>4, <2>5, <2>6 DEF VoteCast, Keeps, h
<1>10. CASE ~(granted /\ ~q.failed)
  <2>1. h.node = q /\ h.granted = granted
    BY <1>4, <1>10
  <2> HIDE DEF h
  <2> QED BY <1>7, <1>8, <1>10, <2>1 DEF VoteCast, Keeps, h
<1> QED BY <1>9, <1>10

(* The replaced suffix starts after the matched entry. *)
LEMMA ReplaceFromType ==
  ASSUME NEW d \in Store, NEW m \in AppendRequest
  PROVE  LET from == ReplaceFrom(d, m)
         IN  /\ from \in Nat
             /\ from # 0 => SubSeq(m.entries, from - m.prev, Len(m.entries))
                              \in Seq(Entry)
<1> DEFINE S == NewPositions(d, m)
           from == ReplaceFrom(d, m)
<1>1. m.prev \in Nat /\ m.entries \in Seq(Entry) /\ Len(m.entries) \in Nat
  BY DEF AppendRequest
<1>2. S \in SUBSET (1 .. Len(m.entries))
  BY DEF NewPositions
<1> HIDE DEF S
<1>3. CASE S = {}
  BY <1>3 DEF ReplaceFrom, S
<1>4. CASE S # {}
  <2>1. Min(S) \in 1 .. Len(m.entries)
    <3>1. Min(S) \in S
      BY <1>1, <1>2, <1>4, MinInSet
    <3> QED BY <1>2, <3>1
  <2>2. from = m.prev + Min(S)
    BY <1>4 DEF ReplaceFrom, S
  <2> DEFINE k == Min(S)
  <2>3. k \in 1 .. Len(m.entries) /\ from = m.prev + k
    BY <2>1, <2>2
  <2> HIDE DEF k, from
  <2>4. from \in Nat /\ from - m.prev = k
    BY <1>1, <2>3
  <2>5. SubSeq(m.entries, k, Len(m.entries)) \in Seq(Entry)
    BY <1>1, <2>3
  <2> QED BY <2>4, <2>5 DEF from
<1> QED BY <1>3, <1>4

(* The tail of AppendEntries keeps the node sound. *)
LEMMA InstallSound ==
  ASSUME NEW n, Sound(n), ~n.failed, n.mode = "up", NEW i \in Node,
         NEW m \in AppendRequest
  PROVE  LET p == InstallEntries(n, i, m) IN Sound(p) /\ Keeps(n, p)
<1> DEFINE d == n.disk
           from == ReplaceFrom(d, m)
           commit == CommitAfter(d, m)
           new == IF from = 0 THEN <<>>
                  ELSE SubSeq(m.entries, from - m.prev, Len(m.entries))
           p == PersistLocked(n, d.term, d.vote, commit, from, new)
           a == ApplyLocked(p, i)
           q == InstallEntries(n, i, m)
<1>1. n \in NodeState /\ d \in Store /\ Bounds(d) /\ n.applied \in Nat
  BY NodeTypes DEF Sound
<1>2. /\ d.term \in Nat /\ d.vote \in Node \cup {Nil} /\ d.commit \in Nat
      /\ d.base \in Nat /\ d.base <= d.commit
  BY <1>1, StoreTypes, BoundsFacts
<1>3. commit \in Nat
  <2>1. m.prev \in Nat /\ m.commit \in Nat /\ Len(m.entries) \in Nat
    BY DEF AppendRequest
  <2> QED BY <1>2, <2>1 DEF CommitAfter, Larger, Smaller
<1>4. from \in Nat /\ new \in Seq(Entry)
  BY <1>1, ReplaceFromType
<1>5. q = IF from = 0 /\ commit = d.commit THEN n
          ELSE IF p.failed THEN p ELSE a
  BY DEF InstallEntries
<1> HIDE DEF commit, from, new
<1>6. Persisted(n, p, d.term, d.vote, commit)
  BY <1>1, <1>2, <1>3, <1>4, PersistSound
<1> HIDE DEF p
<1>7. Keeps(n, p)
  BY <1>6 DEF Persisted, Keeps
<1>8. n.disk.commit <= n.applied
  BY DEF Sound
<1>9. CASE from = 0 /\ commit = d.commit
  <2>1. q = n
    BY <1>5, <1>9
  <2> HIDE DEF q
  <2> QED BY <2>1 DEF Keeps, Later, q
<1>10. CASE ~(from = 0 /\ commit = d.commit) /\ p.failed
  <2>1. q = p
    BY <1>5, <1>10
  <2>2. Sound(p)
    BY <1>6, <1>8, <1>10 DEF Persisted, Sound
  <2> HIDE DEF q
  <2> QED BY <1>7, <2>1, <2>2 DEF q
<1>11. CASE ~(from = 0 /\ commit = d.commit) /\ ~p.failed
  <2>1. q = a
    BY <1>5, <1>11
  <2>2. p \in NodeState /\ Bounds(p.disk) /\ p.disk.base <= p.applied
    BY <1>1, <1>2, <1>6, <1>8 DEF Persisted
  <2>3. Sound(a) /\ Keeps(p, a)
    BY <2>2, ApplySound
  <2> HIDE DEF a, q
  <2>4. Keeps(n, a)
    BY <1>1, <1>7, <2>2, <2>3, KeepsTransitive DEF Sound
  <2> QED BY <2>1, <2>3, <2>4 DEF q
<1> QED BY <1>9, <1>10, <1>11

-----------------------------------------------------------------------------
(* Messages. *)

LEMMA AppendToType ==
  ASSUME NEW n, Sound(n), NEW i \in Node, NEW j \in Node,
         ~(Larger(1, n.next[j]) < n.disk.base)
  PROVE  AppendTo(n, i, j) \in AppendRequest
<1> DEFINE d == n.disk
           last == LastIndex(d)
           next == Smaller(Larger(1, n.next[j]), last + 1)
           end == Smaller(last + 1, next + BatchLimit)
           prev == Larger(next - 1, d.base)
           batch == EntriesBetween(d, prev + 1, end - 1)
           rest == EntriesBetween(d, d.base + 1, end - 1)
           whole == d.snap \o rest
<1>1. d \in Store /\ Bounds(d) /\ n.next[j] \in Nat
  BY NodeTypes DEF Sound
<1>2. /\ d.term \in Nat /\ d.commit \in Nat /\ d.base \in Nat
      /\ last \in Nat /\ d.base <= last
  BY <1>1, StoreTypes, BoundsFacts
<1>3. BatchLimit \in Nat
  BY LimitAssumption
<1>4. AppendTo(n, i, j) =
        [type |-> "append", from |-> i, to |-> j, term |-> d.term,
         prev |-> prev, prevTerm |-> EntryAt(d, prev).term,
         entries |-> batch, commit |-> d.commit, whole |-> whole]
  BY DEF AppendTo
<1> HIDE DEF last
<1>5. next \in Nat /\ 1 <= next /\ next <= last + 1
  BY <1>1, <1>2 DEF Larger, Smaller
<1> HIDE DEF next
<1>6. prev \in Nat /\ d.base <= prev /\ prev <= last
  BY <1>2, <1>5 DEF Larger
<1>7. end \in Nat /\ end - 1 \in Int /\ end - 1 <= last
  BY <1>2, <1>3, <1>5 DEF Smaller
<1> HIDE DEF prev, end
<1>8. EntryAt(d, prev).term \in Nat
  BY <1>1, <1>6, EntryAtType DEF last
<1>9. batch \in Seq(Entry)
  <2>1. prev + 1 \in Nat /\ d.base <= prev + 1
    BY <1>2, <1>6
  <2> QED BY <1>1, <1>7, <2>1, EntriesBetweenType DEF last
<1>10. whole \in Seq(Entry)
  <2>1. d.base + 1 \in Nat /\ d.base <= d.base + 1
    BY <1>2
  <2>2. rest \in Seq(Entry)
    BY <1>1, <1>7, <2>1, EntriesBetweenType DEF last
  <2> QED BY <1>1, <2>2, StoreTypes, ConcatType
<1> HIDE DEF batch, whole
<1> QED BY <1>2, <1>4, <1>6, <1>8, <1>9, <1>10 DEF AppendRequest

(* The conflict hint of AppendEntries is an index. *)
LEMMA ConflictIndexType ==
  ASSUME NEW d \in Store, Bounds(d), NEW m \in AppendRequest
  PROVE  ConflictIndex(d, m) \in Nat
<1> DEFINE S == {c \in d.base .. m.prev : \A k \in c .. m.prev :
                   EntryAt(d, k).term = EntryAt(d, m.prev).term}
<1>1. m.prev \in Nat /\ d.base \in Nat /\ LastIndex(d) \in Nat
  BY StoreTypes, BoundsFacts DEF AppendRequest
<1>2. CASE m.prev > LastIndex(d)
  BY <1>1, <1>2 DEF ConflictIndex
<1>3. CASE ~(m.prev > LastIndex(d)) /\ m.prev < d.base
  BY <1>1, <1>3 DEF ConflictIndex
<1>4. CASE ~(m.prev > LastIndex(d)) /\ ~(m.prev < d.base)
  <2>1. m.prev \in S
    BY <1>1, <1>4
  <2>2. S \in SUBSET (d.base .. m.prev)
    OBVIOUS
  <2>3. ConflictIndex(d, m) = Min(S)
    BY <1>4 DEF ConflictIndex
  <2> HIDE DEF S
  <2>4. Min(S) \in S
    BY <1>1, <2>1, <2>2, MinInSet
  <2>5. Min(S) \in d.base .. m.prev
    BY <2>2, <2>4
  <2>6. Min(S) \in Nat
    BY <1>1, <2>5
  <2> QED BY <2>3, <2>6
<1> QED BY <1>2, <1>3, <1>4

(* The fields every request has. *)
LEMMA RequestTypes ==
  ASSUME NEW m \in Request
  PROVE  /\ m.from \in Node /\ m.to \in Node /\ m.term \in Nat
         /\ m.type = "vote" => m \in VoteRequest
         /\ m.type = "append" => m \in AppendRequest
BY DEF Request, VoteRequest, AppendRequest

(* The fields every answer has. *)
LEMMA ResponseTypes ==
  ASSUME NEW r \in Response
  PROVE  /\ r.req \in Request /\ r.term \in Nat
         /\ r.ok \in BOOLEAN /\ r.conflict \in Nat
BY DEF Response

-----------------------------------------------------------------------------
(* The inductive type invariant, and steps that take no part in an election. *)

TypeInv == TypeOK /\ \A i \in Node : Sound(nodes[i])

MessagesOK == wire \in SUBSET Request /\ calls \in SUBSET Request
              /\ replies \in SUBSET Response

(* No new answer grants a vote. *)
Silent == \A r \in replies' : r \in replies \/ r.req.type # "vote" \/ ~r.ok

Quiet == /\ \A i \in Node : Keeps(nodes[i], nodes'[i])
         /\ Silent

(* A node that does not move keeps everything. *)
LEMMA KeepsReflexive == \A n : Keeps(n, n)
BY DEF Keeps, Later

(* A step that replaces one node by a sound one preserves the type invariant. *)
LEMMA NodeChanged ==
  ASSUME TypeInv, NEW i \in Node, NEW p, Sound(p),
         nodes' = [nodes EXCEPT ![i] = p], MessagesOK'
  PROVE  /\ TypeInv' /\ nodes'[i] = p
         /\ \A j \in Node \ {i} : nodes'[j] = nodes[j]
<1>1. p \in NodeState
  BY DEF Sound
<1>2. nodes \in [Node -> NodeState]
  BY DEF TypeInv, TypeOK
<1>3. /\ nodes' \in [Node -> NodeState] /\ nodes'[i] = p
      /\ \A j \in Node \ {i} : nodes'[j] = nodes[j]
  BY <1>1, <1>2
<1>4. \A j \in Node : Sound(nodes[j])
  BY DEF TypeInv
<1>5. \A j \in Node : Sound(nodes'[j])
  BY <1>3, <1>4
<1> QED BY <1>3, <1>5 DEF TypeInv, TypeOK, MessagesOK

(* If it also keeps that node's vote and term, it keeps everyone's. *)
LEMMA NodeKept ==
  ASSUME TypeInv, NEW i \in Node, NEW p, Sound(p), Keeps(nodes[i], p),
         nodes' = [nodes EXCEPT ![i] = p], MessagesOK'
  PROVE  TypeInv' /\ \A j \in Node : Keeps(nodes[j], nodes'[j])
BY NodeChanged, KeepsReflexive

(* A step that leaves all nodes alone preserves the type invariant. *)
LEMMA NodesUnchanged ==
  ASSUME TypeInv, UNCHANGED nodes, MessagesOK'
  PROVE  TypeInv' /\ \A j \in Node : Keeps(nodes[j], nodes'[j])
BY KeepsReflexive DEF TypeInv, TypeOK, MessagesOK

(* An answer put on the wire is typed. *)
LEMMA ReplyType ==
  ASSUME TypeInv, NEW m \in Request, NEW n \in NodeState,
         NEW ok \in BOOLEAN, NEW conflict \in Nat, Reply(m, n, ok, conflict)
  PROVE  /\ replies' \in SUBSET Response
         /\ \A r \in replies' :
              r \in replies \/ (r.req = m /\ r.ok = ok /\ ~n.failed)
<1> DEFINE new == [req |-> m, term |-> n.disk.term, ok |-> ok,
                   conflict |-> conflict]
<1>1. n.disk.term \in Nat
  BY NodeTypes, StoreTypes
<1>2. new \in Response /\ new.req = m /\ new.ok = ok
  BY <1>1 DEF Response
<1>3. replies \in SUBSET Response
  BY DEF TypeInv, TypeOK
<1>4. \/ replies' = replies
      \/ ~n.failed /\ replies' = replies \cup {new}
  BY DEF Reply
<1> HIDE DEF new
<1> QED BY <1>2, <1>3, <1>4

(* Ending a call leaves typed calls and answers. *)
LEMMA EndCallType ==
  ASSUME TypeInv, NEW m \in Request, EndCall(m)
  PROVE  /\ calls' \in SUBSET Request /\ replies' \in SUBSET Response
         /\ Silent
BY DEF EndCall, TypeInv, TypeOK, Silent

-----------------------------------------------------------------------------
(* One lemma per action. *)

LEMMA TickStep ==
  ASSUME TypeInv, NEW i \in Node, Tick(i)
  PROVE  /\ TypeInv' /\ Campaigned(nodes[i], nodes'[i], i)
         /\ \A j \in Node \ {i} : nodes'[j] = nodes[j]
         /\ Silent /\ FixedLeader = Nil
<1> DEFINE n == StartElectionLocked(nodes[i], i)
           last == LastIndex(n.disk)
           req(j) == [type |-> "vote", from |-> i, to |-> j,
                      term |-> n.disk.term, lastIndex |-> last,
                      lastTerm |-> EntryAt(n.disk, last).term]
           sent == IF n.role = "candidate" THEN {req(j) : j \in Node \ {i}} ELSE {}
<1>1. Sound(nodes[i]) /\ ~nodes[i].failed
  BY DEF TypeInv, Tick, Available
<1>2. Campaigned(nodes[i], n, i)
  BY <1>1, StartElectionSound
<1>3. nodes' = [nodes EXCEPT ![i] = n] /\ Send(sent) /\ UNCHANGED replies
      /\ FixedLeader = Nil
  BY DEF Tick
<1> HIDE DEF n
<1>4. Sound(n)
  BY <1>2 DEF Campaigned
<1>5. n.disk \in Store /\ Bounds(n.disk)
  BY <1>4, NodeTypes DEF Sound
<1>6. last \in Nat /\ n.disk.base <= last /\ n.disk.term \in Nat
  BY <1>5, StoreTypes, BoundsFacts
<1>7. EntryAt(n.disk, last).term \in Nat
  <2>1. last <= last
    BY <1>6
  <2> QED BY <1>5, <1>6, <2>1, EntryAtType
<1> HIDE DEF last
<1>8. sent \in SUBSET Request
  <2>1. ASSUME NEW j \in Node PROVE req(j) \in Request
    BY <1>6, <1>7 DEF Request, VoteRequest
  <2> HIDE DEF req
  <2> QED BY <2>1
<1> HIDE DEF sent
<1>9. MessagesOK'
  BY <1>3, <1>8 DEF Send, MessagesOK, TypeInv, TypeOK
<1>10. /\ TypeInv' /\ nodes'[i] = n
       /\ \A j \in Node \ {i} : nodes'[j] = nodes[j]
  BY <1>3, <1>4, <1>9, NodeChanged
<1>11. Silent
  BY <1>3 DEF Silent
<1> QED BY <1>2, <1>3, <1>10, <1>11

(* A vote refused for its term changes no node. *)
LEMMA RequestVoteStaleStep ==
  ASSUME TypeInv, NEW m \in Request, RequestVoteStale(m), wire' \in SUBSET Request
  PROVE  TypeInv' /\ Quiet
<1> DEFINE n == nodes[m.to]
<1>1. n \in NodeState
  BY RequestTypes DEF TypeInv, Sound
<1>2. Reply(m, n, FALSE, 0) /\ UNCHANGED <<nodes, calls>>
  BY DEF RequestVoteStale
<1> HIDE DEF n
<1>3. /\ replies' \in SUBSET Response
      /\ \A r \in replies' :
           r \in replies \/ (r.req = m /\ r.ok = FALSE /\ ~n.failed)
  <2>1. FALSE \in BOOLEAN /\ 0 \in Nat
    OBVIOUS
  <2> QED BY <1>1, <1>2, <2>1, ReplyType
<1>4. MessagesOK'
  BY <1>2, <1>3 DEF MessagesOK, TypeInv, TypeOK
<1>5. TypeInv' /\ \A j \in Node : Keeps(nodes[j], nodes'[j])
  BY <1>2, <1>4, NodesUnchanged
<1>6. Silent
  BY <1>3 DEF Silent
<1> QED BY <1>5, <1>6 DEF Quiet

(* RequestVote preserves the type invariant. *)
LEMMA RequestVoteStep ==
  ASSUME TypeInv, NEW m \in Request, RequestVote(m), wire' \in SUBSET Request
  PROVE  LET h == VoteHandled(nodes[m.to], m)
         IN  /\ TypeInv' /\ VoteCast(nodes[m.to], h, m) /\ nodes'[m.to] = h.node
             /\ \A j \in Node \ {m.to} : nodes'[j] = nodes[j]
             /\ \A r \in replies' : \/ r \in replies
                                    \/ /\ r.req = m /\ r.ok = h.granted
                                       /\ ~h.node.failed
             /\ FixedLeader = Nil
<1> DEFINE n == nodes[m.to]
           h == VoteHandled(n, m)
<1>1. /\ m.type = "vote" /\ ~n.failed /\ FixedLeader = Nil
      /\ m.term >= n.disk.term
      /\ nodes' = [nodes EXCEPT ![m.to] = h.node]
      /\ Reply(m, h.node, h.granted, 0) /\ UNCHANGED calls
  BY DEF RequestVote, Available
<1>2. m.to \in Node /\ m \in VoteRequest
  BY <1>1, RequestTypes
<1>3. Sound(n)
  BY <1>2 DEF TypeInv
<1>4. VoteCast(n, h, m)
  BY <1>1, <1>2, <1>3, VoteHandledSound
<1> HIDE DEF h
<1>5. Sound(h.node) /\ h.node \in NodeState /\ h.granted \in BOOLEAN
  BY <1>4 DEF VoteCast, Sound
<1>6. /\ replies' \in SUBSET Response
      /\ \A r \in replies' :
           r \in replies \/ (r.req = m /\ r.ok = h.granted /\ ~h.node.failed)
  <2>1. 0 \in Nat
    OBVIOUS
  <2> QED BY <1>1, <1>5, <2>1, ReplyType
<1>7. MessagesOK'
  BY <1>1, <1>6 DEF MessagesOK, TypeInv, TypeOK
<1>8. /\ TypeInv' /\ nodes'[m.to] = h.node
      /\ \A j \in Node \ {m.to} : nodes'[j] = nodes[j]
  BY <1>1, <1>2, <1>5, <1>7, NodeChanged
<1> QED BY <1>1, <1>4, <1>6, <1>8 DEF h

(* The end of a process with a sound, not older store preserves the type    *)
(* invariant.                                                               *)
LEMMA HaltStep ==
  ASSUME TypeInv, NEW i \in Node, NEW d \in Store, Bounds(d),
         Later(nodes[i].disk, d), Halt(i, d)
  PROVE  TypeInv' /\ Quiet
<1> DEFINE n == nodes[i]
           p == [Stopped(n) EXCEPT !.disk = d]
<1>1. n \in NodeState
  BY DEF TypeInv, Sound
<1>2. /\ p \in NodeState /\ p.disk = d /\ p.mode = "down"
      /\ p.ballots = n.ballots /\ p.reigns = n.reigns /\ p.role = "follower"
  BY <1>1, StoppedType
<1>3. /\ nodes' = [nodes EXCEPT ![i] = p]
      /\ calls' = {m \in calls : m.from # i}
      /\ replies' = {r \in replies : r.req.from # i}
      /\ UNCHANGED wire
  <2>1. nodes \in [Node -> NodeState]
    BY DEF TypeInv, TypeOK
  <2> QED BY <2>1 DEF Halt
<1> HIDE DEF p
<1>4. Sound(p) /\ Keeps(n, p)
  BY <1>2 DEF Sound, Keeps
<1>5. MessagesOK'
  BY <1>3 DEF MessagesOK, TypeInv, TypeOK
<1>6. TypeInv' /\ \A j \in Node : Keeps(nodes[j], nodes'[j])
  BY <1>3, <1>4, <1>5, NodeKept
<1> QED BY <1>3, <1>6 DEF Quiet, Silent

(* replicateOnce preserves the type invariant. *)
LEMMA ReplicateStep ==
  ASSUME TypeInv, NEW i \in Node, NEW j \in Node, Replicate(i, j)
  PROVE  TypeInv' /\ Quiet
<1> DEFINE n == nodes[i]
           req == AppendTo(n, i, j)
<1>1. Sound(n)
  BY DEF TypeInv
<1>2. CASE Larger(1, n.next[j]) < n.disk.base
  <2>1. Halt(i, n.disk)
    BY <1>2 DEF Replicate
  <2>2. n.disk \in Store /\ Bounds(n.disk) /\ Later(n.disk, n.disk)
    BY <1>1, NodeTypes DEF Sound, Later
  <2> QED BY <2>1, <2>2, HaltStep
<1>3. CASE ~(Larger(1, n.next[j]) < n.disk.base)
  <2>1. Send({req}) /\ UNCHANGED <<nodes, replies>>
    BY <1>3 DEF Replicate
  <2>2. req \in Request
    BY <1>1, <1>3, AppendToType DEF Request
  <2> HIDE DEF req
  <2>3. MessagesOK'
    BY <2>1, <2>2 DEF Send, MessagesOK, TypeInv, TypeOK
  <2>4. TypeInv' /\ \A k \in Node : Keeps(nodes[k], nodes'[k])
    BY <2>1, <2>3, NodesUnchanged
  <2> QED BY <2>1, <2>4 DEF Quiet, Silent
<1> QED BY <1>2, <1>3

(* An append refused for its term changes no node. *)
LEMMA AppendEntriesStaleStep ==
  ASSUME TypeInv, NEW m \in Request, AppendEntriesStale(m),
         wire' \in SUBSET Request
  PROVE  TypeInv' /\ Quiet
<1> DEFINE n == nodes[m.to]
           hint == LastIndex(n.disk) + 1
<1>1. n \in NodeState /\ n.disk \in Store /\ Bounds(n.disk)
  BY RequestTypes, NodeTypes DEF TypeInv, Sound
<1>2. m.type = "append" /\ Reply(m, n, FALSE, hint) /\ UNCHANGED <<nodes, calls>>
  BY DEF AppendEntriesStale
<1>3. hint \in Nat /\ FALSE \in BOOLEAN
  BY <1>1, BoundsFacts
<1> HIDE DEF n, hint
<1>4. /\ replies' \in SUBSET Response
      /\ \A r \in replies' :
           r \in replies \/ (r.req = m /\ r.ok = FALSE /\ ~n.failed)
  BY <1>1, <1>2, <1>3, ReplyType
<1>5. MessagesOK'
  BY <1>2, <1>4 DEF MessagesOK, TypeInv, TypeOK
<1>6. TypeInv' /\ \A j \in Node : Keeps(nodes[j], nodes'[j])
  BY <1>2, <1>5, NodesUnchanged
<1>7. Silent
  BY <1>4 DEF Silent
<1> QED BY <1>6, <1>7 DEF Quiet

(* A refused append preserves the type invariant. *)
LEMMA AppendEntriesMismatchStep ==
  ASSUME TypeInv, NEW m \in Request, AppendEntriesMismatch(m),
         wire' \in SUBSET Request
  PROVE  TypeInv' /\ Quiet
<1> DEFINE n == nodes[m.to]
           p == StepDownLocked(n, m.term, m.from)
           hint == ConflictIndex(p.disk, m)
<1>1. /\ m.type = "append" /\ ~n.failed
      /\ nodes' = [nodes EXCEPT ![m.to] = p]
      /\ Reply(m, p, FALSE, hint) /\ UNCHANGED calls
  BY DEF AppendEntriesMismatch, Available
<1>2. /\ m \in AppendRequest /\ m.to \in Node /\ m.term \in Nat
      /\ m.from \in Node \cup {Nil}
  BY <1>1, RequestTypes
<1>3. Sound(n)
  BY <1>2 DEF TypeInv
<1>4. Sound(p) /\ Keeps(n, p)
  BY <1>1, <1>2, <1>3, StepDownSound
<1> HIDE DEF p
<1>5. p \in NodeState /\ p.disk \in Store /\ Bounds(p.disk)
  BY <1>4, NodeTypes DEF Sound
<1>6. hint \in Nat /\ FALSE \in BOOLEAN
  BY <1>2, <1>5, ConflictIndexType
<1> HIDE DEF hint
<1>7. /\ replies' \in SUBSET Response
      /\ \A r \in replies' :
           r \in replies \/ (r.req = m /\ r.ok = FALSE /\ ~p.failed)
  BY <1>1, <1>5, <1>6, ReplyType
<1>8. MessagesOK'
  BY <1>1, <1>7 DEF MessagesOK, TypeInv, TypeOK
<1>9. TypeInv' /\ \A j \in Node : Keeps(nodes[j], nodes'[j])
  BY <1>1, <1>2, <1>4, <1>8, NodeKept
<1>10. Silent
  BY <1>7 DEF Silent
<1> QED BY <1>9, <1>10 DEF Quiet

(* An accepted append preserves the type invariant. *)
LEMMA AppendEntriesMatchStep ==
  ASSUME TypeInv, NEW m \in Request, AppendEntriesMatch(m),
         wire' \in SUBSET Request
  PROVE  TypeInv' /\ Quiet
<1> DEFINE n == nodes[m.to]
           p == StepDownLocked(n, m.term, m.from)
           q == InstallEntries(p, m.to, m)
<1>1. /\ m.type = "append" /\ ~n.failed /\ n.mode = "up"
      /\ Matches(p.disk, m) /\ UNCHANGED calls
      /\ \/ nodes' = [nodes EXCEPT ![m.to] = p] /\ UNCHANGED replies
         \/ /\ ~p.failed
            /\ nodes' = [nodes EXCEPT ![m.to] = q] /\ Reply(m, q, TRUE, 0)
  BY DEF AppendEntriesMatch, Available
<1>2. /\ m \in AppendRequest /\ m.to \in Node /\ m.term \in Nat
      /\ m.from \in Node \cup {Nil}
  BY <1>1, RequestTypes
<1>3. Sound(n)
  BY <1>2 DEF TypeInv
<1>4. Sound(p) /\ Keeps(n, p) /\ p.mode = n.mode
  BY <1>1, <1>2, <1>3, StepDownSound
<1> HIDE DEF p
<1>5. CASE nodes' = [nodes EXCEPT ![m.to] = p] /\ UNCHANGED replies
  <2>1. MessagesOK'
    BY <1>1, <1>5 DEF MessagesOK, TypeInv, TypeOK
  <2>2. TypeInv' /\ \A j \in Node : Keeps(nodes[j], nodes'[j])
    BY <1>2, <1>4, <1>5, <2>1, NodeKept
  <2> QED BY <1>5, <2>2 DEF Quiet, Silent
<1>6. CASE /\ ~p.failed
           /\ nodes' = [nodes EXCEPT ![m.to] = q] /\ Reply(m, q, TRUE, 0)
  <2>1. Sound(q) /\ Keeps(p, q)
    BY <1>1, <1>2, <1>4, <1>6, InstallSound
  <2> HIDE DEF q
  <2>2. q \in NodeState /\ p \in NodeState /\ n \in NodeState
    BY <1>3, <1>4, <2>1 DEF Sound
  <2>3. Keeps(n, q)
    BY <1>4, <2>1, <2>2, KeepsTransitive
  <2>4. /\ replies' \in SUBSET Response
        /\ \A r \in replies' :
             r \in replies \/ (r.req = m /\ r.ok = TRUE /\ ~q.failed)
    <3>1. TRUE \in BOOLEAN /\ 0 \in Nat
      OBVIOUS
    <3> QED BY <1>6, <2>2, <3>1, ReplyType
  <2>5. MessagesOK'
    BY <1>1, <2>4 DEF MessagesOK, TypeInv, TypeOK
  <2>6. TypeInv' /\ \A j \in Node : Keeps(nodes[j], nodes'[j])
    BY <1>2, <1>6, <2>1, <2>3, <2>5, NodeKept
  <2>7. Silent
    BY <1>1, <2>4 DEF Silent
  <2> QED BY <2>6, <2>7 DEF Quiet
<1> QED BY <1>1, <1>5, <1>6

(* An ignored answer preserves the type invariant. *)
LEMMA ReplyIgnoredStep ==
  ASSUME TypeInv, NEW r \in replies, ReplyIgnored(r)
  PROVE  TypeInv' /\ Quiet
<1>1. r.req \in Request
  BY ResponseTypes DEF TypeInv, TypeOK
<1>2. EndCall(r.req) /\ UNCHANGED <<nodes, wire>>
  BY DEF ReplyIgnored
<1>3. /\ calls' \in SUBSET Request /\ replies' \in SUBSET Response /\ Silent
  BY <1>1, <1>2, EndCallType
<1>4. MessagesOK'
  BY <1>2, <1>3 DEF MessagesOK, TypeInv, TypeOK
<1>5. TypeInv' /\ \A j \in Node : Keeps(nodes[j], nodes'[j])
  BY <1>2, <1>4, NodesUnchanged
<1> QED BY <1>3, <1>5 DEF Quiet

(* An answer from a later term preserves the type invariant. *)
LEMMA ReplyNewerTermStep ==
  ASSUME TypeInv, NEW r \in replies, ReplyNewerTerm(r)
  PROVE  TypeInv' /\ Quiet
<1> DEFINE i == r.req.from
           p == StepDownLocked(nodes[i], r.term, Nil)
<1>1. r.req \in Request /\ r.term \in Nat /\ i \in Node
  BY ResponseTypes, RequestTypes DEF TypeInv, TypeOK
<1>2. /\ ~nodes[i].failed /\ nodes' = [nodes EXCEPT ![i] = p]
      /\ EndCall(r.req) /\ UNCHANGED wire
  BY DEF ReplyNewerTerm, Available
<1>3. Sound(p) /\ Keeps(nodes[i], p)
  <2>1. Sound(nodes[i]) /\ Nil \in Node \cup {Nil}
    BY <1>1 DEF TypeInv
  <2> QED BY <1>1, <1>2, <2>1, StepDownSound
<1> HIDE DEF p, i
<1>4. /\ calls' \in SUBSET Request /\ replies' \in SUBSET Response /\ Silent
  BY <1>1, <1>2, EndCallType
<1>5. MessagesOK'
  BY <1>2, <1>4 DEF MessagesOK, TypeInv, TypeOK
<1>6. TypeInv' /\ \A j \in Node : Keeps(nodes[j], nodes'[j])
  BY <1>1, <1>2, <1>3, <1>5, NodeKept
<1> QED BY <1>4, <1>6 DEF Quiet

(* Node p is node n after it counted the vote of r. *)
Counted(n, p, r) ==
  /\ n.role = "candidate" /\ r.req.term = n.disk.term
  /\ LET votes == n.votes \cup {r.req.to}
     IN  \/ /\ Sound(p) /\ p.disk = n.disk /\ p.ballots = n.ballots
            /\ p.reigns = n.reigns /\ p.votes = votes
         \/ Majority(votes) /\ Crowned(n, p)

(* A granted vote preserves the type invariant, won election included. *)
LEMMA VoteGrantedStep ==
  ASSUME TypeInv, NEW r \in replies, VoteGranted(r)
  PROVE  LET i == r.req.from
         IN  /\ TypeInv' /\ Counted(nodes[i], nodes'[i], r)
             /\ r.req.type = "vote" /\ r.ok
             /\ \A j \in Node \ {i} : nodes'[j] = nodes[j]
             /\ Silent
<1> DEFINE i == r.req.from
           n == nodes[i]
           votes == n.votes \cup {r.req.to}
           v == [n EXCEPT !.votes = votes]
           b == BecomeLeaderLocked(v, i)
           p == IF Majority(votes) THEN b ELSE v
<1>1. /\ r.req \in Request /\ r.term \in Nat /\ i \in Node /\ r.req.to \in Node
  BY ResponseTypes, RequestTypes DEF TypeInv, TypeOK
<1>2. Sound(n) /\ n \in NodeState /\ n.votes \in SUBSET Node
  BY <1>1, NodeTypes DEF TypeInv, Sound
<1>3. votes \in SUBSET Node
  BY <1>1, <1>2
<1>4. v.votes = votes
  BY <1>2 DEF NodeState
<1>5. /\ r.req.type = "vote" /\ r.ok /\ ~n.failed /\ n.role = "candidate"
      /\ r.req.term = n.disk.term
      /\ nodes' = [nodes EXCEPT ![i] = p] /\ EndCall(r.req) /\ UNCHANGED wire
  BY <1>4 DEF VoteGranted, Available, Current
<1> HIDE DEF votes
<1>6. /\ v \in NodeState /\ v.disk = n.disk /\ v.mode = n.mode
      /\ v.applied = n.applied /\ v.ballots = n.ballots
      /\ v.reigns = n.reigns /\ v.failed = n.failed
  BY <1>2, <1>3 DEF NodeState
<1> HIDE DEF v
<1>7. Sound(v)
  BY <1>2, <1>6 DEF Sound
<1>8. Sound(p) /\ Counted(n, p, r)
  <2>1. CASE Majority(votes)
    <3>1. Crowned(v, b)
      BY <1>1, <1>5, <1>6, <1>7, BecomeLeaderSound
    <3>2. p = b
      BY <2>1
    <3> HIDE DEF b, p
    <3>3. Crowned(n, b) /\ Sound(b)
      BY <1>6, <3>1 DEF Crowned
    <3> QED BY <1>5, <2>1, <3>2, <3>3 DEF Counted, votes
  <2>2. CASE ~Majority(votes)
    <3>1. p = v
      BY <2>2
    <3> HIDE DEF p
    <3> QED BY <1>4, <1>5, <1>6, <1>7, <3>1 DEF Counted, votes
  <2> QED BY <2>1, <2>2
<1> HIDE DEF p
<1>9. /\ calls' \in SUBSET Request /\ replies' \in SUBSET Response /\ Silent
  BY <1>1, <1>5, EndCallType
<1>10. MessagesOK'
  BY <1>5, <1>9 DEF MessagesOK, TypeInv, TypeOK
<1>11. /\ TypeInv' /\ nodes'[i] = p
       /\ \A j \in Node \ {i} : nodes'[j] = nodes[j]
  BY <1>1, <1>5, <1>8, <1>10, NodeChanged
<1> QED BY <1>5, <1>8, <1>9, <1>11

(* acceptAppendLocked of a success preserves the type invariant. *)
LEMMA AppendSucceededStep ==
  ASSUME TypeInv, NEW r \in replies, AppendSucceeded(r)
  PROVE  TypeInv' /\ Quiet
<1> DEFINE i == r.req.from
           j == r.req.to
           n == nodes[i]
           matched == MatchAfter(n, r.req)
           w == [n EXCEPT !.match[j] = matched, !.next[j] = matched + 1]
           a == AdvanceCommitLocked(w, i)
           p == MaybeSnapshotLocked(a, i)
<1>1. r.req \in Request /\ i \in Node /\ j \in Node
  BY ResponseTypes, RequestTypes DEF TypeInv, TypeOK
<1>2. /\ r.req.type = "append" /\ n.mode = "up" /\ n.role = "leader"
      /\ nodes' = [nodes EXCEPT ![i] = p] /\ EndCall(r.req) /\ UNCHANGED wire
  BY DEF AppendSucceeded, Available, Current
<1>3. Sound(n) /\ n \in NodeState /\ n.match[j] \in Nat
  BY <1>1, NodeTypes DEF TypeInv, Sound
<1>4. matched \in Nat
  <2>1. r.req.prev \in Nat /\ Len(r.req.entries) \in Nat
    BY <1>1, <1>2, RequestTypes DEF AppendRequest
  <2> QED BY <1>3, <2>1 DEF MatchAfter, Larger
<1> HIDE DEF matched
<1>5. /\ w \in NodeState /\ w.disk = n.disk /\ w.mode = n.mode
      /\ w.applied = n.applied /\ w.ballots = n.ballots
      /\ w.reigns = n.reigns /\ w.role = n.role
  <2> DEFINE match == [n.match EXCEPT ![j] = matched]
             next == [n.next EXCEPT ![j] = matched + 1]
  <2>1. match \in [Node -> Nat] /\ next \in [Node -> Nat]
    BY <1>1, <1>3, <1>4, NodeTypes
  <2>2. w = [n EXCEPT !.match = match, !.next = next]
    BY <1>3 DEF NodeState
  <2> HIDE DEF match, next, w
  <2> QED BY <1>3, <2>1, <2>2 DEF NodeState
<1> HIDE DEF w
<1>6. Sound(w) /\ Keeps(n, w)
  BY <1>2, <1>3, <1>5 DEF Sound, Keeps, Later
<1>7. Sound(a) /\ Keeps(w, a) /\ a.mode = w.mode
  BY <1>1, <1>6, AdvanceSound
<1> HIDE DEF a
<1>8. a \in NodeState /\ Bounds(a.disk) /\ a.disk.commit <= a.applied
  BY <1>2, <1>5, <1>7 DEF Sound
<1>9. Sound(p) /\ Keeps(a, p)
  BY <1>1, <1>8, MaybeSnapshotSound
<1> HIDE DEF p
<1>10. p \in NodeState
  BY <1>9 DEF Sound
<1>11. Keeps(n, a)
  BY <1>3, <1>5, <1>6, <1>7, <1>8, KeepsTransitive
<1>12. Keeps(n, p)
  BY <1>3, <1>8, <1>9, <1>10, <1>11, KeepsTransitive
<1>13. /\ calls' \in SUBSET Request /\ replies' \in SUBSET Response /\ Silent
  BY <1>1, <1>2, EndCallType
<1>14. MessagesOK'
  BY <1>2, <1>13 DEF MessagesOK, TypeInv, TypeOK
<1>15. TypeInv' /\ \A k \in Node : Keeps(nodes[k], nodes'[k])
  BY <1>1, <1>2, <1>9, <1>12, <1>14, NodeKept
<1> QED BY <1>13, <1>15 DEF Quiet

(* acceptAppendLocked of a refusal preserves the type invariant. *)
LEMMA AppendRefusedStep ==
  ASSUME TypeInv, NEW r \in replies, AppendRefused(r)
  PROVE  TypeInv' /\ Quiet
<1> DEFINE i == r.req.from
           j == r.req.to
           n == nodes[i]
           w == [n EXCEPT !.next[j] = NextAfter(r)]
<1>1. r.req \in Request /\ i \in Node /\ j \in Node /\ r.conflict \in Nat
  BY ResponseTypes, RequestTypes DEF TypeInv, TypeOK
<1>2. /\ r.req.type = "append" /\ EndCall(r.req) /\ UNCHANGED wire
      /\ \/ UNCHANGED nodes
         \/ nodes' = [nodes EXCEPT ![i] = w]
  <2>1. nodes \in [Node -> NodeState]
    BY DEF TypeInv, TypeOK
  <2> QED BY <2>1, <1>1 DEF AppendRefused
<1>3. Sound(n) /\ n \in NodeState
  BY <1>1 DEF TypeInv, Sound
<1>4. NextAfter(r) \in Nat
  <2>1. r.req.prev \in Nat
    BY <1>1, <1>2, RequestTypes DEF AppendRequest
  <2> QED BY <1>1, <2>1 DEF NextAfter, Larger, Smaller
<1>5. /\ w \in NodeState /\ w.disk = n.disk /\ w.mode = n.mode
      /\ w.applied = n.applied /\ w.ballots = n.ballots
      /\ w.reigns = n.reigns /\ w.role = n.role /\ w.votes = n.votes
  BY <1>1, <1>3, <1>4 DEF NodeState
<1> HIDE DEF w
<1>6. Sound(w) /\ Keeps(n, w)
  BY <1>3, <1>5 DEF Sound, Keeps, Later
<1>7. /\ calls' \in SUBSET Request /\ replies' \in SUBSET Response /\ Silent
  BY <1>1, <1>2, EndCallType
<1>8. MessagesOK'
  BY <1>2, <1>7 DEF MessagesOK, TypeInv, TypeOK
<1>9. TypeInv' /\ \A k \in Node : Keeps(nodes[k], nodes'[k])
  <2>1. CASE UNCHANGED nodes
    BY <1>8, <2>1, NodesUnchanged
  <2>2. CASE nodes' = [nodes EXCEPT ![i] = w]
    BY <1>1, <1>6, <1>8, <2>2, NodeKept
  <2> QED BY <1>2, <2>1, <2>2
<1> QED BY <1>7, <1>9 DEF Quiet

(* A call that times out preserves the type invariant. *)
LEMMA TimeoutStep ==
  ASSUME TypeInv, NEW m \in calls, Timeout(m)
  PROVE  TypeInv' /\ Quiet
<1>1. m \in Request
  BY DEF TypeInv, TypeOK
<1>2. EndCall(m) /\ UNCHANGED <<nodes, wire>>
  BY DEF Timeout
<1>3. /\ calls' \in SUBSET Request /\ replies' \in SUBSET Response /\ Silent
  BY <1>1, <1>2, EndCallType
<1>4. MessagesOK'
  BY <1>2, <1>3 DEF MessagesOK, TypeInv, TypeOK
<1>5. TypeInv' /\ \A j \in Node : Keeps(nodes[j], nodes'[j])
  BY <1>2, <1>4, NodesUnchanged
<1> QED BY <1>3, <1>5 DEF Quiet

(* A lost request preserves the type invariant. *)
LEMMA LoseStep ==
  ASSUME TypeInv, NEW m \in wire, Lose(m)
  PROVE  TypeInv' /\ Quiet
<1>1. wire' = wire \ {m} /\ UNCHANGED <<nodes, calls, replies>>
  BY DEF Lose
<1>2. MessagesOK'
  BY <1>1 DEF MessagesOK, TypeInv, TypeOK
<1>3. TypeInv' /\ \A j \in Node : Keeps(nodes[j], nodes'[j])
  BY <1>1, <1>2, NodesUnchanged
<1> QED BY <1>1, <1>3 DEF Quiet, Silent

(* submitLocked preserves the type invariant. *)
LEMMA SubmitStep ==
  ASSUME TypeInv, NEW i \in Node, NEW c \in Operation, Submit(i, c)
  PROVE  TypeInv' /\ Quiet
<1> DEFINE n == nodes[i]
           d == n.disk
           index == LastIndex(d) + 1
           w == [index |-> index, cmd |-> c,
                 before |-> {a.index : a \in Answers}]
           entries == <<[term |-> d.term, cmd |-> c]>>
           p == PersistLocked(n, d.term, d.vote, d.commit, index, entries)
           waiting == {x \in p.pending : x.index # index} \cup {w}
           q == [p EXCEPT !.pending = waiting, !.match[i] = index]
           a == AdvanceCommitLocked(q, i)
<1>1. Sound(n) /\ n \in NodeState /\ d \in Store /\ Bounds(d)
  BY NodeTypes DEF TypeInv, Sound
<1>2. /\ d.term \in Nat /\ d.vote \in Node \cup {Nil} /\ d.commit \in Nat
      /\ index \in Nat
  BY <1>1, StoreTypes, BoundsFacts
<1>3. /\ nodes' = [nodes EXCEPT ![i] = IF p.failed THEN p ELSE a]
      /\ UNCHANGED <<wire, calls, replies>> /\ n.role = "leader" /\ n.mode = "up"
  BY DEF Submit, Available
<1>4. w \in Waiter
  <2>1. \A b \in Answers : b.index \in Nat
    <3>1. \A j \in Node : nodes[j].answered \in SUBSET Answer
      BY NodeTypes DEF TypeInv, Sound
    <3> QED BY <3>1 DEF Answers, Answer
  <2> QED BY <1>2, <2>1 DEF Waiter
<1>5. entries \in Seq(Entry)
  BY <1>2 DEF Entry
<1> HIDE DEF entries, w, index
<1>6. Persisted(n, p, d.term, d.vote, d.commit)
  BY <1>1, <1>2, <1>5, PersistSound
<1> HIDE DEF p
<1>7. Sound(p) /\ Keeps(n, p) /\ p \in NodeState /\ p.pending \in SUBSET Waiter
  <2>1. p \in NodeState /\ p.pending \in SUBSET Waiter
    BY <1>6, NodeTypes DEF Persisted
  <2>2. Sound(p) /\ Keeps(n, p)
    BY <1>1, <1>3, <1>6 DEF Persisted, Sound, Keeps
  <2> QED BY <2>1, <2>2
<1>8. waiting \in SUBSET Waiter
  BY <1>4, <1>7
<1> HIDE DEF waiting
<1>9. /\ q \in NodeState /\ q.disk = p.disk /\ q.mode = p.mode
      /\ q.applied = p.applied /\ q.ballots = p.ballots
      /\ q.reigns = p.reigns /\ q.role = p.role /\ q.votes = p.votes
  BY <1>2, <1>7, <1>8 DEF NodeState
<1> HIDE DEF q
<1>10. Sound(q) /\ Keeps(p, q)
  BY <1>7, <1>9 DEF Sound, Keeps, Later
<1>11. Sound(a) /\ Keeps(q, a)
  BY <1>10, AdvanceSound
<1> HIDE DEF a
<1>12. a \in NodeState /\ q \in NodeState
  BY <1>9, <1>11 DEF Sound
<1>13. Keeps(p, a)
  BY <1>7, <1>10, <1>11, <1>12, KeepsTransitive
<1>14. Keeps(n, a)
  BY <1>1, <1>7, <1>12, <1>13, KeepsTransitive
<1>15. MessagesOK'
  BY <1>3 DEF MessagesOK, TypeInv, TypeOK
<1>16. TypeInv' /\ \A j \in Node : Keeps(nodes[j], nodes'[j])
  <2>1. CASE p.failed
    BY <1>3, <1>7, <1>15, <2>1, NodeKept
  <2>2. CASE ~p.failed
    BY <1>3, <1>11, <1>14, <1>15, <2>2, NodeKept
  <2> QED BY <2>1, <2>2
<1> QED BY <1>3, <1>16 DEF Quiet, Silent

(* A step that only changes the pending clients or the mode of node i. *)
LEMMA SmallStep ==
  ASSUME TypeInv, NEW i \in Node, NEW p \in NodeState,
         p.disk = nodes[i].disk, p.applied = nodes[i].applied,
         p.mode # "down" => nodes[i].mode # "down",
         p.ballots = nodes[i].ballots, p.reigns = nodes[i].reigns,
         p.role = nodes[i].role, p.votes = nodes[i].votes,
         nodes' = [nodes EXCEPT ![i] = p], UNCHANGED <<wire, calls, replies>>
  PROVE  TypeInv' /\ Quiet
<1> DEFINE n == nodes[i]
<1>1. Sound(n)
  BY DEF TypeInv
<1>2. Sound(p) /\ Keeps(n, p)
  BY <1>1 DEF Sound, Keeps, Later
<1>3. MessagesOK'
  BY DEF MessagesOK, TypeInv, TypeOK
<1>4. TypeInv' /\ \A j \in Node : Keeps(nodes[j], nodes'[j])
  BY <1>2, <1>3, NodeKept
<1> QED BY <1>4 DEF Quiet, Silent

(* A client that gives up preserves the type invariant. *)
LEMMA CancelStep ==
  ASSUME TypeInv, NEW i \in Node, NEW w \in nodes[i].pending, Cancel(i, w)
  PROVE  TypeInv' /\ Quiet
<1> DEFINE n == nodes[i]
           p == [n EXCEPT !.pending = @ \ {w}]
<1>1. n \in NodeState /\ nodes \in [Node -> NodeState]
  BY DEF TypeInv, TypeOK
<1>2. nodes' = [nodes EXCEPT ![i] = p] /\ UNCHANGED <<wire, calls, replies>>
  BY <1>1 DEF Cancel
<1>3. /\ p \in NodeState /\ p.disk = n.disk /\ p.applied = n.applied
      /\ p.mode = n.mode /\ p.ballots = n.ballots /\ p.reigns = n.reigns
      /\ p.role = n.role /\ p.votes = n.votes
  BY <1>1 DEF NodeState
<1> HIDE DEF p
<1> QED BY <1>2, <1>3, SmallStep

(* SetPaused(true) preserves the type invariant. *)
LEMMA PauseStep ==
  ASSUME TypeInv, NEW i \in Node, Pause(i)
  PROVE  TypeInv' /\ Quiet
<1> DEFINE n == nodes[i]
           p == [n EXCEPT !.mode = "paused", !.pending = {}]
<1>1. n \in NodeState /\ nodes \in [Node -> NodeState]
  BY DEF TypeInv, TypeOK
<1>2. /\ nodes' = [nodes EXCEPT ![i] = p] /\ UNCHANGED <<wire, calls, replies>>
      /\ n.mode # "down"
  BY <1>1 DEF Pause
<1>3. /\ p \in NodeState /\ p.disk = n.disk /\ p.applied = n.applied
      /\ p.ballots = n.ballots /\ p.reigns = n.reigns
      /\ p.role = n.role /\ p.votes = n.votes
  BY <1>1 DEF NodeState
<1> HIDE DEF p
<1> QED BY <1>2, <1>3, SmallStep

(* SetPaused(false) preserves the type invariant. *)
LEMMA ResumeStep ==
  ASSUME TypeInv, NEW i \in Node, Resume(i)
  PROVE  TypeInv' /\ Quiet
<1> DEFINE n == nodes[i]
           p == [n EXCEPT !.mode = "up"]
<1>1. n \in NodeState /\ nodes \in [Node -> NodeState]
  BY DEF TypeInv, TypeOK
<1>2. /\ nodes' = [nodes EXCEPT ![i] = p] /\ UNCHANGED <<wire, calls, replies>>
      /\ n.mode # "down"
  BY <1>1 DEF Resume
<1>3. /\ p \in NodeState /\ p.disk = n.disk /\ p.applied = n.applied
      /\ p.ballots = n.ballots /\ p.reigns = n.reigns
      /\ p.role = n.role /\ p.votes = n.votes
  BY <1>1 DEF NodeState
<1> HIDE DEF p
<1> QED BY <1>2, <1>3, SmallStep

(* Close, or a crash between handlers, preserves the type invariant. *)
LEMMA StopStep ==
  ASSUME TypeInv, NEW i \in Node, Stop(i)
  PROVE  TypeInv' /\ Quiet
<1> DEFINE d == nodes[i].disk
<1>1. d \in Store /\ Bounds(d) /\ Later(d, d)
  BY NodeTypes DEF TypeInv, Sound, Later
<1>2. Halt(i, d)
  BY DEF Stop
<1> QED BY <1>1, <1>2, HaltStep

(* A crash in the middle of a handler leaves a sound store, never an older  *)
(* one.                                                                     *)
LEMMA MidwayStoresSound ==
  ASSUME TypeInv, NEW i \in Node, NEW e \in MidwayStores(i),
         nodes[i].mode = "down" \/ Available(nodes[i])
  PROVE  e \in Store /\ Bounds(e) /\ Later(nodes[i].disk, e)
<1> DEFINE n == nodes[i]
           d == n.disk
           newer == {m \in wire : m.to = i /\ m.term > d.term}
           answers == {r \in replies : /\ r.req.from = i
                                       /\ r.req.type = "append"
                                       /\ r.ok /\ Current(n, r)}
           heard(r) == [n EXCEPT !.match[r.req.to] = MatchAfter(n, r.req)]
<1>1. Sound(n) /\ n \in NodeState /\ d \in Store /\ Bounds(d)
  BY NodeTypes DEF TypeInv, Sound
<1>2. d.term \in Nat /\ d.commit \in Nat /\ d.base \in Nat
  BY <1>1, StoreTypes
<1>3. \/ \E j \in {i} \cap {FixedLeader} :
           e = [d EXCEPT !.term = @ + 1, !.vote = j]
      \/ /\ n.mode # "down"
         /\ \E m \in newer : e = StepDownLocked(n, m.term, Nil).disk
      \/ \E r \in answers : /\ Quorate(heard(r), i) # {}
                            /\ e = [d EXCEPT !.commit = Max(Quorate(heard(r), i))]
  BY DEF MidwayStores
<1>4. ASSUME NEW j \in {i} \cap {FixedLeader},
             e = [d EXCEPT !.term = @ + 1, !.vote = j]
      PROVE  e \in Store /\ Bounds(e) /\ Later(d, e)
  <2>1. /\ e \in Store /\ e.term = d.term + 1 /\ e.log = d.log
        /\ e.base = d.base /\ e.commit = d.commit
    BY <1>1, <1>4 DEF Store
  <2> QED BY <1>1, <1>2, <2>1 DEF Bounds, LastIndex, Later
<1>5. ASSUME n.mode # "down", NEW m \in newer,
             e = StepDownLocked(n, m.term, Nil).disk
      PROVE  e \in Store /\ Bounds(e) /\ Later(d, e)
  <2> DEFINE p == StepDownLocked(n, m.term, Nil)
  <2>1. m.term \in Nat /\ Nil \in Node \cup {Nil}
    BY RequestTypes DEF TypeInv, TypeOK
  <2>2. ~n.failed
    BY <1>5 DEF Available
  <2>3. Sound(p) /\ Keeps(n, p)
    BY <1>1, <2>1, <2>2, StepDownSound
  <2>4. e = p.disk
    BY <1>5
  <2> HIDE DEF p
  <2>5. p.disk \in Store /\ Bounds(p.disk)
    BY <2>3, NodeTypes DEF Sound
  <2> QED BY <2>3, <2>4, <2>5 DEF Keeps
<1>6. ASSUME NEW r \in answers, Quorate(heard(r), i) # {},
             e = [d EXCEPT !.commit = Max(Quorate(heard(r), i))]
      PROVE  e \in Store /\ Bounds(e) /\ Later(d, e)
  <2> DEFINE w == heard(r)
             k == Max(Quorate(w, i))
             matched == MatchAfter(n, r.req)
  <2>1. r.req \in Request /\ r.req.to \in Node /\ r.req \in AppendRequest
    BY ResponseTypes, RequestTypes DEF TypeInv, TypeOK
  <2>2. matched \in Nat
    <3>1. /\ r.req.prev \in Nat /\ Len(r.req.entries) \in Nat
          /\ n.match[r.req.to] \in Nat
      BY <1>1, <2>1, NodeTypes DEF AppendRequest
    <3> QED BY <3>1 DEF MatchAfter, Larger
  <2>3. w = [n EXCEPT !.match[r.req.to] = matched]
    OBVIOUS
  <2>4. e = [d EXCEPT !.commit = k] /\ Quorate(w, i) # {}
    BY <1>6
  <2> HIDE DEF matched, w, k
  <2>5. w \in NodeState /\ w.disk = d
    BY <1>1, <2>1, <2>2, <2>3 DEF NodeState
  <2>6. k \in Nat /\ d.commit < k /\ k <= LastIndex(d)
    BY <1>1, <2>4, <2>5, QuorateType DEF k
  <2>7. /\ e \in Store /\ e.term = d.term /\ e.vote = d.vote /\ e.log = d.log
        /\ e.base = d.base /\ e.commit = k
    BY <1>1, <2>4, <2>6 DEF Store
  <2>8. LastIndex(e) = LastIndex(d)
    BY <2>7 DEF LastIndex
  <2>9. 1 <= Len(d.log) /\ d.base <= d.commit
    BY <1>1 DEF Bounds
  <2> QED BY <1>2, <2>6, <2>7, <2>8, <2>9 DEF Bounds, Later
<1> QED BY <1>3, <1>4, <1>5, <1>6

(* A crash in the middle of a handler preserves the type invariant. *)
LEMMA DieStep ==
  ASSUME TypeInv, NEW i \in Node, Die(i)
  PROVE  TypeInv' /\ Quiet
<1>1. PICK e \in MidwayStores(i) : Halt(i, e)
  BY DEF Die
<1>2. nodes[i].mode = "down" \/ Available(nodes[i])
  BY DEF Die
<1>3. e \in Store /\ Bounds(e) /\ Later(nodes[i].disk, e)
  BY <1>2, MidwayStoresSound
<1> QED BY <1>1, <1>3, HaltStep

(* The answers A went to clients of node n whose entries e has committed. *)
Parting(n, e, A) ==
  \A a \in A : \E w \in n.pending :
    /\ n.applied < w.index /\ w.index <= e.commit
    /\ a = [index |-> w.index, cmd |-> w.cmd, before |-> w.before,
            entry |-> EntryAt(e, w.index)]

(* A node that has died with store d behind the answers A. *)
Departed(n, d, A) == [Stopped(n) EXCEPT !.disk = d, !.answered = n.answered \cup A]

(* Leader i, which hears answer r, dies with store e behind the answers A. *)
Departing(i, r, e, A) ==
  LET n == nodes[i]
      heard == [n EXCEPT !.match[r.req.to] = MatchAfter(n, r.req)]
  IN  /\ r.req.from = i /\ r.req.type = "append" /\ r.ok
      /\ Available(n) /\ Current(n, r) /\ Quorate(heard, i) # {}
      /\ e = [n.disk EXCEPT !.commit = Max(Quorate(heard, i))]
      /\ Parting(n, e, A)

(* The handler of an answer dies behind answers to clients. *)
LEMMA DieAnsweringFacts ==
  ASSUME TypeInv, NEW r \in replies, DieAnswering(r)
  PROVE  LET i == r.req.from
         IN  /\ i \in Node /\ calls' \in SUBSET calls /\ replies' \in SUBSET replies
             /\ UNCHANGED wire
             /\ \E e, A : /\ Departing(i, r, e, A) /\ e \in MidwayStores(i)
                         /\ nodes' = [nodes EXCEPT ![i] = Departed(nodes[i], e, A)]
<1> DEFINE i == r.req.from
           n == nodes[i]
           heard == [n EXCEPT !.match[r.req.to] = MatchAfter(n, r.req)]
           e == [n.disk EXCEPT !.commit = Max(Quorate(heard, i))]
           done == {w \in n.pending : n.applied < w.index /\ w.index <= e.commit}
           answer(w) == [index |-> w.index, cmd |-> w.cmd, before |-> w.before,
                         entry |-> EntryAt(e, w.index)]
<1>1. i \in Node /\ nodes \in [Node -> NodeState]
  BY ResponseTypes, RequestTypes DEF TypeInv, TypeOK
<1>2. /\ r.req.type = "append" /\ r.ok /\ Available(n) /\ Current(n, r)
      /\ Quorate(heard, i) # {}
      /\ calls' = {m \in calls : m.from # i}
      /\ replies' = {q \in replies : q.req.from # i}
      /\ UNCHANGED wire
  BY DEF DieAnswering
<1>3. PICK left \in SUBSET done :
        nodes' = [nodes EXCEPT ![i] = Departed(n, e, {answer(w) : w \in left})]
  BY DEF DieAnswering, Departed
<1> DEFINE A == {answer(w) : w \in left}
<1>4. Parting(n, e, A)
  <2> HIDE DEF e, n
  <2> QED BY DEF Parting
<1>5. e \in MidwayStores(i)
  <2>1. n.mode # "down"
    BY <1>2 DEF Available
  <2> QED BY <1>2, <2>1 DEF MidwayStores
<1>6. Departing(i, r, e, A)
  BY <1>2, <1>4 DEF Departing
<1>7. nodes' = [nodes EXCEPT ![i] = Departed(n, e, A)]
  BY <1>3
<1> HIDE DEF e, A
<1> QED BY <1>1, <1>2, <1>5, <1>6, <1>7

(* The answers of a dying leader are typed. *)
LEMMA PartingType ==
  ASSUME NEW n, Sound(n), Available(n), NEW e \in Store, Bounds(e),
         e.base = n.disk.base, NEW A, Parting(n, e, A)
  PROVE  A \in SUBSET Answer
<1>1. n \in NodeState /\ n.disk \in Store /\ n.applied \in Nat /\ n.pending \in SUBSET Waiter
  BY NodeTypes DEF Sound
<1>2. /\ n.disk.base \in Nat /\ n.disk.commit \in Nat /\ n.disk.base <= n.disk.commit
      /\ n.disk.commit <= n.applied
  BY <1>1, StoreTypes, BoundsFacts DEF Sound, Available
<1>3. e.commit \in Nat /\ LastIndex(e) \in Nat /\ e.commit <= LastIndex(e)
  BY StoreTypes, BoundsFacts
<1> SUFFICES ASSUME NEW a \in A PROVE a \in Answer
  OBVIOUS
<1>4. PICK w \in n.pending :
        /\ n.applied < w.index /\ w.index <= e.commit
        /\ a = [index |-> w.index, cmd |-> w.cmd, before |-> w.before,
                entry |-> EntryAt(e, w.index)]
  BY DEF Parting
<1>5. w.index \in Nat /\ w.cmd \in Operation /\ w.before \in SUBSET Nat
  BY <1>1 DEF Waiter
<1>6. e.base <= w.index /\ w.index <= LastIndex(e)
  BY <1>1, <1>2, <1>3, <1>4, <1>5
<1>7. EntryAt(e, w.index) \in Entry
  BY <1>5, <1>6, EntryAtType
<1> QED BY <1>4, <1>5, <1>7 DEF Answer

(* The store of a dying leader is sound, and its answers are typed. *)
LEMMA DepartingSound ==
  ASSUME TypeInv, NEW i \in Node, NEW r, NEW e \in MidwayStores(i), NEW A,
         Departing(i, r, e, A)
  PROVE  /\ e \in Store /\ Bounds(e) /\ Later(nodes[i].disk, e)
         /\ A \in SUBSET Answer
<1>1. Available(nodes[i]) /\ Parting(nodes[i], e, A)
  BY DEF Departing
<1>2. e \in Store /\ Bounds(e) /\ Later(nodes[i].disk, e)
  BY <1>1, MidwayStoresSound
<1>3. Sound(nodes[i]) /\ nodes[i].disk \in Store
  BY NodeTypes DEF TypeInv, Sound
<1>4. e.base = nodes[i].disk.base
  BY <1>3 DEF Departing, Store
<1> QED BY <1>1, <1>2, <1>3, <1>4, PartingType

(* A leader that dies behind answers to clients. *)
LEMMA DepartedType ==
  ASSUME NEW n \in NodeState, NEW d \in Store, NEW A \in SUBSET Answer
  PROVE  LET p == Departed(n, d, A)
         IN  /\ p \in NodeState /\ p.disk = d /\ p.mode = "down" /\ ~p.failed
             /\ p.role = "follower" /\ p.leader = Nil /\ p.pending = {}
             /\ p.ballots = n.ballots /\ p.reigns = n.reigns
             /\ p.stored = n.stored /\ p.answered = n.answered \cup A
<1> DEFINE s == Stopped(n)
           zero == [j \in Node |-> 0]
           all == n.answered \cup A
           p == Departed(n, d, A)
<1>1. s = [n EXCEPT !.mode = "down", !.failed = FALSE, !.role = "follower",
                    !.leader = Nil, !.votes = {}, !.next = zero,
                    !.match = zero, !.pending = {}, !.applied = 0,
                    !.machine = <<>>]
  BY DEF Stopped
<1>2. zero \in [Node -> Nat] /\ <<>> \in Seq(Entry) /\ all \in SUBSET Answer
  BY NodeTypes
<1> HIDE DEF zero, s
<1>3. /\ s \in NodeState /\ s.mode = "down" /\ ~s.failed
      /\ s.role = "follower" /\ s.leader = Nil /\ s.pending = {}
      /\ s.ballots = n.ballots /\ s.reigns = n.reigns /\ s.stored = n.stored
      /\ s.answered = n.answered
  BY <1>1, <1>2 DEF NodeState
<1>4. p = [s EXCEPT !.disk = d, !.answered = all]
  BY DEF Departed, s
<1> HIDE DEF p, all
<1>5. p \in NodeState /\ p.disk = d /\ p.answered = all
  BY ONLY <1>2, <1>3, <1>4, d \in Store DEF NodeState
<1>6. /\ p.mode = "down" /\ ~p.failed /\ p.role = "follower"
      /\ p.leader = Nil /\ p.pending = {}
  BY ONLY <1>3, <1>4 DEF NodeState
<1>7. p.ballots = n.ballots /\ p.reigns = n.reigns /\ p.stored = n.stored
  BY ONLY <1>3, <1>4 DEF NodeState
<1> QED BY <1>5, <1>6, <1>7 DEF p, all

(* A leader's death behind answers to clients preserves the type invariant. *)
LEMMA DieAnsweringStep ==
  ASSUME TypeInv, NEW r \in replies, DieAnswering(r)
  PROVE  TypeInv' /\ Quiet
<1> DEFINE i == r.req.from
           n == nodes[i]
<1>1. /\ i \in Node /\ calls' \in SUBSET calls /\ replies' \in SUBSET replies
      /\ UNCHANGED wire
  BY DieAnsweringFacts
<1>2. PICK e, A : /\ Departing(i, r, e, A) /\ e \in MidwayStores(i)
                  /\ nodes' = [nodes EXCEPT ![i] = Departed(n, e, A)]
  BY DieAnsweringFacts
<1> DEFINE p == Departed(n, e, A)
<1>3. /\ e \in Store /\ Bounds(e) /\ Later(n.disk, e) /\ A \in SUBSET Answer
  BY <1>1, <1>2, DepartingSound
<1>4. n \in NodeState
  BY <1>1 DEF TypeInv, Sound
<1>5. /\ p \in NodeState /\ p.disk = e /\ p.mode = "down" /\ p.role = "follower"
      /\ p.ballots = n.ballots /\ p.reigns = n.reigns
  BY <1>3, <1>4, DepartedType
<1>6. nodes' = [nodes EXCEPT ![i] = p]
  BY <1>2
<1> HIDE DEF p, i
<1>7. Sound(p) /\ Keeps(n, p)
  BY <1>3, <1>5 DEF Sound, Keeps
<1>8. MessagesOK'
  BY <1>1 DEF MessagesOK, TypeInv, TypeOK
<1>9. TypeInv' /\ \A j \in Node : Keeps(nodes[j], nodes'[j])
  BY <1>1, <1>6, <1>7, <1>8, NodeKept
<1> QED BY <1>1, <1>9 DEF Quiet, Silent

(* OpenWithRuntime preserves the type invariant. *)
LEMMA OpenStep ==
  ASSUME TypeInv, NEW i \in Node, Open(i)
  PROVE  /\ TypeInv' /\ Reopened(nodes[i], nodes'[i], i)
         /\ \A j \in Node \ {i} : nodes'[j] = nodes[j]
         /\ Silent
<1> DEFINE p == Opened(nodes[i], i)
<1>1. Sound(nodes[i]) /\ nodes \in [Node -> NodeState]
  BY DEF TypeInv, TypeOK
<1>2. nodes' = [nodes EXCEPT ![i] = p] /\ UNCHANGED <<wire, calls, replies>>
  BY <1>1 DEF Open
<1>3. Reopened(nodes[i], p, i)
  BY <1>1, OpenedSound
<1> HIDE DEF p
<1>4. Sound(p)
  BY <1>3 DEF Reopened
<1>5. MessagesOK'
  BY <1>2 DEF MessagesOK, TypeInv, TypeOK
<1>6. /\ TypeInv' /\ nodes'[i] = p
      /\ \A j \in Node \ {i} : nodes'[j] = nodes[j]
  BY <1>2, <1>4, <1>5, NodeChanged
<1> QED BY <1>2, <1>3, <1>6 DEF Silent

-----------------------------------------------------------------------------

(* Nodes with empty journals satisfy the type invariant. *)
LEMMA InitSound == Init => TypeInv
<1> SUFFICES ASSUME Init PROVE TypeInv
  OBVIOUS
<1> DEFINE zero == [j \in Node |-> 0]
           empty == <<>>
           log == <<Sentinel>>
<1>1. zero \in [Node -> Nat] /\ empty \in Seq(Entry)
  OBVIOUS
<1>2. Sentinel \in Entry
  BY DEF Sentinel, Entry, Operation
<1>3. log \in Seq(Entry) /\ Len(log) = 1
  BY <1>2
<1>4. EmptyStore = [term |-> 0, vote |-> Nil, commit |-> 0, base |-> 0,
                    log |-> log, snap |-> empty]
  BY DEF EmptyStore
<1> HIDE DEF log
<1>5. EmptyStore \in Store /\ Bounds(EmptyStore)
  <2> HIDE DEF empty
  <2>1. /\ EmptyStore \in Store /\ EmptyStore.base = 0 /\ EmptyStore.commit = 0
        /\ Len(EmptyStore.log) = 1
    BY <1>1, <1>3, <1>4 DEF Store
  <2> QED BY <2>1 DEF Bounds, LastIndex
<1>6. NewNode = [disk |-> EmptyStore, mode |-> "down", failed |-> FALSE,
                 role |-> "follower", leader |-> Nil, votes |-> {},
                 next |-> zero, match |-> zero, pending |-> {}, applied |-> 0,
                 machine |-> empty, ballots |-> {}, reigns |-> {},
                 stored |-> {}, answered |-> {}]
  BY DEF NewNode
<1> HIDE DEF zero, empty
<1>7. NewNode \in NodeState /\ NewNode.disk = EmptyStore /\ NewNode.mode = "down"
  BY <1>1, <1>5, <1>6 DEF NodeState
<1>8. Sound(NewNode)
  BY <1>5, <1>7 DEF Sound
<1> QED BY <1>7, <1>8 DEF Init, TypeInv, TypeOK

(* The four actions that take part in an election; all others are quiet. *)
Voting == \/ \E i \in Node : Tick(i) \/ Open(i)
          \/ \E m \in wire : RequestVote(m) /\ wire' \in SUBSET Request
          \/ \E r \in replies : VoteGranted(r)

(* Every handler of a request preserves the type invariant. *)
LEMMA HandleStep ==
  ASSUME TypeInv, NEW m \in wire, Handle(m), wire' \in SUBSET wire
  PROVE  TypeInv' /\ (Quiet \/ Voting)
<1>1. m \in Request /\ wire' \in SUBSET Request
  BY DEF TypeInv, TypeOK
<1>2. CASE RequestVoteStale(m)
  BY <1>1, <1>2, RequestVoteStaleStep
<1>3. CASE RequestVote(m)
  <2>1. TypeInv'
    BY <1>1, <1>3, RequestVoteStep
  <2> QED BY <1>1, <1>3, <2>1 DEF Voting
<1>4. CASE AppendEntriesStale(m)
  BY <1>1, <1>4, AppendEntriesStaleStep
<1>5. CASE AppendEntriesMismatch(m)
  BY <1>1, <1>5, AppendEntriesMismatchStep
<1>6. CASE AppendEntriesMatch(m)
  BY <1>1, <1>6, AppendEntriesMatchStep
<1> QED BY <1>2, <1>3, <1>4, <1>5, <1>6 DEF Handle

(* Every step preserves the type invariant. *)
LEMMA NextSound ==
  ASSUME TypeInv, [Next]_vars
  PROVE  TypeInv' /\ (Quiet \/ Voting)
<1>1. CASE UNCHANGED vars
  <2>1. MessagesOK' /\ UNCHANGED <<nodes, replies>>
    BY <1>1 DEF vars, MessagesOK, TypeInv, TypeOK
  <2> QED BY <2>1, NodesUnchanged DEF Quiet, Silent
<1>2. ASSUME NEW i \in Node, Tick(i) PROVE TypeInv' /\ Voting
  BY <1>2, TickStep DEF Voting
<1>3. ASSUME NEW i \in Node, Open(i) PROVE TypeInv' /\ Voting
  BY <1>3, OpenStep DEF Voting
<1>4. ASSUME NEW i \in Node, Pause(i) \/ Resume(i) \/ Stop(i) \/ Die(i)
      PROVE  TypeInv' /\ Quiet
  BY <1>4, PauseStep, ResumeStep, StopStep, DieStep
<1>5. ASSUME NEW i \in Node, NEW j \in Node, Replicate(i, j)
      PROVE  TypeInv' /\ Quiet
  BY <1>5, ReplicateStep
<1>6. ASSUME NEW i \in Node, NEW c \in Operation, Submit(i, c)
      PROVE  TypeInv' /\ Quiet
  BY <1>6, SubmitStep
<1>7. ASSUME NEW i \in Node, NEW w \in nodes[i].pending, Cancel(i, w)
      PROVE  TypeInv' /\ Quiet
  BY <1>7, CancelStep
<1>8. ASSUME NEW m \in wire, Arrive(m) \/ Duplicate(m)
      PROVE  TypeInv' /\ (Quiet \/ Voting)
  <2>1. Handle(m) /\ wire' \in SUBSET wire
    BY <1>8 DEF Arrive, Duplicate
  <2> QED BY <2>1, HandleStep
<1>9. ASSUME NEW m \in wire, Lose(m) PROVE TypeInv' /\ Quiet
  BY <1>9, LoseStep
<1>10. ASSUME NEW m \in calls, Timeout(m) PROVE TypeInv' /\ Quiet
  BY <1>10, TimeoutStep
<1>11. ASSUME NEW r \in replies, React(r) PROVE TypeInv' /\ (Quiet \/ Voting)
  <2>1. CASE VoteGranted(r)
    BY <2>1, VoteGrantedStep DEF Voting
  <2>2. CASE ~VoteGranted(r)
    BY <1>11, <2>2, ReplyIgnoredStep, ReplyNewerTermStep, AppendSucceededStep,
       AppendRefusedStep DEF React
  <2> QED BY <2>1, <2>2
<1>12. ASSUME NEW r \in replies, DieAnswering(r) PROVE TypeInv' /\ Quiet
  BY <1>12, DieAnsweringStep
<1>13. CASE Next
  BY <1>2, <1>3, <1>4, <1>5, <1>6, <1>7, <1>8, <1>9, <1>10, <1>11, <1>12, <1>13
     DEF Next
<1> QED BY <1>1, <1>13

(* Every variable keeps its type through every handler, crash and restart of *)
(* any number of nodes: no handler indexes a log outside its bounds (but for *)
(* the one place Replicate stops at), no index goes negative.                *)
THEOREM TypeCorrect == Spec => []TypeOK
<1>1. Init => TypeInv
  BY InitSound
<1>2. TypeInv /\ [Next]_vars => TypeInv'
  BY NextSound
<1>3. TypeInv => TypeOK
  BY DEF TypeInv
<1> QED BY <1>1, <1>2, <1>3, PTL DEF Spec

-----------------------------------------------------------------------------
(***************************************************************************)
(* One vote per term and node, and one leader per term, for every cluster, *)
(* every network and every sequence of crashes and restarts.               *)
(*                                                                         *)
(* OneVotePerTerm and ElectionSafety speak of histories only.  The         *)
(* inductive invariant ties the histories to what the code keeps: the      *)
(* durable vote decides the ballot of the current term (BallotsRecorded),  *)
(* the votes a candidate counted and the answers still on their way are    *)
(* ballots their voters cast (VotesCast, AnswersHonest), and a term is     *)
(* led by the candidate of a majority of ballots (ReignsElected), or by    *)
(* the fixed leader alone (FixedReigns).                                   *)
(***************************************************************************)

Ballot(j, t, i) == <<t, i>> \in nodes[j].ballots

VotesCast ==
  \A i \in Node : nodes[i].role = "candidate" =>
    \A j \in nodes[i].votes : Ballot(j, nodes[i].disk.term, i)

AnswersHonest ==
  \A r \in replies : r.req.type = "vote" /\ r.ok =>
    Ballot(r.req.to, r.req.term, r.req.from)

BallotsRecorded ==
  \A i \in Node : \A t \in Nat : \A c \in Node : Ballot(i, t, c) =>
    /\ t <= nodes[i].disk.term
    /\ t = nodes[i].disk.term => c = nodes[i].disk.vote

OneBallot ==
  \A i \in Node : \A t \in Nat : \A b, c \in Node :
    Ballot(i, t, b) /\ Ballot(i, t, c) => b = c

Backers(t, i) == {j \in Node : Ballot(j, t, i)}

ReignsElected ==
  FixedLeader = Nil =>
    \A i \in Node : \A t \in nodes[i].reigns : Majority(Backers(t, i))

FixedReigns ==
  FixedLeader # Nil =>
    \A i \in Node : /\ nodes[i].role # "candidate"
                    /\ i # FixedLeader => nodes[i].reigns = {}

ElectionInv == /\ VotesCast /\ AnswersHonest /\ BallotsRecorded /\ OneBallot
               /\ ReignsElected /\ FixedReigns

-----------------------------------------------------------------------------

(* More members than a majority are a majority. *)
LEMMA MajorityGrows ==
  ASSUME NEW S \in SUBSET Node, NEW T \in SUBSET Node, S \subseteq T, Majority(S)
  PROVE  Majority(T)
<1>1. IsFiniteSet(Node)
  BY NodeAssumption
<1>2. IsFiniteSet(S) /\ IsFiniteSet(T)
  BY <1>1, FS_Subset
<1>3. Cardinality(S) <= Cardinality(T)
  BY <1>2, FS_Subset
<1>4. Cardinality(S) \in Nat /\ Cardinality(T) \in Nat /\ Cardinality(Node) \in Nat
  BY <1>1, <1>2, FS_CardinalityType
<1> QED BY <1>3, <1>4 DEF Majority

(* Two majorities share a member. *)
LEMMA MajoritiesMeet ==
  ASSUME NEW S \in SUBSET Node, NEW T \in SUBSET Node, Majority(S), Majority(T)
  PROVE  S \cap T # {}
<1>1. IsFiniteSet(Node)
  BY NodeAssumption
<1>2. IsFiniteSet(S) /\ IsFiniteSet(T)
  BY <1>1, FS_Subset
<1>3. Cardinality(S) \in Nat /\ Cardinality(T) \in Nat /\ Cardinality(Node) \in Nat
  BY <1>1, <1>2, FS_CardinalityType
<1>4. Cardinality(S) + Cardinality(T) > Cardinality(Node)
  BY <1>3 DEF Majority
<1> QED BY <1>1, <1>4, FS_MajoritiesIntersect

(* The terms a ballot is about are natural numbers, its candidates nodes. *)
LEMMA BallotTypes ==
  ASSUME TypeInv, NEW i \in Node
  PROVE  /\ nodes[i].disk.term \in Nat /\ nodes[i].disk.vote \in Node \cup {Nil}
         /\ nodes[i].ballots \in SUBSET (Nat \X Node)
         /\ nodes[i].reigns \in SUBSET Nat /\ nodes[i].votes \in SUBSET Node
BY NodeTypes, StoreTypes DEF TypeInv, Sound

(* A step in which no node votes or takes office preserves the election     *)
(* invariant.                                                               *)
LEMMA QuietElection ==
  ASSUME TypeInv, TypeInv', ElectionInv, Quiet
  PROVE  ElectionInv'
<1>1. \A i \in Node : Keeps(nodes[i], nodes'[i])
  BY DEF Quiet
<1>2. \A i \in Node : /\ nodes'[i].ballots = nodes[i].ballots
                      /\ nodes'[i].reigns = nodes[i].reigns
  BY <1>1 DEF Keeps
<1>3. \A j \in Node : \A t, i : Ballot(j, t, i)' <=> Ballot(j, t, i)
  BY <1>2 DEF Ballot
<1>4. VotesCast'
  <2> SUFFICES ASSUME NEW i \in Node, nodes'[i].role = "candidate",
                      NEW j \in nodes'[i].votes
               PROVE  Ballot(j, nodes[i].disk.term, i)'
    BY DEF VotesCast
  <2>1. /\ nodes[i].role = "candidate" /\ nodes'[i].votes = nodes[i].votes
        /\ nodes'[i].disk.term = nodes[i].disk.term
    BY <1>1 DEF Keeps
  <2>2. j \in Node
    BY <2>1, BallotTypes
  <2>3. Ballot(j, nodes[i].disk.term, i)
    BY <2>1 DEF ElectionInv, VotesCast
  <2> QED BY <1>2, <2>1, <2>2, <2>3 DEF Ballot
<1>5. AnswersHonest'
  <2> SUFFICES ASSUME NEW r \in replies', r.req.type = "vote", r.ok
               PROVE  Ballot(r.req.to, r.req.term, r.req.from)'
    BY DEF AnswersHonest
  <2>1. r \in replies
    BY DEF Quiet, Silent
  <2>2. r.req.to \in Node
    BY <2>1, ResponseTypes, RequestTypes DEF TypeInv, TypeOK
  <2>3. Ballot(r.req.to, r.req.term, r.req.from)
    BY <2>1 DEF ElectionInv, AnswersHonest
  <2> QED BY <1>3, <2>2, <2>3
<1>6. BallotsRecorded'
  <2> SUFFICES ASSUME NEW i \in Node, NEW t \in Nat, NEW c \in Node,
                      Ballot(i, t, c)'
               PROVE  /\ t <= nodes'[i].disk.term
                      /\ t = nodes'[i].disk.term => c = nodes'[i].disk.vote
    BY DEF BallotsRecorded
  <2>1. /\ t <= nodes[i].disk.term
        /\ t = nodes[i].disk.term => c = nodes[i].disk.vote
    BY <1>3 DEF ElectionInv, BallotsRecorded
  <2>2. Later(nodes[i].disk, nodes'[i].disk)
    BY <1>1 DEF Keeps
  <2>3. nodes[i].disk.term \in Nat /\ nodes'[i].disk.term \in Nat
    BY BallotTypes, NodeTypes, StoreTypes DEF TypeInv, Sound
  <2>4. c # Nil
    BY NodeAssumption
  <2> QED BY <2>1, <2>2, <2>3, <2>4 DEF Later
<1>7. OneBallot'
  BY <1>3 DEF ElectionInv, OneBallot
<1>8. ReignsElected'
  <2> SUFFICES ASSUME FixedLeader = Nil, NEW i \in Node,
                      NEW t \in nodes'[i].reigns
               PROVE  Majority(Backers(t, i)')
    BY DEF ReignsElected, Majority
  <2>1. Backers(t, i)' = Backers(t, i)
    BY <1>3 DEF Backers
  <2>2. Majority(Backers(t, i))
    BY <1>2 DEF ElectionInv, ReignsElected
  <2> QED BY <2>1, <2>2
<1>9. FixedReigns'
  BY <1>1, <1>2 DEF ElectionInv, FixedReigns, Keeps
<1> QED BY <1>4, <1>5, <1>6, <1>7, <1>8, <1>9 DEF ElectionInv

(* A step that adds ballots: only the voter's own, for its current term, and *)
(* for the candidate its disk names.                                         *)
Polled(k, t, c) ==
  /\ nodes'[k].ballots = nodes[k].ballots \cup {<<t, c>>}
  /\ nodes'[k].disk.term = t /\ nodes'[k].disk.vote = c
  /\ nodes[k].disk.term <= t
  /\ nodes[k].disk.term = t => nodes[k].disk.vote \in {Nil, c}

(* A node that casts one recorded ballot still backs one candidate a term. *)
LEMMA PolledElection ==
  ASSUME TypeInv, TypeInv', BallotsRecorded, OneBallot,
         NEW k \in Node, NEW t \in Nat, NEW c \in Node, Polled(k, t, c),
         \A j \in Node \ {k} : nodes'[j] = nodes[j]
  PROVE  /\ BallotsRecorded' /\ OneBallot'
         /\ \A j \in Node : \A u, b : Ballot(j, u, b) => Ballot(j, u, b)'
<1>1. \A u \in Nat, b \in Node : Ballot(k, u, b)' <=> Ballot(k, u, b) \/ (u = t /\ b = c)
  BY DEF Ballot, Polled
<1>2. \A j \in Node \ {k} : \A u, b : Ballot(j, u, b)' <=> Ballot(j, u, b)
  BY DEF Ballot
<1>3. \A j \in Node : \A u, b : Ballot(j, u, b) => Ballot(j, u, b)'
  BY <1>2 DEF Ballot, Polled
<1>4. nodes[k].disk.term \in Nat /\ nodes'[k].disk.term \in Nat
  BY NodeTypes, StoreTypes DEF TypeInv, Sound
<1>5. \A b \in Node : Ballot(k, t, b) => b = c
  <2> SUFFICES ASSUME NEW b \in Node, Ballot(k, t, b) PROVE b = c
    OBVIOUS
  <2>1. t <= nodes[k].disk.term /\ (t = nodes[k].disk.term => b = nodes[k].disk.vote)
    BY DEF BallotsRecorded
  <2>2. b # Nil
    BY NodeAssumption
  <2> QED BY <1>4, <2>1, <2>2 DEF Polled
<1>6. BallotsRecorded'
  <2> SUFFICES ASSUME NEW i \in Node, NEW u \in Nat, NEW b \in Node,
                      Ballot(i, u, b)'
               PROVE  /\ u <= nodes'[i].disk.term
                      /\ u = nodes'[i].disk.term => b = nodes'[i].disk.vote
    BY DEF BallotsRecorded
  <2>1. CASE i # k
    BY <1>2, <2>1 DEF BallotsRecorded
  <2>2. CASE i = k
    <3>1. nodes'[k].disk.term = t /\ nodes'[k].disk.vote = c /\ nodes[k].disk.term <= t
      BY DEF Polled
    <3>2. CASE u = t /\ b = c
      BY <2>2, <3>1, <3>2
    <3>3. CASE Ballot(k, u, b)
      <4>1. u <= nodes[k].disk.term
        BY <3>3 DEF BallotsRecorded
      <4>2. u = t => b = c
        BY <1>5, <3>3
      <4> QED BY <1>4, <2>2, <3>1, <4>1, <4>2
    <3> QED BY <1>1, <2>2, <3>2, <3>3
  <2> QED BY <2>1, <2>2
<1>7. OneBallot'
  <2> SUFFICES ASSUME NEW i \in Node, NEW u \in Nat, NEW a \in Node, NEW b \in Node,
                      Ballot(i, u, a)', Ballot(i, u, b)'
               PROVE  a = b
    BY DEF OneBallot
  <2>1. CASE i # k
    BY <1>2, <2>1 DEF OneBallot
  <2>2. CASE i = k
    BY <1>1, <1>5, <2>2 DEF OneBallot
  <2> QED BY <2>1, <2>2
<1> QED BY <1>3, <1>6, <1>7

(* No ballot is ever taken back, so no majority of backers is lost. *)
LEMMA BackersGrow ==
  ASSUME \A j \in Node : \A u, b : Ballot(j, u, b) => Ballot(j, u, b)',
         NEW t, NEW i, Majority(Backers(t, i))
  PROVE  Majority(Backers(t, i)')
<1>1. Backers(t, i) \subseteq Backers(t, i)'
  BY DEF Backers
<1>2. Backers(t, i) \in SUBSET Node /\ Backers(t, i)' \in SUBSET Node
  BY DEF Backers
<1> QED BY <1>1, <1>2, MajorityGrows

(* A new candidacy preserves the election invariant. *)
LEMMA TickElection ==
  ASSUME TypeInv, ElectionInv, NEW i \in Node, Tick(i)
  PROVE  ElectionInv'
<1>0. PICK t \in Nat : t = nodes[i].disk.term + 1
  BY BallotTypes
<1>1. /\ TypeInv' /\ Campaigned(nodes[i], nodes'[i], i)
      /\ \A j \in Node \ {i} : nodes'[j] = nodes[j]
      /\ Silent /\ FixedLeader = Nil
  BY TickStep
<1>2. CASE /\ Later(nodes[i].disk, nodes'[i].disk) /\ nodes'[i].role = "follower"
           /\ nodes'[i].ballots = nodes[i].ballots
           /\ nodes'[i].reigns = nodes[i].reigns
  <2>1. Keeps(nodes[i], nodes'[i])
    BY <1>2 DEF Keeps
  <2>2. Quiet
    BY <1>1, <2>1, KeepsReflexive DEF Quiet
  <2> QED BY <1>1, <2>2, QuietElection
<1>3. CASE /\ nodes'[i].disk.term = t /\ nodes'[i].disk.vote = i
           /\ nodes'[i].ballots = nodes[i].ballots \cup {<<t, i>>}
           /\ nodes'[i].role = "candidate" => nodes'[i].votes = {i}
           /\ \/ nodes'[i].reigns = nodes[i].reigns
              \/ /\ Majority({i}) /\ nodes'[i].role # "candidate"
                 /\ nodes'[i].reigns = nodes[i].reigns \cup {t}
  <2>0. nodes[i].disk.term \in Nat
    BY BallotTypes
  <2>1. Polled(i, t, i)
    BY <1>0, <1>3, <2>0 DEF Polled
  <2>2. /\ BallotsRecorded' /\ OneBallot'
        /\ \A j \in Node : \A u, b : Ballot(j, u, b) => Ballot(j, u, b)'
    BY <1>1, <2>1, PolledElection DEF ElectionInv
  <2>3. Ballot(i, t, i)'
    BY <1>3 DEF Ballot
  <2>4. VotesCast'
    <3> SUFFICES ASSUME NEW k \in Node, nodes'[k].role = "candidate",
                        NEW j \in nodes'[k].votes
                 PROVE  Ballot(j, nodes[k].disk.term, k)'
      BY DEF VotesCast
    <3>1. CASE k = i
      <4>1. j = i /\ nodes'[k].disk.term = t
        BY <1>3, <3>1
      <4> QED BY <2>3, <3>1, <4>1 DEF Ballot
    <3>2. CASE k # i
      <4>1. nodes'[k] = nodes[k]
        BY <1>1, <3>2
      <4>2. j \in Node
        BY <4>1, BallotTypes
      <4>3. Ballot(j, nodes[k].disk.term, k)
        BY <4>1 DEF ElectionInv, VotesCast
      <4>4. Ballot(j, nodes[k].disk.term, k) => <<nodes[k].disk.term, k>> \in nodes'[j].ballots
        BY <2>2, <4>2 DEF Ballot
      <4> QED BY <4>1, <4>3, <4>4 DEF Ballot
    <3> QED BY <3>1, <3>2
  <2>5. AnswersHonest'
    <3> SUFFICES ASSUME NEW r \in replies', r.req.type = "vote", r.ok
                 PROVE  Ballot(r.req.to, r.req.term, r.req.from)'
      BY DEF AnswersHonest
    <3>1. r \in replies
      BY <1>1 DEF Silent
    <3>2. r.req.to \in Node
      BY <3>1, ResponseTypes, RequestTypes DEF TypeInv, TypeOK
    <3>3. Ballot(r.req.to, r.req.term, r.req.from)
      BY <3>1 DEF ElectionInv, AnswersHonest
    <3> QED BY <2>2, <3>2, <3>3
  <2>6. ReignsElected'
    <3> SUFFICES ASSUME NEW k \in Node, NEW u \in nodes'[k].reigns
                 PROVE  Majority(Backers(u, k)')
      BY DEF ReignsElected, Majority
    <3>1. CASE u \in nodes[k].reigns
      <4>1. Majority(Backers(u, k))
        BY <1>1, <3>1 DEF ElectionInv, ReignsElected
      <4> QED BY <2>2, <4>1, BackersGrow
    <3>2. CASE u \notin nodes[k].reigns
      <4>1. k = i /\ u = t /\ Majority({i})
        BY <1>1, <1>3, <3>2
      <4>2. {i} \subseteq Backers(u, k)' /\ Backers(u, k)' \in SUBSET Node
        BY <2>3, <4>1 DEF Backers
      <4> QED BY <4>1, <4>2, MajorityGrows
    <3> QED BY <3>1, <3>2
  <2>7. FixedReigns'
    BY <1>1 DEF FixedReigns
  <2> QED BY <2>2, <2>4, <2>5, <2>6, <2>7 DEF ElectionInv
<1> QED BY <1>0, <1>1, <1>2, <1>3 DEF Campaigned

(* A vote, granted or refused, preserves the election invariant. *)
LEMMA RequestVoteElection ==
  ASSUME TypeInv, ElectionInv, NEW m \in wire, RequestVote(m),
         wire' \in SUBSET Request
  PROVE  ElectionInv'
<1> DEFINE k == m.to
<1>1. PICK h : /\ TypeInv' /\ VoteCast(nodes[k], h, m) /\ nodes'[k] = h.node
               /\ \A j \in Node \ {k} : nodes'[j] = nodes[j]
               /\ \A r \in replies' : \/ r \in replies
                                      \/ /\ r.req = m /\ r.ok = h.granted
                                         /\ ~h.node.failed
               /\ FixedLeader = Nil
  <2>1. m \in Request
    BY DEF TypeInv, TypeOK
  <2> QED BY <2>1, RequestVoteStep
<1>2. m \in Request /\ k \in Node /\ m.from \in Node /\ m.term \in Nat
      /\ nodes[k].disk.term \in Nat
  BY RequestTypes, BallotTypes DEF TypeInv, TypeOK
<1>3. m.term >= nodes[k].disk.term
  BY DEF RequestVote
<1> DEFINE p == nodes'[k]
<1>4. /\ Later(nodes[k].disk, p.disk) /\ p.reigns = nodes[k].reigns
      /\ p.role = "candidate" =>
           /\ nodes[k].role = "candidate" /\ p.disk.term = nodes[k].disk.term
           /\ p.votes = nodes[k].votes
  BY <1>1 DEF VoteCast
<1>5. CASE p.ballots = nodes[k].ballots /\ (h.granted => h.node.failed)
  <2>1. Keeps(nodes[k], nodes'[k])
    BY <1>4, <1>5 DEF Keeps
  <2>2. \A i \in Node : Keeps(nodes[i], nodes'[i])
    BY <1>1, <1>2, <2>1, KeepsReflexive
  <2>3. Silent
    BY <1>1, <1>5 DEF Silent
  <2> QED BY <1>1, <2>2, <2>3, QuietElection DEF Quiet
<1>6. CASE /\ p.ballots = nodes[k].ballots \cup {<<m.term, m.from>>}
           /\ p.disk.term = m.term /\ p.disk.vote = m.from
  <2>1. Polled(k, m.term, m.from)
    <3>1. nodes[k].disk.term = m.term => nodes[k].disk.vote \in {Nil, m.from}
      BY <1>2, <1>4, <1>6 DEF Later
    <3> QED BY <1>2, <1>3, <1>6, <3>1 DEF Polled
  <2>2. /\ BallotsRecorded' /\ OneBallot'
        /\ \A j \in Node : \A u, b : Ballot(j, u, b) => Ballot(j, u, b)'
    BY <1>1, <1>2, <2>1, PolledElection DEF ElectionInv
  <2>3. VotesCast'
    <3> SUFFICES ASSUME NEW i \in Node, nodes'[i].role = "candidate",
                        NEW j \in nodes'[i].votes
                 PROVE  Ballot(j, nodes[i].disk.term, i)'
      BY DEF VotesCast
    <3>1. /\ nodes[i].role = "candidate" /\ nodes'[i].votes = nodes[i].votes
          /\ nodes'[i].disk.term = nodes[i].disk.term
      BY <1>1, <1>4
    <3>2. j \in Node
      BY <3>1, BallotTypes
    <3>3. Ballot(j, nodes[i].disk.term, i)
      BY <3>1 DEF ElectionInv, VotesCast
    <3>4. <<nodes[i].disk.term, i>> \in nodes'[j].ballots
      BY <2>2, <3>2, <3>3 DEF Ballot
    <3> QED BY <3>1, <3>4 DEF Ballot
  <2>4. AnswersHonest'
    <3> SUFFICES ASSUME NEW r \in replies', r.req.type = "vote", r.ok
                 PROVE  Ballot(r.req.to, r.req.term, r.req.from)'
      BY DEF AnswersHonest
    <3>1. CASE r \in replies
      <4>1. r.req.to \in Node
        BY <3>1, ResponseTypes, RequestTypes DEF TypeInv, TypeOK
      <4>2. Ballot(r.req.to, r.req.term, r.req.from)
        BY <3>1 DEF ElectionInv, AnswersHonest
      <4> QED BY <2>2, <4>1, <4>2
    <3>2. CASE r.req = m
      BY <1>6, <3>2 DEF Ballot
    <3> QED BY <1>1, <3>1, <3>2
  <2>5. ReignsElected'
    <3> SUFFICES ASSUME NEW i \in Node, NEW u \in nodes'[i].reigns
                 PROVE  Majority(Backers(u, i)')
      BY DEF ReignsElected, Majority
    <3>1. u \in nodes[i].reigns
      BY <1>1, <1>4
    <3>2. Majority(Backers(u, i))
      BY <1>1, <3>1 DEF ElectionInv, ReignsElected
    <3> QED BY <2>2, <3>2, BackersGrow
  <2>6. FixedReigns'
    BY <1>1 DEF FixedReigns
  <2> QED BY <2>2, <2>3, <2>4, <2>5, <2>6 DEF ElectionInv
<1> QED BY <1>1, <1>5, <1>6 DEF VoteCast

(* Counting a vote, and taking office with a majority, preserve the         *)
(* election invariant.                                                      *)
LEMMA VoteGrantedElection ==
  ASSUME TypeInv, ElectionInv, NEW r \in replies, VoteGranted(r)
  PROVE  ElectionInv'
<1>1. r \in Response /\ r.req \in Request /\ r.req.to \in Node
      /\ r.req.from \in Node
  BY ResponseTypes, RequestTypes DEF TypeInv, TypeOK
<1>2. PICK i \in Node : i = r.req.from
  BY <1>1
<1> DEFINE n == nodes[i]
           p == nodes'[i]
           votes == n.votes \cup {r.req.to}
<1>3. /\ TypeInv' /\ Counted(n, p, r) /\ r.req.type = "vote" /\ r.ok
      /\ \A j \in Node \ {i} : nodes'[j] = nodes[j]
      /\ Silent
  BY <1>2, VoteGrantedStep
<1>4. n.role = "candidate" /\ r.req.term = n.disk.term
  BY <1>3 DEF Counted
<1>5. FixedLeader = Nil
  BY <1>4 DEF ElectionInv, FixedReigns
<1>6. votes \in SUBSET Node /\ n.reigns \in SUBSET Nat /\ n.disk.term \in Nat
  BY <1>1, BallotTypes
<1>7. \A j \in votes : Ballot(j, n.disk.term, i)
  <2>1. Ballot(r.req.to, n.disk.term, i)
    BY <1>2, <1>3, <1>4 DEF ElectionInv, AnswersHonest
  <2>2. \A j \in n.votes : Ballot(j, n.disk.term, i)
    BY <1>4 DEF ElectionInv, VotesCast
  <2> QED BY <2>1, <2>2
<1>8. /\ Later(n.disk, p.disk) /\ p.ballots = n.ballots
      /\ p.role = "candidate" => p.disk.term = n.disk.term /\ p.votes = votes
      /\ \/ p.reigns = n.reigns
         \/ Majority(votes) /\ p.reigns = n.reigns \cup {n.disk.term}
  BY <1>3 DEF Counted, Crowned, Later
<1>9. \A j \in Node : nodes'[j].ballots = nodes[j].ballots
  BY <1>3, <1>8
<1>10. VotesCast'
  <2> SUFFICES ASSUME NEW k \in Node, nodes'[k].role = "candidate",
                      NEW j \in nodes'[k].votes
               PROVE  Ballot(j, nodes[k].disk.term, k)'
    BY DEF VotesCast
  <2>1. CASE k = i
    <3>1. j \in votes /\ nodes'[k].disk.term = n.disk.term
      BY <1>8, <2>1
    <3>2. j \in Node /\ Ballot(j, n.disk.term, i)
      BY <1>6, <1>7, <3>1
    <3> QED BY <1>9, <2>1, <3>1, <3>2 DEF Ballot
  <2>2. CASE k # i
    <3>1. nodes'[k] = nodes[k]
      BY <1>3, <2>2
    <3>2. j \in Node
      BY <3>1, BallotTypes
    <3>3. Ballot(j, nodes[k].disk.term, k)
      BY <3>1 DEF ElectionInv, VotesCast
    <3> QED BY <1>9, <3>1, <3>2, <3>3 DEF Ballot
  <2> QED BY <2>1, <2>2
<1>11. AnswersHonest'
  <2> SUFFICES ASSUME NEW a \in replies', a.req.type = "vote", a.ok
               PROVE  Ballot(a.req.to, a.req.term, a.req.from)'
    BY DEF AnswersHonest
  <2>1. a \in replies
    BY <1>3 DEF Silent
  <2>2. a.req.to \in Node
    BY <2>1, ResponseTypes, RequestTypes DEF TypeInv, TypeOK
  <2>3. Ballot(a.req.to, a.req.term, a.req.from)
    BY <2>1 DEF ElectionInv, AnswersHonest
  <2> QED BY <1>9, <2>2, <2>3 DEF Ballot
<1>12. \A j \in Node : \A t, c : Ballot(j, t, c)' <=> Ballot(j, t, c)
  BY <1>9 DEF Ballot
<1>13. BallotsRecorded'
  <2> SUFFICES ASSUME NEW k \in Node, NEW t \in Nat, NEW c \in Node,
                      Ballot(k, t, c)'
               PROVE  /\ t <= nodes'[k].disk.term
                      /\ t = nodes'[k].disk.term => c = nodes'[k].disk.vote
    BY DEF BallotsRecorded
  <2>1. /\ t <= nodes[k].disk.term
        /\ t = nodes[k].disk.term => c = nodes[k].disk.vote
    BY <1>12 DEF ElectionInv, BallotsRecorded
  <2>2. Later(nodes[k].disk, nodes'[k].disk)
    BY <1>3, <1>8, KeepsReflexive DEF Keeps
  <2>3. nodes[k].disk.term \in Nat /\ nodes'[k].disk.term \in Nat
    BY <1>3, NodeTypes, StoreTypes DEF TypeInv, Sound
  <2>4. c # Nil
    BY NodeAssumption
  <2> QED BY <2>1, <2>2, <2>3, <2>4 DEF Later
<1>14. OneBallot'
  BY <1>12 DEF ElectionInv, OneBallot
<1>15. ReignsElected'
  <2> SUFFICES ASSUME NEW k \in Node, NEW u \in nodes'[k].reigns
               PROVE  Majority(Backers(u, k)')
    BY DEF ReignsElected, Majority
  <2>1. CASE u \in nodes[k].reigns
    <3>1. Majority(Backers(u, k))
      BY <1>5, <2>1 DEF ElectionInv, ReignsElected
    <3> QED BY <1>12, <3>1, BackersGrow
  <2>2. CASE u \notin nodes[k].reigns
    <3>1. k = i /\ u = n.disk.term /\ Majority(votes)
      BY <1>3, <1>8, <2>2
    <3>2. votes \subseteq Backers(u, k)' /\ Backers(u, k)' \in SUBSET Node
      BY <1>6, <1>7, <1>12, <3>1 DEF Backers
    <3> QED BY <1>6, <3>1, <3>2, MajorityGrows
  <2> QED BY <2>1, <2>2
<1>16. FixedReigns'
  BY <1>5 DEF FixedReigns
<1> QED BY <1>10, <1>11, <1>13, <1>14, <1>15, <1>16 DEF ElectionInv

(* A restart, of a fixed leader too, preserves the election invariant. *)
LEMMA OpenElection ==
  ASSUME TypeInv, ElectionInv, NEW i \in Node, Open(i)
  PROVE  ElectionInv'
<1>1. /\ TypeInv' /\ Reopened(nodes[i], nodes'[i], i)
      /\ \A j \in Node \ {i} : nodes'[j] = nodes[j]
      /\ Silent
  BY OpenStep
<1>2. /\ Later(nodes[i].disk, nodes'[i].disk)
      /\ nodes'[i].ballots = nodes[i].ballots /\ nodes'[i].role # "candidate"
      /\ nodes'[i].reigns = nodes[i].reigns \/ FixedLeader = i
  BY <1>1 DEF Reopened
<1>3. CASE nodes'[i].reigns = nodes[i].reigns
  <2>1. Keeps(nodes[i], nodes'[i])
    BY <1>2, <1>3 DEF Keeps
  <2>2. Quiet
    BY <1>1, <2>1, KeepsReflexive DEF Quiet
  <2> QED BY <1>1, <2>2, QuietElection
<1>4. CASE FixedLeader = i
  <2>1. FixedLeader # Nil
    BY <1>4, NodeAssumption
  <2>2. \A j \in Node : \A t, c : Ballot(j, t, c)' <=> Ballot(j, t, c)
    BY <1>1, <1>2 DEF Ballot
  <2>3. \A j \in Node : nodes'[j].role # "candidate"
    BY <1>1, <1>2, <2>1 DEF ElectionInv, FixedReigns
  <2>4. VotesCast'
    BY <2>3 DEF VotesCast
  <2>5. AnswersHonest'
    <3> SUFFICES ASSUME NEW a \in replies', a.req.type = "vote", a.ok
                 PROVE  Ballot(a.req.to, a.req.term, a.req.from)'
      BY DEF AnswersHonest
    <3>1. a \in replies
      BY <1>1 DEF Silent
    <3>2. a.req.to \in Node
      BY <3>1, ResponseTypes, RequestTypes DEF TypeInv, TypeOK
    <3>3. Ballot(a.req.to, a.req.term, a.req.from)
      BY <3>1 DEF ElectionInv, AnswersHonest
    <3> QED BY <2>2, <3>2, <3>3
  <2>6. BallotsRecorded'
    <3> SUFFICES ASSUME NEW k \in Node, NEW t \in Nat, NEW c \in Node,
                        Ballot(k, t, c)'
                 PROVE  /\ t <= nodes'[k].disk.term
                        /\ t = nodes'[k].disk.term => c = nodes'[k].disk.vote
      BY DEF BallotsRecorded
    <3>1. /\ t <= nodes[k].disk.term
          /\ t = nodes[k].disk.term => c = nodes[k].disk.vote
      BY <2>2 DEF ElectionInv, BallotsRecorded
    <3>2. Later(nodes[k].disk, nodes'[k].disk)
      BY <1>1, <1>2, KeepsReflexive DEF Keeps
    <3>3. nodes[k].disk.term \in Nat /\ nodes'[k].disk.term \in Nat
      BY <1>1, NodeTypes, StoreTypes DEF TypeInv, Sound
    <3>4. c # Nil
      BY NodeAssumption
    <3> QED BY <3>1, <3>2, <3>3, <3>4 DEF Later
  <2>7. OneBallot'
    BY <2>2 DEF ElectionInv, OneBallot
  <2>8. ReignsElected'
    BY <2>1 DEF ReignsElected
  <2>9. FixedReigns'
    BY <1>1, <1>4, <2>1, <2>3 DEF ElectionInv, FixedReigns
  <2> QED BY <2>4, <2>5, <2>6, <2>7, <2>8, <2>9 DEF ElectionInv
<1> QED BY <1>2, <1>3, <1>4

-----------------------------------------------------------------------------

(* Nobody has voted or led initially. *)
LEMMA InitElection == Init => ElectionInv
<1> SUFFICES ASSUME Init PROVE ElectionInv
  OBVIOUS
<1>1. \A i \in Node : /\ nodes[i].role = "follower"
                      /\ nodes[i].ballots = {} /\ nodes[i].reigns = {}
  BY DEF Init, NewNode
<1>2. replies = {}
  BY DEF Init
<1> QED BY <1>1, <1>2 DEF ElectionInv, VotesCast, AnswersHonest, BallotsRecorded,
           OneBallot, ReignsElected, FixedReigns, Ballot

(* Every step preserves the election invariant. *)
LEMMA NextElection ==
  TypeInv /\ ElectionInv /\ [Next]_vars => TypeInv' /\ ElectionInv'
<1> SUFFICES ASSUME TypeInv, ElectionInv, [Next]_vars
             PROVE  TypeInv' /\ ElectionInv'
  OBVIOUS
<1>1. TypeInv' /\ (Quiet \/ Voting)
  BY NextSound
<1>2. CASE Quiet
  BY <1>1, <1>2, QuietElection
<1>3. CASE Voting
  BY <1>1, <1>3, TickElection, OpenElection, RequestVoteElection,
     VoteGrantedElection DEF Voting
<1> QED BY <1>1, <1>2, <1>3

(* The election invariant holds throughout, on top of the type invariant. *)
LEMMA ElectionInvariant == Spec => [](TypeInv /\ ElectionInv)
<1>1. Init => TypeInv /\ ElectionInv
  BY InitSound, InitElection
<1> QED BY <1>1, NextElection, PTL DEF Spec

(* RequestVote and startElectionLocked persist a vote before it counts: in   *)
(* every run of every cluster, a node never backs two candidates in a term,  *)
(* however often it crashes between the steps of a handler.                  *)
THEOREM VoteOnce == Spec => []OneVotePerTerm
<1>1. TypeInv /\ ElectionInv => OneVotePerTerm
  <2> SUFFICES ASSUME TypeInv, ElectionInv, NEW i \in Node,
                      NEW b \in nodes[i].ballots, NEW c \in nodes[i].ballots,
                      b[1] = c[1]
               PROVE  b = c
    BY DEF OneVotePerTerm
  <2>1. b \in Nat \X Node /\ c \in Nat \X Node
    BY BallotTypes
  <2>2. b = <<b[1], b[2]>> /\ c = <<c[1], c[2]>>
    BY <2>1
  <2>3. Ballot(i, b[1], b[2]) /\ Ballot(i, b[1], c[2])
    BY <2>2 DEF Ballot
  <2>4. b[2] = c[2]
    BY <2>1, <2>3 DEF ElectionInv, OneBallot
  <2> QED BY <2>2, <2>4
<1> QED BY <1>1, ElectionInvariant, PTL

(* Two leaders of a term would share a backer, or the fixed leader's name. *)
LEMMA ReignsApart ==
  ASSUME TypeInv, ElectionInv
  PROVE  ElectionSafety
<1> SUFFICES ASSUME NEW i \in Node, NEW j \in Node,
                    NEW t \in nodes[i].reigns, t \in nodes[j].reigns
             PROVE  i = j
  BY DEF ElectionSafety
<1>1. CASE FixedLeader = Nil
  <2>1. Majority(Backers(t, i)) /\ Majority(Backers(t, j))
    BY <1>1 DEF ElectionInv, ReignsElected
  <2>2. Backers(t, i) \in SUBSET Node /\ Backers(t, j) \in SUBSET Node
    BY DEF Backers
  <2>3. PICK k \in Node : Ballot(k, t, i) /\ Ballot(k, t, j)
    BY <2>1, <2>2, MajoritiesMeet DEF Backers
  <2>4. t \in Nat
    BY BallotTypes
  <2> QED BY <2>3, <2>4 DEF ElectionInv, OneBallot
<1>2. CASE FixedLeader # Nil
  BY <1>2 DEF ElectionInv, FixedReigns
<1> QED BY <1>1, <1>2

(* becomeLeaderLocked never runs on two nodes in one term, with elections or *)
(* with a fixed leader, whatever the network loses, delays or repeats.       *)
THEOREM LeaderOnce == Spec => []ElectionSafety
<1>1. TypeInv /\ ElectionInv => ElectionSafety
  BY ReignsApart
<1> QED BY <1>1, ElectionInvariant, PTL

-----------------------------------------------------------------------------
(***************************************************************************)
(* What the *Locked functions do to one node, for every node and every     *)
(* store: each is shown to be a relation between the node before and the   *)
(* node after (Progress, Campaign, Led, Voted, Revived, Proposed,          *)
(* Install), stated index by index on the full log.                        *)
(*                                                                         *)
(* The functions branch on validate's verdict and may fail the node.  The  *)
(* lemmas show that a node that is Settled (its store whole, its machine   *)
(* at its commit index, its clients waiting for entries of its own term)   *)
(* writes only what validate accepts, and is settled again afterwards.     *)
(***************************************************************************)

-----------------------------------------------------------------------------
(* Sequences of entries. *)

(* The term of the entry at index k; the log starts after index 0. *)
TermAt(s, k) == IF k = 0 THEN 0 ELSE s[k].term

(* Terms are positive, at most bound, and never decrease. *)
Ordered(s, bound) ==
  \A k \in 1 .. Len(s) :
    /\ 0 < s[k].term /\ s[k].term <= bound
    /\ \A l \in k .. Len(s) : s[k].term <= s[l].term

(* s and u agree on their first k entries. *)
Alike(s, u, k) == \A x \in 1 .. k : s[x] = u[x]

(* Sequences of one length with the same entries are equal. *)
LEMMA SameSequence ==
  ASSUME NEW s \in Seq(Entry), NEW u \in Seq(Entry), Len(s) = Len(u),
         Alike(s, u, Len(s))
  PROVE  s = u
BY DEF Alike

(* What SubSeq(s, a, b) holds. *)
LEMMA SliceFacts ==
  ASSUME NEW s \in Seq(Entry), NEW a \in Nat, 1 <= a, NEW b \in Int, b <= Len(s),
         a <= b + 1
  PROVE  /\ SubSeq(s, a, b) \in Seq(Entry)
         /\ Len(SubSeq(s, a, b)) = b - a + 1
         /\ \A x \in 1 .. b - a + 1 : SubSeq(s, a, b)[x] = s[a + x - 1]
OBVIOUS

(* What s \o u holds. *)
LEMMA ConcatFacts ==
  ASSUME NEW s \in Seq(Entry), NEW u \in Seq(Entry)
  PROVE  /\ s \o u \in Seq(Entry)
         /\ Len(s \o u) = Len(s) + Len(u)
         /\ \A x \in 1 .. Len(s) : (s \o u)[x] = s[x]
         /\ \A x \in Len(s) + 1 .. Len(s) + Len(u) : (s \o u)[x] = u[x - Len(s)]
OBVIOUS

(* What Tail(s) holds. *)
LEMMA TailFacts ==
  ASSUME NEW s \in Seq(Entry), 1 <= Len(s)
  PROVE  /\ Tail(s) \in Seq(Entry)
         /\ Len(Tail(s)) = Len(s) - 1
         /\ \A x \in 1 .. Len(s) - 1 : Tail(s)[x] = s[x + 1]
OBVIOUS

(* The entries and terms of a log of entries. *)
LEMMA EntryFacts ==
  ASSUME NEW s \in Seq(Entry)
  PROVE  /\ Len(s) \in Nat
         /\ \A k \in 1 .. Len(s) : s[k] \in Entry /\ s[k].term \in Nat
         /\ \A k \in 0 .. Len(s) : TermAt(s, k) \in Nat
<1>1. \A k \in 1 .. Len(s) : s[k] \in Entry
  OBVIOUS
<1>2. \A e \in Entry : e.term \in Nat
  BY DEF Entry
<1> QED BY <1>1, <1>2 DEF TermAt

-----------------------------------------------------------------------------
(* Stores. *)

(* A store whose snapshot is the history up to its base, whose sentinel is   *)
(* the entry there, and whose log could have been written term by term.      *)
Whole(d) == /\ d \in Store /\ Bounds(d)
            /\ Len(d.snap) = d.base
            /\ d.base = 0 => d.log[1].term = 0
            /\ d.base # 0 => d.snap[d.base] = d.log[1]
            /\ Ordered(FullLog(d), d.term)

(* The full log: the snapshot's history, then the log after the sentinel. *)
LEMMA FullLogFacts ==
  ASSUME NEW d \in Store, 1 <= Len(d.log), Len(d.snap) = d.base
  PROVE  /\ FullLog(d) \in Seq(Entry)
         /\ Len(FullLog(d)) = d.base + Len(d.log) - 1
         /\ \A x \in 1 .. d.base : FullLog(d)[x] = d.snap[x]
         /\ \A x \in d.base + 1 .. Len(FullLog(d)) :
              FullLog(d)[x] = d.log[x - d.base + 1]
<1> DEFINE T == Tail(d.log)
           C == d.snap \o T
<1>1. /\ d.log \in Seq(Entry) /\ d.snap \in Seq(Entry)
      /\ d.base \in Nat /\ Len(d.log) \in Nat
  BY StoreTypes
<1>2. /\ T \in Seq(Entry) /\ Len(T) = Len(d.log) - 1
      /\ \A x \in 1 .. Len(d.log) - 1 : T[x] = d.log[x + 1]
  BY <1>1, TailFacts
<1> HIDE DEF T
<1>3. /\ C \in Seq(Entry) /\ Len(C) = Len(d.snap) + Len(T)
      /\ \A x \in 1 .. Len(d.snap) : C[x] = d.snap[x]
      /\ \A x \in Len(d.snap) + 1 .. Len(d.snap) + Len(T) :
           C[x] = T[x - Len(d.snap)]
  BY <1>1, <1>2, ConcatFacts
<1>4. FullLog(d) = C
  BY DEF FullLog, T
<1> HIDE DEF C
<1>5. Len(C) = d.base + Len(d.log) - 1
  BY <1>1, <1>2, <1>3
<1>6. ASSUME NEW x \in d.base + 1 .. Len(C) PROVE C[x] = d.log[x - d.base + 1]
  <2>1. x - d.base \in 1 .. Len(d.log) - 1 /\ x \in Len(d.snap) + 1 .. Len(d.snap) + Len(T)
    BY <1>1, <1>2, <1>5
  <2> QED BY <1>2, <1>3, <2>1
<1> QED BY <1>3, <1>4, <1>5, <1>6

(* The full log, index by index, as entryLocked reads it. *)
LEMMA WholeLog ==
  ASSUME NEW d, Whole(d)
  PROVE  /\ FullLog(d) \in Seq(Entry) /\ Len(FullLog(d)) = LastIndex(d)
         /\ Len(FullLog(d)) \in Nat
         /\ d.base <= d.commit /\ d.commit <= Len(FullLog(d))
         /\ Alike(d.snap, FullLog(d), d.base)
         /\ \A k \in d.base + 1 .. Len(FullLog(d)) : EntryAt(d, k) = FullLog(d)[k]
         /\ \A k \in d.base .. Len(FullLog(d)) :
              EntryAt(d, k).term = TermAt(FullLog(d), k)
<1> DEFINE L == FullLog(d)
<1>1. d \in Store /\ Bounds(d) /\ Len(d.snap) = d.base
  BY DEF Whole
<1>2. /\ 1 <= Len(d.log)
      /\ d.base \in Nat /\ d.commit \in Nat /\ Len(d.log) \in Nat
  BY <1>1, StoreTypes DEF Bounds
<1>5. /\ L \in Seq(Entry) /\ Len(L) = d.base + Len(d.log) - 1
      /\ \A x \in 1 .. d.base : L[x] = d.snap[x]
      /\ \A x \in d.base + 1 .. Len(L) : L[x] = d.log[x - d.base + 1]
  BY <1>1, <1>2, FullLogFacts
<1> HIDE DEF L
<1>6. Len(L) = LastIndex(d) /\ Len(L) \in Nat
  BY <1>2, <1>5 DEF LastIndex
<1>7. d.base <= d.commit /\ d.commit <= Len(L)
  BY <1>1, <1>6 DEF Bounds
<1>8. Alike(d.snap, L, d.base)
  BY <1>5 DEF Alike
<1>9. ASSUME NEW k \in d.base + 1 .. Len(L) PROVE EntryAt(d, k) = L[k]
  BY <1>5 DEF EntryAt
<1>10. ASSUME NEW k \in d.base .. Len(L) PROVE EntryAt(d, k).term = TermAt(L, k)
  <2>1. CASE k = d.base
    <3>1. EntryAt(d, k) = d.log[1]
      <4>1. k - d.base + 1 = 1
        BY <1>2, <2>1
      <4> QED BY <4>1 DEF EntryAt
    <3>2. CASE k = 0
      BY <2>1, <3>1, <3>2 DEF Whole, TermAt
    <3>3. CASE k # 0
      <4>1. L[k] = d.snap[d.base] /\ d.snap[d.base] = d.log[1]
        <5>1. d.base \in 1 .. d.base
          BY <1>2, <2>1, <3>3
        <5> QED BY <1>5, <2>1, <3>3, <5>1 DEF Whole
      <4> QED BY <3>1, <3>3, <4>1 DEF TermAt
    <3> QED BY <3>2, <3>3
  <2>2. CASE k # d.base
    <3>1. k \in d.base + 1 .. Len(L) /\ k # 0
      BY <1>2, <1>6, <2>2
    <3> QED BY <1>9, <3>1 DEF TermAt
  <2> QED BY <2>1, <2>2
<1> QED BY <1>5, <1>6, <1>7, <1>8, <1>9, <1>10 DEF L

(* A slice of the log is a slice of the full log. *)
LEMMA WholeBetween ==
  ASSUME NEW d, Whole(d), NEW a \in Nat, NEW b \in Int,
         d.base < a, a <= b + 1, b <= Len(FullLog(d))
  PROVE  /\ EntriesBetween(d, a, b) \in Seq(Entry)
         /\ Len(EntriesBetween(d, a, b)) = b - a + 1
         /\ \A x \in 1 .. b - a + 1 :
              EntriesBetween(d, a, b)[x] = FullLog(d)[a + x - 1]
<1> DEFINE L == FullLog(d)
           p == a - d.base + 1
           q == b - d.base + 1
<1>1. d \in Store /\ Bounds(d) /\ Len(d.snap) = d.base
  BY DEF Whole
<1>2. /\ 1 <= Len(d.log) /\ d.log \in Seq(Entry)
      /\ d.base \in Nat /\ d.commit \in Nat /\ Len(d.log) \in Nat
  BY <1>1, StoreTypes DEF Bounds
<1>3. /\ Len(L) = d.base + Len(d.log) - 1
      /\ \A x \in d.base + 1 .. Len(L) : L[x] = d.log[x - d.base + 1]
  BY <1>1, <1>2, FullLogFacts
<1> HIDE DEF L
<1>4. p \in Nat /\ 1 <= p /\ q \in Int /\ q <= Len(d.log) /\ p <= q + 1 /\ q - p + 1 = b - a + 1
  <2> DEFINE base == d.base
             len == Len(d.log)
  <2>1. b <= base + len - 1 /\ base < a /\ base \in Nat /\ len \in Nat
    BY <1>2, <1>3 DEF L
  <2> HIDE DEF base, len
  <2>2. /\ a - base + 1 \in Nat /\ 1 <= a - base + 1 /\ b - base + 1 \in Int
        /\ b - base + 1 <= len /\ a - base + 1 <= (b - base + 1) + 1
        /\ (b - base + 1) - (a - base + 1) + 1 = b - a + 1
    BY <2>1
  <2> QED BY <2>2 DEF base, len
<1>5. EntriesBetween(d, a, b) = SubSeq(d.log, p, q)
  BY DEF EntriesBetween
<1> HIDE DEF q
<1>6. /\ SubSeq(d.log, p, q) \in Seq(Entry)
      /\ Len(SubSeq(d.log, p, q)) = q - p + 1
      /\ \A x \in 1 .. q - p + 1 : SubSeq(d.log, p, q)[x] = d.log[p + x - 1]
  <2> HIDE DEF p
  <2> QED BY <1>2, <1>4, SliceFacts
<1>7. ASSUME NEW x \in 1 .. b - a + 1 PROVE d.log[p + x - 1] = L[a + x - 1]
  <2>1. a + x - 1 \in d.base + 1 .. Len(L) /\ (a + x - 1) - d.base + 1 = p + x - 1
    <3> DEFINE base == d.base
               top == Len(L)
    <3>1. base \in Nat /\ top \in Nat /\ base < a /\ b <= top
      BY <1>2, <1>3 DEF L
    <3> HIDE DEF base, top
    <3>2. a + x - 1 \in base + 1 .. top /\ (a + x - 1) - base + 1 = (a - base + 1) + x - 1
      BY <3>1
    <3> QED BY <3>2 DEF base, top
  <2> QED BY <1>3, <2>1
<1>8. q - p + 1 = b - a + 1
  BY <1>4
<1> HIDE DEF p
<1> QED BY <1>5, <1>6, <1>7, <1>8 DEF L

(* Terms that never decrease from one entry to the next never decrease. *)
LEMMA OrderedChain ==
  ASSUME NEW s \in Seq(Entry), NEW floor \in Nat, NEW bound \in Nat,
         OrderedTerms(s, floor, bound)
  PROVE  Ordered(s, bound) /\ \A k \in 1 .. Len(s) : floor <= s[k].term
<1>1. Len(s) \in Nat /\ \A k \in 1 .. Len(s) : s[k].term \in Nat
  BY EntryFacts
<1>2. \A k \in 1 .. Len(s) : 0 < s[k].term /\ s[k].term <= bound
  BY DEF OrderedTerms
<1>3. ASSUME NEW k \in 1 .. Len(s), NEW l \in k .. Len(s), ~(s[k].term <= s[l].term)
      PROVE  FALSE
  <2> DEFINE T == {x \in k .. Len(s) : ~(s[k].term <= s[x].term)}
  <2>1. T \in SUBSET Nat /\ l \in T
    BY <1>1, <1>3
  <2>2. PICK x \in T : \A y \in T : x <= y
    BY <2>1, LeastNatural
  <2>3. x # k /\ x \in k .. Len(s)
    BY <1>1, <2>2
  <2>4. x - 1 \in k .. Len(s) /\ ~(x <= x - 1) /\ x \in 1 .. Len(s) /\ x # 1
        /\ x - 1 \in 1 .. Len(s)
    BY <1>1, <2>3
  <2>5. x - 1 \notin T
    BY <2>2, <2>4
  <2>6. s[k].term <= s[x - 1].term
    BY <2>4, <2>5
  <2>7. s[x - 1].term <= s[x].term
    BY <2>4 DEF OrderedTerms
  <2>8. ~(s[k].term <= s[x].term)
    BY <2>2
  <2>9. s[k].term \in Nat /\ s[x - 1].term \in Nat /\ s[x].term \in Nat
    BY <1>1, <2>4
  <2> QED BY ONLY <2>6, <2>7, <2>8, <2>9
<1>4. Ordered(s, bound)
  BY <1>2, <1>3 DEF Ordered
<1>5. ASSUME NEW k \in 1 .. Len(s) PROVE floor <= s[k].term
  <2>1. 1 \in 1 .. Len(s) /\ k \in 1 .. Len(s)
    BY <1>1
  <2>2. floor <= s[1].term
    BY <2>1 DEF OrderedTerms
  <2>3. s[1].term <= s[k].term
    BY <1>4, <2>1 DEF Ordered
  <2> QED BY <1>1, <2>1, <2>2, <2>3
<1> QED BY <1>4, <1>5

(* A slice of an ordered log passes validate after the entry before it. *)
LEMMA OrderedSlice ==
  ASSUME NEW L \in Seq(Entry), NEW bound \in Nat, Ordered(L, bound),
         NEW s \in Seq(Entry), NEW a \in Nat, a + Len(s) <= Len(L),
         \A x \in 1 .. Len(s) : s[x] = L[a + x]
  PROVE  OrderedTerms(s, TermAt(L, a), bound)
<1>1. Len(s) \in Nat /\ Len(L) \in Nat
  OBVIOUS
<1> SUFFICES ASSUME NEW k \in 1 .. Len(s)
             PROVE  /\ 0 < s[k].term /\ s[k].term <= bound
                    /\ (IF k = 1 THEN TermAt(L, a) ELSE s[k - 1].term) <= s[k].term
  BY DEF OrderedTerms
<1>2. a + k \in 1 .. Len(L) /\ s[k] = L[a + k]
  BY <1>1
<1>3. 0 < s[k].term /\ s[k].term <= bound
  BY <1>2 DEF Ordered
<1>4. CASE k = 1
  <2>1. CASE a = 0
    <3>1. s[k].term \in Nat
      BY EntryFacts
    <3> QED BY <1>3, <1>4, <2>1, <3>1 DEF TermAt
  <2>2. CASE a # 0
    <3>1. a \in 1 .. Len(L) /\ a + 1 \in a .. Len(L)
      BY <1>1, <1>2, <1>4, <2>2
    <3> QED BY <1>2, <1>3, <1>4, <2>2, <3>1 DEF Ordered, TermAt
  <2> QED BY <2>1, <2>2
<1>5. CASE k # 1
  <2>1. k - 1 \in 1 .. Len(s) /\ a + (k - 1) \in 1 .. Len(L)
        /\ a + k \in a + (k - 1) .. Len(L)
    BY <1>1, <1>2, <1>5
  <2>2. s[k - 1] = L[a + (k - 1)]
    BY <2>1
  <2> QED BY <1>2, <1>3, <1>5, <2>1, <2>2 DEF Ordered
<1> QED BY <1>4, <1>5

(* A store written by diskStore.accept: what it holds, index by index. *)
Rewritten(L, M, from, entries) ==
  IF from = 0 THEN M = L
  ELSE /\ from - 1 <= Len(L) /\ Len(M) = from - 1 + Len(entries)
       /\ Alike(M, L, from - 1)
       /\ \A x \in 1 .. Len(entries) : M[from - 1 + x] = entries[x]

(* Replacing a suffix by ordered entries leaves an ordered log. *)
LEMMA RewrittenOrdered ==
  ASSUME NEW L \in Seq(Entry), NEW M \in Seq(Entry), NEW from \in Nat, from # 0,
         NEW entries \in Seq(Entry), Rewritten(L, M, from, entries),
         NEW old \in Nat, NEW new \in Nat, old <= new, Ordered(L, old),
         OrderedTerms(entries, TermAt(L, from - 1), new)
  PROVE  Ordered(M, new)
<1>1. /\ Len(L) \in Nat /\ Len(M) \in Nat /\ Len(entries) \in Nat
      /\ \A k \in 1 .. Len(L) : L[k].term \in Nat
      /\ \A k \in 1 .. Len(M) : M[k].term \in Nat
      /\ \A k \in 1 .. Len(entries) : entries[k].term \in Nat
      /\ TermAt(L, from - 1) \in Nat
  <2>1. from - 1 \in 0 .. Len(L)
    BY DEF Rewritten
  <2> QED BY <2>1, EntryFacts
<1>2. /\ Ordered(entries, new)
      /\ \A k \in 1 .. Len(entries) : TermAt(L, from - 1) <= entries[k].term
  BY <1>1, OrderedChain
<1>3. /\ from - 1 <= Len(L) /\ Len(M) = from - 1 + Len(entries)
      /\ \A x \in 1 .. from - 1 : M[x] = L[x]
      /\ \A x \in 1 .. Len(entries) : M[from - 1 + x] = entries[x]
  BY DEF Rewritten, Alike
<1>4. ASSUME NEW k \in 1 .. Len(M), k > from - 1
      PROVE  k - (from - 1) \in 1 .. Len(entries) /\ M[k] = entries[k - (from - 1)]
  <2>1. k - (from - 1) \in 1 .. Len(entries) /\ from - 1 + (k - (from - 1)) = k
    BY <1>1, <1>3, <1>4
  <2> QED BY <1>3, <2>1
<1>5. ASSUME NEW k \in 1 .. Len(M) PROVE 0 < M[k].term /\ M[k].term <= new
  <2>1. CASE k <= from - 1
    <3>1. k \in 1 .. Len(L) /\ M[k] = L[k]
      BY <1>1, <1>3, <2>1
    <3> QED BY <1>1, <3>1 DEF Ordered
  <2>2. CASE k > from - 1
    BY <1>2, <1>4, <2>2 DEF Ordered
  <2> QED BY <2>1, <2>2
<1>6. ASSUME NEW k \in 1 .. Len(M), NEW l \in k .. Len(M) PROVE M[k].term <= M[l].term
  <2>0. l \in 1 .. Len(M)
    BY <1>1
  <2>1. CASE l <= from - 1
    <3>1. k \in 1 .. Len(L) /\ l \in k .. Len(L) /\ M[k] = L[k] /\ M[l] = L[l]
      BY <1>1, <1>3, <2>1
    <3> QED BY <3>1 DEF Ordered
  <2>2. CASE k > from - 1
    <3>1. /\ k - (from - 1) \in 1 .. Len(entries) /\ M[k] = entries[k - (from - 1)]
          /\ l - (from - 1) \in 1 .. Len(entries) /\ M[l] = entries[l - (from - 1)]
          /\ l - (from - 1) \in k - (from - 1) .. Len(entries)
      BY <1>1, <1>4, <2>0, <2>2
    <3> QED BY <1>2, <3>1 DEF Ordered
  <2>3. CASE k <= from - 1 /\ l > from - 1
    <3>1. /\ k \in 1 .. Len(L) /\ from - 1 \in k .. Len(L) /\ from - 1 # 0
          /\ from - 1 \in 1 .. Len(L)
      <4> DEFINE f == from - 1
                 len == Len(L)
      <4>1. f \in Nat /\ len \in Nat /\ f <= len /\ k \in Nat /\ 1 <= k /\ k <= f
        BY ONLY <1>1, <1>3, <2>3, from \in Nat, from # 0, k \in 1 .. Len(M)
      <4> HIDE DEF f, len
      <4>2. k \in 1 .. len /\ f \in k .. len /\ f # 0 /\ f \in 1 .. len
        BY ONLY <4>1
      <4> QED BY ONLY <4>2 DEF f, len
    <3>2. M[k] = L[k] /\ L[k].term <= L[from - 1].term
      BY <1>3, <2>3, <3>1 DEF Ordered
    <3>3. TermAt(L, from - 1) = L[from - 1].term
      BY <3>1 DEF TermAt
    <3>4. /\ l - (from - 1) \in 1 .. Len(entries)
          /\ M[l] = entries[l - (from - 1)]
      BY <1>4, <2>0, <2>3
    <3>5. TermAt(L, from - 1) <= M[l].term
      BY <1>2, <3>4
    <3>6. M[k].term \in Nat /\ M[l].term \in Nat /\ L[from - 1].term \in Nat
      BY <1>1, <2>0, <3>1
    <3>7. TermAt(L, from - 1) \in Nat
      BY <3>3, <3>6
    <3>8. M[k].term <= TermAt(L, from - 1)
      BY <3>2, <3>3
    <3> QED BY ONLY <3>5, <3>6, <3>7, <3>8
  <2> QED BY <1>1, <2>1, <2>2, <2>3
<1> QED BY <1>5, <1>6 DEF Ordered

(* A log in order stays so when its store moves to a later term. *)
LEMMA OrderedUp ==
  ASSUME NEW s, NEW a \in Nat, NEW b \in Nat, a <= b, Ordered(s, a),
         \A k \in 1 .. Len(s) : s[k].term \in Nat
  PROVE  Ordered(s, b)
BY DEF Ordered

(* diskStore.accept of a validated record keeps a store whole. *)
LEMMA AcceptWhole ==
  ASSUME NEW d, Whole(d), NEW r \in HardState, Validate(d, r)
  PROVE  LET e == Accept(d, r)
         IN  /\ Whole(e) /\ Rewritten(FullLog(d), FullLog(e), r.from, r.entries)
             /\ e.base = d.base /\ e.snap = d.snap
             /\ e.term = r.term /\ e.vote = r.vote /\ e.commit = r.commit
<1> DEFINE e == Accept(d, r)
           L == FullLog(d)
           M == FullLog(e)
           base == d.base
           from == r.from
           entries == r.entries
           keep == SubSeq(d.log, 1, from - base)
<1>1. /\ d \in Store /\ Bounds(d) /\ Len(d.snap) = base
      /\ base \in Nat /\ d.log \in Seq(Entry) /\ Len(d.log) \in Nat
      /\ 1 <= Len(d.log) /\ d.snap \in Seq(Entry) /\ d.term \in Nat
      /\ base <= d.commit /\ d.commit \in Nat
  BY StoreTypes DEF Whole, Bounds
<1>2. /\ r.term \in Nat /\ r.vote \in Node \cup {Nil} /\ r.commit \in Nat
      /\ from \in Nat /\ entries \in Seq(Entry) /\ Len(entries) \in Nat
  BY DEF HardState
<1>3. /\ e \in Store /\ Bounds(e)
      /\ e.base = base /\ e.commit = r.commit
      /\ e.term = r.term /\ e.vote = r.vote
  BY <1>1, AcceptSound
<1>4. d.term <= r.term
  BY DEF Validate
<1>5. /\ L \in Seq(Entry) /\ Len(L) = base + Len(d.log) - 1 /\ Len(L) = LastIndex(d)
      /\ \A x \in 1 .. base : L[x] = d.snap[x]
      /\ \A x \in base + 1 .. Len(L) : L[x] = d.log[x - base + 1]
      /\ \A k \in base .. Len(L) : EntryAt(d, k).term = TermAt(L, k)
  BY <1>1, FullLogFacts, WholeLog
<1>6. CASE from = 0
  <2>1. e = [d EXCEPT !.term = r.term, !.vote = r.vote, !.commit = r.commit]
    BY <1>1, <1>6 DEF Accept, Store
  <2>2. e.snap = d.snap /\ e.log = d.log
    BY <1>1, <2>1 DEF Store
  <2>3. M = L
    BY <2>2 DEF FullLog
  <2>4. Ordered(M, e.term)
    <3>1. \A k \in 1 .. Len(L) : L[k].term \in Nat
      BY <1>5, EntryFacts
    <3>2. Ordered(L, d.term)
      BY DEF Whole
    <3> HIDE DEF L, M, e
    <3>3. d.term \in Nat /\ e.term \in Nat /\ d.term <= e.term
      BY <1>1, <1>2, <1>3, <1>4
    <3> QED BY <2>3, <3>1, <3>2, <3>3, OrderedUp
  <2> HIDE DEF e
  <2>5. Whole(e)
    BY <1>1, <1>3, <2>2, <2>4 DEF Whole
  <2> QED BY <1>3, <1>6, <2>2, <2>3, <2>5 DEF Rewritten, e
<1>7. CASE from # 0
  <2>1. /\ d.commit < from /\ from <= LastIndex(d) + 1
        /\ OrderedTerms(entries, EntryAt(d, from - 1).term, r.term)
    BY <1>7 DEF Validate
  <2>2. from - base \in 1 .. Len(d.log) /\ from - 1 \in base .. Len(L)
    <3> DEFINE top == d.commit
               len == Len(d.log)
               last == LastIndex(d)
    <3>1. /\ base \in Nat /\ top \in Nat /\ len \in Nat /\ from \in Nat /\ base <= top
          /\ top < from /\ from <= last + 1 /\ last = base + len - 1 /\ Len(L) = last
      BY <1>1, <1>2, <1>5, <2>1
    <3> HIDE DEF base, from, L, top, len, last
    <3>2. from - base \in 1 .. len /\ from - 1 \in base .. last
      BY ONLY <3>1
    <3> QED BY <3>1, <3>2 DEF len
  <2>3. /\ keep \in Seq(Entry) /\ Len(keep) = from - base
        /\ \A x \in 1 .. from - base : keep[x] = d.log[x]
    <3> HIDE DEF from, base
    <3> QED BY <1>1, <2>2
  <2>4. e = [d EXCEPT !.term = r.term, !.vote = r.vote, !.commit = r.commit,
                      !.log = keep \o entries]
    BY <1>1, <1>7 DEF Accept, Store
  <2>5. e.snap = d.snap /\ e.log = keep \o entries
    <3> DEFINE K == keep \o entries
    <3>1. e = [d EXCEPT !.term = r.term, !.vote = r.vote, !.commit = r.commit,
                        !.log = K]
      BY <2>4
    <3> HIDE DEF K, e
    <3>2. e.snap = d.snap /\ e.log = K
      BY <1>1, <3>1 DEF Store
    <3> QED BY <3>2 DEF K
  <2> HIDE DEF keep, e, from, base, entries
  <2>6. /\ Len(e.log) = (from - base) + Len(entries)
        /\ \A x \in 1 .. from - base : e.log[x] = d.log[x]
        /\ \A x \in from - base + 1 .. (from - base) + Len(entries) :
             e.log[x] = entries[x - (from - base)]
    <3>1. /\ Len(keep \o entries) = Len(keep) + Len(entries)
          /\ \A x \in 1 .. Len(keep) : (keep \o entries)[x] = keep[x]
          /\ \A x \in Len(keep) + 1 .. Len(keep) + Len(entries) :
               (keep \o entries)[x] = entries[x - Len(keep)]
      BY <1>2, <2>3, ConcatFacts
    <3> QED BY <2>3, <2>5, <3>1
  <2>7. /\ M \in Seq(Entry) /\ Len(M) = base + Len(e.log) - 1
        /\ \A x \in 1 .. base : M[x] = d.snap[x]
        /\ \A x \in base + 1 .. Len(M) : M[x] = e.log[x - base + 1]
    <3>1. 1 <= Len(e.log) /\ Len(e.snap) = e.base
      BY <1>1, <1>3, <2>5 DEF Bounds
    <3> QED BY <1>3, <2>5, <3>1, FullLogFacts
  <2> HIDE DEF L, M
  <2>8. Len(M) = from - 1 + Len(entries) /\ from - 1 <= Len(L)
    BY <1>1, <1>2, <2>2, <2>6, <2>7
  <2>9. ASSUME NEW x \in 1 .. from - 1 PROVE M[x] = L[x]
    <3>1. CASE x <= base
      BY <1>1, <1>5, <2>7, <3>1
    <3>2. CASE x > base
      <4>1. /\ x \in base + 1 .. Len(M) /\ x \in base + 1 .. Len(L)
            /\ x - base + 1 \in 1 .. from - base
        BY <1>1, <1>2, <2>8, <3>2
      <4> QED BY <1>5, <2>6, <2>7, <4>1
    <3> QED BY <1>1, <3>1, <3>2
  <2>10. ASSUME NEW x \in 1 .. Len(entries) PROVE M[from - 1 + x] = entries[x]
    <3>1. /\ from - 1 + x \in base + 1 .. Len(M)
          /\ (from - 1 + x) - base + 1 \in from - base + 1 .. (from - base) + Len(entries)
          /\ ((from - 1 + x) - base + 1) - (from - base) = x
      BY <1>1, <1>2, <2>2, <2>8
    <3> QED BY <2>6, <2>7, <3>1
  <2>11. Rewritten(L, M, from, entries)
    BY <1>7, <2>8, <2>9, <2>10 DEF Rewritten, Alike, from
  <2>12. Ordered(M, e.term)
    <3>1. Ordered(L, d.term)
      BY DEF Whole, L
    <3>2. OrderedTerms(entries, TermAt(L, from - 1), r.term)
      <4>1. EntryAt(d, from - 1).term = TermAt(L, from - 1)
        BY <1>5, <2>2
      <4> QED BY <2>1, <4>1
    <3>3. from # 0
      BY <1>7 DEF from
    <3> QED BY <1>1, <1>2, <1>3, <1>4, <1>5, <2>7, <2>11, <3>1, <3>2, <3>3,
               RewrittenOrdered
  <2>13. e.log[1] = d.log[1]
    BY <2>2, <2>6
  <2>14. Whole(e)
    BY <1>1, <1>3, <2>5, <2>12, <2>13 DEF Whole, base, M
  <2> QED BY <1>3, <2>5, <2>11, <2>14 DEF e, L, M, from, base, entries
<1> QED BY <1>6, <1>7

(* A checkpoint of the committed history moves the base and nothing else. *)
LEMMA CheckpointWhole ==
  ASSUME NEW d, Whole(d), NEW history \in Seq(Entry), Len(history) = d.commit,
         Alike(history, FullLog(d), d.commit),
         ValidateCheckpoint(d, d.commit)
  PROVE  LET e == AcceptCheckpoint(d, history, d.commit)
         IN  /\ Whole(e) /\ FullLog(e) = FullLog(d)
             /\ e.base = d.commit /\ e.snap = history
             /\ e.term = d.term /\ e.vote = d.vote /\ e.commit = d.commit
<1> DEFINE e == AcceptCheckpoint(d, history, d.commit)
           L == FullLog(d)
           M == FullLog(e)
           base == d.base
           commit == d.commit
           a == commit - base + 1
           kept == EntriesBetween(d, commit, LastIndex(d))
<1>1. /\ d \in Store /\ Bounds(d) /\ Len(d.snap) = base
      /\ base \in Nat /\ d.log \in Seq(Entry) /\ Len(d.log) \in Nat
      /\ 1 <= Len(d.log) /\ d.term \in Nat /\ commit \in Nat
      /\ LastIndex(d) = base + Len(d.log) - 1
  BY StoreTypes, BoundsFacts DEF Whole, Bounds
<1>2. base < commit /\ commit <= LastIndex(d)
  BY DEF ValidateCheckpoint
<1>3. /\ L \in Seq(Entry) /\ Len(L) = LastIndex(d)
      /\ \A x \in base + 1 .. Len(L) : L[x] = d.log[x - base + 1]
  BY <1>1, FullLogFacts
<1>4. /\ kept \in Seq(Entry) /\ Len(kept) = LastIndex(d) - commit + 1
      /\ \A x \in 1 .. Len(kept) : kept[x] = d.log[a + x - 1]
  <2> DEFINE b == LastIndex(d) - base + 1
  <2>1. /\ a \in Nat /\ 1 <= a /\ b \in Int /\ b <= Len(d.log) /\ a <= b + 1
        /\ b - a + 1 = LastIndex(d) - commit + 1
    <3> HIDE DEF base, commit
    <3> QED BY <1>1, <1>2
  <2>2. kept = SubSeq(d.log, a, b)
    BY DEF EntriesBetween
  <2> HIDE DEF a, b, kept
  <2>3. /\ kept \in Seq(Entry) /\ Len(kept) = b - a + 1
        /\ \A x \in 1 .. b - a + 1 : kept[x] = d.log[a + x - 1]
    BY <1>1, <2>1, <2>2, SliceFacts
  <2> QED BY <2>1, <2>3
<1> HIDE DEF kept
<1>5. /\ e \in Store /\ Bounds(e) /\ e.commit = commit /\ e.base = commit
      /\ e.term = d.term /\ e.vote = d.vote
  BY <1>1, AcceptCheckpointSound
<1>6. e.snap = history /\ e.log = kept
  <2>1. e = [d EXCEPT !.base = commit, !.snap = history, !.log = kept]
    BY DEF AcceptCheckpoint, kept
  <2> HIDE DEF e
  <2> QED BY <1>1, <2>1 DEF Store
<1> HIDE DEF e
<1>7. /\ M \in Seq(Entry) /\ Len(M) = commit + Len(kept) - 1
      /\ \A x \in 1 .. commit : M[x] = history[x]
      /\ \A x \in commit + 1 .. Len(M) : M[x] = kept[x - commit + 1]
  <2>1. 1 <= Len(e.log) /\ Len(e.snap) = e.base
    BY <1>5, <1>6 DEF Bounds
  <2> QED BY <1>5, <1>6, <2>1, FullLogFacts
<1>8. \A x \in 1 .. commit : history[x] = L[x]
  BY DEF Alike
<1> HIDE DEF L, M, base, commit
<1>9. Len(M) = Len(L)
  BY <1>1, <1>3, <1>4, <1>7
<1>10. ASSUME NEW x \in 1 .. Len(M) PROVE M[x] = L[x]
  <2>1. CASE x <= commit
    BY <1>1, <1>7, <1>8, <2>1
  <2>2. CASE x > commit
    <3>1. /\ x \in commit + 1 .. Len(M) /\ x \in base + 1 .. Len(L)
          /\ x - commit + 1 \in 1 .. Len(kept)
          /\ a + (x - commit + 1) - 1 = x - base + 1
      BY <1>1, <1>2, <1>3, <1>4, <1>9, <2>2
    <3> QED BY <1>3, <1>4, <1>7, <3>1
  <2> QED BY <1>1, <2>1, <2>2
<1>11. M = L
  BY <1>3, <1>7, <1>9, <1>10, SameSequence DEF Alike
<1>12. history[commit] = kept[1] /\ commit # 0
  <2>1. /\ 1 \in 1 .. Len(kept) /\ commit \in base + 1 .. Len(L) /\ commit \in 1 .. commit
        /\ a + 1 - 1 = commit - base + 1 /\ commit # 0
    BY <1>1, <1>2, <1>3, <1>4
  <2> QED BY <1>3, <1>4, <1>8, <2>1
<1>13. Ordered(M, e.term)
  BY <1>5, <1>11 DEF Whole, L
<1>14. Len(history) = commit
  BY DEF commit
<1>15. Whole(e)
  BY <1>5, <1>6, <1>12, <1>13, <1>14 DEF Whole, M
<1> QED BY <1>5, <1>6, <1>11, <1>15 DEF e, L, M, commit

-----------------------------------------------------------------------------
(* The *Locked functions on a node that has not failed. *)

(* A node whose machine is at index `applied` of its log, and whose waiting  *)
(* clients wait above it for entries of its own term.                        *)
Ready(n) ==
  /\ n \in NodeState /\ Whole(n.disk) /\ ~n.failed
  /\ n.role # "follower" => 0 < n.disk.term
  /\ n.disk.base <= n.applied /\ n.applied <= n.disk.commit
  /\ Len(n.machine) = n.applied /\ Alike(n.machine, FullLog(n.disk), n.applied)
  /\ \A w \in n.pending :
       /\ n.role = "leader" /\ n.applied < w.index
       /\ w.index <= Len(FullLog(n.disk))
       /\ FullLog(n.disk)[w.index] = [term |-> n.disk.term, cmd |-> w.cmd]
  /\ \A a \in n.answered : a.entry.cmd = a.cmd

(* Between two handlers an open node has applied what it committed. *)
Settled(n) == Ready(n) /\ n.applied = n.disk.commit

Fit(n) ==
  /\ n.mode # "down" => Settled(n)
  /\ n.mode = "down" => /\ n \in NodeState /\ Whole(n.disk) /\ ~n.failed
                        /\ n.role = "follower" /\ n.pending = {}
                        /\ \A a \in n.answered : a.entry.cmd = a.cmd

(* What a step leaves alone. *)
SameOffice(n, p) == /\ p.role = n.role /\ p.leader = n.leader
                    /\ p.votes = n.votes /\ p.next = n.next /\ p.match = n.match
SamePast(n, p) == /\ p.ballots = n.ballots /\ p.reigns = n.reigns
                  /\ p.stored = n.stored
SameWork(n, p) == /\ p.pending = n.pending /\ p.applied = n.applied
                  /\ p.machine = n.machine /\ p.answered = n.answered
SameLog(d, e) == FullLog(e) = FullLog(d) /\ e.term = d.term /\ e.vote = d.vote

(* Whoever p has answered and n has not got a committed entry of p. *)
AnswersFrom(n, p) ==
  \A a \in p.answered :
    \/ a \in n.answered
    \/ /\ 1 <= a.index /\ a.index <= p.disk.commit
       /\ a.entry = FullLog(p.disk)[a.index]

(* A node that only commits, applies, answers and compacts: a leader commits *)
(* what is Quorate and compacts what every other member has matched.         *)
Progress(n, p, i) ==
  /\ SameLog(n.disk, p.disk) /\ SameOffice(n, p) /\ SamePast(n, p)
  /\ p.mode = n.mode
  /\ \/ p.disk.commit = n.disk.commit
     \/ n.role = "leader" /\ p.disk.commit \in Quorate(n, i)
  /\ \/ p.disk.base = n.disk.base
     \/ /\ n.role = "leader" /\ p.disk.base = p.disk.commit
        /\ \A j \in Node \ {i} : n.match[j] >= p.disk.commit
  /\ AnswersFrom(n, p)

(* The record of persistLocked as the history `stored` sees it. *)
OwnOf(from, entries, term) ==
  {<<from + k - 1, term>> : k \in {x \in 1 .. Len(entries) : entries[x].term = term}}

(* p is node n after it has written one record. *)
Wrote(n, p, term, vote, commit, from, entries) ==
  /\ p \in NodeState /\ Whole(p.disk)
  /\ Rewritten(FullLog(n.disk), FullLog(p.disk), from, entries)
  /\ p.disk.term = term /\ p.disk.vote = vote /\ p.disk.commit = commit
  /\ p.disk.base = n.disk.base
  /\ p.mode = n.mode /\ p.failed = n.failed
  /\ SameOffice(n, p) /\ SameWork(n, p)
  /\ p.ballots = n.ballots /\ p.reigns = n.reigns
  /\ p.stored = n.stored \cup OwnOf(from, entries, term)

(* The same for a record without entries. *)
WroteHard(n, p, term, vote, commit) ==
  /\ p \in NodeState /\ Whole(p.disk)
  /\ FullLog(p.disk) = FullLog(n.disk)
  /\ p.disk.term = term /\ p.disk.vote = vote /\ p.disk.commit = commit
  /\ p.disk.base = n.disk.base
  /\ p.mode = n.mode /\ p.failed = n.failed
  /\ SameOffice(n, p) /\ SameWork(n, p) /\ SamePast(n, p)

(* persistLocked of a record that validate accepts. *)
LEMMA PersistExact ==
  ASSUME NEW n \in NodeState, Whole(n.disk),
         NEW term \in Nat, NEW vote \in Node \cup {Nil}, NEW commit \in Nat,
         NEW from \in Nat, NEW entries \in Seq(Entry),
         Validate(n.disk, Record(term, vote, commit, from, entries))
  PROVE  Wrote(n, PersistLocked(n, term, vote, commit, from, entries),
               term, vote, commit, from, entries)
<1> DEFINE r == Record(term, vote, commit, from, entries)
           p == PersistLocked(n, term, vote, commit, from, entries)
           e == Accept(n.disk, r)
           grown == n.stored \cup OwnOf(from, entries, term)
<1>1. /\ r \in HardState /\ r.term = term /\ r.vote = vote /\ r.commit = commit
      /\ r.from = from /\ r.entries = entries
  BY DEF HardState, Record
<1>2. p = [n EXCEPT !.disk = e, !.stored = grown]
  BY DEF PersistLocked, NodeState, OwnOf
<1>3. grown \in SUBSET (Nat \X Nat)
  <2>1. n.stored \in SUBSET (Nat \X Nat)
    BY DEF NodeState
  <2>2. OwnOf(from, entries, term) \in SUBSET (Nat \X Nat)
    <3>1. \A k \in 1 .. Len(entries) : from + k - 1 \in Nat
      OBVIOUS
    <3> QED BY <3>1 DEF OwnOf
  <2> QED BY <2>1, <2>2
<1> HIDE DEF r
<1>4. /\ Whole(e) /\ Rewritten(FullLog(n.disk), FullLog(e), from, entries)
      /\ e.base = n.disk.base /\ e.snap = n.disk.snap
      /\ e.term = term /\ e.vote = vote /\ e.commit = commit
  BY <1>1, AcceptWhole DEF r
<1>5. e \in Store
  BY <1>4 DEF Whole
<1> HIDE DEF e, grown, p
<1>6. /\ p \in NodeState /\ p.disk = e /\ p.stored = grown
      /\ p.mode = n.mode /\ p.failed = n.failed
      /\ p.role = n.role /\ p.leader = n.leader /\ p.votes = n.votes
      /\ p.next = n.next /\ p.match = n.match
      /\ p.pending = n.pending /\ p.applied = n.applied /\ p.machine = n.machine
      /\ p.ballots = n.ballots /\ p.reigns = n.reigns /\ p.answered = n.answered
  BY <1>2, <1>3, <1>5 DEF NodeState
<1> QED BY <1>4, <1>6 DEF Wrote, SameOffice, SameWork, grown, p

(* A ready node's log, commit and base, as natural numbers in order. *)
LEMMA ReadyFacts ==
  ASSUME NEW n, Ready(n)
  PROVE  /\ n \in NodeState /\ n.disk \in Store /\ Whole(n.disk) /\ Bounds(n.disk)
         /\ FullLog(n.disk) \in Seq(Entry) /\ Len(FullLog(n.disk)) \in Nat
         /\ Len(FullLog(n.disk)) = LastIndex(n.disk)
         /\ n.disk.base \in Nat /\ n.disk.commit \in Nat /\ n.disk.term \in Nat
         /\ n.applied \in Nat /\ n.disk.vote \in Node \cup {Nil}
         /\ n.disk.base <= n.disk.commit /\ n.disk.commit <= Len(FullLog(n.disk))
         /\ n.machine \in Seq(Entry)
<1>1. n \in NodeState /\ Whole(n.disk)
  BY DEF Ready
<1>2. n.disk \in Store /\ Bounds(n.disk)
  BY <1>1 DEF Whole
<1>3. /\ n.disk.base \in Nat /\ n.disk.commit \in Nat /\ n.disk.term \in Nat
      /\ n.disk.vote \in Node \cup {Nil}
  BY <1>2 DEF Store
<1> QED BY <1>1, <1>2, <1>3, WholeLog, NodeTypes

(* maybeSnapshotLocked of a node that has applied what it committed: validate *)
(* accepts the checkpoint, and only the base and the snapshot move.           *)
LEMMA MaybeSnapshotExact ==
  ASSUME NEW n, Ready(n), n.applied = n.disk.commit, NEW i \in Node
  PROVE  LET p == MaybeSnapshotLocked(n, i)
         IN  /\ Ready(p) /\ p.applied = p.disk.commit /\ Progress(n, p, i)
             /\ SameWork(n, p)
<1> DEFINE p == MaybeSnapshotLocked(n, i)
           d == n.disk
           e == AcceptCheckpoint(d, n.machine, d.commit)
<1>1. /\ n \in NodeState /\ d \in Store /\ Whole(d) /\ Bounds(d)
      /\ FullLog(d) \in Seq(Entry) /\ Len(FullLog(d)) \in Nat
      /\ Len(FullLog(d)) = LastIndex(d)
      /\ d.base \in Nat /\ d.commit \in Nat /\ d.term \in Nat
      /\ d.base <= d.commit /\ d.commit <= Len(FullLog(d))
      /\ n.machine \in Seq(Entry)
  BY ReadyFacts
<1>2. CASE ~Compactable(n, i)
  BY <1>2 DEF MaybeSnapshotLocked, Progress, AnswersFrom, SameLog, SameOffice, SamePast, SameWork
<1>3. CASE Compactable(n, i)
  <2>1. d.base < d.commit
    <3>1. SnapshotEvery # 0 /\ d.commit - d.base >= SnapshotEvery /\ SnapshotEvery \in Nat
      BY <1>3, LimitAssumption DEF Compactable
    <3> HIDE DEF d
    <3> QED BY <1>1, <3>1
  <2>2. ValidateCheckpoint(d, d.commit)
    <3> DEFINE s == EntriesBetween(d, d.commit + 1, LastIndex(d))
               L == FullLog(d)
               c == d.commit
    <3>1. /\ s \in Seq(Entry) /\ Len(s) = Len(L) - (c + 1) + 1
          /\ \A x \in 1 .. Len(L) - (c + 1) + 1 : s[x] = L[(c + 1) + x - 1]
      <4> DEFINE lo == c + 1
                 hi == Len(L)
      <4>1. /\ lo \in Nat /\ hi \in Int /\ d.base < lo /\ lo <= hi + 1
            /\ hi <= Len(FullLog(d)) /\ hi = LastIndex(d)
        BY <1>1
      <4> HIDE DEF lo, hi
      <4>2. /\ EntriesBetween(d, lo, hi) \in Seq(Entry)
            /\ Len(EntriesBetween(d, lo, hi)) = hi - lo + 1
            /\ \A x \in 1 .. hi - lo + 1 :
                 EntriesBetween(d, lo, hi)[x] = FullLog(d)[lo + x - 1]
        BY <1>1, <4>1, WholeBetween
      <4> QED BY <4>1, <4>2 DEF lo, hi
    <3>2. EntryAt(d, c).term = TermAt(L, c)
      BY <1>1, WholeLog
    <3>3. Ordered(L, d.term)
      BY <1>1 DEF Whole
    <3> HIDE DEF s, L, c
    <3>4. c \in Nat /\ c <= Len(L) /\ L \in Seq(Entry) /\ Len(L) \in Nat
      BY <1>1 DEF c, L
    <3>5. c + Len(s) <= Len(L) /\ \A x \in 1 .. Len(s) : s[x] = L[c + x]
      BY <3>1, <3>4
    <3>6. OrderedTerms(s, TermAt(L, c), d.term)
      BY <1>1, <3>1, <3>3, <3>4, <3>5, OrderedSlice
    <3> QED BY <1>1, <2>1, <3>2, <3>6 DEF ValidateCheckpoint, s, L, c
  <2>3. p = [n EXCEPT !.disk = e]
    BY <1>1, <1>3, <2>2 DEF MaybeSnapshotLocked, NodeState
  <2>4. Len(n.machine) = d.commit /\ Alike(n.machine, FullLog(d), d.commit)
    BY DEF Ready
  <2>5. /\ Whole(e) /\ FullLog(e) = FullLog(d) /\ e.base = d.commit
        /\ e.term = d.term /\ e.vote = d.vote /\ e.commit = d.commit
    BY <1>1, <2>2, <2>4, CheckpointWhole
  <2>6. e \in Store
    BY <2>5 DEF Whole
  <2> HIDE DEF e, p
  <2>7. /\ p \in NodeState /\ p.disk = e
        /\ p.mode = n.mode /\ p.failed = n.failed
        /\ SameOffice(n, p) /\ SameWork(n, p) /\ SamePast(n, p)
    BY <1>1, <2>3, <2>6 DEF NodeState, SameOffice, SameWork, SamePast
  <2>8. /\ n.role = "leader" /\ \A j \in Node \ {i} : n.match[j] >= d.commit
    BY <1>3 DEF Compactable
  <2>9. Progress(n, p, i)
    BY <2>5, <2>7, <2>8 DEF Progress, AnswersFrom, SameLog, SameWork
  <2>10. Ready(p)
    BY <1>1, <2>5, <2>7 DEF Ready, SameWork, SameOffice
  <2> QED BY <2>5, <2>7, <2>9, <2>10 DEF p, SameWork
<1> QED BY <1>2, <1>3

(* applyLocked: the machine reaches the commit index, and a client that is    *)
(* answered gets the entry at its index.                                      *)
LEMMA ApplyExact ==
  ASSUME NEW n, Ready(n), NEW i \in Node
  PROVE  LET p == ApplyLocked(n, i)
         IN  /\ Ready(p) /\ p.applied = p.disk.commit /\ Progress(n, p, i)
             /\ p.disk.commit = n.disk.commit
<1> DEFINE p == ApplyLocked(n, i)
           d == n.disk
           L == FullLog(d)
           done == {w \in n.pending : n.applied < w.index /\ w.index <= d.commit}
           answer(w) == [index |-> w.index, cmd |-> w.cmd,
                         before |-> w.before, entry |-> EntryAt(d, w.index)]
           new == {answer(w) : w \in done}
           more == EntriesBetween(d, n.applied + 1, d.commit)
           machine == n.machine \o more
           rest == n.pending \ done
           all == n.answered \cup new
           a == [n EXCEPT !.applied = Larger(@, d.commit), !.machine = @ \o more,
                          !.pending = @ \ done, !.answered = @ \cup new]
<1>1. /\ n \in NodeState /\ d \in Store /\ Whole(d) /\ Bounds(d)
      /\ L \in Seq(Entry) /\ Len(L) \in Nat /\ Len(L) = LastIndex(d)
      /\ d.base \in Nat /\ d.commit \in Nat /\ d.term \in Nat /\ n.applied \in Nat
      /\ d.base <= d.commit /\ d.commit <= Len(L) /\ n.machine \in Seq(Entry)
      /\ n.pending \in SUBSET Waiter /\ n.answered \in SUBSET Answer
  BY ReadyFacts, NodeTypes
<1>2. /\ d.base <= n.applied /\ n.applied <= d.commit /\ Len(n.machine) = n.applied
      /\ \A x \in 1 .. n.applied : n.machine[x] = L[x]
  BY DEF Ready, Alike
<1>3. Larger(n.applied, d.commit) = d.commit
  BY <1>1, <1>2 DEF Larger
<1>4. /\ machine \in Seq(Entry) /\ Len(machine) = d.commit
      /\ Alike(machine, L, d.commit)
  <2> DEFINE lo == n.applied + 1
             hi == d.commit
             ap == n.applied
  <2>1. /\ lo \in Nat /\ hi \in Int /\ d.base < lo /\ lo <= hi + 1
        /\ hi <= Len(FullLog(d)) /\ ap \in Nat /\ ap = lo - 1 /\ ap <= hi
    <3> DEFINE base == d.base
               top == Len(FullLog(d))
    <3>1. /\ base \in Nat /\ ap \in Nat /\ hi \in Nat /\ base <= ap /\ ap <= hi
          /\ hi <= top /\ lo = ap + 1
      BY <1>1, <1>2
    <3> HIDE DEF base, top, ap, hi, lo
    <3>2. lo \in Nat /\ hi \in Int /\ base < lo /\ lo <= hi + 1 /\ ap = lo - 1
      BY ONLY <3>1
    <3> QED BY <3>1, <3>2 DEF base, top
  <2>2. more = EntriesBetween(d, lo, hi) /\ Len(n.machine) = ap
    BY <1>2
  <2> HIDE DEF lo, hi, more, ap
  <2>3. /\ more \in Seq(Entry) /\ Len(more) = hi - lo + 1
        /\ \A x \in 1 .. hi - lo + 1 : more[x] = FullLog(d)[lo + x - 1]
    BY <1>1, <2>1, <2>2, WholeBetween
  <2>4. /\ machine \in Seq(Entry) /\ Len(machine) = Len(n.machine) + Len(more)
        /\ \A x \in 1 .. Len(n.machine) : machine[x] = n.machine[x]
        /\ \A x \in Len(n.machine) + 1 .. Len(n.machine) + Len(more) :
             machine[x] = more[x - Len(n.machine)]
    BY <1>1, <2>3, ConcatFacts
  <2> HIDE DEF machine
  <2>5. Len(machine) = hi
    BY <2>1, <2>2, <2>3, <2>4
  <2>6. ASSUME NEW x \in 1 .. hi PROVE machine[x] = L[x]
    <3>1. CASE x <= ap
      <4>1. x \in 1 .. ap /\ x \in 1 .. Len(n.machine)
        BY <2>1, <2>2, <3>1
      <4> QED BY <1>2, <2>4, <4>1 DEF ap
    <3>2. CASE x > ap
      <4>1. x \in ap + 1 .. ap + Len(more) /\ x - ap \in 1 .. hi - lo + 1
            /\ lo + (x - ap) - 1 = x
        BY <2>1, <2>3, <3>2
      <4> QED BY <2>2, <2>3, <2>4, <4>1
    <3> QED BY <2>1, <3>1, <3>2
  <2> QED BY <2>4, <2>5, <2>6 DEF hi, Alike
<1>5. \A w \in n.pending : w.index \in Nat /\ w.cmd \in Operation /\ w.before \in SUBSET Nat
  BY <1>1 DEF Waiter
<1>6. \A w \in n.pending :
        /\ n.role = "leader" /\ n.applied < w.index /\ w.index <= Len(L)
        /\ L[w.index] = [term |-> d.term, cmd |-> w.cmd]
  BY DEF Ready
<1>7. ASSUME NEW w \in done
      PROVE  /\ answer(w) \in Answer /\ 1 <= w.index /\ w.index <= d.commit
             /\ answer(w).entry = L[w.index] /\ answer(w).entry.cmd = answer(w).cmd
             /\ answer(w).index = w.index
  <2>1. w \in n.pending /\ n.applied < w.index /\ w.index <= d.commit
    OBVIOUS
  <2>2. w.index \in d.base + 1 .. Len(L) /\ 1 <= w.index /\ w.index \in 1 .. Len(L)
    BY <1>1, <1>2, <1>5, <2>1
  <2>3. EntryAt(d, w.index) = L[w.index] /\ L[w.index] \in Entry
    BY <1>1, <2>2, WholeLog
  <2>4. L[w.index].cmd = w.cmd
    <3>1. L[w.index] = [term |-> d.term, cmd |-> w.cmd]
      BY <1>6, <2>1
    <3> HIDE DEF L
    <3> QED BY <3>1
  <2> HIDE DEF d, L
  <2> QED BY <1>5, <2>1, <2>2, <2>3, <2>4 DEF Answer
<1>8. /\ new \in SUBSET Answer
      /\ \A b \in new : /\ b.entry.cmd = b.cmd /\ 1 <= b.index /\ b.index <= d.commit
                        /\ b.entry = L[b.index]
  BY <1>7
<1>9. ASSUME NEW w \in rest PROVE w \in n.pending /\ d.commit < w.index
  <2>1. w \in n.pending /\ ~(n.applied < w.index /\ w.index <= d.commit)
    OBVIOUS
  <2>2. n.applied < w.index /\ w.index \in Nat /\ d.commit \in Nat
    BY <1>1, <1>5, <1>6, <2>1
  <2> HIDE DEF d
  <2> QED BY <2>1, <2>2
<1> HIDE DEF new, more, done
<1>10. a = [n EXCEPT !.applied = d.commit, !.machine = machine,
                     !.pending = rest, !.answered = all]
  BY <1>3
<1>11. rest \in SUBSET Waiter /\ all \in SUBSET Answer
  BY <1>1, <1>8
<1>12. p = MaybeSnapshotLocked(a, i)
  BY DEF ApplyLocked, new, more, done
<1> HIDE DEF machine, rest, all, a, p
<1>13. /\ a \in NodeState /\ a.disk = d /\ a.applied = d.commit
       /\ a.machine = machine /\ a.pending = rest /\ a.answered = all
       /\ a.mode = n.mode /\ a.failed = n.failed
       /\ SameOffice(n, a) /\ SamePast(n, a)
  <2> DEFINE k == d.commit
  <2>1. /\ k \in Nat /\ machine \in Seq(Entry)
        /\ a = [n EXCEPT !.applied = k, !.machine = machine, !.pending = rest, !.answered = all]
    BY <1>1, <1>4, <1>10
  <2> HIDE DEF k
  <2>2. a \in NodeState /\ a.applied = k
    BY <1>1, <1>11, <2>1 DEF NodeState
  <2>3. /\ a.disk = n.disk /\ a.machine = machine /\ a.pending = rest /\ a.answered = all
        /\ a.mode = n.mode /\ a.failed = n.failed
    BY <1>1, <2>1 DEF NodeState
  <2>4. SameOffice(n, a) /\ SamePast(n, a)
    BY <1>1, <2>1 DEF NodeState, SameOffice, SamePast
  <2> QED BY <2>2, <2>3, <2>4 DEF k
<1>14. Ready(a)
  <2>1. \A b \in all : b.entry.cmd = b.cmd
    BY <1>8 DEF Ready, all
  <2>2. \A w \in rest :
          /\ n.role = "leader" /\ d.commit < w.index /\ w.index <= Len(L)
          /\ L[w.index] = [term |-> d.term, cmd |-> w.cmd]
    BY <1>6, <1>9
  <2>3. ~n.failed /\ (n.role # "follower" => 0 < d.term) /\ d.commit <= d.commit
    BY <1>1 DEF Ready
  <2> QED BY <1>1, <1>4, <1>13, <2>1, <2>2, <2>3 DEF Ready, SameOffice, L, d
<1>15. /\ Ready(p) /\ p.applied = p.disk.commit /\ Progress(a, p, i)
       /\ SameWork(a, p)
  BY <1>12, <1>13, <1>14, MaybeSnapshotExact
<1>16. p.disk.commit = n.disk.commit
  BY <1>13, <1>15 DEF SameWork, d
<1>17. \A b \in p.answered :
         \/ b \in n.answered
         \/ /\ 1 <= b.index /\ b.index <= p.disk.commit
            /\ b.entry = FullLog(p.disk)[b.index]
  BY <1>8, <1>13, <1>15, <1>16 DEF SameWork, all, Progress, AnswersFrom, SameLog, L, d
<1>18. Progress(n, p, i)
  BY <1>13, <1>15, <1>16, <1>17
     DEF Progress, AnswersFrom, SameOffice, SamePast, SameLog, d
<1> QED BY <1>15, <1>16, <1>18 DEF p

(* persistLocked of a term, a vote and a commit index without entries. *)
LEMMA PersistHard ==
  ASSUME NEW n \in NodeState, Whole(n.disk), NEW term \in Nat,
         NEW vote \in Node \cup {Nil}, NEW commit \in Nat,
         n.disk.term <= term, n.disk.commit <= commit,
         commit <= Len(FullLog(n.disk)),
         term = n.disk.term /\ n.disk.vote # Nil => vote = n.disk.vote
  PROVE  WroteHard(n, PersistLocked(n, term, vote, commit, 0, <<>>),
                   term, vote, commit)
<1> DEFINE p == PersistLocked(n, term, vote, commit, 0, <<>>)
           r == Record(term, vote, commit, 0, <<>>)
<1>1. Validate(n.disk, r)
  <2>1. Len(FullLog(n.disk)) = LastIndex(n.disk)
    BY WholeLog
  <2> QED BY <2>1 DEF Validate, Record
<1>2. <<>> \in Seq(Entry) /\ 0 \in Nat
  OBVIOUS
<1> HIDE DEF r
<1>3. Wrote(n, p, term, vote, commit, 0, <<>>)
  BY <1>1, <1>2, PersistExact DEF r
<1> HIDE DEF p
<1>4. OwnOf(0, <<>>, term) = {}
  <2>1. ASSUME NEW x \in OwnOf(0, <<>>, term) PROVE FALSE
    <3>1. PICK k : k \in 1 .. Len(<<>>)
      BY DEF OwnOf
    <3> QED BY <3>1
  <2> QED BY <2>1
<1>5. p.stored = n.stored
  BY <1>3, <1>4 DEF Wrote
<1>6. FullLog(p.disk) = FullLog(n.disk)
  BY <1>3 DEF Rewritten, Wrote
<1> QED BY <1>3, <1>5, <1>6 DEF SamePast, Wrote, WroteHard, p

(* A ready node stays ready when its term, vote and commit index advance. *)
LEMMA HardReady ==
  ASSUME NEW n, Ready(n), NEW p \in NodeState, Whole(p.disk), ~p.failed,
         FullLog(p.disk) = FullLog(n.disk), p.disk.base = n.disk.base,
         n.disk.commit <= p.disk.commit, n.disk.term <= p.disk.term,
         p.applied = n.applied, p.machine = n.machine,
         p.answered = n.answered,
         p.pending = {} \/ (p.pending = n.pending /\ p.role = n.role
                              /\ p.disk.term = n.disk.term),
         p.role # "follower" => 0 < p.disk.term
  PROVE  Ready(p)
<1>1. n.applied <= p.disk.commit
  <2>1. n.applied \in Nat /\ n.disk.commit \in Nat /\ p.disk.commit \in Nat
    BY ReadyFacts DEF Whole, Store
  <2> QED BY <2>1 DEF Ready
<1>2. \A w \in p.pending :
       /\ p.role = "leader" /\ p.applied < w.index
       /\ w.index <= Len(FullLog(p.disk))
       /\ FullLog(p.disk)[w.index] = [term |-> p.disk.term, cmd |-> w.cmd]
  BY DEF Ready
<1> QED BY <1>1, <1>2 DEF Ready

(* advanceCommitLocked commits something Quorate or nothing. *)
LEMMA AdvanceExact ==
  ASSUME NEW n, Ready(n), n.applied = n.disk.commit, NEW i \in Node
  PROVE  LET p == AdvanceCommitLocked(n, i)
         IN  /\ Ready(p) /\ p.applied = p.disk.commit /\ Progress(n, p, i)
<1> DEFINE p == AdvanceCommitLocked(n, i)
           d == n.disk
           c == Max(Quorate(n, i))
           a == PersistLocked(n, d.term, d.vote, c, 0, <<>>)
<1>1. /\ n \in NodeState /\ d \in Store /\ Whole(d) /\ Bounds(d)
      /\ Len(FullLog(d)) = LastIndex(d)
      /\ d.commit \in Nat /\ d.term \in Nat /\ d.vote \in Node \cup {Nil}
  BY ReadyFacts
<1>2. CASE n.role # "leader" \/ ~Available(n) \/ Quorate(n, i) = {}
  <2>1. p = n
    BY <1>2 DEF AdvanceCommitLocked
  <2> QED BY <2>1 DEF Progress, AnswersFrom, SameLog, SameOffice, SamePast
<1>3. CASE ~(n.role # "leader" \/ ~Available(n) \/ Quorate(n, i) = {})
  <2>1. c \in Nat /\ d.commit < c /\ c <= LastIndex(d)
    BY <1>1, <1>3, QuorateType
  <2>2. c \in Quorate(n, i)
    <3>1. Quorate(n, i) \in SUBSET ((d.commit + 1) .. LastIndex(d))
      BY DEF Quorate
    <3>2. d.commit + 1 \in Nat /\ LastIndex(d) \in Nat
      BY <1>1, BoundsFacts
    <3> QED BY <1>3, <3>1, <3>2, MaxInSet
  <2> HIDE DEF c
  <2>3. d.commit <= c /\ d.term <= d.term
    BY <1>1, <2>1
  <2>14. WroteHard(n, a, d.term, d.vote, c)
    BY <1>1, <2>1, <2>3, PersistHard
  <2>4. /\ a \in NodeState /\ Whole(a.disk)
        /\ FullLog(a.disk) = FullLog(d)
        /\ a.disk.term = d.term /\ a.disk.vote = d.vote /\ a.disk.commit = c
        /\ a.disk.base = d.base
        /\ a.mode = n.mode /\ a.failed = n.failed
        /\ SameOffice(n, a) /\ SameWork(n, a) /\ SamePast(n, a)
    BY <2>14 DEF WroteHard
  <2>5. p = IF a.failed THEN a ELSE ApplyLocked(a, i)
    BY <1>3 DEF AdvanceCommitLocked, c
  <2> HIDE DEF a, p
  <2>6. Ready(a)
    <3>1. ~n.failed /\ (n.role # "follower" => 0 < d.term)
      BY DEF Ready
    <3> QED BY <2>3, <2>4, <3>1, HardReady DEF SameOffice, SameWork
  <2>7. p = ApplyLocked(a, i)
    BY <2>5, <2>6 DEF Ready
  <2>8. /\ Ready(p) /\ p.applied = p.disk.commit /\ Progress(a, p, i)
        /\ p.disk.commit = a.disk.commit
    BY <2>6, <2>7, ApplyExact
  <2>9. n.role = "leader" /\ a.answered = n.answered
    BY <1>3, <2>4 DEF SameWork
  <2>10. Progress(n, p, i)
    BY <2>2, <2>4, <2>8, <2>9 DEF Progress, AnswersFrom, SameOffice, SamePast, SameLog
  <2> QED BY <2>8, <2>10 DEF p
<1> QED BY <1>2, <1>3

(* stepDownLocked: the node follows, in the term it has heard of. *)
LEMMA StepDownExact ==
  ASSUME NEW n, Ready(n), n.applied = n.disk.commit, NEW term \in Nat,
         n.disk.term <= term, NEW leader \in Node \cup {Nil}
  PROVE  LET p == StepDownLocked(n, term, leader)
         IN  /\ Ready(p) /\ p.applied = p.disk.commit
             /\ FullLog(p.disk) = FullLog(n.disk) /\ p.disk.commit = n.disk.commit
             /\ p.disk.base = n.disk.base /\ p.disk.term = term
             /\ p.disk.vote = IF n.disk.term < term THEN Nil ELSE n.disk.vote
             /\ p.role = "follower" /\ p.leader = leader /\ p.mode = n.mode
             /\ SamePast(n, p) /\ p.answered = n.answered
<1> DEFINE p == StepDownLocked(n, term, leader)
           d == n.disk
           a == IF term > d.term THEN PersistLocked(n, term, Nil, d.commit, 0, <<>>)
                ELSE n
<1>1. /\ n \in NodeState /\ d \in Store /\ Whole(d) /\ Bounds(d)
      /\ d.commit \in Nat /\ d.term \in Nat /\ d.commit <= Len(FullLog(d))
  BY ReadyFacts
<1>2. /\ a \in NodeState /\ Whole(a.disk)
      /\ FullLog(a.disk) = FullLog(d) /\ a.disk.term = term
      /\ a.disk.vote = (IF d.term < term THEN Nil ELSE d.vote)
      /\ a.disk.commit = d.commit /\ a.disk.base = d.base
      /\ a.mode = n.mode /\ a.failed = n.failed
      /\ SameOffice(n, a) /\ SameWork(n, a) /\ SamePast(n, a)
  <2>1. CASE term > d.term
    <3> DEFINE b == PersistLocked(n, term, Nil, d.commit, 0, <<>>)
    <3>1. d.term # term /\ d.commit <= d.commit /\ d.term < term
      BY <1>1, <2>1
    <3>2. WroteHard(n, b, term, Nil, d.commit)
      BY <1>1, <3>1, PersistHard
    <3>3. a = b
      BY <2>1
    <3> HIDE DEF a, b
    <3> QED BY <3>1, <3>2, <3>3 DEF WroteHard
  <2>2. CASE ~(term > d.term)
    <3>1. a = n /\ term = d.term /\ ~(d.term < term)
      BY <1>1, <2>2
    <3> HIDE DEF a
    <3> QED BY <1>1, <3>1 DEF SameOffice, SameWork, SamePast
  <2> QED BY <2>1, <2>2
<1>3. p = IF a.failed THEN a
          ELSE [a EXCEPT !.role = "follower", !.leader = leader, !.pending = {}]
  BY DEF StepDownLocked
<1> HIDE DEF a, p
<1>4. p = [a EXCEPT !.role = "follower", !.leader = leader, !.pending = {}]
  BY <1>2, <1>3 DEF Ready
<1>5. /\ p \in NodeState /\ p.disk = a.disk /\ p.mode = a.mode /\ p.failed = a.failed
      /\ p.role = "follower" /\ p.leader = leader /\ p.pending = {}
      /\ p.applied = a.applied /\ p.machine = a.machine /\ p.answered = a.answered
      /\ SamePast(a, p)
  BY <1>2, <1>4 DEF NodeState, SamePast
<1>6. d.commit <= p.disk.commit /\ ~p.failed
  BY <1>1, <1>2, <1>5 DEF Ready
<1>7. Ready(p)
  BY <1>2, <1>5, <1>6, HardReady DEF SameWork
<1> QED BY <1>2, <1>5, <1>7 DEF SameWork, SamePast, p

(* Log M is log L with entry e at its end. *)
Longer(L, M, e) == /\ Len(M) = Len(L) + 1 /\ Alike(M, L, Len(L))
                   /\ M[Len(M)] = e

(* p is node n after it has written one entry at the end of its log. *)
WroteEntry(n, p, e) ==
  /\ p \in NodeState /\ Whole(p.disk)
  /\ Longer(FullLog(n.disk), FullLog(p.disk), e)
  /\ p.disk.term = n.disk.term /\ p.disk.vote = n.disk.vote
  /\ p.disk.commit = n.disk.commit /\ p.disk.base = n.disk.base
  /\ p.mode = n.mode /\ p.failed = n.failed
  /\ SameOffice(n, p) /\ SameWork(n, p)
  /\ p.ballots = n.ballots /\ p.reigns = n.reigns
  /\ p.stored = n.stored \cup {<<Len(FullLog(p.disk)), n.disk.term>>}

(* persistLocked of one entry of the node's own term. *)
LEMMA PersistEntry ==
  ASSUME NEW n \in NodeState, Whole(n.disk), 0 < n.disk.term,
         NEW e \in Entry, e.term = n.disk.term
  PROVE  WroteEntry(n, PersistLocked(n, n.disk.term, n.disk.vote, n.disk.commit,
                                     LastIndex(n.disk) + 1, <<e>>), e)
<1> DEFINE d == n.disk
           L == FullLog(d)
           from == LastIndex(d) + 1
           entries == <<e>>
           p == PersistLocked(n, d.term, d.vote, d.commit, from, entries)
           r == Record(d.term, d.vote, d.commit, from, entries)
<1>1. /\ d \in Store /\ L \in Seq(Entry) /\ Len(L) \in Nat /\ Len(L) = LastIndex(d)
      /\ d.base \in Nat /\ d.commit \in Nat /\ d.term \in Nat
      /\ d.vote \in Node \cup {Nil}
      /\ d.base <= d.commit /\ d.commit <= Len(L)
  BY WholeLog, StoreTypes DEF Whole
<1>2. /\ entries \in Seq(Entry) /\ Len(entries) = 1 /\ entries[1] = e
      /\ from \in Nat /\ from # 0 /\ from - 1 = Len(L)
  BY <1>1
<1>3. TermAt(L, Len(L)) \in Nat /\ TermAt(L, Len(L)) <= d.term
  <2>1. CASE Len(L) = 0
    BY <1>1, <2>1 DEF TermAt
  <2>2. CASE Len(L) # 0
    <3>1. Len(L) \in 1 .. Len(L)
      BY <1>1, <2>2
    <3>2. L[Len(L)].term <= d.term /\ L[Len(L)].term \in Nat
      BY <1>1, <3>1, EntryFacts DEF Whole, Ordered
    <3> QED BY <2>2, <3>2 DEF TermAt
  <2> QED BY <2>1, <2>2
<1>4. EntryAt(d, from - 1).term = TermAt(L, Len(L))
  <2>1. Len(L) \in d.base .. Len(L)
    BY <1>1
  <2> QED BY <1>2, <2>1, WholeLog
<1> HIDE DEF entries
<1>5. Validate(d, r)
  <2>1. OrderedTerms(entries, EntryAt(d, from - 1).term, d.term)
    <3> DEFINE t == TermAt(L, Len(L))
    <3> HIDE DEF t
    <3>1. \A k \in 1 .. Len(entries) : k = 1 /\ entries[k].term = d.term
      BY <1>2
    <3>2. d.term <= d.term /\ t <= d.term /\ EntryAt(d, from - 1).term = t
      BY <1>1, <1>3, <1>4 DEF t
    <3> QED BY <3>1, <3>2 DEF OrderedTerms
  <2>2. /\ d.term <= d.term /\ d.commit <= d.commit /\ d.commit < from
        /\ from <= LastIndex(d) + 1 /\ d.commit < from + Len(entries)
    BY <1>1, <1>2
  <2>3. /\ r.term = d.term /\ r.vote = d.vote /\ r.commit = d.commit
        /\ r.from = from /\ r.entries = entries
    BY DEF Record
  <2> HIDE DEF r
  <2> QED BY <1>2, <2>1, <2>2, <2>3 DEF Validate
<1> HIDE DEF from, r
<1>6. Wrote(n, p, d.term, d.vote, d.commit, from, entries)
  BY <1>1, <1>2, <1>5, PersistExact DEF r
<1>7. Longer(L, FullLog(p.disk), e)
  <2> DEFINE M == FullLog(p.disk)
  <2>1. Rewritten(L, M, from, entries)
    BY <1>6 DEF Wrote
  <2> HIDE DEF M, L
  <2>2. Len(M) = Len(L) + 1 /\ Alike(M, L, Len(L))
    BY <1>1, <1>2, <2>1 DEF Rewritten
  <2>3. M[from - 1 + 1] = entries[1]
    BY <1>2, <2>1 DEF Rewritten
  <2>4. from - 1 + 1 = Len(M)
    BY <1>1, <1>2, <2>2
  <2> QED BY <1>2, <2>2, <2>3, <2>4 DEF Longer, M
<1>8. OwnOf(from, entries, d.term) = {<<Len(FullLog(p.disk)), d.term>>}
  <2>1. {x \in 1 .. Len(entries) : entries[x].term = d.term} = {1}
    BY <1>2
  <2>2. from + 1 - 1 = Len(FullLog(p.disk))
    BY <1>1, <1>2, <1>7 DEF Longer
  <2> QED BY <2>1, <2>2 DEF OwnOf
<1>9. WroteEntry(n, p, e)
  BY <1>6, <1>7, <1>8 DEF Wrote, WroteEntry, L, d
<1> QED BY <1>9 DEF p, from, entries, d

(* p is node n as a leader with one more entry, of its own term. *)
Appended(n, p, i, cmd) ==
  /\ Longer(FullLog(n.disk), FullLog(p.disk), [term |-> n.disk.term, cmd |-> cmd])
  /\ p.disk.term = n.disk.term /\ p.disk.vote = n.disk.vote
  /\ p.disk.commit = n.disk.commit /\ p.disk.base = n.disk.base
  /\ p.role = "leader" /\ p.mode = n.mode
  /\ p.ballots = n.ballots /\ p.answered = n.answered
  /\ p.stored = n.stored \cup {<<Len(FullLog(p.disk)), n.disk.term>>}
  /\ p.match[i] = Len(FullLog(p.disk))

(* The new leader i knows of nobody else's log. *)
Crown(n, p, i) ==
  /\ Appended(n, p, i, Barrier) /\ p.leader = i
  /\ p.reigns = n.reigns \cup {n.disk.term}
  /\ \A j \in Node \ {i} : p.match[j] = 0

(* Whoever waits on p waited on n, or waits for the new last entry e. *)
Joined(n, p, e) ==
  \A w \in p.pending :
    \/ w \in n.pending /\ p.role = n.role
    \/ /\ p.role = "leader" /\ w.index = Len(FullLog(p.disk))
       /\ e = [term |-> p.disk.term, cmd |-> w.cmd]

(* A ready node stays ready with one more entry in its log. *)
LEMMA EntryReady ==
  ASSUME NEW n, Ready(n), NEW p \in NodeState, Whole(p.disk), ~p.failed,
         NEW e, Longer(FullLog(n.disk), FullLog(p.disk), e),
         p.disk.term = n.disk.term, p.disk.commit = n.disk.commit,
         p.disk.base = n.disk.base, 0 < n.disk.term,
         p.applied = n.applied, p.machine = n.machine,
         p.answered = n.answered, Joined(n, p, e)
  PROVE  Ready(p)
<1> DEFINE L == FullLog(n.disk)
           M == FullLog(p.disk)
           t == n.disk.term
           ap == n.applied
<1>1. /\ L \in Seq(Entry) /\ Len(L) \in Nat /\ n.applied \in Nat
      /\ n.disk.commit \in Nat /\ n.disk.commit <= Len(L)
  BY ReadyFacts
<1>2. /\ n.disk.base <= ap /\ ap <= n.disk.commit
      /\ Len(n.machine) = ap /\ Alike(n.machine, L, ap)
      /\ \A a \in n.answered : a.entry.cmd = a.cmd
      /\ \A w \in n.pending :
           /\ n.role = "leader" /\ ap < w.index /\ w.index <= Len(L)
           /\ L[w.index] = [term |-> t, cmd |-> w.cmd]
      /\ \A w \in n.pending : w.index \in Nat
  BY NodeTypes DEF Ready, Waiter
<1>3. Len(M) = Len(L) + 1 /\ M[Len(M)] = e /\ \A x \in 1 .. Len(L) : M[x] = L[x]
  BY DEF Longer, Alike
<1> HIDE DEF L, M, ap, t
<1>4. ap \in Nat /\ ap <= Len(L)
  BY <1>1, <1>2 DEF ap
<1>5. Alike(p.machine, M, ap)
  BY <1>1, <1>2, <1>3, <1>4 DEF Alike
<1>6. ASSUME NEW w \in p.pending
      PROVE  /\ p.role = "leader" /\ ap < w.index /\ w.index <= Len(M)
             /\ M[w.index] = [term |-> t, cmd |-> w.cmd]
  <2>1. CASE w \in n.pending /\ p.role = n.role
    <3>1. /\ n.role = "leader" /\ ap < w.index /\ w.index <= Len(L)
          /\ L[w.index] = [term |-> t, cmd |-> w.cmd] /\ w.index \in Nat
      BY <1>2, <2>1
    <3>2. w.index \in 1 .. Len(L) /\ w.index <= Len(M)
      BY <1>1, <1>3, <1>4, <3>1
    <3> QED BY <1>3, <2>1, <3>1, <3>2
  <2>2. CASE /\ p.role = "leader" /\ w.index = Len(M)
             /\ e = [term |-> p.disk.term, cmd |-> w.cmd]
    <3>1. ap < Len(M) /\ Len(M) <= Len(M)
      BY <1>1, <1>3, <1>4
    <3> QED BY <1>3, <2>2, <3>1 DEF t
  <2> QED BY <2>1, <2>2 DEF Joined, M
<1> QED BY <1>2, <1>5, <1>6 DEF Ready, M, ap, t

(* p is node n after it became leader, and committed what it could alone. *)
Led(n, p, i) ==
  Settled(p) /\ \E l : Settled(l) /\ Crown(n, l, i) /\ Progress(l, p, i)

(* becomeLeaderLocked: the barrier is written and the node leads its term. *)
LEMMA BecomeLeaderExact ==
  ASSUME NEW n, Settled(n), 0 < n.disk.term, n.pending = {}, NEW i \in Node
  PROVE  Led(n, BecomeLeaderLocked(n, i), i)
<1> DEFINE d == n.disk
           last == LastIndex(d)
           next == [j \in Node |-> last + 1]
           match == [j \in Node |-> 0]
           reigns == n.reigns \cup {d.term}
           l == [n EXCEPT !.role = "leader", !.leader = i,
                          !.next = [j \in Node |-> last + 1],
                          !.match = [j \in Node |-> 0],
                          !.reigns = @ \cup {n.disk.term}]
           e == [term |-> d.term, cmd |-> Barrier]
           q == PersistLocked(l, d.term, d.vote, d.commit, last + 1, <<e>>)
           c == [q EXCEPT !.match[i] = last + 1]
           p == BecomeLeaderLocked(n, i)
<1>1. /\ n \in NodeState /\ d \in Store /\ Whole(d)
      /\ Len(FullLog(d)) \in Nat /\ Len(FullLog(d)) = last
      /\ d.term \in Nat /\ ~n.failed /\ Ready(n)
  BY ReadyFacts DEF Ready, Settled
<1>2. /\ last + 1 \in Nat /\ next \in [Node -> Nat] /\ match \in [Node -> Nat]
      /\ reigns \in SUBSET Nat /\ last \in Nat
  BY <1>1, NodeTypes
<1> HIDE DEF last
<1>3. l = [n EXCEPT !.role = "leader", !.leader = i, !.next = next,
                    !.match = match, !.reigns = reigns]
  OBVIOUS
<1> HIDE DEF next, match, reigns, l
<1>4. /\ l \in NodeState /\ l.disk = d /\ l.mode = n.mode /\ l.failed = n.failed
      /\ l.role = "leader" /\ l.leader = i /\ l.match = match
      /\ l.reigns = reigns /\ l.ballots = n.ballots /\ l.stored = n.stored
      /\ SameWork(n, l)
  BY <1>1, <1>2, <1>3 DEF NodeState, SameWork
<1>5. e \in Entry /\ e.term = d.term
  BY <1>1 DEF Entry, Operation
<1> HIDE DEF e
<1>6. WroteEntry(l, q, e)
  <2>1. q = PersistLocked(l, l.disk.term, l.disk.vote, l.disk.commit,
                          LastIndex(l.disk) + 1, <<e>>)
    BY <1>4 DEF last
  <2>2. Whole(l.disk) /\ 0 < l.disk.term /\ e.term = l.disk.term
    BY <1>1, <1>4, <1>5
  <2> HIDE DEF q
  <2> QED BY <1>4, <1>5, <2>1, <2>2, PersistEntry
<1>7. p = IF q.failed THEN q ELSE AdvanceCommitLocked(c, i)
  BY DEF BecomeLeaderLocked, q, c, e, l, last
<1> HIDE DEF q, p, d
<1>8. /\ q \in NodeState /\ Whole(q.disk) /\ q.failed = l.failed /\ q.mode = l.mode
      /\ Longer(FullLog(d), FullLog(q.disk), e)
      /\ q.disk.term = d.term /\ q.disk.vote = d.vote /\ q.disk.commit = d.commit
      /\ q.disk.base = d.base
      /\ SameOffice(l, q) /\ SameWork(l, q)
      /\ q.ballots = l.ballots /\ q.reigns = l.reigns
      /\ q.stored = l.stored \cup {<<Len(FullLog(q.disk)), d.term>>}
  BY <1>4, <1>6 DEF WroteEntry
<1>9. q.match = match /\ [match EXCEPT ![i] = last + 1] \in [Node -> Nat]
      /\ c = [q EXCEPT !.match = [match EXCEPT ![i] = last + 1]]
  BY <1>2, <1>4, <1>8 DEF SameOffice
<1> DEFINE mine == [match EXCEPT ![i] = last + 1]
<1>10. mine[i] = last + 1 /\ \A j \in Node \ {i} : mine[j] = 0
  BY <1>2 DEF match
<1> HIDE DEF mine, c
<1>11. /\ c \in NodeState /\ c.disk = q.disk /\ c.failed = q.failed
       /\ c.mode = q.mode /\ c.role = q.role /\ c.leader = q.leader
       /\ c.match = mine /\ SameWork(q, c) /\ SamePast(q, c)
  BY <1>8, <1>9 DEF NodeState, SameWork, SamePast, mine
<1>12. Len(FullLog(q.disk)) = last + 1
  BY <1>1, <1>8 DEF Longer, d
<1>13. Crown(n, c, i)
  BY <1>4, <1>8, <1>10, <1>11, <1>12
     DEF Crown, Appended, SameOffice, SameWork, SamePast, d, e, reigns
<1>14. Settled(c)
  <2>1. /\ Longer(FullLog(n.disk), FullLog(c.disk), e)
        /\ c.disk.term = n.disk.term /\ c.disk.commit = n.disk.commit
        /\ c.disk.base = n.disk.base /\ Whole(c.disk) /\ ~c.failed
        /\ c.applied = n.applied /\ c.machine = n.machine
        /\ c.answered = n.answered /\ c.pending = {}
    BY <1>1, <1>4, <1>8, <1>11 DEF SameWork, d
  <2>2. Joined(n, c, e)
    BY ONLY <2>1 DEF Joined
  <2>3. Ready(n) /\ c \in NodeState /\ 0 < n.disk.term
    BY <1>1, <1>11
  <2> HIDE DEF e
  <2>4. Ready(c)
    BY ONLY <2>1, <2>2, <2>3, EntryReady
  <2> QED BY <2>1, <2>4 DEF Settled
<1>15. p = AdvanceCommitLocked(c, i)
  BY <1>1, <1>4, <1>7, <1>8
<1>16. Settled(p) /\ Progress(c, p, i)
  BY <1>14, <1>15, AdvanceExact DEF Settled
<1> QED BY <1>13, <1>14, <1>16 DEF Led, p

(* p is node n, which started an election: a later term, its own vote. *)
Campaign(n, p, i) ==
  /\ FullLog(p.disk) = FullLog(n.disk) /\ p.disk.commit = n.disk.commit
  /\ p.disk.base = n.disk.base /\ p.disk.term = n.disk.term + 1
  /\ p.role = "candidate" /\ p.leader = Nil /\ p.mode = n.mode
  /\ p.ballots = n.ballots \cup {<<n.disk.term + 1, i>>}
  /\ p.reigns = n.reigns /\ p.stored = n.stored /\ p.answered = n.answered

(* startElectionLocked: a candidate, or a sole voter that leads at once. *)
LEMMA StartElectionExact ==
  ASSUME NEW n, Settled(n), n.role # "leader", NEW i \in Node
  PROVE  LET p == StartElectionLocked(n, i)
         IN  \E c : /\ Settled(c) /\ Campaign(n, c, i)
                    /\ p = c \/ Led(c, p, i)
<1> DEFINE d == n.disk
           term == d.term + 1
           a == PersistLocked(n, term, i, d.commit, 0, <<>>)
           ballots == n.ballots \cup {<<term, i>>}
           c == [a EXCEPT !.role = "candidate", !.leader = Nil, !.votes = {i},
                          !.ballots = @ \cup {<<term, i>>}]
           p == StartElectionLocked(n, i)
<1>1. /\ n \in NodeState /\ d \in Store /\ Whole(d)
      /\ d.term \in Nat /\ d.commit \in Nat /\ d.commit <= Len(FullLog(d))
      /\ ~n.failed /\ Ready(n)
  BY ReadyFacts DEF Ready, Settled
<1>2. /\ term \in Nat /\ d.term <= term /\ term # d.term /\ 0 < term
      /\ d.commit <= d.commit /\ i \in Node \cup {Nil}
  BY <1>1
<1> HIDE DEF term
<1>3. WroteHard(n, a, term, i, d.commit)
  BY <1>1, <1>2, PersistHard
<1>4. p = IF a.failed THEN a
          ELSE IF Majority({i}) THEN BecomeLeaderLocked(c, i) ELSE c
  BY DEF StartElectionLocked, term
<1> HIDE DEF a, p
<1>5. ballots \in SUBSET (Nat \X Node) /\ a.ballots = n.ballots
  BY <1>1, <1>2, <1>3, NodeTypes DEF WroteHard, SamePast
<1>6. c = [a EXCEPT !.role = "candidate", !.leader = Nil, !.votes = {i},
                    !.ballots = ballots]
  BY <1>5
<1> HIDE DEF c, ballots
<1>7. /\ c \in NodeState /\ c.disk = a.disk /\ c.mode = a.mode /\ c.failed = a.failed
      /\ c.role = "candidate" /\ c.leader = Nil /\ c.ballots = ballots
      /\ c.reigns = a.reigns /\ c.stored = a.stored /\ SameWork(a, c)
  BY <1>3, <1>5, <1>6 DEF WroteHard, NodeState, SameWork
<1>8. Campaign(n, c, i)
  BY <1>3, <1>7 DEF Campaign, WroteHard, SamePast, SameWork, term, ballots, d
<1>9. c.pending = {}
  BY <1>3, <1>7 DEF WroteHard, SameWork, Settled, Ready
<1>10. /\ Whole(c.disk) /\ ~c.failed /\ FullLog(c.disk) = FullLog(n.disk)
       /\ c.disk.base = n.disk.base /\ n.disk.commit <= c.disk.commit
       /\ n.disk.term <= c.disk.term /\ 0 < c.disk.term
       /\ c.applied = n.applied /\ c.machine = n.machine
       /\ c.answered = n.answered /\ c.disk.commit = n.disk.commit
  BY <1>1, <1>2, <1>3, <1>7 DEF WroteHard, SameWork
<1>11. Settled(c)
  <2>1. Ready(c)
    BY <1>1, <1>7, <1>9, <1>10, HardReady
  <2> QED BY <1>10, <2>1 DEF Settled
<1>12. p = c \/ Led(c, p, i)
  BY <1>1, <1>3, <1>4, <1>9, <1>10, <1>11, BecomeLeaderExact DEF WroteHard
<1> QED BY <1>8, <1>11, <1>12 DEF p

(* The log of L is not ahead of the candidate that sent m. *)
NotAhead(L, m) ==
  \/ m.lastTerm > TermAt(L, Len(L))
  \/ m.lastTerm = TermAt(L, Len(L)) /\ m.lastIndex >= Len(L)

(* p is node n after it took over a term, and perhaps voted for m.from. *)
Voted(n, p, m) ==
  /\ FullLog(p.disk) = FullLog(n.disk) /\ p.disk.commit = n.disk.commit
  /\ p.disk.base = n.disk.base /\ p.disk.term = m.term
  /\ p.reigns = n.reigns /\ p.stored = n.stored /\ p.answered = n.answered
  /\ \/ p.role = "follower" /\ p.leader = Nil
     \/ n.disk.term = m.term /\ SameOffice(n, p)
  /\ \/ p.ballots = n.ballots
     \/ /\ p.ballots = n.ballots \cup {<<m.term, m.from>>}
        /\ NotAhead(FullLog(n.disk), m)

(* The body of RequestVote writes only what validate accepts. *)
LEMMA VoteHandledExact ==
  ASSUME NEW n, Settled(n), NEW m \in VoteRequest, n.disk.term <= m.term
  PROVE  LET p == VoteHandled(n, m).node IN Settled(p) /\ p.mode = n.mode /\ Voted(n, p, m)
<1> DEFINE d == n.disk
           p == IF m.term > d.term THEN StepDownLocked(n, m.term, Nil) ELSE n
           granted == ~p.failed /\ MayVote(p.disk, m)
           w == PersistLocked(p, m.term, m.from, p.disk.commit, 0, <<>>)
           q == IF granted /\ p.disk.vote = Nil THEN w ELSE p
           ballots == q.ballots \cup {<<m.term, m.from>>}
           v == [q EXCEPT !.ballots = @ \cup {<<m.term, m.from>>}]
           h == VoteHandled(n, m)
<1>1. m.term \in Nat /\ m.from \in Node
  BY DEF VoteRequest
<1>2. /\ n \in NodeState /\ d.term \in Nat /\ ~n.failed /\ Ready(n)
  BY ReadyFacts DEF Ready, Settled
<1>3. /\ Settled(p) /\ p.disk.term = m.term /\ FullLog(p.disk) = FullLog(d)
      /\ p.disk.commit = d.commit /\ p.disk.base = d.base /\ p.mode = n.mode
      /\ SamePast(n, p) /\ p.answered = n.answered
      /\ \/ p.role = "follower" /\ p.leader = Nil
         \/ d.term = m.term /\ SameOffice(n, p)
  <2>1. CASE m.term > d.term
    <3>1. p = StepDownLocked(n, m.term, Nil)
      BY <2>1
    <3> HIDE DEF p
    <3> QED BY <1>1, <3>1, StepDownExact DEF Settled
  <2>2. CASE ~(m.term > d.term)
    <3>1. p = n /\ m.term = d.term
      BY <1>1, <1>2, <2>2
    <3> HIDE DEF p
    <3> QED BY <3>1 DEF SamePast, SameOffice
  <2> QED BY <2>1, <2>2
<1>4. /\ h.node = IF granted /\ ~q.failed THEN v ELSE q
  BY DEF VoteHandled
<1> HIDE DEF p
<1>5. /\ p \in NodeState /\ Whole(p.disk) /\ p.disk.commit \in Nat /\ ~p.failed
      /\ p.disk.commit <= Len(FullLog(p.disk)) /\ Ready(p)
  BY <1>3, ReadyFacts DEF Ready, Settled
<1>6. /\ Settled(q) /\ q.disk.term = m.term /\ FullLog(q.disk) = FullLog(d)
      /\ q.disk.commit = d.commit /\ q.disk.base = d.base /\ q.mode = n.mode
      /\ SamePast(n, q) /\ q.answered = n.answered
      /\ \/ q.role = "follower" /\ q.leader = Nil
         \/ d.term = m.term /\ SameOffice(n, q)
  <2>1. CASE granted /\ p.disk.vote = Nil
    <3>1. WroteHard(p, w, m.term, m.from, p.disk.commit)
      <4>1. p.disk.term <= m.term /\ p.disk.commit <= p.disk.commit
        BY <1>1, <1>3, <1>5
      <4> QED BY <1>1, <1>5, <2>1, <4>1, PersistHard
    <3>2. q = w
      BY <2>1
    <3> HIDE DEF w, q, granted
    <3>3. /\ w \in NodeState /\ Whole(w.disk) /\ ~w.failed
          /\ FullLog(w.disk) = FullLog(p.disk) /\ w.disk.base = p.disk.base
          /\ p.disk.commit <= w.disk.commit /\ p.disk.term <= w.disk.term
          /\ w.applied = p.applied /\ w.machine = p.machine /\ w.answered = p.answered
          /\ w.pending = p.pending /\ w.role = p.role /\ w.disk.term = p.disk.term
          /\ (w.role # "follower" => 0 < w.disk.term)
          /\ w.disk.commit = p.disk.commit
      BY <1>1, <1>3, <1>5, <3>1 DEF WroteHard, SameWork, SameOffice, Ready
    <3>4. Ready(w)
      BY <1>5, <3>3, HardReady
    <3>5. Settled(w)
      BY <1>3, <3>3, <3>4 DEF Settled
    <3> QED BY <1>3, <3>1, <3>2, <3>3, <3>5 DEF WroteHard, SamePast, SameOffice
  <2>2. CASE ~(granted /\ p.disk.vote = Nil)
    <3>1. q = p
      BY <2>2
    <3> HIDE DEF q
    <3> QED BY <1>3, <3>1
  <2> QED BY <2>1, <2>2
<1> HIDE DEF q
<1>7. ASSUME granted PROVE NotAhead(FullLog(d), m)
  <2> DEFINE L == FullLog(d)
  <2>1. UpToDate(p.disk, m)
    BY <1>7 DEF MayVote
  <2>2. /\ LastIndex(p.disk) = Len(L) /\ Len(L) \in p.disk.base .. Len(L)
    <3>1. /\ Len(FullLog(p.disk)) = LastIndex(p.disk) /\ FullLog(p.disk) = L
          /\ p.disk.base \in Nat /\ p.disk.base <= p.disk.commit
      BY <1>3, <1>5, ReadyFacts
    <3>2. Len(L) \in Nat
      BY <1>2, ReadyFacts
    <3> QED BY <1>5, <3>1, <3>2
  <2>3. EntryAt(p.disk, LastIndex(p.disk)).term = TermAt(L, Len(L))
    BY <1>3, <1>5, <2>2, WholeLog
  <2> QED BY <2>1, <2>2, <2>3 DEF UpToDate, NotAhead
<1>8. q \in NodeState /\ ~q.failed
  BY <1>6 DEF Settled, Ready
<1>9. CASE granted
  <2>1. h.node = v
    BY <1>4, <1>8, <1>9
  <2>2. ballots \in SUBSET (Nat \X Node)
    BY <1>1, <1>8, NodeTypes
  <2>3. v = [q EXCEPT !.ballots = ballots]
    OBVIOUS
  <2> HIDE DEF ballots, v
  <2>4. /\ v \in NodeState /\ v.disk = q.disk /\ v.mode = q.mode /\ v.failed = q.failed
        /\ SameOffice(q, v) /\ SameWork(q, v) /\ v.ballots = ballots
        /\ v.reigns = q.reigns /\ v.stored = q.stored
    BY <1>8, <2>2, <2>3 DEF NodeState, SameOffice, SameWork
  <2>5. Settled(v)
    BY <1>6, <2>4 DEF Settled, Ready, SameOffice, SameWork
  <2>6. v.ballots = n.ballots \cup {<<m.term, m.from>>}
    BY <1>6, <2>4 DEF ballots, SamePast
  <2>7. Voted(n, v, m)
    BY <1>6, <1>7, <1>9, <2>4, <2>6 DEF Voted, SameOffice, SameWork, SamePast
  <2> HIDE DEF h
  <2> QED BY <1>6, <2>1, <2>4, <2>5, <2>7 DEF h
<1>10. CASE ~granted
  <2>1. h.node = q
    BY <1>4, <1>10
  <2> HIDE DEF h
  <2>2. Voted(n, q, m)
    BY <1>6 DEF Voted, SamePast
  <2> QED BY <1>6, <2>1, <2>2 DEF h
<1> QED BY <1>9, <1>10

(* Stopping a node leaves its store and its histories. *)
LEMMA StoppedExact ==
  ASSUME NEW n \in NodeState, NEW d \in Store
  PROVE  LET p == [Stopped(n) EXCEPT !.disk = d]
         IN  /\ p \in NodeState /\ p.disk = d /\ p.mode = "down" /\ ~p.failed
             /\ p.role = "follower" /\ p.leader = Nil /\ p.pending = {}
             /\ SamePast(n, p) /\ p.answered = n.answered
<1> DEFINE s == Stopped(n)
           p == [s EXCEPT !.disk = d]
           zero == [j \in Node |-> 0]
<1>1. s = [n EXCEPT !.mode = "down", !.failed = FALSE, !.role = "follower",
                    !.leader = Nil, !.votes = {}, !.next = zero,
                    !.match = zero, !.pending = {}, !.applied = 0,
                    !.machine = <<>>]
  BY DEF Stopped
<1>2. zero \in [Node -> Nat] /\ <<>> \in Seq(Entry)
  OBVIOUS
<1> HIDE DEF zero, s
<1>3. /\ s \in NodeState /\ s.mode = "down" /\ ~s.failed
      /\ s.role = "follower" /\ s.leader = Nil /\ s.pending = {}
      /\ SamePast(n, s) /\ s.answered = n.answered
  BY <1>1, <1>2 DEF NodeState, SamePast
<1> HIDE DEF p
<1>4. p = [s EXCEPT !.disk = d]
  BY DEF p
<1>5. /\ p \in NodeState /\ p.disk = d /\ p.mode = "down" /\ ~p.failed
      /\ p.role = "follower" /\ p.leader = Nil /\ p.pending = {}
      /\ SamePast(n, p) /\ p.answered = n.answered
  <2>1. p \in NodeState /\ p.disk = d
    BY ONLY <1>3, <1>4, d \in Store DEF NodeState
  <2>2. /\ p.mode = "down" /\ ~p.failed /\ p.role = "follower"
        /\ p.leader = Nil /\ p.pending = {} /\ p.answered = n.answered
    BY ONLY <1>3, <1>4 DEF NodeState
  <2>3. SamePast(n, p)
    BY ONLY <1>3, <1>4 DEF NodeState, SamePast
  <2> QED BY ONLY <2>1, <2>2, <2>3
<1> QED BY <1>5 DEF p, s

(* p is node n just opened: everything durable is back, and it follows. *)
Revived(n, p) ==
  /\ FullLog(p.disk) = FullLog(n.disk) /\ p.disk.commit = n.disk.commit
  /\ p.disk.base = n.disk.base /\ p.role = "follower" /\ p.leader = Nil
  /\ p.mode = "up" /\ SamePast(n, p) /\ AnswersFrom(n, p) /\ p.pending = {}

(* OpenWithRuntime: the machine is rebuilt from the snapshot and the          *)
(* committed suffix, and the fixed leader starts a term.                      *)
LEMMA OpenedExact ==
  ASSUME NEW n, Fit(n), n.mode = "down", NEW i \in Node
  PROVE  LET p == Opened(n, i)
         IN  \E c : /\ Settled(c) /\ Revived(n, c)
                    /\ \/ /\ FixedLeader # i /\ p = c
                          /\ c.disk.term = n.disk.term /\ c.disk.vote = n.disk.vote
                       \/ /\ FixedLeader = i /\ Led(c, p, i)
                          /\ c.disk.term = n.disk.term + 1
<1> DEFINE d == n.disk
           s0 == Stopped(n)
           s == [s0 EXCEPT !.mode = "up", !.applied = d.base, !.machine = d.snap]
           r == ApplyLocked(s, i)
           q == PersistLocked(r, d.term + 1, i, d.commit, 0, <<>>)
           p == Opened(n, i)
<1>1. n \in NodeState /\ Whole(d) /\ \A a \in n.answered : a.entry.cmd = a.cmd
  BY DEF Fit
<1>2. d \in Store /\ Bounds(d) /\ Len(d.snap) = d.base
  BY <1>1 DEF Whole
<1>3. /\ d.base \in Nat /\ d.commit \in Nat /\ d.snap \in Seq(Entry) /\ d.term \in Nat
      /\ d.base <= d.commit /\ d.commit <= Len(FullLog(d)) /\ d.base <= d.base
      /\ Alike(d.snap, FullLog(d), d.base)
  BY <1>1, <1>2, StoreTypes, WholeLog
<1>4. /\ s0 \in NodeState /\ s0.disk = d /\ ~s0.failed /\ s0.role = "follower"
      /\ s0.leader = Nil /\ s0.pending = {} /\ SamePast(n, s0)
      /\ s0.answered = n.answered
  <2> DEFINE zero == [j \in Node |-> 0]
  <2>1. s0 = [n EXCEPT !.mode = "down", !.failed = FALSE, !.role = "follower",
                       !.leader = Nil, !.votes = {}, !.next = zero,
                       !.match = zero, !.pending = {}, !.applied = 0,
                       !.machine = <<>>]
    BY DEF Stopped
  <2>2. zero \in [Node -> Nat] /\ <<>> \in Seq(Entry)
    OBVIOUS
  <2> HIDE DEF zero, s0
  <2> QED BY <1>1, <2>1, <2>2 DEF NodeState, SamePast
<1> HIDE DEF s0
<1>5. /\ s \in NodeState /\ s.disk = d /\ ~s.failed /\ s.role = "follower"
      /\ s.leader = Nil /\ s.pending = {} /\ SamePast(s0, s)
      /\ s.answered = n.answered /\ s.mode = "up" /\ s.applied = d.base
      /\ s.machine = d.snap
  BY <1>3, <1>4 DEF NodeState, SamePast
<1> HIDE DEF s
<1>6. Ready(s)
  BY <1>1, <1>2, <1>3, <1>5 DEF Ready
<1>7. /\ Settled(r) /\ Progress(s, r, i) /\ r.disk.commit = d.commit
  BY <1>5, <1>6, ApplyExact DEF Settled
<1>8. p = IF FixedLeader # i THEN r
          ELSE IF q.failed THEN q ELSE BecomeLeaderLocked(q, i)
  BY DEF Opened, s, s0
<1> HIDE DEF r, p
<1>9. /\ FullLog(r.disk) = FullLog(d) /\ r.disk.base = d.base
      /\ r.role = "follower" /\ r.leader = Nil /\ r.mode = "up"
      /\ SamePast(n, r) /\ AnswersFrom(n, r) /\ r.disk.term = d.term
      /\ r.disk.vote = d.vote
  BY <1>4, <1>5, <1>7 DEF Progress, SameLog, SameOffice, SamePast, AnswersFrom
<1>10. r.pending = {} /\ Ready(r) /\ r \in NodeState /\ Whole(r.disk) /\ ~r.failed
  BY <1>7, <1>9 DEF Settled, Ready
<1>11. Revived(n, r)
  BY <1>7, <1>9, <1>10 DEF Revived
<1>12. CASE FixedLeader # i
  BY <1>7, <1>8, <1>9, <1>11, <1>12 DEF p
<1>13. CASE FixedLeader = i
  <2>1. WroteHard(r, q, d.term + 1, i, d.commit)
    <3> DEFINE t == d.term + 1
    <3>1. /\ t \in Nat /\ r.disk.term <= t /\ r.disk.term # t
          /\ r.disk.commit <= d.commit /\ d.commit <= Len(FullLog(r.disk))
          /\ i \in Node \cup {Nil}
      BY <1>3, <1>7, <1>9
    <3> HIDE DEF t
    <3>2. WroteHard(r, PersistLocked(r, t, i, d.commit, 0, <<>>), t, i, d.commit)
      BY <1>3, <1>10, <3>1, PersistHard
    <3> QED BY <3>2 DEF t
  <2> HIDE DEF q
  <2>2. /\ q \in NodeState /\ Whole(q.disk) /\ ~q.failed
        /\ FullLog(q.disk) = FullLog(r.disk) /\ q.disk.base = r.disk.base
        /\ r.disk.commit <= q.disk.commit /\ r.disk.term <= q.disk.term
        /\ q.applied = r.applied /\ q.machine = r.machine
        /\ q.answered = r.answered /\ q.pending = {} /\ q.role = "follower"
        /\ q.disk.commit = r.disk.commit /\ q.mode = "up" /\ q.leader = Nil
        /\ SamePast(r, q) /\ q.disk.term = d.term + 1 /\ 0 < q.disk.term
    BY <1>3, <1>7, <1>9, <1>10, <2>1 DEF WroteHard, SameWork, SameOffice
  <2>3. Ready(q)
    BY <1>10, <2>2, HardReady
  <2>4. Settled(q)
    BY <1>7, <2>2, <2>3 DEF Settled
  <2>5. Revived(n, q)
    BY <1>7, <1>9, <2>2 DEF Revived, SamePast, AnswersFrom
  <2>6. Led(q, p, i)
    BY <1>8, <1>13, <2>2, <2>4, BecomeLeaderExact
  <2> QED BY <1>13, <2>2, <2>4, <2>5, <2>6 DEF p
<1> QED BY <1>12, <1>13

(* The handler of an accepted client: one entry of the leader's term. *)
Proposed(n, p, i, c) ==
  /\ Appended(n, p, i, c) /\ p.leader = n.leader /\ p.reigns = n.reigns
  /\ \A j \in Node \ {i} : p.match[j] = n.match[j]

(* propose on a leader: the client waits at the index of its entry. *)
LEMMA SubmitExact ==
  ASSUME NEW n, Settled(n), n.role = "leader", NEW i \in Node,
         NEW c \in Operation, NEW w \in Waiter,
         w.index = LastIndex(n.disk) + 1, w.cmd = c
  PROVE  LET e == [term |-> n.disk.term, cmd |-> c]
             a == PersistLocked(n, n.disk.term, n.disk.vote, n.disk.commit,
                                LastIndex(n.disk) + 1, <<e>>)
             q == [a EXCEPT !.pending = {x \in @ : x.index # LastIndex(n.disk) + 1} \cup {w},
                            !.match[i] = LastIndex(n.disk) + 1]
         IN  ~a.failed /\ Settled(q) /\ Proposed(n, q, i, c)
<1> DEFINE d == n.disk
           index == LastIndex(d) + 1
           e == [term |-> d.term, cmd |-> c]
           a == PersistLocked(n, d.term, d.vote, d.commit, LastIndex(d) + 1, <<e>>)
           waiting == {x \in a.pending : x.index # index} \cup {w}
           match == [a.match EXCEPT ![i] = index]
           q == [a EXCEPT !.pending = {x \in @ : x.index # index} \cup {w},
                          !.match[i] = index]
<1>1. /\ n \in NodeState /\ Whole(d) /\ d.term \in Nat /\ ~n.failed /\ Ready(n)
      /\ Len(FullLog(d)) = LastIndex(d) /\ Len(FullLog(d)) \in Nat
      /\ 0 < d.term
  BY ReadyFacts DEF Ready, Settled
<1>2. e \in Entry /\ e.term = d.term /\ index \in Nat
  BY <1>1 DEF Entry
<1>3. WroteEntry(n, a, e)
  <2> HIDE DEF e
  <2> QED BY <1>1, <1>2, PersistEntry
<1> HIDE DEF a, index
<1>4. /\ a \in NodeState /\ ~a.failed /\ SameWork(n, a) /\ SameOffice(n, a)
      /\ a.match \in [Node -> Nat] /\ a.pending \in SUBSET Waiter
  BY <1>1, <1>3, NodeTypes DEF WroteEntry
<1>5. waiting \in SUBSET Waiter /\ match \in [Node -> Nat]
  BY <1>2, <1>4
<1>6. match[i] = index /\ \A j \in Node \ {i} : match[j] = n.match[j]
  BY <1>2, <1>4 DEF SameOffice
<1>7. q = [a EXCEPT !.pending = waiting, !.match = match]
  BY <1>4
<1> HIDE DEF q, waiting, match
<1>8. /\ q \in NodeState /\ q.disk = a.disk /\ q.mode = a.mode /\ q.failed = a.failed
      /\ q.role = a.role /\ q.leader = a.leader /\ q.match = match
      /\ q.pending = waiting /\ q.applied = a.applied /\ q.machine = a.machine
      /\ q.answered = a.answered /\ SamePast(a, q)
  BY <1>4, <1>5, <1>7 DEF NodeState, SamePast
<1>9. Len(FullLog(q.disk)) = index
  BY <1>1, <1>3, <1>8 DEF WroteEntry, Longer, index
<1>10. Proposed(n, q, i, c)
  BY <1>3, <1>6, <1>8, <1>9
     DEF Proposed, Appended, WroteEntry, SameOffice, SameWork, SamePast
<1>11. Settled(q)
  <2>1. /\ Longer(FullLog(n.disk), FullLog(q.disk), e) /\ Whole(q.disk) /\ ~q.failed
        /\ q.disk.term = n.disk.term /\ q.disk.commit = n.disk.commit
        /\ q.disk.base = n.disk.base
        /\ q.applied = n.applied /\ q.machine = n.machine
        /\ q.answered = n.answered /\ q.role = "leader"
    BY <1>3, <1>4, <1>8 DEF WroteEntry, SameWork, SameOffice
  <2>2. Joined(n, q, e)
    <3> SUFFICES ASSUME NEW x \in q.pending
                 PROVE  \/ x \in n.pending /\ q.role = n.role
                        \/ /\ q.role = "leader" /\ x.index = Len(FullLog(q.disk))
                           /\ e = [term |-> q.disk.term, cmd |-> x.cmd]
      BY DEF Joined
    <3>1. x \in a.pending \/ x = w
      BY ONLY <1>8, x \in q.pending DEF waiting
    <3>2. CASE x \in a.pending
      BY <1>4, <1>8, <3>2 DEF SameWork, SameOffice
    <3>3. CASE x = w
      <4>1. x.index = Len(FullLog(q.disk))
        BY <1>9, <3>3 DEF index
      <4>2. e = [term |-> q.disk.term, cmd |-> x.cmd]
        BY ONLY <2>1, <3>3, w.cmd = c
      <4> QED BY ONLY <2>1, <4>1, <4>2
    <3> QED BY ONLY <3>1, <3>2, <3>3
  <2> HIDE DEF e
  <2>3. Ready(n) /\ q \in NodeState /\ 0 < n.disk.term
    BY <1>1, <1>8
  <2>4. Ready(q)
    BY ONLY <2>1, <2>2, <2>3, EntryReady
  <2> QED BY <1>1, <2>1, <2>4 DEF Settled
<1>12. ~a.failed /\ Settled(q) /\ Proposed(n, q, i, c)
  BY <1>4, <1>10, <1>11
<1> QED BY <1>12 DEF q, a, index

-----------------------------------------------------------------------------
(* Append requests. *)

(* A request is a slice of an ordered log, `whole`. *)
Honest(m) ==
  /\ Len(m.whole) = m.prev + Len(m.entries)
  /\ \A x \in 1 .. Len(m.entries) : m.entries[x] = m.whole[m.prev + x]
  /\ m.prevTerm = TermAt(m.whole, m.prev)
  /\ Ordered(m.whole, m.term)

(* m was made from node n's log and commit index. *)
CopyOf(n, m) ==
  /\ m.term = n.disk.term /\ m.commit = n.disk.commit
  /\ Len(m.whole) <= Len(FullLog(n.disk))
  /\ Alike(m.whole, FullLog(n.disk), Len(m.whole))

(* prepareAppendLocked sends a slice of the leader's log. *)
LEMMA AppendToExact ==
  ASSUME NEW n, Settled(n), NEW i \in Node, NEW j \in Node,
         ~(Larger(1, n.next[j]) < n.disk.base)
  PROVE  LET m == AppendTo(n, i, j)
         IN  /\ m \in AppendRequest /\ Honest(m) /\ CopyOf(n, m)
             /\ m.from = i /\ m.to = j
<1> DEFINE d == n.disk
           L == FullLog(d)
           base == d.base
           want == n.next[j]
           last == LastIndex(d)
           next == Smaller(Larger(1, n.next[j]), last + 1)
           end == Smaller(last + 1, next + BatchLimit)
           prev == Larger(next - 1, d.base)
           batch == EntriesBetween(d, prev + 1, end - 1)
           rest == EntriesBetween(d, d.base + 1, end - 1)
           whole == d.snap \o rest
           m == AppendTo(n, i, j)
<1>1. /\ Ready(n) /\ n \in NodeState /\ Whole(d) /\ d \in Store /\ Bounds(d)
      /\ L \in Seq(Entry) /\ Len(L) \in Nat /\ Len(L) = last
      /\ base \in Nat /\ d.commit \in Nat /\ d.term \in Nat
      /\ base <= d.commit /\ d.commit <= last
  BY ReadyFacts DEF Settled
<1>2. n.next[j] \in Nat /\ BatchLimit \in Nat /\ 1 <= BatchLimit
  BY <1>1, NodeTypes, LimitAssumption
<1>3. Len(d.snap) = base /\ d.snap \in Seq(Entry) /\ Alike(d.snap, L, base)
  BY <1>1, WholeLog, StoreTypes DEF Whole
<1>4. m = [type |-> "append", from |-> i, to |-> j, term |-> d.term,
           prev |-> prev, prevTerm |-> EntryAt(d, prev).term,
           entries |-> batch, commit |-> d.commit, whole |-> whole]
  BY DEF AppendTo
<1>5. m \in AppendRequest
  <2>1. Sound(n)
    BY <1>1 DEF Settled, Sound
  <2> QED BY <2>1, AppendToType
<1>6. /\ next \in Nat /\ 1 <= next /\ next <= last + 1 /\ base <= next
  <2> DEFINE x == n.next[j]
  <2>1. x \in Nat /\ ~(Larger(1, x) < base)
    BY <1>2
  <2> HIDE DEF x, base, last
  <2>2. last \in Nat /\ base \in Nat /\ base <= last
    BY <1>1 DEF base
  <2>3. LET y == Smaller(Larger(1, x), last + 1)
        IN  y \in Nat /\ 1 <= y /\ y <= last + 1 /\ base <= y
    BY <2>1, <2>2 DEF Larger, Smaller
  <2> QED BY <2>3 DEF x
<1> HIDE DEF next, last, base
<1>7. /\ prev \in Nat /\ base <= prev /\ prev <= last
      /\ end \in Nat /\ prev + 1 <= end /\ end <= last + 1
  <2>1. base \in Nat /\ last \in Nat /\ base <= last /\ prev = Larger(next - 1, base)
    BY <1>1 DEF base
  <2>2. /\ prev \in Nat /\ base <= prev /\ prev <= last /\ prev <= next
        /\ prev = next => next = base
    BY <1>6, <2>1 DEF Larger
  <2> HIDE DEF prev
  <2>3. end \in Nat /\ next <= end /\ end <= last + 1
    BY <1>2, <1>6, <2>1 DEF Smaller
  <2>4. prev + 1 <= end
    <3>1. CASE prev # next
      BY <1>6, <2>2, <2>3, <3>1
    <3>2. CASE prev = next
      BY <1>2, <1>6, <2>1, <2>2, <3>2 DEF Smaller
    <3> QED BY <3>1, <3>2
  <2> QED BY <2>2, <2>3, <2>4
<1> HIDE DEF prev, end
<1>8. /\ batch \in Seq(Entry) /\ Len(batch) = (end - 1) - prev
      /\ \A x \in 1 .. Len(batch) : batch[x] = L[prev + x]
  <2> DEFINE lo == prev + 1
             hi == end - 1
  <2>1. /\ lo \in Nat /\ hi \in Int /\ base < lo /\ lo <= hi + 1 /\ hi <= Len(L)
        /\ prev = lo - 1
    BY <1>1, <1>7
  <2>2. batch = EntriesBetween(d, lo, hi)
    OBVIOUS
  <2> HIDE DEF lo, batch, hi
  <2>3. /\ batch \in Seq(Entry) /\ Len(batch) = hi - lo + 1
        /\ \A x \in 1 .. hi - lo + 1 : batch[x] = FullLog(d)[lo + x - 1]
    BY <1>1, <2>1, <2>2, WholeBetween DEF base
  <2>4. Len(batch) = hi - prev
    BY <1>7, <2>1, <2>3
  <2>5. ASSUME NEW x \in 1 .. Len(batch) PROVE batch[x] = L[prev + x]
    <3>1. lo + x - 1 = prev + x /\ x \in 1 .. hi - lo + 1
      BY <1>7, <2>1, <2>3
    <3> QED BY <2>3, <3>1
  <2> QED BY <2>3, <2>4, <2>5 DEF hi
<1>9. /\ whole \in Seq(Entry) /\ Len(whole) = end - 1
      /\ Alike(whole, L, end - 1)
  <2> DEFINE lo == base + 1
             hi == end - 1
  <2>1. /\ lo \in Nat /\ hi \in Int /\ base < lo /\ lo <= hi + 1 /\ hi <= Len(L)
        /\ base = lo - 1 /\ base \in Nat
    BY <1>1, <1>7
  <2>2. rest = EntriesBetween(d, lo, hi)
    BY DEF base
  <2> HIDE DEF lo, rest, hi
  <2>3. /\ rest \in Seq(Entry) /\ Len(rest) = hi - lo + 1
        /\ \A x \in 1 .. hi - lo + 1 : rest[x] = FullLog(d)[lo + x - 1]
    BY <1>1, <2>1, <2>2, WholeBetween DEF base
  <2>4. /\ whole \in Seq(Entry) /\ Len(whole) = Len(d.snap) + Len(rest)
        /\ \A x \in 1 .. Len(d.snap) : whole[x] = d.snap[x]
        /\ \A x \in Len(d.snap) + 1 .. Len(d.snap) + Len(rest) :
             whole[x] = rest[x - Len(d.snap)]
    BY <1>3, <2>3, ConcatFacts
  <2> HIDE DEF whole
  <2>5. Len(whole) = hi
    BY <1>3, <2>1, <2>3, <2>4
  <2>6. ASSUME NEW x \in 1 .. hi PROVE whole[x] = L[x]
    <3>1. CASE x <= base
      BY <1>3, <2>1, <2>4, <3>1 DEF Alike
    <3>2. CASE x > base
      <4>1. /\ x \in base + 1 .. base + Len(rest) /\ x - base \in 1 .. hi - lo + 1
            /\ lo + (x - base) - 1 = x
        BY <2>1, <2>3, <3>2
      <4> QED BY <1>3, <2>3, <2>4, <4>1
    <3> QED BY <2>1, <3>1, <3>2
  <2> QED BY <2>4, <2>5, <2>6 DEF hi, Alike
<1>10. EntryAt(d, prev).term = TermAt(L, prev)
  <2>1. prev \in base .. Len(L)
    BY <1>1, <1>7
  <2> QED BY <1>1, <2>1, WholeLog DEF base
<1> HIDE DEF batch, whole, m
<1>11. /\ m.from = i /\ m.to = j /\ m.term = d.term /\ m.prev = prev
       /\ m.prevTerm = TermAt(L, prev) /\ m.entries = batch
       /\ m.commit = d.commit /\ m.whole = whole
  BY <1>4, <1>10
<1>12. CopyOf(n, m)
  <2>1. end - 1 <= Len(L)
    BY <1>1, <1>7
  <2> QED BY <1>9, <1>11, <2>1 DEF CopyOf
<1>13. Honest(m)
  <2>1. Len(whole) = prev + Len(batch) /\ Len(whole) \in Nat /\ Len(whole) <= Len(L)
    BY <1>1, <1>7, <1>8, <1>9
  <2>2. ASSUME NEW x \in 1 .. Len(batch) PROVE batch[x] = whole[prev + x]
    <3>1. prev + x \in 1 .. end - 1
      BY <1>7, <1>8
    <3> QED BY <1>8, <1>9, <3>1 DEF Alike
  <2>3. TermAt(L, prev) = TermAt(whole, prev)
    <3>1. CASE prev = 0
      BY <3>1 DEF TermAt
    <3>2. CASE prev # 0
      <4>1. prev \in 1 .. end - 1
        BY <1>7, <3>2
      <4> QED BY <1>9, <3>2, <4>1 DEF TermAt, Alike
    <3> QED BY <3>1, <3>2
  <2>4. Ordered(whole, d.term)
    <3>1. Ordered(L, d.term)
      BY <1>1 DEF Whole
    <3> HIDE DEF L
    <3>2. ASSUME NEW k \in 1 .. Len(whole)
          PROVE  k \in 1 .. Len(L) /\ whole[k] = L[k] /\ k \in Nat
      BY <1>1, <1>9, <2>1 DEF Alike
    <3>3. ASSUME NEW k \in 1 .. Len(whole), NEW l \in k .. Len(whole)
          PROVE  whole[k].term <= whole[l].term
      <4>1. l \in 1 .. Len(whole) /\ l \in k .. Len(L)
        BY <1>1, <2>1
      <4>2. L[k].term <= L[l].term
        BY <3>1, <3>2, <4>1 DEF Ordered
      <4> QED BY <3>2, <4>1, <4>2
    <3>4. ASSUME NEW k \in 1 .. Len(whole)
          PROVE  0 < whole[k].term /\ whole[k].term <= d.term
      BY <3>1, <3>2 DEF Ordered
    <3> QED BY <3>3, <3>4 DEF Ordered
  <2> QED BY <1>11, <2>1, <2>2, <2>3, <2>4 DEF Honest
<1> QED BY <1>5, <1>11, <1>12, <1>13 DEF m

(* Index f is the first at which W replaces L, or the one after W: up to it   *)
(* the terms agree from the matched entry on, and at it they do not.          *)
Replaces(L, M, m, f) ==
  /\ m.prev < f /\ f <= Len(m.whole) + 1 /\ f <= Len(L) + 1
  /\ \A x \in m.prev .. f - 1 : TermAt(L, x) = TermAt(m.whole, x)
  /\ f = Len(m.whole) + 1 => M = L
  /\ f <= Len(m.whole) => f = Len(L) + 1 \/ TermAt(L, f) # TermAt(m.whole, f)
  /\ f <= Len(m.whole) => /\ Len(M) = Len(m.whole) /\ Alike(M, L, f - 1)
                          /\ \A x \in f .. Len(m.whole) : M[x] = m.whole[x]

(* q is follower n after it stored what is new in m. *)
Install(n, q, m) ==
  /\ q.disk.term = n.disk.term /\ q.disk.vote = n.disk.vote
  /\ q.disk.base = n.disk.base
  /\ q.disk.commit = CommitAfter(n.disk, m)
  /\ SameOffice(n, q) /\ q.mode = n.mode
  /\ q.ballots = n.ballots /\ q.reigns = n.reigns /\ AnswersFrom(n, q)
  /\ \E f \in Nat :
       /\ Replaces(FullLog(n.disk), FullLog(q.disk), m, f)
       /\ f <= Len(m.whole) => n.disk.commit < f
       /\ q.stored = n.stored \cup
            {<<k, m.term>> : k \in {x \in f .. Len(m.whole) : m.whole[x].term = m.term}}

(* The loop of AppendEntries finds the first new entry, if there is one. *)
LEMMA ReplaceFromExact ==
  ASSUME NEW d, Whole(d), NEW m \in AppendRequest, Honest(m), Matches(d, m)
  PROVE  LET L == FullLog(d)
             from == ReplaceFrom(d, m)
             f == IF from = 0 THEN Len(m.whole) + 1 ELSE from
         IN  /\ f \in Nat /\ m.prev < f /\ f <= Len(m.whole) + 1 /\ f <= Len(L) + 1
             /\ \A x \in m.prev .. f - 1 : TermAt(L, x) = TermAt(m.whole, x)
             /\ from # 0 => from <= Len(m.whole)
             /\ from # 0 => f = Len(L) + 1 \/ TermAt(L, f) # TermAt(m.whole, f)
             /\ from \in Nat
<1> DEFINE L == FullLog(d)
           W == m.whole
           S == NewPositions(d, m)
           from == ReplaceFrom(d, m)
           f == IF from = 0 THEN Len(W) + 1 ELSE from
           prev == m.prev
           len == Len(m.entries)
<1>1. /\ prev \in Nat /\ m.entries \in Seq(Entry) /\ len \in Nat
      /\ W \in Seq(Entry) /\ Len(W) \in Nat
  BY DEF AppendRequest
<1>2. /\ d \in Store /\ L \in Seq(Entry) /\ Len(L) \in Nat /\ Len(L) = LastIndex(d)
      /\ d.base \in Nat
  BY WholeLog, StoreTypes DEF Whole
<1>3. d.base <= prev /\ prev <= Len(L) /\ EntryAt(d, prev).term = m.prevTerm
  BY <1>2 DEF Matches
<1>4. S \in SUBSET (1 .. len)
  BY DEF NewPositions
<1>5. ASSUME NEW k \in 1 .. len, k \notin S
      PROVE  /\ prev + k <= Len(L)
             /\ TermAt(L, prev + k) = TermAt(W, prev + k)
  <2>1. ~(prev + k > LastIndex(d)) /\ EntryAt(d, prev + k).term = m.entries[k].term
    BY <1>5 DEF NewPositions
  <2>2. prev + k <= Len(L) /\ prev + k \in d.base .. Len(L) /\ prev + k # 0
    BY <1>1, <1>2, <1>3, <2>1
  <2>3. m.entries[k] = W[prev + k]
    BY DEF Honest
  <2>4. EntryAt(d, prev + k).term = TermAt(L, prev + k)
    BY <2>2, WholeLog
  <2>5. TermAt(W, prev + k) = m.entries[k].term
    BY <2>2, <2>3 DEF TermAt
  <2> QED BY <2>1, <2>2, <2>4, <2>5
<1>6. TermAt(L, prev) = TermAt(W, prev)
  <2>1. prev \in d.base .. Len(L)
    BY <1>1, <1>2, <1>3
  <2>2. EntryAt(d, prev).term = TermAt(L, prev)
    BY <2>1, WholeLog
  <2> QED BY <1>3, <2>2 DEF Honest
<1>7. Len(W) = prev + len
  BY DEF Honest
<1>8. from = IF S = {} THEN 0 ELSE prev + Min(S)
  BY DEF ReplaceFrom
<1> DEFINE g == f - prev
<1>9. /\ g \in Nat /\ 1 <= g /\ g <= len + 1 /\ f = prev + g /\ from \in Nat
      /\ (from # 0 => g <= len /\ g \in S)
      /\ \A k \in 1 .. g - 1 : k \in 1 .. len /\ k \notin S
  <2> HIDE DEF S, prev, len, from
  <2>1. CASE S = {}
    <3>1. from = 0 /\ f = Len(W) + 1
      BY <1>8, <2>1
    <3> HIDE DEF f
    <3>2. g = len + 1 /\ f = prev + g
      BY <1>1, <1>7, <3>1
    <3> HIDE DEF g
    <3> QED BY <1>1, <2>1, <3>1, <3>2
  <2>2. CASE S # {}
    <3> DEFINE min == Min(S)
    <3>1. min \in S
      BY <1>1, <1>4, <2>2, MinInSet
    <3>2. \A y \in S : min <= y
      <4>1. S \in SUBSET Nat
        BY <1>4
      <4>2. PICK x \in S : \A y \in S : x <= y
        BY <2>2, <4>1, LeastNatural
      <4> QED BY <4>2 DEF Min
    <3>3. from = prev + min
      BY <1>8, <2>2
    <3> HIDE DEF min
    <3>4. min \in 1 .. len
      BY <1>4, <3>1
    <3>5. from # 0 /\ f = prev + min
      BY <1>1, <3>3, <3>4
    <3> HIDE DEF f
    <3>6. g = min
      BY <1>1, <3>4, <3>5
    <3> HIDE DEF g
    <3>7. ASSUME NEW k \in 1 .. g - 1 PROVE k \in 1 .. len /\ k \notin S
      <4>1. k \in 1 .. len /\ ~(min <= k)
        BY <1>1, <3>4, <3>6
      <4> QED BY <3>2, <4>1
    <3> QED BY <1>1, <3>1, <3>3, <3>4, <3>5, <3>6, <3>7
  <2> QED BY <2>1, <2>2
<1> HIDE DEF f, g, from, prev, len, S
<1>10. /\ f \in Nat /\ prev < f /\ f <= Len(W) + 1 /\ (from # 0 => from <= Len(W))
  <2>1. from # 0 => f = from
    BY DEF f
  <2> QED BY <1>1, <1>7, <1>9, <2>1
<1>11. f <= Len(L) + 1
  <2>1. CASE g = 1
    BY <1>1, <1>2, <1>3, <1>9, <2>1
  <2>2. CASE g # 1
    <3>1. g - 1 \in 1 .. g - 1
      BY <1>9, <2>2
    <3>2. prev + (g - 1) <= Len(L)
      BY <1>5, <1>9, <3>1
    <3> QED BY <1>1, <1>2, <1>9, <3>2
  <2> QED BY <2>1, <2>2
<1>12. ASSUME NEW x \in prev .. f - 1 PROVE TermAt(L, x) = TermAt(W, x)
  <2>1. CASE x = prev
    BY <1>6, <2>1
  <2>2. CASE x # prev
    <3>1. x - prev \in 1 .. g - 1 /\ prev + (x - prev) = x
      BY <1>1, <1>9, <2>2
    <3> QED BY <1>5, <1>9, <3>1
  <2> QED BY <2>1, <2>2
<1>13. ASSUME from # 0 PROVE f = Len(L) + 1 \/ TermAt(L, f) # TermAt(W, f)
  <2>1. g \in 1 .. len /\ g \in S
    BY <1>1, <1>4, <1>9, <1>13
  <2>2. prev + g > LastIndex(d) \/ EntryAt(d, prev + g).term # m.entries[g].term
    BY <2>1 DEF NewPositions, S, prev
  <2>3. CASE prev + g > LastIndex(d)
    BY <1>1, <1>2, <1>9, <1>10, <1>11, <2>3
  <2>4. CASE ~(prev + g > LastIndex(d))
    <3>1. f \in d.base .. Len(L) /\ f # 0
      BY <1>1, <1>2, <1>3, <1>9, <1>10, <2>4
    <3>2. EntryAt(d, f).term = TermAt(L, f)
      BY <3>1, WholeLog
    <3>3. m.entries[g] = W[f]
      BY <1>9, <2>1 DEF Honest, prev, len
    <3>4. TermAt(W, f) = m.entries[g].term
      BY <3>1, <3>3 DEF TermAt
    <3> QED BY <1>9, <2>2, <2>4, <3>2, <3>4
  <2> QED BY <2>3, <2>4
<1> QED BY <1>9, <1>10, <1>11, <1>12, <1>13 DEF f, from, prev

(* The end of AppendEntries: the log becomes a rewriting by the request, never *)
(* below the commit index, and validate accepts it.                            *)
LEMMA InstallExact ==
  ASSUME NEW n, Settled(n), n.role = "follower", NEW i \in Node,
         NEW m \in AppendRequest, Honest(m), n.disk.term = m.term,
         Matches(n.disk, m), ~AppendError(n.disk, m)
  PROVE  LET q == InstallEntries(n, i, m) IN Settled(q) /\ Install(n, q, m)
<1> DEFINE d == n.disk
           L == FullLog(d)
           W == m.whole
           from == ReplaceFrom(d, m)
           f == IF from = 0 THEN Len(W) + 1 ELSE from
           commit == CommitAfter(d, m)
           new == IF from = 0 THEN <<>>
                  ELSE SubSeq(m.entries, from - m.prev, Len(m.entries))
           a == PersistLocked(n, d.term, d.vote, commit, from, new)
           q == InstallEntries(n, i, m)
           own == {<<k, m.term>> : k \in {x \in f .. Len(W) : W[x].term = m.term}}
<1>1. /\ Ready(n) /\ n \in NodeState /\ Whole(d) /\ d \in Store
      /\ L \in Seq(Entry) /\ Len(L) \in Nat /\ Len(L) = LastIndex(d)
      /\ d.base \in Nat /\ d.commit \in Nat /\ d.term \in Nat
      /\ d.vote \in Node \cup {Nil} /\ d.commit <= Len(L)
  BY ReadyFacts DEF Settled
<1>2. n.pending = {} /\ ~n.failed /\ n.applied = d.commit /\ n.applied \in Nat
  BY <1>1, ReadyFacts DEF Ready, Settled
<1>3. /\ m.prev \in Nat /\ m.entries \in Seq(Entry) /\ Len(m.entries) \in Nat
      /\ W \in Seq(Entry) /\ Len(W) \in Nat /\ m.commit \in Nat
      /\ Len(W) = m.prev + Len(m.entries)
  BY DEF AppendRequest, Honest
<1>4. /\ f \in Nat /\ m.prev < f /\ f <= Len(W) + 1 /\ f <= Len(L) + 1
      /\ \A x \in m.prev .. f - 1 : TermAt(L, x) = TermAt(W, x)
      /\ (from # 0 => from <= Len(W)) /\ from \in Nat
      /\ (from # 0 => f = Len(L) + 1 \/ TermAt(L, f) # TermAt(W, f))
  BY <1>1, ReplaceFromExact
<1>14. /\ f \in Nat /\ m.prev < f /\ f <= Len(W) + 1 /\ f <= Len(L) + 1
       /\ (from # 0 => from <= Len(W)) /\ from \in Nat
  BY <1>4
<1>5. from # 0 => d.commit < from
  <2>1. ~(from # 0 /\ from <= d.commit)
    BY DEF AppendError
  <2> HIDE DEF from
  <2> QED BY <1>1, <1>4, <2>1
<1>6. commit \in Nat /\ d.commit <= commit /\ commit <= Larger(d.commit, Len(W))
  <2> DEFINE c == d.commit
             l == Len(W)
  <2>1. commit = Larger(c, Smaller(m.commit, l)) /\ c \in Nat /\ l \in Nat
    BY <1>1, <1>3 DEF CommitAfter
  <2> HIDE DEF c, l, commit
  <2>2. commit \in Nat /\ c <= commit /\ commit <= Larger(c, l)
    BY <1>3, <2>1 DEF Larger, Smaller
  <2> QED BY <2>2 DEF c, l
<1>7. q = IF from = 0 /\ commit = d.commit THEN n
          ELSE IF a.failed THEN a ELSE ApplyLocked(a, i)
  BY DEF InstallEntries
<1> HIDE DEF from, commit, q
<1>8. CASE from = 0 /\ commit = d.commit
  <2>1. q = n /\ f = Len(W) + 1
    BY <1>7, <1>8
  <2>2. own = {}
    BY <1>3, <2>1
  <2> HIDE DEF f, own
  <2>3. Replaces(L, FullLog(q.disk), m, f)
    <3>1. ~(f <= Len(W))
      BY <1>3, <2>1
    <3> QED BY <1>4, <2>1, <3>1 DEF Replaces
  <2>4. ~(f <= Len(W))
    BY <1>3, <2>1
  <2>5. SameOffice(n, q) /\ AnswersFrom(n, q)
    BY <2>1 DEF SameOffice, AnswersFrom
  <2>6. Install(n, q, m)
    BY <1>4, <1>8, <2>1, <2>2, <2>3, <2>4, <2>5 DEF Install, commit, own
  <2> QED BY <2>1, <2>6 DEF q
<1>9. CASE ~(from = 0 /\ commit = d.commit)
  <2>1. /\ a \in NodeState /\ Whole(a.disk)
        /\ a.disk.term = d.term /\ a.disk.vote = d.vote /\ a.disk.commit = commit
        /\ a.disk.base = d.base /\ a.mode = n.mode /\ a.failed = n.failed
        /\ SameOffice(n, a) /\ SameWork(n, a)
        /\ a.ballots = n.ballots /\ a.reigns = n.reigns
        /\ a.stored = n.stored \cup own
        /\ Replaces(L, FullLog(a.disk), m, f)
        /\ Alike(FullLog(a.disk), L, d.commit)
    <3>1. CASE from = 0
      <4>1. f = Len(W) + 1 /\ new = <<>>
        BY <3>1
      <4>2. own = {} /\ ~(f <= Len(W))
        BY <1>3, <4>1
      <4>3. commit <= Len(L)
        BY <1>1, <1>3, <1>4, <1>6, <4>1 DEF Larger
      <4> HIDE DEF own, f, new
      <4>4. WroteHard(n, a, d.term, d.vote, commit)
        <5>1. d.term <= d.term
          BY <1>1
        <5> QED BY <1>1, <1>6, <3>1, <4>1, <4>3, <5>1, PersistHard
      <4> HIDE DEF a
      <4>5. FullLog(a.disk) = L
        BY <4>4 DEF WroteHard
      <4>6. Replaces(L, FullLog(a.disk), m, f)
        BY <1>4, <4>2, <4>5 DEF Replaces
      <4>7. Alike(FullLog(a.disk), L, d.commit)
        BY <4>5 DEF Alike
      <4> QED BY <4>2, <4>4, <4>6, <4>7 DEF WroteHard, SamePast
    <3>2. CASE from # 0
      <4> DEFINE g == from - m.prev
                 b == Len(m.entries)
                 r == Record(d.term, d.vote, commit, from, new)
      <4>1. f = from /\ new = SubSeq(m.entries, g, b)
        BY <3>2
      <4> HIDE DEF f, new
      <4> DEFINE pv == m.prev
                 lw == Len(W)
                 ll == Len(L)
                 bs == d.base
      <4>19. /\ pv \in Nat /\ lw \in Nat /\ ll \in Nat /\ bs \in Nat /\ bs <= pv
             /\ from \in Nat /\ f = from /\ from <= lw /\ from <= ll + 1 /\ pv < from
             /\ b \in Nat /\ lw = pv + b
        BY <1>1, <1>3, <1>14, <3>2, <4>1 DEF Matches
      <4>18. g = from - pv
        OBVIOUS
      <4> HIDE DEF g, b, pv, lw, ll, bs
      <4>20. /\ pv \in Nat /\ lw \in Nat /\ ll \in Nat /\ bs \in Nat /\ bs <= pv
             /\ from \in Nat /\ f = from /\ from <= lw /\ from <= ll + 1
             /\ g \in Nat /\ 1 <= g /\ b \in Nat /\ g <= b + 1 /\ from = pv + g
             /\ lw = pv + b
        BY <4>18, <4>19
      <4>2. /\ g \in Nat /\ 1 <= g /\ b \in Int /\ g <= b + 1 /\ from = m.prev + g
            /\ b <= Len(m.entries) /\ b \in Nat /\ Len(W) = m.prev + b
        BY <4>20 DEF pv, lw, b
      <4>3. /\ new \in Seq(Entry) /\ Len(new) = b - g + 1
            /\ \A x \in 1 .. b - g + 1 : new[x] = m.entries[g + x - 1]
        BY <1>3, <4>1, <4>2, SliceFacts
      <4>21. from - 1 \in Nat /\ (from - 1) + Len(new) = lw /\ Len(new) \in Nat
        <5> DEFINE ln == Len(new)
        <5>1. ln = b - g + 1
          BY <4>3
        <5> HIDE DEF ln
        <5>2. from - 1 \in Nat /\ (from - 1) + ln = lw /\ ln \in Nat
          BY <4>20, <5>1
        <5> QED BY <5>2 DEF ln
      <4>4. /\ from - 1 \in Nat /\ (from - 1) + Len(new) = Len(W) /\ Len(new) \in Nat
        BY <4>21 DEF lw
      <4>5. ASSUME NEW x \in 1 .. Len(new) PROVE new[x] = W[(from - 1) + x]
        <5>3. g + x - 1 \in 1 .. b /\ pv + (g + x - 1) = (from - 1) + x
          BY <4>20, <4>21
        <5>1. g + x - 1 \in 1 .. b /\ m.prev + (g + x - 1) = (from - 1) + x
          BY <5>3 DEF pv
        <5>2. m.entries[g + x - 1] = W[m.prev + (g + x - 1)]
          BY <5>1 DEF Honest, b
        <5> QED BY <4>3, <5>1, <5>2
      <4>6. OrderedTerms(new, TermAt(W, from - 1), d.term)
        <5> DEFINE z == from - 1
        <5>1. z \in Nat /\ z + Len(new) <= Len(W)
          BY <1>3, <4>4
        <5>2. \A x \in 1 .. Len(new) : new[x] = W[z + x]
          BY <4>5
        <5>3. Ordered(W, d.term)
          BY DEF Honest
        <5> HIDE DEF z
        <5>4. OrderedTerms(new, TermAt(W, z), d.term)
          BY <1>1, <1>3, <4>3, <5>1, <5>2, <5>3, OrderedSlice
        <5> QED BY <5>4 DEF z
      <4>7. EntryAt(d, from - 1).term = TermAt(W, from - 1)
        <5>3. from - 1 \in pv .. f - 1 /\ from - 1 \in bs .. ll
          BY <4>20
        <5>1. from - 1 \in m.prev .. f - 1 /\ from - 1 \in d.base .. Len(L)
          BY <5>3 DEF pv, bs, ll
        <5>2. EntryAt(d, from - 1).term = TermAt(L, from - 1)
          BY <1>1, <5>1, WholeLog
        <5> QED BY <1>4, <5>1, <5>2
      <4>8. Validate(d, r)
        <5>1. /\ d.term <= d.term /\ d.commit < from /\ from <= LastIndex(d) + 1
          BY <1>1, <1>4, <1>5, <3>2, <4>1
        <5>2. commit < from + Len(new)
          BY <1>1, <1>3, <1>4, <1>5, <1>6, <3>2, <4>4 DEF Larger
        <5>3. /\ r.term = d.term /\ r.vote = d.vote /\ r.commit = commit
              /\ r.from = from /\ r.entries = new
          BY DEF Record
        <5> HIDE DEF r
        <5> QED BY <1>6, <3>2, <4>6, <4>7, <5>1, <5>2, <5>3 DEF Validate
      <4>9. Wrote(n, a, d.term, d.vote, commit, from, new)
        BY <1>1, <1>4, <1>6, <4>3, <4>8, PersistExact
      <4> HIDE DEF a, r
      <4> DEFINE M == FullLog(a.disk)
      <4>10. Rewritten(L, M, from, new)
        BY <4>9 DEF Wrote
      <4> HIDE DEF M
      <4>11. /\ Len(M) = Len(W) /\ Alike(M, L, from - 1)
             /\ \A x \in 1 .. Len(new) : M[from - 1 + x] = new[x]
        BY <3>2, <4>4, <4>10 DEF Rewritten
      <4>12. ASSUME NEW x \in from .. Len(W) PROVE M[x] = W[x]
        <5>1. x - (from - 1) \in 1 .. Len(new) /\ from - 1 + (x - (from - 1)) = x
          BY <1>3, <1>4, <4>4
        <5> QED BY <4>5, <4>11, <5>1
      <4>13. Replaces(L, M, m, f)
        <5>1. f # Len(W) + 1
          BY <1>3, <1>4, <3>2, <4>1
        <5> QED BY <1>4, <3>2, <4>1, <4>11, <4>12, <5>1 DEF Replaces
      <4>14. Alike(M, L, d.commit)
        <5>1. \A x \in 1 .. d.commit : x \in 1 .. from - 1
          BY <1>1, <1>4, <1>5, <3>2
        <5> QED BY <4>11, <5>1 DEF Alike
      <4>15. OwnOf(from, new, d.term) = own
        <5>1. ASSUME NEW p \in OwnOf(from, new, d.term) PROVE p \in own
          <6>1. PICK k \in 1 .. Len(new) : new[k].term = d.term /\ p = <<from + k - 1, d.term>>
            BY DEF OwnOf
          <6>4. /\ from + k - 1 \in f .. lw /\ from + k - 1 = (from - 1) + k
            BY <4>20, <4>21
          <6>2. /\ from + k - 1 \in f .. Len(W) /\ from + k - 1 = (from - 1) + k
            BY <6>4 DEF lw
          <6>3. W[from + k - 1].term = m.term
            BY <4>5, <6>1, <6>2
          <6> QED BY <6>1, <6>2, <6>3
        <5>2. ASSUME NEW p \in own PROVE p \in OwnOf(from, new, d.term)
          <6>1. PICK k \in f .. Len(W) : W[k].term = m.term /\ p = <<k, m.term>>
            OBVIOUS
          <6> DEFINE y == k - (from - 1)
          <6>5. k \in f .. lw
            BY DEF lw
          <6>2. y \in 1 .. Len(new) /\ (from - 1) + y = k /\ from + y - 1 = k
            BY <4>20, <4>21, <6>5
          <6>3. new[y].term = d.term
            BY <4>5, <6>1, <6>2
          <6>4. p = <<from + y - 1, d.term>>
            BY <6>1, <6>2
          <6> HIDE DEF y
          <6> QED BY <6>2, <6>3, <6>4 DEF OwnOf
        <5> QED BY <5>1, <5>2
      <4> QED BY <4>9, <4>13, <4>14, <4>15 DEF Wrote, M
    <3> QED BY <3>1, <3>2
  <2> HIDE DEF a, own, f
  <2>2. Ready(a)
    <3> DEFINE M == FullLog(a.disk)
    <3>1. /\ ~a.failed /\ a.role = "follower" /\ a.pending = {} /\ a.applied = d.commit
          /\ a.machine = n.machine /\ a.answered = n.answered
      BY <1>2, <2>1 DEF SameOffice, SameWork
    <3>2. /\ d.base <= d.commit /\ Len(n.machine) = d.commit
          /\ Alike(n.machine, L, d.commit) /\ \A x \in n.answered : x.entry.cmd = x.cmd
      BY <1>1, <1>2 DEF Ready
    <3>3. Alike(n.machine, M, d.commit)
      BY <2>1, <3>2 DEF Alike
    <3> HIDE DEF M
    <3> QED BY <1>6, <2>1, <3>1, <3>2, <3>3 DEF Ready, M
  <2>3. q = ApplyLocked(a, i)
    BY <1>7, <1>9, <2>2 DEF Ready
  <2>4. Settled(q) /\ Progress(a, q, i) /\ q.disk.commit = a.disk.commit
    BY <2>2, <2>3, ApplyExact DEF Settled
  <2>5. a.role # "leader"
    BY <2>1 DEF SameOffice
  <2>6. /\ FullLog(q.disk) = FullLog(a.disk) /\ q.disk.term = a.disk.term
        /\ q.disk.vote = a.disk.vote /\ q.disk.base = a.disk.base
        /\ SameOffice(a, q) /\ SamePast(a, q) /\ q.mode = a.mode /\ AnswersFrom(a, q)
    BY <2>4, <2>5 DEF Progress, SameLog
  <2>7. AnswersFrom(n, q) /\ SameOffice(n, q)
    BY <2>1, <2>6 DEF AnswersFrom, SameOffice, SameWork
  <2>8. f <= Len(W) => d.commit < f
    <3>1. CASE from = 0
      <4>1. f = Len(W) + 1
        BY <3>1 DEF f
      <4> QED BY <1>3, <4>1
    <3>2. CASE from # 0
      <4>1. f = from
        BY <3>2 DEF f
      <4> QED BY <1>5, <3>2, <4>1
    <3> QED BY <3>1, <3>2
  <2>9. Install(n, q, m)
    BY <1>4, <2>1, <2>4, <2>6, <2>7, <2>8 DEF Install, SamePast, commit, own
  <2> QED BY <2>4, <2>9 DEF q
<1> QED BY <1>8, <1>9

-----------------------------------------------------------------------------
(***************************************************************************)
(* What one step of Raft does to one node and to the messages, for every   *)
(* cluster.                                                                *)
(*                                                                         *)
(* NodeInv says that every node is Fit (its machine is its committed log,  *)
(* its waiting clients wait for their own entries, nothing it wrote was    *)
(* refused) and that every append request is a slice of an ordered log.    *)
(* It is inductive by itself: what a handler needs of the other nodes is   *)
(* in the request.  Each action is shown to be one of the kinds of steps   *)
(* that NextKind lists, chains of the relations above; the proofs about    *)
(* the whole cluster read the kinds and not the actions.                   *)
(***************************************************************************)

-----------------------------------------------------------------------------
(* The append requests anyone can still see: under way, or in an answer. *)
Appends == {m \in wire \cup {r.req : r \in replies} : m.type = "append"}

NodeInv == /\ TypeInv
           /\ \A i \in Node : Fit(nodes[i])
           /\ \A m \in Appends : Honest(m)

(* Node i becomes p, and nobody else changes. *)
Becomes(i, p) == nodes' = [nodes EXCEPT ![i] = p] /\ Fit(p)

(* No request is sent, and no append request is acknowledged. *)
Hush == /\ wire' \in SUBSET wire
        /\ \A r \in replies' : \/ r \in replies
                               \/ r.req \in wire /\ ~(r.req.type = "append" /\ r.ok)

(* Node n stops, follows (l, or nobody), or carries on as p: nothing durable *)
(* changes but the term.                                                     *)
Rest(n, p, l) ==
  /\ FullLog(p.disk) = FullLog(n.disk) /\ p.disk.commit = n.disk.commit
  /\ p.disk.base = n.disk.base /\ n.disk.term <= p.disk.term
  /\ SamePast(n, p) /\ p.answered = n.answered
  /\ \/ p.role = "follower" /\ p.leader \in {Nil, l}
     \/ /\ p.role = n.role /\ p.leader = n.leader /\ p.match = n.match
        /\ p.disk.term = n.disk.term

(* Leader n hears in r that r.req.to holds the log up to the end of r.req. *)
Matched(n, p, r) ==
  /\ p.disk = n.disk /\ p.role = n.role /\ p.leader = n.leader /\ p.mode = n.mode
  /\ SamePast(n, p) /\ p.answered = n.answered
  /\ p.match = [n.match EXCEPT ![r.req.to] = MatchAfter(n, r.req)]

(* The vote requests of candidate i. *)
Asked(p, i) ==
  \A m \in wire' \ wire :
    /\ m.type = "vote" /\ m.from = i /\ m.term = p.disk.term
    /\ m.lastIndex = Len(FullLog(p.disk))
    /\ m.lastTerm = TermAt(FullLog(p.disk), Len(FullLog(p.disk)))

(* The kinds of steps. *)
RestKind ==
  \E i \in Node : \E p, l :
    /\ Becomes(i, p) /\ Rest(nodes[i], p, l) /\ Hush
    /\ l = Nil \/ \E m \in Appends : l = m.from /\ m.term = p.disk.term
VoteKind ==
  \E m \in wire : \E p : /\ m \in VoteRequest /\ Becomes(m.to, p)
                         /\ nodes[m.to].disk.term <= m.term
                         /\ Voted(nodes[m.to], p, m) /\ Hush
CampaignKind ==
  \E i \in Node : \E p : /\ Becomes(i, p) /\ Campaign(nodes[i], p, i) /\ Asked(p, i)
                         /\ nodes[i].role # "leader" /\ replies' = replies
CampaignLedKind ==
  \E i \in Node : \E c, p : /\ Becomes(i, p) /\ Hush /\ nodes[i].role # "leader"
                            /\ Campaign(nodes[i], c, i) /\ Settled(c) /\ Led(c, p, i)
LedKind ==
  \E i \in Node : \E p : /\ Becomes(i, p) /\ Hush
                         /\ nodes[i].role = "candidate" /\ Led(nodes[i], p, i)
OpenKind ==
  \E i \in Node : \E c, p :
    /\ Becomes(i, p) /\ Hush /\ nodes[i].mode = "down"
    /\ Revived(nodes[i], c) /\ Settled(c)
    /\ \/ p = c /\ c.disk.term = nodes[i].disk.term
       \/ /\ Led(c, p, i) /\ FixedLeader = i
          /\ c.disk.term = nodes[i].disk.term + 1
MatchKind ==
  \E r \in replies : \E c, x, p :
    LET i == r.req.from
        n == nodes[i]
    IN  /\ Becomes(i, p) /\ Hush
        /\ r.req \in AppendRequest /\ r.ok /\ n.role = "leader"
        /\ r.term = n.disk.term /\ r.req.term = n.disk.term
        /\ Matched(n, c, r) /\ Progress(c, x, i) /\ Rest(x, p, Nil)
        /\ p = x \/ (x.disk.base = n.disk.base /\ p.disk.term = n.disk.term)
SubmitKind ==
  \E i \in Node : \E cmd \in Operation : \E c, p :
    /\ Becomes(i, p) /\ Hush /\ nodes[i].role = "leader"
    /\ Proposed(nodes[i], c, i, cmd) /\ Settled(c) /\ Progress(c, p, i)
InstallKind ==
  \E m \in wire : \E c, p :
    /\ m \in AppendRequest /\ Becomes(m.to, p)
    /\ Rest(nodes[m.to], c, m.from) /\ c.role = "follower" /\ c.leader = m.from
    /\ c.disk.term = m.term /\ Settled(c) /\ Install(c, p, m)
    /\ wire' \in SUBSET wire
    /\ \A r \in replies' : r \in replies \/ r.req = m
SendKind ==
  \E i, j \in Node :
    LET m == AppendTo(nodes[i], i, j)
    IN  /\ UNCHANGED nodes /\ replies' = replies
        /\ wire' \in SUBSET (wire \cup {m}) /\ i # j
        /\ nodes[i].role = "leader" /\ m \in AppendRequest
        /\ Honest(m) /\ CopyOf(nodes[i], m) /\ m.from = i /\ m.to = j

NextKind == \/ RestKind \/ VoteKind \/ CampaignKind \/ CampaignLedKind \/ LedKind
            \/ OpenKind \/ MatchKind \/ SubmitKind \/ InstallKind \/ SendKind

-----------------------------------------------------------------------------
(* One lemma per action. *)

(* A node that takes requests is settled between two handlers. *)
LEMMA AvailableSettled ==
  ASSUME NodeInv, NEW i \in Node, Available(nodes[i])
  PROVE  /\ Settled(nodes[i]) /\ Ready(nodes[i]) /\ nodes[i] \in NodeState
         /\ nodes[i].mode = "up" /\ nodes[i].disk.term \in Nat
         /\ ~nodes[i].failed
BY ReadyFacts DEF NodeInv, Fit, Available, Settled, Ready

(* A settled node is fit. *)
LEMMA SettledFit ==
  ASSUME NEW p, Settled(p), p.mode = "up"
  PROVE  Fit(p)
BY DEF Fit

(* The requests and answers of a state are typed. *)
LEMMA MessageTypes ==
  ASSUME NodeInv
  PROVE  /\ \A m \in wire : m \in Request /\ m.to \in Node /\ m.from \in Node /\ m.term \in Nat
         /\ \A m \in wire : m.type = "append" => m \in AppendRequest /\ Honest(m) /\ m \in Appends
         /\ \A m \in wire : m.type = "vote" => m \in VoteRequest
         /\ \A r \in replies :
              /\ r.req \in Request /\ r.req.from \in Node /\ r.req.to \in Node
              /\ r.term \in Nat
              /\ r.req.type = "append" => r.req \in AppendRequest /\ r.req \in Appends
         /\ \A m \in Appends : m \in AppendRequest /\ m.from \in Node /\ m.to \in Node
<1>1. wire \in SUBSET Request /\ replies \in SUBSET Response
  BY DEF NodeInv, TypeInv, TypeOK
<1>2. \A r \in replies : r.req \in Request /\ r.term \in Nat
  BY <1>1, ResponseTypes
<1>3. \A m \in Appends : m \in Request /\ m.type = "append"
  BY <1>1, <1>2 DEF Appends
<1>4. \A m \in Request : m.from \in Node /\ m.to \in Node /\ m.term \in Nat
                         /\ (m.type = "vote" => m \in VoteRequest)
                         /\ (m.type = "append" => m \in AppendRequest)
  BY RequestTypes
<1>5. \A m \in wire : m.type = "append" => m \in Appends /\ Honest(m)
  BY DEF Appends, NodeInv
<1>6. \A r \in replies : r.req.type = "append" => r.req \in Appends
  BY DEF Appends
<1> QED BY <1>1, <1>2, <1>3, <1>4, <1>5, <1>6

(* Nothing but messages changes. *)
LEMMA StillKind ==
  ASSUME NodeInv, UNCHANGED nodes, Hush
  PROVE  RestKind
<1>1. PICK i \in Node : TRUE
  BY NodeAssumption
<1>2. nodes' = [nodes EXCEPT ![i] = nodes[i]]
  BY DEF NodeInv, TypeInv, TypeOK
<1>3. Becomes(i, nodes[i])
  BY <1>2 DEF Becomes, NodeInv
<1>4. Rest(nodes[i], nodes[i], Nil)
  <2>1. nodes[i].disk.term \in Nat
    BY NodeTypes, StoreTypes DEF NodeInv, TypeInv, TypeOK
  <2> QED BY <2>1 DEF Rest, SamePast
<1> QED BY <1>3, <1>4 DEF RestKind

(* The end of a call is no news. *)
LEMMA EndCallHush ==
  ASSUME NEW m, EndCall(m), UNCHANGED wire
  PROVE  Hush
BY DEF EndCall, Hush

(* An answer that refuses, or is about a vote, acknowledges nothing. *)
LEMMA ReplyHush ==
  ASSUME NEW m \in wire, NEW n, NEW ok, NEW conflict, Reply(m, n, ok, conflict),
         wire' \in SUBSET wire, m.type = "vote" \/ ok = FALSE
  PROVE  Hush
<1> DEFINE new == [req |-> m, term |-> n.disk.term, ok |-> ok, conflict |-> conflict]
<1>1. replies' = replies \/ replies' = replies \cup {new}
  BY DEF Reply
<1>2. new.req = m /\ new.ok = ok
  OBVIOUS
<1> HIDE DEF new
<1>3. ASSUME NEW r \in replies', r \notin replies PROVE r.req = m /\ r.ok = ok
  BY <1>1, <1>2, <1>3
<1> QED BY <1>3 DEF Hush

(* A leader just crowned is fit, and leads. *)
LEMMA LedFit ==
  ASSUME NEW n, NEW p, NEW i, Led(n, p, i), n.mode = "up"
  PROVE  Fit(p) /\ p.role = "leader" /\ p.mode = "up"
<1>1. Settled(p)
  BY DEF Led
<1>2. PICK l : Crown(n, l, i) /\ Progress(l, p, i)
  BY DEF Led
<1>3. p.role = "leader" /\ p.mode = "up"
  BY <1>2 DEF Crown, Appended, Progress, SameOffice
<1> QED BY <1>1, <1>3, SettledFit

(* Tick starts an election, or wins it alone. *)
LEMMA TickKind ==
  ASSUME NodeInv, NEW i \in Node, Tick(i)
  PROVE  CampaignKind \/ CampaignLedKind
<1> DEFINE n == nodes[i]
           p == StartElectionLocked(n, i)
           req(j) == [type |-> "vote", from |-> i, to |-> j, term |-> p.disk.term,
                      lastIndex |-> LastIndex(p.disk),
                      lastTerm |-> EntryAt(p.disk, LastIndex(p.disk)).term]
           asked == IF p.role = "candidate" THEN {req(j) : j \in Node \ {i}} ELSE {}
<1>1. /\ Available(n) /\ n.role # "leader" /\ nodes' = [nodes EXCEPT ![i] = p]
      /\ wire' = wire \cup asked /\ replies' = replies
  BY DEF Tick, Send
<1>2. Settled(n) /\ n.mode = "up"
  BY <1>1, AvailableSettled
<1>3. PICK c : Settled(c) /\ Campaign(n, c, i) /\ (p = c \/ Led(c, p, i))
  BY <1>1, <1>2, StartElectionExact
<1> HIDE DEF p
<1>4. c.mode = "up"
  BY <1>2, <1>3 DEF Campaign
<1>5. CASE p = c
  <2>1. Becomes(i, p)
    BY <1>1, <1>3, <1>4, <1>5, SettledFit DEF Becomes
  <2>2. /\ LastIndex(p.disk) = Len(FullLog(p.disk))
        /\ EntryAt(p.disk, LastIndex(p.disk)).term
             = TermAt(FullLog(p.disk), Len(FullLog(p.disk)))
    <3>1. Whole(p.disk)
      BY <1>3, <1>5 DEF Settled, Ready
    <3>2. /\ LastIndex(p.disk) = Len(FullLog(p.disk))
          /\ LastIndex(p.disk) \in p.disk.base .. Len(FullLog(p.disk))
      <4>1. Ready(p)
        BY <1>3, <1>5 DEF Settled
      <4> QED BY <4>1, ReadyFacts
    <3> QED BY <3>1, <3>2, WholeLog
  <2>3. Asked(p, i)
    <3> SUFFICES ASSUME NEW m \in wire', m \notin wire
                 PROVE  /\ m.type = "vote" /\ m.from = i /\ m.term = p.disk.term
                        /\ m.lastIndex = Len(FullLog(p.disk))
                        /\ m.lastTerm = TermAt(FullLog(p.disk), Len(FullLog(p.disk)))
      BY DEF Asked
    <3>1. PICK j \in Node \ {i} : m = req(j)
      BY <1>1
    <3> QED BY <2>2, <3>1
  <2> QED BY <1>1, <1>3, <1>5, <2>1, <2>3 DEF CampaignKind
<1>6. CASE Led(c, p, i)
  <2>1. Fit(p) /\ p.role = "leader"
    BY <1>4, <1>6, LedFit
  <2>2. Becomes(i, p) /\ Hush
    BY <1>1, <2>1 DEF Becomes, Hush
  <2> QED BY <1>1, <1>3, <1>6, <2>2 DEF CampaignLedKind
<1> QED BY <1>3, <1>5, <1>6

(* RequestVote takes over a term and grants a vote, or refuses. *)
LEMMA RequestVoteKind ==
  ASSUME NodeInv, NEW m \in wire, wire' \in SUBSET wire,
         RequestVote(m)
  PROVE  VoteKind
<1> DEFINE i == m.to
           n == nodes[i]
           h == VoteHandled(n, m)
           p == h.node
<1>1. /\ m.type = "vote" /\ Available(n) /\ m.term >= n.disk.term
      /\ nodes' = [nodes EXCEPT ![i] = p] /\ Reply(m, p, h.granted, 0)
  BY DEF RequestVote
<1>2. i \in Node /\ m \in VoteRequest /\ m.term \in Nat
  BY <1>1, MessageTypes
<1>3. Settled(n) /\ n.mode = "up" /\ n.disk.term \in Nat
  BY <1>1, <1>2, AvailableSettled
<1>4. n.disk.term <= m.term
  BY <1>1, <1>2, <1>3
<1>5. Settled(p) /\ p.mode = "up" /\ Voted(n, p, m)
  BY <1>2, <1>3, <1>4, VoteHandledExact
<1>6. Hush
  BY <1>1, ReplyHush
<1> HIDE DEF h
<1>7. Becomes(i, p)
  BY <1>1, <1>5, SettledFit DEF Becomes
<1> QED BY <1>2, <1>4, <1>5, <1>6, <1>7 DEF VoteKind

(* A node that steps down rests. *)
LEMMA StepDownRest ==
  ASSUME NEW n, Settled(n), NEW t \in Nat, n.disk.term <= t, NEW l \in Node \cup {Nil}
  PROVE  LET p == StepDownLocked(n, t, l)
         IN  /\ Settled(p) /\ Rest(n, p, l) /\ p.mode = n.mode
             /\ p.disk.term = t /\ p.role = "follower" /\ p.leader = l
<1> DEFINE p == StepDownLocked(n, t, l)
<1>1. /\ Settled(p)
      /\ FullLog(p.disk) = FullLog(n.disk) /\ p.disk.commit = n.disk.commit
      /\ p.disk.base = n.disk.base /\ p.disk.term = t
      /\ p.role = "follower" /\ p.leader = l /\ p.mode = n.mode
      /\ SamePast(n, p) /\ p.answered = n.answered
  BY StepDownExact DEF Settled
<1> HIDE DEF p
<1> QED BY <1>1 DEF Rest, p

(* AppendEntries that does not match only takes over the term. *)
LEMMA MismatchKind ==
  ASSUME NodeInv, NEW m \in wire, wire' \in SUBSET wire,
         AppendEntriesMismatch(m)
  PROVE  RestKind
<1> DEFINE i == m.to
           n == nodes[i]
           p == StepDownLocked(n, m.term, m.from)
<1>1. /\ m.type = "append" /\ Available(n) /\ m.term >= n.disk.term
      /\ nodes' = [nodes EXCEPT ![i] = p]
      /\ Reply(m, p, FALSE, ConflictIndex(p.disk, m))
  BY DEF AppendEntriesMismatch
<1>2. i \in Node /\ m \in Appends /\ m.term \in Nat /\ m.from \in Node
  BY <1>1, MessageTypes
<1>3. Settled(n) /\ n.mode = "up" /\ n.disk.term \in Nat
  BY <1>1, <1>2, AvailableSettled
<1>4. n.disk.term <= m.term
  BY <1>1, <1>2, <1>3
<1>5. Settled(p) /\ Rest(n, p, m.from) /\ p.mode = "up" /\ p.disk.term = m.term
  BY <1>2, <1>3, <1>4, StepDownRest
<1>6. Hush
  BY <1>1, ReplyHush
<1> HIDE DEF p
<1>7. Becomes(i, p)
  BY <1>1, <1>5, SettledFit DEF Becomes
<1> QED BY <1>2, <1>5, <1>6, <1>7 DEF RestKind

(* AppendEntries that matches takes over the term and then stores what is new. *)
LEMMA MatchesKind ==
  ASSUME NodeInv, NEW m \in wire, wire' \in SUBSET wire,
         AppendEntriesMatch(m)
  PROVE  RestKind \/ InstallKind
<1> DEFINE i == m.to
           n == nodes[i]
           c == StepDownLocked(n, m.term, m.from)
           p == InstallEntries(c, i, m)
<1>1. /\ m.type = "append" /\ Available(n) /\ m.term >= n.disk.term
      /\ Matches(c.disk, m)
      /\ \/ /\ nodes' = [nodes EXCEPT ![i] = c] /\ UNCHANGED replies
         \/ /\ ~AppendError(c.disk, m)
            /\ nodes' = [nodes EXCEPT ![i] = p] /\ Reply(m, p, TRUE, 0)
  BY DEF AppendEntriesMatch
<1>2. /\ i \in Node /\ m \in Appends /\ m.term \in Nat /\ m.from \in Node
      /\ m \in AppendRequest /\ Honest(m)
  BY <1>1, MessageTypes
<1>3. Settled(n) /\ n.mode = "up" /\ n.disk.term \in Nat
  BY <1>1, <1>2, AvailableSettled
<1>4. n.disk.term <= m.term
  BY <1>1, <1>2, <1>3
<1>5. /\ Settled(c) /\ Rest(n, c, m.from) /\ c.mode = "up" /\ c.disk.term = m.term
      /\ c.role = "follower" /\ c.leader = m.from
  BY <1>2, <1>3, <1>4, StepDownRest
<1> HIDE DEF c
<1>6. CASE nodes' = [nodes EXCEPT ![i] = c] /\ UNCHANGED replies
  <2>1. Becomes(i, c) /\ Hush
    BY <1>5, <1>6, SettledFit DEF Becomes, Hush
  <2> QED BY <1>2, <1>5, <2>1 DEF RestKind
<1>7. CASE /\ ~AppendError(c.disk, m)
           /\ nodes' = [nodes EXCEPT ![i] = p] /\ Reply(m, p, TRUE, 0)
  <2>1. Settled(p) /\ Install(c, p, m)
    BY <1>1, <1>2, <1>5, <1>7, InstallExact
  <2> HIDE DEF p
  <2>2. p.mode = "up"
    BY <1>5, <2>1 DEF Install
  <2>3. Becomes(i, p)
    BY <1>7, <2>1, <2>2, SettledFit DEF Becomes
  <2>4. \A r \in replies' : r \in replies \/ r.req = m
    BY <1>7 DEF Reply
  <2> QED BY <1>2, <1>5, <2>1, <2>3, <2>4 DEF InstallKind
<1> QED BY <1>1, <1>6, <1>7

(* A store with a later term, or a later commit index, is whole. *)
LEMMA WholeHard ==
  ASSUME NEW d, Whole(d), NEW e \in Store, e.log = d.log, e.snap = d.snap,
         e.base = d.base, d.term <= e.term, d.commit <= e.commit,
         e.commit <= LastIndex(d)
  PROVE  Whole(e) /\ FullLog(e) = FullLog(d)
<1> DEFINE L == FullLog(d)
<1>1. FullLog(e) = L /\ LastIndex(e) = LastIndex(d)
  BY DEF FullLog, LastIndex
<1>2. /\ d \in Store /\ L \in Seq(Entry) /\ Ordered(L, d.term) /\ Bounds(d)
      /\ d.term \in Nat /\ e.term \in Nat /\ d.commit \in Nat /\ e.commit \in Nat
      /\ d.base \in Nat
  BY WholeLog, StoreTypes DEF Whole
<1>3. Ordered(L, e.term)
  <2> HIDE DEF L
  <2>1. \A k \in 1 .. Len(L) : L[k].term \in Nat
    BY <1>2, EntryFacts
  <2> QED BY <1>2, <2>1 DEF Ordered
<1>4. Bounds(e)
  BY <1>1, <1>2 DEF Bounds
<1> HIDE DEF L
<1> QED BY <1>1, <1>2, <1>3, <1>4 DEF Whole, L

(* A node that stops with its store, or with a later term in it, rests. *)
LEMMA HaltRest ==
  ASSUME NEW n \in NodeState, NEW e \in Store, Whole(e),
         \A a \in n.answered : a.entry.cmd = a.cmd,
         FullLog(e) = FullLog(n.disk), e.base = n.disk.base,
         e.commit = n.disk.commit, n.disk.term <= e.term
  PROVE  LET p == [Stopped(n) EXCEPT !.disk = e]
         IN  Fit(p) /\ Rest(n, p, Nil)
<1> DEFINE p == [Stopped(n) EXCEPT !.disk = e]
<1>1. /\ p \in NodeState /\ p.disk = e /\ p.mode = "down" /\ ~p.failed
      /\ p.role = "follower" /\ p.leader = Nil /\ p.pending = {}
      /\ SamePast(n, p) /\ p.answered = n.answered
  BY StoppedExact
<1> HIDE DEF p
<1>2. Fit(p)
  BY <1>1 DEF Fit
<1>3. Rest(n, p, Nil)
  BY <1>1 DEF Rest
<1> QED BY <1>2, <1>3 DEF p

(* Every fit node has a whole store and honest answers. *)
LEMMA FitFacts ==
  ASSUME NodeInv, NEW i \in Node
  PROVE  /\ Fit(nodes[i]) /\ nodes[i] \in NodeState /\ Whole(nodes[i].disk)
         /\ nodes[i].disk \in Store /\ nodes[i].disk.term \in Nat
         /\ nodes[i].disk.commit \in Nat
         /\ \A a \in nodes[i].answered : a.entry.cmd = a.cmd
<1>1. Fit(nodes[i])
  BY DEF NodeInv
<1>2. nodes[i] \in NodeState /\ Whole(nodes[i].disk)
      /\ \A a \in nodes[i].answered : a.entry.cmd = a.cmd
  BY <1>1 DEF Fit, Settled, Ready
<1>3. nodes[i].disk \in Store
  BY <1>2 DEF Whole
<1> QED BY <1>1, <1>2, <1>3, StoreTypes

(* A stopping node takes its calls with it and sends nothing. *)
LEMMA HaltHush ==
  ASSUME NEW i \in Node, NEW e, Halt(i, e), NodeInv
  PROVE  Hush /\ nodes' = [nodes EXCEPT ![i] = [Stopped(nodes[i]) EXCEPT !.disk = e]]
<1>1. nodes \in [Node -> NodeState]
  BY DEF NodeInv, TypeInv, TypeOK
<1> QED BY <1>1 DEF Halt, Hush

(* A node that stops between two handlers. *)
LEMMA HaltKind ==
  ASSUME NodeInv, NEW i \in Node, Halt(i, nodes[i].disk)
  PROVE  RestKind
<1> DEFINE n == nodes[i]
           p == [Stopped(n) EXCEPT !.disk = n.disk]
<1>1. Hush /\ nodes' = [nodes EXCEPT ![i] = p]
  BY HaltHush
<1>2. n.disk.term <= n.disk.term
  BY FitFacts
<1>3. Fit(p) /\ Rest(n, p, Nil)
  BY <1>2, FitFacts, HaltRest
<1> HIDE DEF p
<1> QED BY <1>1, <1>3 DEF RestKind, Becomes

(* replicateOnce sends a slice of the leader's log, or panics. *)
LEMMA ReplicateKind ==
  ASSUME NodeInv, NEW i \in Node, NEW j \in Node, Replicate(i, j)
  PROVE  RestKind \/ SendKind
<1> DEFINE n == nodes[i]
           m == AppendTo(n, i, j)
<1>1. /\ i # j /\ Available(n) /\ n.role = "leader"
      /\ IF Larger(1, n.next[j]) < n.disk.base THEN Halt(i, n.disk)
         ELSE Send({m}) /\ UNCHANGED <<nodes, replies>>
  BY DEF Replicate
<1>2. CASE Larger(1, n.next[j]) < n.disk.base
  BY <1>1, <1>2, HaltKind
<1>3. CASE ~(Larger(1, n.next[j]) < n.disk.base)
  <2>1. Settled(n)
    BY <1>1, AvailableSettled
  <2>2. m \in AppendRequest /\ Honest(m) /\ CopyOf(n, m) /\ m.from = i /\ m.to = j
    BY <1>3, <2>1, AppendToExact
  <2>3. /\ wire' = wire \cup {m} /\ UNCHANGED nodes /\ replies' = replies
    BY <1>1, <1>3 DEF Send
  <2> QED BY <1>1, <2>2, <2>3 DEF SendKind
<1> QED BY <1>2, <1>3

(* Cancel, Pause and Resume change nothing durable. *)
LEMMA SmallKind ==
  ASSUME NodeInv, NEW i \in Node, NEW w,
         Cancel(i, w) \/ Pause(i) \/ Resume(i)
  PROVE  RestKind
<1> DEFINE n == nodes[i]
<1>1. nodes \in [Node -> NodeState] /\ n \in NodeState /\ Fit(n) /\ n.disk.term \in Nat
  BY FitFacts DEF NodeInv, TypeInv, TypeOK
<1>2. Hush
  BY DEF Cancel, Pause, Resume, Hush
<1>3. PICK mode \in {"up", "paused", "down"}, pending \in SUBSET n.pending :
        /\ nodes' = [nodes EXCEPT ![i] = [n EXCEPT !.mode = mode, !.pending = pending]]
        /\ mode = "down" <=> n.mode = "down"
  <2>1. CASE Cancel(i, w)
    <3> DEFINE rest == n.pending \ {w}
    <3>1. nodes' = [nodes EXCEPT ![i] = [n EXCEPT !.pending = rest]]
      BY <1>1, <2>1 DEF Cancel
    <3>2. [n EXCEPT !.pending = rest] = [n EXCEPT !.mode = n.mode, !.pending = rest]
      BY <1>1 DEF NodeState
    <3>3. rest \in SUBSET n.pending /\ n.mode \in {"up", "paused", "down"}
      BY <1>1, NodeTypes
    <3> HIDE DEF rest
    <3> QED BY <3>1, <3>2, <3>3
  <2>2. CASE Pause(i)
    <3>1. nodes' = [nodes EXCEPT ![i] = [n EXCEPT !.mode = "paused", !.pending = {}]]
      BY <1>1, <2>2 DEF Pause
    <3>2. n.mode = "up"
      BY <2>2 DEF Pause
    <3> DEFINE mode == "paused"
               none == {}
    <3>3. /\ mode \in {"up", "paused", "down"} /\ none \in SUBSET n.pending
          /\ mode = "down" <=> n.mode = "down"
          /\ nodes' = [nodes EXCEPT ![i] = [n EXCEPT !.mode = mode, !.pending = none]]
      BY <3>1, <3>2
    <3> HIDE DEF mode, none
    <3> QED BY <3>3
  <2>3. CASE Resume(i)
    <3>1. nodes' = [nodes EXCEPT ![i] = [n EXCEPT !.mode = "up"]]
      BY <1>1, <2>3 DEF Resume
    <3>2. [n EXCEPT !.mode = "up"] = [n EXCEPT !.mode = "up", !.pending = n.pending]
      BY <1>1 DEF NodeState
    <3>3. n.mode = "paused"
      BY <2>3 DEF Resume
    <3> QED BY <3>1, <3>2, <3>3
  <2> QED BY <2>1, <2>2, <2>3
<1> DEFINE p == [n EXCEPT !.mode = mode, !.pending = pending]
<1>4. pending \in SUBSET Waiter
  BY <1>1, NodeTypes
<1>5. /\ p \in NodeState /\ p.disk = n.disk /\ p.failed = n.failed
      /\ SameOffice(n, p) /\ SamePast(n, p) /\ p.answered = n.answered
      /\ p.applied = n.applied /\ p.machine = n.machine
      /\ p.mode = mode /\ p.pending = pending
  BY <1>1, <1>4 DEF NodeState, SameOffice, SamePast
<1> HIDE DEF p
<1>6. Fit(p)
  <2>1. CASE n.mode = "down"
    <3>1. n.pending = {} /\ n.role = "follower" /\ Whole(n.disk) /\ ~n.failed
          /\ \A a \in n.answered : a.entry.cmd = a.cmd
      BY <1>1, <2>1 DEF Fit
    <3>2. p.pending = {}
      BY <1>5, <3>1
    <3> QED BY <1>3, <1>5, <2>1, <3>1, <3>2 DEF Fit, SameOffice
  <2>2. CASE n.mode # "down"
    <3>1. Ready(n) /\ n.applied = n.disk.commit
      BY <1>1, <2>2 DEF Fit, Settled
    <3>2. Ready(p)
      BY <1>5, <3>1 DEF Ready, SameOffice
    <3> QED BY <1>3, <1>5, <2>2, <3>1, <3>2 DEF Fit, Settled
  <2> QED BY <2>1, <2>2
<1>7. Rest(n, p, Nil)
  BY <1>1, <1>5 DEF Rest, SameOffice
<1> QED BY <1>2, <1>3, <1>6, <1>7 DEF RestKind, Becomes, p

(* An answer from a later term. *)
LEMMA ReplyNewerTermKind ==
  ASSUME NodeInv, NEW r \in replies, ReplyNewerTerm(r)
  PROVE  RestKind
<1> DEFINE i == r.req.from
           n == nodes[i]
           p == StepDownLocked(n, r.term, Nil)
<1>1. /\ Available(n) /\ r.term > n.disk.term /\ nodes' = [nodes EXCEPT ![i] = p]
      /\ EndCall(r.req) /\ UNCHANGED wire
  BY DEF ReplyNewerTerm
<1>2. i \in Node /\ r.term \in Nat /\ Nil \in Node \cup {Nil}
  BY MessageTypes
<1>3. Settled(n) /\ n.mode = "up" /\ n.disk.term \in Nat
  BY <1>1, <1>2, AvailableSettled
<1>4. n.disk.term <= r.term
  BY <1>1, <1>2, <1>3
<1>5. Settled(p) /\ Rest(n, p, Nil) /\ p.mode = "up"
  BY <1>2, <1>3, <1>4, StepDownRest
<1>6. Hush
  BY <1>1, EndCallHush
<1> HIDE DEF p
<1>7. Becomes(i, p)
  BY <1>1, <1>5, SettledFit DEF Becomes
<1> QED BY <1>2, <1>5, <1>6, <1>7 DEF RestKind

(* A follower's refusal moves next and nothing else. *)
LEMMA AppendRefusedKind ==
  ASSUME NodeInv, NEW r \in replies, AppendRefused(r)
  PROVE  RestKind
<1> DEFINE i == r.req.from
           j == r.req.to
           n == nodes[i]
           next == [n.next EXCEPT ![j] = NextAfter(r)]
           p == [n EXCEPT !.next = next]
<1>1. /\ r.req.type = "append" /\ Available(n)
      /\ nodes' = IF r.req.prev = 0 THEN nodes
                  ELSE [nodes EXCEPT ![i].next[j] = NextAfter(r)]
      /\ EndCall(r.req) /\ UNCHANGED wire
  BY DEF AppendRefused
<1>2. i \in Node /\ j \in Node /\ r.req \in AppendRequest /\ r \in Response
  BY <1>1, MessageTypes DEF NodeInv, TypeInv, TypeOK
<1>3. /\ Settled(n) /\ n.mode = "up" /\ n.disk.term \in Nat /\ n \in NodeState
      /\ nodes \in [Node -> NodeState] /\ Ready(n)
  BY <1>1, <1>2, AvailableSettled DEF NodeInv, TypeInv, TypeOK
<1>4. Hush
  BY <1>1, EndCallHush
<1>5. CASE r.req.prev = 0
  <2>1. UNCHANGED nodes
    BY <1>1, <1>5
  <2> QED BY <1>4, <2>1, StillKind
<1>6. CASE r.req.prev # 0
  <2>1. nodes' = [nodes EXCEPT ![i] = p]
    BY <1>1, <1>3, <1>6
  <2>2. next \in [Node -> Nat]
    <3>1. NextAfter(r) \in Nat
      <4>1. r.req.prev \in Nat /\ r.conflict \in Nat
        BY <1>2, ResponseTypes DEF AppendRequest
      <4> QED BY <4>1 DEF NextAfter, Larger, Smaller
    <3> QED BY <1>3, <3>1, NodeTypes
  <2> HIDE DEF next
  <2>3. /\ p \in NodeState /\ p.disk = n.disk /\ p.failed = n.failed /\ p.mode = n.mode
        /\ p.role = n.role /\ p.leader = n.leader /\ p.match = n.match
        /\ SameWork(n, p) /\ SamePast(n, p)
    BY <1>3, <2>2 DEF NodeState, SameWork, SamePast
  <2> HIDE DEF p
  <2>4. Settled(p)
    BY <1>3, <2>3 DEF Settled, Ready, SameWork
  <2>5. Rest(n, p, Nil)
    BY <1>3, <2>3 DEF Rest, SameWork
  <2>6. Becomes(i, p)
    BY <1>3, <2>1, <2>3, <2>4, SettledFit DEF Becomes
  <2> QED BY <1>2, <1>4, <2>5, <2>6 DEF RestKind
<1> QED BY <1>5, <1>6

(* A granted vote is counted, and a majority of them makes a leader. *)
LEMMA VoteGrantedKind ==
  ASSUME NodeInv, NEW r \in replies, VoteGranted(r)
  PROVE  RestKind \/ LedKind
<1> DEFINE i == r.req.from
           n == nodes[i]
           votes == n.votes \cup {r.req.to}
           v == [n EXCEPT !.votes = votes]
           b == BecomeLeaderLocked(v, i)
<1>1. /\ Available(n) /\ n.role = "candidate"
      /\ nodes' = [nodes EXCEPT ![i] = IF Majority(v.votes) THEN b ELSE v]
      /\ EndCall(r.req) /\ UNCHANGED wire
  BY DEF VoteGranted, Current
<1>2. i \in Node /\ r.req.to \in Node
  BY MessageTypes
<1>3. /\ Settled(n) /\ n.mode = "up" /\ n.disk.term \in Nat /\ n \in NodeState
      /\ Ready(n)
  BY <1>1, <1>2, AvailableSettled
<1>4. Hush
  BY <1>1, EndCallHush
<1>5. votes \in SUBSET Node
  BY <1>2, <1>3, NodeTypes
<1> HIDE DEF votes
<1>6. /\ v \in NodeState /\ v.disk = n.disk /\ v.failed = n.failed /\ v.mode = n.mode
      /\ v.role = n.role /\ v.leader = n.leader /\ v.match = n.match
      /\ SameWork(n, v) /\ SamePast(n, v)
  BY <1>3, <1>5 DEF NodeState, SameWork, SamePast
<1> HIDE DEF v
<1>7. Settled(v)
  BY <1>3, <1>6 DEF Settled, Ready, SameWork
<1>8. CASE ~Majority(v.votes)
  <2>1. Rest(n, v, Nil)
    BY <1>3, <1>6 DEF Rest, SameWork
  <2>2. Becomes(i, v)
    BY <1>1, <1>3, <1>6, <1>7, <1>8, SettledFit DEF Becomes
  <2> QED BY <1>2, <1>4, <2>1, <2>2 DEF RestKind
<1>9. CASE Majority(v.votes)
  <2>1. 0 < v.disk.term /\ v.pending = {}
    BY <1>1, <1>3, <1>6 DEF Ready, SameWork
  <2>2. Led(v, b, i)
    BY <1>2, <1>7, <2>1, BecomeLeaderExact
  <2> HIDE DEF b
  <2>3. Led(n, b, i)
    BY <1>6, <2>2 DEF Led, Crown, Appended, SameWork, SamePast
  <2>4. Becomes(i, b)
    BY <1>1, <1>3, <1>9, <2>3, LedFit DEF Becomes
  <2> QED BY <1>1, <1>2, <1>4, <2>3, <2>4 DEF LedKind
<1> QED BY <1>8, <1>9

(* c is node n, which has heard that j holds the log up to k. *)
Heard(n, c, j, k) ==
  /\ Settled(c) /\ c.disk = n.disk /\ c.role = n.role /\ c.leader = n.leader
  /\ c.mode = n.mode /\ SamePast(n, c) /\ c.answered = n.answered
  /\ c.match = [n.match EXCEPT ![j] = k]

(* A leader hears that a follower matches. *)
LEMMA HeardExact ==
  ASSUME NEW n, Settled(n), NEW j \in Node, NEW k \in Nat, NEW next \in [Node -> Nat]
  PROVE  Heard(n, [n EXCEPT !.match = [n.match EXCEPT ![j] = k], !.next = next], j, k)
<1> DEFINE match == [n.match EXCEPT ![j] = k]
           c == [n EXCEPT !.match = match, !.next = next]
<1>1. n \in NodeState /\ Ready(n)
  BY DEF Settled, Ready
<1>2. match \in [Node -> Nat]
  BY <1>1, NodeTypes
<1> HIDE DEF match
<1>3. /\ c \in NodeState /\ c.disk = n.disk /\ c.failed = n.failed /\ c.mode = n.mode
      /\ c.role = n.role /\ c.leader = n.leader /\ c.match = match
      /\ SameWork(n, c) /\ SamePast(n, c)
  BY <1>1, <1>2 DEF NodeState, SameWork, SamePast
<1> HIDE DEF c
<1>4. Settled(c)
  BY <1>1, <1>3 DEF Settled, Ready, SameWork
<1> QED BY <1>3, <1>4 DEF Heard, SameWork, c, match

(* Two stretches of progress, the second without a new commit. *)
LEMMA ProgressOn ==
  ASSUME NEW n, NEW a, NEW p, NEW i, Progress(n, a, i), Progress(a, p, i),
         p.disk.commit = a.disk.commit, p.answered = a.answered
  PROVE  Progress(n, p, i)
BY DEF Progress, SameLog, SameOffice, SamePast, AnswersFrom

(* What a follower is known to hold is an index. *)
LEMMA MatchAfterNat ==
  ASSUME NEW n \in NodeState, NEW m \in AppendRequest
  PROVE  MatchAfter(n, m) \in Nat
<1>1. m.to \in Node /\ m.prev \in Nat /\ Len(m.entries) \in Nat
  BY DEF AppendRequest
<1>2. n.match[m.to] \in Nat
  BY <1>1, NodeTypes
<1> QED BY <1>1, <1>2 DEF MatchAfter, Larger

(* acceptAppendLocked: an acknowledgement is counted, and may commit. *)
LEMMA AppendSucceededKind ==
  ASSUME NodeInv, NEW r \in replies, AppendSucceeded(r)
  PROVE  MatchKind
<1> DEFINE m == r.req
           i == m.from
           j == m.to
           n == nodes[i]
           k == MatchAfter(n, m)
           next == [n.next EXCEPT ![j] = k + 1]
           c == [n EXCEPT !.match = [n.match EXCEPT ![j] = k], !.next = next]
           c0 == [n EXCEPT !.match[j] = k, !.next[j] = k + 1]
           a == AdvanceCommitLocked(c, i)
           p == MaybeSnapshotLocked(a, i)
<1>1. /\ m.type = "append" /\ r.ok /\ Available(n)
      /\ r.term = n.disk.term /\ m.term = n.disk.term /\ n.role = "leader"
      /\ nodes' = [nodes EXCEPT ![i] = MaybeSnapshotLocked(AdvanceCommitLocked(c0, i), i)]
      /\ EndCall(m) /\ UNCHANGED wire
  BY DEF AppendSucceeded, Current
<1>2. i \in Node /\ j \in Node /\ m \in AppendRequest
  BY <1>1, MessageTypes
<1>3. Settled(n) /\ n.mode = "up" /\ n \in NodeState
  BY <1>1, <1>2, AvailableSettled
<1>4. Hush
  BY <1>1, EndCallHush
<1>5. k \in Nat
  BY <1>2, <1>3, MatchAfterNat
<1> HIDE DEF k
<1>6. next \in [Node -> Nat]
  BY <1>2, <1>3, <1>5, NodeTypes
<1>7. c = c0
  BY <1>2, <1>3 DEF NodeState
<1> HIDE DEF next, c0
<1>8. Heard(n, c, j, k)
  BY <1>2, <1>3, <1>5, <1>6, HeardExact
<1> HIDE DEF c
<1>9. Matched(n, c, r) /\ Settled(c)
  BY <1>8 DEF Heard, Matched, k
<1>10. Settled(a) /\ Progress(c, a, i)
  BY <1>2, <1>9, AdvanceExact DEF Settled
<1> HIDE DEF a
<1>11. Settled(p) /\ Progress(a, p, i) /\ SameWork(a, p)
  BY <1>2, <1>10, MaybeSnapshotExact DEF Settled
<1> HIDE DEF p
<1>12. p.disk.commit = a.disk.commit /\ p.answered = a.answered
  BY <1>10, <1>11 DEF Settled, SameWork
<1>13. Progress(c, p, i)
  BY <1>10, <1>11, <1>12, ProgressOn
<1>14. p.disk.term \in Nat
  BY <1>11, ReadyFacts DEF Settled
<1>15. Rest(p, p, Nil)
  BY <1>14 DEF Rest, SamePast
<1>16. p.mode = "up"
  BY <1>3, <1>9, <1>13 DEF Matched, Progress
<1>17. Becomes(i, p)
  BY <1>1, <1>7, <1>11, <1>16, SettledFit DEF Becomes, p, a
<1> QED BY <1>1, <1>2, <1>4, <1>9, <1>13, <1>15, <1>17 DEF MatchKind

(* propose: one entry, and a sole voter commits it at once. *)
LEMMA SubmitOneKind ==
  ASSUME NodeInv, NEW i \in Node, NEW cmd \in Operation, Submit(i, cmd)
  PROVE  SubmitKind
<1> DEFINE n == nodes[i]
           index == LastIndex(n.disk) + 1
           before == {a.index : a \in Answers}
           w == [index |-> index, cmd |-> cmd, before |-> before]
           a == PersistLocked(n, n.disk.term, n.disk.vote, n.disk.commit, index,
                              <<[term |-> n.disk.term, cmd |-> cmd]>>)
           q == [a EXCEPT !.pending = {x \in @ : x.index # index} \cup {w},
                          !.match[i] = index]
           p == AdvanceCommitLocked(q, i)
<1>1. /\ Available(n) /\ n.role = "leader"
      /\ nodes' = [nodes EXCEPT ![i] = IF a.failed THEN a ELSE p]
      /\ UNCHANGED <<wire, replies>>
  BY DEF Submit
<1>2. Settled(n) /\ Ready(n) /\ n.mode = "up"
  BY <1>1, AvailableSettled
<1>3. index \in Nat
  BY <1>2, ReadyFacts
<1>4. before \in SUBSET Nat
  <2>1. \A j \in Node : nodes[j].answered \in SUBSET Answer
    BY NodeTypes DEF NodeInv, TypeInv, TypeOK
  <2>2. \A x \in Answers : x \in Answer
    BY <2>1 DEF Answers
  <2>3. \A x \in Answer : x.index \in Nat
    BY DEF Answer
  <2> QED BY <2>2, <2>3
<1> HIDE DEF before
<1>5. w \in Waiter /\ w.index = index /\ w.cmd = cmd
  BY <1>3, <1>4 DEF Waiter
<1> HIDE DEF w
<1>6. ~a.failed /\ Settled(q) /\ Proposed(n, q, i, cmd)
  BY <1>1, <1>2, <1>5, SubmitExact
<1> HIDE DEF a, q
<1>7. Settled(p) /\ Progress(q, p, i)
  BY <1>6, AdvanceExact DEF Settled
<1> HIDE DEF p
<1>8. p.mode = "up"
  BY <1>2, <1>6, <1>7 DEF Progress, Proposed, Appended
<1>9. Becomes(i, p) /\ Hush
  BY <1>1, <1>6, <1>7, <1>8, SettledFit DEF Becomes, Hush
<1> QED BY <1>1, <1>6, <1>7, <1>9 DEF SubmitKind

(* OpenWithRuntime. *)
LEMMA OpenOneKind ==
  ASSUME NodeInv, NEW i \in Node, Open(i)
  PROVE  OpenKind
<1> DEFINE n == nodes[i]
           p == Opened(n, i)
<1>1. /\ n.mode = "down" /\ nodes' = [nodes EXCEPT ![i] = p]
      /\ UNCHANGED <<wire, replies>>
  BY DEF Open, NodeInv, TypeInv, TypeOK
<1>2. Fit(n)
  BY DEF NodeInv
<1>3. PICK c : /\ Settled(c) /\ Revived(n, c)
               /\ \/ p = c /\ c.disk.term = n.disk.term
                  \/ /\ FixedLeader = i /\ Led(c, p, i)
                     /\ c.disk.term = n.disk.term + 1
  BY <1>1, <1>2, OpenedExact
<1> HIDE DEF p
<1>4. c.mode = "up"
  BY <1>3 DEF Revived
<1>5. Fit(p)
  BY <1>3, <1>4, SettledFit, LedFit
<1>6. Becomes(i, p) /\ Hush
  BY <1>1, <1>5 DEF Becomes, Hush
<1> QED BY <1>1, <1>3, <1>6 DEF OpenKind

(* The answers of a dying leader are of entries its store has committed. *)
LEMMA PartingExact ==
  ASSUME NEW n, Ready(n), NEW e, Whole(e), FullLog(e) = FullLog(n.disk),
         e.base = n.disk.base, NEW A, Parting(n, e, A), NEW a \in A
  PROVE  /\ 1 <= a.index /\ a.index <= e.commit /\ a.entry = FullLog(e)[a.index]
         /\ a.entry.cmd = a.cmd
<1> DEFINE L == FullLog(e)
<1>1. PICK w \in n.pending :
        /\ n.applied < w.index /\ w.index <= e.commit
        /\ a = [index |-> w.index, cmd |-> w.cmd, before |-> w.before,
                entry |-> EntryAt(e, w.index)]
  BY DEF Parting
<1>2. L[w.index] = [term |-> n.disk.term, cmd |-> w.cmd] /\ w.index <= Len(L)
  BY <1>1 DEF Ready
<1>3. w.index \in Nat
  BY <1>1, ReadyFacts, NodeTypes DEF Waiter
<1>4. e.base \in Nat /\ Len(L) \in Nat /\ n.applied \in Nat /\ e.base <= n.applied
  BY ReadyFacts, WholeLog DEF Ready
<1>5. w.index \in e.base + 1 .. Len(L) /\ 1 <= w.index
  BY <1>1, <1>2, <1>3, <1>4
<1>6. EntryAt(e, w.index) = L[w.index]
  BY <1>5, WholeLog
<1> HIDE DEF L
<1>7. a.index = w.index /\ a.cmd = w.cmd /\ a.entry = L[w.index] /\ L[w.index].cmd = w.cmd
  BY <1>1, <1>2, <1>6
<1> QED BY <1>1, <1>5, <1>7 DEF L

(* A leader that dies after it stored a commit index. *)
LEMMA DepartedKind ==
  ASSUME NodeInv, NEW i \in Node, NEW r \in replies, NEW e, NEW A,
         Departing(i, r, e, A), NEW p, p \in NodeState, p.disk = e,
         p.mode = "down", ~p.failed, p.role = "follower", p.leader = Nil,
         p.pending = {}, SamePast(nodes[i], p),
         p.answered = nodes[i].answered \cup A,
         nodes' = [nodes EXCEPT ![i] = p], Hush
  PROVE  MatchKind
<1> DEFINE n == nodes[i]
           d == n.disk
           c == [n EXCEPT !.match[r.req.to] = MatchAfter(n, r.req)]
           k == MatchAfter(n, r.req)
           j == r.req.to
           top == Max(Quorate(c, i))
           all == n.answered \cup A
           x == [c EXCEPT !.disk = e, !.answered = all]
<1>1. /\ r.req.from = i /\ r.req.type = "append" /\ r.ok
      /\ r.term = d.term /\ r.req.term = d.term /\ n.role = "leader"
      /\ Available(n) /\ Parting(n, e, A) /\ Quorate(c, i) # {}
      /\ e = [d EXCEPT !.commit = top]
  BY DEF Departing, Current
<1>2. /\ n \in NodeState /\ Whole(d) /\ d \in Store /\ d.term \in Nat /\ d.commit \in Nat
      /\ \A a \in n.answered : a.entry.cmd = a.cmd
  BY FitFacts
<1>3. r.req \in AppendRequest /\ j \in Node
  BY <1>1, MessageTypes
<1>4. Settled(n) /\ n.next \in [Node -> Nat]
  BY <1>1, <1>2, AvailableSettled, NodeTypes
<1>5. k \in Nat
  BY <1>2, <1>3, MatchAfterNat
<1>6. c = [n EXCEPT !.match = [n.match EXCEPT ![j] = k], !.next = n.next]
  BY <1>2, <1>3 DEF NodeState
<1> HIDE DEF c, k
<1>7. Heard(n, c, j, k)
  BY <1>3, <1>4, <1>5, <1>6, HeardExact
<1>8. Matched(n, c, r) /\ Settled(c) /\ c.disk = d /\ c \in NodeState /\ c.role = "leader"
  BY <1>1, <1>7 DEF Heard, Matched, k, Settled, Ready
<1>9. top \in Nat /\ d.commit < top /\ top <= LastIndex(d)
  BY <1>1, <1>2, <1>8, QuorateType DEF Whole
<1>10. top \in Quorate(c, i)
  <2>1. Quorate(c, i) \in SUBSET ((d.commit + 1) .. LastIndex(d))
    BY <1>8 DEF Quorate
  <2>2. d.commit + 1 \in Nat /\ LastIndex(d) \in Nat
    BY <1>2, WholeLog
  <2> QED BY <1>1, <2>1, <2>2, MaxInSet
<1> HIDE DEF top
<1>11. /\ e \in Store /\ e.term = d.term /\ e.vote = d.vote /\ e.log = d.log
       /\ e.snap = d.snap /\ e.base = d.base /\ e.commit = top
  BY <1>1, <1>2, <1>9 DEF Store
<1>12. d.term <= e.term /\ d.commit <= e.commit /\ e.commit <= LastIndex(d)
  BY <1>2, <1>9, <1>11
<1>13. Whole(e) /\ FullLog(e) = FullLog(d)
  BY <1>2, <1>11, <1>12, WholeHard
<1>14. \A a \in A : /\ 1 <= a.index /\ a.index <= e.commit
                    /\ a.entry = FullLog(e)[a.index] /\ a.entry.cmd = a.cmd
  <2>1. Ready(n) /\ Parting(n, e, A)
    BY <1>1, <1>4 DEF Settled
  <2>2. FullLog(e) = FullLog(n.disk) /\ e.base = n.disk.base
    BY <1>11, <1>13
  <2> HIDE DEF n
  <2> QED BY <1>13, <2>1, <2>2, PartingExact
<1> HIDE DEF all
<1>15. /\ x.disk = e /\ x.role = c.role /\ x.mode = c.mode /\ SameOffice(c, x)
       /\ SamePast(c, x) /\ x.answered = all
  BY <1>8, <1>11 DEF NodeState, SameOffice, SamePast
<1> HIDE DEF x
<1>16. AnswersFrom(c, x)
  BY <1>8, <1>14, <1>15 DEF AnswersFrom, Matched, all
<1>17. Progress(c, x, i)
  BY <1>8, <1>10, <1>11, <1>13, <1>15, <1>16 DEF Progress, SameLog
<1>18. Fit(p)
  BY <1>2, <1>13, <1>14 DEF Fit
<1>19. SamePast(x, p) /\ p.answered = x.answered
  BY <1>8, <1>15 DEF Matched, SamePast, all
<1>20. Rest(x, p, Nil)
  BY <1>11, <1>15, <1>19, <1>2 DEF Rest
<1>21. Becomes(i, p)
  BY <1>18 DEF Becomes
<1>22. x.disk.base = n.disk.base /\ p.disk.term = n.disk.term
  BY <1>11, <1>15
<1> QED BY <1>1, <1>3, <1>8, <1>17, <1>20, <1>21, <1>22 DEF MatchKind

(* A leader that dies behind answers to clients. *)
LEMMA DieAnsweringKind ==
  ASSUME NodeInv, NEW r \in replies, DieAnswering(r)
  PROVE  MatchKind
<1> DEFINE i == r.req.from
           n == nodes[i]
<1>1. TypeInv
  BY DEF NodeInv
<1>2. i \in Node /\ Hush
  <2>1. i \in Node /\ replies' \in SUBSET replies /\ UNCHANGED wire
    BY <1>1, DieAnsweringFacts
  <2> QED BY <2>1 DEF Hush
<1>3. PICK e, A : /\ Departing(i, r, e, A) /\ e \in MidwayStores(i)
                  /\ nodes' = [nodes EXCEPT ![i] = Departed(n, e, A)]
  BY <1>1, DieAnsweringFacts
<1> DEFINE p == Departed(n, e, A)
<1>4. e \in Store /\ A \in SUBSET Answer /\ n \in NodeState
  BY <1>1, <1>2, <1>3, DepartingSound, FitFacts
<1>5. /\ p \in NodeState /\ p.disk = e /\ p.mode = "down" /\ ~p.failed
      /\ p.role = "follower" /\ p.leader = Nil /\ p.pending = {}
      /\ SamePast(n, p) /\ p.answered = n.answered \cup A
  BY <1>4, DepartedType DEF SamePast
<1>6. nodes' = [nodes EXCEPT ![i] = p]
  BY <1>3
<1>7. Departing(i, r, e, A)
  BY <1>3
<1> HIDE DEF p, i
<1> QED BY <1>2, <1>5, <1>6, <1>7, DepartedKind

(* A crash in the middle of a handler: after the new term and before the vote  *)
(* or the entries, or after the commit index and before the checkpoint.        *)
LEMMA DieKind ==
  ASSUME NodeInv, NEW i \in Node, Die(i)
  PROVE  RestKind \/ MatchKind
<1> DEFINE n == nodes[i]
           d == n.disk
           newer == {m \in wire : m.to = i /\ m.term > d.term}
           answers == {r \in replies : /\ r.req.from = i
                                       /\ r.req.type = "append"
                                       /\ r.ok /\ Current(n, r)}
           heard(r) == [n EXCEPT !.match[r.req.to] = MatchAfter(n, r.req)]
<1>1. PICK e \in MidwayStores(i) : Halt(i, e)
  BY DEF Die
<1>2. n.mode = "down" \/ Available(n)
  BY DEF Die
<1> DEFINE p == [Stopped(n) EXCEPT !.disk = e]
<1>3. Hush /\ nodes' = [nodes EXCEPT ![i] = p]
  BY <1>1, HaltHush
<1>4. /\ n \in NodeState /\ Whole(d) /\ d \in Store /\ d.term \in Nat /\ d.commit \in Nat
      /\ \A a \in n.answered : a.entry.cmd = a.cmd
  BY FitFacts
<1>5. ASSUME e \in Store, Whole(e), FullLog(e) = FullLog(d), e.base = d.base,
             e.commit = d.commit, d.term <= e.term
      PROVE  RestKind
  <2>1. Fit(p) /\ Rest(n, p, Nil)
    BY <1>4, <1>5, HaltRest
  <2> HIDE DEF p
  <2> QED BY <1>3, <2>1 DEF RestKind, Becomes
<1>6. \/ \E j \in {i} \cap {FixedLeader} :
           e = [d EXCEPT !.term = @ + 1, !.vote = j]
      \/ /\ n.mode # "down"
         /\ \E m \in newer : e = StepDownLocked(n, m.term, Nil).disk
      \/ /\ n.mode # "down"
         /\ \E r \in answers : /\ Quorate(heard(r), i) # {}
                               /\ e = [d EXCEPT !.commit = Max(Quorate(heard(r), i))]
  BY <1>1 DEF MidwayStores
<1> HIDE DEF p
<1>7. ASSUME NEW j \in {i} \cap {FixedLeader}, e = [d EXCEPT !.term = @ + 1, !.vote = j]
      PROVE  RestKind
  <2>1. /\ e \in Store /\ e.term = d.term + 1 /\ e.log = d.log /\ e.snap = d.snap
        /\ e.base = d.base /\ e.commit = d.commit
    BY <1>4, <1>7 DEF Store
  <2>2. d.term <= e.term /\ d.commit <= e.commit /\ e.commit <= LastIndex(d)
    <3>1. d.commit <= LastIndex(d)
      BY <1>4, WholeLog
    <3> QED BY <1>4, <2>1, <3>1
  <2>3. Whole(e) /\ FullLog(e) = FullLog(d)
    BY <1>4, <2>1, <2>2, WholeHard
  <2> QED BY <1>5, <2>1, <2>2, <2>3
<1>8. ASSUME n.mode # "down", NEW m \in newer, e = StepDownLocked(n, m.term, Nil).disk
      PROVE  RestKind
  <2> DEFINE q == StepDownLocked(n, m.term, Nil)
  <2>1. m.term \in Nat /\ d.term <= m.term /\ Nil \in Node \cup {Nil}
    BY <1>4, MessageTypes
  <2>2. Settled(n)
    BY <1>2, <1>8, AvailableSettled
  <2>3. Settled(q) /\ Rest(n, q, Nil)
    BY <2>1, <2>2, StepDownRest
  <2>4. e = q.disk
    BY <1>8
  <2> HIDE DEF q
  <2>5. e \in Store /\ Whole(e)
    BY <2>3, <2>4, ReadyFacts DEF Settled
  <2> QED BY <1>5, <2>3, <2>4, <2>5 DEF Rest
<1>9. ASSUME n.mode # "down", NEW r \in answers, Quorate(heard(r), i) # {},
             e = [d EXCEPT !.commit = Max(Quorate(heard(r), i))]
      PROVE  MatchKind
  <2>1. Available(n) /\ r \in replies
    BY <1>2, <1>9
  <2>2. Departing(i, r, e, {})
    BY <1>9, <2>1 DEF Departing, Parting
  <2>3. e \in Store
    BY <1>1, <1>2, MidwayStoresSound DEF NodeInv
  <2>4. /\ p \in NodeState /\ p.disk = e /\ p.mode = "down" /\ ~p.failed
        /\ p.role = "follower" /\ p.leader = Nil /\ p.pending = {}
        /\ SamePast(n, p) /\ p.answered = n.answered \cup {}
    BY <1>4, <2>3, StoppedExact DEF p
  <2> QED BY <1>3, <2>1, <2>2, <2>4, DepartedKind
<1> QED BY <1>6, <1>7, <1>8, <1>9

(* Every handler of a request is of one of the kinds. *)
LEMMA HandleKind ==
  ASSUME NodeInv, NEW m \in wire, wire' \in SUBSET wire, Handle(m)
  PROVE  NextKind
<1>1. CASE RequestVoteStale(m)
  <2>1. Hush /\ UNCHANGED nodes
    BY <1>1, ReplyHush DEF RequestVoteStale
  <2> QED BY <2>1, StillKind DEF NextKind
<1>2. CASE AppendEntriesStale(m)
  <2>1. Hush /\ UNCHANGED nodes
    BY <1>2, ReplyHush DEF AppendEntriesStale
  <2> QED BY <2>1, StillKind DEF NextKind
<1>3. CASE RequestVote(m)
  BY <1>3, RequestVoteKind DEF NextKind
<1>4. CASE AppendEntriesMismatch(m)
  BY <1>4, MismatchKind DEF NextKind
<1>5. CASE AppendEntriesMatch(m)
  BY <1>5, MatchesKind DEF NextKind
<1> QED BY <1>1, <1>2, <1>3, <1>4, <1>5 DEF Handle

(* Every step is of one of the kinds. *)
LEMMA NextKinds ==
  ASSUME NodeInv, [Next]_vars
  PROVE  NextKind
<1>1. CASE UNCHANGED vars
  <2>1. UNCHANGED nodes /\ Hush
    BY <1>1 DEF vars, Hush
  <2> QED BY <2>1, StillKind DEF NextKind
<1>2. ASSUME NEW i \in Node, Tick(i) \/ Open(i) \/ Stop(i) \/ Die(i) PROVE NextKind
  BY <1>2, TickKind, OpenOneKind, HaltKind, DieKind DEF NextKind, Stop
<1>3. ASSUME NEW i \in Node, Pause(i) \/ Resume(i) PROVE NextKind
  BY <1>3, SmallKind DEF NextKind
<1>4. ASSUME NEW i \in Node, NEW j \in Node, Replicate(i, j) PROVE NextKind
  BY <1>4, ReplicateKind DEF NextKind
<1>5. ASSUME NEW i \in Node, NEW c \in Operation, Submit(i, c) PROVE NextKind
  BY <1>5, SubmitOneKind DEF NextKind
<1>6. ASSUME NEW i \in Node, NEW w \in nodes[i].pending, Cancel(i, w) PROVE NextKind
  BY <1>6, SmallKind DEF NextKind
<1>7. ASSUME NEW m \in wire, Arrive(m) \/ Duplicate(m) PROVE NextKind
  <2>1. Handle(m) /\ wire' \in SUBSET wire
    BY <1>7 DEF Arrive, Duplicate
  <2> QED BY <2>1, HandleKind
<1>8. ASSUME NEW m \in wire, Lose(m) PROVE NextKind
  <2>1. UNCHANGED nodes /\ Hush
    BY <1>8 DEF Lose, Hush
  <2> QED BY <2>1, StillKind DEF NextKind
<1>9. ASSUME NEW m \in calls, Timeout(m) PROVE NextKind
  <2>1. UNCHANGED nodes /\ Hush
    BY <1>9, EndCallHush DEF Timeout
  <2> QED BY <2>1, StillKind DEF NextKind
<1>10. ASSUME NEW r \in replies, React(r) PROVE NextKind
  <2>1. CASE ReplyIgnored(r)
    <3>1. UNCHANGED nodes /\ Hush
      BY <2>1, EndCallHush DEF ReplyIgnored
    <3> QED BY <3>1, StillKind DEF NextKind
  <2>2. CASE ~ReplyIgnored(r)
    BY <1>10, <2>2, ReplyNewerTermKind, VoteGrantedKind, AppendSucceededKind,
       AppendRefusedKind DEF React, NextKind
  <2> QED BY <2>1, <2>2
<1>11. ASSUME NEW r \in replies, DieAnswering(r) PROVE NextKind
  BY <1>11, DieAnsweringKind DEF NextKind
<1>12. CASE Next
  BY <1>2, <1>3, <1>4, <1>5, <1>6, <1>7, <1>8, <1>9, <1>10, <1>11, <1>12 DEF Next
<1> QED BY <1>1, <1>12

-----------------------------------------------------------------------------
(* NodeInv is inductive. *)

(* Only replicateOnce makes an append request. *)
LEMMA AppendsAfter ==
  ASSUME NodeInv, NextKind
  PROVE  SendKind \/ Appends' \in SUBSET Appends
<1>1. ASSUME wire' \in SUBSET wire,
             \A r \in replies' : r \in replies \/ r.req \in wire
      PROVE  Appends' \in SUBSET Appends
  BY <1>1 DEF Appends
<1>2. CASE Hush
  <2>1. /\ wire' \in SUBSET wire
        /\ \A r \in replies' : r \in replies \/ r.req \in wire
    BY <1>2 DEF Hush
  <2> QED BY <1>1, <2>1
<1>3. CASE CampaignKind
  <2>1. replies' = replies /\ \A m \in wire' \ wire : m.type = "vote"
    BY <1>3 DEF CampaignKind, Asked
  <2> QED BY <2>1 DEF Appends
<1>4. CASE InstallKind
  <2>1. /\ wire' \in SUBSET wire
        /\ \A r \in replies' : r \in replies \/ r.req \in wire
    BY <1>4 DEF InstallKind
  <2> QED BY <1>1, <2>1
<1>5. CASE SendKind
  BY <1>5
<1> QED BY <1>2, <1>3, <1>4, <1>5
        DEF NextKind, RestKind, VoteKind, CampaignLedKind, LedKind, OpenKind,
            MatchKind, SubmitKind

(* What replicateOnce adds is a slice of the leader's log. *)
LEMMA SentAppends ==
  ASSUME NodeInv, SendKind
  PROVE  \E i \in Node : \E m \in AppendRequest :
           /\ nodes[i].role = "leader" /\ Honest(m) /\ CopyOf(nodes[i], m)
           /\ m.from = i /\ Appends' \in SUBSET (Appends \cup {m})
<1>1. PICK i \in Node, j \in Node :
        LET m == AppendTo(nodes[i], i, j)
        IN  /\ UNCHANGED nodes /\ replies' = replies
            /\ wire' \in SUBSET (wire \cup {m}) /\ i # j
            /\ nodes[i].role = "leader" /\ m \in AppendRequest
            /\ Honest(m) /\ CopyOf(nodes[i], m) /\ m.from = i /\ m.to = j
  BY DEF SendKind
<1> DEFINE m == AppendTo(nodes[i], i, j)
<1>2. /\ replies' = replies /\ wire' \in SUBSET (wire \cup {m})
      /\ nodes[i].role = "leader" /\ m \in AppendRequest
      /\ Honest(m) /\ CopyOf(nodes[i], m) /\ m.from = i
  BY <1>1
<1> HIDE DEF m
<1>3. Appends' \in SUBSET (Appends \cup {m})
  BY <1>2 DEF Appends
<1> QED BY <1>2, <1>3

(* At most one node changes, and it stays fit. *)
LEMMA NodesAfter ==
  ASSUME NodeInv, NextKind
  PROVE  \A j \in Node : Fit(nodes'[j])
<1>1. nodes \in [Node -> NodeState] /\ \A j \in Node : Fit(nodes[j])
  BY DEF NodeInv, TypeInv, TypeOK
<1>2. ASSUME NEW i, NEW p, Becomes(i, p) PROVE \A j \in Node : Fit(nodes'[j])
  BY <1>1, <1>2 DEF Becomes
<1>3. CASE SendKind
  BY <1>1, <1>3 DEF SendKind
<1> QED BY <1>2, <1>3
        DEF NextKind, RestKind, VoteKind, CampaignKind, CampaignLedKind, LedKind,
            OpenKind, MatchKind, SubmitKind, InstallKind

(* Every step keeps every node fit and every request honest. *)
LEMMA NodeInvStep ==
  ASSUME NodeInv, [Next]_vars
  PROVE  NodeInv'
<1>1. NextKind
  BY NextKinds
<1>2. TypeInv'
  BY NextSound DEF NodeInv
<1>3. \A j \in Node : Fit(nodes'[j])
  BY <1>1, NodesAfter
<1>4. \A m \in Appends' : Honest(m)
  <2>1. CASE Appends' \in SUBSET Appends
    BY <2>1 DEF NodeInv
  <2>2. CASE SendKind
    BY <2>2, SentAppends DEF NodeInv
  <2> QED BY <1>1, <2>1, <2>2, AppendsAfter
<1> QED BY <1>2, <1>3, <1>4 DEF NodeInv

(* New nodes are fit, and no request is under way. *)
LEMMA NodeInvInit ==
  ASSUME Init
  PROVE  NodeInv
<1>1. TypeInv
  BY InitSound
<1>2. nodes = [i \in Node |-> NewNode] /\ wire = {} /\ replies = {}
  BY DEF Init
<1>3. Appends = {}
  BY <1>2 DEF Appends
<1>4. Whole(EmptyStore)
  <2> DEFINE log == <<Sentinel>>
             empty == <<>>
  <2>1. Sentinel \in Entry /\ Sentinel.term = 0
    BY DEF Sentinel, Entry, Operation
  <2>2. log \in Seq(Entry) /\ Len(log) = 1 /\ log[1] = Sentinel
        /\ empty \in Seq(Entry) /\ Len(empty) = 0
    BY <2>1
  <2>3. EmptyStore = [term |-> 0, vote |-> Nil, commit |-> 0, base |-> 0,
                      log |-> log, snap |-> empty]
    BY DEF EmptyStore
  <2> HIDE DEF log, empty
  <2>4. /\ EmptyStore \in Store /\ EmptyStore.base = 0 /\ EmptyStore.commit = 0
        /\ EmptyStore.log = log /\ EmptyStore.snap = empty /\ EmptyStore.term = 0
    BY <2>2, <2>3 DEF Store
  <2>8. Len(EmptyStore.log) = 1 /\ Len(EmptyStore.snap) = 0
    BY <2>2, <2>4
  <2>5. Bounds(EmptyStore)
    BY <2>4, <2>8 DEF Bounds, LastIndex
  <2>9. Len(FullLog(EmptyStore)) = EmptyStore.base + Len(EmptyStore.log) - 1
    <3> DEFINE e == EmptyStore
    <3>1. e \in Store /\ 1 <= Len(e.log) /\ Len(e.snap) = e.base
      BY <2>4, <2>8
    <3> HIDE DEF e
    <3>2. Len(FullLog(e)) = e.base + Len(e.log) - 1
      BY <3>1, FullLogFacts
    <3> QED BY <3>2 DEF e
  <2>6. Len(FullLog(EmptyStore)) = 0
    BY <2>4, <2>8, <2>9
  <2>7. Ordered(FullLog(EmptyStore), EmptyStore.term)
    BY <2>6 DEF Ordered
  <2> QED BY <2>1, <2>2, <2>4, <2>5, <2>7 DEF Whole
<1>5. /\ NewNode.disk = EmptyStore /\ NewNode.mode = "down" /\ ~NewNode.failed
      /\ NewNode.role = "follower" /\ NewNode.pending = {} /\ NewNode.answered = {}
  BY DEF NewNode
<1>6. \A i \in Node : nodes[i] = NewNode /\ nodes[i] \in NodeState
  BY <1>1, <1>2 DEF TypeInv, TypeOK
<1>7. \A i \in Node : Fit(nodes[i])
  BY <1>4, <1>5, <1>6 DEF Fit
<1> QED BY <1>1, <1>3, <1>7 DEF NodeInv

(* Every reachable state. *)
LEMMA NodeInvAlways == Spec => []NodeInv
<1>1. Init => NodeInv
  BY NodeInvInit
<1>2. NodeInv /\ [Next]_vars => NodeInv'
  BY NodeInvStep
<1> QED BY <1>1, <1>2, PTL DEF Spec

-----------------------------------------------------------------------------
(* The theorems. *)

(* No record that a handler writes is refused: persistLocked and checkpoint   *)
(* never see validate's errors, in any cluster, so a node fails by itself     *)
(* never.                                                                     *)
THEOREM NeverRefused == Spec => []JournalAccepts
<1>1. NodeInv => JournalAccepts
  BY DEF NodeInv, Fit, Settled, Ready, JournalAccepts
<1> QED BY <1>1, NodeInvAlways, PTL

(* The committed log of a whole store, as applyLocked has applied it. *)
LEMMA MachineAtCommit ==
  ASSUME NEW n, Settled(n)
  PROVE  n.machine = Committed(n.disk)
<1> DEFINE L == FullLog(n.disk)
           k == n.disk.commit
           C == SubSeq(L, 1, k)
<1>1. /\ L \in Seq(Entry) /\ k \in Nat /\ k <= Len(L) /\ n.machine \in Seq(Entry)
      /\ Len(n.machine) = k /\ Alike(n.machine, L, k)
  BY ReadyFacts DEF Settled, Ready
<1> HIDE DEF L, k
<1>2. C \in Seq(Entry) /\ Len(C) = k /\ \A x \in 1 .. k : C[x] = L[x]
  <2>1. 1 \in Nat /\ 1 <= 1 /\ k \in Int /\ 1 <= k + 1 /\ k - 1 + 1 = k
    BY <1>1
  <2>2. /\ C \in Seq(Entry) /\ Len(C) = k - 1 + 1
        /\ \A x \in 1 .. k - 1 + 1 : C[x] = L[1 + x - 1]
    BY <1>1, <2>1, SliceFacts
  <2>3. \A x \in 1 .. k : 1 + x - 1 = x
    OBVIOUS
  <2> QED BY <2>1, <2>2, <2>3
<1> HIDE DEF C
<1>3. Alike(n.machine, C, Len(n.machine))
  BY <1>1, <1>2 DEF Alike
<1>4. n.machine = C
  BY <1>1, <1>2, <1>3, SameSequence
<1> QED BY <1>4 DEF Committed, C, L, k

(* An open node's machine is the result of exactly its committed entries,     *)
(* through every crash, restore and compaction, and every snapshot is the     *)
(* machine at the base.                                                       *)
THEOREM AppliedIsCommitted == Spec => []MachineIsCommitted
<1>1. ASSUME NodeInv PROVE MachineIsCommitted
  <2> SUFFICES ASSUME NEW i \in Node
               PROVE  LET d == nodes[i].disk
                      IN  /\ Len(d.snap) = d.base
                          /\ d.base # 0 => d.snap[d.base] = d.log[1]
                          /\ nodes[i].mode # "down" =>
                               /\ nodes[i].applied = d.commit
                               /\ nodes[i].machine = Committed(d)
    BY DEF MachineIsCommitted, Disk
  <2>1. Fit(nodes[i]) /\ Whole(nodes[i].disk)
    BY <1>1, FitFacts
  <2>2. nodes[i].mode # "down" => Settled(nodes[i])
    BY <2>1 DEF Fit
  <2>3. nodes[i].mode # "down" => nodes[i].machine = Committed(nodes[i].disk)
    BY <2>2, MachineAtCommit
  <2> QED BY <2>1, <2>2, <2>3 DEF Whole, Settled
<1> QED BY <1>1, NodeInvAlways, PTL

(* A client waits, on a leader, for its own command at an index that is not   *)
(* yet committed: a deposed or restarted leader keeps nobody waiting.         *)
THEOREM WaitersAreOwners == Spec => []WaitersOwnTheirEntry
<1>1. ASSUME NodeInv PROVE WaitersOwnTheirEntry
  <2> SUFFICES ASSUME NEW i \in Node, NEW w \in nodes[i].pending
               PROVE  LET d == nodes[i].disk
                      IN  /\ nodes[i].role = "leader" /\ d.commit < w.index
                          /\ w.index <= LastIndex(d)
                          /\ EntryAt(d, w.index) = [term |-> d.term, cmd |-> w.cmd]
    BY DEF WaitersOwnTheirEntry, Disk
  <2> DEFINE n == nodes[i]
             d == n.disk
  <2>1. Settled(n)
    BY <1>1, FitFacts DEF Fit
  <2>2. /\ n.role = "leader" /\ d.commit < w.index /\ w.index <= Len(FullLog(d))
        /\ FullLog(d)[w.index] = [term |-> d.term, cmd |-> w.cmd]
    BY <2>1 DEF Settled, Ready
  <2>3. /\ Len(FullLog(d)) = LastIndex(d) /\ d.base <= d.commit
        /\ d.base \in Nat /\ d.commit \in Nat /\ Whole(d) /\ Len(FullLog(d)) \in Nat
    BY <2>1, ReadyFacts DEF Settled
  <2>4. w.index \in Nat
    BY <2>1, NodeTypes DEF Settled, Ready, Waiter
  <2>5. w.index \in d.base + 1 .. Len(FullLog(d))
    BY <2>2, <2>3, <2>4
  <2>6. EntryAt(d, w.index) = FullLog(d)[w.index]
    BY <2>3, <2>5, WholeLog
  <2> QED BY <2>2, <2>3, <2>6
<1> QED BY <1>1, NodeInvAlways, PTL
=============================================================================
