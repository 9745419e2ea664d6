----------------------------- MODULE StoreProofs -----------------------------
(***************************************************************************)
(* Proofs about the diskStore of store.go over the journal of wal.go: it   *)
(* always opens, and it moves by whole, valid records.                     *)
(***************************************************************************)
EXTENDS RaftStore, JournalProofs

(* What a node may ask its store to save. *)
HardRecord == [term : Nat, vote : Node \cup {Nil}, commit : Nat, from : Nat,
               entries : Seq(Entry)]

(* The store of a node that saves any of rs. *)
StoreSpec(rs) == StoreInit /\ [][StoreNext(rs)]_storeVars

-----------------------------------------------------------------------------
(* Stores.                                                                  *)

(* A store whose indices fit its log. *)
Sane(s) ==
  /\ s \in Store
  /\ Len(s.log) >= 1 /\ Len(s.snap) = s.base
  /\ s.base <= s.commit /\ s.commit <= LastIndex(s)

(* One move of a store: a record is saved, or the committed prefix compacted. *)
Saves(s, t) == \E r \in HardRecord : Validate(s, r) /\ t = Accept(s, r)
Compacts(s, t) == ValidateCheckpoint(s, s.commit) /\ t = Compacted(s)
Moves(s, t) == Saves(s, t) \/ Compacts(s, t)

LEMMA EmptySane == Sane(EmptyStore)
<1>1. Sentinel \in Entry
  BY DEF Sentinel, Entry, Operation
<1>2. <<Sentinel>> \in Seq(Entry) /\ Len(<<Sentinel>>) = 1 /\ <<>> \in Seq(Entry)
  BY <1>1
<1>3. EmptyStore \in Store
  BY <1>2 DEF EmptyStore, Store
<1> QED BY <1>2, <1>3 DEF Sane, EmptyStore, LastIndex

LEMMA SaneFacts ==
  ASSUME NEW s, Sane(s)
  PROVE  /\ s \in Store /\ s.term \in Nat /\ s.vote \in Node \cup {Nil}
         /\ s.commit \in Nat /\ s.base \in Nat
         /\ s.log \in Seq(Entry) /\ s.snap \in Seq(Entry)
         /\ Len(s.log) \in Nat /\ Len(s.log) >= 1 /\ Len(s.snap) = s.base
         /\ s.base <= s.commit /\ s.commit <= s.base + Len(s.log) - 1
<1>1. s \in Store
  BY DEF Sane
<1>2. /\ s.term \in Nat /\ s.vote \in Node \cup {Nil}
      /\ s.commit \in Nat /\ s.base \in Nat
      /\ s.log \in Seq(Entry) /\ s.snap \in Seq(Entry)
  BY <1>1 DEF Store
<1>3. Len(s.log) \in Nat
  BY <1>2
<1> QED BY <1>1, <1>2, <1>3 DEF Sane, LastIndex

(* A suffix of a log replaced by other entries. *)
LEMMA SuffixReplaced ==
  ASSUME NEW log \in Seq(Entry), NEW k \in 1 .. Len(log), NEW new \in Seq(Entry)
  PROVE  /\ SubSeq(log, 1, k) \o new \in Seq(Entry)
         /\ Len(SubSeq(log, 1, k) \o new) = k + Len(new)
         /\ SubSeq(SubSeq(log, 1, k) \o new, k + 1, k + Len(new)) = new
<1> DEFINE a == SubSeq(log, 1, k)
           c == a \o new
           t == SubSeq(c, k + 1, k + Len(new))
<1>1. a \in Seq(Entry) /\ Len(a) = k
  OBVIOUS
<1> HIDE DEF a
<1>2. /\ c \in Seq(Entry) /\ Len(c) = k + Len(new) /\ Len(new) \in Nat /\ k \in Nat
      /\ \A i \in 1 .. Len(new) : c[k + i] = new[i]
  BY <1>1
<1> HIDE DEF c
<1>3. t \in Seq(Entry) /\ Len(t) = Len(new) /\ \A i \in 1 .. Len(new) : t[i] = c[k + i]
  BY <1>2
<1> HIDE DEF t
<1>4. t = new
  BY <1>2, <1>3, SeqEqual
<1> QED BY <1>2, <1>4 DEF a, c, t

LEMMA AcceptSane ==
  ASSUME NEW s \in Store, Sane(s), NEW r \in HardRecord, Validate(s, r)
  PROVE  Sane(Accept(s, r))
<1> DEFINE term == r.term
           vote == r.vote
           commit == r.commit
           from == r.from
           entries == r.entries
           e == Accept(s, r)
<1>1. /\ term \in Nat /\ vote \in Node \cup {Nil} /\ commit \in Nat
      /\ from \in Nat /\ entries \in Seq(Entry) /\ Len(entries) \in Nat
  BY DEF HardRecord
<1>2. s.commit <= commit
  BY DEF Validate
<1>3. CASE from = 0
  <2>1. e = [s EXCEPT !.term = term, !.vote = vote, !.commit = commit]
    BY <1>3 DEF Accept, Store
  <2>2. commit <= LastIndex(s)
    BY <1>3 DEF Validate
  <2>3. /\ e \in Store /\ e.base = s.base /\ e.commit = commit
        /\ e.log = s.log /\ e.snap = s.snap
    BY <1>1, <2>1 DEF Store
  <2> HIDE DEF e, commit
  <2> QED BY <1>1, <1>2, <2>2, <2>3, SaneFacts DEF Sane, LastIndex, e
<1>4. CASE from # 0
  <2> DEFINE new == SubSeq(s.log, 1, from - s.base) \o entries
  <2>1. s.commit < from /\ from <= LastIndex(s) + 1 /\ commit < from + Len(entries)
    BY <1>4 DEF Validate
  <2>2. from - s.base \in 1 .. Len(s.log)
    <3> DEFINE base == s.base
               top == s.commit
               len == Len(s.log)
    <3>1. /\ base \in Nat /\ top \in Nat /\ len \in Nat /\ base <= top /\ from \in Nat
          /\ top < from /\ from <= (base + len - 1) + 1
      BY <1>1, <2>1, SaneFacts DEF LastIndex
    <3> HIDE DEF base, top, len, from
    <3>2. from - base \in 1 .. len
      BY ONLY <3>1
    <3> QED BY <3>2 DEF base, len
  <2>3. new \in Seq(Entry) /\ Len(new) = from - s.base + Len(entries)
    <3>1. s.log \in Seq(Entry)
      BY SaneFacts
    <3> QED BY <1>1, <2>2, <3>1, SuffixReplaced
  <2>4. e = [s EXCEPT !.term = term, !.vote = vote, !.commit = commit, !.log = new]
    BY <1>4 DEF Accept, Store
  <2> HIDE DEF new
  <2>5. /\ e \in Store /\ e.base = s.base /\ e.commit = commit
        /\ e.log = new /\ e.snap = s.snap
    BY <1>1, <2>3, <2>4 DEF Store
  <2> HIDE DEF e, commit, from, entries
  <2>6. Len(e.log) >= 1 /\ e.commit <= e.base + Len(e.log) - 1 /\ e.base <= e.commit
    <3>1. 1 <= Len(e.log)
      BY <1>1, <2>2, <2>3, <2>5, SaneFacts
    <3>2. e.base <= e.commit
      BY <1>1, <1>2, <2>5, SaneFacts
    <3>3. e.commit <= e.base + Len(e.log) - 1
      <4> DEFINE c == e.commit
                 b == s.base
                 l == Len(e.log)
                 x == Len(entries)
      <4>1. /\ c \in Nat /\ b \in Nat /\ x \in Nat /\ from \in Nat
            /\ c < from + x /\ l = from - b + x /\ e.base = b
        BY <1>1, <2>1, <2>3, <2>5, SaneFacts
      <4> HIDE DEF c, b, l, x
      <4>2. c <= b + l - 1
        BY ONLY <4>1
      <4> QED BY <4>1, <4>2 DEF c, l
    <3> QED BY <3>1, <3>2, <3>3
  <2> QED BY <2>5, <2>6, SaneFacts DEF Sane, LastIndex, e
<1> QED BY <1>3, <1>4

LEMMA CommittedType ==
  ASSUME NEW s \in Store, Sane(s)
  PROVE  Committed(s) \in Seq(Entry) /\ Len(Committed(s)) = s.commit
<1> DEFINE t == Tail(s.log)
           f == s.snap \o t
<1>1. t \in Seq(Entry) /\ Len(t) = Len(s.log) - 1
  <2>1. s.log \in Seq(Entry) /\ s.log # <<>>
    BY SaneFacts
  <2> QED BY <2>1
<1> HIDE DEF t
<1>2. s.snap \in Seq(Entry) /\ Len(s.snap) = s.base
  BY SaneFacts
<1>3. f \in Seq(Entry) /\ Len(f) = s.base + Len(t)
  BY <1>1, <1>2
<1> HIDE DEF f
<1>4. s.commit \in 0 .. Len(f)
  BY <1>1, <1>3, SaneFacts
<1>5. SubSeq(f, 1, s.commit) \in Seq(Entry) /\ Len(SubSeq(f, 1, s.commit)) = s.commit
  BY <1>3, <1>4
<1> QED BY <1>5 DEF Committed, FullLog, f, t

LEMMA CompactedSane ==
  ASSUME NEW s \in Store, Sane(s)
  PROVE  /\ Sane(Compacted(s))
         /\ Compacted(s).log = SubSeq(s.log, s.commit - s.base + 1, Len(s.log))
         /\ Compacted(s).base = s.commit /\ Compacted(s).commit = s.commit
         /\ Compacted(s).term = s.term
<1> DEFINE k == s.commit - s.base + 1
           n == Len(s.log)
           kept == SubSeq(s.log, k, n)
           e == Compacted(s)
<1>1. k \in 1 .. n /\ n \in Nat /\ s.log \in Seq(Entry)
  BY SaneFacts
<1>2. LastIndex(s) - s.base + 1 = n
  BY SaneFacts DEF LastIndex
<1>3. e = [s EXCEPT !.base = s.commit, !.snap = Committed(s), !.log = kept]
  BY <1>2 DEF Compacted, AcceptCheckpoint, EntriesBetween
<1>4. kept \in Seq(Entry) /\ Len(kept) = n - k + 1
  BY <1>1
<1> HIDE DEF kept
<1>5. Committed(s) \in Seq(Entry) /\ Len(Committed(s)) = s.commit
  BY CommittedType
<1>6. /\ e \in Store /\ e.base = s.commit /\ e.commit = s.commit /\ e.log = kept
      /\ e.snap = Committed(s) /\ e.term = s.term
  BY <1>3, <1>4, <1>5, SaneFacts DEF Store
<1> HIDE DEF e, k, n
<1>7. Len(e.log) >= 1 /\ e.commit <= e.base + Len(e.log) - 1
  BY <1>1, <1>4, <1>6, SaneFacts
<1>8. Sane(e)
  BY <1>5, <1>6, <1>7, SaneFacts DEF Sane, LastIndex
<1> QED BY <1>6, <1>8 DEF e, kept, k, n

LEMMA MovesSane ==
  ASSUME NEW s, Sane(s), NEW t, Moves(s, t)
  PROVE  Sane(t)
BY SaneFacts, AcceptSane, CompactedSane DEF Moves, Saves, Compacts


-----------------------------------------------------------------------------
(* Replays.                                                                 *)

R == INSTANCE ReplayProofs WITH Op <- After

LEMMA ReplayIs ==
  ASSUME NEW l
  PROVE  Replay(l) = R!Replayed(EmptyStore, l)
BY DEF Replay, R!Replayed

LEMMA ReplayAppend ==
  ASSUME NEW S, NEW l \in Seq(S), NEW p \in S
  PROVE  Replay(Append(l, p)) = After(Replay(l), p)
BY ReplayIs, R!ReplayedAppend

LEMMA ReplayEmpty == Replay(<<>>) = EmptyStore
BY ReplayIs, R!ReplayedEmpty

LEMMA ReplayOne ==
  ASSUME NEW p
  PROVE  Replay(<<p>>) = After(EmptyStore, p)
<1>1. <<>> \in Seq({p}) /\ Append(<<>>, p) = <<p>>
  OBVIOUS
<1>2. Replay(Append(<<>>, p)) = After(Replay(<<>>), p)
  BY <1>1, ReplayAppend
<1> QED BY <1>1, <1>2, ReplayEmpty

(* A valid record behind a journal that can be replayed. *)
LEMMA ReplayableAppend ==
  ASSUME NEW S, NEW l \in Seq(S), NEW p \in S, Replayable(l), ValidRecord(Replay(l), p)
  PROVE  Replayable(Append(l, p))
<1> DEFINE m == Append(l, p)
           n == Len(l)
<1>1. /\ m \in Seq(S) /\ Len(m) = n + 1 /\ n \in Nat
      /\ \A k \in 1 .. n : m[k] = l[k]
      /\ m[n + 1] = p
  OBVIOUS
<1>2. ASSUME NEW k \in 0 .. n PROVE SubSeq(m, 1, k) = SubSeq(l, 1, k)
  <2>1. SubSeq(m, 1, k) \in Seq(S) /\ Len(SubSeq(m, 1, k)) = k
    <3> HIDE DEF m
    <3> QED BY <1>1
  <2>2. SubSeq(l, 1, k) \in Seq(S) /\ Len(SubSeq(l, 1, k)) = k
    OBVIOUS
  <2>3. \A j \in 1 .. k : SubSeq(m, 1, k)[j] = m[j] /\ SubSeq(l, 1, k)[j] = l[j] /\ m[j] = l[j]
    <3> HIDE DEF m
    <3> QED BY <1>1
  <2>4. \A j \in 1 .. k : SubSeq(m, 1, k)[j] = SubSeq(l, 1, k)[j]
    BY <2>3
  <2> HIDE DEF m
  <2> QED BY <2>1, <2>2, <2>4, SeqEqual
<1>3. SubSeq(l, 1, n) = l
  OBVIOUS
<1> HIDE DEF m
<1>4. ASSUME NEW k \in 1 .. n + 1
      PROVE  ValidRecord(Replay(SubSeq(m, 1, k - 1)), m[k])
  <2>1. k - 1 \in 0 .. n
    BY <1>1
  <2>2. SubSeq(m, 1, k - 1) = SubSeq(l, 1, k - 1)
    BY <1>2, <2>1
  <2>3. CASE k \in 1 .. n
    BY <1>1, <2>2, <2>3 DEF Replayable
  <2>4. CASE k = n + 1
    <3>1. k - 1 = n
      BY <1>1, <2>4
    <3> QED BY <1>1, <1>3, <2>2, <2>4, <3>1
  <2> QED BY <1>1, <2>3, <2>4
<1>5. Replayable(m)
  BY <1>1, <1>4 DEF Replayable
<1> QED BY <1>5 DEF m

LEMMA ReplayableEmpty == Replayable(<<>>)
BY DEF Replayable

LEMMA ReplayableOne ==
  ASSUME NEW p, ValidRecord(EmptyStore, p)
  PROVE  Replayable(<<p>>)
<1>1. <<>> \in Seq({p}) /\ Append(<<>>, p) = <<p>>
  OBVIOUS
<1>2. Replayable(Append(<<>>, p))
  BY <1>1, ReplayEmpty, ReplayableEmpty, ReplayableAppend
<1> QED BY <1>1, <1>2

-----------------------------------------------------------------------------
(* Journal records.                                                         *)

LEMMA RecordTypes ==
  /\ \A r \in HardRecord : HardState(r) \in StoreRecord
  /\ \A s \in Store : CheckpointOf(s) \in StoreRecord
  /\ NoRecord \in HardRecord
<1>1. EmptyStore \in Store
  BY EmptySane DEF Sane
<1>2. NoRecord \in HardRecord
  BY DEF NoRecord, Record, HardRecord
<1> QED BY <1>1, <1>2 DEF HardState, CheckpointOf, StoreRecord, HardRecord

LEMMA AfterHard ==
  ASSUME NEW s, NEW r
  PROVE  /\ After(s, HardState(r)) = Accept(s, r)
         /\ ValidRecord(s, HardState(r)) = Validate(s, r)
<1>1. ~HardState(r).checkpoint /\ HardState(r).hard = r
  BY DEF HardState
<1> QED BY <1>1 DEF After, ValidRecord

LEMMA AfterCheckpoint ==
  ASSUME NEW s, NEW t
  PROVE  After(s, CheckpointOf(t)) = t
<1>1. CheckpointOf(t).checkpoint /\ CheckpointOf(t).kept = t
  BY DEF CheckpointOf
<1> QED BY <1>1 DEF After

(* openStore accepts a journal of one checkpoint record. *)
LEMMA CheckpointValid ==
  ASSUME NEW s \in Store, Sane(s), ValidateCheckpoint(s, s.commit)
  PROVE  ValidRecord(EmptyStore, CheckpointOf(Compacted(s)))
<1> DEFINE c == Compacted(s)
           k == s.commit - s.base + 1
           n == Len(s.log)
           kept == SubSeq(s.log, k, n)
<1>1. /\ Sane(c) /\ c.log = kept /\ c.base = s.commit /\ c.commit = s.commit
      /\ c.term = s.term
  BY CompactedSane
<1>2. k \in 1 .. n /\ n \in Nat /\ s.log \in Seq(Entry)
  BY SaneFacts
<1>3. /\ (s.commit + 1) - s.base + 1 = k + 1
      /\ LastIndex(s) - s.base + 1 = n
  <2>1. s.base \in Nat /\ s.commit \in Nat /\ n \in Nat
    BY SaneFacts
  <2> HIDE DEF n
  <2> QED BY <2>1 DEF LastIndex, n
<1>4. OrderedTerms(SubSeq(s.log, k + 1, n), s.log[k].term, s.term)
  <2> DEFINE i == (s.commit + 1) - s.base + 1
             j == LastIndex(s) - s.base + 1
             x == s.log[k].term
  <2>1. OrderedTerms(SubSeq(s.log, i, j), x, s.term)
    BY DEF ValidateCheckpoint, EntriesBetween, EntryAt
  <2>2. i = k + 1 /\ j = n
    BY <1>3
  <2> HIDE DEF i, j, k, n, x
  <2>3. OrderedTerms(SubSeq(s.log, k + 1, n), x, s.term)
    BY <2>1, <2>2
  <2> QED BY <2>3 DEF x
<1>5. Tail(kept) = SubSeq(s.log, k + 1, n) /\ kept[1] = s.log[k]
  <2> HIDE DEF k, n
  <2> DEFINE log == s.log
  <2>1. k \in 1 .. Len(log) /\ n \in k .. Len(log) /\ log \in Seq(Entry)
    BY <1>2 DEF n
  <2>2. kept = SubSeq(log, k, n)
    OBVIOUS
  <2> HIDE DEF log, kept
  <2>3. Head(kept) = log[k] /\ Tail(kept) = SubSeq(log, k + 1, n)
    BY <2>1, <2>2, HeadTailOfSubSeq
  <2>4. kept \in Seq(Entry) /\ Len(kept) = n - k + 1
    BY <2>1, <2>2
  <2>5. Head(kept) = kept[1]
    BY <2>4
  <2> QED BY <2>3, <2>5 DEF log
<1>6. OrderedTerms(Tail(c.log), c.log[1].term, c.term)
  BY <1>1, <1>4, <1>5
<1>7. CheckpointOf(c).checkpoint /\ CheckpointOf(c).kept = c
  BY DEF CheckpointOf
<1> HIDE DEF c, kept
<1>8. /\ c.base <= c.commit /\ c.commit <= LastIndex(c)
      /\ c.base \in Nat /\ c.commit \in Nat /\ c.term \in Nat
  BY <1>1, SaneFacts DEF Sane
<1> QED BY <1>6, <1>7, <1>8 DEF ValidRecord, EmptyStore, c


-----------------------------------------------------------------------------
(* The inductive invariant.                                                 *)

(* The journal of a checkpoint of the store. *)
CheckpointJournal == <<CheckpointOf(Compacted(state))>>

(* The node knows the store that its acknowledged records replay to. *)
KnownInv == state = Replay(believed) /\ Replayable(believed) /\ Sane(state)

(* Every unsettled outcome is one move away from it. *)
IntentsInv == \A l \in intents : Replayable(l) /\ Moves(state, Replay(l))

(* What a checkpoint under way writes and names. *)
CheckpointInv ==
  /\ pc \in {"copied", "synced", "closed"} =>
       ValidateCheckpoint(state, state.commit) /\ data[tmp] = Cells(CheckpointJournal)
  /\ pc \in {"renamed", "named"} => data[path] = Cells(CheckpointJournal)

StoreInv == JournalInv /\ KnownInv /\ IntentsInv /\ CheckpointInv

(* The store stays, or makes one move. *)
StateMoves == state' = state \/ Moves(state, state')

LEMMA StoreInvInit == StoreInit => StoreInv
<1> SUFFICES ASSUME StoreInit PROVE StoreInv
  OBVIOUS
<1>1. JournalInv
  BY JournalInvInit DEF StoreInit
<1>2. KnownInv
  BY ReplayEmpty, ReplayableEmpty, EmptySane DEF StoreInit, JournalInit, KnownInv
<1>3. IntentsInv /\ CheckpointInv
  BY DEF StoreInit, JournalInit, IntentsInv, CheckpointInv
<1> QED BY <1>1, <1>2, <1>3 DEF StoreInv

(* A call returns nil, or the store is opened: the owner is told which of    *)
(* the possible journals it has.                                             *)
LEMMA Acknowledged ==
  ASSUME StoreInv, JournalInv', believed' \in Told, state' = Replay(believed'),
         intents' = {}, pc' = "ready"
  PROVE  StoreInv' /\ StateMoves
<1>1. CASE believed' = believed
  <2>1. state' = state
    BY <1>1 DEF StoreInv, KnownInv
  <2>2. KnownInv'
    BY <1>1, <2>1 DEF StoreInv, KnownInv
  <2> QED BY <2>1, <2>2 DEF StoreInv, IntentsInv, CheckpointInv, StateMoves
<1>2. CASE believed' \in intents
  <2>1. Replayable(believed') /\ Moves(state, state')
    BY <1>2 DEF StoreInv, IntentsInv
  <2>2. Sane(state')
    BY <2>1, MovesSane DEF StoreInv, KnownInv
  <2>3. KnownInv'
    BY <2>1, <2>2 DEF KnownInv
  <2> QED BY <2>1, <2>3 DEF StoreInv, IntentsInv, CheckpointInv, StateMoves
<1> QED BY <1>1, <1>2 DEF Told

(* A call is under way, or failed: the possible outcomes are its own and the *)
(* ones before.                                                              *)
LEMMA Unsettled ==
  ASSUME StoreInv, JournalInv', UNCHANGED <<believed, state>>,
         \A l \in intents' : l \in intents \/ (Replayable(l) /\ Moves(state, Replay(l))),
         CheckpointInv'
  PROVE  StoreInv' /\ StateMoves
BY DEF StoreInv, KnownInv, IntentsInv, StateMoves

LEMMA SaveWriteInv ==
  ASSUME Payload = StoreRecord, StoreInv, NEW r \in HardRecord, SaveWrite(r)
  PROVE  StoreInv' /\ StateMoves
<1> DEFINE p == HardState(r)
           l == Append(believed, p)
<1>1. p \in Payload /\ believed \in Seq(Payload)
  BY RecordTypes DEF StoreInv, JournalInv, JournalTypeOK
<1>2. Validate(state, r) /\ UNCHANGED <<believed, state>>
  BY DEF SaveWrite, MaySave, AppendWrite, AppendWriteFails
<1>3. JournalInv'
  BY <1>1, AppendWriteInv, AppendWriteFailsInv DEF SaveWrite, StoreInv
<1>4. Replay(l) = Accept(state, r)
  BY <1>1, ReplayAppend, AfterHard DEF StoreInv, KnownInv
<1>5. Moves(state, Replay(l))
  BY <1>2, <1>4 DEF Moves, Saves
<1>6. Replayable(l)
  BY <1>1, <1>2, ReplayableAppend, AfterHard DEF StoreInv, KnownInv
<1>7. \A i \in intents' : i \in intents \/ i = l
  BY DEF SaveWrite, AppendWrite, AppendWriteFails
<1>8. CheckpointInv'
  BY DEF SaveWrite, AppendWrite, AppendWriteFails, Healthy, CheckpointInv
<1> HIDE DEF l
<1> QED BY <1>2, <1>3, <1>5, <1>6, <1>7, <1>8, Unsettled

LEMMA SaveDoneInv ==
  ASSUME StoreInv, SaveDone
  PROVE  StoreInv' /\ StateMoves
<1> DEFINE p == Last(data[file]).payload
<1>1. AppendSync /\ state' = After(state, p)
  BY DEF SaveDone
<1>2. JournalInv' /\ believed' \in Told /\ p \in Payload
  BY <1>1, AppendSyncInv DEF StoreInv
<1>3. believed' = Append(believed, p) /\ intents' = {} /\ pc' = "ready"
  BY <1>1 DEF AppendSync
<1>4. believed \in Seq(Payload)
  BY DEF StoreInv, JournalInv, JournalTypeOK
<1> HIDE DEF p
<1>5. state' = Replay(believed')
  BY <1>1, <1>2, <1>3, <1>4, ReplayAppend DEF StoreInv, KnownInv
<1> QED BY <1>2, <1>3, <1>5, Acknowledged

LEMMA StoreUnmoved ==
  ASSUME StoreInv, JournalInv', UNCHANGED <<believed, state, intents>>, CheckpointInv'
  PROVE  StoreInv' /\ StateMoves
BY Unsettled

LEMMA SaveFailsInv ==
  ASSUME StoreInv, SaveFails
  PROVE  StoreInv' /\ StateMoves
<1>1. JournalInv'
  BY AppendSyncFailsInv DEF SaveFails, StoreInv
<1>2. UNCHANGED <<believed, state, intents>> /\ CheckpointInv'
  BY DEF SaveFails, AppendSyncFails, CheckpointInv
<1> QED BY <1>1, <1>2, StoreUnmoved

LEMMA RefusedInv ==
  ASSUME StoreInv, Refused
  PROVE  StoreInv' /\ StateMoves
<1>1. JournalInv'
  BY JournalInvUnchanged DEF Refused, StoreInv
<1>2. UNCHANGED <<believed, state, intents>> /\ CheckpointInv'
  BY DEF Refused, journalVars, Ready, Open, CheckpointInv
<1> QED BY <1>1, <1>2, StoreUnmoved

(* The journal of one checkpoint can be replayed to the compacted store. *)
LEMMA CheckpointJournalIs ==
  ASSUME Payload = StoreRecord, StoreInv
  PROVE  /\ CheckpointJournal \in Seq(Payload)
         /\ Replay(CheckpointJournal) = Compacted(state)
         /\ ValidateCheckpoint(state, state.commit) =>
              Replayable(CheckpointJournal) /\ Moves(state, Replay(CheckpointJournal))
<1>1. state \in Store /\ Sane(state)
  BY DEF StoreInv, KnownInv, Sane
<1>2. Compacted(state) \in Store
  BY <1>1, CompactedSane DEF Sane
<1>3. CheckpointOf(Compacted(state)) \in Payload
  BY <1>2, RecordTypes
<1>4. Replay(CheckpointJournal) = Compacted(state)
  BY ReplayOne, AfterCheckpoint DEF CheckpointJournal
<1>5. ASSUME ValidateCheckpoint(state, state.commit)
      PROVE  Replayable(CheckpointJournal)
  BY <1>1, <1>5, CheckpointValid, ReplayableOne DEF CheckpointJournal
<1>6. CheckpointJournal \in Seq(Payload)
  BY <1>3 DEF CheckpointJournal
<1> QED BY <1>4, <1>5, <1>6 DEF Moves, Compacts

LEMMA CheckpointStepInv ==
  ASSUME Payload = StoreRecord, StoreInv, Checkpoint
  PROVE  StoreInv' /\ StateMoves
<1> DEFINE j == CheckpointJournal
<1>1. j \in Seq(Payload) /\ ReplaceCreate(j) /\ ValidateCheckpoint(state, state.commit)
  BY CheckpointJournalIs DEF Checkpoint, CheckpointJournal, MayCheckpoint
<1>2. JournalInv'
  BY <1>1, ReplaceCreateInv DEF StoreInv
<1>3. /\ UNCHANGED <<believed, state, intents>> /\ pc' = "copied"
      /\ data' = [data EXCEPT ![tmp'] = Cells(j)]
  BY <1>1 DEF Checkpoint, ReplaceCreate, Cells
<1>4. tmp' \in Inode /\ data \in [Inode -> Seq(Cell)]
  BY <1>2, <1>3 DEF JournalInv, ReplaceInv, StoreInv, JournalTypeOK
<1>5. data'[tmp'] = Cells(j)
  BY <1>3, <1>4
<1>6. CheckpointJournal' = j
  BY <1>3 DEF CheckpointJournal
<1>7. CheckpointInv'
  BY <1>1, <1>3, <1>5, <1>6 DEF CheckpointInv
<1> QED BY <1>2, <1>3, <1>7, StoreUnmoved

LEMMA CheckpointGoesOnInv ==
  ASSUME Payload = StoreRecord, StoreInv, CheckpointGoesOn
  PROVE  StoreInv' /\ StateMoves
<1>1. CASE (ReplaceSync \/ ReplaceClose \/ ReplaceSyncDirectory) /\ UNCHANGED <<state, poisoned>>
  <2>1. JournalInv'
    BY <1>1, ReplaceSyncInv, ReplaceCloseInv, ReplaceSyncDirectoryInv DEF StoreInv
  <2>2. UNCHANGED <<believed, state, intents>> /\ UNCHANGED <<data, path, tmp>>
    BY <1>1 DEF ReplaceSync, ReplaceClose, ReplaceSyncDirectory, fileSystem
  <2>3. /\ pc' \in {"copied", "synced", "closed"} => pc \in {"copied", "synced", "closed"}
        /\ pc' \in {"renamed", "named"} => pc \in {"renamed", "named"}
    BY <1>1 DEF ReplaceSync, ReplaceClose, ReplaceSyncDirectory
  <2>4. CheckpointInv'
    BY <2>2, <2>3 DEF StoreInv, CheckpointInv, CheckpointJournal
  <2> QED BY <2>1, <2>2, <2>4, StoreUnmoved
<1>2. CASE ReplaceRename /\ UNCHANGED <<state, poisoned>>
  <2>1. JournalInv'
    BY <1>2, ReplaceRenameInv DEF StoreInv
  <2>2. /\ pc = "closed" /\ pc' = "renamed" /\ path' = tmp
        /\ UNCHANGED <<data, believed, state>>
        /\ intents' = intents \cup {Recovered(data[tmp])}
    BY <1>2 DEF ReplaceRename
  <2>3. ValidateCheckpoint(state, state.commit) /\ data[tmp] = Cells(CheckpointJournal)
    BY <2>2 DEF StoreInv, CheckpointInv
  <2>4. Recovered(data[tmp]) = CheckpointJournal
    BY <2>3, CheckpointJournalIs, RecoveredCells
  <2>5. CheckpointInv'
    BY <2>2, <2>3 DEF CheckpointInv, CheckpointJournal
  <2> QED BY <2>1, <2>2, <2>3, <2>4, <2>5, CheckpointJournalIs, Unsettled
<1>3. CASE ReplaceReopen /\ state' = After(state, Last(data[path]).payload)
  <2>1. JournalInv' /\ believed' \in Told
    BY <1>3, ReplaceReopenInv DEF StoreInv
  <2>2. pc = "named" /\ believed' = Recovered(data[path]) /\ intents' = {} /\ pc' = "ready"
    BY <1>3 DEF ReplaceReopen
  <2>3. data[path] = Cells(CheckpointJournal)
    BY <2>2 DEF StoreInv, CheckpointInv
  <2>4. believed' = CheckpointJournal
    BY <2>2, <2>3, CheckpointJournalIs, RecoveredCells
  <2>5. Last(data[path]).payload = CheckpointOf(Compacted(state))
    <3>1. Cells(CheckpointJournal) = <<Whole(CheckpointOf(Compacted(state)))>>
      BY DEF Cells, CheckpointJournal
    <3>2. Last(data[path]) = Whole(CheckpointOf(Compacted(state)))
      BY <2>3, <3>1 DEF Last
    <3> QED BY <3>2, WholeIs
  <2>6. state' = Replay(believed')
    BY <1>3, <2>4, <2>5, AfterCheckpoint, CheckpointJournalIs
  <2> QED BY <2>1, <2>2, <2>6, Acknowledged
<1>4. CASE ReplaceFails /\ UNCHANGED state
  <2>1. JournalInv'
    BY <1>4, ReplaceFailsInv DEF StoreInv
  <2>2. UNCHANGED <<believed, state, intents>> /\ CheckpointInv'
    BY <1>4 DEF ReplaceFails, CheckpointInv
  <2> QED BY <2>1, <2>2, StoreUnmoved
<1> QED BY <1>1, <1>2, <1>3, <1>4 DEF CheckpointGoesOn

LEMMA OpenStoreInv ==
  ASSUME StoreInv, OpenStore
  PROVE  StoreInv' /\ StateMoves
<1>1. CASE (OpenReplay \/ OpenSync) /\ UNCHANGED state
  <2>1. JournalInv'
    BY <1>1, OpenReplayInv, OpenSyncInv DEF StoreInv
  <2>2. UNCHANGED <<believed, state, intents>> /\ CheckpointInv'
    BY <1>1 DEF OpenReplay, OpenSync, CheckpointInv
  <2> QED BY <2>1, <2>2, StoreUnmoved
<1>2. CASE OpenDone /\ state' = Replay(Recovered(data[path]))
  <2>1. JournalInv' /\ believed' \in Told
    BY <1>2, OpenDoneInv DEF StoreInv
  <2>2. state' = Replay(believed') /\ intents' = {} /\ pc' = "ready"
    BY <1>2 DEF OpenDone
  <2> QED BY <2>1, <2>2, Acknowledged
<1> QED BY <1>1, <1>2 DEF OpenStore

LEMMA LeaveInv ==
  ASSUME StoreInv, Leave
  PROVE  StoreInv' /\ StateMoves
<1>1. JournalInv'
  BY KillInv, PowerLossInv DEF Leave, StoreInv
<1>2. UNCHANGED <<believed, state, intents>> /\ CheckpointInv'
  BY DEF Leave, Kill, PowerLoss, CheckpointInv
<1> QED BY <1>1, <1>2, StoreUnmoved

LEMMA StoreInvStep ==
  ASSUME Payload = StoreRecord, NEW rs \in SUBSET HardRecord,
         StoreInv, [StoreNext(rs)]_storeVars
  PROVE  StoreInv' /\ StateMoves
<1>1. ASSUME NEW r \in rs, Save(r) \/ SaveRefused(r) PROVE StoreInv' /\ StateMoves
  BY <1>1, SaveWriteInv, RefusedInv DEF Save, SaveRefused
<1>2. CASE SaveFirst \/ SaveDone \/ SaveFails
  BY <1>2, RecordTypes, SaveWriteInv, SaveDoneInv, SaveFailsInv DEF SaveFirst
<1>3. CASE Checkpoint \/ CheckpointGoesOn \/ CheckpointRefused
  BY <1>3, CheckpointStepInv, CheckpointGoesOnInv, RefusedInv DEF CheckpointRefused
<1>4. CASE OpenStore \/ Leave
  BY <1>4, OpenStoreInv, LeaveInv
<1>5. CASE UNCHANGED storeVars
  <2>1. JournalInv'
    BY <1>5, JournalInvUnchanged DEF StoreInv, storeVars, journalVars
  <2>2. UNCHANGED <<believed, state, intents>> /\ CheckpointInv'
    BY <1>5 DEF storeVars, StoreInv, CheckpointInv, CheckpointJournal
  <2> QED BY <2>1, <2>2, StoreUnmoved
<1> QED BY <1>1, <1>2, <1>3, <1>4, <1>5 DEF StoreNext


-----------------------------------------------------------------------------
(* The record of a save can be read off the store it makes. *)
LEMMA RecordRead ==
  ASSUME NEW s \in Store, Sane(s), NEW r \in HardRecord, Validate(s, r)
  PROVE  /\ r.from \in 0 .. LastIndex(s) + 1
         /\ LET t == Accept(s, r)
            IN  r = Record(t.term, t.vote, t.commit, r.from,
                           IF r.from = 0 THEN <<>>
                           ELSE EntriesBetween(t, r.from, LastIndex(t)))
<1> DEFINE term == r.term
           vote == r.vote
           commit == r.commit
           from == r.from
           entries == r.entries
           t == Accept(s, r)
<1>1. /\ term \in Nat /\ vote \in Node \cup {Nil} /\ commit \in Nat
      /\ from \in Nat /\ entries \in Seq(Entry) /\ Len(entries) \in Nat
      /\ r = Record(term, vote, commit, from, entries)
  BY DEF HardRecord, Record
<1>2. /\ t.term = term /\ t.vote = vote /\ t.commit = commit /\ t.base = s.base
      /\ t.log = IF from = 0 THEN s.log ELSE SubSeq(s.log, 1, from - s.base) \o entries
  BY DEF Accept, Store
<1>3. LastIndex(s) \in Nat
  BY SaneFacts DEF LastIndex
<1>4. CASE from = 0
  <2>1. entries = <<>>
    BY <1>4 DEF Validate
  <2> QED BY <1>1, <1>2, <1>3, <1>4, <2>1
<1>5. CASE from # 0
  <2>1. s.commit < from /\ from <= LastIndex(s) + 1
    BY <1>5 DEF Validate
  <2> DEFINE k == from - s.base
  <2>2. k \in 1 .. Len(s.log) /\ s.log \in Seq(Entry) /\ s.base \in Nat
    BY <1>1, <2>1, SaneFacts DEF LastIndex
  <2>3. /\ Len(t.log) = k + Len(entries)
        /\ SubSeq(t.log, k + 1, k + Len(entries)) = entries
    BY <1>1, <1>2, <1>5, <2>2, SuffixReplaced
  <2> HIDE DEF t, from, entries
  <2>4. LastIndex(t) - t.base + 1 = k + Len(entries) /\ from - t.base + 1 = k + 1
    <3>1. LastIndex(t) = t.base + Len(t.log) - 1
      BY DEF LastIndex
    <3>2. t.base \in Nat /\ k \in Nat /\ t.base = s.base
      BY <1>2, <2>2
    <3> DEFINE n == Len(entries)
               b == t.base
               m == Len(t.log)
    <3>3. n \in Nat /\ b \in Nat /\ m = k + n /\ from = b + k /\ from \in Nat
      BY <1>1, <2>2, <2>3, <3>2
    <3> HIDE DEF n, b, m, k
    <3>4. (b + m - 1) - b + 1 = k + n /\ from - b + 1 = k + 1
      BY <3>2, <3>3
    <3> QED BY <3>1, <3>4 DEF n, b, m
  <2>5. EntriesBetween(t, from, LastIndex(t)) = entries
    BY <2>3, <2>4 DEF EntriesBetween
  <2> QED BY <1>1, <1>2, <1>3, <1>5, <2>1, <2>5 DEF t, from
<1> QED BY <1>4, <1>5

LEMMA MovesAtomic ==
  ASSUME Sane(state), StateMoves
  PROVE  [Atomic!Save \/ Atomic!Checkpoint]_state
<1>1. state \in Store
  BY DEF Sane
<1>2. ASSUME NEW r \in HardRecord, Validate(state, r), state' = Accept(state, r)
      PROVE  Atomic!Save
  <2> DEFINE new == IF r.from = 0 THEN <<>>
                    ELSE EntriesBetween(state', r.from, LastIndex(state'))
             q == Record(state'.term, state'.vote, state'.commit, r.from, new)
  <2>1. r.from \in 0 .. LastIndex(state) + 1 /\ r = q
    BY <1>1, <1>2, RecordRead
  <2>2. Validate(state, q) /\ state' = Accept(state, q)
    BY <1>2, <2>1
  <2> QED BY <2>1, <2>2 DEF Atomic!Save, Atomic!LastIndex, Atomic!EntriesBetween,
            Atomic!Record, Atomic!Validate, Atomic!Accept, Atomic!OrderedTerms,
            Atomic!EntryAt, LastIndex, EntriesBetween, Record, Validate, Accept,
            OrderedTerms, EntryAt
<1>3. ASSUME ValidateCheckpoint(state, state.commit), state' = Compacted(state)
      PROVE  Atomic!Checkpoint
  BY <1>3 DEF Atomic!Checkpoint, Atomic!ValidateCheckpoint, Atomic!AcceptCheckpoint,
     Atomic!Committed, Atomic!FullLog, Atomic!LastIndex, Atomic!EntriesBetween,
     Atomic!OrderedTerms, Atomic!EntryAt, ValidateCheckpoint, AcceptCheckpoint,
     Committed, FullLog, LastIndex, EntriesBetween, OrderedTerms, EntryAt, Compacted
<1> QED BY <1>2, <1>3 DEF StateMoves, Moves, Saves, Compacts

LEMMA StoreInvAlways ==
  ASSUME Payload = StoreRecord, NEW CONSTANT rs \in SUBSET HardRecord
  PROVE  StoreSpec(rs) => []StoreInv
<1>1. StoreInv /\ [StoreNext(rs)]_storeVars => StoreInv'
  BY StoreInvStep
<1> QED BY <1>1, StoreInvInit, PTL DEF StoreSpec

(* save, checkpoint and openStore keep the journal's promise: for any        *)
(* cluster, any sequence of saves and checkpoints and any crashes, a restart *)
(* finds what was acknowledged or the whole of a call that never was.        *)
THEOREM StoreKeeps ==
  ASSUME Payload = StoreRecord, NEW CONSTANT rs \in SUBSET HardRecord
  PROVE  StoreSpec(rs) => []AcknowledgedSurvive
<1>1. StoreInv => AcknowledgedSurvive
  BY JournalInvSurvive DEF StoreInv
<1> QED BY <1>1, StoreInvAlways, PTL

(* save and checkpoint validate against what is in the journal: for any      *)
(* cluster and any crashes, openStore accepts every record a restart finds.  *)
THEOREM StoreReopens ==
  ASSUME Payload = StoreRecord, NEW CONSTANT rs \in SUBSET HardRecord
  PROVE  StoreSpec(rs) => []StoreOpens
<1>1. StoreInv => StoreOpens
  <2> SUFFICES ASSUME StoreInv, NEW l \in Recoverable PROVE Replayable(l)
    BY DEF StoreOpens
  <2>1. l = believed \/ l \in intents
    BY JournalInvSurvive DEF StoreInv, AcknowledgedSurvive
  <2> QED BY <2>1 DEF StoreInv, KnownInv, IntentsInv
<1> QED BY <1>1, StoreInvAlways, PTL

(* The store of store.go over wal.go implements the atomic store that Raft   *)
(* takes it for: for any cluster, any saves and any crashes, errors and      *)
(* power losses between two system calls, what a node knows of its store     *)
(* moves by one whole valid record, by a checkpoint, or not at all.          *)
THEOREM StoreAtomic ==
  ASSUME Payload = StoreRecord, NEW CONSTANT rs \in SUBSET HardRecord
  PROVE  StoreSpec(rs) => StoreIsAtomic
<1>1. StoreInit => state = Atomic!EmptyStore
  BY DEF StoreInit, Atomic!EmptyStore, EmptyStore, Atomic!Sentinel, Sentinel
<1>2. StoreInv /\ [StoreNext(rs)]_storeVars => [Atomic!Save \/ Atomic!Checkpoint]_state
  BY StoreInvStep, MovesAtomic DEF StoreInv, KnownInv
<1> QED BY <1>1, <1>2, StoreInvAlways, PTL DEF StoreSpec, StoreIsAtomic, Atomic!AtomicSpec
=============================================================================
