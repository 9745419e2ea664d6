-------------------------------- MODULE Raft --------------------------------
(***************************************************************************)
(* A fixed-membership Raft group: internal/raft/node.go, rpc.go and        *)
(* runtime.go over the durable store of DiskStore.                         *)
(*                                                                         *)
(* Every exported method of a Node runs under its mutex, so one handler is *)
(* one step.  The *Locked functions are operators from a node to a node,   *)
(* named as in the code.  Calls to a peer release the mutex: a request, a  *)
(* reply and the end of a call are separate steps, in any order, and a     *)
(* request may be handled late, more than once or never.                   *)
(***************************************************************************)
EXTENDS DiskStore, FiniteSetsExt

CONSTANTS FixedLeader,   \* Config.FixedLeader: a member, or Nil for elections
          SnapshotEvery, \* Config.SnapshotEvery: 0 disables compaction
          BatchLimit,    \* entries in one append request (32 or 15 MiB)
          MaxInflight    \* uncommitted entries a leader may hold (256)

ASSUME ModeAssumption == FixedLeader \in Node \cup {Nil}
ASSUME LimitAssumption == /\ SnapshotEvery \in Nat
                          /\ BatchLimit \in Nat \ {0}
                          /\ MaxInflight \in Nat \ {0}

VARIABLES
  nodes,   \* one record per node: durable store, volatile state, histories
  wire,    \* requests under way; they may arrive at any time, or never
  calls,   \* requests whose caller is still waiting
  replies  \* answers on their way to a waiting caller, at most one per call

vars == <<nodes, wire, calls, replies>>

(* A client waiting in propose: the index of its entry, its command and, as  *)
(* a history, the indices answered to any client before it called.           *)
Waiter == [index : Nat, cmd : Operation, before : SUBSET Nat]
Answer == [index : Nat, cmd : Operation, before : SUBSET Nat, entry : Entry]

(* disk..machine are fields of the Node struct; failed is `failed != nil`.   *)
(* mode "down" is a closed, killed or never started process.  The last four  *)
(* fields are histories that no action reads (but Submit, for `before`): the *)
(* votes a node granted, the terms it led, the entries <<index, term>> it    *)
(* stored while in their term, the clients it answered.                      *)
NodeState ==
  [disk : Store, mode : {"up", "paused", "down"}, failed : BOOLEAN,
   role : {"follower", "candidate", "leader"}, leader : Node \cup {Nil},
   votes : SUBSET Node, next : [Node -> Nat], match : [Node -> Nat],
   pending : SUBSET Waiter, applied : Nat, machine : Seq(Entry),
   ballots : SUBSET (Nat \X Node), reigns : SUBSET Nat,
   stored : SUBSET (Nat \X Nat), answered : SUBSET Answer]

VoteRequest == [type : {"vote"}, from : Node, to : Node, term : Nat,
                lastIndex : Nat, lastTerm : Nat]
(* whole is a history: the sender's log up to the last entry of the request. *)
AppendRequest == [type : {"append"}, from : Node, to : Node, term : Nat,
                  prev : Nat, prevTerm : Nat, entries : Seq(Entry),
                  commit : Nat, whole : Seq(Entry)]
Request == VoteRequest \cup AppendRequest
Response == [req : Request, term : Nat, ok : BOOLEAN, conflict : Nat]

Answers == UNION {nodes[i].answered : i \in Node}

Larger(a, b) == IF a >= b THEN a ELSE b
Smaller(a, b) == IF a <= b THEN a ELSE b
Majority(S) == 2 * Cardinality(S) > Cardinality(Node)

-----------------------------------------------------------------------------
(* The *Locked functions of node.go.  n is the node, i its own ID.          *)

Available(n) == n.mode = "up" /\ ~n.failed

PersistLocked(n, term, vote, commit, from, entries) ==
  LET r == Record(term, vote, commit, from, entries)
      own == {k \in 1 .. Len(entries) : entries[k].term = term}
  IN  IF Validate(n.disk, r)
        THEN [n EXCEPT !.disk = Accept(@, r),
                       !.stored = @ \cup {<<from + k - 1, term>> : k \in own}]
        ELSE [n EXCEPT !.failed = TRUE, !.role = "follower", !.leader = Nil,
                       !.pending = {}]

(* Mutant: the clients waiting on a deposed leader keep waiting. *)
StepDownLockedKeepsPending(n, term, leader) ==
  LET p == IF term > n.disk.term
             THEN PersistLocked(n, term, Nil, n.disk.commit, 0, <<>>)
             ELSE n
  IN  IF p.failed THEN p
      ELSE [p EXCEPT !.role = "follower", !.leader = leader]

(* Mutant: a new term without a known leader keeps the old leader's name. *)
StepDownLockedKeepsLeader(n, term, leader) ==
  LET p == IF term > n.disk.term
             THEN PersistLocked(n, term, Nil, n.disk.commit, 0, <<>>)
             ELSE n
  IN  IF p.failed THEN p
      ELSE [p EXCEPT !.role = "follower", !.pending = {},
                     !.leader = IF leader = Nil THEN @ ELSE leader]

StepDownLocked(n, term, leader) ==
  LET p == IF term > n.disk.term
             THEN PersistLocked(n, term, Nil, n.disk.commit, 0, <<>>)
             ELSE n
  IN  IF p.failed THEN p
      ELSE [p EXCEPT !.role = "follower", !.leader = leader, !.pending = {}]

(* Mutant: the leader compacts what some member may still lack. *)
CompactableEarly(n, i) ==
  /\ SnapshotEvery # 0 /\ n.disk.commit - n.disk.base >= SnapshotEvery
  /\ n.role = "leader"

Compactable(n, i) ==
  /\ SnapshotEvery # 0 /\ n.disk.commit - n.disk.base >= SnapshotEvery
  /\ n.role = "leader"
  /\ \A j \in Node \ {i} : n.match[j] >= n.disk.commit

MaybeSnapshotLocked(n, i) ==
  IF ~Compactable(n, i) THEN n
  ELSE IF ValidateCheckpoint(n.disk, n.disk.commit)
    THEN [n EXCEPT !.disk = AcceptCheckpoint(@, n.machine, n.disk.commit)]
    ELSE [n EXCEPT !.failed = TRUE, !.role = "follower", !.leader = Nil,
                   !.pending = {}]

(* Applies the entries up to commit and answers the clients waiting on them. *)
ApplyLocked(n, i) ==
  LET d == n.disk
      done == {w \in n.pending : n.applied < w.index /\ w.index <= d.commit}
  IN  MaybeSnapshotLocked(
        [n EXCEPT
           !.applied = Larger(@, d.commit),
           !.machine = @ \o EntriesBetween(d, n.applied + 1, d.commit),
           !.pending = @ \ done,
           !.answered = @ \cup
             {[index |-> w.index, cmd |-> w.cmd, before |-> w.before,
               entry |-> EntryAt(d, w.index)] : w \in done}], i)

(* Mutant: entries of earlier terms are committed by counting copies. *)
QuorateAnyTerm(n, i) ==
  {k \in (n.disk.commit + 1) .. LastIndex(n.disk) :
     Majority({i} \cup {j \in Node : n.match[j] >= k})}

(* Mutant: half of the members, rounded down, is a quorum. *)
QuorateHalf(n, i) ==
  {k \in (n.disk.commit + 1) .. LastIndex(n.disk) :
     /\ EntryAt(n.disk, k).term = n.disk.term
     /\ Cardinality({i} \cup {j \in Node : n.match[j] >= k})
          >= Cardinality(Node) \div 2}

(* The indices a leader may commit: of its own term and on a majority. *)
Quorate(n, i) ==
  {k \in (n.disk.commit + 1) .. LastIndex(n.disk) :
     /\ EntryAt(n.disk, k).term = n.disk.term
     /\ Majority({i} \cup {j \in Node : n.match[j] >= k})}

AdvanceCommitLocked(n, i) ==
  IF n.role # "leader" \/ ~Available(n) \/ Quorate(n, i) = {} THEN n
  ELSE LET p == PersistLocked(n, n.disk.term, n.disk.vote,
                              Max(Quorate(n, i)), 0, <<>>)
       IN  IF p.failed THEN p ELSE ApplyLocked(p, i)

(* A leader starts with an entry of its own term: the barrier. *)
BecomeLeaderLocked(n, i) ==
  LET last == LastIndex(n.disk)
      l == [n EXCEPT !.role = "leader", !.leader = i,
                     !.next = [j \in Node |-> last + 1],
                     !.match = [j \in Node |-> 0],
                     !.reigns = @ \cup {n.disk.term}]
      barrier == [term |-> n.disk.term, cmd |-> Barrier]
      p == PersistLocked(l, n.disk.term, n.disk.vote, n.disk.commit,
                         last + 1, <<barrier>>)
  IN  IF p.failed THEN p
      ELSE AdvanceCommitLocked([p EXCEPT !.match[i] = last + 1], i)

(* The term and the self-vote of startElectionLocked, and a sole voter's win. *)
StartElectionLocked(n, i) ==
  LET term == n.disk.term + 1
      p == PersistLocked(n, term, i, n.disk.commit, 0, <<>>)
      c == [p EXCEPT !.role = "candidate", !.leader = Nil, !.votes = {i},
                     !.ballots = @ \cup {<<term, i>>}]
  IN  IF p.failed THEN p
      ELSE IF Majority({i}) THEN BecomeLeaderLocked(c, i) ELSE c

-----------------------------------------------------------------------------
(* The network: Transport.RequestVote and Transport.AppendEntries.          *)

Send(requests) == /\ wire' = wire \cup requests
                  /\ calls' = calls \cup requests

(* The caller of req stops waiting: it was answered, or it timed out. *)
EndCall(req) == /\ calls' = calls \ {req}
                /\ replies' = {r \in replies : r.req # req}

(* The handler of req answers, unless it failed or nobody waits any more. *)
Reply(req, n, ok, conflict) ==
  replies' = IF n.failed \/ req \notin calls \/ \E r \in replies : r.req = req
               THEN replies
               ELSE replies \cup {[req |-> req, term |-> n.disk.term,
                                   ok |-> ok, conflict |-> conflict]}

-----------------------------------------------------------------------------
(* Elections.                                                               *)

(* Tick of a node whose election deadline has passed. *)
Tick(i) ==
  LET n == StartElectionLocked(nodes[i], i)
      req(j) == [type |-> "vote", from |-> i, to |-> j, term |-> n.disk.term,
                 lastIndex |-> LastIndex(n.disk),
                 lastTerm |-> EntryAt(n.disk, LastIndex(n.disk)).term]
  IN  /\ Available(nodes[i])
      /\ nodes[i].role # "leader"
      /\ FixedLeader = Nil
      /\ nodes' = [nodes EXCEPT ![i] = n]
      /\ Send(IF n.role = "candidate" THEN {req(j) : j \in Node \ {i}} ELSE {})
      /\ UNCHANGED replies

(* Mutant: the longer log wins, whatever its last term. *)
UpToDateByLength(d, m) == m.lastIndex >= LastIndex(d)

(* Mutant: every candidate is up to date. *)
UpToDateAlways(d, m) == TRUE

UpToDate(d, m) ==
  LET lastTerm == EntryAt(d, LastIndex(d)).term
  IN  m.lastTerm > lastTerm \/ (m.lastTerm = lastTerm /\ m.lastIndex >= LastIndex(d))

(* Mutant: an earlier vote in this term is ignored. *)
MayVoteAgain(d, m) == UpToDate(d, m)

MayVote(d, m) == UpToDate(d, m) /\ d.vote \in {Nil, m.from}

(* RequestVote refused without a change: fixed-leader mode, or a stale term. *)
RequestVoteStale(m) ==
  LET n == nodes[m.to]
  IN  /\ m.type = "vote" /\ Available(n)
      /\ FixedLeader # Nil \/ m.term < n.disk.term
      /\ Reply(m, n, FALSE, 0)
      /\ UNCHANGED <<nodes, calls>>

(* The rest of RequestVote: adopt a newer term, then grant or refuse. *)
VoteHandled(n, m) ==
  LET p == IF m.term > n.disk.term THEN StepDownLocked(n, m.term, Nil) ELSE n
      granted == ~p.failed /\ MayVote(p.disk, m)
      q == IF granted /\ p.disk.vote = Nil
             THEN PersistLocked(p, m.term, m.from, p.disk.commit, 0, <<>>)
             ELSE p
  IN  [node |-> IF granted /\ ~q.failed
                  THEN [q EXCEPT !.ballots = @ \cup {<<m.term, m.from>>}]
                  ELSE q,
       granted |-> granted]

RequestVote(m) ==
  LET n == nodes[m.to]
      h == VoteHandled(n, m)
  IN  /\ m.type = "vote" /\ Available(n)
      /\ FixedLeader = Nil /\ m.term >= n.disk.term
      /\ nodes' = [nodes EXCEPT ![m.to] = h.node]
      /\ Reply(m, h.node, h.granted, 0)
      /\ UNCHANGED calls

-----------------------------------------------------------------------------
(* Replication.                                                             *)

(* prepareAppendLocked, for next[j] at or above the base.  The loop that    *)
(* sizes the batch starts at next even when next = base.                    *)
AppendTo(n, i, j) ==
  LET d == n.disk
      next == Smaller(Larger(1, n.next[j]), LastIndex(d) + 1)
      end == Smaller(LastIndex(d) + 1, next + BatchLimit)
      prev == Larger(next - 1, d.base)
  IN  [type |-> "append", from |-> i, to |-> j, term |-> d.term,
       prev |-> prev, prevTerm |-> EntryAt(d, prev).term,
       entries |-> EntriesBetween(d, prev + 1, end - 1), commit |-> d.commit,
       whole |-> d.snap \o EntriesBetween(d, d.base + 1, end - 1)]

(* Every volatile field as OpenWithRuntime creates it. *)
Stopped(n) ==
  [n EXCEPT !.mode = "down", !.failed = FALSE, !.role = "follower",
            !.leader = Nil, !.votes = {}, !.next = [j \in Node |-> 0],
            !.match = [j \in Node |-> 0], !.pending = {}, !.applied = 0,
            !.machine = <<>>]

(* Node i's process ends, leaving store d: its calls end with it. *)
Halt(i, d) ==
  /\ nodes' = [nodes EXCEPT ![i] = [Stopped(@) EXCEPT !.disk = d]]
  /\ calls' = {m \in calls : m.from # i}
  /\ replies' = {r \in replies : r.req.from # i}
  /\ UNCHANGED wire

(* replicateOnce up to the call.  With next below the base the batch loop    *)
(* indexes the log out of range: the panic ends the process.                 *)
Replicate(i, j) ==
  LET n == nodes[i]
      req == AppendTo(n, i, j)
  IN  /\ i # j
      /\ Available(n) /\ n.role = "leader"
      /\ \A m \in calls : ~(m.type = "append" /\ m.from = i /\ m.to = j)
      /\ IF Larger(1, n.next[j]) < n.disk.base
           THEN Halt(i, n.disk)
           ELSE Send({req}) /\ UNCHANGED <<nodes, replies>>

(* AppendEntries refused without a change: the term is stale. *)
AppendEntriesStale(m) ==
  LET n == nodes[m.to]
  IN  /\ m.type = "append" /\ Available(n)
      /\ FixedLeader \in {Nil, m.from}
      /\ m.term < n.disk.term
      /\ Reply(m, n, FALSE, LastIndex(n.disk) + 1)
      /\ UNCHANGED <<nodes, calls>>

(* Mutant: the term of the previous entry is not compared. *)
MatchesByIndex(d, m) == d.base <= m.prev /\ m.prev <= LastIndex(d)

Matches(d, m) ==
  /\ d.base <= m.prev /\ m.prev <= LastIndex(d)
  /\ EntryAt(d, m.prev).term = m.prevTerm

(* Mutant: the hint is computed as a difference, and wraps below zero. *)
ConflictIndexWraps(d, m) == LastIndex(d) - m.prev

(* Where a follower whose log does not match asks the leader to go on. *)
ConflictIndex(d, m) ==
  IF m.prev > LastIndex(d) THEN LastIndex(d) + 1
  ELSE IF m.prev < d.base THEN d.base + 1
  ELSE Min({c \in d.base .. m.prev : \A k \in c .. m.prev :
              EntryAt(d, k).term = EntryAt(d, m.prev).term})

(* AppendEntries of a leader whose previous entry is not in this log. *)
AppendEntriesMismatch(m) ==
  LET p == StepDownLocked(nodes[m.to], m.term, m.from)
  IN  /\ m.type = "append" /\ Available(nodes[m.to])
      /\ FixedLeader \in {Nil, m.from}
      /\ m.term >= nodes[m.to].disk.term
      /\ ~Matches(p.disk, m)
      /\ nodes' = [nodes EXCEPT ![m.to] = p]
      /\ Reply(m, p, FALSE, ConflictIndex(p.disk, m))
      /\ UNCHANGED calls

(* The positions of m.entries that are new to store d. *)
NewPositions(d, m) ==
  {k \in 1 .. Len(m.entries) :
     \/ m.prev + k > LastIndex(d)
     \/ EntryAt(d, m.prev + k).term # m.entries[k].term}

(* Mutant: a request always replaces the log after its previous entry. *)
ReplaceFromAlways(d, m) == IF m.entries = <<>> THEN 0 ELSE m.prev + 1

(* The index from which m.entries replace the log of d; 0 if nothing is new. *)
ReplaceFrom(d, m) ==
  IF NewPositions(d, m) = {} THEN 0 ELSE m.prev + Min(NewPositions(d, m))

(* The errors of the entry loop and of the committed-prefix test. *)
AppendError(d, m) ==
  LET from == ReplaceFrom(d, m)
      seen == IF from = 0 THEN 1 .. Len(m.entries) ELSE 1 .. (from - m.prev - 1)
  IN  \/ \E k \in seen : m.entries[k].cmd # EntryAt(d, m.prev + k).cmd
      \/ \E k \in 1 .. Len(m.entries) :
           /\ k \in seen \/ m.prev + k = from
           /\ m.entries[k].term > m.term \/ m.entries[k].term = 0
      \/ from # 0 /\ from <= d.commit

(* Mutant: the leader's commit index is taken over as it is. *)
CommitAfterUnbounded(d, m) == Larger(d.commit, m.commit)

(* A follower commits no further than what this request has matched. *)
CommitAfter(d, m) ==
  Larger(d.commit, Smaller(m.commit, m.prev + Len(m.entries)))

(* Stores what is new, moves commit, applies. *)
InstallEntries(n, i, m) ==
  LET d == n.disk
      from == ReplaceFrom(d, m)
      commit == CommitAfter(d, m)
      new == IF from = 0 THEN <<>>
             ELSE SubSeq(m.entries, from - m.prev, Len(m.entries))
      p == PersistLocked(n, d.term, d.vote, commit, from, new)
  IN  IF from = 0 /\ commit = d.commit THEN n
      ELSE IF p.failed THEN p ELSE ApplyLocked(p, i)

(* AppendEntries of a leader whose previous entry is in this log. *)
AppendEntriesMatch(m) ==
  LET p == StepDownLocked(nodes[m.to], m.term, m.from)
      q == InstallEntries(p, m.to, m)
  IN  /\ m.type = "append" /\ Available(nodes[m.to])
      /\ FixedLeader \in {Nil, m.from}
      /\ m.term >= nodes[m.to].disk.term
      /\ Matches(p.disk, m)
      /\ IF p.failed \/ AppendError(p.disk, m)
           THEN nodes' = [nodes EXCEPT ![m.to] = p] /\ UNCHANGED replies
           ELSE nodes' = [nodes EXCEPT ![m.to] = q] /\ Reply(m, q, TRUE, 0)
      /\ UNCHANGED calls

(* A request reaches its node.  Handle says nothing of the wire: the request *)
(* is gone from it (Arrive), or a copy of it is still under way (Duplicate). *)
Handle(m) ==
  \/ RequestVoteStale(m) \/ RequestVote(m)
  \/ AppendEntriesStale(m) \/ AppendEntriesMismatch(m) \/ AppendEntriesMatch(m)

Arrive(m) == Handle(m) /\ wire' = wire \ {m}
Duplicate(m) == Handle(m) /\ wire' = wire

-----------------------------------------------------------------------------
(* Replies: voteResponseLocked and acceptAppendLocked.                      *)

(* Mutant: the terms of the request and of the answer are not compared. *)
CurrentAnyTerm(n, r) ==
  n.role = IF r.req.type = "vote" THEN "candidate" ELSE "leader"

(* The answer counts: same term on both sides, and still in the role. *)
Current(n, r) ==
  /\ r.term = n.disk.term /\ r.req.term = n.disk.term
  /\ n.role = IF r.req.type = "vote" THEN "candidate" ELSE "leader"

(* An answer that changes nothing but ends the call. *)
ReplyIgnored(r) ==
  LET n == nodes[r.req.from]
  IN  /\ \/ ~Available(n)
         \/ r.term <= n.disk.term /\ ~Current(n, r)
         \/ Current(n, r) /\ r.req.type = "vote" /\ ~r.ok
      /\ EndCall(r.req)
      /\ UNCHANGED <<nodes, wire>>

(* An answer from a later term. *)
ReplyNewerTerm(r) ==
  LET n == nodes[r.req.from]
  IN  /\ Available(n)
      /\ r.term > n.disk.term
      /\ nodes' = [nodes EXCEPT ![r.req.from] = StepDownLocked(n, r.term, Nil)]
      /\ EndCall(r.req)
      /\ UNCHANGED wire

VoteGranted(r) ==
  LET i == r.req.from
      v == [nodes[i] EXCEPT !.votes = @ \cup {r.req.to}]
  IN  /\ r.req.type = "vote" /\ r.ok
      /\ Available(nodes[i]) /\ Current(nodes[i], r)
      /\ nodes' = [nodes EXCEPT ![i] = IF Majority(v.votes)
                                         THEN BecomeLeaderLocked(v, i) ELSE v]
      /\ EndCall(r.req)
      /\ UNCHANGED wire

(* Mutant: the follower is taken to hold the leader's log of this moment. *)
MatchAfterLast(n, req) == LastIndex(n.disk)

(* What follower req.to is known to hold once it accepted req. *)
MatchAfter(n, req) == Larger(n.match[req.to], req.prev + Len(req.entries))

AppendSucceeded(r) ==
  LET i == r.req.from
      j == r.req.to
      n == nodes[i]
      matched == MatchAfter(n, r.req)
      a == AdvanceCommitLocked([n EXCEPT !.match[j] = matched,
                                         !.next[j] = matched + 1], i)
  IN  /\ r.req.type = "append" /\ r.ok
      /\ Available(n) /\ Current(n, r)
      /\ nodes' = [nodes EXCEPT ![i] = MaybeSnapshotLocked(a, i)]
      /\ EndCall(r.req)
      /\ UNCHANGED wire

(* Mutant: the same request is tried again. *)
NextAfterSame(r) == r.req.prev + 1

(* The next index to try with a follower that refused. *)
NextAfter(r) == Larger(1, Smaller(r.req.prev, r.conflict))

AppendRefused(r) ==
  LET i == r.req.from
      j == r.req.to
  IN  /\ r.req.type = "append" /\ ~r.ok
      /\ Available(nodes[i]) /\ Current(nodes[i], r)
      /\ nodes' = IF r.req.prev = 0 THEN nodes
                  ELSE [nodes EXCEPT ![i].next[j] = NextAfter(r)]
      /\ EndCall(r.req)
      /\ UNCHANGED wire

(* The caller of r.req takes the answer r. *)
React(r) == \/ ReplyIgnored(r) \/ ReplyNewerTerm(r) \/ VoteGranted(r)
            \/ AppendSucceeded(r) \/ AppendRefused(r)

(* RPCTimeout: the caller gives up on a request, which may still arrive. *)
Timeout(m) ==
  /\ EndCall(m)
  /\ UNCHANGED <<nodes, wire>>

(* A request is lost; its caller will time out. *)
Lose(m) ==
  /\ wire' = wire \ {m}
  /\ UNCHANGED <<nodes, calls, replies>>

-----------------------------------------------------------------------------
(* Clients.                                                                 *)

(* Execute of a command, or Get (a barrier), accepted by a leader. *)
Submit(i, c) ==
  LET n == nodes[i]
      index == LastIndex(n.disk) + 1
      w == [index |-> index, cmd |-> c,
            before |-> {a.index : a \in Answers}]
      p == PersistLocked(n, n.disk.term, n.disk.vote, n.disk.commit, index,
                         <<[term |-> n.disk.term, cmd |-> c]>>)
      q == [p EXCEPT !.pending = {x \in @ : x.index # index} \cup {w},
                     !.match[i] = index]
  IN  /\ Available(n) /\ n.role = "leader"
      /\ LastIndex(n.disk) - n.disk.commit < MaxInflight
      /\ nodes' = [nodes EXCEPT ![i] = IF p.failed THEN p
                                       ELSE AdvanceCommitLocked(q, i)]
      /\ UNCHANGED <<wire, calls, replies>>

(* propose gives up after RequestTimeout: Ticket.Cancel.  A ticket whose     *)
(* waiter is gone cancels nothing, also if another waits at its index now.   *)
Cancel(i, w) ==
  /\ nodes' = [nodes EXCEPT ![i].pending = @ \ {w}]
  /\ UNCHANGED <<wire, calls, replies>>

-----------------------------------------------------------------------------
(* Pausing, stopping and starting a node.                                   *)

Pause(i) ==
  /\ nodes[i].mode = "up"
  /\ nodes' = [nodes EXCEPT ![i].mode = "paused", ![i].pending = {}]
  /\ UNCHANGED <<wire, calls, replies>>

Resume(i) ==
  /\ nodes[i].mode = "paused"
  /\ nodes' = [nodes EXCEPT ![i].mode = "up"]
  /\ UNCHANGED <<wire, calls, replies>>

(* Close, or a crash between two handlers. *)
Stop(i) ==
  /\ nodes[i].mode # "down"
  /\ Halt(i, nodes[i].disk)

(* The stores a handler of node i passes through between its first and its   *)
(* last journal write: a newer term taken over from a request without the    *)
(* vote or the entries that follow, a commit index without the checkpoint    *)
(* or the answers that follow, and the term of a fixed leader without its    *)
(* barrier.                                                                  *)
MidwayStores(i) ==
  LET n == nodes[i]
      newer == {m \in wire : m.to = i /\ m.term > n.disk.term}
      answers == {r \in replies : /\ r.req.from = i /\ r.req.type = "append"
                                  /\ r.ok /\ Current(n, r)}
      heard(r) == [n EXCEPT !.match[r.req.to] = MatchAfter(n, r.req)]
  IN  IF n.mode = "down"
        THEN {[n.disk EXCEPT !.term = @ + 1, !.vote = j] :
                j \in {i} \cap {FixedLeader}}
        ELSE {StepDownLocked(n, m.term, Nil).disk : m \in newer}
               \cup {[n.disk EXCEPT !.commit = Max(Quorate(heard(r), i))] :
                       r \in {r \in answers : Quorate(heard(r), i) # {}}}

(* The journal fails, or the process dies, in the middle of a handler. *)
Die(i) ==
  /\ nodes[i].mode = "down" \/ Available(nodes[i])
  /\ \E d \in MidwayStores(i) : Halt(i, d)

(* The leader's process dies, or its journal fails, after applyLocked has    *)
(* answered clients and before the checkpoint: what of the answers has left  *)
(* the process reaches the clients.                                          *)
DieAnswering(r) ==
  LET i == r.req.from
      n == nodes[i]
      heard == [n EXCEPT !.match[r.req.to] = MatchAfter(n, r.req)]
      d == [n.disk EXCEPT !.commit = Max(Quorate(heard, i))]
      done == {w \in n.pending : n.applied < w.index /\ w.index <= d.commit}
  IN  /\ r.req.type = "append" /\ r.ok
      /\ Available(n) /\ Current(n, r) /\ Quorate(heard, i) # {}
      /\ \E left \in (SUBSET done) \ {{}} :
           nodes' = [nodes EXCEPT ![i] =
             [Stopped(n) EXCEPT
                !.disk = d,
                !.answered = n.answered \cup
                  {[index |-> w.index, cmd |-> w.cmd, before |-> w.before,
                    entry |-> EntryAt(d, w.index)] : w \in left}]]
      /\ calls' = {m \in calls : m.from # i}
      /\ replies' = {q \in replies : q.req.from # i}
      /\ UNCHANGED wire

(* OpenWithRuntime: restore the snapshot, replay the committed suffix, and   *)
(* in fixed-leader mode start a new term as its leader.                      *)
Opened(n, i) ==
  LET d == n.disk
      r == ApplyLocked([Stopped(n) EXCEPT !.mode = "up", !.applied = d.base,
                                          !.machine = d.snap], i)
      p == PersistLocked(r, d.term + 1, i, d.commit, 0, <<>>)
  IN  IF FixedLeader # i THEN r
      ELSE IF p.failed THEN p
      ELSE BecomeLeaderLocked(p, i)

Open(i) ==
  /\ nodes[i].mode = "down"
  /\ nodes' = [nodes EXCEPT ![i] = Opened(@, i)]
  /\ UNCHANGED <<wire, calls, replies>>

-----------------------------------------------------------------------------
(* A new node: an empty journal, not yet opened. *)
NewNode ==
  [disk |-> EmptyStore, mode |-> "down", failed |-> FALSE, role |-> "follower",
   leader |-> Nil, votes |-> {}, next |-> [j \in Node |-> 0],
   match |-> [j \in Node |-> 0], pending |-> {}, applied |-> 0,
   machine |-> <<>>, ballots |-> {}, reigns |-> {}, stored |-> {},
   answered |-> {}]

Init == /\ nodes = [i \in Node |-> NewNode]
        /\ wire = {}
        /\ calls = {}
        /\ replies = {}

Next ==
  \/ \E i \in Node : Tick(i) \/ Pause(i) \/ Resume(i) \/ Stop(i) \/ Die(i)
                     \/ Open(i)
  \/ \E i, j \in Node : Replicate(i, j)
  \/ \E i \in Node : \E c \in Operation : Submit(i, c)
  \/ \E i \in Node : \E w \in nodes[i].pending : Cancel(i, w)
  \/ \E m \in wire : Arrive(m) \/ Duplicate(m) \/ Lose(m)
  \/ \E m \in calls : Timeout(m)
  \/ \E r \in replies : React(r) \/ DieAnswering(r)

Spec == Init /\ [][Next]_vars

-----------------------------------------------------------------------------
(* Properties.                                                              *)

Disk(i) == nodes[i].disk
Agree(s, t) == IsPrefix(s, t) \/ IsPrefix(t, s)

(* The variables keep to the types of the Go structs they stand for. *)
TypeOK == /\ nodes \in [Node -> NodeState]
          /\ wire \in SUBSET Request
          /\ calls \in SUBSET Request
          /\ replies \in SUBSET Response

(* RequestVote and startElectionLocked make a vote durable before it counts:  *)
(* over its whole life, restarts included, a node backs one candidate a term. *)
OneVotePerTerm ==
  \A i \in Node : \A b, c \in nodes[i].ballots : b[1] = c[1] => b = c

(* becomeLeaderLocked never runs on two nodes in one term, however far apart  *)
(* in time.                                                                   *)
ElectionSafety ==
  \A i, j \in Node : i # j => nodes[i].reigns \cap nodes[j].reigns = {}

(* AppendEntries' consistency test: logs that agree on the term of an entry   *)
(* agree on every entry up to it, compacted prefixes included.                *)
LogMatching ==
  \A i, j \in Node :
    LET L == FullLog(Disk(i))
        M == FullLog(Disk(j))
    IN  \A k \in 1 .. Smaller(Len(L), Len(M)) :
          L[k].term = M[k].term => SubSeq(L, 1, k) = SubSeq(M, 1, k)

(* advanceCommitLocked and AppendEntries commit the same entries everywhere:  *)
(* what two stores call committed never disagrees.                            *)
StateMachineSafety ==
  \A i, j \in Node : Agree(Committed(Disk(i)), Committed(Disk(j)))

(* applyLocked, checkpoint and the restore in OpenWithRuntime: an open node's *)
(* machine is the result of exactly its committed entries, and a snapshot is  *)
(* the machine at the base, whose entry is the sentinel.                      *)
MachineIsCommitted ==
  \A i \in Node :
    LET d == Disk(i)
    IN  /\ Len(d.snap) = d.base
        /\ d.base # 0 => d.snap[d.base] = d.log[1]
        /\ nodes[i].mode # "down" =>
             /\ nodes[i].applied = d.commit
             /\ nodes[i].machine = Committed(d)

(* The up-to-date test of RequestVote: a leader holds every entry committed   *)
(* anywhere in its own or an earlier term.                                    *)
LeaderCompleteness ==
  \A i, j \in Node :
    nodes[i].role = "leader" /\ Disk(j).term <= Disk(i).term =>
      IsPrefix(Committed(Disk(j)), FullLog(Disk(i)))

(* maybeSnapshotLocked compacts only what every member has replicated.        *)
CompactedEverywhere ==
  \A i, j \in Node : IsPrefix(Disk(i).snap, FullLog(Disk(j)))

(* acceptAppendLocked: what a leader believes a follower holds, the follower  *)
(* holds, for as long as it has not moved on to a later term.                 *)
MatchSound ==
  \A i, j \in Node :
    nodes[i].role = "leader" /\ i # j /\ Disk(j).term <= Disk(i).term =>
      LET k == nodes[i].match[j]
          L == FullLog(Disk(i))
      IN  k <= Len(L) /\ IsPrefix(SubSeq(L, 1, k), FullLog(Disk(j)))

(* pending: the client waiting at an index waits for its own command there,   *)
(* on a leader, until it is committed, whatever else was appended or failed.  *)
WaitersOwnTheirEntry ==
  \A i \in Node : \A w \in nodes[i].pending :
    LET d == Disk(i)
    IN  /\ nodes[i].role = "leader" /\ d.commit < w.index /\ w.index <= LastIndex(d)
        /\ EntryAt(d, w.index) = [term |-> d.term, cmd |-> w.cmd]

(* applyLocked: an answered client's entry, with the client's own command, is *)
(* durable on a majority from then on.                                        *)
AnsweredIsDurable ==
  \A a \in Answers :
    /\ a.entry.cmd = a.cmd
    /\ Majority({j \in Node : LET L == FullLog(Disk(j))
                              IN  Len(L) >= a.index /\ L[a.index] = a.entry})

(* The error returns of AppendEntries ("same index and term with different    *)
(* command", "attempt to overwrite committed entry", "malformed log entry")   *)
(* are never taken, whatever request arrives however late.                    *)
NoAppendError ==
  \A m \in wire :
    LET d == Disk(m.to)
    IN  m.type = "append" /\ m.term >= d.term /\ Matches(d, m) =>
          ~AppendError(d, m)

(* validate refuses no record a handler writes: a node never fails by itself. *)
JournalAccepts == \A i \in Node : ~nodes[i].failed

(* The leader a node names (LeaderID in Status, the redirect of a             *)
(* NotLeaderError) was elected in the node's current term.                    *)
LeaderHintElected ==
  \A i \in Node : LET l == nodes[i].leader
                  IN  l # Nil => Disk(i).term \in nodes[l].reigns

(* prepareAppendLocked indexes the log from next on: a leader's next never    *)
(* falls below its base.                                                      *)
NoPanic ==
  \A i, j \in Node :
    nodes[i].role = "leader" /\ i # j => nodes[i].next[j] >= Disk(i).base
=============================================================================
