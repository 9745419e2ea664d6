# ShardZero in TLA+

A verification project for ShardZero, a replicated key-value store in Go. It
models the Raft group, its durable store, the write-ahead log under it, the
key-value machine on top of it, the client that retries, the standalone
database, and the two harnesses that come with it, the deterministic simulator
and the chaos lab. TLC checks the models on small instances. TLAPS proves, for
every cluster and every sequence of crashes and lost messages, the safety of
the Raft group up to the ledger its clients see, of the journal, of the store
over it, of the standalone database, of the replicated machine with the clients
that retry, and of the chaos lab. `PROJECT.json` lists the runs, the mutants,
the source lines behind every definition, the hazards, the findings and the
theorems.

## 1. Inventory

| Component | State | Operations | Talks to |
| --- | --- | --- | --- |
| Raft node (`internal/raft/node.go`, `rpc.go`, `runtime.go`) | role, leader, votes, next, match, pending clients, applied, machine; `closed`, `paused`, `failed` | `Tick`, `RequestVote`, `AppendEntries`, vote and append answers, `Submit`/`Execute`/`Get`, `Ticket.Cancel`, `SetPaused`, `Open`, `Close`, `Inspect` | peers through `Transport`; store; machine |
| Raft store (`internal/raft/store.go`) | term, vote, commit, base, log, snapshot | `save`, `checkpoint`, replay at open, `validate`/`accept` | journal |
| Journal (`internal/storage/wal.go`) | file, lock, `failed` | `OpenJournal`, `Append`, `Replace`, `Close` | file system |
| State machine (`internal/statemachine`) | values, one session per client, count | `Check`, `Apply`, `Get`, `Snapshot`, `Restore` | - |
| Standalone database (`internal/database`) | machine, journal, `failed`, `closed` | `Open`, `Execute`, `Get`, `Close` | journal, machine |
| Cluster client (`internal/cluster`) | known servers, preferred server | `Do`, `discover` | HTTP API |
| HTTP API, peer transport | none | decode, call, map errors | node, database |
| Event ring (`internal/events`) | next ID, the last events | `New`, `Publish`, `After` | - |
| Simulator (`internal/simulation`) | event queue, nodes, memory disks, operations, faults, what `check` remembers | `Run`: `send`, `try`, `collect`, `fault`, recover-all, `check`, `converged`; `Minimize` | Raft nodes in manual mode |
| Chaos lab (`internal/lab`) | node processes, views, isolated members, workload, `closing`; one goroutine per process, a poller, proxies, a workload | `New`, `Start`, `Crash`, `Pause`, `SetFaults`, reset, `poll`, `proxy`, `Workload`, `Close` | node processes, cluster client, dashboard |
| Dashboard, commands | none of their own | display; flags and wiring | the packages above |

What is hard in this code:

- **Interleavings.** Every method of a node runs under its mutex, but a call to
  a peer releases it. A vote or append answer meets a node that has changed
  term, role or log since it asked. Calls to a peer time out while the request
  is still on its way, so requests arrive late, twice, and out of order.
- **Crashes.** A handler may write the journal twice (a new term, then a vote
  or entries; a commit index, then a checkpoint). A process may end between the
  two, and a record may be torn by a power loss.
- **Clients.** A waiting client is found by log index only; indices are reused
  when a leader is deposed. Retries reach several leaders and enter the log
  more than once.
- **Compaction.** Snapshots are never transferred, so a prefix may go only when
  every member has it, and every index into the log is relative to the base.
- **Harnesses.** The lab's goroutines act on processes that die when they like,
  while the dashboard starts, kills and resets them and Close wants them all
  gone. The simulator's audit knows only what nodes show between two events,
  and must neither miss an error nor raise a false alarm.

Correct means, per component: *Raft*: one vote per node and term, one leader
per term, log matching, leader completeness, one committed history, answers
that are durable, final and in real-time order, repair of every connected
follower. *Store and journal*: an acknowledged record survives every crash, a
refused or torn one leaves no trace, and the store moves by whole records.
*Machine*: a request takes effect once and
its answer does not change. *Database*: reads and answers are durable, the
journal can always be replayed. *Lab*: one process to a member and none left
behind, an event stream in order whose gaps are counted, an isolation that
nothing crosses, a Close that ends. *Simulator*: a correct cluster passes.

## 2. Modules

| Module | Models | Uses |
| --- | --- | --- |
| `DiskStore` | `store.go`: records, `validate`, `accept`, `checkpoint` | |
| `Raft` | `node.go`, `rpc.go`, `runtime.go` and the network | `DiskStore` |
| `Ledger` | abstract specification: one growing history, final answers | |
| `RaftLedger` | `Raft` implements `Ledger` (refinement mapping) | `Raft`, `Ledger` |
| `Inspection` | the range of `Inspect` | `MCRaft` |
| `Journal` | `wal.go` by system call, over an external file system | |
| `AtomicStore` | abstract specification: a store that changes by one valid record at a time | `DiskStore` |
| `RaftStore` | `store.go` over `wal.go`; implements `AtomicStore` | `DiskStore`, `Journal`, `AtomicStore` |
| `StateMachine` | `machine.go` as operators | |
| `Replica` | what `applyLocked`, `checkpoint` and `Open` do with a machine | `StateMachine` |
| `ClusterClient` | `cluster/client.go` and the status codes of `api/http.go` | |
| `Service` | clients that retry, over a replica | `Replica`, `ClusterClient` |
| `Database` | `database.go` | `Journal`, `StateMachine` |
| `Simulator` | `simulation.go`: the loop and the audit over `Raft` | `RaftLedger` |
| `EventRing` | `events.go` as operators | |
| `Lab` | `manager.go`, `proxy.go` and the chaos handlers of `http.go` | `EventRing` |
| `RaftNodeProofs` | theorems about `Raft`: types, votes, leaders; and about one node: records, machine, clients | `Raft` |
| `RaftSafetyProofs` | theorems about the group: logs, choices, commits; `Raft` implements `Ledger` | `RaftNodeProofs`, `RaftLedger` |
| `ReplayProofs` | lemmas: what a replay of records computes | |
| `JournalProofs` | theorems about `Journal` | `Journal` |
| `StoreProofs` | theorems about `RaftStore` | `RaftStore`, `JournalProofs`, `ReplayProofs` |
| `DatabaseProofs` | theorems about `Database` | `Database`, `JournalProofs`, `ReplayProofs` |
| `ServiceProofs` | theorems about `Replica`, `ClusterClient` and `Service` | `Service`, `ReplayProofs` |
| `LabProofs` | theorems about `Lab` | `Lab`, `ReplayProofs` |
| `MCRaft`, `MCFixed` | budgets and fairness for TLC | `RaftLedger` |
| `MCPartitions`, `MCRepair`, `MCFiveMembers` | schedules of partitions | `Raft` |
| `MCStore`, `MCService`, `MCDatabase` | bounds for TLC | |
| `MCLab`, `MCSimulator` | budgets and fairness for TLC | |

### Raft and DiskStore

`nodes[i]` is a record with the fields of the `Node` struct: `disk` is what
replaying the journal yields, the rest is volatile. `failed` is
`failed != nil`; `mode` is `up`, `paused` or `down`. Four fields are histories
no handler reads: `ballots` (votes granted), `reigns` (terms led), `stored`
(index and term of every entry written while its term was the node's own) and
`answered` (clients answered; `Submit` reads the answered indices into the
waiter's `before`, which is also a history). The field `whole` of an append
request is a history too: the sender's log up to the last entry it sent.

Each `*Locked` function is an operator from a node to a node with the name of
the function; each handler is one action, since it holds the mutex throughout.
`PersistLocked` writes a record if `Validate` accepts it and fails the node
otherwise, so a handler that built an illegal record would show as a violation
of `JournalAccepts`.

The network is three sets. `wire` holds requests that may still arrive,
`calls` the requests somebody waits for, `replies` the answers on their way. A
request is handled and removed (`Arrive`) or handled and kept (`Duplicate`),
or lost (`Lose`); its caller takes an answer (`React`) or gives up
(`Timeout`), in any order. This is `transport/http.go` without HTTP; the member
and cluster-ID test of a handler always passes, as members only talk to
members.

A process ends between two handlers (`Stop`) or between two journal writes of
one handler (`Die`, over `MidwayStores`). A leader that has stored a commit
index answers its clients before it writes the checkpoint; `DieAnswering` is its
end in between, with any of the answers on their way. Not covered: the second
journal write of a cluster of one, which elects and commits in a single
handler. `Cancel` is a client that gives up its own wait; a ticket whose index
another client holds by then cancels nothing (`w.done == t.done`).

Data is abstracted: a command is a member of `Cmd`, a no-op entry or a GET is
`Barrier`, and a machine is the sequence of entries applied to it, of which
every machine state is a function (`Replica` covers that function). An entry's
`Index` is its position. The byte limit and the limit of 32 entries of a
batch are one constant, `BatchLimit`. An election deadline may pass at any
time. Terms and indices are naturals: they are 64-bit in the code and grow by
one.

### Journal

One step is one system call of `Append`, `Replace` or `OpenJournal`. An inode
has the cells processes see (`data`) and those on the medium (`safe`); `path`
and `safePath` are the same for the directory entry. `Kill` keeps what
processes see; `PowerLoss` keeps what is on the medium and any part of what was
written after it, a torn record included. The writes of `Replace` to its
temporary file are one step with its creation: nobody reads that file before
the rename. Assumed of the file system: `fsync` that succeeds makes all earlier
writes durable (also after one that failed), a rename is atomic, and unsynced
appended bytes survive as a prefix. `believed` and `intents` are histories: what the owner
was told, and the outcomes of calls it got no success from.

File locks are left out: one process owns the directory, which
`directory.lock` ensures for the whole life of a `WAL`, also while `Replace`
has closed the file.

### RaftStore and AtomicStore

`Raft` writes its store in one step. `RaftStore` is where that is justified:
`save`, `checkpoint` and `openStore` are taken apart into the journal's system
calls, with an I/O error, a kill or a power loss between any two, and the store
the node knows must still move as `AtomicStore` allows: by one whole record
that `validate` accepts, or by a checkpoint at the commit index, or not at all.
So the ways in which a process of `Raft` ends, `Stop`, `Die` and `DieAnswering`,
are all that a crash can do to its store. A write that returned an error and is found
in the journal after the restart is such a move too, made at the restart.
Sizes are counted in entries; a record above `Limit` is refused, which fails
the node and leaves the journal as it was.

### StateMachine, Replica, Database

`Check` and `Apply` are operators on a machine record. `Replica` applies an
arbitrary log of commands, with checkpoints and restarts. `Database` composes
the machine with the journal: `Execute` is the journal's write, its sync, and
the application of the command; a crash may come between any two.

### ClusterClient, Service

`Do` is made of five kinds of steps of a caller: `Begin`, `Ask` (a request and
its answer), `Learn` (the status that `discover` reads), `AddPeer` (one peer of
it, under the lock), `Retarget`. Callers share the tables `servers`,
`preferred` and `discovered`, which change in any of these steps. `StatusOf`
is the API's mapping from the outcome of a write to a status code; `Do` decides
by it. URLs are members of the membership, so `validOrigin` is always true.

`Service` puts callers over `Replica`. The cluster is what `Raft` and `Ledger`
promise: a leader commits and answers; whoever else is asked gives a redirect
(possibly stale), an error or nothing, and may nevertheless have the command in
its log (`sent`), from where it may be committed later, as often as it was
sent. Who leads changes at any time. `returned` and `missed` are histories.

### Simulator

An event of the simulator's queue is a step of `Raft`, followed in the same
step by `collect` and `check` (`Audited`). `memory` holds the maps of `check`;
a hash of a log is the log itself. Virtual time is left out: events come in any
order, which includes the order of every seed. The memory disks are the disks
of `Raft`; the faults `disk-before` and `disk-after` are a node that stops or
dies at a journal write and takes no part until it is restarted. Such a node is
still there: `poisoned` says so, and whether it is paused as well, which a
later `pause` makes it.

### Lab and EventRing

A section under `Manager.mu` is one step; what a goroutine or handler does
outside it (a poll under way, a held request, a command, a pause sent to a node,
the members a reset has still to start) is state of its own. A process lives, is
killed, dies, is waited for and has its exit published in steps of their own,
and a member's processes are kept in the order of their start, so that `running`
can be compared with what is really alive. `told` is a history: the
node events the lab has published. A proxy looks at the isolated members when a
request comes in, after its delay, and once more after the target's answer
(`ProxyReceives`, `ProxyLooks` twice); between two looks the lock is free and
`SetFaults` may come. The history `overtaken` of a packet says that one of its
members was isolated after the proxy had let it go. Node processes are external: they may exit by
themselves, publish events, and answer polls, proxies and admin requests or not.

## 3. Runs

All cfgs of `Raft` say `CHECK_DEADLOCK FALSE`: the budgets of `MCRaft` and the
schedules of `MCPartitions` come to an end; so do those of `MCSimulator`
and `MCLab`, and a lab that is closed has nothing left to do. A
behaviour begins with one of a few budgets (elections, appends, submits,
mishaps, outages, messages at a time), each of which lets one kind of trouble
unfold at length; a product of all of them would be out of reach. Symmetry over members is used
where no member has a role of its own and no liveness is checked. `MCSimulator`
names the first two members that start elections instead, which symmetry allows
for liveness too.

| Run | Bounds | Shows |
| --- | --- | --- |
| `elections` | 3 members; 3 elections, 1 append, 1 outage, everything in flight at once; or 4 elections, unlimited appends of one entry, one message at a time | `TypeOK`, `OneVotePerTerm`, `ElectionSafety`, `LeaderHintElected`, `LeaderCompleteness`, `StateMachineSafety`, `LogMatching` |
| `network` | 2 elections, compaction at every commit; 1 submit and 2 mishaps (a request lost or duplicated, an early timeout, a heartbeat without news, a client that gives up); or 2 submits, one message at a time; or 2 submits, 3 appends, two messages at a time | `NoAppendError`, `JournalAccepts`, `MatchSound`, `CompactedEverywhere`, `NoPanic`, `WaitersOwnTheirEntry`, `AnsweredIsDurable`, `LedgerSpec` |
| `fixed_leader` | fixed leader, 2 terms, 1 submit, 1 mishap, 1 outage, compaction at every commit, 2 uncommitted entries at most | `MachineIsCommitted`, `AllCommitted` |
| `repair` | one schedule of partitions, no compaction | `CatchesUp` |
| `store` | 1 node, terms to 2, 3 records to a file, 1 entry to a record, unlimited crashes and errors | `JournalTypeOK`, `AcknowledgedSurvive`, `StoreOpens`, `StoreIsAtomic` |
| `database` | 2 clients, 2 request IDs, 3 records, unlimited crashes and errors | `ReadsAreDurable`, `AnsweredOnce`, `AlwaysOpens` |
| `service` | logs of 3 commands of 2 clients with request IDs 0 to 2 from elsewhere; or 2 callers of 3 servers under a leader that changes at any time: with empty logs, one call of 7 attempts, or 3 attempts of a refused one while another call waits for its first answer; with logs of 2 commands, 2 attempts and 2 known servers | `EffectOnce`, `AnswersRepeat`, `ReachesLeader`, `Settled` |
| `lab` | 2 members; one death with a restart and Close, with a reset, with 4 events and a buffer of 2, or with a pause; unlimited network faults; 2 switches of the workload and Close | `OneProcess`, `NoOrphans`, `EventsInOrder`, `GapsCounted`, `OneWorkload`, `CloseEnds`, `DeathShows`, `NothingCrosses` |
| `simulator` | 3 members, one message at a time; 3 elections and a mishap; 2 elections, a fault and recover-all; 1 operation and recover-all after 2 elections, after 1 election and a mishap, or after 1 election and 2 faults | `AuditPasses`, `RunPasses` |
| `repair_compacted` | the schedule of `repair`, compaction | violation, finding 1 |
| `five_members` | one schedule of partitions of 5 members | violation, finding 2 |
| `inspect` | one checkpoint | violation, finding 3 |

Why the bounds are enough. Committing an entry of an earlier term by counting
copies goes wrong only with a fourth leader, so `elections` has four in one of
its budgets; that one sends
one message at a time, as what matters there is who has which entry. Votes
counted in the wrong term need three elections with the answers of the first
still in flight. A late request that would cut a log needs two requests of one
leader, a duplicate or a loss, and a longer log; `network` hardly reaches a
shorter request behind a longer one, and that such a request does no harm rests
on the theorems (`AppendsAccepted`, `MatchHeld`, `LogsMatch`).
A client can be confused with another only when an index is reused, which takes
two leaders with an uncommitted entry each. In the lab, two members are a
sender and a target, a poller that must wait for both, and a reset with more
than one thing to do; four events overflow a buffer of two by exactly one and by
two. A false alarm of the simulator's audit takes three leaders of which the
first, cut off by one lost message, still shows its log; a commit that only a
restart shows takes a fault, recover-all and a leader after it. A node that is
paused and has a poisoned journal takes two faults. A limit of
two uncommitted entries is filled by a fixed leader that restarts. In the journal, a lost record takes
an error, a second call and a power loss: files of three records hold all of
them. A client
that misses the leader needs two followers that name each other, so `service`
has three servers, and a call of more than two rounds; that the tables change
under a waiting request needs a second caller. Long calls and long
logs are explored apart: which server is asked next does not depend on the
log, and whether a copy takes effect does not depend on the server. What a log
of commands does to the machine does not depend on who sent it, so the callers
are silent while the logs from elsewhere are explored.
Every property has a mutant, a plausible slip in one definition, that TLC
finds within the same bounds.

### Fairness

`repair` assumes weak fairness of sending, handling and taking answers on an
open link: replicators and servers are goroutines of live processes, woken by
the heartbeat. `fixed_leader` assumes the same, that a call ends (answer or
`RPCTimeout`), and that a node that is down or paused is brought back up
infinitely often. Elections have no fairness: randomised timers make a leader
likely, not certain, so no property promises one.

`lab` assumes weak fairness of the goroutines, of the death of a killed
process, and of the end of a call, which has a timeout or a context; and strong
fairness of the branch of a `select` whose context is cancelled, since Go picks
among ready branches at random and the other one, a ticker, comes and goes.
Nothing is assumed of the dashboard, of the proxies, nor of nodes that live.
`simulator`
assumes that after recover-all every scheduled event is taken from the queue,
which is what the loop does; `RunPasses` is conditional on a leader that stays
in office, for the reason given above.

## 4. Findings

1. **A compacted follower is not repaired** (`repair_compacted`,
   `rpc.go:45`). The conflict scan of `AppendEntries` may return the base
   itself; the leader takes the minimum of that and its own previous index, the
   follower answers `base + 1` to a previous index below its base, and the
   minimum is taken again. `next` falls to 1 and stays there. `README.md:135`
   promises that a restarted node catches up.
2. **A compacted leader panics** (`five_members`, `rpc.go:166`). The same
   minimum takes `next` below the leader's own base, and `prepareAppendLocked`
   reads the log there before it raises `prev` to the base. The comment at
   `node.go:323` takes it that a leader never needs such an entry.
3. **Inspect panics after a checkpoint** (`inspect`, `runtime.go:222`). The
   range of 100 entries is computed without the base.

The schedules of the first two were first met by exploring partitions step by
step, and fixed in `MCRepair` and `MCFiveMembers` so that TLC is quick.

## 5. Proofs

The theorems hold for every finite set of members, both election modes, every
`SnapshotEvery`, `BatchLimit` and `MaxInflight`, any records, commands and
clients, and behaviours of any length. They rest on the named assumptions of
the modules, all of which TLC evaluates on the runs: `NodeAssumption` (the
members are a finite non-empty set without `Nil`), `CmdAssumption` (a command
is not a no-op), `ModeAssumption`, `LimitAssumption`, `NoneAssumption`,
`TextAssumption`, `SessionAssumption`, `ClientAssumption` (the seeds are
servers of the membership, and there is one), `MemberAssumption` and
`CapacityAssumption` (the lab has finitely many members, a buffer holds an
event); and, where a module is generic in its
records, on what the caller passes, stated as a hypothesis of the theorem:
`Payload = StoreRecord` and `rs \in SUBSET HardRecord` in `StoreProofs`,
`Payload \subseteq CommandType` in `DatabaseProofs`.

### The Raft group

`RaftNodeProofs`, first about terms and votes:

- `TypeCorrect`: `Spec => []TypeOK`. `TypeOK` is not inductive: a slice of the
  log is a sequence of entries only between bounds the types do not know. The
  inductive `TypeInv` adds, for every node, `Len(log) >= 1`,
  `base <= commit <= LastIndex`, and that an open node has applied all it has
  committed. There is one lemma per `*Locked` function and one per action.
- `VoteOnce` and `LeaderOnce`: `OneVotePerTerm` and `ElectionSafety`. Both speak
  of histories. `ElectionInv` ties them to what the code keeps: the votes a
  candidate counted and the granted answers on their way are ballots their
  voters cast; no ballot is of a later term than the voter's, and the ballot of
  the current term is for the durable vote; a term was led with a majority of
  ballots, or by the fixed leader. Two majorities share a member, whose ballots
  are one.

Then about one node, which needs no other. `NodeInv` says that every node is `Fit`
and every append request `Honest`: a store is `Whole` (its snapshot and its log
are one log, `FullLog`, with terms that never fall and end at or below the
store's), the machine of an open node is what it has committed, waiters sit on
a leader above the commit index, at entries of its own term that are their own,
and the entries of a request are the end of a log `whole` of which `prev` is
the rest. From it:

- `NeverRefused`: `JournalAccepts`. `validate` refuses no record a handler
  writes, so `failed` is never set by anything but the disk.
- `AppliedIsCommitted`: `MachineIsCommitted`.
- `WaitersAreOwners`: `WaitersOwnTheirEntry`.

The same lemmas reduce each action to one of a dozen shapes of a step (`Rest`,
`Progress`, `Install`, `Voted`, `Crown`, `Matched`, ...), and all that follows
is proved of those shapes.

`RaftSafetyProofs` is the argument about the group, in three layers of
invariants. `Logs` are the logs of all stores *and* the histories `whole` of all
requests anyone can still see.

- `LogInv` gives `LogsMatch` (`LogMatching`) and `HintedLeaderElected`
  (`LeaderHintElected`). Log matching alone is not inductive: a request sent by
  a deposed leader may arrive at any time. `LogInv` therefore ranges over
  requests too, and adds that the entries of a term start at one index in every
  log, that every entry's term was led by somebody, that a leader's log holds
  every entry of its term in any log (`OwnLog`), and that a request of its term
  is a prefix of it (`LeaderPrefix`).
- `SafeInv` is the reason why elections lose nothing. An entry is `Chosen` when
  a quorum stored it in its own term, and `Choosable` as long as that can still
  happen, which only gets harder as members move to later terms. A choosable
  entry is in every log with an entry of a later term (`Inherited`), contradicts
  no request of a later term (`Heeded`), stays with whoever stored it (`Stays`),
  and is in the log of every candidate that such a member voted for (`Backed`).
  A quorum in fixed-leader mode contains the leader.
- `CommitInv` relates what nodes *call* committed to what is chosen: what a
  leader's match table or an acknowledgement on its way says of a follower
  binds the follower (`PledgeInv`), and what a node has committed, what a
  request tells its receiver to commit, what was compacted and what a client was
  told is `Sealed`: a prefix of every log that holds some chosen entry at or
  above it. It gives `MachinesAgree` (`StateMachineSafety`), `LeadersComplete`
  (`LeaderCompleteness`), `MatchHeld` (`MatchSound`), `CompactedHeld`
  (`CompactedEverywhere`), `AnswersDurable` (`AnsweredIsDurable`) and
  `AppendsAccepted` (`NoAppendError`).

Its last part is `ClusterIsLedger`, `Spec => LedgerSpec`, by the refinement
mapping of `RaftLedger`. That the history only grows follows from the seals: the
commit index of a node never falls, and what any node has committed agrees with
what any node has committed in the next state. For the answers, `LedgerInv` adds
that a client was answered for an entry its own node has committed, of a term
that node led (`AnswersOwn`), and that a waiting client's `before` lies below
its index, or the index is already committed with another leader's entry
(`WaitersLate`). The second half is needed: a deposed leader that does not know
it may take a client at an index below ones that were answered elsewhere; it
must never answer it. Two answers at one index would come from one node, as the
term of the entry has one leader, and a node answers only above what it had
committed.

### Journal, store and database

- `JournalProofs`: `JournalTyped` and `AcknowledgedKept`
  (`AcknowledgedSurvive`). `JournalInv` says, of both files a restart may find
  (by the directory in memory and by the one on the medium), that whatever part
  of them survives is a journal the owner was told of (`Survives`); to keep that
  it must know where a write stands between its system calls: a record written
  and not synced is the last one and an intent (`WrittenInv`), a temporary file
  is complete before it has the name, and the name durable before the owner is
  told (`ReplaceInv`), outside a write everything is on the medium
  (`SettledInv`), and a failed journal is not written again (`FailedInv`).
- `StoreProofs`: `StoreKeeps` (the same for the journal as the store uses it),
  `StoreReopens` (`StoreOpens`) and `StoreAtomic`: the store over the journal
  implements `AtomicStore`. `StoreInv` adds that the node knows the store its
  acknowledged records replay to, and that every unsettled outcome of a call is
  one move of `AtomicStore` away from it, so that a restart is such a move.
- `DatabaseProofs`: `ReadsDurable`, `AnswersOnce` and `DatabaseReopens`
  (`ReadsAreDurable`, `AnsweredOnce`, `AlwaysOpens`). `DatabaseInv` says that
  every journal a restart may find is `Proper`: its replay meets no command
  `Check` refuses, every session is at least as far as its client's commands,
  and repeats a command that is in the journal exactly once, with its result.
- `ReplayProofs` has what all the replays need: the replay of one more record is
  one more step, and what it computes depends on nothing behind it. Its
  induction is an argument by the least counterexample, since
  an induction theorem cannot be instantiated with an operator.

### Machine and clients

`ServiceProofs` is about the callers over the replica, for any commands,
servers and callers, any leader at any time, and any `sent`. Three invariants:

- `MachineInv` gives `AppliedOnce` (`EffectOnce`), `SameAnswer`
  (`AnswersRepeat`) and `AnswersSettle` (`Settled`). Machine and snapshot are
  replays of the log and of its compacted prefix, so a restart changes nothing.
  A session is `Filed`: it is the command with the highest request ID of its
  client in the log, so that `check` calls a command new exactly when it is the
  first of its client with so high an ID, which is what `EffectOnce` counts. An
  answer equals the session until the client's next request, and a command `Do`
  has returned for is one its session has reached: `check` will refuse it or
  repeat its answer.
- `ClientInv`: what a call holds (target, redirect) and the preferred server are
  known servers.
- `MissInv` gives `LeaderReached` (`ReachesLeader`). The targets a call has
  missed include those of a run of consecutive cursors, and every second
  attempt lengthens the run, whatever redirects came in between (`Chase`). A run
  as long as the table holds every server, and the swap of the preferred server
  into the first place is a permutation, so the leader would be among them.

### Chaos lab

`LabProofs` is about any number of members and any buffer size. `LabInv` has
four parts that hardly touch:

- `ProcessInv` gives `OneProcessEach` (`OneProcess`) and `NothingLeft`
  (`NoOrphans`): all processes of a member but the last have been waited for,
  the running flag says whether the last one has not, the IDs in a buffer are
  consecutive, and each stage of `New` and `Close` bounds what may still run.
- `WorkInv` gives `OneWorker` (`OneWorkload`): every task but the last is
  cancelled.
- `PollInv` gives `StreamOrdered` (`EventsInOrder`): nothing in the stream of a
  member comes after what its view shows, and what a poll brings back is no
  older than the view, also when the process was replaced meanwhile. The second
  half is why polls of one member may not overlap.
- `GapInv` gives `GapsExact` (`GapsCounted`): a poll that stores events adds a
  gap exactly when the first of them does not follow what the view showed,
  which rests on the buffers being consecutive.

`PacketInv` stands beside it and gives `IsolationHolds` (`NothingCrosses`): with
the types of the packets the property is inductive. Only `SetFaults` and the
looks of a proxy can disturb it: the first marks what has left already, and a
look lets nothing go that is blocked.

### What the proofs changed

The type proof showed an early return that `AppendEntriesMatch` lacked (a failed
`stepDownLocked`), and the histories `stored` and `whole` were added because no
invariant of the logs alone is inductive. `ReachesLeader` once said
`missed < 2 * Len(servers)`, which the bounds of its run did not refute; the
proof stopped at a call whose first request is under way while another caller
changes the order of the servers, so that the request goes to a server that is
no longer the one at its cursor. Two full rounds may then miss. The property
says so now, the run reaches the case, and the bound is tight. Loops over
sequences (`Newer`, `addAll`, `EffectOnce`) are recursive functions, as nothing
could be proved about folds.

### Only model-checked

- Liveness under fairness is out of the prover's reach: `CatchesUp`,
  `AllCommitted`, `CloseEnds`, `DeathShows`, `RunPasses`.
- `NoPanic` is false for five members (finding 2), so there is no theorem;
  `network` checks that three do not reach it.
- `AuditPasses` of the simulator. The audit's maps would have to be tied to
  `SafeInv` and `CommitInv`, and the invariants of `Raft` to steps that are not
  its own: recover-all restarts every node in one step.

## 6. Not modelled

- HTTP and JSON (`api`, `transport`): encoding, and the read-only endpoints.
- Dashboard and commands: a user interface, and flags, signals and wiring; no
  state that another part reads.
- Lab: metrics and latency samples, snapshots and observations for display, its
  own event streams, the simulate endpoint with its gate of one run, the file
  server. Its delay and any loss below 100% are no state: a proxy may hold any
  request for any time and lose it.
- Simulator: virtual time and the order of the queue (all orders are allowed),
  the trace and its hash, the limits on steps and time, `Scenario.Validate`, and
  `Minimize`, which is a loop over whole runs.
- Sizes in `Raft`: that a leader fails itself at a checkpoint above 16 MiB is
  modelled in `RaftStore` for one node only.
- File locks, the identity hash of a journal, membership validation.

## 7. Plan

Done: `DiskStore`, `Raft`, `Ledger`, `RaftLedger`, `Journal`, `AtomicStore`,
`RaftStore`, `StateMachine`, `Replica`, `Database`, `Inspection`,
`ClusterClient`, `Service`, `EventRing`, `Lab`, `Simulator`, their MC modules,
and the eight proof modules.

Left:

1. `AuditPasses` as a theorem, over `RaftSafetyProofs`.
2. `Service` over `Ledger`: the leader and `sent` of `Service` derived from
   `Raft` rather than assumed.
3. `Minimize`, with a run as an arbitrary predicate of a list of faults.
