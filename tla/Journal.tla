------------------------------- MODULE Journal -------------------------------
(***************************************************************************)
(* The write-ahead log: internal/storage/wal.go.                           *)
(*                                                                         *)
(* One step is one system call of Append, Replace or OpenJournal; the      *)
(* owner serialises them.  A record is a cell: its payload, and whether    *)
(* all of it was written.  Length and checksum are what tells a whole cell *)
(* from a torn one.                                                        *)
(*                                                                         *)
(* The file system is external.  An inode has the data processes see and   *)
(* the data that is safe on the medium; fsync makes all data safe, and a   *)
(* power loss keeps the safe data and a part of what was written after it. *)
(* A rename is atomic, and durable once the directory is synced.           *)
(***************************************************************************)
EXTENDS Integers, Sequences, SequencesExt

CONSTANTS Payload, \* what an owner may append
          None     \* no inode: a closed file, no temporary file

(* The file at the path, the file a power loss may put back there, and the   *)
(* temporary file of Replace.                                                *)
Inode == 1 .. 3

ASSUME NoneAssumption == None \notin Inode

VARIABLES
  data,     \* the cells of each inode
  safe,     \* the cells of each inode on the medium
  path,     \* the inode w.path names
  safePath, \* the inode w.path names on the medium
  pc,       \* where the owner is; "ready" between two calls
  file,     \* w.file: the inode it writes to, None if it is closed
  failed,   \* w.failed != nil
  tmp,      \* the temporary file of a Replace
  believed, \* history: the records the owner was told are in the journal
  intents   \* history: the journals its unsettled calls could have left

fileSystem == <<data, safe, path, safePath>>
process == <<pc, file, failed, tmp>>
journalVars == <<data, safe, path, safePath, pc, file, failed, tmp, believed,
                 intents>>

Cell == [payload : Payload, whole : BOOLEAN]
Whole(p) == [payload |-> p, whole |-> TRUE]
Torn(p) == [payload |-> p, whole |-> FALSE]

(* Payloads of the records before the first torn cell: what OpenJournal      *)
(* replays before it truncates the tail.  (A torn cell with others behind it *)
(* would be read together with them: a checksum error, or a longer tail.)    *)
Recovered(cells) ==
  LET before == {k \in 0 .. Len(cells) : \A l \in 1 .. k : cells[l].whole}
      n == CHOOSE k \in before : \A l \in before : l <= k
  IN  [k \in 1 .. n |-> cells[k].payload]

(* What a power loss may leave of d when s is on the medium. *)
Survivors(s, d) ==
  LET cut(k) == SubSeq(d, 1, k)
      torn(k) == Append(cut(k - 1), Torn(d[k].payload))
  IN  {s, d} \cup {c \in {cut(k) : k \in 0 .. Len(d)} : IsPrefix(s, c)}
             \cup {c \in {torn(k) : k \in 1 .. Len(d)} : IsPrefix(s, c)}

(* The journals a restart may find, after a kill or a power loss. *)
Recoverable ==
  {Recovered(c) : c \in UNION {Survivors(safe[f], data[f]) : f \in {path, safePath}}}

-----------------------------------------------------------------------------
(* Append: write, then sync.                                                *)

Healthy == pc = "ready" /\ ~failed

(* file.Write succeeds, which takes an open file. *)
AppendWrite(p) ==
  /\ Healthy /\ file # None
  /\ data' = [data EXCEPT ![file] = Append(@, Whole(p))]
  /\ pc' = "written"
  /\ intents' = intents \cup {Append(believed, p)}
  /\ UNCHANGED <<safe, path, safePath, file, failed, tmp, believed>>

(* file.Write fails, with nothing, a part or all of the record written. *)
AppendWriteFails(p) ==
  /\ Healthy
  /\ \/ UNCHANGED <<data, intents>>
     \/ /\ file # None
        /\ data' = [data EXCEPT ![file] = Append(@, Torn(p))]
        /\ UNCHANGED intents
     \/ /\ file # None
        /\ data' = [data EXCEPT ![file] = Append(@, Whole(p))]
        /\ intents' = intents \cup {Append(believed, p)}
  /\ failed' = TRUE
  /\ UNCHANGED <<safe, path, safePath, pc, file, tmp, believed>>

(* Mutant: Append does not wait for the medium. *)
AppendSyncSkipped ==
  /\ pc = "written"
  /\ believed' = Append(believed, Last(data[file]).payload)
  /\ pc' = "ready" /\ intents' = {}
  /\ UNCHANGED <<fileSystem, file, failed, tmp>>

(* file.Sync succeeds and Append returns nil. *)
AppendSync ==
  /\ pc = "written"
  /\ safe' = [safe EXCEPT ![file] = data[file]]
  /\ believed' = Append(believed, Last(data[file]).payload)
  /\ pc' = "ready" /\ intents' = {}
  /\ UNCHANGED <<data, path, safePath, file, failed, tmp>>

AppendSyncFails ==
  /\ pc = "written"
  /\ failed' = TRUE /\ pc' = "ready"
  /\ UNCHANGED <<fileSystem, file, tmp, believed, intents>>

-----------------------------------------------------------------------------
(* Replace: the records go to a temporary file that takes the path's name.  *)

(* Creates the temporary file and writes one record after the other to it. *)
ReplaceCreate(payloads) ==
  /\ Healthy
  /\ tmp' = CHOOSE f \in Inode : f \notin {path, safePath}
  /\ data' = [data EXCEPT ![tmp'] = [k \in 1 .. Len(payloads) |-> Whole(payloads[k])]]
  /\ safe' = [safe EXCEPT ![tmp'] = <<>>]
  /\ pc' = "copied"
  /\ UNCHANGED <<path, safePath, file, failed, believed, intents>>

(* Mutant: the new file takes the name before it is on the medium. *)
ReplaceSyncSkipped ==
  /\ pc = "copied"
  /\ pc' = "synced"
  /\ UNCHANGED <<fileSystem, file, failed, tmp, believed, intents>>

ReplaceSync ==
  /\ pc = "copied"
  /\ safe' = [safe EXCEPT ![tmp] = data[tmp]]
  /\ pc' = "synced"
  /\ UNCHANGED <<data, path, safePath, file, failed, tmp, believed, intents>>

(* old.Close(), an error if an earlier Replace has closed it already. *)
ReplaceClose ==
  /\ pc = "synced" /\ file # None
  /\ file' = None
  /\ pc' = "closed"
  /\ UNCHANGED <<fileSystem, failed, tmp, believed, intents>>

(* Mutant: the name is removed before it is given to the new file. *)
ReplaceRenameRemoves ==
  /\ pc = "closed"
  /\ path' = None
  /\ pc' = "renamed"
  /\ UNCHANGED <<data, safe, safePath, file, failed, tmp, believed, intents>>

ReplaceRename ==
  /\ pc = "closed"
  /\ path' = tmp
  /\ pc' = "renamed"
  /\ intents' = intents \cup {Recovered(data[tmp])}
  /\ UNCHANGED <<data, safe, safePath, file, failed, tmp, believed>>

ReplaceSyncDirectory ==
  /\ pc = "renamed"
  /\ safePath' = path
  /\ pc' = "named"
  /\ UNCHANGED <<data, safe, path, file, failed, tmp, believed, intents>>

(* The file is opened again under its name, and Replace returns nil. *)
ReplaceReopen ==
  /\ pc = "named"
  /\ file' = path /\ tmp' = None
  /\ believed' = Recovered(data[path])
  /\ pc' = "ready" /\ intents' = {}
  /\ UNCHANGED <<fileSystem, failed>>

(* Any call of Replace fails.  The journal is not marked failed; from Close  *)
(* on its file is closed, so that the next Append marks it.                  *)
ReplaceFails ==
  /\ pc \in {"copied", "synced", "closed", "renamed", "named"}
  /\ pc' = "ready" /\ tmp' = None
  /\ UNCHANGED <<fileSystem, file, failed, believed, intents>>

-----------------------------------------------------------------------------
(* OpenJournal: replay the records, truncate a torn tail, sync.             *)

OpenReplay ==
  /\ pc = "down"
  /\ data' = [data EXCEPT ![path] = SubSeq(@, 1, Len(Recovered(@)))]
  /\ pc' = "replayed"
  /\ UNCHANGED <<safe, path, safePath, file, failed, tmp, believed, intents>>

OpenSync ==
  /\ pc = "replayed"
  /\ safe' = [safe EXCEPT ![path] = data[path]]
  /\ pc' = "flushed"
  /\ UNCHANGED <<data, path, safePath, file, failed, tmp, believed, intents>>

(* syncDirectory, and OpenJournal returns: the owner has the records. *)
OpenDone ==
  /\ pc = "flushed"
  /\ safePath' = path
  /\ file' = path /\ failed' = FALSE
  /\ believed' = Recovered(data[path])
  /\ pc' = "ready" /\ intents' = {}
  /\ UNCHANGED <<data, safe, path, tmp>>

-----------------------------------------------------------------------------
(* The owner closes the journal, or its process ends in the middle of a call. *)
Kill ==
  /\ pc # "down"
  /\ pc' = "down" /\ file' = None /\ failed' = FALSE /\ tmp' = None
  /\ UNCHANGED <<fileSystem, believed, intents>>

PowerLoss ==
  /\ data' \in {d \in [Inode -> UNION {Survivors(safe[f], data[f]) : f \in Inode}] :
                  \A f \in Inode : d[f] \in Survivors(safe[f], data[f])}
  /\ safe' = data'
  /\ \E f \in {path, safePath} : path' = f /\ safePath' = f
  /\ pc' = "down" /\ file' = None /\ failed' = FALSE /\ tmp' = None
  /\ UNCHANGED <<believed, intents>>

(* An empty journal before it is opened for the first time. *)
JournalInit ==
  /\ data = [f \in Inode |-> <<>>] /\ safe = data
  /\ path = 1 /\ safePath = 1
  /\ pc = "down" /\ file = None /\ failed = FALSE /\ tmp = None
  /\ believed = <<>> /\ intents = {}

JournalNext ==
  \/ \E p \in Payload : AppendWrite(p) \/ AppendWriteFails(p)
  \/ AppendSync \/ AppendSyncFails
  \/ \E p \in Payload : ReplaceCreate(<<p>>)
  \/ ReplaceSync \/ ReplaceClose \/ ReplaceRename \/ ReplaceSyncDirectory
  \/ ReplaceReopen \/ ReplaceFails
  \/ OpenReplay \/ OpenSync \/ OpenDone
  \/ Kill \/ PowerLoss

JournalSpec == JournalInit /\ [][JournalNext]_journalVars

-----------------------------------------------------------------------------
(* The fields of a WAL and the files of its directory keep their types: its  *)
(* path always names a file.                                                 *)
JournalTypeOK ==
  /\ data \in [Inode -> Seq(Cell)] /\ safe \in [Inode -> Seq(Cell)]
  /\ path \in Inode /\ safePath \in Inode
  /\ pc \in {"down", "replayed", "flushed", "ready", "written", "copied",
             "synced", "closed", "renamed", "named"}
  /\ file \in Inode \cup {None} /\ tmp \in Inode \cup {None}
  /\ failed \in BOOLEAN
  /\ believed \in Seq(Payload) /\ intents \in SUBSET Seq(Payload)

(* Whenever the process dies or the power fails, the next OpenJournal finds  *)
(* exactly the records acknowledged so far, or the outcome of a call that    *)
(* was never acknowledged: no acknowledged record is lost, none is seen in   *)
(* part, and Replace installs all of its records or none.                    *)
AcknowledgedSurvive == Recoverable \subseteq {believed} \cup intents
=============================================================================
