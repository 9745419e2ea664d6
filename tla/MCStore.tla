------------------------------- MODULE MCStore -------------------------------
(* Bounds for model checking RaftStore. *)
EXTENDS RaftStore

CONSTANTS MaxTerm,    \* terms run from 0 to MaxTerm
          MaxRecords  \* records in a file

(* The records a node may ask for, valid or not. *)
Records ==
  [term : 0 .. MaxTerm, vote : Node \cup {Nil}, commit : 0 .. 2, from : {0},
   entries : {<<>>}]
  \cup [term : 1 .. MaxTerm, vote : Node \cup {Nil}, commit : 0 .. 2, from : 1 .. 2,
        entries : {<<e>> : e \in [term : 1 .. MaxTerm, cmd : Operation]}]

(* Files stay short, and calls that fail are not repeated for ever. *)
Small == /\ \A f \in Inode : Len(data'[f]) <= MaxRecords
         /\ \A i \in intents' : Len(i) <= MaxRecords

MCStoreSpec == StoreInit /\ [][StoreNext(Records) /\ Small]_storeVars
=============================================================================
