----------------------------- MODULE MCDatabase -----------------------------
(* Bounds for model checking Database. *)
EXTENDS Database, TLC

CONSTANTS MaxRequest, \* request IDs run from 1 to MaxRequest
          MaxRecords  \* records in the journal

Commands == {c \in [client : Client, request : 1 .. MaxRequest,
                    op : {"SET", "DELETE", "CAS"}, key : Key, value : Text,
                    expected : Text] : Validate(c)}

Small == Len(data'[path']) <= MaxRecords

MCDatabaseSpec == DatabaseInit /\ [][DatabaseNext /\ Small]_databaseVars

Symmetry == Permutations(Client)
=============================================================================
