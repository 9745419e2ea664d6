------------------------------ MODULE MCRepair ------------------------------
(***************************************************************************)
(* Three members.  A leads and keeps an entry to itself; B leads without   *)
(* A and commits another entry; C leads with everyone connected.           *)
(***************************************************************************)
EXTENDS MCPartitions

CONSTANTS A, B, C

Links(s, t) == {{i, j} : i \in s, j \in t}

RepairSchedule ==
  <<[event |-> "tick", who |-> A, links |-> Links({A}, {B, C})],
    [event |-> "submit", who |-> A, links |-> {}],
    [event |-> "tick", who |-> B, links |-> Links({B}, {C})],
    [event |-> "tick", who |-> C, links |-> Links({C}, {B})],
    [event |-> "links", who |-> C, links |-> Links({C}, {A, B})]>>
=============================================================================
