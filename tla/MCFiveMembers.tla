--------------------------- MODULE MCFiveMembers ----------------------------
(***************************************************************************)
(* Five members.  A leads, compacts the first two entries, and shares a    *)
(* third with B only; C leads without them and replaces A's third entry;   *)
(* A leads again and meets B, which still holds the old one.               *)
(***************************************************************************)
EXTENDS MCPartitions

CONSTANTS A, B, C, D, E

Links(s, t) == {{i, j} : i \in s, j \in t}

ReturnSchedule ==
  <<[event |-> "tick", who |-> A, links |-> Links({A}, {B, C})],
    [event |-> "submit", who |-> A, links |-> Links({A}, {B})],
    [event |-> "links", who |-> A, links |-> Links({A}, {C})],
    [event |-> "links", who |-> A, links |-> Links({A}, {D})],
    [event |-> "links", who |-> A, links |-> Links({A}, {E})],
    [event |-> "submit", who |-> A, links |-> Links({A}, {B})],
    [event |-> "tick", who |-> C, links |-> Links({C}, {D, E})],
    [event |-> "links", who |-> C, links |-> Links({C}, {A})],
    [event |-> "tick", who |-> A, links |-> Links({A}, {D, E})],
    [event |-> "links", who |-> A, links |-> Links({A}, {B})]>>
=============================================================================
