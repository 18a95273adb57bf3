--------------------------- MODULE MCRegionServer ---------------------------
(* Small instances of RegionServer for TLC. *)
EXTENDS RegionServer

\* The first session index is used twice, every other once.
FirstTwice == [i \in Slots |-> IF i = 1 THEN 2 ELSE 1]
Once == [i \in Slots |-> 1]

\* Contexts and avatars are only compared for equality, and a session uses one
\* of each in its life: the first session of index 1 has c1 and a1 in one of the
\* behaviours that only differ in such names.
CONSTANTS c1, a1
FirstHasC1A1 ==
  \A c \in Contexts : ctx[c].sess = <<1, 1>> => c = c1 /\ ctx[c].avatar = a1
=============================================================================
