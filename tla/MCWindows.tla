---------------------------- MODULE MCWindows ----------------------------
(***************************************************************************)
(* A window of two slots of its own, and one of the player's below.        *)
(***************************************************************************)
EXTENDS Windows

Stack(kind, count) == [kind |-> kind, count |-> count]

\* A full stack of two items each, and an empty slot of the player's.
MCChest == <<Stack("dirt", 3), Stack("gem", 3), Empty>>
MCChanges == {Stack("gem", 1)}
MCOwn == {1, 2}
MCAll == {1, 2, 3}
==========================================================================
