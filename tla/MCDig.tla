-------------------------------- MODULE MCDig --------------------------------
(***************************************************************************)
(* Lines of two cells to dig in.                                           *)
(***************************************************************************)
EXTENDS Dig

MCReach == [survival |-> 2, creative |-> 2]
MCWorlds == {<<"plant", "stone">>, <<"stone", "bedrock">>}
=============================================================================
