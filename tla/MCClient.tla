------------------------------- MODULE MCClient -------------------------------
(* Two servers; a player list of the client's own player and another. *)
EXTENDS Client
MCPlayers == <<"me", "other">>
MCStored == {<<"s1", "s2">>}
MCBudget == [settings |-> 2, list |-> 2, skins |-> 2]
=============================================================================
