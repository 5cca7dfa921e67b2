----------------------------- MODULE MCLauncher -----------------------------
(* Two revisions that share an object and a file of the jar. *)
EXTENDS Launcher
MCIndex == [r1 |-> <<"o1", "o2">>, r2 |-> <<"o2", "o3">>]
MCEntries == [r1 |-> <<"f1", "f2">>, r2 |-> <<"f1", "f3">>]
\* p is about one account; q about both, and it is the client too.
MCCommands ==
  [p |-> {"in", "out"} \X {"a"},
   q |-> ({"in", "out"} \X {"a", "b"}) \cup ({"start", "named"} \X {"a"}) \cup {<<"status", "none">>}]
=============================================================================
