----------------------------- MODULE ColumnView -----------------------------
(***************************************************************************)
(* What a window is promised of a world another thread owns, whatever      *)
(* queues, workers and channels lie between them.                          *)
(*                                                                         *)
(* The world changes as it likes.  What the window has been told of a      *)
(* column is replaced only by what the column is at that moment, or        *)
(* dropped when the column is gone; and the window shows what it has been  *)
(* told, later.                                                            *)
(***************************************************************************)
CONSTANTS Columns,
          Gone     \* the value of a column the world does not hold

VARIABLES current, \* column -> its value in the world
          told,    \* column -> the last value sent, for the columns kept
          shown    \* column -> the value on the screen, for the columns kept

vars == <<current, told, shown>>

Nothing == [c \in {} |-> Gone]

Init ==
  /\ current = [c \in Columns |-> Gone]
  /\ told = Nothing
  /\ shown = Nothing

\* The world changes, and columns that are gone from it may be retracted.
WorldChanges ==
  /\ DOMAIN current' = Columns
  /\ DOMAIN told' \subseteq DOMAIN told
  /\ \A c \in DOMAIN told \ DOMAIN told' : current'[c] = Gone
  /\ \A c \in DOMAIN told' : told'[c] = told[c]
  /\ UNCHANGED shown

\* One column is sent as it is.
Report(c) ==
  /\ told' = [d \in DOMAIN told \cup {c} |-> IF d = c THEN current[c] ELSE told[d]]
  /\ UNCHANGED <<current, shown>>

\* The window catches up with everything it was told.
Show ==
  /\ shown' = told
  /\ UNCHANGED <<current, told>>

Next == WorldChanges \/ (\E c \in Columns : Report(c)) \/ Show

\* What was told is shown.
Spec == Init /\ [][Next]_vars /\ WF_vars(Show)
=============================================================================
