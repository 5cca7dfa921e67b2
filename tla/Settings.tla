------------------------------- MODULE Settings -------------------------------
(***************************************************************************)
(* The settings and their save on change                                   *)
(* (crates/oxide-client/src/settings_state.rs, main.rs;                    *)
(* crates/oxide-game/src/settings.rs).                                     *)
(*                                                                         *)
(* The options are a view distance and the number of changes the player    *)
(* made to them so far.  A slider marks them for a save that is due when   *)
(* no mark has come for a while; a button, a key and the server list save  *)
(* at once.  Nothing is written unless the settings are dirty.  Where the  *)
(* values are pushed to is left out.                                       *)
(***************************************************************************)
EXTENDS Integers

VARIABLES
  settings, \* the client's settings; a client that is not running has none
  options   \* the options file

settingsVars == <<settings, options>>

Missing == [file |-> "missing"]
Whole(held) == [file |-> "whole", held |-> held]

\* No client runs.  Beside the code's own fields, "saved" are the options at
\* the last mark or save the player made, "touched" that one was made in this
\* run, and "failed" that a write failed in it (history).
Gone ==
  [running |-> FALSE, held |-> [view |-> "own", rev |-> 0],
   dirty |-> FALSE, pending |-> "none", touched |-> FALSE, failed |-> FALSE]

SettingsInit ==
  /\ settings = Gone
  /\ options \in {Missing, Whole([view |-> "own", rev |-> 0])}
-----------------------------------------------------------------------------
\* What a crash in the middle of a save leaves: the bytes land in a file
\* beside it, which is renamed over it when they are all there.
Interrupted(old, new) == {old, new}

\* A save that is asked for: nothing when clean; otherwise it succeeds, fails
\* or is cut short.  The deadline is disarmed first.
Save(s) ==
  LET disarmed == [s EXCEPT !.pending = "none"]
      new == Whole(s.held)
  IN  IF ~s.dirty THEN {[now |-> disarmed, file |-> options]}
      ELSE {[now |-> [disarmed EXCEPT !.dirty = FALSE], file |-> new],
            [now |-> [disarmed EXCEPT !.failed = TRUE], file |-> options]}
           \cup {[now |-> Gone, file |-> f] : f \in Interrupted(options, new)}

SaveNow(s) == \E r \in Save(s) : settings' = r.now /\ options' = r.file

\* Mutant of PollSave: the deadline is only read, and left for the exit.
PollSaveNever == UNCHANGED settingsVars

\* The writer's poll, once a frame.
PollSave ==
  IF settings.pending = "due" THEN SaveNow(settings) ELSE UNCHANGED settingsVars
-----------------------------------------------------------------------------
\* What the file reads as; bytes that end early read as far as they go.
Read == IF options.file = "whole" THEN options.held ELSE [view |-> "own", rev |-> 0]

\* Startup: the flag, when given, is the view distance of the run; over a
\* missing file it is stored, with the rest, as the player's own.
Launch(flag) ==
  /\ ~settings.running
  /\ IF options = Missing
     THEN SaveNow([Gone EXCEPT !.running = TRUE, !.dirty = TRUE, !.touched = TRUE])
     ELSE /\ settings' = [Gone EXCEPT !.running = TRUE,
                            !.held = IF flag THEN [Read EXCEPT !.view = "flag"] ELSE Read]
          /\ UNCHANGED options

\* A change of a setting; the view distance the player picks is their own.
Changed(s, ofView) ==
  [s EXCEPT !.held.rev = @ + 1, !.held.view = IF ofView THEN "own" ELSE @,
            !.touched = TRUE]

Marked(s) == [s EXCEPT !.pending = "waiting", !.dirty = TRUE]

Slide(ofView) ==
  /\ settings.running
  /\ settings' = Marked(Changed(settings, ofView))
  /\ UNCHANGED options

Toggle(ofView) == settings.running /\ SaveNow(Changed(settings, ofView))

\* The half second of the debounce passes.
Elapse ==
  /\ settings.pending = "waiting"
  /\ settings' = [settings EXCEPT !.pending = "due"]
  /\ UNCHANGED options

\* The exit saves; what is left then ends with the client.
Exit ==
  /\ settings.running
  /\ \E r \in Save(settings) : settings' = Gone /\ options' = r.file

Crash == settings.running /\ settings' = Gone /\ UNCHANGED options
-----------------------------------------------------------------------------
(* Properties.                                                             *)

\* A run that changes no setting never touches the file, whatever flag it was
\* given.
UnchangedRunLeavesFile ==
  [][options' # options => settings.touched \/ settings'.touched \/ options = Missing]_settingsVars

\* What a slider changed is in the file in the end, unless the run ends
\* without its exit or a write of it fails.
SliderIsSaved ==
  \A n \in 1 .. 2 :
    settings.pending # "none" /\ settings.held.rev = n
      ~> \/ ~settings.running \/ settings.failed
         \/ settings.held.rev > n
         \/ options.file = "whole" /\ options.held.rev >= n

\* What a button or a key changed is in the file when its save has been done.
ButtonIsSaved ==
  [][settings'.running /\ ~settings'.failed /\ settings'.pending = "none"
       /\ settings'.held.rev > settings.held.rev
       => options'.file = "whole" /\ options'.held.rev = settings'.held.rev]_settingsVars

\* The flag never enters the file.
FlagStaysOut == options.file = "whole" => options.held.view # "flag"

\* A failed save is tried again: what is dirty has a deadline.
DirtyIsArmed == settings.running /\ settings.dirty => settings.pending # "none"
=============================================================================
