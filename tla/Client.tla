-------------------------------- MODULE Client --------------------------------
(***************************************************************************)
(* The client outside the game: the settings, the multiplayer screen and   *)
(* the skins, in the runs and frames of one program                        *)
(* (crates/oxide-client/src/main.rs).                                      *)
(*                                                                         *)
(* A run is launched, shows the main menu, the multiplayer screen or a     *)
(* session, and exits or is killed.  Its frames poll the settings' writer, *)
(* file the skins and apply the pings.                                     *)
(***************************************************************************)
EXTENDS Settings, ServerList, SkinWorker

CONSTANT Budget  \* how many changes a behaviour makes, for the one part it changes

VARIABLES
  session, \* the session: none, signing in, or in play
  spent    \* the part changed, and the changes so far (bound)

vars == <<settingsVars, listVars, skinVars, session, spent>>

Init ==
  /\ SettingsInit /\ ListInit /\ SkinsInit
  /\ session = "none" /\ spent = [part |-> "none", changes |-> 0]

Spend(part, changes) ==
  /\ spent.part \in {"none", part} /\ spent.changes + changes <= Budget[part]
  /\ spent' = [part |-> part, changes |-> spent.changes + changes]

\* What a step does in a run that goes on; a save cut short ends the run, and
\* with it everything but the files.
Continues(step, sessionAfter) ==
  IF settings'.running THEN step /\ session' = sessionAfter
  ELSE /\ Closed /\ SkinsGone /\ session' = "none"

ScreenStays == UNCHANGED listVars
SkinsStay == UNCHANGED skinVars
-----------------------------------------------------------------------------
\* The flag is the command line's view distance.
Start(flag) == Launch(flag) /\ UNCHANGED <<listVars, skinVars, session, spent>>

Stop ==
  /\ Exit \/ Crash
  /\ Closed /\ SkinsGone /\ session' = "none"
  /\ UNCHANGED spent

\* A frame: the writer's poll, the skins, the pings.
Frame ==
  /\ settings.running
  /\ PollSave
  /\ Continues(DrainSkins /\ PumpPings, session)
  /\ UNCHANGED spent

Slides(ofView) ==
  /\ ~screen.open /\ Spend("settings", 1)
  /\ Slide(ofView)
  /\ UNCHANGED <<listVars, skinVars, session>>

Toggles(ofView) ==
  /\ ~screen.open /\ Spend("settings", 1)
  /\ Toggle(ofView)
  /\ Continues(ScreenStays /\ SkinsStay, session)
-----------------------------------------------------------------------------
AtMenu == settings.running /\ session = "none"

OpensList ==
  /\ AtMenu
  /\ OpenMultiplayer
  /\ UNCHANGED <<settingsVars, skinVars, session, spent>>

\* Back, from the list to the menu.
ClosesList ==
  /\ screen.open /\ screen.sub = List
  /\ Closed
  /\ UNCHANGED <<settingsVars, skinVars, session, spent>>

\* Presses and keys of the list that leave its rows; Escape leaves any form, the
\* direct one without its address.  A behaviour that has joined only selects and
\* leaves (bound).
OnList ==
  /\ \/ \E i \in Rows : Select(i)
     \/ \E step \in {-1, 1} : spent.part # "skins" /\ Arrow(step)
     \/ \E kind \in {"add", "edit", "delete", "direct"} : spent.part # "skins" /\ OpenSub(kind)
     \/ Cancel
  /\ UNCHANGED <<settingsVars, skinVars, session, spent>>

\* Those that change one, and save the list, or that start the rows over.
EditsList ==
  /\ Spend("list", 1)
  /\ \/ Refresh
     \/ \E step \in {-1, 1} : Move(step)
     \/ \E server \in Servers : ConfirmForm(server)
     \/ ConfirmDelete
  /\ UNCHANGED <<settingsVars, skinVars, session>>

\* The direct form's own button leaves it: the address is kept as the last server,
\* and saved.
DirectClosed ==
  /\ screen.sub.kind = "direct" /\ Spend("settings", 1)
  /\ Toggle(FALSE)
  /\ Continues(Cancel /\ SkinsStay, session)

\* The selected row is joined, or the address of the direct form, which is saved
\* first.  A client without its assets, or a store that opens, stays on the list.
Join ==
  /\ \/ /\ screen.sub = List /\ screen.selected # {} /\ Spend("skins", 0)
        /\ UNCHANGED settingsVars
     \/ /\ screen.sub.kind = "direct" /\ Spend("settings", 1)
        /\ Toggle(FALSE)
  /\ \/ Continues(Closed /\ StartWorker, "joining")
     \/ Continues((IF screen.sub = List THEN ScreenStays ELSE Cancel) /\ SkinsStay, session)

LoggedIn ==
  /\ session = "joining" /\ session' = "in"
  /\ StartOwnFetch
  /\ UNCHANGED <<settingsVars, listVars, spent>>

ListChanges ==
  /\ session = "in" /\ Spend("skins", 1)
  /\ \E p \in Listed, property \in Properties \cup {Plain} : Report(p, property)
  /\ UNCHANGED <<settingsVars, listVars, session>>

\* The session ends, by either side; the worker works on.
Leave ==
  /\ session # "none" /\ session' = "none"
  /\ UNCHANGED <<settingsVars, listVars, skinVars, spent>>
-----------------------------------------------------------------------------
DebounceEnds == Elapse /\ UNCHANGED <<listVars, skinVars, session, spent>>
Answers == Ping /\ UNCHANGED <<settingsVars, skinVars, session, spent>>
Fetches == (Work \/ FetchOwn) /\ UNCHANGED <<settingsVars, listVars, session, spent>>

Next ==
  \/ \E flag \in BOOLEAN : Start(flag)
  \/ Stop \/ Frame
  \/ \E ofView \in BOOLEAN : Slides(ofView) \/ Toggles(ofView)
  \/ OpensList \/ ClosesList \/ OnList \/ EditsList \/ DirectClosed \/ Join
  \/ LoggedIn \/ ListChanges \/ Leave
  \/ DebounceEnds \/ Answers \/ Fetches

\* The window asks for a frame whenever it is idle, time passes, and the ping
\* thread, whose attempts all end by one deadline, answers.
Spec ==
  /\ Init /\ [][Next]_vars
  /\ WF_vars(Frame) /\ WF_vars(DebounceEnds) /\ WF_vars(Answers)
=============================================================================
