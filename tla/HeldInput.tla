----------------------------- MODULE HeldInput -----------------------------
(***************************************************************************)
(* What the player holds and what the session believes held                *)
(* (crates/oxide-client/src/main.rs, crates/oxide-game/src/session.rs).    *)
(*                                                                         *)
(* The window sends the session key and button edges while the pointer is  *)
(* grabbed, and one FocusLost when it lets the pointer go; the session     *)
(* keeps the held keys and the held attack button.  Screens and the chat   *)
(* open and close on the player's keys and on the session's events, which  *)
(* the window learns a frame later.  An input is tagged with the screen it *)
(* was made on: the tag is for the properties, the code has none.          *)
(***************************************************************************)
EXTENDS Integers, Sequences, SequencesExt

CONSTANTS Keys,       \* the gameplay keys
          Jump,       \* the one that also asks for the respawn
          MaxGestures, \* bound: what the player does
          MaxPackets   \* bound: packets the session handles

ASSUME KeysAssumption == Jump \in Keys
ASSUME BoundsAssumption == MaxGestures \in Nat /\ MaxPackets \in Nat

VARIABLES
  down,     \* the keys physically down, the attack button among them
  focused,  \* whether the window has the keyboard and the mouse
  window,   \* the window's own state
  inputs,   \* what the session has still to drain
  session,  \* what the session keeps
  events,   \* what the window has still to fold
  asked,    \* the tags of the presses that became respawn requests
  gestures, \* what the player did so far
  packets   \* packets so far

vars == <<down, focused, window, inputs, session, events, asked, gestures, packets>>
-----------------------------------------------------------------------------
Attack == "the left button"
Buttons == Keys \cup {Attack}

Screens == {"none", "container", "pause", "death"}

Edge(button, pressed, screen) == [kind |-> "edge", button |-> button,
                                  pressed |-> pressed, screen |-> screen]
FocusLost == [kind |-> "focus lost"]

\* The pointer as the window thinks it (grabbed) and as the window system has it
\* (locked); whether an Escape has let it go without a word (slipped: for the
\* properties).
NewWindow == [grabbed |-> FALSE, locked |-> FALSE, slipped |-> FALSE, chat |-> FALSE,
              screen |-> "none", gate |-> FALSE, dead |-> FALSE, out |-> <<>>]

NewSession == [held |-> {}, left |-> FALSE, dead |-> FALSE]

Init ==
  /\ down = {} /\ focused = TRUE /\ window = NewWindow
  /\ inputs = <<>> /\ session = NewSession /\ events = <<>>
  /\ asked = {} /\ gestures = 0 /\ packets = 0
-----------------------------------------------------------------------------
(* Capture: who holds the pointer.  What is sent collects in out.          *)

Released(w) == [w EXCEPT !.grabbed = FALSE, !.locked = FALSE, !.slipped = FALSE,
                         !.out = Append(@, FocusLost)]

\* MUTANT of ChatOpen: what opens leaves the pointer grabbed.
ChatOpenGrabbed(w) == w

\* chat_open: a pointer that is already free is left alone.
ChatOpen(w) == IF w.grabbed THEN Released(w) ELSE w

\* chat_close and click: the pointer is grabbed, if the window system allows.
Grabbed(w) == [w EXCEPT !.grabbed = TRUE, !.locked = TRUE]
Refused(w) == [w EXCEPT !.grabbed = FALSE]

\* The Escape rule lets the pointer go, and its step is dropped where a pause
\* menu stands instead.
EscapeStepDropped(w) == [w EXCEPT !.grabbed = FALSE, !.slipped = @ \/ w.grabbed]

Stand(w, screen) == ChatOpen([w EXCEPT !.screen = screen])

\* What a step of the window sends goes to the session at once.
Sends(w) ==
  /\ window' = [w EXCEPT !.out = <<>>]
  /\ inputs' = inputs \o w.out
-----------------------------------------------------------------------------
(* The player.                                                             *)

Gesture ==
  /\ focused /\ gestures < MaxGestures
  /\ gestures' = gestures + 1
  /\ UNCHANGED <<session, events, asked, packets>>

InPlay == window.grabbed /\ ~window.chat /\ window.screen = "none"

\* A key edge is the gameplay's while the pointer is grabbed and nothing is
\* open (gameplay_key, and the routes above it in on_key).
KeyPress(k) ==
  /\ Gesture /\ k \notin down /\ UNCHANGED focused
  /\ down' = down \cup {k}
  /\ Sends(IF InPlay THEN [window EXCEPT !.out = <<Edge(k, TRUE, "none")>>] ELSE window)

KeyRelease(k) ==
  /\ Gesture /\ k \in down /\ UNCHANGED focused
  /\ down' = down \ {k}
  /\ Sends(IF InPlay THEN [window EXCEPT !.out = <<Edge(k, FALSE, "none")>>] ELSE window)

\* on_mouse_button: an open screen and the chat hold the click; the death
\* screen's button answers once its gate is open and the pointer is free; a
\* click on the free window grabs the pointer and is consumed.
MousePress ==
  /\ Gesture /\ Attack \notin down /\ UNCHANGED focused
  /\ down' = down \cup {Attack}
  /\ \/ /\ InPlay
        /\ Sends([window EXCEPT !.out = <<Edge(Attack, TRUE, "none")>>])
     \/ /\ window.screen = "death" /\ window.gate /\ ~window.locked
        /\ Sends([window EXCEPT !.out = <<Edge(Attack, TRUE, "death")>>])
     \/ /\ window.screen = "none" /\ ~window.chat /\ ~window.grabbed
        /\ \/ Sends(Grabbed(window))
           \/ Sends(Refused(window))
     \/ /\ window.screen # "none" \/ window.chat
        /\ Sends(window)

MouseRelease ==
  /\ Gesture /\ Attack \in down /\ UNCHANGED focused
  /\ down' = down \ {Attack}
  /\ Sends(IF InPlay THEN [window EXCEPT !.out = <<Edge(Attack, FALSE, "none")>>] ELSE window)

\* The chat key and the inventory key, in play.
OpenChat ==
  /\ Gesture /\ InPlay
  /\ Sends(ChatOpen([window EXCEPT !.chat = TRUE]))
  /\ UNCHANGED <<down, focused>>

OpenInventory ==
  /\ Gesture /\ InPlay
  /\ Sends(Stand(window, "container"))
  /\ UNCHANGED <<down, focused>>

\* Escape: the death screen owns it; the chat closes before the screen, each
\* recapturing the pointer; with neither the pause menu stands, which finds the
\* pointer let go already.
Escape ==
  /\ Gesture /\ window.screen # "death"
  /\ UNCHANGED <<down, focused>>
  /\ \/ /\ window.chat
        /\ \/ Sends(Grabbed([window EXCEPT !.chat = FALSE]))
           \/ Sends(Refused([window EXCEPT !.chat = FALSE]))
     \/ /\ ~window.chat /\ window.screen # "none"
        /\ \/ Sends(Grabbed([window EXCEPT !.screen = "none"]))
           \/ Sends(Refused([window EXCEPT !.screen = "none"]))
     \/ /\ ~window.chat /\ window.screen = "none"
        /\ Sends(Stand(EscapeStepDropped(window), "pause"))

\* The window loses the focus; what is pressed goes up elsewhere, unheard; the
\* focus comes back and recaptures nothing.
LoseFocus ==
  /\ Gesture
  /\ focused' = FALSE
  /\ Sends(Released(window))
  /\ UNCHANGED down

LetGoElsewhere ==
  /\ ~focused /\ down # {}
  /\ down' = {}
  /\ UNCHANGED <<focused, window, inputs, session, events, asked, gestures, packets>>

RegainFocus ==
  /\ ~focused /\ focused' = TRUE
  /\ UNCHANGED <<down, window, inputs, session, events, asked, gestures, packets>>

Player ==
  \/ \E k \in Keys : KeyPress(k) \/ KeyRelease(k)
  \/ MousePress \/ MouseRelease \/ OpenChat \/ OpenInventory \/ Escape
  \/ LoseFocus \/ LetGoElsewhere \/ RegainFocus
-----------------------------------------------------------------------------
(* A frame: the window folds the session's events.                         *)

\* The gate of a death screen that stands opens (at its twentieth tick; the
\* bound here is one); a dead player's death screen stands again.  Raising it
\* again leaves the pointer as it is.
OnTick(w) ==
  IF w.screen = "death" THEN [w EXCEPT !.gate = TRUE]
  ELSE IF w.dead THEN [w EXCEPT !.screen = "death", !.gate = FALSE] ELSE w

\* on_server_close: only a window that stands closes, and recaptures.
ServerCloses(w, allowed) ==
  IF w.screen = "container" THEN [w EXCEPT !.screen = "none", !.grabbed = allowed,
                                             !.locked = @ \/ allowed] ELSE w

Fold(w, event, allowed) ==
  CASE event = "Died" -> [Stand(w, "death") EXCEPT !.gate = FALSE, !.dead = TRUE]
    [] event = "Respawned" -> [w EXCEPT !.screen = IF @ = "death" THEN "none" ELSE @,
                                        !.dead = FALSE]
    [] event = "WindowOpened" -> Stand(w, "container")
    [] event = "WindowClosed" -> ServerCloses(w, allowed)
    [] event = "PlayerTick" -> OnTick(w)

\* What came is folded in its order.
Folded(w, reports, allowed) ==
  LET after[n \in 0 .. Len(reports)] ==
        IF n = 0 THEN w ELSE Fold(after[n - 1], reports[n], allowed)
  IN  after[Len(reports)]

Frame ==
  /\ events # <<>> /\ events' = <<>>
  /\ \E allowed \in BOOLEAN : Sends(Folded(window, events, allowed))
  /\ UNCHANGED <<down, focused, session, asked, gestures, packets>>
-----------------------------------------------------------------------------
(* The session's pass: the inputs are drained, a packet may be handled, and *)
(* a tick may come due.                                                     *)

\* One input: the dead player's press or jump asks for the respawn, and nothing
\* else of the dead player's is heard; the live player's goes to the held keys
\* or to the attack button; a lost focus releases the keys.
Drain(s, input) ==
  CASE input = FocusLost -> [s EXCEPT !.held = {}]
    [] input # FocusLost /\ s.dead -> s
    [] input # FocusLost /\ ~s.dead /\ input.button = Attack -> [s EXCEPT !.left = input.pressed]
    [] OTHER ->
         [s EXCEPT !.held = IF input.pressed THEN @ \cup {input.button} ELSE @ \ {input.button}]

Drained(s, sent) ==
  LET after[n \in 0 .. Len(sent)] == IF n = 0 THEN s ELSE Drain(after[n - 1], sent[n])
  IN  after[Len(sent)]

\* The presses of this drain that ask for the respawn.  Nothing in a drain
\* changes whether the player is dead.
Requests ==
  IF ~session.dead THEN {}
  ELSE {inputs[i].screen : i \in
          {j \in DOMAIN inputs : inputs[j] # FocusLost /\ inputs[j].pressed
                                 /\ inputs[j].button \in {Attack, Jump}}}

\* Update Health at zero releases all that is held; Respawn, Open Window and
\* Close Window leave it.
Handled(s, packet) ==
  CASE packet = "health" -> [held |-> {}, left |-> FALSE, dead |-> TRUE]
    [] packet = "respawn" -> [s EXCEPT !.dead = FALSE]
    [] OTHER -> s

Reported(s, packet) ==
  CASE packet = "health" -> IF s.dead THEN <<>> ELSE <<"Died">>
    [] packet = "respawn" -> <<"Respawned">>
    [] packet = "open" -> <<"WindowOpened">>
    [] packet = "close" -> <<"WindowClosed">>

Pass(s, reports) ==
  /\ session' = s
  /\ inputs' = <<>>
  /\ asked' = asked \cup Requests
  /\ events' = events \o reports
  /\ UNCHANGED <<down, focused, window, gestures>>

\* A repeated death keeps what it finds: nothing is held by then.
PassWithPacket ==
  /\ packets < MaxPackets /\ packets' = packets + 1
  /\ \E packet \in {"health", "respawn", "open", "close"} :
     \E s \in {Drained(session, inputs)} : Pass(Handled(s, packet), Reported(s, packet))

\* A second tick before the next frame adds nothing the window could tell.
PassWithTick ==
  /\ ~IsSuffix(<<"PlayerTick">>, events)
  /\ Pass(Drained(session, inputs), <<"PlayerTick">>)
  /\ UNCHANGED packets

Session == PassWithPacket \/ PassWithTick

Next == Player \/ Frame \/ Session

Spec == Init /\ [][Next]_vars
-----------------------------------------------------------------------------
Inputs ==
  {FocusLost}
    \cup [kind : {"edge"}, button : Buttons, pressed : BOOLEAN, screen : {"none", "death"}]

Windows ==
  [grabbed : BOOLEAN, locked : BOOLEAN, slipped : BOOLEAN, chat : BOOLEAN, screen : Screens,
   gate : BOOLEAN, dead : BOOLEAN, out : Seq(Inputs)]

Sessions == [held : SUBSET Keys, left : BOOLEAN, dead : BOOLEAN]

Events == {"Died", "Respawned", "WindowOpened", "WindowClosed", "PlayerTick"}

\* The type of the state.
TypeOK ==
  /\ down \subseteq Buttons /\ focused \in BOOLEAN
  /\ window \in Windows /\ window.out = <<>>
  /\ session \in Sessions
  /\ inputs \in Seq(Inputs) /\ events \in Seq(Events)
  /\ asked \subseteq {"none", "death"}
  /\ gestures \in 0 .. MaxGestures /\ packets \in 0 .. MaxPackets

Settled == inputs = <<>>

\* A session that has drained its inputs holds no key the player has let go, and
\* none while the pointer is free, whatever screens, deaths and losses of focus
\* came in between, but for the keys that were held when an Escape opened the
\* pause menu.
KeysAreDown ==
  Settled /\ ~window.slipped
    => session.held \subseteq IF window.grabbed THEN down ELSE {}

\* A dead player's keys are not held, even the ones pressed before the window
\* learned of the death.
DeadHoldsNothing == session.dead => session.held = {} /\ ~session.left
-----------------------------------------------------------------------------
(* What the code says of itself and does not keep.                         *)

\* The pause menu stands with the pointer free and no key held (main.rs:3757:
\* "The pointer frees with the key-clearing send like any other window open").
PauseFreesThePointer ==
  window.screen = "pause" => ~window.locked /\ (Settled => session.held = {})

\* A session that has drained its inputs does not hold the attack button the
\* player has let go (session.rs:4013: "A focus loss releases every held key,
\* so a window that stops receiving leaves nothing held").
AttackIsDown == Settled /\ session.left => Attack \in down

\* A respawn is asked for on the death screen and nowhere else (session.rs:1576:
\* "While dead the window's input is the death view's").
RequestsAreAsked == asked \subseteq {"death"}

\* The death screen has the pointer free (main.rs:7069: "The open chat is the
\* second thing that frees the pointer — the screen open itself").
ScreensFreeThePointer == window.screen # "none" \/ window.chat => ~window.grabbed
=============================================================================
