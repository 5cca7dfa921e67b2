-------------------------- MODULE SessionLifecycle --------------------------
(***************************************************************************)
(* The window and the sessions it opens                                    *)
(* (crates/oxide-client/src/main.rs, crates/oxide-game/src/session.rs).    *)
(*                                                                         *)
(* Joining a server spawns a thread that connects, logs in, plays and, at  *)
(* its end, sends one last Disconnected; the window holds the receiver of  *)
(* its events, drains it once a frame and folds each event into its own    *)
(* copies: the screen, whether the player is dead or asleep, the meshes    *)
(* and the sign texts.  Dropping the receiver is how the player leaves.    *)
(*                                                                         *)
(* What a packet carries is left out but for what the window's copies tell *)
(* apart.  A world is named by its session and its number there.           *)
(***************************************************************************)
EXTENDS Integers, Sequences, SequencesExt

CONSTANTS MaxSessions, \* bound: servers joined
          MaxPackets,  \* bound: play packets handled in all, wakes apart
          SleepFull,   \* the sleep timer's cap (100 ticks)
          SleepGone    \* where the fade after the wake ends (110 ticks)

ASSUME BoundsAssumption ==
  /\ MaxSessions \in Nat \ {0} /\ MaxPackets \in Nat
  /\ SleepFull \in Nat \ {0} /\ SleepGone \in Nat /\ SleepFull < SleepGone

Sessions == 1 .. MaxSessions
NoSession == 0

VARIABLES
  link,    \* the session whose receiver the window holds
  window,  \* the window's own copies
  body,    \* the reason on the disconnect screen
  thread,  \* session -> where its thread stands
  verdict, \* session -> the reason its last Disconnected will carry
  player,  \* session -> the session's flags
  channel, \* session -> the events on their way
  told,    \* session -> the reason the server gave for ending it
  packets  \* the play packets so far (for the bound)

vars == <<link, window, body, thread, verdict, player, channel, told, packets>>
-----------------------------------------------------------------------------
NoReason   == "none"
FromServer == "the server's reason"
FromAuth   == "the sign-in's reason"
Generic    == "the session thread ended"

Event(kind, arg) == [kind |-> kind, arg |-> arg]
Plain(kind) == Event(kind, NoReason)

Worlds == Sessions \X Nat

\* The session's own flags, with the number of its worlds so far and the
\* worlds its sign map speaks of.
NewPlayer ==
  [world |-> 0, signs |-> {}, dead |-> FALSE, asleep |-> FALSE, terrain |-> FALSE]

Waking == [asleep |-> FALSE, timer |-> 0, cover |-> FALSE]

NewWindow ==
  [screen |-> "menu", dead |-> FALSE, sleep |-> Waking,
   meshes |-> {}, boards |-> {}, notice |-> NoReason]

Init ==
  /\ link = NoSession /\ body = NoReason
  /\ window = NewWindow
  /\ thread = [s \in Sessions |-> "none"]
  /\ verdict = [s \in Sessions |-> Generic]
  /\ player = [s \in Sessions |-> NewPlayer]
  /\ channel = [s \in Sessions |-> <<>>]
  /\ told = [s \in Sessions |-> NoReason]
  /\ packets = 0

\* report: an event nobody listens for is dropped, and the session goes on.
Report(s, events) ==
  channel' = IF link = s THEN [channel EXCEPT ![s] = @ \o events] ELSE channel

ThreadOnly == UNCHANGED <<link, window, body, packets>>
-----------------------------------------------------------------------------
(* The session's thread, up to the play loop.                              *)

Connect(s) ==
  /\ thread[s] = "connecting"
  /\ thread' = [thread EXCEPT ![s] = "login"]
  /\ ThreadOnly /\ UNCHANGED <<verdict, player, channel, told>>

\* The connection cannot be opened, or the login or play loop ends with an
\* error or the stream: the reason is the sign-in's only for a failed sign-in.
End(s, reason) ==
  /\ thread' = [thread EXCEPT ![s] = "ending"]
  /\ verdict' = [verdict EXCEPT ![s] = reason]
  /\ ThreadOnly

Fails(s) ==
  /\ thread[s] \in {"connecting", "login", "play"}
  /\ End(s, Generic)
  /\ UNCHANGED <<player, channel, told>>

SignInFails(s) ==
  /\ thread[s] = "login"
  /\ End(s, FromAuth)
  /\ UNCHANGED <<player, channel, told>>

\* The server's Disconnect, in the login or in the play phase.
ServerDisconnects(s) ==
  /\ thread[s] \in {"login", "play"}
  /\ End(s, Generic)
  /\ Report(s, <<Event("Disconnected", FromServer)>>)
  /\ told' = [told EXCEPT ![s] = FromServer]
  /\ UNCHANGED player

LoginSuccess(s) ==
  /\ thread[s] = "login"
  /\ thread' = [thread EXCEPT ![s] = "play"]
  /\ ThreadOnly /\ UNCHANGED <<verdict, player, channel, told>>

\* MUTANT of LastWord: only a failed sign-in has a last word.
LastWordOfSignIn(s) ==
  /\ thread[s] = "ending"
  /\ thread' = [thread EXCEPT ![s] = "over"]
  /\ Report(s, IF verdict[s] = FromAuth THEN <<Event("Disconnected", verdict[s])>> ELSE <<>>)
  /\ ThreadOnly /\ UNCHANGED <<verdict, player, told>>

\* The end of spawn_session's closure: whatever came before, one Disconnected.
LastWord(s) ==
  /\ thread[s] = "ending"
  /\ thread' = [thread EXCEPT ![s] = "over"]
  /\ Report(s, <<Event("Disconnected", verdict[s])>>)
  /\ ThreadOnly /\ UNCHANGED <<verdict, player, told>>
-----------------------------------------------------------------------------
(* The play loop's handlers, as far as the window's copies follow them.    *)

Plays(s) == thread[s] = "play" /\ UNCHANGED <<link, window, body, thread, verdict, told>>

Handles(s) == Plays(s) /\ packets < MaxPackets /\ packets' = packets + 1

\* The handler's changes to the session's flags.
Sets(s, flags) == player' = [player EXCEPT ![s] = flags]

World(s) == <<s, player[s].world>>

JoinGame(s) ==
  /\ Handles(s)
  /\ Sets(s, [player[s] EXCEPT !.world = @ + 1, !.terrain = TRUE])
  /\ Report(s, <<Plain("Joined")>>)

\* Update Health at or below zero, once.
Death(s) ==
  /\ Handles(s) /\ ~player[s].dead
  /\ Sets(s, [player[s] EXCEPT !.dead = TRUE])
  /\ Report(s, <<Plain("Died")>>)

Awake(flags) == [flags EXCEPT !.dead = FALSE, !.asleep = FALSE]

\* Respawn: the fresh player is alive and awake.
Respawn(s) ==
  /\ Handles(s)
  /\ Sets(s, Awake(player[s]))
  /\ Report(s, <<Plain("Respawned")>>)

\* Respawn into another dimension also starts a world over.
RespawnElsewhere(s) ==
  /\ Handles(s) /\ player[s].world > 0
  /\ Sets(s, [Awake(player[s]) EXCEPT !.world = @ + 1, !.signs = {}, !.terrain = TRUE])
  /\ Report(s, <<Event("SignsCleared", player[s].signs), Plain("WorldCleared"),
                 Plain("Respawned")>>)

\* Player Position And Look: the first one of a world lifts the terrain screen.
Teleport(s) ==
  /\ Handles(s)
  /\ Sets(s, [player[s] EXCEPT !.terrain = FALSE])
  /\ Report(s, IF player[s].terrain THEN <<Plain("TerrainReady")>> ELSE <<>>)

\* Use Bed for the entity Join Game named.
UseBed(s) ==
  /\ Handles(s) /\ player[s].world > 0 /\ ~player[s].asleep
  /\ Sets(s, [player[s] EXCEPT !.asleep = TRUE])
  /\ Report(s, <<Plain("Sleeping")>>)

\* The wake animation, for a player known to sleep.  It is not counted: a bed
\* that was comes before it.
Wake(s) ==
  /\ Plays(s) /\ player[s].asleep
  /\ UNCHANGED packets
  /\ Sets(s, [player[s] EXCEPT !.asleep = FALSE])
  /\ Report(s, <<Plain("Woke")>>)

\* A column arrives and its mesh is reported (see MeshPipeline).
Column(s) ==
  /\ Handles(s) /\ player[s].world > 0
  /\ Sets(s, player[s])
  /\ Report(s, <<Event("ChunkUpdated", World(s))>>)

UpdateSign(s) ==
  /\ Handles(s)
  /\ Sets(s, [player[s] EXCEPT !.signs = @ \cup {World(s)}])
  /\ Report(s, <<Event("SignTextChanged", World(s))>>)

\* Open Window, Sign Editor Open and the book, and Close Window.
ServerScreen(s) ==
  /\ Handles(s)
  /\ Sets(s, player[s])
  /\ \/ Report(s, <<Plain("WindowOpened")>>)
     \/ Report(s, <<Plain("WindowClosed")>>)

\* One client tick.  A second tick before the next frame adds nothing the
\* copies could tell apart, so at most one stands at the end of the channel.
Tick(s) ==
  /\ thread[s] = "play" /\ link = s
  /\ ~IsSuffix(<<Plain("PlayerTick")>>, channel[s])
  /\ Report(s, <<Plain("PlayerTick")>>)
  /\ ThreadOnly /\ UNCHANGED <<thread, verdict, player, told>>
-----------------------------------------------------------------------------
(* The window.                                                             *)

\* sleep_tick.
SleepTick(asleep, timer) ==
  CASE asleep -> IF timer < SleepFull THEN timer + 1 ELSE SleepFull
    [] ~asleep /\ timer = 0 -> 0
    [] OTHER -> IF timer + 1 >= SleepGone THEN 0 ELSE timer + 1

\* The sleep's part of one PlayerTick: the fade after a wake runs out and drops
\* the cover.
Slept(sleep) ==
  LET timer == SleepTick(sleep.asleep, sleep.timer)
  IN  [sleep EXCEPT !.timer = timer,
                    !.cover = @ /\ (sleep.asleep \/ timer # 0 \/ sleep.timer = 0)]

\* MUTANT of OnTick: the death screen is not raised again.
OnTickForgetsDeath(w) == [w EXCEPT !.sleep = Slept(@)]

\* The fold of one PlayerTick: the death screen stands while the player is
\* dead, and the sleep goes on.
OnTick(w) ==
  [w EXCEPT !.screen = IF w.dead THEN "death" ELSE @, !.sleep = Slept(@)]

\* A screen closes if it is the one that stands.
After(screen, left) == IF screen = left THEN "game" ELSE screen

\* draw's drain, apply_screen_event and apply_session_event for one event.
Fold(w, event) ==
  CASE event.kind = "Joined"       -> [w EXCEPT !.screen = "terrain"]
    [] event.kind = "WorldCleared" -> [w EXCEPT !.screen = "terrain", !.meshes = {}]
    [] event.kind = "TerrainReady" -> [w EXCEPT !.screen = After(@, "terrain")]
    [] event.kind = "Died"         -> [w EXCEPT !.screen = "death", !.dead = TRUE]
    [] event.kind = "Respawned"    -> [w EXCEPT !.screen = After(@, "death"), !.dead = FALSE]
    [] event.kind = "Sleeping"     -> [w EXCEPT !.sleep = [asleep |-> TRUE, timer |-> 0, cover |-> TRUE]]
    [] event.kind = "Woke"         -> [w EXCEPT !.sleep.asleep = FALSE]
    [] event.kind = "ChunkUpdated" -> [w EXCEPT !.meshes = @ \cup {event.arg}]
    [] event.kind = "SignTextChanged" -> [w EXCEPT !.boards = @ \cup {event.arg}]
    [] event.kind = "SignsCleared" -> [w EXCEPT !.boards = @ \ event.arg]
    [] event.kind = "WindowOpened" -> [w EXCEPT !.screen = "window"]
    [] event.kind = "WindowClosed" -> [w EXCEPT !.screen = After(@, "window")]
    [] event.kind = "PlayerTick"   -> OnTick(w)
    [] event.kind = "Disconnected" -> [w EXCEPT !.notice = event.arg]

\* The fold of all of them, in their order.
Folded(w, events) ==
  LET after[n \in 0 .. Len(events)] == IF n = 0 THEN w ELSE Fold(after[n - 1], events[n])
  IN  after[Len(events)]

\* MUTANT of Ended: the screen that stood stays.
EndedKeepsScreen(w) ==
  [w EXCEPT !.notice = NoReason, !.dead = FALSE, !.sleep = Waking]

\* The end of a session some event spoke of: the run's flags die with it.
Ended(w) ==
  [w EXCEPT !.screen = "disconnected", !.notice = NoReason, !.dead = FALSE,
            !.sleep = Waking]

\* One frame: the channel is drained to its end and folded, then an end is
\* acted on.
Frame ==
  /\ link # NoSession /\ channel[link] # <<>>
  /\ \E w \in {Folded(window, channel[link])} :
         IF w.notice # NoReason
         THEN /\ window' = Ended(w) /\ body' = w.notice
              /\ link' = NoSession
         ELSE window' = w /\ UNCHANGED <<body, link>>
  /\ channel' = [channel EXCEPT ![link] = <<>>]
  /\ UNCHANGED <<thread, verdict, player, told, packets>>

WindowOnly == UNCHANGED <<thread, verdict, player, channel, told, packets>>

Shows(screen) == window' = [window EXCEPT !.screen = screen]

\* The menu's and the disconnect screen's way to the server list, and back.
ServerList ==
  /\ window.screen \in {"menu", "disconnected"} /\ link = NoSession
  /\ Shows("servers")
  /\ WindowOnly /\ UNCHANGED <<link, body>>

LeaveServerList ==
  /\ window.screen = "servers"
  /\ Shows("menu")
  /\ WindowOnly /\ UNCHANGED <<link, body>>

\* join_game: the next thread is spawned and linked, the screen closes.
JoinServer(s) ==
  /\ window.screen = "servers"
  /\ thread[s] = "none" /\ \A t \in 1 .. s - 1 : thread[t] # "none"
  /\ thread' = [thread EXCEPT ![s] = "connecting"]
  /\ link' = s
  /\ Shows("game")
  /\ UNCHANGED <<body, verdict, player, channel, told, packets>>

\* Escape in the game stands the pause menu, in the pause menu or a window it
\* closes it; under the sleep cover it only asks to leave the bed.
Escape ==
  /\ link # NoSession /\ ~window.sleep.cover
  /\ \/ window.screen = "game" /\ Shows("pause")
     \/ window.screen \in {"pause", "window"} /\ Shows("game")
  /\ WindowOnly /\ UNCHANGED <<link, body>>

\* MUTANT of Quit: the death flag survives.
QuitKeepsDead ==
  /\ link # NoSession /\ window.screen \in {"pause", "death"}
  /\ window' = [window EXCEPT !.screen = "menu"]
  /\ link' = NoSession
  /\ channel' = [channel EXCEPT ![link] = <<>>]
  /\ UNCHANGED <<body, thread, verdict, player, told, packets>>

\* end_session_to_title, from the pause menu's Disconnect or the death
\* screen's title button: the link is dropped, and with it its receiver.
Quit ==
  /\ link # NoSession /\ window.screen \in {"pause", "death"}
  /\ window' = [window EXCEPT !.screen = "menu", !.dead = FALSE]
  /\ link' = NoSession
  /\ channel' = [channel EXCEPT ![link] = <<>>]
  /\ UNCHANGED <<body, thread, verdict, player, told, packets>>
-----------------------------------------------------------------------------
Handler(s) ==
  \/ JoinGame(s) \/ Death(s) \/ Respawn(s) \/ RespawnElsewhere(s) \/ Teleport(s)
  \/ UseBed(s) \/ Wake(s) \/ Column(s) \/ UpdateSign(s) \/ ServerScreen(s)

Ending(s) == Fails(s) \/ SignInFails(s) \/ ServerDisconnects(s)

User == ServerList \/ LeaveServerList \/ (\E s \in Sessions : JoinServer(s)) \/ Escape \/ Quit

Next ==
  \/ \E s \in Sessions : \/ Connect(s) \/ LoginSuccess(s) \/ Handler(s) \/ Tick(s)
                         \/ Ending(s) \/ LastWord(s)
  \/ Frame \/ User

(***************************************************************************)
(* Frames are drawn, ticks come due and a thread that left its loop runs   *)
(* to its end.  Nothing is promised of the server or of the player.        *)
(***************************************************************************)
Spec == Init /\ [][Next]_vars
          /\ WF_vars(Frame)
          /\ \A s \in Sessions : WF_vars(Tick(s)) /\ WF_vars(LastWord(s))
-----------------------------------------------------------------------------
Screens == {"menu", "servers", "game", "pause", "window", "terrain", "death", "disconnected"}

Reasons == {NoReason, FromServer, FromAuth, Generic}

\* The worlds so far, and what may speak of them.
Known == UNION {{<<s, n>> : n \in 0 .. player[s].world} : s \in Sessions}

Events(known) ==
  [kind : {"Joined", "WorldCleared", "TerrainReady", "Died", "Respawned", "Sleeping", "Woke",
           "WindowOpened", "WindowClosed", "PlayerTick"}, arg : {NoReason}]
  \cup [kind : {"ChunkUpdated", "SignTextChanged"}, arg : known]
  \cup [kind : {"SignsCleared"}, arg : SUBSET known]
  \cup [kind : {"Disconnected"}, arg : Reasons]

Sleeps == [asleep : BOOLEAN, timer : 0 .. SleepGone - 1, cover : BOOLEAN]

Windows(known) ==
  [screen : Screens, dead : BOOLEAN, sleep : Sleeps, meshes : SUBSET known,
   boards : SUBSET known, notice : Reasons]

Players(known) ==
  [world : 0 .. MaxPackets, signs : SUBSET known, dead : BOOLEAN, asleep : BOOLEAN,
   terrain : BOOLEAN]

\* The type of the state, the bounds included.
TypeOK ==
  /\ link \in Sessions \cup {NoSession}
  /\ window \in Windows(Known) /\ window.notice = NoReason
  /\ body \in Reasons
  /\ thread \in [Sessions -> {"none", "connecting", "login", "play", "ending", "over"}]
  /\ verdict \in [Sessions -> Reasons \ {NoReason}] /\ told \in [Sessions -> Reasons]
  /\ player \in [Sessions -> Players(Known)]
  /\ channel \in [Sessions -> Seq(Events(Known))]
  /\ \A s \in Sessions : link # s => channel[s] = <<>>
  /\ packets \in 0 .. MaxPackets /\ \A s \in Sessions : player[s].world <= packets

Playing == link # NoSession /\ thread[link] = "play"

\* The window has folded all there is of the session it shows.
Drained == Playing /\ channel[link] = <<>>

\* A window with nothing left to fold agrees with its session on whether the
\* player is dead, and stands on the terrain screen only while the session waits
\* for the position that lifts it, whichever sessions and deaths came before.
CopiesAgree ==
  Drained => /\ window.dead = player[link].dead
             /\ window.screen = "terrain" => player[link].terrain

\* With no session the window stands on a screen of its own, and with one it
\* never shows the menu: no late event of a session that was left reaches it.
ScreensMatchLink ==
  link = NoSession <=> window.screen \in {"menu", "servers", "disconnected"}

\* A death in a session the window keeps is shown: whatever screen the server
\* puts over it, the death screen stands again until the respawn.
DeathIsShown ==
  Playing /\ player[link].dead ~> window.screen = "death" \/ ~Playing \/ ~player[link].dead

\* A session that is over does not leave its window waiting.
LinkIsOver == link # NoSession /\ thread[link] = "over"
EndIsShown == LinkIsOver ~> ~LinkIsOver
-----------------------------------------------------------------------------
(* What the code says of itself and does not keep.                         *)

\* The reason the server gave is the one the disconnect screen stands on.
\* (main.rs:2218: "The wire's disconnect stashes its reason: the session's
\* end below stands the disconnect screen on it.")
ServerReasonShown ==
  [][\A s \in Sessions : link = s /\ link' = NoSession /\ window'.screen = "disconnected"
        /\ told[s] # NoReason => body' = told[s]]_vars

\* A window with nothing left to fold agrees with its session on whether the
\* player sleeps (player.rs:399: "A fresh player is awake: the respawn
\* recreates the entity, so no bed holds it").
SleepAgrees == Drained => window.sleep.asleep = player[link].asleep

\* The sleep cover of a player who woke drops (main.rs:2213: "The wake starts
\* the 100->110 fade: the cover drops when the timer runs out on the tick
\* below").
CoverDrops ==
  window.sleep.cover /\ ~window.sleep.asleep
    ~> ~window.sleep.cover \/ window.sleep.asleep \/ link = NoSession

\* A session the player left comes to its end (pause.rs:117: "Disconnect: the
\* standing disconnect teardown runs").
LeftSessionsEnd ==
  \A s \in Sessions : thread[s] # "none" /\ link # s ~> thread[s] = "over"

\* What the window holds of the world is of the session it shows
\* (screens/mod.rs:432: "the drop tears the world down first").
MeshesOfThisSession ==
  Drained => \A x \in window.meshes : x[1] = link

\* A sign text the window holds is one the session holds too
\* (session.rs:2110: "every mapped entry clears, so the view drops a text no
\* board stands behind anymore").
BoardsOfThisSession ==
  Drained => window.boards \subseteq player[link].signs
=============================================================================
