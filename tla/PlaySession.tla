---------------------------- MODULE PlaySession ----------------------------
(***************************************************************************)
(* The player at the two ends of a session                                 *)
(* (crates/oxide-game/src/session.rs, player.rs, input.rs).                *)
(*                                                                         *)
(* The session steps its player twenty times a second and tells the server *)
(* only what changed: an edge of the sneak or the sprint flag against what *)
(* it last told, a position that left the last reported one, a flight it   *)
(* toggled, a slot it selected.  The server tells it of deaths, respawns,  *)
(* corrections, abilities and slots.  Each end holds a copy of what the    *)
(* other decides, and what either says is read some steps later.           *)
(*                                                                         *)
(* An input is its drain by the session's pass.  Positions are numbers;    *)
(* what moves a player is left to the world, which may move it anywhere.   *)
(* The twentieth tick without a report of the position is any tick.        *)
(***************************************************************************)
EXTENDS Integers, Sequences, SequencesExt

CONSTANTS Scenarios,   \* what player, world and server may do, by behaviour
          Positions,   \* where a player may be
          Epsilon,     \* how far it moves unreported (POSITION_EPSILON)
          Spawn,       \* where the server places it
          SprintWindow,\* the ticks of the sprint's double tap (7)
          FlyWindow,   \* the ticks of the flight's double tap (7)
          MaxInputs,   \* bound: inputs and moves of the player
          MaxDecisions, \* bound: packets the server decides on
          MaxInFlight  \* bound: packets on their way to the server

ASSUME PlayAssumption ==
  /\ Positions \subseteq Nat /\ Spawn \in Positions
  /\ {Epsilon, SprintWindow, FlyWindow} \subseteq Nat
  /\ {MaxInputs, MaxDecisions, MaxInFlight} \subseteq Nat
  /\ \A s \in Scenarios :
       s.moves \subseteq Positions /\ s.grounds \subseteq BOOLEAN /\ s.collides \subseteq BOOLEAN

VARIABLES
  scenario, \* what this behaviour may hold
  client,   \* the session's player
  server,   \* the server's
  toServer, \* packets on their way to the server
  toClient, \* packets on their way to the session
  crossed,  \* what the two decided on at the same time (history)
  spent     \* the inputs and the packets so far (for the bounds)

playVars == <<scenario, client, server, toServer, toClient, crossed, spent>>
-----------------------------------------------------------------------------
Flags == {"sneak", "sprint"}
Unset == [f \in Flags |-> FALSE]

\* The sprint's and the flight's double-tap state.
NoTap == [timer |-> 0, sneak |-> FALSE, forward |-> FALSE]
NoToggle == [timer |-> 0, jump |-> FALSE]

Placed(p) == [kind |-> "position", at |-> p, relative |-> FALSE]
Moved(p)  == [kind |-> "move", at |-> p, echo |-> FALSE]
Echoed(p) == [kind |-> "move", at |-> p, echo |-> TRUE]
Edge(f, on) == [kind |-> "edge", flag |-> f, on |-> on, life |-> client.life]
Fly(on) == [kind |-> "fly", on |-> on]

On(channel, kind) == \E i \in DOMAIN channel : channel[i].kind = kind

\* A decision on a copy crosses one of the other end that is on its way.
Decided(copy, crosses) ==
  crossed' = IF crosses THEN crossed \cup {copy} ELSE crossed \ {copy}

\* The server names the player and places it (Join Game, then 0x08).
PlayInit ==
  /\ scenario \in Scenarios
  /\ client = [joined |-> FALSE, dead |-> FALSE, awaiting |-> FALSE, life |-> 0,
               keys |-> {}, flags |-> Unset, told |-> Unset, tap |-> NoTap,
               at |-> Spawn, reported |-> Spawn, ground |-> FALSE,
               allowed |-> FALSE, flying |-> FALSE, toggle |-> NoToggle, slot |-> 0]
  /\ server = [alive |-> TRUE, life |-> 0, flags |-> Unset, at |-> Spawn,
               pending |-> {Spawn}, allowed |-> FALSE, flying |-> FALSE, slot |-> 0]
  /\ toServer = <<>>
  /\ toClient = <<[kind |-> "join"], Placed(Spawn)>>
  /\ crossed = {}
  /\ spent = [inputs |-> 0, packets |-> 0]
-----------------------------------------------------------------------------
(* The session: inputs.                                                    *)

Input == spent.inputs < MaxInputs /\ spent' = [spent EXCEPT !.inputs = @ + 1]

Send(packets) == toServer' = toServer \o packets

\* A key goes down or up; the dead have none.
Press(k) ==
  /\ Input
  /\ client' = IF client.dead THEN client
               ELSE [client EXCEPT !.keys = IF k \in @ THEN @ \ {k} ELSE @ \cup {k}]
  /\ UNCHANGED <<scenario, server, toServer, toClient, crossed>>

\* The window loses the focus.
FocusLost ==
  /\ Input /\ client.keys # {}
  /\ client' = [client EXCEPT !.keys = {}]
  /\ UNCHANGED <<scenario, server, toServer, toClient, crossed>>

\* A click or a jump on the death screen asks for the respawn, once a press.
AskRespawn ==
  /\ Input /\ client.dead
  /\ Send(<<[kind |-> "respawn"]>>)
  /\ UNCHANGED <<scenario, client, server, toClient, crossed>>

\* The player selects a hotbar slot.
Select(s) ==
  /\ Input /\ ~client.dead
  /\ client' = [client EXCEPT !.slot = s]
  /\ Send(<<[kind |-> "slot", slot |-> s]>>)
  /\ Decided("slot", On(toClient, "slot"))
  /\ UNCHANGED <<scenario, server, toClient>>
-----------------------------------------------------------------------------
(* The session: ticks.                                                     *)

\* The sprint rule of one tick: the double tap or the key starts it, and it
\* ends where the forward input falls below the threshold (held sneak scales
\* it below) or the move before collided.
Sprint(p, keys, collided) ==
  LET forward == "forward" \in keys /\ "sneak" \notin keys
      timer == IF p.tap.timer > 0 THEN p.tap.timer - 1 ELSE 0
      tapped == /\ p.ground /\ ~p.tap.sneak /\ ~p.tap.forward
                /\ forward /\ ~p.flags["sprint"]
      opens == tapped /\ timer = 0 /\ "sprint" \notin keys
      starts == (tapped /\ ~opens) \/ (forward /\ "sprint" \in keys)
  IN  [on |-> (p.flags["sprint"] \/ starts) /\ forward /\ ~collided,
       tap |-> [timer |-> IF opens THEN SprintWindow ELSE timer,
                sneak |-> "sneak" \in keys, forward |-> forward]]

\* The double tap of the jump, where flight is allowed.
Flight(p, keys) ==
  LET fresh == "jump" \in keys /\ ~p.toggle.jump /\ p.allowed
      flips == fresh /\ p.toggle.timer > 0
      timer == IF flips THEN 0 ELSE IF fresh THEN FlyWindow ELSE p.toggle.timer
  IN  [flips |-> flips,
       toggle |-> [timer |-> IF timer > 0 THEN timer - 1 ELSE 0,
                   jump |-> "jump" \in keys]]

Near(p, q) == p - q <= Epsilon /\ q - p <= Epsilon

\* MUTANT of WalkingReport: the reported pose follows every tick.
ReportFollowsTick(p, at, stale) ==
  [packets |-> IF Near(at, p.reported) /\ ~stale THEN <<>> ELSE <<Moved(at)>>,
   reported |-> at]

\* The pose is reported when it left the last one reported, or is stale, and
\* only what is reported is remembered.
WalkingReport(p, at, stale) ==
  LET moved == ~Near(at, p.reported) \/ stale
  IN  [packets |-> IF moved THEN <<Moved(at)>> ELSE <<>>,
       reported |-> IF moved THEN at ELSE p.reported]

\* The packets that tell the server of the flags, in the order of the tick.
Edges(flags, told) ==
  LET Of(f) == IF flags[f] # told[f] THEN <<Edge(f, flags[f])>> ELSE <<>>
  IN  Of("sprint") \o Of("sneak")

\* One tick: the flags, the flight toggle, the move, the landing, then what
\* the server is told, held back until a respawned player is placed.
StepTick(p, ground, collided, stale) ==
  LET keys    == IF client.dead THEN {} ELSE client.keys
      sprint  == Sprint(client, keys, collided)
      flags   == [sneak |-> "sneak" \in keys, sprint |-> sprint.on]
      flight  == Flight(client, keys)
      aloft   == IF flight.flips THEN ~client.flying ELSE client.flying
      lands   == ground /\ aloft
      reports == client.joined /\ ~client.awaiting
      walk    == WalkingReport(client, p, stale)
  IN  /\ Len(toServer) < MaxInFlight
      /\ client.joined \/ (p = client.at /\ ground = client.ground)
      /\ p # client.at => Input
      /\ p = client.at => UNCHANGED spent
      /\ client' = [client EXCEPT
            !.flags = flags, !.told = IF reports THEN flags ELSE @,
            !.tap = sprint.tap, !.toggle = flight.toggle,
            !.flying = aloft /\ ~lands, !.at = p, !.ground = ground,
            !.reported = IF reports THEN walk.reported ELSE @]
      /\ Send((IF flight.flips THEN <<Fly(aloft)>> ELSE <<>>)
              \o (IF lands THEN <<Fly(FALSE)>> ELSE <<>>)
              \o (IF reports THEN Edges(flags, client.told) ELSE <<>>)
              \o (IF reports THEN walk.packets ELSE <<>>))
      /\ IF flight.flips \/ lands
         THEN Decided("flying", On(toClient, "abilities")) ELSE UNCHANGED crossed
      /\ UNCHANGED <<scenario, server, toClient>>
-----------------------------------------------------------------------------
(* The session: packets.                                                   *)

Died(p) ==
  IF p.dead THEN p
  ELSE [p EXCEPT !.dead = TRUE, !.keys = {}, !.flags = Unset, !.told = Unset]

\* MUTANT of ResetForRespawn: the mirrors are kept.
RespawnKeepsMirrors(p) ==
  [p EXCEPT !.dead = FALSE, !.flags = Unset, !.tap = NoTap,
            !.toggle = NoToggle, !.ground = FALSE]

ResetForRespawn(p) ==
  [p EXCEPT !.dead = FALSE, !.flags = Unset, !.told = Unset, !.tap = NoTap,
            !.toggle = NoToggle, !.ground = FALSE]

Respawned(p) == [ResetForRespawn(p) EXCEPT !.awaiting = TRUE, !.life = @ + 1]

\* MUTANT of Corrected: the reports stay held back.
CorrectionKeepsWaiting(p, packet) ==
  LET at == IF packet.relative THEN p.at + packet.at ELSE packet.at
  IN  [p EXCEPT !.at = at, !.reported = at]

\* A correction, taken from where the player stands when it is relative, is
\* answered with the pose it settles on, and the reports start from there.
Corrected(p, packet) ==
  LET at == IF packet.relative THEN p.at + packet.at ELSE packet.at
  IN  [p EXCEPT !.awaiting = FALSE, !.at = at, !.reported = at]

\* MUTANT of ApplyAbilities: a flight is only ever started by the packet.
AbilitiesOnlyLift(p, packet) ==
  [p EXCEPT !.flying = @ \/ packet.flying, !.allowed = packet.allowed]

\* The server's value of the flight is taken in either direction.
ApplyAbilities(p, packet) ==
  [p EXCEPT !.flying = packet.flying, !.allowed = packet.allowed]

\* MUTANT of Answer: only a correction that moves the player is answered.
AnswerMovesOnly(packet, p) ==
  IF packet.kind = "position" /\ p.at # client.at THEN <<Echoed(p.at)>> ELSE <<>>

Answer(packet, p) == IF packet.kind = "position" THEN <<Echoed(p.at)>> ELSE <<>>

Read ==
  /\ toClient # <<>>
  /\ toClient' = Tail(toClient)
  /\ LET packet == Head(toClient)
     IN  /\ client' = CASE packet.kind = "join" -> [client EXCEPT !.joined = TRUE]
                        [] packet.kind = "health" -> Died(client)
                        [] packet.kind = "respawn" -> Respawned(client)
                        [] packet.kind = "position" -> Corrected(client, packet)
                        [] packet.kind = "abilities" -> ApplyAbilities(client, packet)
                        [] packet.kind = "slot" -> [client EXCEPT !.slot = packet.slot]
         /\ Send(Answer(packet, client'))
  /\ UNCHANGED <<scenario, server, crossed, spent>>
-----------------------------------------------------------------------------
(* The server (external).                                                  *)

Decide(kind) ==
  /\ kind \in scenario.packets /\ spent.packets < MaxDecisions
  /\ spent' = [spent EXCEPT !.packets = @ + 1]

Tell(packets) == toClient' = toClient \o packets

\* A new player in the place of the old one, which the server then places.
NewLife ==
  /\ server' = [server EXCEPT !.alive = TRUE, !.life = @ + 1, !.flags = Unset,
                              !.at = Spawn, !.pending = {Spawn}]
  /\ Tell(<<[kind |-> "respawn"], Placed(Spawn)>>)
  /\ crossed' = crossed \ {"flags"}

Kill ==
  /\ Decide("health") /\ server.alive
  /\ server' = [server EXCEPT !.alive = FALSE]
  /\ Tell(<<[kind |-> "health"]>>)
  /\ UNCHANGED <<scenario, client, toServer, crossed>>

\* The player changes worlds alive.
Travel ==
  /\ Decide("respawn") /\ server.alive
  /\ NewLife
  /\ UNCHANGED <<scenario, client, toServer>>

\* A second Join Game: the server has a new player for the session.
Rejoin ==
  /\ Decide("join") /\ server.alive
  /\ server' = [server EXCEPT !.flags = Unset, !.at = Spawn, !.pending = {Spawn}]
  /\ Tell(<<[kind |-> "join"], Placed(Spawn)>>)
  /\ crossed' = crossed \cup {"join"}
  /\ UNCHANGED <<scenario, client, toServer>>

\* A correction, absolute or relative to where the server has the player.
Reposition(p, relative) ==
  /\ Decide("position")
  /\ server' = [server EXCEPT !.pending = {p}, !.at = p]
  /\ Tell(<<[kind |-> "position", relative |-> relative,
             at |-> IF relative THEN p - server.at ELSE p]>>)
  /\ UNCHANGED <<scenario, client, toServer, crossed>>

\* A correction that was not confirmed is sent again.
Resend ==
  /\ server.pending # {}
  /\ ~On(toClient, "position")
  /\ ~\E i \in DOMAIN toServer : toServer[i].kind = "move" /\ toServer[i].echo
  /\ \E p \in server.pending : Tell(<<Placed(p)>>)
  /\ UNCHANGED <<scenario, client, server, toServer, crossed, spent>>

\* The server's own word on the abilities or on the slot.
SetAbilities(allowed, flying) ==
  /\ Decide("abilities")
  /\ server' = [server EXCEPT !.allowed = allowed, !.flying = flying]
  /\ Tell(<<[kind |-> "abilities", allowed |-> allowed, flying |-> flying]>>)
  /\ Decided("flying", On(toServer, "fly"))
  /\ UNCHANGED <<scenario, client, toServer>>

SetSlot(s) ==
  /\ Decide("slot")
  /\ server' = [server EXCEPT !.slot = s]
  /\ Tell(<<[kind |-> "slot", slot |-> s]>>)
  /\ Decided("slot", On(toServer, "slot"))
  /\ UNCHANGED <<scenario, client, toServer>>

\* Until a correction is confirmed, no other pose is taken.
Moves(p) ==
  IF server.pending \subseteq {p}
  THEN [server EXCEPT !.at = p, !.pending = {}] ELSE server

ServerReads ==
  /\ toServer # <<>>
  /\ toServer' = Tail(toServer)
  /\ LET packet == Head(toServer)
     IN  IF packet.kind = "respawn" /\ ~server.alive
         THEN NewLife
         ELSE /\ server' = CASE packet.kind = "edge" ->
                                  [server EXCEPT !.flags[packet.flag] = packet.on]
                             [] packet.kind = "move" -> Moves(packet.at)
                             [] packet.kind = "fly" ->
                                  [server EXCEPT !.flying = packet.on /\ server.allowed]
                             [] packet.kind = "slot" -> [server EXCEPT !.slot = packet.slot]
                             [] OTHER -> server
              /\ crossed' = IF packet.kind = "edge" /\ packet.life # server.life
                            THEN crossed \cup {"flags"} ELSE crossed
              /\ UNCHANGED toClient
  /\ UNCHANGED <<scenario, client, spent>>
-----------------------------------------------------------------------------
SessionTicks ==
  \E p \in scenario.moves \cup {client.at}, ground \in scenario.grounds,
     collided \in scenario.collides, stale \in BOOLEAN :
    StepTick(p, ground, collided, stale)

PlayerActs ==
  \/ \E k \in scenario.keys : Press(k)
  \/ FocusLost
  \/ AskRespawn
  \/ \E s \in scenario.slots : Select(s)

ServerDecides ==
  \/ Kill \/ Travel \/ Rejoin
  \/ \E p \in scenario.moves, relative \in BOOLEAN : Reposition(p, relative)
  \/ \E allowed, flying \in BOOLEAN : (flying => allowed) /\ SetAbilities(allowed, flying)
  \/ \E s \in scenario.slots : SetSlot(s)

PlayNext ==
  \/ SessionTicks \/ Read \/ PlayerActs
  \/ ServerDecides \/ Resend \/ ServerReads

\* The session ticks and reads; the server reads and repeats a correction.
PlaySpec ==
  /\ PlayInit /\ [][PlayNext]_playVars
  /\ WF_playVars(SessionTicks) /\ WF_playVars(Read)
  /\ WF_playVars(ServerReads) /\ WF_playVars(Resend)
-----------------------------------------------------------------------------
(* Properties.                                                             *)

Keys  == UNION {s.keys : s \in Scenarios}
Slots == {0} \cup UNION {s.slots : s \in Scenarios}

ClientStates ==
  [joined : BOOLEAN, dead : BOOLEAN, awaiting : BOOLEAN, life : Nat,
   keys : SUBSET Keys, flags : [Flags -> BOOLEAN], told : [Flags -> BOOLEAN],
   tap : [timer : 0 .. SprintWindow, sneak : BOOLEAN, forward : BOOLEAN],
   at : Int, reported : Int, ground : BOOLEAN, allowed : BOOLEAN, flying : BOOLEAN,
   toggle : [timer : 0 .. FlyWindow, jump : BOOLEAN], slot : Slots]

ServerStates ==
  [alive : BOOLEAN, life : Nat, flags : [Flags -> BOOLEAN], at : Int,
   pending : SUBSET Positions, allowed : BOOLEAN, flying : BOOLEAN, slot : Slots]

ServerPackets ==
  [kind : {"respawn"}] \cup [kind : {"slot"}, slot : Slots]
    \cup [kind : {"edge"}, flag : Flags, on : BOOLEAN, life : Nat]
    \cup [kind : {"fly"}, on : BOOLEAN] \cup [kind : {"move"}, at : Int, echo : BOOLEAN]

ClientPackets ==
  [kind : {"join", "health", "respawn"}] \cup [kind : {"slot"}, slot : Slots]
    \cup [kind : {"position"}, at : Int, relative : BOOLEAN]
    \cup [kind : {"abilities"}, allowed : BOOLEAN, flying : BOOLEAN]

\* Each copy holds what it may hold.
PlayTypeOK ==
  /\ scenario \in Scenarios
  /\ client \in ClientStates /\ server \in ServerStates
  /\ toServer \in Seq(ServerPackets) /\ toClient \in Seq(ClientPackets)
  /\ crossed \subseteq {"flags", "flying", "slot", "join"}

\* What the server has of a flag once it has read what is on its way.
Heard(f) ==
  LET edges == {i \in DOMAIN toServer : toServer[i].kind = "edge" /\ toServer[i].flag = f}
  IN  IF edges = {} THEN server.flags[f] ELSE toServer[Max(edges)].on

\* The mirrors are true: what the session takes the server to know of a live
\* player's sneak and sprint is what the server has once it has read
\* everything sent, through deaths and respawns.  Left out are a respawn
\* the session has yet to read and an edge that a later life of the player
\* on the server was given.
FlagsTold ==
  /\ client.joined /\ ~client.dead /\ "flags" \notin crossed
  /\ ~On(toClient, "respawn") /\ ~On(toClient, "join")
  /\ \A i \in DOMAIN toServer : toServer[i].kind = "edge" => toServer[i].life = client.life
  => \A f \in Flags : Heard(f) = client.told[f]

\* The mirrors survive a second Join Game, which replaces the player on the
\* server: FlagsTold holds of the sessions that were joined once.
FlagsAgree == "join" \notin crossed => FlagsTold

Quiet == toServer = <<>> /\ toClient = <<>>

\* Once all is read and no correction is open, the server has the player
\* where the session shows it, but for what a tick leaves unreported.
PoseAgrees ==
  Quiet /\ server.pending = {} => Near(server.at, client.at)

\* Flight and the selected slot, which both ends decide on, are the same at
\* both once all is read, unless two decisions crossed.
DecisionsAgree ==
  Quiet => \A copy \in {"flying", "slot"} \ crossed : server[copy] = client[copy]

\* The same without the exception: the last word of either end stands.
LastWordStands ==
  Quiet => \A copy \in {"flying", "slot"} : server[copy] = client[copy]

\* A key held from some time on by a living player is told to the server in
\* the end, however often the player dies or changes worlds before.
KeyIsTold ==
  <>[]("sneak" \in client.keys /\ ~client.dead /\ "join" \notin crossed)
    => <>[]server.flags["sneak"]

\* A key let go for good is let go at the server too.
ReleaseIsTold ==
  <>[](client.joined /\ "sneak" \notin client.keys /\ ~client.dead)
    => <>[](~server.flags["sneak"])

\* A correction is confirmed in the end, a relative one too, whatever the
\* player moved meanwhile.
CorrectionSettles == server.pending # {} ~> server.pending = {}
=============================================================================
