-------------------------------- MODULE Dig --------------------------------
(***************************************************************************)
(* Digging and placing ahead of the server                                 *)
(* (crates/oxide-game/src/interaction.rs, session.rs).                     *)
(*                                                                         *)
(* The player looks along a line of cells.  The left button digs what it   *)
(* meets first, the right one places a block before it, and the session    *)
(* changes its own cells at once, before the server has answered: a block  *)
(* change that agrees, or one that puts the cell back.  The server is told *)
(* where a dig starts, stops and finishes; the window is told the crack.   *)
(*                                                                         *)
(* Hardness is the number of ticks a dig of a stone takes; faces, swings,  *)
(* particles and sounds, presses that meet an entity or nothing and the    *)
(* cracks of other players are left out.                                   *)
(***************************************************************************)
EXTENDS Integers, Sequences, SequencesExt, FiniteSetsExt

CONSTANTS Length,      \* the cells of the line, from the eye
          Reach,       \* mode -> how far along it the hand reaches
          Worlds,      \* the lines a behaviour may start with
          Hardness,    \* the ticks a stone takes
          HitDelay,    \* the ticks without progress behind a break (5)
          MaxInputs,   \* bound: inputs of the player
          MaxPackets,  \* bound: packets the server decides on
          MaxInFlight  \* bound: packets on their way, after which an end waits

Cells == 1 .. Length
Kinds == {"air", "plant", "stone", "bedrock"}
Modes == {"survival", "creative"}

ASSUME DigAssumption ==
  /\ Reach \in [Modes -> Nat] /\ Worlds \subseteq [Cells -> Kinds]
  /\ {Length, Hardness, HitDelay, MaxInputs, MaxPackets, MaxInFlight} \subseteq Nat
  /\ Hardness > 0

VARIABLES
  client,   \* the session: its cells and its hand
  server,   \* the server's cells and mode
  toServer, \* packets on their way to the server
  toClient, \* packets on their way to the session
  ghosts,   \* cells a change of mode took from the session alone (history)
  spent     \* the inputs and the packets so far (for the bounds)

vars == <<client, server, toServer, toClient, ghosts, spent>>
-----------------------------------------------------------------------------
\* A column that is not loaded reads as air and drops what is written.
Nothing == [c \in Cells |-> "void"]

\* A dig machine that is hitting nothing.
NewDig == [hitting |-> FALSE, target |-> {}, progress |-> 0, delay |-> 0]

Change(c, k) == [kind |-> "change", cell |-> c, block |-> k]
Chunk(cells) == [kind |-> "chunk", cells |-> cells]

\* "crack" is the stage of the session's own dig, which the window draws, and
\* "open" the digs the server was told of and not told the end of (history).
Init ==
  /\ \E world \in Worlds, mode \in Modes :
       /\ server = [cells |-> world, mode |-> mode, alive |-> TRUE]
       /\ client = [cells |-> world, mode |-> mode, dead |-> FALSE,
                    looks |-> TRUE, held |-> FALSE, left |-> 0, right |-> 0,
                    dig |-> NewDig, crack |-> {}, open |-> {}, sent |-> <<>>,
                    id |-> 0]
  /\ toServer = <<>> /\ toClient = <<>>
  /\ ghosts = {}
  /\ spent = [inputs |-> 0, packets |-> 0]

\* The cell the player aims at: the first cell in reach that is not air.
AimOf(p) ==
  LET met == {c \in Cells : p.cells[c] \notin {"air", "void"} /\ c <= Reach[p.mode]}
  IN  IF p.looks /\ met # {} THEN {Min(met)} ELSE {}

Written(p, c, k) == [p EXCEPT !.cells[c] = IF @ = "void" THEN @ ELSE k]
-----------------------------------------------------------------------------
(* What the dig machine asks for, done to the session.                     *)

Sent(p, kind, how, c) ==
  [p EXCEPT !.sent = Append(@, [kind |-> kind, cell |-> c, how |-> how])]

\* A stage lands or, below zero, is removed: the one entry of the player's id.
Stage(p, c, index) ==
  [p EXCEPT !.crack = {e \in @ : e.by # client.id}
              \cup IF index < 0 THEN {} ELSE {[by |-> client.id, cell |-> c]}]

Start(p, c, how) ==
  [Sent(p, "start", how, c) EXCEPT !.open = IF how = "slow" THEN {c} ELSE @]

Finish(p, c) ==
  [Sent(p, "finish", IF c \in p.open THEN "slow" ELSE "unopened", c)
     EXCEPT !.open = @ \ {c}]

Abort(p, c) == Stage([Sent(p, "abort", "slow", c) EXCEPT !.open = @ \ {c}], c, -1)

Destroy(p, c) == Written(p, c, "air")
-----------------------------------------------------------------------------
(* The dig machine.  An aim is a cell and the block that stands there when *)
(* the tick comes to the dig.                                              *)

Instant(a) == a.block \in {"plant", "air"}

\* Mutant of Reset: the machine forgets the dig and tells nobody.
ResetIsSilent(p) ==
  [p EXCEPT !.dig.hitting = FALSE, !.dig.target = {}, !.dig.progress = 0]

\* The release, a look away, a death or a respawn ends a running dig.
Reset(p) ==
  IF ~p.dig.hitting THEN p
  ELSE LET c == CHOOSE t \in p.dig.target : TRUE
       IN  Stage([Abort(p, c) EXCEPT !.dig.hitting = FALSE, !.dig.target = {},
                                     !.dig.progress = 0], c, -1)

\* A press on a cell, or a hold that meets one it is not digging.
ClickBlock(p, a) ==
  LET left == IF p.dig.hitting THEN Abort(p, CHOOSE t \in p.dig.target : TRUE) ELSE p
  IN  IF p.mode = "creative"
      THEN [Destroy(Start(p, a.cell, "creative"), a.cell) EXCEPT !.dig.delay = HitDelay]
      ELSE IF p.dig.hitting /\ p.dig.target = {a.cell} THEN p
      ELSE IF Instant(a) THEN Destroy(Start(left, a.cell, "instant"), a.cell)
      ELSE Stage([Start(left, a.cell, "slow") EXCEPT
                    !.dig.hitting = TRUE, !.dig.target = {a.cell},
                    !.dig.progress = 0], a.cell, -1)

\* Mutant of Complete: the stage is taken before the progress starts over.
CompleteKeepsStage(p, a) ==
  Stage([Destroy(Finish(p, a.cell), a.cell) EXCEPT
           !.dig = [NewDig EXCEPT !.delay = HitDelay]], a.cell, p.dig.progress - 1)

\* The last tick of a dig: the finish goes out before the removal, and the
\* stage is that of the progress started over.
Complete(p, a) ==
  Stage([Destroy(Finish(p, a.cell), a.cell) EXCEPT
           !.dig = [NewDig EXCEPT !.delay = HitDelay]], a.cell, NewDig.progress - 1)

\* Mutant of DamageBlock: a tick of the delay behind a break takes none off.
DelayStays(p, a) ==
  LET progress == p.dig.progress + IF a.block = "bedrock" THEN 0 ELSE 1
  IN  IF p.dig.delay > 0 THEN p
      ELSE IF p.mode = "creative"
      THEN Destroy(Start([p EXCEPT !.dig.delay = HitDelay], a.cell, "creative"), a.cell)
      ELSE IF ~p.dig.hitting \/ p.dig.target # {a.cell} THEN ClickBlock(p, a)
      ELSE IF progress >= Hardness THEN Complete(p, a)
      ELSE Stage([p EXCEPT !.dig.progress = progress], a.cell, progress - 1)

\* One held tick on a cell.
DamageBlock(p, a) ==
  LET progress == p.dig.progress + IF a.block = "bedrock" THEN 0 ELSE 1
  IN  IF p.dig.delay > 0 THEN [p EXCEPT !.dig.delay = @ - 1]
      ELSE IF p.mode = "creative"
      THEN Destroy(Start([p EXCEPT !.dig.delay = HitDelay], a.cell, "creative"), a.cell)
      ELSE IF ~p.dig.hitting \/ p.dig.target # {a.cell} THEN ClickBlock(p, a)
      ELSE IF progress >= Hardness THEN Complete(p, a)
      ELSE Stage([p EXCEPT !.dig.progress = progress], a.cell, progress - 1)

\* The presses, each once.
Clicks(p, aim) ==
  LET clicked[n \in 0 .. p.left] ==
        IF n = 0 THEN [p EXCEPT !.left = 0]
        ELSE ClickBlock(clicked[n - 1], CHOOSE b \in aim : TRUE)
  IN  IF aim = {} THEN [p EXCEPT !.left = 0] ELSE clicked[p.left]

\* The held button, or its absence.
Holds(p, aim) ==
  IF p.held /\ aim # {} THEN DamageBlock(p, CHOOSE b \in aim : TRUE) ELSE Reset(p)

Replaceable(k) == k \in {"air", "plant"}

\* A right press at an aim: the aimed cell if it gives way, else the one
\* before it, which must; the packet goes out, the block is set.
Place(p, c) ==
  LET target == IF Replaceable(p.cells[c]) THEN c ELSE c - 1
  IN  IF target \notin Cells \/ ~Replaceable(p.cells[target]) THEN p
      ELSE Written(Sent(p, "place", "slow", c), target, "stone")

\* The right presses, none of which counts while a dig runs.
StepPlace(p, aim) ==
  LET idle == [p EXCEPT !.right = 0]
      placed[n \in 0 .. p.right] ==
        IF n = 0 THEN idle ELSE Place(placed[n - 1], CHOOSE b \in aim : TRUE)
  IN  IF p.dig.hitting \/ aim = {} THEN idle ELSE placed[p.right]
-----------------------------------------------------------------------------
(* The session.                                                            *)

\* What a step of the session sent goes out.
Leaves(p) ==
  /\ client' = [p EXCEPT !.sent = <<>>]
  /\ toServer' = toServer \o p.sent

\* A tick recomputes the aim, then places, then digs what stands at the aim by
\* then; the dead do neither.
Tick ==
  /\ Len(toServer) < MaxInFlight /\ ~client.dead
  /\ \E aim \in {AimOf(client)} :
     \E placed \in {StepPlace(client, aim)} :
     \E aimed \in {{[cell |-> c, block |-> placed.cells[c]] : c \in aim}} :
     \E clicked \in {Clicks(placed, aimed)} : Leaves(Holds(clicked, aimed))
  /\ UNCHANGED <<server, toClient, ghosts, spent>>

Input == spent.inputs < MaxInputs /\ spent' = [spent EXCEPT !.inputs = @ + 1]

\* A button goes down or up; the dead have none.
Button(left, pressed) ==
  /\ Input /\ ~client.dead
  /\ client' = IF left
               THEN [client EXCEPT !.held = pressed, !.left = IF pressed THEN @ + 1 ELSE @]
               ELSE [client EXCEPT !.right = IF pressed THEN @ + 1 ELSE @]
  /\ UNCHANGED <<server, toServer, toClient, ghosts>>

\* The player looks at the line, or away from every block.
Look ==
  /\ Input /\ ~client.dead
  /\ client' = [client EXCEPT !.looks = ~@]
  /\ UNCHANGED <<server, toServer, toClient, ghosts>>

Died(p) ==
  IF p.dead THEN p
  ELSE Reset([p EXCEPT !.dead = TRUE, !.held = FALSE, !.left = 0, !.right = 0])

Unloaded(p) == [p EXCEPT !.cells = Nothing]

Respawned(p, packet) ==
  Reset([IF packet.rebuilds THEN Unloaded(p) ELSE p EXCEPT
           !.dead = FALSE, !.mode = packet.mode])

\* A second Join Game builds a new world and names the player anew; the dig
\* and the stages stay as they stood.
Joined(p, packet) == [Unloaded(p) EXCEPT !.mode = packet.mode, !.id = @ + 1]

\* Mutant of Received: a change of the cell being dug is left to the dig.
DigHidesChanges(p, packet) ==
  CASE packet.kind = "change"  ->
         IF p.dig.hitting /\ p.dig.target = {packet.cell} THEN p
         ELSE Written(p, packet.cell, packet.block)
    [] packet.kind = "chunk"   -> [p EXCEPT !.cells = packet.cells]
    [] packet.kind = "mode"    -> [p EXCEPT !.mode = packet.mode]
    [] packet.kind = "health"  -> Died(p)
    [] packet.kind = "respawn" -> Respawned(p, packet)
    [] packet.kind = "join"    -> Joined(p, packet)

Received(p, packet) ==
  CASE packet.kind = "change"  -> Written(p, packet.cell, packet.block)
    [] packet.kind = "chunk"   -> [p EXCEPT !.cells = packet.cells]
    [] packet.kind = "mode"    -> [p EXCEPT !.mode = packet.mode]
    [] packet.kind = "health"  -> Died(p)
    [] packet.kind = "respawn" -> Respawned(p, packet)
    [] packet.kind = "join"    -> Joined(p, packet)

Read ==
  /\ toClient # <<>>
  /\ toClient' = Tail(toClient)
  /\ \E p \in {Received(client, Head(toClient))} : Leaves(p)
  /\ UNCHANGED <<server, ghosts, spent>>
-----------------------------------------------------------------------------
(* The server (external): it may refuse any dig or placement.              *)

Decide == spent.packets < MaxPackets /\ spent' = [spent EXCEPT !.packets = @ + 1]

Tell(packets) == toClient' = toClient \o packets

SetCell(c, k) ==
  /\ Decide /\ k # server.cells[c]
  /\ server' = [server EXCEPT !.cells[c] = k]
  /\ Tell(<<Change(c, k)>>)
  /\ ghosts' = ghosts \ {c}
  /\ UNCHANGED <<client, toServer>>

SetMode(m) ==
  /\ Decide /\ m # server.mode
  /\ server' = [server EXCEPT !.mode = m]
  /\ Tell(<<[kind |-> "mode", mode |-> m]>>)
  /\ UNCHANGED <<client, toServer, ghosts>>

Kill ==
  /\ Decide /\ server.alive
  /\ server' = [server EXCEPT !.alive = FALSE]
  /\ Tell(<<[kind |-> "health"]>>)
  /\ UNCHANGED <<client, toServer, ghosts>>

\* The dead respawn, in this world or another; the living change worlds.
Respawn(rebuilds) ==
  /\ server.alive => Decide /\ rebuilds
  /\ ~server.alive => UNCHANGED spent
  /\ server' = [server EXCEPT !.alive = TRUE]
  /\ Tell(<<[kind |-> "respawn", rebuilds |-> rebuilds, mode |-> server.mode]>>
          \o IF rebuilds THEN <<Chunk(server.cells)>> ELSE <<>>)
  /\ ghosts' = IF rebuilds THEN {} ELSE ghosts
  /\ UNCHANGED <<client, toServer>>

Rejoin ==
  /\ Decide /\ server.alive
  /\ Tell(<<[kind |-> "join", mode |-> server.mode], Chunk(server.cells)>>)
  /\ ghosts' = {}
  /\ UNCHANGED <<client, server, toServer>>

\* The cells the server tells of again with its answer to a packet.
Answers(c, told) ==
  /\ Tell([i \in 1 .. Len(told) |-> Change(told[i], server'.cells[told[i]])])
  /\ ghosts' = ghosts \ Range(told)

\* A dig the server takes or refuses, and tells what stands then.
Breaks(c) ==
  /\ \E k \in {"air", server.cells[c]} : server' = [server EXCEPT !.cells[c] = k]
  /\ Answers(c, <<c>>)

\* A start that only opens a dig is not answered.  One the session took for
\* a creative break, sent before it read of the survival mode, leaves a
\* ghost.
Opens(packet) ==
  /\ ghosts' = IF packet.how = "creative" THEN ghosts \cup {packet.cell} ELSE ghosts
  /\ UNCHANGED <<server, toClient>>

Places(c) ==
  LET target == IF Replaceable(server.cells[c]) THEN c ELSE c - 1
      both   == IF c - 1 \in Cells THEN <<c - 1, c>> ELSE <<c>>
  IN  /\ \/ UNCHANGED server
         \/ /\ target \in Cells /\ Replaceable(server.cells[target])
            /\ server' = [server EXCEPT !.cells[target] = "stone"]
      /\ Answers(c, both)

ServerReads ==
  /\ toServer # <<>> /\ Len(toClient) < MaxInFlight
  /\ toServer' = Tail(toServer)
  /\ LET packet == Head(toServer)
         c == packet.cell
         block == server.cells[c]
         slow == server.mode = "survival" /\ block # "plant"
     IN  \/ packet.kind = "start" /\ slow /\ Opens(packet)
         \/ packet.kind = "start" /\ (slow => block # "air") /\ ~slow /\ Breaks(c)
         \/ packet.kind = "finish" /\ Breaks(c)
         \/ packet.kind = "place" /\ Places(c)
         \/ packet.kind = "abort" /\ UNCHANGED <<server, toClient, ghosts>>
  /\ UNCHANGED <<client, spent>>
-----------------------------------------------------------------------------
PlayerActs ==
  \/ \E left, pressed \in BOOLEAN : Button(left, pressed)
  \/ Look

ServerDecides ==
  \/ \E c \in Cells, k \in Kinds : SetCell(c, k)
  \/ \E m \in Modes : SetMode(m)
  \/ Kill \/ Rejoin
  \/ \E rebuilds \in BOOLEAN : Respawn(rebuilds)

Next == Tick \/ Read \/ PlayerActs \/ ServerDecides \/ ServerReads

Spec == Init /\ [][Next]_vars /\ WF_vars(Tick) /\ WF_vars(Read) /\ WF_vars(ServerReads)
-----------------------------------------------------------------------------
(* Properties.                                                             *)

\* The server is never left with a dig the player is not at: each start that
\* needs an end has had it once the machine is off that cell, through looks
\* away, changes of the mode, deaths, respawns and worlds that go.
DigsClose ==
  client.open \subseteq IF client.dig.hitting THEN client.dig.target ELSE {}

\* The crack the window draws for the player is of the cell it digs.
CrackIsOfDig ==
  \A e \in client.crack :
    e.by = client.id => client.dig.hitting /\ client.dig.target = {e.cell}

\* No crack is left of what the player was before a second Join Game.
CracksAreOwn == \A e \in client.crack : e.by = client.id

\* Once all is read the session has the server's cells, whatever it broke or
\* placed ahead of the server and whatever the server refused or changed
\* meanwhile, but for the ghosts of a change of mode.
WorldsSettle ==
  toServer = <<>> /\ toClient = <<>>
    => \A c \in Cells \ ghosts : client.cells[c] = server.cells[c]

\* A finish is only sent for a dig that was started and not given up.
FinishWasStarted ==
  \A i \in DOMAIN toServer : toServer[i].kind = "finish" => toServer[i].how = "slow"

\* The button held on a block that can be broken breaks it in the end.
HoldingBreaks ==
  \A c \in Cells :
    (client.held /\ ~client.dead /\ AimOf(client) = {c} /\ client.cells[c] # "bedrock")
      ~> ~(client.held /\ ~client.dead /\ AimOf(client) = {c} /\ client.cells[c] # "bedrock")
=============================================================================
