---------------------------- MODULE MeshPipeline ----------------------------
(***************************************************************************)
(* From a chunk packet to the mesh on the screen: the session thread, the  *)
(* mesh pool, the event channel and the window                             *)
(* (crates/oxide-game/src/session.rs, crates/oxide-client/src/main.rs).    *)
(*                                                                         *)
(* The session applies packets to the world it owns and marks columns in   *)
(* the mesh queue; when a read times out it pumps: it snapshots up to      *)
(* PumpCap waiting columns, hands each snapshot to the pool, and drains    *)
(* the finished builds.  A build whose generation is still the column's is *)
(* reported; the window shows what is reported, in channel order.          *)
(*                                                                         *)
(* A column's blocks and light are stamps: the number of the change that   *)
(* last wrote them, 0 (Absent) for a column that is not loaded.  A build   *)
(* is the stamps its snapshot copied.                                      *)
(***************************************************************************)
EXTENDS MeshQueue, Bags

CONSTANTS PumpCap,     \* PENDING_JOBS_CAP
          MaxChanges,  \* bound: packets and inputs handled after Join Game
          BulkColumns, \* bound: the columns a bulk packet may carry
          MaxRejoins   \* bound: Join Game packets after the first

ASSUME BoundsAssumption ==
  /\ PumpCap \in Nat \ {0}
  /\ MaxChanges \in Nat
  /\ BulkColumns \subseteq Columns
  /\ MaxRejoins \in Nat

VARIABLES
  pc,        \* where the session thread stands
  left,      \* spawns left in this pump
  unmarked,  \* columns an F3+A rebuild has still to mark
  world,     \* column -> the stamp of its blocks (the store's chunks)
  light,     \* column -> the stamp of its light
  changes,   \* packets and inputs handled after Join Game
  joins,     \* Join Game packets handled so far
  queue,     \* the mesh queue
  building,  \* bag of the jobs in the pool
  results,   \* the channel of finished builds
  events,    \* the channel of events to the window
  shown      \* the window's meshes: column -> build, for those it holds

vars == <<pc, left, unmarked, world, light, changes, joins, queue, building,
          results, events, shown>>

session == <<pc, left, unmarked>>
store   == <<world, light>>
counts  == <<changes, joins>>
-----------------------------------------------------------------------------
Absent == 0

Stamps == 0 .. MaxChanges

Loaded(w) == {c \in Columns : w[c] # Absent}

\* ColumnSnapshot::from_world and build_column_meshes: a build of a loaded
\* column is what its own cells and its collar held; the build of an absent
\* one has no face to draw, whatever its collar holds.
Sight(c) == {c} \cup Members(Orthogonal[c])

EmptyBuild == [blocks |-> << >>, light |-> << >>]

BlocksSeen(w, c) == [d \in Sight(c) |-> w[d]]

Build(w, l, c) ==
  IF w[c] = Absent THEN EmptyBuild
  ELSE [blocks |-> BlocksSeen(w, c), light |-> [d \in Sight(c) |-> l[d]]]

\* The columns whose light one recompute over c rewrites.
Region(w, c) ==
  ({c} \cup Members(Orthogonal[c]) \cup Members(Diagonal[c])) \cap Loaded(w)

\* mark_column_changed and mark_recompute_region.
MarkColumnChanged(q, w, c) ==
  MarkFour(MarkDirty(q, c), Orthogonal[c], Loaded(w))

MarkRecomputeRegion(q, w, c) ==
  MarkFour(MarkColumnChanged(q, w, c), Diagonal[c], Loaded(w))

Updated(c, build) == [kind |-> "ChunkUpdated", column |-> c, build |-> build]
Unloaded(c) == [kind |-> "ChunkUnloaded", column |-> c, build |-> EmptyBuild]
Cleared == [kind |-> "WorldCleared", column |-> Nowhere, build |-> EmptyBuild]

Jobs(column, generation, build) ==
  [column |-> column, generation |-> generation, build |-> build]

EmptyWorld == [c \in Columns |-> Absent]

Init ==
  /\ pc = "read" /\ left = 0 /\ unmarked = {}
  /\ world = EmptyWorld /\ light = EmptyWorld
  /\ changes = 0 /\ joins = 0
  /\ queue = NewQueue
  /\ building = EmptyBag /\ results = <<>> /\ events = <<>>
  /\ shown = [c \in {} |-> EmptyBuild]
-----------------------------------------------------------------------------
(* The packets and the inputs that touch the world or the queue.           *)

Handle ==
  /\ pc = "read"
  /\ UNCHANGED <<building, results, shown>>

\* A packet or an input of the play state, after the first Join Game.
InWorld ==
  /\ Handle
  /\ joins > 0 /\ changes < MaxChanges
  /\ changes' = changes + 1
  /\ UNCHANGED joins

Stamp == changes + 1

\* Join Game: a fresh world and an empty queue.  Nothing tells the window
\* that the meshes it holds are of a world that is gone.
JoinGame ==
  /\ Handle
  /\ joins <= MaxRejoins
  /\ joins' = joins + 1
  /\ world' = EmptyWorld /\ light' = EmptyWorld
  /\ queue' = ClearInPlace(queue)
  /\ UNCHANGED <<session, changes, events>>

\* MUTANT of RespawnElsewhere: the queue of the old world stays.
RespawnKeepsQueue ==
  /\ InWorld /\ UNCHANGED session
  /\ world' = EmptyWorld /\ light' = EmptyWorld
  /\ events' = Append(events, Cleared)
  /\ UNCHANGED queue

\* Respawn into another dimension: the same, and the window is told.
RespawnElsewhere ==
  /\ InWorld /\ UNCHANGED session
  /\ world' = EmptyWorld /\ light' = EmptyWorld
  /\ queue' = ClearInPlace(queue)
  /\ events' = Append(events, Cleared)

\* Chunk Data that carries the column (a new one or a replacement).
ChunkData(c) ==
  /\ InWorld /\ UNCHANGED session
  /\ world' = [world EXCEPT ![c] = Stamp]
  /\ light' = [light EXCEPT ![c] = Stamp]
  /\ queue' = MarkColumnChanged(queue, world', c)
  /\ UNCHANGED events

\* Chunk Data of the unload shape, for a column that is loaded or not.
ChunkUnload(c) ==
  /\ InWorld /\ UNCHANGED session
  /\ world' = [world EXCEPT ![c] = Absent]
  /\ light' = [light EXCEPT ![c] = Absent]
  /\ queue' = MarkColumnUnloaded(queue, c)
  /\ events' = Append(events, Unloaded(c))

\* Map Chunk Bulk: every column lands in the store first; then the columns
\* are taken in turn, and one that is not in the store was an unload.
ApplyBulk(s, columns, loads, stamp) ==
  [c \in Columns |-> IF c \notin columns THEN s[c]
                     ELSE IF c \in loads THEN stamp ELSE Absent]

\* MUTANT of BulkMark: an unload in a bulk is only forgotten.
BulkMarkForgets(q, w, c) ==
  IF w[c] # Absent THEN MarkColumnChanged(q, w, c) ELSE Forget(q, c)

BulkMark(q, w, c) ==
  IF w[c] # Absent THEN MarkColumnChanged(q, w, c) ELSE MarkColumnUnloaded(q, c)

MapChunkBulk(c, d, loads) ==
  /\ InWorld /\ UNCHANGED session
  /\ c # d
  /\ world' = ApplyBulk(world, {c, d}, loads, Stamp)
  /\ light' = ApplyBulk(light, {c, d}, loads, Stamp)
  /\ queue' = BulkMark(BulkMark(queue, world', c), world', d)
  /\ events' = events \o (IF c \in loads THEN <<>> ELSE <<Unloaded(c)>>)
                      \o (IF d \in loads THEN <<>> ELSE <<Unloaded(d)>>)

\* Block Change, Multi Block Change and a predicted dig or placement: a
\* write that does not land changes nothing.
BlockChange(c) ==
  /\ InWorld /\ UNCHANGED session
  /\ c \in Loaded(world)
  /\ world' = [world EXCEPT ![c] = Stamp]
  /\ light' = [d \in Columns |-> IF d \in Region(world, c) THEN Stamp ELSE light[d]]
  /\ queue' = MarkRecomputeRegion(queue, world, c)
  /\ UNCHANGED events

\* F3+A: every loaded column is marked, one after the other.
RebuildMeshes ==
  /\ InWorld
  /\ pc' = "rebuild" /\ unmarked' = Loaded(world)
  /\ UNCHANGED <<left, store, queue, events>>

RebuildMark ==
  /\ pc = "rebuild"
  /\ \/ \E c \in unmarked :
          /\ queue' = MarkDirty(queue, c)
          /\ unmarked' = unmarked \ {c}
          /\ pc' = pc
     \/ /\ unmarked = {}
        /\ pc' = "read" /\ UNCHANGED <<queue, unmarked>>
  /\ UNCHANGED <<left, store, counts, building, results, events, shown>>
-----------------------------------------------------------------------------
(* pump_meshes: spawns, then the drain.  "finish" is the pump the end of   *)
(* the session repeats (finish_meshes).                                    *)

Pumping   == {"spawn", "drain"}
Finishing == {"finishSpawn", "finishDrain"}

Ended == pc \in {"over", "gaveUp"}

\* The session has returned: the pool and the receiver are dropped, and what
\* a worker still builds reaches nobody.
Return(how) ==
  /\ pc' = how
  /\ building' = EmptyBag /\ results' = <<>>
  /\ UNCHANGED left

\* A read that found nothing for a whole MESH_TICK starts a pump.  A pump
\* with no column waiting and no build finished changes nothing, so it is
\* not a step; before Join Game there is neither.
Idle ==
  /\ pc = "read"
  /\ HasJob(queue) \/ results # <<>>
  /\ pc' = "spawn" /\ left' = PumpCap
  /\ UNCHANGED <<unmarked, store, counts, queue, building, results, events, shown>>

Spawn ==
  /\ pc \in {"spawn", "finishSpawn"}
  /\ left > 0 /\ HasJob(queue)
  /\ LET c   == NextColumn(queue)
         job == Jobs(c, NextGeneration(queue), Build(world, light, c))
     IN  /\ queue' = MarkRunning(queue, c, NextGeneration(queue))
         /\ building' = building (+) SetToBag({job})
  /\ left' = left - 1
  /\ UNCHANGED <<pc, unmarked, store, counts, results, events, shown>>

SpawnDone ==
  /\ pc \in {"spawn", "finishSpawn"}
  /\ left = 0 \/ ~HasJob(queue)
  /\ pc' = IF pc = "spawn" THEN "drain" ELSE "finishDrain"
  /\ UNCHANGED <<left, unmarked, store, counts, queue, building, results, events, shown>>

\* drain_meshes: one finished build is taken; a current one is reported.
Drain ==
  /\ pc \in {"drain", "finishDrain"}
  /\ results # <<>>
  /\ LET job == Head(results)
     IN  /\ queue' = Complete(queue, job.column, job.generation)
         /\ events' = IF Carries(queue, job.column, job.generation)
                      THEN Append(events, Updated(job.column, job.build))
                      ELSE events
  /\ results' = Tail(results)
  /\ UNCHANGED <<session, store, counts, building, shown>>

DrainDone ==
  /\ pc = "drain" /\ results = <<>>
  /\ pc' = "read"
  /\ UNCHANGED <<left, unmarked, store, counts, queue, building, results, events, shown>>

\* The stream ended, or the server said so: finish_meshes starts; without a
\* world there is nothing to finish.
StreamEnd ==
  /\ pc = "read"
  /\ IF joins > 0
     THEN pc' = "finishSpawn" /\ left' = PumpCap /\ UNCHANGED <<building, results>>
     ELSE Return("over")
  /\ UNCHANGED <<unmarked, store, counts, queue, events, shown>>

\* A handler or the transport failed: the session returns at once.
SessionFails ==
  /\ pc = "read"
  /\ Return("gaveUp")
  /\ UNCHANGED <<unmarked, store, counts, queue, events, shown>>

\* MUTANT of FinishRound: one pump is taken for the last one.
FinishOnePump ==
  /\ pc = "finishDrain" /\ results = <<>>
  /\ Return("over")
  /\ UNCHANGED <<unmarked, store, counts, queue, events, shown>>

FinishRound ==
  /\ pc = "finishDrain" /\ results = <<>>
  /\ IF Pending(queue) = 0
     THEN Return("over")
     ELSE pc' = "finishSpawn" /\ left' = PumpCap /\ UNCHANGED <<building, results>>
  /\ UNCHANGED <<unmarked, store, counts, queue, events, shown>>

\* END_OF_SESSION_WAIT passed with columns still outstanding.
FinishDeadline ==
  /\ pc = "finishDrain" /\ results = <<>> /\ Pending(queue) # 0
  /\ Return("gaveUp")
  /\ UNCHANGED <<unmarked, store, counts, queue, events, shown>>
-----------------------------------------------------------------------------
(* The pool and the window.                                                *)

\* A worker sends its build.
Finish(job) ==
  /\ BagIn(job, building)
  /\ building' = building (-) SetToBag({job})
  /\ results' = Append(results, job)
  /\ UNCHANGED <<session, store, counts, queue, events, shown>>

\* apply_session_event's arms for the three events: an event replaces what
\* the window held of the columns it speaks of, so what a frame holds once it
\* has drained the channel is each column's last word.
SpeaksOf(event, c) == event.kind = "WorldCleared" \/ event.column = c

Spoken(reports, c) == \E i \in DOMAIN reports : SpeaksOf(reports[i], c)

LastWord(reports, i, c) ==
  /\ SpeaksOf(reports[i], c)
  /\ \A j \in DOMAIN reports : SpeaksOf(reports[j], c) => j <= i

StillHeld(reports, held, c) ==
  \/ ~Spoken(reports, c) /\ c \in DOMAIN held
  \/ \E i \in DOMAIN reports : LastWord(reports, i, c) /\ reports[i].kind = "ChunkUpdated"

CaughtUp(reports, held) ==
  [c \in {d \in Columns : StillHeld(reports, held, d)} |->
     IF Spoken(reports, c)
     THEN reports[CHOOSE i \in DOMAIN reports : LastWord(reports, i, c)].build
     ELSE held[c]]

Caught == CaughtUp(events, shown)

Frame ==
  /\ events # <<>>
  /\ shown' = Caught
  /\ events' = <<>>
  /\ UNCHANGED <<session, store, counts, queue, building, results>>
-----------------------------------------------------------------------------
Packet ==
  \/ JoinGame \/ RespawnElsewhere \/ RebuildMeshes
  \/ \E c \in Columns : ChunkData(c) \/ ChunkUnload(c) \/ BlockChange(c)
  \/ \E c, d \in BulkColumns : \E loads \in SUBSET {c, d} : MapChunkBulk(c, d, loads)

Pump == Spawn \/ SpawnDone \/ Drain \/ DrainDone \/ FinishRound

Pool == \E job \in DOMAIN building : Finish(job)

Next == Packet \/ RebuildMark \/ Idle \/ Pump \/ StreamEnd \/ SessionFails
          \/ FinishDeadline \/ Pool \/ Frame

(***************************************************************************)
(* The session thread's loop never blocks longer than MESH_TICK, so the    *)
(* steps it takes without the server are weakly fair; a read is always     *)
(* idle sooner or later because the bound stops the packets.  The pool's   *)
(* threads and the window's frames run on their own.  Neither a packet,    *)
(* the stream's end nor the deadline is promised.                          *)
(***************************************************************************)
Spec == Init /\ [][Next]_vars
          /\ WF_vars(RebuildMark) /\ WF_vars(Idle) /\ WF_vars(Pump)
          /\ WF_vars(Pool) /\ WF_vars(Frame)
-----------------------------------------------------------------------------
(* What the pipeline promises.                                             *)

JobSet == DOMAIN building \cup {results[i] : i \in DOMAIN results}

BuildsOf(c) ==
  {EmptyBuild} \cup [blocks : [Sight(c) -> Stamps], light : [Sight(c) -> Stamps]]

Reports ==
  {Cleared} \cup {Unloaded(c) : c \in Columns}
    \cup UNION {{Updated(c, b) : b \in BuildsOf(c)} : c \in Columns}

AllJobs ==
  {job \in [column : Columns, generation : Nat, build : UNION {BuildsOf(c) : c \in Columns}] :
     job.build \in BuildsOf(job.column)}

\* The type of the state, pc and the queue included.
TypeOK ==
  /\ pc \in {"read", "rebuild", "over", "gaveUp"} \cup Pumping \cup Finishing
  /\ left \in 0 .. PumpCap
  /\ unmarked \subseteq Columns
  /\ world \in [Columns -> Stamps] /\ light \in [Columns -> Stamps]
  /\ changes \in 0 .. MaxChanges /\ joins \in 0 .. MaxRejoins + 1
  /\ IsQueue(queue)
  /\ IsABag(building) /\ DOMAIN building \subseteq AllJobs
  /\ results \in Seq(AllJobs)
  /\ events \in Seq(Reports)
  /\ DOMAIN shown \subseteq Columns /\ \A c \in DOMAIN shown : shown[c] \in BuildsOf(c)

\* The dirty list holds every waiting column exactly once and no running one,
\* so the front is always a job and no column waits for ever behind a place
\* that is not one (mesh_queue.rs: "a column appears at most once", and the
\* arm of next_job that "only guards the invariant").
DirtyListExact ==
  /\ \A i, j \in DOMAIN queue.dirty : queue.dirty[i] = queue.dirty[j] => i = j
  /\ Members(queue.dirty) =
       {c \in Outstanding(queue) : queue.states[c].phase = "Dirty"}

\* A running column has its job somewhere between the pool and the drain, so
\* it cannot stay running for ever; a clear, an unload or a reload in
\* between does not change that.
RunningHasJob ==
  ~Ended => \A c \in Outstanding(queue) : queue.states[c].phase = "Running" =>
               \E job \in JobSet : job.column = c

\* A build the queue would accept was taken from the blocks that stand now,
\* in the column and in its collar: a late answer never passes for a fresh
\* one, whatever unloads, reloads and new worlds came while it was out.
AcceptedIsCurrent ==
  \A job \in JobSet : Carries(queue, job.column, job.generation) =>
     job.build.blocks = Build(world, light, job.column).blocks

ShowsBlocks(s, c) == c \in DOMAIN s /\ s[c].blocks = BlocksSeen(world, c)

\* A loaded column nobody is going to build again is on its way to the
\* window, or there, as it is now: no change of a column or of its collar
\* falls between a mark, a completion and a report.
NoChangeLost ==
  \A c \in Loaded(world) \ (Outstanding(queue) \cup unmarked) : ShowsBlocks(Caught, c)

\* A session that finished without running out of time reported every loaded
\* column as it last was (finish_meshes: "a clean stop still reports its last
\* meshes").
CleanStopReportsAll ==
  pc = "over" => \A c \in Loaded(world) : ShowsBlocks(Caught, c)

\* The window never goes back: a column it shows as of one change is never
\* shown again as of an earlier one, except by first being dropped.
ShownNeverRegresses ==
  [][\A c \in DOMAIN shown \cap DOMAIN shown' :
       shown[c] # EmptyBuild /\ shown'[c] # EmptyBuild =>
         \A d \in Sight(c) : shown'[c].blocks[d] # Absent =>
            shown[c].blocks[d] <= shown'[c].blocks[d]]_vars

\* The pipeline as a view of columns: what ColumnView promises of any cache
\* between a world and a window holds of it, with the blocks for the view's
\* values.  Whatever is reported is the column as it stands at that moment,
\* whatever is retracted is not in the store, and nothing else reaches the
\* window.
Blocks(f) == [c \in DOMAIN f |-> f[c].blocks]

View == INSTANCE ColumnView WITH
  Gone    <- EmptyBuild.blocks,
  current <- [c \in Columns |-> Build(world, light, c).blocks],
  told    <- Blocks(Caught),
  shown   <- Blocks(shown)

ViewHolds == View!Spec

\* Once the packets stop, the window comes to show every loaded column's own
\* and neighbouring blocks as they are, and keeps showing them, unless the
\* session failed or ran out of time at its end.
WindowCatchesUp ==
  <>[](pc # "gaveUp" => \A c \in Loaded(world) : ShowsBlocks(shown, c))
-----------------------------------------------------------------------------
(* What the code says of itself and does not keep.                         *)

\* mesh_queue.rs:69-71: "no two jobs can ever carry the same generation for
\* one column, not even across an unload".
GenerationNamesOneJob ==
  /\ \A job \in DOMAIN building : building[job] = 1
  /\ \A i \in DOMAIN results :
       LET same(job) == job.column = results[i].column
                        /\ job.generation = results[i].generation
       IN  /\ \A job \in DOMAIN building : ~same(job)
           /\ \A j \in DOMAIN results : same(results[j]) => i = j

\* Like NoChangeLost, for the light the meshes were shaded with: what a
\* recompute rewrites is rebuilt wherever it is read.
ShowsLight(s, c) == c \in DOMAIN s /\ s[c].light = [d \in Sight(c) |-> light[d]]

NoLightLost ==
  \A c \in Loaded(world) \ (Outstanding(queue) \cup unmarked) : ShowsLight(Caught, c)

\* A column the store does not hold and nobody is going to build again shows
\* nothing: no mesh of a world that is gone stands in the window.
NoGhostMesh ==
  \A c \in Columns \ (Loaded(world) \cup Outstanding(queue)) :
     (\A job \in JobSet : job.column # c) /\ c \in DOMAIN Caught
        => Caught[c] = EmptyBuild
=============================================================================
