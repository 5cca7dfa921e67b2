------------------------- MODULE MeshPipelineProofs -------------------------
(***************************************************************************)
(* The mesh pipeline for every grid, every bound and every order of its    *)
(* steps: what the operations of the queue do to the generations; that a   *)
(* build the queue would accept was taken from the blocks that stand now;  *)
(* that no change of a loaded column is lost between its mark, its build   *)
(* and its report; that no column waits in vain; and that the pipeline is  *)
(* a ColumnView.                                                           *)
(***************************************************************************)
EXTENDS MeshPipeline, TLAPS, FiniteSetTheorems

-----------------------------------------------------------------------------
(* The queue: no operation makes a column carry an earlier generation, and *)
(* a marked column carries one no job has had.                             *)

\* A well-formed queue: typed, and no column ahead of the counter.
Bounded(q) == \A c \in Outstanding(q) : q.states[c].generation <= q.next

Sound(q) == IsQueue(q) /\ Bounded(q)

\* From q to r only the columns of S were marked: each of them carries a
\* generation later than all of q's or is not outstanding, and any other one
\* outstanding carries the generation it had.
Moves(q, r, S) ==
  /\ q.next <= r.next
  /\ \A c \in Outstanding(r) :
       IF c \in S THEN q.next < r.states[c].generation
       ELSE c \in Outstanding(q) /\ r.states[c].generation = q.states[c].generation

-----------------------------------------------------------------------------
\* The fields of a sound queue.
LEMMA SoundFields ==
  ASSUME NEW q, Sound(q)
  PROVE  /\ q = [dirty |-> q.dirty, states |-> q.states, next |-> q.next]
         /\ q.dirty \in Seq(Columns)
         /\ q.next \in Nat
         /\ Outstanding(q) \subseteq Columns
         /\ q.states \in [Outstanding(q) -> ColumnStates]
         /\ Bounded(q)
BY DEF Sound, IsQueue, Outstanding

\* A queue made of such fields is sound.
LEMMA SoundOf ==
  ASSUME NEW d \in Seq(Columns), NEW D \in SUBSET Columns,
         NEW f \in [D -> ColumnStates], NEW n \in Nat,
         \A c \in D : f[c].generation <= n
  PROVE  Sound([dirty |-> d, states |-> f, next |-> n])
BY DEF Sound, IsQueue, Bounded, Outstanding

\* A new or cleared queue is sound and carries nothing.
LEMMA NewSound == Sound(NewQueue)
<1> DEFINE none == [d \in {} |-> 0]
<1>1. none \in [{} -> ColumnStates]
  OBVIOUS
<1>2. NewQueue = [dirty |-> <<>>, states |-> none, next |-> 0]
  BY DEF NewQueue
<1>3. <<>> \in Seq(Columns) /\ {} \in SUBSET Columns /\ 0 \in Nat
  OBVIOUS
<1> HIDE DEF none
<1> QED
  BY <1>1, <1>2, <1>3, SoundOf

LEMMA ClearSound ==
  ASSUME NEW q, Sound(q)
  PROVE  Sound(ClearInPlace(q)) /\ \A S : Moves(q, ClearInPlace(q), S)
<1> DEFINE none == [d \in {} |-> 0]
<1>1. none \in [{} -> ColumnStates] /\ DOMAIN none = {}
  OBVIOUS
<1>2. ClearInPlace(q) = [dirty |-> <<>>, states |-> none, next |-> q.next]
  BY DEF ClearInPlace, NewQueue
<1>3. <<>> \in Seq(Columns) /\ {} \in SUBSET Columns /\ q.next \in Nat
  BY SoundFields
<1> HIDE DEF none
<1>4. Sound([dirty |-> <<>>, states |-> none, next |-> q.next])
  BY <1>1, <1>3, SoundOf
<1> QED
  BY <1>1, <1>2, <1>3, <1>4 DEF Moves, Outstanding

\* Taking a column's place out of the dirty list leaves a list of columns.
LEMMA WithoutColumnType ==
  ASSUME NEW s \in Seq(Columns), NEW c \in Columns
  PROVE  WithoutColumn(s, c) \in Seq(Columns)
<1>1. CASE c \in Members(s)
  <2>1. PICK i \in DOMAIN s : s[i] = c
    BY <1>1 DEF Members
  <2>2. Position(s, c) \in DOMAIN s
    BY <2>1 DEF Position
  <2>3. Len(s) - 1 \in Nat
    BY <2>1
  <2>4. [j \in 1 .. Len(s) - 1 |-> IF j < Position(s, c) THEN s[j] ELSE s[j + 1]]
          \in [1 .. Len(s) - 1 -> Columns]
    BY <2>2
  <2> QED
    BY <1>1, <2>3, <2>4 DEF WithoutColumn
<1>2. CASE c \notin Members(s)
  BY <1>2 DEF WithoutColumn
<1> QED
  BY <1>1, <1>2

\* mark_dirty: the column carries a generation of its own.
LEMMA MarkDirtyMoves ==
  ASSUME NEW q, Sound(q), NEW c \in Columns
  PROVE  LET r == MarkDirty(q, c)
         IN  /\ Sound(r) /\ Moves(q, r, {c})
             /\ Outstanding(r) = Outstanding(q) \cup {c}
<1> DEFINE phase == IF c \in Outstanding(q) THEN q.states[c].phase ELSE "Dirty"
           f == [d \in Outstanding(q) \cup {c} |->
                   IF d = c THEN [phase |-> phase, generation |-> q.next + 1]
                            ELSE q.states[d]]
           l == IF c \in Outstanding(q) THEN q.dirty ELSE Append(q.dirty, c)
<1>1. MarkDirty(q, c) = [dirty |-> l, states |-> f, next |-> q.next + 1]
  BY DEF MarkDirty
<1>2. phase \in {"Dirty", "Running"}
  BY SoundFields DEF ColumnStates
<1>3. f \in [Outstanding(q) \cup {c} -> ColumnStates]
  BY <1>2, SoundFields DEF ColumnStates
<1>4. l \in Seq(Columns)
  BY SoundFields
<1>5. \A d \in Outstanding(q) \cup {c} :
        f[d].generation = IF d = c THEN q.next + 1 ELSE q.states[d].generation
  OBVIOUS
<1>6. \A d \in Outstanding(q) : q.states[d].generation \in Nat
  BY SoundFields DEF ColumnStates
<1>7. \A d \in Outstanding(q) \cup {c} : f[d].generation <= q.next + 1
  BY <1>5, <1>6, SoundFields DEF Bounded
<1>8. Sound([dirty |-> l, states |-> f, next |-> q.next + 1])
  <2>1. Outstanding(q) \cup {c} \in SUBSET Columns /\ q.next + 1 \in Nat
    BY SoundFields
  <2> HIDE DEF f, l, phase
  <2> QED
    BY <1>3, <1>4, <1>7, <2>1, SoundOf
<1>9. Outstanding(MarkDirty(q, c)) = Outstanding(q) \cup {c}
  BY <1>1 DEF Outstanding
<1>10. Moves(q, MarkDirty(q, c), {c})
  <2> HIDE DEF f, l, phase
  <2> QED
    BY <1>1, <1>5, <1>9, SoundFields DEF Moves
<1> QED
  BY <1>1, <1>8, <1>9, <1>10

\* Two moves in a row.
LEMMA MovesCompose ==
  ASSUME NEW q, NEW r, NEW t, Sound(q), Sound(r), Sound(t), NEW S, NEW T,
         Moves(q, r, S), Moves(r, t, T)
  PROVE  Moves(q, t, S \cup T)
<1>1. /\ q.next \in Nat /\ r.next \in Nat /\ t.next \in Nat
      /\ \A c \in Outstanding(t) : t.states[c].generation \in Nat
      /\ \A c \in Outstanding(r) : r.states[c].generation \in Nat
  BY SoundFields DEF ColumnStates
<1> QED
  BY <1>1 DEF Moves

\* A move over no more than S is a move over S if the rest was not marked.
LEMMA MarkIfInMoves ==
  ASSUME NEW q, Sound(q), NEW c \in Columns \cup {Nowhere}, NEW W \in SUBSET Columns
  PROVE  LET r == MarkIfIn(q, c, W)
         IN  Sound(r) /\ Moves(q, r, {c} \cap W)
<1>1. CASE c \in W
  <2>1. {c} \cap W = {c}
    BY <1>1
  <2> QED
    BY <1>1, <2>1, MarkDirtyMoves DEF MarkIfIn
<1>2. CASE c \notin W
  BY <1>2, SoundFields DEF MarkIfIn, Moves
<1> QED
  BY <1>1, <1>2

LEMMA MarkFourMoves ==
  ASSUME NEW q, Sound(q), NEW four \in Fours, NEW W \in SUBSET Columns
  PROVE  LET r == MarkFour(q, four, W)
         IN  Sound(r) /\ Moves(q, r, Members(four) \cap W)
<1> DEFINE one == MarkIfIn(q, four[1], W)
           two == MarkIfIn(one, four[2], W)
           three == MarkIfIn(two, four[3], W)
           last == MarkIfIn(three, four[4], W)
           at(i) == {four[i]} \cap W
<1>1. \A i \in 1 .. 4 : four[i] \in Columns \cup {Nowhere}
  BY DEF Fours
<1>2. Sound(one) /\ Moves(q, one, at(1))
  BY <1>1, MarkIfInMoves
<1> HIDE DEF one
<1>3. Sound(two) /\ Moves(one, two, at(2))
  BY <1>1, <1>2, MarkIfInMoves
<1> HIDE DEF two
<1>4. Sound(three) /\ Moves(two, three, at(3))
  <2>1. four[3] \in Columns \cup {Nowhere}
    BY <1>1
  <2> QED
    BY <1>3, <2>1, MarkIfInMoves
<1> HIDE DEF three
<1>5. Sound(last) /\ Moves(three, last, at(4))
  BY <1>1, <1>4, MarkIfInMoves
<1> HIDE DEF last
<1>6. Moves(q, two, at(1) \cup at(2))
  BY <1>2, <1>3, MovesCompose
<1>7. Moves(q, three, (at(1) \cup at(2)) \cup at(3))
  BY <1>2, <1>3, <1>4, <1>6, MovesCompose
<1>8. Moves(q, last, ((at(1) \cup at(2)) \cup at(3)) \cup at(4))
  BY <1>2, <1>4, <1>5, <1>7, MovesCompose
<1>9. ((at(1) \cup at(2)) \cup at(3)) \cup at(4) = Members(four) \cap W
  BY GeometryAssumption DEF Members, Fours
<1>10. last = MarkFour(q, four, W)
  BY DEF MarkFour, last, three, two, one
<1> QED
  BY <1>5, <1>8, <1>9, <1>10

\* forget, mark_running and complete: nothing is marked but the column.
LEMMA ForgetMoves ==
  ASSUME NEW q, Sound(q), NEW c \in Columns
  PROVE  LET r == Forget(q, c)
         IN  Sound(r) /\ Moves(q, r, {}) /\ Outstanding(r) = Outstanding(q) \ {c}
<1> DEFINE f == [d \in Outstanding(q) \ {c} |-> q.states[d]]
<1>1. Forget(q, c) = [dirty |-> WithoutColumn(q.dirty, c), states |-> f, next |-> q.next]
  BY DEF Forget
<1>2. f \in [Outstanding(q) \ {c} -> ColumnStates]
  BY SoundFields
<1>3. \A d \in Outstanding(q) \ {c} : f[d].generation <= q.next
  BY SoundFields DEF Bounded
<1>4. \A d \in Outstanding(q) \ {c} : f[d] = q.states[d]
  OBVIOUS
<1>5. Sound([dirty |-> WithoutColumn(q.dirty, c), states |-> f, next |-> q.next])
  <2> HIDE DEF f
  <2> QED
    BY <1>2, <1>3, SoundFields, SoundOf, WithoutColumnType
<1>6. Outstanding(Forget(q, c)) = Outstanding(q) \ {c}
  BY <1>1 DEF Outstanding
<1> HIDE DEF f
<1> QED
  BY <1>1, <1>4, <1>5, <1>6, SoundFields DEF Moves

\* Changing one column's phase, and any change of the dirty list.
LEMMA PhaseMoves ==
  ASSUME NEW q, Sound(q), NEW c \in Outstanding(q), NEW l \in Seq(Columns),
         NEW p \in {"Dirty", "Running"}
  PROVE  LET r == [dirty |-> l, states |-> WithPhase(q, c, p), next |-> q.next]
         IN  Sound(r) /\ Moves(q, r, {})
<1> DEFINE f == WithPhase(q, c, p)
           r == [dirty |-> l, states |-> f, next |-> q.next]
<1>1. f \in [Outstanding(q) -> ColumnStates]
  <2>1. /\ q.states \in [Outstanding(q) -> ColumnStates]
        /\ q.states[c] \in ColumnStates
    BY SoundFields
  <2>2. [q.states[c] EXCEPT !.phase = p] \in ColumnStates
    BY <2>1 DEF ColumnStates
  <2>3. f = [q.states EXCEPT ![c] = [q.states[c] EXCEPT !.phase = p]]
    BY DEF WithPhase
  <2> QED
    BY <2>1, <2>2, <2>3
<1>2. \A d \in Outstanding(q) : f[d].generation = q.states[d].generation
  BY SoundFields DEF ColumnStates, WithPhase
<1> HIDE DEF f
<1>3. Outstanding(r) = Outstanding(q)
  BY <1>1 DEF Outstanding
<1>4. \A d \in Outstanding(q) : f[d].generation <= q.next
  BY <1>2, SoundFields DEF Bounded
<1>5. Outstanding(q) \in SUBSET Columns /\ q.next \in Nat
  BY SoundFields
<1>6. Sound(r)
  BY <1>1, <1>4, <1>5, SoundOf
<1>7. Moves(q, r, {})
  BY <1>2, <1>3, <1>5 DEF Moves
<1> QED
  BY <1>6, <1>7 DEF f

LEMMA MarkRunningMoves ==
  ASSUME NEW q, Sound(q), NEW c \in Columns, NEW g
  PROVE  LET r == MarkRunning(q, c, g)
         IN  Sound(r) /\ Moves(q, r, {})
<1>1. CASE Carries(q, c, g) /\ q.states[c].phase = "Dirty"
  <2>1. c \in Outstanding(q)
    BY <1>1 DEF Carries
  <2>2. WithoutColumn(q.dirty, c) \in Seq(Columns)
    BY SoundFields, WithoutColumnType
  <2> QED
    BY <1>1, <2>1, <2>2, PhaseMoves DEF MarkRunning
<1>2. CASE ~(Carries(q, c, g) /\ q.states[c].phase = "Dirty")
  BY <1>2, SoundFields DEF MarkRunning, Moves
<1> QED
  BY <1>1, <1>2

LEMMA CompleteMoves ==
  ASSUME NEW q, Sound(q), NEW c \in Columns, NEW g
  PROVE  LET r == Complete(q, c, g)
         IN  Sound(r) /\ \E S \in SUBSET Columns : Moves(q, r, S)
<1>1. CASE Carries(q, c, g)
  <2>1. Complete(q, c, g) = Forget(q, c)
    BY <1>1 DEF Complete, Carries
  <2>2. {} \in SUBSET Columns
    OBVIOUS
  <2> QED
    BY <2>1, <2>2, ForgetMoves
<1>2. CASE c \notin Outstanding(q)
  <2>1. Complete(q, c, g) = MarkDirty(q, c)
    BY <1>2 DEF Complete, Carries
  <2> QED
    BY <2>1, MarkDirtyMoves
<1>3. CASE /\ c \in Outstanding(q) /\ ~Carries(q, c, g)
           /\ q.states[c].phase = "Running"
  <2>1. Complete(q, c, g) = WaitAgain(q, c)
    BY <1>3 DEF Complete
  <2>2. Append(q.dirty, c) \in Seq(Columns)
    BY SoundFields
  <2> QED
    BY <1>3, <2>1, <2>2, PhaseMoves DEF WaitAgain
<1>4. CASE /\ c \in Outstanding(q) /\ ~Carries(q, c, g)
           /\ q.states[c].phase # "Running"
  BY <1>4, SoundFields DEF Complete, Moves
<1> QED
  BY <1>1, <1>2, <1>3, <1>4

LEMMA MarkColumnUnloadedMoves ==
  ASSUME NEW q, Sound(q), NEW c \in Columns
  PROVE  LET r == MarkColumnUnloaded(q, c)
         IN  Sound(r) /\ Moves(q, r, {c} \cup Members(Orthogonal[c]))
<1> DEFINE forgotten == Forget(q, c)
           r == MarkColumnUnloaded(q, c)
<1>1. Sound(forgotten) /\ Moves(q, forgotten, {}) /\ Outstanding(forgotten) = Outstanding(q) \ {c}
  BY ForgetMoves
<1>2. Moves(q, forgotten, {c})
  BY <1>1 DEF Moves
<1> HIDE DEF forgotten
<1>3. Orthogonal[c] \in Fours
  BY GeometryAssumption
<1>4. Members(Orthogonal[c]) \cap Columns = Members(Orthogonal[c])
  BY <1>3 DEF Members, Fours
<1>5. Sound(MarkFour(forgotten, Orthogonal[c], Columns))
      /\ Moves(forgotten, MarkFour(forgotten, Orthogonal[c], Columns),
               Members(Orthogonal[c]) \cap Columns)
  BY <1>1, <1>3, MarkFourMoves
<1>6. r = MarkFour(forgotten, Orthogonal[c], Columns)
  BY DEF MarkColumnUnloaded, forgotten
<1> QED
  BY <1>1, <1>2, <1>4, <1>5, <1>6, MovesCompose

-----------------------------------------------------------------------------
(* Which columns are outstanding after an operation.                       *)

LEMMA MarkIfInOutstanding ==
  ASSUME NEW q, NEW c, NEW W
  PROVE  Outstanding(MarkIfIn(q, c, W)) = Outstanding(q) \cup ({c} \cap W)
BY DEF MarkIfIn, MarkDirty, Outstanding

LEMMA MarkFourOutstanding ==
  ASSUME NEW q, NEW four \in Fours, NEW W \in SUBSET Columns
  PROVE  Outstanding(MarkFour(q, four, W)) = Outstanding(q) \cup (Members(four) \cap W)
<1> DEFINE one == MarkIfIn(q, four[1], W)
           two == MarkIfIn(one, four[2], W)
           three == MarkIfIn(two, four[3], W)
           at(i) == {four[i]} \cap W
<1>1. Outstanding(one) = Outstanding(q) \cup at(1)
  BY MarkIfInOutstanding
<1> HIDE DEF one
<1>2. Outstanding(two) = Outstanding(one) \cup at(2)
  BY MarkIfInOutstanding
<1> HIDE DEF two
<1>3. Outstanding(three) = Outstanding(two) \cup at(3)
  BY MarkIfInOutstanding
<1> HIDE DEF three
<1>4. Outstanding(MarkIfIn(three, four[4], W)) = Outstanding(three) \cup at(4)
  BY MarkIfInOutstanding
<1>5. MarkFour(q, four, W) = MarkIfIn(three, four[4], W)
  BY DEF MarkFour, three, two, one
<1>6. ((at(1) \cup at(2)) \cup at(3)) \cup at(4) = Members(four) \cap W
  BY GeometryAssumption DEF Members, Fours
<1> HIDE DEF at
<1> QED
  BY <1>1, <1>2, <1>3, <1>4, <1>5, <1>6

\* Neither forgets what it is not about: only an unload and a current build
\* make a column stop being outstanding.
LEMMA MarkColumnUnloadedOutstanding ==
  ASSUME NEW q, NEW c \in Columns
  PROVE  Outstanding(MarkColumnUnloaded(q, c))
           = (Outstanding(q) \ {c}) \cup Members(Orthogonal[c])
<1>1. Orthogonal[c] \in Fours /\ Members(Orthogonal[c]) \cap Columns = Members(Orthogonal[c])
  BY GeometryAssumption DEF Members, Fours
<1>2. Outstanding(Forget(q, c)) = Outstanding(q) \ {c}
  BY DEF Forget, Outstanding
<1> QED
  BY <1>1, <1>2, MarkFourOutstanding DEF MarkColumnUnloaded

LEMMA MarkRunningOutstanding ==
  ASSUME NEW q, Sound(q), NEW c, NEW g
  PROVE  Outstanding(MarkRunning(q, c, g)) = Outstanding(q)
BY DEF MarkRunning, WithPhase, Outstanding

LEMMA CompleteOutstanding ==
  ASSUME NEW q, NEW c, NEW g
  PROVE  Outstanding(q) \ (IF Carries(q, c, g) THEN {c} ELSE {}) \subseteq Outstanding(Complete(q, c, g))
<1>1. CASE Carries(q, c, g)
  BY <1>1 DEF Complete, Carries, Forget, Outstanding
<1>2. CASE c \notin Outstanding(q)
  BY <1>2 DEF Complete, Carries, MarkDirty, Outstanding
<1>3. CASE c \in Outstanding(q) /\ ~Carries(q, c, g) /\ q.states[c].phase = "Running"
  BY <1>3 DEF Complete, WaitAgain, WithPhase, Outstanding
<1>4. CASE c \in Outstanding(q) /\ ~Carries(q, c, g) /\ q.states[c].phase # "Running"
  BY <1>4 DEF Complete, Outstanding
<1> QED
  BY <1>1, <1>2, <1>3, <1>4

-----------------------------------------------------------------------------
(* The builds: what the queue would accept is current.                     *)

\* The strengthening: no column and no job is ahead of the counter.
JobsBounded == \A job \in JobSet : job.generation <= queue.next

IInv == TypeOK /\ Bounded(queue) /\ JobsBounded /\ AcceptedIsCurrent

BlocksOf(w, c) == IF w[c] = Absent THEN << >> ELSE BlocksSeen(w, c)

-----------------------------------------------------------------------------
\* A build's blocks do not depend on the light.
LEMMA BuildBlocks ==
  ASSUME NEW w, NEW l, NEW c PROVE Build(w, l, c).blocks = BlocksOf(w, c)
BY DEF Build, BlocksOf, EmptyBuild

\* A build is one of the column's.
LEMMA BuildType ==
  ASSUME NEW w \in [Columns -> Stamps], NEW l \in [Columns -> Stamps], NEW c \in Columns
  PROVE  Build(w, l, c) \in BuildsOf(c)
<1>1. Sight(c) \subseteq Columns
  BY GeometryAssumption DEF Sight, Members, Fours
<1>2. [d \in Sight(c) |-> w[d]] \in [Sight(c) -> Stamps]
  BY <1>1
<1>3. [d \in Sight(c) |-> l[d]] \in [Sight(c) -> Stamps]
  BY <1>1
<1> QED
  BY <1>2, <1>3 DEF Build, BuildsOf, BlocksSeen

\* A mark reaches far enough: if every changed column is marked with its
\* loaded neighbours, a column that was not marked is built as before.
LEMMA UnmarkedBuild ==
  ASSUME NEW w \in [Columns -> Stamps], NEW v \in [Columns -> Stamps], NEW S,
         \A a \in Columns : w[a] # v[a] =>
            a \in S /\ Members(Orthogonal[a]) \cap Loaded(v) \subseteq S,
         NEW c \in Columns, c \notin S
  PROVE  BlocksOf(v, c) = BlocksOf(w, c)
<1>1. v[c] = w[c]
  OBVIOUS
<1>2. CASE w[c] = Absent
  BY <1>1, <1>2 DEF BlocksOf
<1>3. CASE w[c] # Absent
  <2>1. ASSUME NEW d \in Sight(c) PROVE v[d] = w[d]
    <3>1. d \in Columns
      BY GeometryAssumption DEF Sight, Members, Fours
    <3>2. CASE d = c
      BY <1>1, <3>2
    <3>3. CASE d \in Members(Orthogonal[c])
      <4>1. c \in Members(Orthogonal[d])
        BY <3>1, <3>3, SymmetryAssumption
      <4>2. c \in Loaded(v)
        BY <1>1, <1>3 DEF Loaded
      <4> QED
        BY <3>1, <4>1, <4>2
    <3> QED
      BY <3>2, <3>3 DEF Sight
  <2> QED
    BY <1>1, <1>3, <2>1 DEF BlocksOf, BlocksSeen
<1> QED
  BY <1>2, <1>3

\* Marks that reach far enough keep the accepted builds current, when no job
\* is added.
LEMMA AcceptedPreserved ==
  ASSUME IInv, Sound(queue'), NEW S, Moves(queue, queue', S),
         JobSet' \subseteq JobSet,
         \A c \in Columns \ S : BlocksOf(world', c) = BlocksOf(world, c)
  PROVE  Bounded(queue)' /\ JobsBounded' /\ AcceptedIsCurrent'
<1>1. /\ queue.next \in Nat /\ queue'.next \in Nat /\ queue.next <= queue'.next
      /\ Outstanding(queue') \subseteq Columns
      /\ \A c \in Outstanding(queue') : queue'.states[c].generation \in Nat
  BY SoundFields DEF IInv, TypeOK, Sound, Moves, ColumnStates
<1>2. \A job \in JobSet : job.generation \in Nat /\ job.generation <= queue.next
  BY DEF IInv, TypeOK, JobsBounded, JobSet, AllJobs
<1>3. JobsBounded'
  BY <1>1, <1>2 DEF JobsBounded
<1>4. ASSUME NEW job \in JobSet', Carries(queue, job.column, job.generation)'
      PROVE  job.build.blocks = Build(world, light, job.column).blocks'
  <2> DEFINE c == job.column
  <2>1. c \in Outstanding(queue') /\ queue'.states[c].generation = job.generation
    BY <1>4 DEF Carries
  <2>2. c \notin S
    BY <1>1, <1>2, <2>1 DEF Moves
  <2>3. c \in Outstanding(queue) /\ queue.states[c].generation = job.generation
    BY <2>1, <2>2 DEF Moves
  <2>4. job.build.blocks = BlocksOf(world, c)
    BY <2>3, BuildBlocks DEF IInv, AcceptedIsCurrent, Carries
  <2>5. Build(world, light, job.column).blocks' = BlocksOf(world', c)
    BY BuildBlocks
  <2> QED
    BY <1>1, <2>1, <2>2, <2>4, <2>5
<1> QED
  BY <1>3, <1>4 DEF AcceptedIsCurrent, Sound

\* The same when the queue and the world stay.
LEMMA QuietStep ==
  ASSUME IInv, UNCHANGED <<queue, world>>, JobSet' \subseteq JobSet
  PROVE  Bounded(queue)' /\ JobsBounded' /\ AcceptedIsCurrent'
<1>1. Sound(queue) /\ Sound(queue')
  BY DEF IInv, TypeOK, Sound, Bounded, IsQueue, Outstanding
<1>2. Moves(queue, queue', {})
  BY <1>1, SoundFields DEF Moves
<1> QED
  BY <1>1, <1>2, AcceptedPreserved

-----------------------------------------------------------------------------
\* What the marks of a packet reach.
LEMMA MarkColumnChangedMoves ==
  ASSUME NEW q, Sound(q), NEW c \in Columns, NEW w
  PROVE  LET r == MarkColumnChanged(q, w, c)
         IN  Sound(r) /\ Moves(q, r, {c} \cup (Members(Orthogonal[c]) \cap Loaded(w)))
<1> DEFINE marked == MarkDirty(q, c)
           r == MarkFour(marked, Orthogonal[c], Loaded(w))
<1>1. Sound(marked) /\ Moves(q, marked, {c})
  BY MarkDirtyMoves
<1> HIDE DEF marked
<1>2. Orthogonal[c] \in Fours /\ Loaded(w) \in SUBSET Columns
  BY GeometryAssumption DEF Loaded
<1>3. Sound(r) /\ Moves(marked, r, Members(Orthogonal[c]) \cap Loaded(w))
  BY <1>1, <1>2, MarkFourMoves
<1>4. r = MarkColumnChanged(q, w, c)
  BY DEF MarkColumnChanged, marked
<1> HIDE DEF r
<1> QED
  BY <1>1, <1>3, <1>4, MovesCompose

LEMMA MarkRecomputeRegionMoves ==
  ASSUME NEW q, Sound(q), NEW c \in Columns, NEW w
  PROVE  LET r == MarkRecomputeRegion(q, w, c)
         IN  /\ Sound(r)
             /\ \E S : /\ {c} \cup (Members(Orthogonal[c]) \cap Loaded(w)) \subseteq S
                       /\ Moves(q, r, S)
<1> DEFINE changed == MarkColumnChanged(q, w, c)
           near == {c} \cup (Members(Orthogonal[c]) \cap Loaded(w))
           r == MarkFour(changed, Diagonal[c], Loaded(w))
<1>1. Sound(changed) /\ Moves(q, changed, near)
  BY MarkColumnChangedMoves
<1> HIDE DEF changed
<1>2. Diagonal[c] \in Fours /\ Loaded(w) \in SUBSET Columns
  BY GeometryAssumption DEF Loaded
<1>3. Sound(r) /\ Moves(changed, r, Members(Diagonal[c]) \cap Loaded(w))
  BY <1>1, <1>2, MarkFourMoves
<1>4. r = MarkRecomputeRegion(q, w, c)
  BY DEF MarkRecomputeRegion, changed
<1> HIDE DEF r, near
<1>5. Moves(q, r, near \cup (Members(Diagonal[c]) \cap Loaded(w)))
  BY <1>1, <1>3, MovesCompose
<1> QED
  BY <1>3, <1>4, <1>5 DEF near

LEMMA BulkMarkMoves ==
  ASSUME NEW q, Sound(q), NEW c \in Columns, NEW w
  PROVE  LET r == BulkMark(q, w, c)
         IN  /\ Sound(r)
             /\ \E S : /\ {c} \cup (Members(Orthogonal[c]) \cap Loaded(w)) \subseteq S
                       /\ Moves(q, r, S)
<1>1. CASE w[c] # Absent
  <2>1. BulkMark(q, w, c) = MarkColumnChanged(q, w, c)
    BY <1>1 DEF BulkMark
  <2> DEFINE near == {c} \cup (Members(Orthogonal[c]) \cap Loaded(w))
  <2>2. Sound(BulkMark(q, w, c)) /\ Moves(q, BulkMark(q, w, c), near)
    BY <2>1, MarkColumnChangedMoves
  <2>3. near \subseteq near
    OBVIOUS
  <2> QED
    BY <2>2, <2>3
<1>2. CASE w[c] = Absent
  <2>1. BulkMark(q, w, c) = MarkColumnUnloaded(q, c)
    BY <1>2 DEF BulkMark
  <2>2. {c} \cup (Members(Orthogonal[c]) \cap Loaded(w)) \subseteq {c} \cup Members(Orthogonal[c])
    OBVIOUS
  <2> QED
    BY <2>1, <2>2, MarkColumnUnloadedMoves
<1> QED
  BY <1>1, <1>2

-----------------------------------------------------------------------------
\* A step of a handler that changes the world and marks far enough.
LEMMA HandledStep ==
  ASSUME IInv, Sound(queue'), world' \in [Columns -> Stamps],
         NEW S, Moves(queue, queue', S), UNCHANGED <<building, results>>,
         \A a \in Columns : world[a] # world'[a] =>
            a \in S /\ Members(Orthogonal[a]) \cap Loaded(world') \subseteq S
  PROVE  Bounded(queue)' /\ JobsBounded' /\ AcceptedIsCurrent'
<1>1. \A c \in Columns \ S : BlocksOf(world', c) = BlocksOf(world, c)
  BY UnmarkedBuild DEF IInv, TypeOK
<1>2. JobSet' = JobSet
  BY DEF JobSet
<1> QED
  BY <1>1, <1>2, AcceptedPreserved

\* The stamp of the packet in hand is a stamp.
LEMMA StampType ==
  ASSUME IInv, InWorld PROVE Stamp \in Stamps /\ Stamp # Absent /\ changes' \in 0 .. MaxChanges
BY BoundsAssumption DEF IInv, TypeOK, InWorld, Stamp, Stamps, Absent

LEMMA InitInv == Init => IInv
<1> SUFFICES ASSUME Init PROVE IInv
  OBVIOUS
<1>1. Sound(queue)
  BY NewSound DEF Init
<1>2. DOMAIN building = {} /\ IsABag(building)
  BY DEF Init, EmptyBag, SetToBag, IsABag
<1>3. JobSet = {}
  BY <1>2 DEF Init, JobSet
<1>4. EmptyWorld \in [Columns -> Stamps]
  BY BoundsAssumption DEF EmptyWorld, Stamps, Absent
<1>5. TypeOK
  BY <1>1, <1>2, <1>4, BoundsAssumption DEF Init, TypeOK, Sound
<1> QED
  BY <1>1, <1>3, <1>5 DEF IInv, Sound, JobsBounded, AcceptedIsCurrent

-----------------------------------------------------------------------------
(* Every action keeps the invariant.                                       *)

LEMMA JoinGameStep == ASSUME IInv, JoinGame PROVE IInv'
<1>1. Sound(queue) /\ queue' = ClearInPlace(queue)
  BY DEF IInv, Sound, JoinGame, TypeOK
<1>2. Sound(queue') /\ Moves(queue, queue', Columns)
  BY <1>1, ClearSound
<1>3. EmptyWorld \in [Columns -> Stamps]
  BY BoundsAssumption DEF EmptyWorld, Stamps, Absent
<1>4. TypeOK'
  BY <1>2, <1>3, BoundsAssumption
     DEF IInv, TypeOK, JoinGame, Handle, session, Sound, IsQueue, Outstanding
<1>5. \A a \in Columns : Members(Orthogonal[a]) \cap Loaded(world') \subseteq Columns
  BY DEF Loaded
<1> QED
  BY <1>2, <1>3, <1>4, <1>5, HandledStep DEF IInv, JoinGame, Handle

LEMMA RespawnStep == ASSUME IInv, RespawnElsewhere PROVE IInv'
<1>1. Sound(queue) /\ queue' = ClearInPlace(queue)
  BY DEF IInv, Sound, RespawnElsewhere, TypeOK
<1>2. Sound(queue') /\ Moves(queue, queue', Columns)
  BY <1>1, ClearSound
<1>3. EmptyWorld \in [Columns -> Stamps]
  BY BoundsAssumption DEF EmptyWorld, Stamps, Absent
<1>4. events' \in Seq(Reports)
  BY DEF IInv, TypeOK, RespawnElsewhere, Reports
<1>5. changes' \in 0 .. MaxChanges
  BY StampType DEF RespawnElsewhere
<1>6. TypeOK'
  BY <1>2, <1>3, <1>4, <1>5
     DEF IInv, TypeOK, RespawnElsewhere, InWorld, Handle, session, Sound, IsQueue, Outstanding
<1>7. \A a \in Columns : Members(Orthogonal[a]) \cap Loaded(world') \subseteq Columns
  BY DEF Loaded
<1> QED
  BY <1>2, <1>3, <1>6, <1>7, HandledStep DEF IInv, RespawnElsewhere, InWorld, Handle

LEMMA ChunkDataStep == ASSUME IInv, NEW c \in Columns, ChunkData(c) PROVE IInv'
<1> DEFINE S == {c} \cup (Members(Orthogonal[c]) \cap Loaded(world'))
<1>1. Sound(queue) /\ queue' = MarkColumnChanged(queue, world', c)
  BY DEF IInv, Sound, ChunkData, TypeOK
<1>2. Sound(queue') /\ Moves(queue, queue', S)
  BY <1>1, MarkColumnChangedMoves
<1>3. Stamp \in Stamps /\ changes' \in 0 .. MaxChanges
  BY StampType DEF ChunkData
<1>4. /\ world' \in [Columns -> Stamps] /\ light' \in [Columns -> Stamps]
      /\ \A a \in Columns : world[a] # world'[a] => a = c
  BY <1>3 DEF IInv, TypeOK, ChunkData
<1>5. TypeOK'
  BY <1>2, <1>3, <1>4
     DEF IInv, TypeOK, ChunkData, InWorld, Handle, session, Sound, IsQueue, Outstanding
<1>6. \A a \in Columns : world[a] # world'[a] =>
        a \in S /\ Members(Orthogonal[a]) \cap Loaded(world') \subseteq S
  BY <1>4
<1>7. UNCHANGED <<building, results>>
  BY DEF ChunkData, InWorld, Handle
<1> HIDE DEF S
<1>8. Bounded(queue)' /\ JobsBounded' /\ AcceptedIsCurrent'
  BY <1>2, <1>4, <1>6, <1>7, HandledStep
<1> QED
  BY <1>5, <1>8 DEF IInv

LEMMA ChunkUnloadStep == ASSUME IInv, NEW c \in Columns, ChunkUnload(c) PROVE IInv'
<1> DEFINE S == {c} \cup Members(Orthogonal[c])
<1>1. Sound(queue) /\ queue' = MarkColumnUnloaded(queue, c)
  BY DEF IInv, Sound, ChunkUnload, TypeOK
<1>2. Sound(queue') /\ Moves(queue, queue', S)
  BY <1>1, MarkColumnUnloadedMoves
<1>3. Absent \in Stamps /\ changes' \in 0 .. MaxChanges
  BY StampType, BoundsAssumption DEF ChunkUnload, Stamps, Absent
<1>4. /\ world' \in [Columns -> Stamps] /\ light' \in [Columns -> Stamps]
      /\ \A a \in Columns : world[a] # world'[a] => a = c
  BY <1>3 DEF IInv, TypeOK, ChunkUnload
<1>5. events' \in Seq(Reports)
  BY DEF IInv, TypeOK, ChunkUnload, Reports
<1>6. TypeOK'
  BY <1>2, <1>3, <1>4, <1>5
     DEF IInv, TypeOK, ChunkUnload, InWorld, Handle, session, Sound, IsQueue, Outstanding
<1> QED
  BY <1>2, <1>4, <1>6, HandledStep DEF IInv, ChunkUnload, InWorld, Handle

LEMMA BlockChangeStep == ASSUME IInv, NEW c \in Columns, BlockChange(c) PROVE IInv'
<1>1. Sound(queue) /\ queue' = MarkRecomputeRegion(queue, world, c)
  BY DEF IInv, Sound, BlockChange, TypeOK
<1>2. Stamp \in Stamps /\ Stamp # Absent /\ changes' \in 0 .. MaxChanges
  BY StampType DEF BlockChange
<1>3. /\ world' \in [Columns -> Stamps] /\ light' \in [Columns -> Stamps]
      /\ \A a \in Columns : world[a] # world'[a] => a = c
      /\ Loaded(world') = Loaded(world)
  BY <1>2 DEF IInv, TypeOK, BlockChange, Loaded
<1>4. PICK S : /\ {c} \cup (Members(Orthogonal[c]) \cap Loaded(world)) \subseteq S
               /\ Moves(queue, queue', S)
  BY <1>1, MarkRecomputeRegionMoves
<1>5. Sound(queue')
  BY <1>1, MarkRecomputeRegionMoves
<1>6. TypeOK'
  BY <1>2, <1>3, <1>5
     DEF IInv, TypeOK, BlockChange, InWorld, Handle, session, Sound, IsQueue, Outstanding
<1>7. \A a \in Columns : world[a] # world'[a] =>
        a \in S /\ Members(Orthogonal[a]) \cap Loaded(world') \subseteq S
  BY <1>3, <1>4
<1>8. UNCHANGED <<building, results>>
  BY DEF BlockChange, InWorld, Handle
<1>9. Bounded(queue)' /\ JobsBounded' /\ AcceptedIsCurrent'
  BY <1>3, <1>4, <1>5, <1>7, <1>8, HandledStep
<1> QED
  BY <1>6, <1>9 DEF IInv

LEMMA BulkStep ==
  ASSUME IInv, NEW c \in BulkColumns, NEW d \in BulkColumns, NEW loads \in SUBSET {c, d},
         MapChunkBulk(c, d, loads)
  PROVE  IInv'
<1> DEFINE one == BulkMark(queue, world', c)
           Reach(x) == {x} \cup (Members(Orthogonal[x]) \cap Loaded(world'))
<1>1. c \in Columns /\ d \in Columns /\ Sound(queue)
  BY BoundsAssumption DEF IInv, TypeOK, Sound
<1>2. Sound(one) /\ \E S : Reach(c) \subseteq S /\ Moves(queue, one, S)
  BY <1>1, BulkMarkMoves
<1>3. queue' = BulkMark(one, world', d)
  BY DEF MapChunkBulk
<1> HIDE DEF one
<1>4. Sound(queue') /\ \E T : Reach(d) \subseteq T /\ Moves(one, queue', T)
  BY <1>1, <1>2, <1>3, BulkMarkMoves
<1>5. PICK S : Reach(c) \subseteq S /\ Moves(queue, one, S)
  BY <1>2
<1>6. PICK T : Reach(d) \subseteq T /\ Moves(one, queue', T)
  BY <1>4
<1>7. Moves(queue, queue', S \cup T)
  BY <1>1, <1>2, <1>4, <1>5, <1>6, MovesCompose
<1>8. Stamp \in Stamps /\ Absent \in Stamps /\ changes' \in 0 .. MaxChanges
  BY StampType, BoundsAssumption DEF MapChunkBulk, Stamps, Absent
<1>9. /\ world' \in [Columns -> Stamps] /\ light' \in [Columns -> Stamps]
      /\ \A a \in Columns : world[a] # world'[a] => a \in {c, d}
  BY <1>8 DEF IInv, TypeOK, MapChunkBulk, ApplyBulk
<1>10. events' \in Seq(Reports)
  <2>1. Unloaded(c) \in Reports /\ Unloaded(d) \in Reports
    BY <1>1 DEF Reports
  <2>2. (IF c \in loads THEN <<>> ELSE <<Unloaded(c)>>) \in Seq(Reports)
    BY <2>1
  <2>3. (IF d \in loads THEN <<>> ELSE <<Unloaded(d)>>) \in Seq(Reports)
    BY <2>1
  <2> QED
    BY <2>2, <2>3 DEF IInv, TypeOK, MapChunkBulk
<1>11. TypeOK'
  BY <1>4, <1>8, <1>9, <1>10
     DEF IInv, TypeOK, MapChunkBulk, InWorld, Handle, session, Sound, IsQueue, Outstanding
<1>12. \A a \in Columns : world[a] # world'[a] =>
         a \in S \cup T /\ Members(Orthogonal[a]) \cap Loaded(world') \subseteq S \cup T
  BY <1>5, <1>6, <1>9
<1>13. UNCHANGED <<building, results>>
  BY DEF MapChunkBulk, InWorld, Handle
<1>14. Bounded(queue)' /\ JobsBounded' /\ AcceptedIsCurrent'
  BY <1>4, <1>7, <1>9, <1>12, <1>13, HandledStep
<1> QED
  BY <1>11, <1>14 DEF IInv

LEMMA RebuildMeshesStep == ASSUME IInv, RebuildMeshes PROVE IInv'
<1>1. changes' \in 0 .. MaxChanges
  BY StampType DEF RebuildMeshes
<1>2. TypeOK'
  BY <1>1 DEF IInv, TypeOK, RebuildMeshes, InWorld, Handle, store, Loaded, IsQueue, Outstanding
<1> QED
  BY <1>2, QuietStep DEF IInv, RebuildMeshes, InWorld, Handle, store, JobSet

LEMMA RebuildMarkStep == ASSUME IInv, RebuildMark PROVE IInv'
<1>1. CASE UNCHANGED queue
  <2>1. TypeOK'
    BY <1>1 DEF IInv, TypeOK, RebuildMark, store, counts, IsQueue, Outstanding
  <2> QED
    BY <1>1, <2>1, QuietStep DEF IInv, RebuildMark, store, JobSet
<1>2. CASE \E c \in unmarked : queue' = MarkDirty(queue, c) /\ unmarked' = unmarked \ {c} /\ pc' = pc
  <2>1. PICK c \in unmarked : queue' = MarkDirty(queue, c) /\ unmarked' = unmarked \ {c} /\ pc' = pc
    BY <1>2
  <2>2. Sound(queue) /\ c \in Columns
    BY DEF IInv, TypeOK, Sound
  <2>3. Sound(queue') /\ Moves(queue, queue', {c})
    BY <2>1, <2>2, MarkDirtyMoves
  <2>4. TypeOK'
    BY <2>1, <2>3 DEF IInv, TypeOK, RebuildMark, store, counts, Sound, IsQueue, Outstanding
  <2>5. UNCHANGED <<world, building, results>> /\ world \in [Columns -> Stamps]
    BY DEF RebuildMark, store, IInv, TypeOK
  <2> QED
    BY <2>3, <2>4, <2>5, HandledStep DEF IInv
<1> QED
  BY <1>1, <1>2 DEF RebuildMark

\* The steps of the session that leave the queue, the world and the builds.
LEMMA SessionStep ==
  ASSUME IInv, Idle \/ SpawnDone \/ DrainDone
  PROVE  IInv'
<1>1. UNCHANGED <<queue, world, building, results>>
  BY DEF Idle, SpawnDone, DrainDone, store
<1>2. TypeOK'
  BY BoundsAssumption
     DEF IInv, TypeOK, Idle, SpawnDone, DrainDone, store, counts, Pumping, Finishing,
         IsQueue, Outstanding
<1> QED
  BY <1>1, <1>2, QuietStep DEF IInv, JobSet

\* The steps that end the session, or start another round of its last pump.
LEMMA EndStep ==
  ASSUME IInv, StreamEnd \/ SessionFails \/ FinishRound \/ FinishDeadline
  PROVE  IInv'
<1>1. /\ UNCHANGED <<queue, world, light, changes, joins, unmarked, events, shown>>
      /\ left' \in 0 .. PumpCap
      /\ pc' \in {"over", "gaveUp", "finishSpawn"}
  BY BoundsAssumption
     DEF IInv, TypeOK, StreamEnd, SessionFails, FinishRound, FinishDeadline, Return, store, counts
<1>2. \/ UNCHANGED <<building, results>>
      \/ building' = EmptyBag /\ results' = <<>>
  BY DEF StreamEnd, SessionFails, FinishRound, FinishDeadline, Return
<1>3. DOMAIN EmptyBag = {} /\ IsABag(EmptyBag)
  BY DEF EmptyBag, SetToBag, IsABag
<1>4. JobSet' \subseteq JobSet
  BY <1>2, <1>3 DEF JobSet
<1>5. /\ IsABag(building)' /\ (DOMAIN building \subseteq AllJobs)'
      /\ (results \in Seq(AllJobs))'
  <2>1. CASE UNCHANGED <<building, results>>
    BY <2>1 DEF IInv, TypeOK, IsABag
  <2>2. CASE building' = EmptyBag /\ results' = <<>>
    BY <1>3, <2>2 DEF IsABag
  <2> QED
    BY <1>2, <2>1, <2>2
<1>6. TypeOK'
  BY <1>1, <1>5 DEF IInv, TypeOK, Finishing, IsQueue, Outstanding
<1> QED
  BY <1>1, <1>4, <1>6, QuietStep DEF IInv

\* A bag with one element more.
LEMMA BagAdd ==
  ASSUME NEW B, IsABag(B), NEW x
  PROVE  LET R == B (+) SetToBag({x})
         IN  IsABag(R) /\ DOMAIN R = DOMAIN B \cup {x}
BY DEF IsABag, (+), SetToBag

\* A bag with one element less.
LEMMA BagTake ==
  ASSUME NEW B, IsABag(B), NEW x, BagIn(x, B)
  PROVE  LET R == B (-) SetToBag({x})
         IN  IsABag(R) /\ DOMAIN R \subseteq DOMAIN B
BY DEF IsABag, (-), SetToBag, BagIn, BagToSet

\* A spawned build carries the blocks that stand now.
LEMMA SpawnStep == ASSUME IInv, Spawn PROVE IInv'
<1> DEFINE c == NextColumn(queue)
           job == Jobs(c, NextGeneration(queue), Build(world, light, c))
<1>1. /\ Sound(queue) /\ c \in Outstanding(queue) /\ c \in Columns
      /\ queue.states[c].generation = NextGeneration(queue)
      /\ NextGeneration(queue) \in Nat /\ NextGeneration(queue) <= queue.next
  BY SoundFields DEF IInv, TypeOK, Spawn, HasJob, NextColumn, NextGeneration, Sound, Bounded,
     ColumnStates, IsQueue
<1>2. queue' = MarkRunning(queue, c, NextGeneration(queue))
  BY DEF Spawn
<1>3. building' = building (+) SetToBag({job})
  BY DEF Spawn
<1>4. Build(world, light, c) \in BuildsOf(c)
  BY <1>1, BuildType DEF IInv, TypeOK
<1>5. job.build.blocks = BlocksOf(world, c) /\ job.column = c
      /\ job.generation = NextGeneration(queue)
  BY BuildBlocks DEF Jobs
<1>6. job \in AllJobs
  BY <1>1, <1>4 DEF AllJobs, Jobs
<1> HIDE DEF c, job
<1>7. Sound(queue') /\ Moves(queue, queue', {})
  BY <1>1, <1>2, MarkRunningMoves
<1>8. IsABag(building') /\ DOMAIN building' = DOMAIN building \cup {job}
  BY <1>3, BagAdd DEF IInv, TypeOK
<1>9. UNCHANGED <<world, light, changes, joins, results, events, shown, pc, unmarked>>
      /\ left' \in 0 .. PumpCap
  BY BoundsAssumption DEF Spawn, store, counts, IInv, TypeOK
<1>10. TypeOK'
  BY <1>6, <1>7, <1>8, <1>9 DEF IInv, TypeOK, Sound, IsABag
<1>11. JobSet' = JobSet \cup {job}
  BY <1>8, <1>9 DEF JobSet
<1>12. JobsBounded'
  <2>1. queue.next \in Nat /\ queue'.next \in Nat /\ queue.next <= queue'.next
    BY <1>1, <1>7, SoundFields DEF Moves
  <2>2. \A j \in JobSet : j.generation \in Nat /\ j.generation <= queue.next
    BY DEF IInv, TypeOK, JobsBounded, JobSet, AllJobs
  <2> QED
    BY <1>1, <1>5, <1>11, <2>1, <2>2 DEF JobsBounded
<1>13. ASSUME NEW j \in JobSet', Carries(queue, j.column, j.generation)'
       PROVE  j.build.blocks = Build(world, light, j.column).blocks'
  <2>1. Build(world, light, j.column).blocks' = BlocksOf(world, j.column)
    BY <1>9, BuildBlocks
  <2>2. CASE j = job
    BY <1>5, <2>1, <2>2
  <2>3. CASE j \in JobSet
    <3>1. Carries(queue, j.column, j.generation)
      BY <1>7, <1>13 DEF Moves, Carries
    <3>2. j.build.blocks = BlocksOf(world, j.column)
      BY <2>3, <3>1, BuildBlocks DEF IInv, AcceptedIsCurrent
    <3> QED
      BY <2>1, <3>2
  <2> QED
    BY <1>11, <2>2, <2>3
<1> QED
  BY <1>7, <1>10, <1>12, <1>13 DEF IInv, AcceptedIsCurrent, Sound

\* A drained build is reported only while it is current.
LEMMA DrainStep == ASSUME IInv, Drain PROVE IInv'
<1> DEFINE job == Head(results)
<1>1. job \in AllJobs /\ results' \in Seq(AllJobs) /\ results # <<>> /\ results' = Tail(results)
  BY DEF IInv, TypeOK, Drain
<1>2. job.column \in Columns /\ job.build \in BuildsOf(job.column)
  BY <1>1 DEF AllJobs
<1>3. Sound(queue) /\ queue' = Complete(queue, job.column, job.generation)
  BY DEF IInv, TypeOK, Sound, Drain
<1>4. events' \in Seq(Reports)
  <2>1. Updated(job.column, job.build) \in Reports
    BY <1>2 DEF Reports
  <2> QED
    BY <2>1 DEF IInv, TypeOK, Drain
<1>5. Sound(queue') /\ \E S \in SUBSET Columns : Moves(queue, queue', S)
  BY <1>2, <1>3, CompleteMoves
<1>6. UNCHANGED <<pc, left, unmarked, world, light, changes, joins, building, shown>>
  BY DEF Drain, session, store, counts
<1> HIDE DEF job
<1>7. TypeOK'
  BY <1>1, <1>4, <1>5, <1>6 DEF IInv, TypeOK, Sound, IsABag
<1>8. JobSet' \subseteq JobSet
  <2>1. results \in Seq(AllJobs)
    BY DEF IInv, TypeOK
  <2>2. \A i \in DOMAIN results' : i + 1 \in DOMAIN results /\ results'[i] = results[i + 1]
    BY <1>1, <2>1
  <2> QED
    BY <1>6, <2>2 DEF JobSet
<1>9. PICK S \in SUBSET Columns : Moves(queue, queue', S)
  BY <1>5
<1>10. \A d \in Columns \ S : BlocksOf(world', d) = BlocksOf(world, d)
  BY <1>6
<1> QED
  BY <1>5, <1>7, <1>8, <1>9, <1>10, AcceptedPreserved DEF IInv

\* A worker only moves its job from the pool to the channel.
LEMMA FinishStep == ASSUME IInv, NEW job, Finish(job) PROVE IInv'
<1>1. job \in DOMAIN building /\ job \in AllJobs
  BY DEF IInv, TypeOK, Finish, BagIn, BagToSet
<1>2. IsABag(building') /\ DOMAIN building' \subseteq DOMAIN building
  BY BagTake DEF IInv, TypeOK, Finish
<1>3. results \in Seq(AllJobs) /\ results' = Append(results, job)
  BY DEF IInv, TypeOK, Finish
<1>4. UNCHANGED <<pc, left, unmarked, world, light, changes, joins, queue, events, shown>>
  BY DEF Finish, session, store, counts
<1>5. TypeOK'
  BY <1>1, <1>2, <1>3, <1>4 DEF IInv, TypeOK, IsABag, IsQueue, Outstanding
<1>6. JobSet' \subseteq JobSet
  <2>1. \A i \in DOMAIN results' : results'[i] = job \/ (i \in DOMAIN results /\ results'[i] = results[i])
    BY <1>1, <1>3
  <2> QED
    BY <1>1, <1>2, <2>1 DEF JobSet
<1> QED
  BY <1>4, <1>5, <1>6, QuietStep DEF IInv

\* The last word on a column is one event.
LEMMA OneLastWord ==
  ASSUME NEW reports \in Seq(Reports), NEW c, NEW i \in DOMAIN reports, LastWord(reports, i, c)
  PROVE  (CHOOSE j \in DOMAIN reports : LastWord(reports, j, c)) = i
<1>1. \A j \in DOMAIN reports : LastWord(reports, j, c) => j = i
  BY DEF LastWord
<1> QED
  BY <1>1

\* What the window catches up with are builds of the columns it shows.
LEMMA CaughtType ==
  ASSUME TypeOK
  PROVE  DOMAIN Caught \subseteq Columns /\ \A c \in DOMAIN Caught : Caught[c] \in BuildsOf(c)
<1>1. DOMAIN Caught \subseteq Columns
  BY DEF Caught, CaughtUp
<1>2. ASSUME NEW c \in DOMAIN Caught PROVE Caught[c] \in BuildsOf(c)
  <2>1. StillHeld(events, shown, c)
    BY DEF Caught, CaughtUp
  <2>2. CASE ~Spoken(events, c)
    <3>1. c \in DOMAIN shown
      BY <2>1, <2>2 DEF StillHeld, Spoken, LastWord
    <3> QED
      BY <2>2, <3>1 DEF Caught, CaughtUp, TypeOK
  <2>3. CASE Spoken(events, c)
    <3>1. PICK i \in DOMAIN events : LastWord(events, i, c) /\ events[i].kind = "ChunkUpdated"
      BY <2>1, <2>3 DEF StillHeld
    <3>2. events \in Seq(Reports)
      BY DEF TypeOK
    <3>3. Caught[c] = events[i].build
      BY <2>3, <3>1, <3>2, OneLastWord DEF Caught, CaughtUp
    <3>4. events[i] \in Reports
      BY <3>1, <3>2
    <3>5. PICK d \in Columns : \E b \in BuildsOf(d) : events[i] = Updated(d, b)
      BY <3>1, <3>4 DEF Reports, Updated, Unloaded, Cleared
    <3>6. PICK b \in BuildsOf(d) : events[i] = Updated(d, b)
      BY <3>5
    <3>7. d = c
      BY <3>1, <3>6 DEF LastWord, SpeaksOf, Updated
    <3> QED
      BY <3>3, <3>6, <3>7 DEF Updated
  <2> QED
    BY <2>2, <2>3
<1> QED
  BY <1>1, <1>2

LEMMA FrameStep == ASSUME IInv, Frame PROVE IInv'
<1>1. DOMAIN shown' \subseteq Columns /\ \A c \in DOMAIN shown' : shown'[c] \in BuildsOf(c)
  BY CaughtType DEF Frame, IInv
<1>2. /\ UNCHANGED <<pc, left, unmarked, world, light, changes, joins, queue, building, results>>
      /\ events' = <<>>
  BY DEF Frame, session, store, counts
<1>3. TypeOK'
  BY <1>1, <1>2 DEF IInv, TypeOK, IsABag, IsQueue, Outstanding
<1> QED
  BY <1>2, <1>3, QuietStep DEF IInv, JobSet

LEMMA StutterStep == ASSUME IInv, UNCHANGED vars PROVE IInv'
<1>1. TypeOK'
  BY DEF IInv, TypeOK, vars, IsABag, IsQueue, Outstanding
<1> QED
  BY <1>1, QuietStep DEF IInv, vars, JobSet

-----------------------------------------------------------------------------
LEMMA NextInv == IInv /\ [Next]_vars => IInv'
<1> SUFFICES ASSUME IInv, [Next]_vars PROVE IInv'
  OBVIOUS
<1>1. CASE Packet
  BY <1>1, JoinGameStep, RespawnStep, RebuildMeshesStep, ChunkDataStep, ChunkUnloadStep,
     BlockChangeStep, BulkStep DEF Packet
<1>2. CASE RebuildMark
  BY <1>2, RebuildMarkStep
<1>3. CASE Idle
  BY <1>3, SessionStep
<1>4. CASE Pump
  BY <1>4, SpawnStep, DrainStep, SessionStep, EndStep DEF Pump
<1>5. CASE StreamEnd \/ SessionFails \/ FinishDeadline
  BY <1>5, EndStep
<1>6. CASE Pool
  BY <1>6, FinishStep DEF Pool
<1>7. CASE Frame
  BY <1>7, FrameStep
<1>8. CASE UNCHANGED vars
  BY <1>8, StutterStep
<1> QED
  BY <1>1, <1>2, <1>3, <1>4, <1>5, <1>6, <1>7, <1>8 DEF Next

\* The invariant the two theorems rest on.
THEOREM Invariance == Spec => []IInv
BY InitInv, NextInv, PTL DEF Spec

\* Every reachable state has its type: in particular every report names a
\* column of the store and a build made of that column and its collar.
THEOREM TypeCorrect == Spec => []TypeOK
<1>1. IInv => TypeOK
  BY DEF IInv
<1> QED
  BY Invariance, <1>1, PTL

\* complete never takes an old build for a current one: whatever came while
\* it was out, what drain_meshes reports has the blocks that stand now.
THEOREM LateBuildsRefused == Spec => []AcceptedIsCurrent
<1>1. IInv => AcceptedIsCurrent
  BY DEF IInv
<1> QED
  BY Invariance, <1>1, PTL

-----------------------------------------------------------------------------
(* The reports: no change is lost on its way to the window.                *)

\* The strengthening of NoChangeLost: only an F3+A rebuild leaves columns to
\* mark, nothing is loaded before Join Game, and the session that finished
\* had nothing to report or nothing outstanding.
Kept ==
  /\ NoChangeLost
  /\ pc # "rebuild" => unmarked = {}
  /\ joins = 0 => Loaded(world) = {}
  /\ pc = "over" => Loaded(world) = {} \/ Outstanding(queue) = {}

SafeInv == IInv /\ Kept

\* Two maps say the same of a column.
Agree(f, g, c) ==
  /\ c \in DOMAIN f <=> c \in DOMAIN g
  /\ c \in DOMAIN f => f[c] = g[c]

-----------------------------------------------------------------------------
(* What one more event changes of what a window catches up with.           *)

\* What is held of a column the events do not speak of, and of one they do.
LEMMA CaughtSilent ==
  ASSUME NEW reports, NEW held, NEW c \in Columns, ~Spoken(reports, c)
  PROVE  LET f == CaughtUp(reports, held)
         IN  /\ c \in DOMAIN f <=> c \in DOMAIN held
             /\ c \in DOMAIN f => f[c] = held[c]
<1>1. StillHeld(reports, held, c) <=> c \in DOMAIN held
  BY DEF StillHeld, Spoken, LastWord
<1> QED
  BY <1>1 DEF CaughtUp

LEMMA CaughtWord ==
  ASSUME NEW reports \in Seq(Reports), NEW held, NEW c \in Columns,
         NEW i \in DOMAIN reports, LastWord(reports, i, c)
  PROVE  LET f == CaughtUp(reports, held)
         IN  /\ c \in DOMAIN f <=> reports[i].kind = "ChunkUpdated"
             /\ c \in DOMAIN f => f[c] = reports[i].build
<1>1. (CHOOSE j \in DOMAIN reports : LastWord(reports, j, c)) = i
  BY OneLastWord
<1>2. Spoken(reports, c)
  BY DEF Spoken, LastWord
<1>3. \A j \in DOMAIN reports : LastWord(reports, j, c) => j = i
  BY <1>1, OneLastWord
<1>4. StillHeld(reports, held, c) <=> reports[i].kind = "ChunkUpdated"
  BY <1>2, <1>3 DEF StillHeld
<1> QED
  BY <1>1, <1>2, <1>4 DEF CaughtUp

\* An event that does not speak of the column changes nothing of it.
LEMMA SilentAppend ==
  ASSUME NEW reports \in Seq(Reports), NEW held, NEW e \in Reports, NEW c \in Columns,
         ~SpeaksOf(e, c)
  PROVE  Agree(CaughtUp(reports, held), CaughtUp(Append(reports, e), held), c)
<1> DEFINE more == Append(reports, e)
<1>1. /\ more \in Seq(Reports)
      /\ DOMAIN more = DOMAIN reports \cup {Len(reports) + 1}
      /\ more[Len(reports) + 1] = e
      /\ \A i \in DOMAIN reports : more[i] = reports[i]
  OBVIOUS
<1> HIDE DEF more
<1>2. Spoken(more, c) <=> Spoken(reports, c)
  BY <1>1 DEF Spoken
<1>3. \A i \in DOMAIN reports : LastWord(more, i, c) <=> LastWord(reports, i, c)
  BY <1>1 DEF LastWord
<1>4. ~LastWord(more, Len(reports) + 1, c)
  BY <1>1 DEF LastWord
<1>5. CASE ~Spoken(reports, c)
  BY <1>2, <1>5, CaughtSilent DEF Agree, more
<1>6. CASE \E i \in DOMAIN reports : LastWord(reports, i, c)
  <2>1. PICK i \in DOMAIN reports : LastWord(reports, i, c)
    BY <1>6
  <2>2. i \in DOMAIN more /\ LastWord(more, i, c) /\ more[i] = reports[i]
    BY <1>1, <1>3, <2>1
  <2>3. Agree(CaughtUp(reports, held), CaughtUp(more, held), c)
    BY <1>1, <2>1, <2>2, CaughtWord DEF Agree
  <2> QED
    BY <2>3 DEF more
<1>7. CASE Spoken(reports, c) /\ ~\E i \in DOMAIN reports : LastWord(reports, i, c)
  <2>1. c \notin DOMAIN CaughtUp(reports, held)
    BY <1>7 DEF CaughtUp, StillHeld
  <2>2. c \notin DOMAIN CaughtUp(more, held)
    BY <1>1, <1>2, <1>3, <1>4, <1>7 DEF CaughtUp, StillHeld
  <2> QED
    BY <2>1, <2>2 DEF Agree, more
<1> QED
  BY <1>5, <1>6, <1>7

\* An event that speaks of the column is its last word.
LEMMA SpokenAppend ==
  ASSUME NEW reports \in Seq(Reports), NEW held, NEW e \in Reports, NEW c \in Columns,
         SpeaksOf(e, c)
  PROVE  LET new == CaughtUp(Append(reports, e), held)
         IN  /\ c \in DOMAIN new <=> e.kind = "ChunkUpdated"
             /\ c \in DOMAIN new => new[c] = e.build
<1> DEFINE more == Append(reports, e)
           n == Len(reports) + 1
<1>1. /\ more \in Seq(Reports)
      /\ n \in DOMAIN more /\ more[n] = e
      /\ \A i \in DOMAIN more : i <= n
  OBVIOUS
<1> HIDE DEF more, n
<1>2. LastWord(more, n, c)
  BY <1>1 DEF LastWord
<1>3. /\ c \in DOMAIN CaughtUp(more, held) <=> e.kind = "ChunkUpdated"
      /\ c \in DOMAIN CaughtUp(more, held) => CaughtUp(more, held)[c] = e.build
  BY <1>1, <1>2, CaughtWord
<1> QED
  BY <1>3 DEF more

\* A frame leaves what there was to catch up with.
LEMMA CaughtAfterFrame ==
  ASSUME TypeOK, Frame PROVE Caught' = Caught
<1>1. events' = <<>> /\ shown' = Caught
  BY DEF Frame
<1>2. DOMAIN Caught \subseteq Columns
  BY CaughtType
<1>3. Caught = [c \in DOMAIN Caught |-> Caught[c]]
  BY DEF Caught, CaughtUp
<1>4. \A c : ~Spoken(events', c)
  BY <1>1 DEF Spoken
<1>5. \A c : StillHeld(events', shown', c) <=> c \in DOMAIN Caught
  BY <1>1, <1>4 DEF StillHeld, LastWord
<1>6. {d \in Columns : StillHeld(events', shown', d)} = DOMAIN Caught
  BY <1>2, <1>5
<1>7. CaughtUp(events', shown') = [c \in DOMAIN Caught |-> shown'[c]]
  BY <1>4, <1>6 DEF CaughtUp
<1>8. Caught' = CaughtUp(events', shown')
  BY DEF Caught
<1> QED
  BY <1>1, <1>3, <1>7, <1>8

-----------------------------------------------------------------------------
\* What the marks of a packet leave outstanding.
LEMMA MarkColumnChangedOutstanding ==
  ASSUME NEW q, NEW w, NEW c \in Columns
  PROVE  Outstanding(MarkColumnChanged(q, w, c))
           = Outstanding(q) \cup ({c} \cup (Members(Orthogonal[c]) \cap Loaded(w)))
<1>1. Orthogonal[c] \in Fours /\ Loaded(w) \in SUBSET Columns
  BY GeometryAssumption DEF Loaded
<1>2. Outstanding(MarkDirty(q, c)) = Outstanding(q) \cup {c}
  BY DEF MarkDirty, Outstanding
<1> QED
  BY <1>1, <1>2, MarkFourOutstanding DEF MarkColumnChanged

LEMMA MarkRecomputeRegionOutstanding ==
  ASSUME NEW q, NEW w, NEW c \in Columns
  PROVE  Outstanding(q) \cup ({c} \cup (Members(Orthogonal[c]) \cap Loaded(w)))
           \subseteq Outstanding(MarkRecomputeRegion(q, w, c))
<1>1. Diagonal[c] \in Fours /\ Loaded(w) \in SUBSET Columns
  BY GeometryAssumption DEF Loaded
<1> QED
  BY <1>1, MarkColumnChangedOutstanding, MarkFourOutstanding DEF MarkRecomputeRegion

LEMMA BulkMarkOutstanding ==
  ASSUME NEW q, NEW w, NEW c \in Columns
  PROVE  (Outstanding(q) \cup ({c} \cup Members(Orthogonal[c]))) \cap Loaded(w)
           \subseteq Outstanding(BulkMark(q, w, c))
<1>1. CASE w[c] # Absent
  BY <1>1, MarkColumnChangedOutstanding DEF BulkMark
<1>2. CASE w[c] = Absent
  BY <1>2, MarkColumnUnloadedOutstanding DEF BulkMark, Loaded
<1> QED
  BY <1>1, <1>2

-----------------------------------------------------------------------------
(* What keeps a change from being lost.                                    *)

\* A column of which the world, the queue and the window say the same.
LEMMA ColumnKept ==
  ASSUME NoChangeLost, NEW c \in Loaded(world), world'[c] = world[c],
         BlocksOf(world', c) = BlocksOf(world, c),
         c \notin Outstanding(queue), c \notin unmarked, Agree(Caught, Caught', c)
  PROVE  ShowsBlocks(Caught, c)'
<1>1. c \in DOMAIN Caught /\ Caught[c].blocks = BlocksSeen(world, c)
  BY DEF NoChangeLost, ShowsBlocks
<1>2. BlocksSeen(world', c) = BlocksSeen(world, c)
  BY DEF BlocksOf, Loaded
<1>3. c \in DOMAIN Caught' /\ Caught'[c] = Caught[c]
  BY <1>1 DEF Agree
<1> QED
  BY <1>1, <1>2, <1>3 DEF ShowsBlocks

\* A handler that writes to the world, marks what its writes reach, forgets
\* no loaded column, and tells the window of none it did not mark.
LEMMA WriteStep ==
  ASSUME SafeInv, pc = "read", world' \in [Columns -> Stamps], NEW S,
         \A a \in Columns : world[a] # world'[a] =>
            a \in S /\ Members(Orthogonal[a]) \cap Loaded(world') \subseteq S,
         (S \cup Outstanding(queue)) \cap Loaded(world') \subseteq Outstanding(queue'),
         \A c \in Loaded(world') \ S : Agree(Caught, Caught', c)
  PROVE  NoChangeLost'
<1> SUFFICES ASSUME NEW c \in Loaded(world'), c \notin Outstanding(queue')
             PROVE  ShowsBlocks(Caught, c)'
  BY DEF NoChangeLost, Loaded
<1>1. c \in Columns /\ c \notin S /\ c \notin Outstanding(queue)
  BY DEF Loaded
<1>2. world[c] = world'[c] /\ c \in Loaded(world)
  BY <1>1 DEF Loaded
<1>3. BlocksOf(world', c) = BlocksOf(world, c)
  BY <1>1, UnmarkedBuild DEF SafeInv, IInv, TypeOK
<1>4. unmarked = {}
  BY DEF SafeInv, Kept
<1> QED
  BY <1>1, <1>2, <1>3, <1>4, ColumnKept DEF SafeInv, Kept

\* The same of a step that keeps the store, the events and the window.
LEMMA QuietKept ==
  ASSUME SafeInv, UNCHANGED <<world, joins>>, Caught' = Caught,
         Outstanding(queue) \cup unmarked \subseteq Outstanding(queue') \cup unmarked'
  PROVE  NoChangeLost' /\ (joins' = 0 => Loaded(world') = {})
<1>1. ASSUME NEW c \in Loaded(world), c \notin Outstanding(queue') \cup unmarked'
      PROVE  ShowsBlocks(Caught, c)'
  BY <1>1, ColumnKept DEF SafeInv, Kept, Agree
<1> QED
  BY <1>1 DEF SafeInv, Kept, NoChangeLost

\* After a step of the play state there is a world to keep.
LEMMA PlayKept ==
  ASSUME SafeInv, InWorld, NoChangeLost', pc' = "rebuild" \/ unmarked' = {},
         pc' # "over"
  PROVE  Kept'
<1>1. joins' # 0
  BY DEF SafeInv, IInv, TypeOK, InWorld
<1> QED
  BY <1>1 DEF Kept

-----------------------------------------------------------------------------
(* Every action keeps it.                                                  *)

LEMMA JoinGameKept == ASSUME SafeInv, JoinGame PROVE Kept'
<1>1. Loaded(world') = {}
  BY DEF JoinGame, EmptyWorld, Loaded
<1>2. pc' = pc /\ unmarked' = unmarked /\ pc = "read"
  BY DEF JoinGame, Handle, session
<1> QED
  BY <1>1, <1>2 DEF SafeInv, Kept, NoChangeLost

LEMMA RespawnKept == ASSUME SafeInv, RespawnElsewhere PROVE Kept'
<1>1. Loaded(world') = {}
  BY DEF RespawnElsewhere, EmptyWorld, Loaded
<1>2. pc' = pc /\ unmarked' = unmarked /\ pc = "read"
  BY DEF RespawnElsewhere, InWorld, Handle, session
<1> QED
  BY <1>1, <1>2 DEF SafeInv, Kept, NoChangeLost

LEMMA ChunkDataKept == ASSUME SafeInv, NEW c \in Columns, ChunkData(c) PROVE Kept'
<1> DEFINE near == {c} \cup (Members(Orthogonal[c]) \cap Loaded(world'))
<1>1. /\ pc = "read" /\ pc' = pc /\ unmarked' = unmarked /\ unmarked = {}
      /\ Caught' = Caught
  BY DEF ChunkData, InWorld, Handle, session, Caught, SafeInv, Kept
<1>2. Stamp \in Stamps
  BY StampType DEF ChunkData, SafeInv
<1>3. /\ world' \in [Columns -> Stamps]
      /\ \A a \in Columns : world[a] # world'[a] => a = c
  BY <1>2 DEF ChunkData, SafeInv, IInv, TypeOK
<1>4. Outstanding(queue') = Outstanding(queue) \cup near
  BY MarkColumnChangedOutstanding DEF ChunkData
<1>5. NoChangeLost'
  BY <1>1, <1>3, <1>4, WriteStep DEF Agree
<1> QED
  BY <1>1, <1>5, PlayKept DEF ChunkData

LEMMA BlockChangeKept == ASSUME SafeInv, NEW c \in Columns, BlockChange(c) PROVE Kept'
<1> DEFINE near == {c} \cup (Members(Orthogonal[c]) \cap Loaded(world))
<1>1. /\ pc = "read" /\ pc' = pc /\ unmarked' = unmarked /\ unmarked = {}
      /\ Caught' = Caught
  BY DEF BlockChange, InWorld, Handle, session, Caught, SafeInv, Kept
<1>2. Stamp \in Stamps /\ Stamp # Absent
  BY StampType DEF BlockChange, SafeInv
<1>3. /\ world' \in [Columns -> Stamps]
      /\ \A a \in Columns : world[a] # world'[a] => a = c
      /\ Loaded(world') = Loaded(world)
  BY <1>2 DEF BlockChange, SafeInv, IInv, TypeOK, Loaded
<1>4. Outstanding(queue) \cup near \subseteq Outstanding(queue')
  BY MarkRecomputeRegionOutstanding DEF BlockChange
<1>5. NoChangeLost'
  BY <1>1, <1>3, <1>4, WriteStep DEF Agree
<1> QED
  BY <1>1, <1>5, PlayKept DEF BlockChange

LEMMA ChunkUnloadKept == ASSUME SafeInv, NEW c \in Columns, ChunkUnload(c) PROVE Kept'
<1> DEFINE near == {c} \cup Members(Orthogonal[c])
<1>1. /\ pc = "read" /\ pc' = pc /\ unmarked' = unmarked /\ unmarked = {}
      /\ shown' = shown
  BY DEF ChunkUnload, InWorld, Handle, session, SafeInv, Kept
<1>2. /\ world' \in [Columns -> Stamps]
      /\ \A a \in Columns : world[a] # world'[a] => a = c
      /\ c \notin Loaded(world')
  BY BoundsAssumption DEF ChunkUnload, SafeInv, IInv, TypeOK, Loaded, Stamps, Absent
<1>3. Outstanding(queue') = (Outstanding(queue) \ {c}) \cup Members(Orthogonal[c])
  BY MarkColumnUnloadedOutstanding DEF ChunkUnload
<1>4. ASSUME NEW d \in Columns, d # c PROVE Agree(Caught, Caught', d)
  <2>1. Unloaded(c) \in Reports /\ ~SpeaksOf(Unloaded(c), d)
    BY <1>4 DEF Reports, SpeaksOf, Unloaded
  <2>2. events \in Seq(Reports) /\ events' = Append(events, Unloaded(c))
    BY DEF SafeInv, IInv, TypeOK, ChunkUnload
  <2> QED
    BY <1>1, <2>1, <2>2, SilentAppend DEF Caught
<1>5. \A d \in Loaded(world') \ near : Agree(Caught, Caught', d)
  BY <1>4 DEF Loaded
<1>6. (near \cup Outstanding(queue)) \cap Loaded(world') \subseteq Outstanding(queue')
  BY <1>2, <1>3
<1>7. \A a \in Columns : world[a] # world'[a] =>
        a \in near /\ Members(Orthogonal[a]) \cap Loaded(world') \subseteq near
  BY <1>2
<1> HIDE DEF near
<1>8. NoChangeLost'
  BY <1>1, <1>2, <1>5, <1>6, <1>7, WriteStep
<1> QED
  BY <1>1, <1>8, PlayKept DEF ChunkUnload

\* An event that may be missing.
LEMMA MaybeUnloaded ==
  ASSUME NEW reports \in Seq(Reports), NEW held, NEW c \in Columns, NEW missing \in BOOLEAN,
         NEW d \in Columns, d # c
  PROVE  LET more == reports \o (IF missing THEN <<>> ELSE <<Unloaded(c)>>)
         IN  more \in Seq(Reports) /\ Agree(CaughtUp(reports, held), CaughtUp(more, held), d)
<1> DEFINE more == reports \o (IF missing THEN <<>> ELSE <<Unloaded(c)>>)
<1>1. CASE missing
  <2>1. more = reports
    BY <1>1
  <2> QED
    BY <2>1 DEF Agree
<1>2. CASE ~missing
  <2>1. Unloaded(c) \in Reports /\ ~SpeaksOf(Unloaded(c), d)
    BY DEF Reports, SpeaksOf, Unloaded
  <2>2. more = Append(reports, Unloaded(c)) /\ more \in Seq(Reports)
    BY <1>2, <2>1
  <2> HIDE DEF more
  <2> QED
    BY <2>1, <2>2, SilentAppend DEF more
<1> QED
  BY <1>1, <1>2

LEMMA BulkKept ==
  ASSUME SafeInv, NEW c \in BulkColumns, NEW d \in BulkColumns, NEW loads \in SUBSET {c, d},
         MapChunkBulk(c, d, loads)
  PROVE  Kept'
<1> DEFINE one == BulkMark(queue, world', c)
           Near(x) == {x} \cup Members(Orthogonal[x])
<1>1. /\ pc = "read" /\ pc' = pc /\ unmarked' = unmarked /\ unmarked = {}
      /\ shown' = shown /\ c \in Columns /\ d \in Columns
  BY BoundsAssumption DEF MapChunkBulk, InWorld, Handle, session, SafeInv, Kept
<1>2. Stamp \in Stamps /\ Absent \in Stamps
  BY StampType, BoundsAssumption DEF MapChunkBulk, Stamps, Absent, SafeInv
<1>3. /\ world' \in [Columns -> Stamps]
      /\ \A a \in Columns : world[a] # world'[a] => a \in {c, d}
  BY <1>2 DEF MapChunkBulk, ApplyBulk, SafeInv, IInv, TypeOK
<1>4. queue' = BulkMark(one, world', d)
  BY DEF MapChunkBulk
<1>5. (Outstanding(queue) \cup Near(c)) \cap Loaded(world') \subseteq Outstanding(one)
  BY <1>1, BulkMarkOutstanding
<1> HIDE DEF one
<1>6. (Outstanding(one) \cup Near(d)) \cap Loaded(world') \subseteq Outstanding(queue')
  BY <1>1, <1>4, BulkMarkOutstanding
<1>7. ASSUME NEW x \in Columns, x # c, x # d PROVE Agree(Caught, Caught', x)
  <2> DEFINE first == events \o (IF c \in loads THEN <<>> ELSE <<Unloaded(c)>>)
  <2>1. events \in Seq(Reports)
    BY DEF SafeInv, IInv, TypeOK
  <2>2. first \in Seq(Reports) /\ Agree(CaughtUp(events, shown), CaughtUp(first, shown), x)
    BY <1>1, <1>7, <2>1, MaybeUnloaded
  <2>3. events' = first \o (IF d \in loads THEN <<>> ELSE <<Unloaded(d)>>)
    BY DEF MapChunkBulk
  <2> HIDE DEF first
  <2>4. Agree(CaughtUp(first, shown), CaughtUp(events', shown), x)
    BY <1>1, <1>7, <2>2, <2>3, MaybeUnloaded
  <2> QED
    BY <1>1, <2>2, <2>4 DEF Agree, Caught
<1> DEFINE S == Near(c) \cup Near(d)
<1>8. \A x \in Loaded(world') \ S : Agree(Caught, Caught', x)
  BY <1>7 DEF Loaded
<1>9. (S \cup Outstanding(queue)) \cap Loaded(world') \subseteq Outstanding(queue')
  BY <1>5, <1>6
<1>10. \A a \in Columns : world[a] # world'[a] =>
         a \in S /\ Members(Orthogonal[a]) \cap Loaded(world') \subseteq S
  BY <1>3
<1> HIDE DEF S
<1>11. NoChangeLost'
  BY <1>1, <1>3, <1>8, <1>9, <1>10, WriteStep
<1> QED
  BY <1>1, <1>11, PlayKept DEF MapChunkBulk

LEMMA RebuildMeshesKept == ASSUME SafeInv, RebuildMeshes PROVE Kept'
<1>1. pc' = "rebuild" /\ unmarked' = Loaded(world) /\ world' = world
  BY DEF RebuildMeshes, store
<1>2. NoChangeLost'
  BY <1>1 DEF NoChangeLost
<1> QED
  BY <1>1, <1>2, PlayKept DEF RebuildMeshes

LEMMA RebuildMarkKept == ASSUME SafeInv, RebuildMark PROVE Kept'
<1>1. UNCHANGED <<world, joins>> /\ Caught' = Caught /\ pc = "rebuild"
  BY DEF RebuildMark, store, counts, Caught
<1>2. /\ Outstanding(queue) \cup unmarked \subseteq Outstanding(queue') \cup unmarked'
      /\ pc' = "rebuild" \/ (pc' = "read" /\ unmarked' = {})
  <2>1. CASE \E c \in unmarked :
               queue' = MarkDirty(queue, c) /\ unmarked' = unmarked \ {c} /\ pc' = pc
    <3>1. PICK c \in unmarked :
            queue' = MarkDirty(queue, c) /\ unmarked' = unmarked \ {c} /\ pc' = pc
      BY <2>1
    <3>2. Outstanding(queue') = Outstanding(queue) \cup {c}
      BY <3>1 DEF MarkDirty, Outstanding
    <3> QED
      BY <1>1, <3>1, <3>2
  <2>2. CASE unmarked = {} /\ pc' = "read" /\ UNCHANGED <<queue, unmarked>>
    BY <2>2
  <2> QED
    BY <2>1, <2>2 DEF RebuildMark
<1> QED
  BY <1>1, <1>2, QuietKept DEF Kept

LEMMA SpawnKept == ASSUME SafeInv, Spawn PROVE Kept'
<1>1. /\ UNCHANGED <<world, joins, unmarked, pc>> /\ Caught' = Caught
      /\ pc \in {"spawn", "finishSpawn"}
  BY DEF Spawn, store, counts, Caught
<1>2. Sound(queue)
  BY DEF SafeInv, IInv, TypeOK, Sound
<1>3. Outstanding(queue') = Outstanding(queue)
  BY <1>2, MarkRunningOutstanding DEF Spawn
<1> QED
  BY <1>1, <1>3, QuietKept DEF SafeInv, Kept

\* A build that is dropped leaves its column outstanding; one that is not is
\* reported as the column is.
LEMMA DrainKept == ASSUME SafeInv, Drain PROVE Kept'
<1> DEFINE job == Head(results)
           current == Carries(queue, job.column, job.generation)
<1>1. /\ UNCHANGED <<world, light, joins, unmarked, pc, shown>>
      /\ pc \in {"drain", "finishDrain"}
  BY DEF Drain, session, store, counts
<1>2. job \in JobSet /\ job \in AllJobs
  BY DEF SafeInv, IInv, TypeOK, Drain, JobSet
<1>3. Updated(job.column, job.build) \in Reports
  BY <1>2 DEF Reports, AllJobs
<1>4. events \in Seq(Reports)
  BY DEF SafeInv, IInv, TypeOK
<1>5. /\ queue' = Complete(queue, job.column, job.generation)
      /\ events' = IF current THEN Append(events, Updated(job.column, job.build)) ELSE events
  BY DEF Drain
<1>6. Outstanding(queue) \ (IF current THEN {job.column} ELSE {}) \subseteq Outstanding(queue')
  BY <1>5, CompleteOutstanding
<1>7. current => job.build.blocks = BlocksOf(world, job.column)
  BY <1>2, BuildBlocks DEF SafeInv, IInv, AcceptedIsCurrent
<1> HIDE DEF job, current
<1>8. ASSUME NEW c \in Loaded(world), c \notin Outstanding(queue') \cup unmarked
      PROVE  ShowsBlocks(Caught, c)'
  <2>1. c \in Columns
    BY DEF Loaded
  <2>2. CASE current /\ c = job.column
    <3> DEFINE e == Updated(job.column, job.build)
    <3>1. SpeaksOf(e, c) /\ e.kind = "ChunkUpdated" /\ e.build = job.build
      BY <2>2 DEF SpeaksOf, Updated
    <3>2. Caught' = CaughtUp(Append(events, e), shown)
      BY <1>1, <1>5, <2>2 DEF Caught
    <3>3. e \in Reports
      BY <1>3
    <3> HIDE DEF e
    <3>4. c \in DOMAIN Caught' /\ Caught'[c] = job.build
      BY <1>4, <2>1, <3>1, <3>2, <3>3, SpokenAppend
    <3>5. job.build.blocks = BlocksSeen(world, c)
      BY <1>7, <2>2 DEF BlocksOf, Loaded
    <3> QED
      BY <1>1, <3>4, <3>5 DEF ShowsBlocks
  <2>3. CASE ~(current /\ c = job.column)
    <3>1. c \notin Outstanding(queue)
      BY <1>6, <1>8, <2>3
    <3>2. Agree(Caught, Caught', c)
      <4>1. CASE ~current
        BY <1>1, <1>5, <4>1 DEF Agree, Caught
      <4>2. CASE current
        <5> DEFINE e == Updated(job.column, job.build)
        <5>1. ~SpeaksOf(e, c)
          BY <2>3, <4>2 DEF SpeaksOf, Updated
        <5>2. Caught' = CaughtUp(Append(events, e), shown)
          BY <1>1, <1>5, <4>2 DEF Caught
        <5>3. e \in Reports
          BY <1>3
        <5> HIDE DEF e
        <5> QED
          BY <1>4, <2>1, <5>1, <5>2, <5>3, SilentAppend DEF Caught
      <4> QED
        BY <4>1, <4>2
    <3> QED
      BY <1>1, <1>8, <3>1, <3>2, ColumnKept DEF SafeInv, Kept
  <2> QED
    BY <2>2, <2>3
<1>9. NoChangeLost'
  BY <1>1, <1>8 DEF NoChangeLost
<1> QED
  BY <1>1, <1>9 DEF SafeInv, Kept

\* The steps of the session that touch neither the store, the queue nor the
\* channel of events.
LEMMA SessionKept ==
  ASSUME SafeInv, Idle \/ SpawnDone \/ DrainDone \/ SessionFails \/ FinishDeadline
  PROVE  Kept'
<1>1. UNCHANGED <<queue, world, joins, unmarked, events, shown>>
  BY DEF Idle, SpawnDone, DrainDone, SessionFails, FinishDeadline, Return, store, counts
<1>2. pc # "rebuild" /\ pc' # "over"
  BY DEF Idle, SpawnDone, DrainDone, SessionFails, FinishDeadline, Return
<1>3. Caught' = Caught
  BY <1>1 DEF Caught
<1> QED
  BY <1>1, <1>2, <1>3, QuietKept DEF SafeInv, Kept

\* The session that returns in good order has nothing left to report.
LEMMA EndKept == ASSUME SafeInv, StreamEnd \/ FinishRound PROVE Kept'
<1>1. UNCHANGED <<queue, world, joins, unmarked, events, shown>>
  BY DEF StreamEnd, FinishRound, Return, store, counts
<1>2. pc # "rebuild" /\ pc' # "rebuild"
  BY DEF StreamEnd, FinishRound, Return
<1>3. Caught' = Caught
  BY <1>1 DEF Caught
<1>4. ASSUME pc' = "over" PROVE Loaded(world) = {} \/ Outstanding(queue) = {}
  <2>1. CASE StreamEnd
    <3>1. joins = 0
      BY <1>4, <2>1 DEF StreamEnd, SafeInv, IInv, TypeOK
    <3> QED
      BY <3>1 DEF SafeInv, Kept
  <2>2. CASE FinishRound
    <3>1. Pending(queue) = 0
      BY <1>4, <2>2 DEF FinishRound
    <3>2. IsFiniteSet(Outstanding(queue))
      BY GeometryAssumption, FS_Subset DEF SafeInv, IInv, TypeOK, IsQueue
    <3> QED
      BY <3>1, <3>2, FS_EmptySet DEF Pending
  <2> QED
    BY <2>1, <2>2
<1> QED
  BY <1>1, <1>2, <1>3, <1>4, QuietKept DEF SafeInv, Kept

LEMMA FinishKept == ASSUME SafeInv, NEW job, Finish(job) PROVE Kept'
<1>1. UNCHANGED <<pc, queue, world, joins, unmarked, events, shown>>
  BY DEF Finish, session, store, counts
<1>2. Caught' = Caught
  BY <1>1 DEF Caught
<1> QED
  BY <1>1, <1>2, QuietKept DEF SafeInv, Kept

LEMMA FrameKept == ASSUME SafeInv, Frame PROVE Kept'
<1>1. UNCHANGED <<pc, queue, world, joins, unmarked>>
  BY DEF Frame, session, store, counts
<1>2. Caught' = Caught
  BY CaughtAfterFrame DEF SafeInv, IInv
<1> QED
  BY <1>1, <1>2, QuietKept DEF SafeInv, Kept

LEMMA StutterKept == ASSUME SafeInv, UNCHANGED vars PROVE Kept'
<1>1. Caught' = Caught
  BY DEF vars, Caught
<1> QED
  BY <1>1, QuietKept DEF vars, SafeInv, Kept

-----------------------------------------------------------------------------
LEMMA SafeInit == Init => SafeInv
<1> SUFFICES ASSUME Init PROVE SafeInv
  OBVIOUS
<1>1. Loaded(world) = {}
  BY DEF Init, EmptyWorld, Loaded
<1> QED
  BY <1>1, InitInv DEF Init, SafeInv, Kept, NoChangeLost

LEMMA SafeNext == SafeInv /\ [Next]_vars => SafeInv'
<1> SUFFICES ASSUME SafeInv, [Next]_vars PROVE Kept'
  BY NextInv DEF SafeInv
<1>1. CASE Packet
  BY <1>1, JoinGameKept, RespawnKept, RebuildMeshesKept, ChunkDataKept, ChunkUnloadKept,
     BlockChangeKept, BulkKept DEF Packet
<1>2. CASE RebuildMark
  BY <1>2, RebuildMarkKept
<1>3. CASE Idle \/ SessionFails \/ FinishDeadline
  BY <1>3, SessionKept
<1>4. CASE Pump \/ StreamEnd
  BY <1>4, SpawnKept, DrainKept, SessionKept, EndKept DEF Pump
<1>5. CASE Pool
  BY <1>5, FinishKept DEF Pool
<1>6. CASE Frame
  BY <1>6, FrameKept
<1>7. CASE UNCHANGED vars
  BY <1>7, StutterKept
<1> QED
  BY <1>1, <1>2, <1>3, <1>4, <1>5, <1>6, <1>7 DEF Next

\* The invariant the results below rest on.
THEOREM Safety == Spec => []SafeInv
BY SafeInit, SafeNext, PTL DEF Spec

\* No change of a loaded column is lost: when nobody is going to build it
\* again (mark_dirty, complete, the F3+A loop), the window has its blocks and
\* its neighbours' as they stand, or the report that says so is on its way.
THEOREM ChangesReachTheChannel == Spec => []NoChangeLost
<1>1. SafeInv => NoChangeLost
  BY DEF SafeInv, Kept
<1> QED
  BY Safety, <1>1, PTL

\* finish_meshes: a session that ended in good order told the window of every
\* loaded column as it last was.
THEOREM LastMeshesAreReported == Spec => []CleanStopReportsAll
<1>1. ASSUME SafeInv, pc = "over", NEW c \in Loaded(world) PROVE ShowsBlocks(Caught, c)
  <2>1. Outstanding(queue) = {} /\ unmarked = {}
    BY <1>1 DEF SafeInv, Kept
  <2> QED
    BY <1>1, <2>1 DEF SafeInv, Kept, NoChangeLost
<1>2. SafeInv => CleanStopReportsAll
  BY <1>1 DEF CleanStopReportsAll
<1> QED
  BY Safety, <1>2, PTL

-----------------------------------------------------------------------------
(* No column waits in vain: the dirty list holds exactly the columns that  *)
(* wait, and whatever is not waiting has a job out.                        *)

Waiting(q) == {c \in Outstanding(q) : q.states[c].phase = "Dirty"}
Running(q) == {c \in Outstanding(q) : q.states[c].phase = "Running"}

Once(s) == \A i, j \in DOMAIN s : s[i] = s[j] => i = j
Exact(q) == Once(q.dirty) /\ Members(q.dirty) = Waiting(q)

\* An operation that leaves the list exact and gives no column a job.
Orders(q, r) == Exact(r) /\ Running(r) \subseteq Running(q)

LEMMA ExactIs == Exact(queue) <=> DirtyListExact
BY DEF Exact, Once, Waiting, DirtyListExact

\* A list of columns names no other place.
LEMMA MembersAre ==
  ASSUME NEW s \in Seq(Columns)
  PROVE  Members(s) = {s[i] : i \in 1 .. Len(s)}
BY GeometryAssumption DEF Members

\* A column that takes a place at the back.
LEMMA PlaceTaken ==
  ASSUME NEW s \in Seq(Columns), Once(s), NEW c \in Columns, c \notin Members(s)
  PROVE  Once(Append(s, c)) /\ Members(Append(s, c)) = Members(s) \cup {c}
<1> DEFINE t == Append(s, c)
<1>1. /\ Len(s) \in Nat /\ t \in Seq(Columns) /\ Len(t) = Len(s) + 1
      /\ \A i \in 1 .. Len(s) : t[i] = s[i] /\ s[i] # c
      /\ t[Len(s) + 1] = c /\ DOMAIN t = 1 .. Len(s) + 1 /\ DOMAIN s = 1 .. Len(s)
  BY MembersAre
<1> HIDE DEF t
<1>2. Once(t)
  BY <1>1 DEF Once
<1>3. Members(t) = Members(s) \cup {c}
  <2>1. Members(t) = {t[i] : i \in 1 .. Len(s) + 1} /\ Members(s) = {s[i] : i \in 1 .. Len(s)}
    BY <1>1, MembersAre
  <2> QED
    BY <1>1, <2>1
<1> QED
  BY <1>2, <1>3 DEF t

\* A column whose place is given up.
LEMMA PlaceGiven ==
  ASSUME NEW s \in Seq(Columns), Once(s), NEW c \in Columns
  PROVE  /\ WithoutColumn(s, c) \in Seq(Columns)
         /\ Once(WithoutColumn(s, c)) /\ Members(WithoutColumn(s, c)) = Members(s) \ {c}
<1> DEFINE t == WithoutColumn(s, c)
<1>0. t \in Seq(Columns) /\ Members(s) = {s[i] : i \in 1 .. Len(s)}
  <2>1. t \in Seq(Columns)
    BY WithoutColumnType
  <2> HIDE DEF t
  <2> QED
    BY <2>1, MembersAre
<1>1. Members(s) = {s[i] : i \in 1 .. Len(s)} /\ t \in Seq(Columns) /\ Len(s) \in Nat
      /\ DOMAIN s = 1 .. Len(s)
  <2> HIDE DEF t
  <2> QED
    BY <1>0
<1>2. CASE c \in Members(s)
  <2>1. PICK n \in 1 .. Len(s) : s[n] = c /\ Position(s, c) = n
    BY <1>1, <1>2 DEF Position, Once
  <2>2. t = [i \in 1 .. Len(s) - 1 |-> IF i < n THEN s[i] ELSE s[i + 1]]
    BY <1>2, <2>1 DEF WithoutColumn
  <2>3. /\ Len(s) - 1 \in Nat /\ DOMAIN t = 1 .. Len(s) - 1 /\ Len(t) = Len(s) - 1
        /\ \A i \in 1 .. Len(s) - 1 : t[i] = IF i < n THEN s[i] ELSE s[i + 1]
    BY <1>1, <2>1, <2>2
  <2> HIDE DEF t
  <2>4. \A i, j \in 1 .. Len(s) : s[i] = s[j] => i = j
    BY <1>1 DEF Once
  <2>5. Once(t)
    BY <1>1, <2>1, <2>3, <2>4 DEF Once
  <2>6. Members(t) = {t[i] : i \in 1 .. Len(s) - 1}
    BY <1>1, <2>3, MembersAre
  <2>7. ASSUME NEW i \in 1 .. Len(s) - 1 PROVE t[i] \in Members(s) \ {c}
    <3>1. i \in 1 .. Len(s) /\ i + 1 \in 1 .. Len(s)
      BY <1>1
    <3>2. CASE i < n
      BY <1>1, <2>1, <2>3, <2>4, <3>1, <3>2
    <3>3. CASE ~(i < n)
      <4>1. t[i] = s[i + 1] /\ i + 1 # n
        BY <1>1, <2>1, <2>3, <3>3
      <4> QED
        BY <1>1, <2>1, <2>4, <3>1, <4>1
    <3> QED
      BY <3>2, <3>3
  <2>8. ASSUME NEW d \in Members(s) \ {c} PROVE d \in Members(t)
    <3>1. PICK i \in 1 .. Len(s) : s[i] = d /\ i # n
      BY <1>1, <2>1
    <3>2. CASE i < n
      <4>1. i \in 1 .. Len(s) - 1 /\ t[i] = d
        BY <1>1, <2>1, <2>3, <3>1, <3>2
      <4> QED
        BY <2>6, <4>1
    <3>3. CASE ~(i < n)
      <4>1. i - 1 \in 1 .. Len(s) - 1 /\ ~(i - 1 < n) /\ (i - 1) + 1 = i
        BY <1>1, <2>1, <3>1, <3>3
      <4>2. t[i - 1] = d
        BY <2>3, <3>1, <4>1
      <4> QED
        BY <2>6, <4>1, <4>2
    <3> QED
      BY <3>2, <3>3
  <2>9. Members(t) = Members(s) \ {c}
    BY <2>6, <2>7, <2>8
  <2> QED
    BY <1>1, <2>5, <2>9 DEF t
<1>3. CASE c \notin Members(s)
  BY <1>1, <1>3 DEF WithoutColumn
<1> QED
  BY <1>2, <1>3

-----------------------------------------------------------------------------
\* What each operation of the queue does to the list and to the jobs out.
LEMMA MarkDirtyOrders ==
  ASSUME NEW q, Sound(q), Exact(q), NEW c \in Columns
  PROVE  Orders(q, MarkDirty(q, c))
<1> DEFINE r == MarkDirty(q, c)
<1>1. /\ q.dirty \in Seq(Columns) /\ Outstanding(r) = Outstanding(q) \cup {c}
      /\ r.dirty = IF c \in Outstanding(q) THEN q.dirty ELSE Append(q.dirty, c)
      /\ \A d \in Outstanding(q) : r.states[d].phase = q.states[d].phase
      /\ c \notin Outstanding(q) => r.states[c].phase = "Dirty"
  BY SoundFields DEF MarkDirty, Outstanding
<1> HIDE DEF r
<1>2. CASE c \in Outstanding(q)
  <2>1. Outstanding(r) = Outstanding(q) /\ r.dirty = q.dirty
    BY <1>1, <1>2
  <2>2. Waiting(r) = Waiting(q) /\ Running(r) = Running(q)
    BY <1>1, <2>1 DEF Waiting, Running
  <2>3. Once(r.dirty) /\ Members(r.dirty) = Waiting(r)
    BY <2>1, <2>2 DEF Exact
  <2> QED
    BY <2>2, <2>3 DEF Orders, Exact, r
<1>3. CASE c \notin Outstanding(q)
  <2>1. c \notin Members(q.dirty)
    BY <1>3 DEF Exact, Waiting
  <2>2. Once(r.dirty) /\ Members(r.dirty) = Members(q.dirty) \cup {c}
    BY <1>1, <1>3, <2>1, PlaceTaken DEF Exact
  <2>3. Waiting(r) = Waiting(q) \cup {c} /\ Running(r) = Running(q)
    BY <1>1, <1>3 DEF Waiting, Running
  <2>4. Members(q.dirty) = Waiting(q)
    BY DEF Exact
  <2>5. Once(r.dirty) /\ Members(r.dirty) = Waiting(r)
    BY <2>2, <2>3, <2>4
  <2> QED
    BY <2>3, <2>5 DEF Orders, Exact, r
<1> QED
  BY <1>2, <1>3 DEF r

LEMMA MarkIfInOrders ==
  ASSUME NEW q, Sound(q), Exact(q), NEW c, NEW W \in SUBSET Columns
  PROVE  Orders(q, MarkIfIn(q, c, W))
<1>1. CASE c \in W
  BY <1>1, MarkDirtyOrders DEF MarkIfIn
<1>2. CASE c \notin W
  BY <1>2 DEF MarkIfIn, Orders
<1> QED
  BY <1>1, <1>2

LEMMA MarkFourOrders ==
  ASSUME NEW q, Sound(q), Exact(q), NEW four \in Fours, NEW W \in SUBSET Columns
  PROVE  Orders(q, MarkFour(q, four, W))
<1> DEFINE one == MarkIfIn(q, four[1], W)
           two == MarkIfIn(one, four[2], W)
           three == MarkIfIn(two, four[3], W)
           last == MarkIfIn(three, four[4], W)
<1>1. \A i \in 1 .. 4 : four[i] \in Columns \cup {Nowhere}
  BY DEF Fours
<1>2. Sound(one) /\ Orders(q, one) /\ Exact(one)
  <2>1. four[1] \in Columns \cup {Nowhere}
    BY <1>1
  <2>2. Sound(one)
    BY <2>1, MarkIfInMoves
  <2>3. Orders(q, one)
    BY MarkIfInOrders
  <2> HIDE DEF one
  <2> QED
    BY <2>2, <2>3 DEF Orders
<1> HIDE DEF one
<1>3. Sound(two) /\ Orders(one, two) /\ Exact(two)
  <2>1. four[2] \in Columns \cup {Nowhere}
    BY <1>1
  <2>2. Sound(two)
    BY <1>2, <2>1, MarkIfInMoves
  <2>3. Orders(one, two)
    BY <1>2, MarkIfInOrders
  <2> HIDE DEF two
  <2> QED
    BY <2>2, <2>3 DEF Orders
<1> HIDE DEF two
<1>4. four[3] \in Columns \cup {Nowhere}
  BY <1>1
<1>5. Sound(three) /\ Orders(two, three) /\ Exact(three)
  <2>1. Sound(three)
    BY <1>3, <1>4, MarkIfInMoves
  <2>2. Orders(two, three)
    BY <1>3, MarkIfInOrders
  <2> HIDE DEF three
  <2> QED
    BY <2>1, <2>2 DEF Orders
<1> HIDE DEF three
<1>6. Orders(three, last)
  BY <1>5, MarkIfInOrders
<1> HIDE DEF last
<1>7. Orders(q, last)
  BY <1>2, <1>3, <1>5, <1>6 DEF Orders
<1>8. last = MarkFour(q, four, W)
  BY DEF MarkFour, last, three, two, one
<1> QED
  BY <1>7, <1>8

LEMMA ForgetOrders ==
  ASSUME NEW q, Sound(q), Exact(q), NEW c \in Columns
  PROVE  Orders(q, Forget(q, c)) /\ c \notin Running(Forget(q, c))
<1> DEFINE r == Forget(q, c)
<1>1. /\ q.dirty \in Seq(Columns) /\ Outstanding(r) = Outstanding(q) \ {c}
      /\ r.dirty = WithoutColumn(q.dirty, c)
      /\ \A d \in Outstanding(r) : r.states[d] = q.states[d]
  BY SoundFields DEF Forget, Outstanding
<1> HIDE DEF r
<1>2. Once(r.dirty) /\ Members(r.dirty) = Members(q.dirty) \ {c}
  BY <1>1, PlaceGiven DEF Exact
<1>3. Waiting(r) = Waiting(q) \ {c} /\ Running(r) = Running(q) \ {c}
  BY <1>1 DEF Waiting, Running
<1> QED
  BY <1>2, <1>3 DEF Orders, Exact, r

LEMMA ClearOrders ==
  ASSUME NEW q PROVE Orders(q, ClearInPlace(q))
<1>1. Outstanding(ClearInPlace(q)) = {} /\ ClearInPlace(q).dirty = <<>>
  BY DEF ClearInPlace, NewQueue, Outstanding
<1>2. Members(<<>>) = {} /\ Once(<<>>)
  BY DEF Members, Once
<1> QED
  BY <1>1, <1>2 DEF Orders, Exact, Waiting, Running

\* A job taken: its column runs, and waits no longer.
LEMMA MarkRunningOrders ==
  ASSUME NEW q, Sound(q), Exact(q), NEW c \in Columns, NEW g
  PROVE  LET r == MarkRunning(q, c, g)
         IN  Exact(r) /\ Running(r) \subseteq Running(q) \cup {c}
<1> DEFINE r == MarkRunning(q, c, g)
<1>1. CASE Carries(q, c, g) /\ q.states[c].phase = "Dirty"
  <2>1. /\ q.dirty \in Seq(Columns) /\ c \in Outstanding(q) /\ Outstanding(r) = Outstanding(q)
        /\ r.dirty = WithoutColumn(q.dirty, c) /\ r.states[c].phase = "Running"
        /\ \A d \in Outstanding(q) : d # c => r.states[d] = q.states[d]
    BY <1>1, SoundFields DEF MarkRunning, WithPhase, Carries, Outstanding, ColumnStates
  <2> HIDE DEF r
  <2>2. Once(r.dirty) /\ Members(r.dirty) = Members(q.dirty) \ {c}
    BY <2>1, PlaceGiven DEF Exact
  <2>3. Waiting(r) = Waiting(q) \ {c} /\ Running(r) \subseteq Running(q) \cup {c}
    BY <2>1 DEF Waiting, Running
  <2> QED
    BY <2>2, <2>3 DEF Exact, r
<1>2. CASE ~(Carries(q, c, g) /\ q.states[c].phase = "Dirty")
  BY <1>2 DEF MarkRunning
<1> QED
  BY <1>1, <1>2

\* A build that has come back leaves its column waiting or forgotten, current
\* or not.
LEMMA CompleteOrders ==
  ASSUME NEW q, Sound(q), Exact(q), NEW c \in Columns, NEW g
  PROVE  LET r == Complete(q, c, g)
         IN  Orders(q, r) /\ c \notin Running(r)
<1> DEFINE r == Complete(q, c, g)
<1>1. CASE Carries(q, c, g)
  BY <1>1, ForgetOrders DEF Complete, Carries
<1>2. CASE c \notin Outstanding(q)
  <2>1. r = MarkDirty(q, c)
    BY <1>2 DEF Complete, Carries
  <2>2. c \notin Running(q)
    BY <1>2 DEF Running
  <2> QED
    BY <2>1, <2>2, MarkDirtyOrders DEF Orders
<1>3. CASE c \in Outstanding(q) /\ ~Carries(q, c, g) /\ q.states[c].phase = "Running"
  <2>1. r = WaitAgain(q, c)
    BY <1>3 DEF Complete
  <2>2. /\ q.dirty \in Seq(Columns) /\ Outstanding(r) = Outstanding(q)
        /\ r.dirty = Append(q.dirty, c) /\ r.states[c].phase = "Dirty"
        /\ \A d \in Outstanding(q) : d # c => r.states[d] = q.states[d]
    BY <1>3, <2>1, SoundFields DEF WaitAgain, WithPhase, Outstanding, ColumnStates
  <2> HIDE DEF r
  <2>3. c \notin Members(q.dirty)
    BY <1>3 DEF Exact, Waiting
  <2>4. Once(r.dirty) /\ Members(r.dirty) = Members(q.dirty) \cup {c}
    BY <2>2, <2>3, PlaceTaken DEF Exact
  <2>5. Waiting(r) = Waiting(q) \cup {c} /\ Running(r) = Running(q) \ {c}
    BY <1>3, <2>2 DEF Waiting, Running
  <2> QED
    BY <2>4, <2>5 DEF Orders, Exact, r
<1>4. CASE c \in Outstanding(q) /\ ~Carries(q, c, g) /\ q.states[c].phase # "Running"
  BY <1>4 DEF Complete, Orders, Running
<1> QED
  BY <1>1, <1>2, <1>3, <1>4

\* The marks of a packet.
LEMMA MarkColumnChangedOrders ==
  ASSUME NEW q, Sound(q), Exact(q), NEW c \in Columns, NEW w
  PROVE  Orders(q, MarkColumnChanged(q, w, c))
<1> DEFINE marked == MarkDirty(q, c)
<1>1. Sound(marked) /\ Orders(q, marked)
  BY MarkDirtyMoves, MarkDirtyOrders
<1> HIDE DEF marked
<1>2. Orthogonal[c] \in Fours /\ Loaded(w) \in SUBSET Columns
  BY GeometryAssumption DEF Loaded
<1>3. Orders(marked, MarkFour(marked, Orthogonal[c], Loaded(w)))
  BY <1>1, <1>2, MarkFourOrders DEF Orders
<1> QED
  BY <1>1, <1>3 DEF Orders, MarkColumnChanged, marked

LEMMA MarkRecomputeRegionOrders ==
  ASSUME NEW q, Sound(q), Exact(q), NEW c \in Columns, NEW w
  PROVE  Orders(q, MarkRecomputeRegion(q, w, c))
<1> DEFINE marked == MarkColumnChanged(q, w, c)
<1>1. Sound(marked) /\ Orders(q, marked)
  BY MarkColumnChangedMoves, MarkColumnChangedOrders
<1> HIDE DEF marked
<1>2. Diagonal[c] \in Fours /\ Loaded(w) \in SUBSET Columns
  BY GeometryAssumption DEF Loaded
<1>3. Orders(marked, MarkFour(marked, Diagonal[c], Loaded(w)))
  BY <1>1, <1>2, MarkFourOrders DEF Orders
<1> QED
  BY <1>1, <1>3 DEF Orders, MarkRecomputeRegion, marked

LEMMA MarkColumnUnloadedOrders ==
  ASSUME NEW q, Sound(q), Exact(q), NEW c \in Columns
  PROVE  Orders(q, MarkColumnUnloaded(q, c))
<1> DEFINE forgotten == Forget(q, c)
<1>1. Sound(forgotten) /\ Orders(q, forgotten)
  BY ForgetMoves, ForgetOrders
<1> HIDE DEF forgotten
<1>2. Orthogonal[c] \in Fours /\ Columns \in SUBSET Columns
  BY GeometryAssumption
<1>3. Orders(forgotten, MarkFour(forgotten, Orthogonal[c], Columns))
  BY <1>1, <1>2, MarkFourOrders DEF Orders
<1> QED
  BY <1>1, <1>3 DEF Orders, MarkColumnUnloaded, forgotten

LEMMA BulkMarkOrders ==
  ASSUME NEW q, Sound(q), Exact(q), NEW c \in Columns, NEW w
  PROVE  Orders(q, BulkMark(q, w, c))
BY MarkColumnChangedOrders, MarkColumnUnloadedOrders DEF BulkMark

-----------------------------------------------------------------------------
\* The invariant with the places.
Places == IInv /\ DirtyListExact /\ RunningHasJob

\* A step that gives no column a job and takes none away.
LEMMA OrderedStep ==
  ASSUME Places, Orders(queue, queue'), ~Ended' => ~Ended /\ JobSet \subseteq JobSet'
  PROVE  (DirtyListExact /\ RunningHasJob)'
<1>1. DirtyListExact'
  BY DEF Orders, Exact, Once, Waiting, DirtyListExact
<1>2. ASSUME ~Ended', NEW c \in Running(queue') PROVE \E job \in JobSet' : job.column = c
  <2>1. c \in Running(queue) /\ ~Ended
    BY <1>2 DEF Orders
  <2> QED
    BY <1>2, <2>1 DEF Places, RunningHasJob, Running
<1> QED
  BY <1>1, <1>2 DEF RunningHasJob, Running

LEMMA QueueIs == ASSUME Places PROVE Sound(queue) /\ Exact(queue) /\ Orders(queue, queue)
BY ExactIs DEF Places, IInv, TypeOK, Sound, Orders

LEMMA PacketPlaces == ASSUME Places, Packet PROVE (DirtyListExact /\ RunningHasJob)'
<1>1. Sound(queue) /\ Exact(queue) /\ Orders(queue, queue)
  BY QueueIs
<1>2. pc = "read" /\ UNCHANGED <<building, results>> /\ pc' \in {"read", "rebuild"}
  BY DEF Packet, JoinGame, RespawnElsewhere, RebuildMeshes, ChunkData, ChunkUnload, BlockChange,
         MapChunkBulk, InWorld, Handle, session
<1>3. Orders(queue, queue')
  <2>1. CASE JoinGame \/ RespawnElsewhere
    BY <2>1, ClearOrders DEF JoinGame, RespawnElsewhere
  <2>2. CASE RebuildMeshes
    BY <1>1, <2>2 DEF RebuildMeshes
  <2>3. ASSUME NEW c \in Columns, ChunkData(c) PROVE Orders(queue, queue')
    BY <1>1, <2>3, MarkColumnChangedOrders DEF ChunkData
  <2>4. ASSUME NEW c \in Columns, ChunkUnload(c) PROVE Orders(queue, queue')
    BY <1>1, <2>4, MarkColumnUnloadedOrders DEF ChunkUnload
  <2>5. ASSUME NEW c \in Columns, BlockChange(c) PROVE Orders(queue, queue')
    BY <1>1, <2>5, MarkRecomputeRegionOrders DEF BlockChange
  <2>6. ASSUME NEW c \in BulkColumns, NEW d \in BulkColumns, NEW loads \in SUBSET {c, d},
               MapChunkBulk(c, d, loads)
        PROVE  Orders(queue, queue')
    <3> DEFINE one == BulkMark(queue, world', c)
    <3>1. c \in Columns /\ d \in Columns /\ queue' = BulkMark(one, world', d)
      BY <2>6, BoundsAssumption DEF MapChunkBulk
    <3>2. Sound(one) /\ Orders(queue, one)
      BY <1>1, <3>1, BulkMarkMoves, BulkMarkOrders
    <3> HIDE DEF one
    <3>3. Orders(one, queue')
      BY <3>1, <3>2, BulkMarkOrders DEF Orders
    <3> QED
      BY <3>2, <3>3 DEF Orders
  <2> QED
    BY <2>1, <2>2, <2>3, <2>4, <2>5, <2>6 DEF Packet
<1>4. ~Ended /\ JobSet' = JobSet
  BY <1>2 DEF Ended, JobSet
<1> QED
  BY <1>3, <1>4, OrderedStep

LEMMA RebuildMarkPlaces == ASSUME Places, RebuildMark PROVE (DirtyListExact /\ RunningHasJob)'
<1>1. Sound(queue) /\ Exact(queue) /\ Orders(queue, queue) /\ unmarked \subseteq Columns
  BY QueueIs DEF Places, IInv, TypeOK
<1>2. Orders(queue, queue')
  BY <1>1, MarkDirtyOrders DEF RebuildMark
<1>3. ~Ended /\ JobSet' = JobSet
  BY DEF RebuildMark, Ended, JobSet
<1> QED
  BY <1>2, <1>3, OrderedStep

\* The steps that leave the queue, and the builds unless the session ends.
LEMMA StillPlaces ==
  ASSUME Places, \/ Idle \/ SpawnDone \/ DrainDone \/ StreamEnd \/ SessionFails
                 \/ FinishRound \/ FinishDeadline \/ Frame \/ UNCHANGED vars
  PROVE  (DirtyListExact /\ RunningHasJob)'
<1>1. Orders(queue, queue') /\ (~Ended' => ~Ended /\ UNCHANGED <<building, results>>)
  BY QueueIs DEF Idle, SpawnDone, DrainDone, StreamEnd, SessionFails, FinishRound, FinishDeadline,
     Frame, Return, Ended, vars, session
<1> QED
  BY <1>1, OrderedStep DEF JobSet

LEMMA SpawnPlaces == ASSUME Places, Spawn PROVE (DirtyListExact /\ RunningHasJob)'
<1> DEFINE c == NextColumn(queue)
           job == Jobs(c, NextGeneration(queue), Build(world, light, c))
<1>1. Sound(queue) /\ Exact(queue) /\ c \in Columns /\ job.column = c
  BY QueueIs, SoundFields DEF Spawn, HasJob, NextColumn, Jobs
<1>2. /\ queue' = MarkRunning(queue, c, NextGeneration(queue))
      /\ building' = building (+) SetToBag({job}) /\ results' = results /\ pc' = pc
  BY DEF Spawn
<1> HIDE DEF c, job
<1>3. Exact(queue') /\ Running(queue') \subseteq Running(queue) \cup {c}
  BY <1>1, <1>2, MarkRunningOrders
<1>4. DOMAIN building' = DOMAIN building \cup {job}
  BY <1>2, BagAdd DEF Places, IInv, TypeOK
<1>5. JobSet' = JobSet \cup {job}
  BY <1>2, <1>4 DEF JobSet
<1>6. DirtyListExact'
  BY <1>3 DEF Exact, Once, Waiting, DirtyListExact
<1>7. ASSUME ~Ended', NEW d \in Running(queue') PROVE \E j \in JobSet' : j.column = d
  <2>1. CASE d = c
    BY <1>1, <1>5, <2>1
  <2>2. CASE d # c
    <3>1. d \in Running(queue) /\ ~Ended
      BY <1>2, <1>3, <1>7, <2>2 DEF Ended
    <3> QED
      BY <1>5, <3>1 DEF Places, RunningHasJob, Running
  <2> QED
    BY <2>1, <2>2
<1> QED
  BY <1>6, <1>7 DEF RunningHasJob, Running

LEMMA DrainPlaces == ASSUME Places, Drain PROVE (DirtyListExact /\ RunningHasJob)'
<1> DEFINE job == Head(results)
<1>1. /\ results \in Seq(AllJobs) /\ results # <<>> /\ results' = Tail(results)
      /\ job \in AllJobs /\ building' = building /\ pc' = pc
      /\ queue' = Complete(queue, job.column, job.generation)
  BY DEF Places, IInv, TypeOK, Drain, session
<1>2. Sound(queue) /\ Exact(queue) /\ job.column \in Columns
  BY <1>1, QueueIs DEF AllJobs
<1>3. Orders(queue, queue') /\ job.column \notin Running(queue')
  BY <1>1, <1>2, CompleteOrders
<1>4. \A j \in JobSet : j = job \/ j \in JobSet'
  <2>1. \A i \in DOMAIN results : i = 1 \/ (i - 1 \in DOMAIN results' /\ results'[i - 1] = results[i])
    BY <1>1
  <2>2. job = results[1]
    BY <1>1
  <2>3. JobSet = DOMAIN building \cup {results[i] : i \in DOMAIN results}
        /\ JobSet' = DOMAIN building \cup {results'[i] : i \in DOMAIN results'}
    BY <1>1 DEF JobSet
  <2> HIDE DEF job
  <2> QED
    BY <2>1, <2>2, <2>3
<1> HIDE DEF job
<1>5. DirtyListExact'
  BY <1>3 DEF Orders, Exact, Once, Waiting, DirtyListExact
<1>6. ASSUME ~Ended', NEW d \in Running(queue') PROVE \E j \in JobSet' : j.column = d
  <2>1. d \in Running(queue) /\ d # job.column /\ ~Ended
    BY <1>1, <1>3, <1>6 DEF Orders, Ended
  <2>2. PICK j \in JobSet : j.column = d
    BY <2>1 DEF Places, RunningHasJob, Running
  <2> QED
    BY <1>4, <2>1, <2>2
<1> QED
  BY <1>5, <1>6 DEF RunningHasJob, Running

LEMMA FinishPlaces ==
  ASSUME Places, NEW job, Finish(job) PROVE (DirtyListExact /\ RunningHasJob)'
<1>1. /\ IsABag(building) /\ BagIn(job, building) /\ building' = building (-) SetToBag({job})
      /\ results \in Seq(AllJobs) /\ results' = Append(results, job) /\ pc' = pc /\ queue' = queue
      /\ job \in AllJobs
  BY DEF Places, IInv, TypeOK, Finish, session, BagIn, BagToSet
<1>2. \A j \in DOMAIN building : j = job \/ j \in DOMAIN building'
  BY <1>1 DEF IsABag, (-), SetToBag
<1>3. /\ Len(results) + 1 \in DOMAIN results' /\ results'[Len(results) + 1] = job
      /\ \A i \in DOMAIN results : i \in DOMAIN results' /\ results'[i] = results[i]
  BY <1>1
<1>4. JobSet \subseteq JobSet'
  BY <1>2, <1>3 DEF JobSet
<1> QED
  BY <1>1, <1>4, QueueIs, OrderedStep DEF Ended

\* No column is stuck: the dirty list holds exactly the columns that wait, each
\* once, so that the column at its front is always a job (the arm of next_job
\* that "only guards the invariant" is never taken), and a running column has
\* its job in the pool or in the channel until the session ends.
THEOREM NoColumnIsStuck == Spec => [](DirtyListExact /\ RunningHasJob)
<1>1. Init => Places
  <2> SUFFICES ASSUME Init PROVE Places
    OBVIOUS
  <2>1. Outstanding(queue) = {} /\ queue.dirty = <<>>
    BY DEF Init, NewQueue, Outstanding
  <2> QED
    BY <2>1, InitInv DEF Places, DirtyListExact, RunningHasJob, Members
<1>2. Places /\ [Next]_vars => Places'
  <2> SUFFICES ASSUME Places, [Next]_vars PROVE Places'
    OBVIOUS
  <2>1. IInv'
    BY NextInv DEF Places
  <2>2. (DirtyListExact /\ RunningHasJob)'
    BY PacketPlaces, RebuildMarkPlaces, StillPlaces, SpawnPlaces, DrainPlaces, FinishPlaces
       DEF Next, Pump, Pool
  <2> QED
    BY <2>1, <2>2 DEF Places
<1>3. Places => DirtyListExact /\ RunningHasJob
  BY DEF Places
<1> QED
  BY <1>1, <1>2, <1>3, PTL DEF Spec

-----------------------------------------------------------------------------
(* The pipeline is a view of columns: every step changes the world and     *)
(* retracts what is gone, reports one column as it is, or shows what was   *)
(* told.                                                                   *)

Current == [c \in Columns |-> Build(world, light, c).blocks]

\* A step that tells the window nothing, or only what is gone.
LEMMA ViewRetracts ==
  ASSUME shown' = shown, DOMAIN Caught' \subseteq DOMAIN Caught,
         \A c \in DOMAIN Caught' : Caught'[c] = Caught[c],
         \A c \in DOMAIN Caught \ DOMAIN Caught' : world'[c] = Absent
  PROVE  View!Next
<1>1. DOMAIN Current' = Columns
  BY DEF Current
<1>2. DOMAIN Caught \subseteq Columns
  BY DEF Caught, CaughtUp
<1>3. \A c \in DOMAIN Caught \ DOMAIN Caught' : Current'[c] = EmptyBuild.blocks
  BY <1>2, BuildBlocks DEF Current, BlocksOf, EmptyBuild
<1>4. /\ DOMAIN Blocks(Caught)' = DOMAIN Caught' /\ DOMAIN Blocks(Caught) = DOMAIN Caught
      /\ \A c \in DOMAIN Caught' : Blocks(Caught)'[c] = Blocks(Caught)[c]
      /\ Blocks(shown)' = Blocks(shown)
  BY DEF Blocks
<1>5. View!WorldChanges
  BY <1>1, <1>3, <1>4 DEF View!WorldChanges, Current
<1> QED
  BY <1>5 DEF View!Next

LEMMA ViewQuiet == ASSUME shown' = shown, events' = events PROVE View!Next
<1>1. Caught' = Caught
  BY DEF Caught
<1> QED
  BY <1>1, ViewRetracts

\* An unload that is reported or not: only its column can be retracted.
LEMMA UnloadRetracts ==
  ASSUME NEW reports \in Seq(Reports), NEW held, NEW c \in Columns, NEW missing \in BOOLEAN,
         NEW x \in Columns
  PROVE  LET more == reports \o (IF missing THEN <<>> ELSE <<Unloaded(c)>>)
         IN  /\ more \in Seq(Reports)
             /\ \/ Agree(CaughtUp(reports, held), CaughtUp(more, held), x)
                \/ ~missing /\ x = c /\ x \notin DOMAIN CaughtUp(more, held)
<1> DEFINE more == reports \o (IF missing THEN <<>> ELSE <<Unloaded(c)>>)
<1>1. CASE x # c
  BY <1>1, MaybeUnloaded
<1>2. CASE missing
  <2>1. more = reports
    BY <1>2
  <2> QED
    BY <2>1 DEF Agree
<1>3. CASE ~missing /\ x = c
  <2>1. Unloaded(c) \in Reports /\ SpeaksOf(Unloaded(c), x) /\ Unloaded(c).kind # "ChunkUpdated"
    BY <1>3 DEF Reports, SpeaksOf, Unloaded
  <2>2. more = Append(reports, Unloaded(c)) /\ more \in Seq(Reports)
    BY <1>3, <2>1
  <2> HIDE DEF more
  <2>3. x \notin DOMAIN CaughtUp(more, held)
    BY <2>1, <2>2, SpokenAppend
  <2> QED
    BY <1>3, <2>2, <2>3 DEF more
<1> QED
  BY <1>1, <1>2, <1>3

LEMMA ChunkUnloadView ==
  ASSUME IInv, NEW c \in Columns, ChunkUnload(c) PROVE View!Next
<1>1. shown' = shown /\ events \in Seq(Reports) /\ events' = Append(events, Unloaded(c))
  BY DEF IInv, TypeOK, ChunkUnload, InWorld, Handle
<1>2. world'[c] = Absent
  BY DEF ChunkUnload, IInv, TypeOK
<1>3. DOMAIN Caught \subseteq Columns /\ DOMAIN Caught' \subseteq Columns
  BY DEF Caught, CaughtUp
<1>4. \A x \in Columns : \/ Agree(Caught, Caught', x)
                         \/ x = c /\ x \notin DOMAIN Caught'
  <2> SUFFICES ASSUME NEW x \in Columns
               PROVE  Agree(Caught, Caught', x) \/ (x = c /\ x \notin DOMAIN Caught')
    OBVIOUS
  <2>1. Unloaded(c) \in Reports /\ Unloaded(c).kind # "ChunkUpdated"
        /\ (SpeaksOf(Unloaded(c), x) <=> x = c)
    BY DEF Reports, SpeaksOf, Unloaded
  <2>2. Caught' = CaughtUp(Append(events, Unloaded(c)), shown)
    BY <1>1 DEF Caught
  <2>3. CASE x = c
    BY <1>1, <2>1, <2>2, <2>3, SpokenAppend
  <2>4. CASE x # c
    BY <1>1, <2>1, <2>2, <2>4, SilentAppend DEF Caught
  <2> QED
    BY <2>3, <2>4
<1> QED
  BY <1>1, <1>2, <1>3, <1>4, ViewRetracts DEF Agree

LEMMA RespawnView == ASSUME IInv, RespawnElsewhere PROVE View!Next
<1>1. /\ shown' = shown /\ events \in Seq(Reports) /\ events' = Append(events, Cleared)
      /\ world' = EmptyWorld
  BY DEF IInv, TypeOK, RespawnElsewhere, InWorld, Handle
<1>2. Cleared \in Reports /\ Cleared.kind # "ChunkUpdated" /\ \A c : SpeaksOf(Cleared, c)
  BY DEF Reports, SpeaksOf, Cleared
<1>3. Caught' = CaughtUp(Append(events, Cleared), shown)
  BY <1>1 DEF Caught
<1>4. \A c \in Columns : c \notin DOMAIN Caught'
  BY <1>1, <1>2, <1>3, SpokenAppend
<1>5. DOMAIN Caught \subseteq Columns /\ DOMAIN Caught' = {}
  BY <1>4 DEF Caught, CaughtUp
<1> QED
  BY <1>1, <1>5, ViewRetracts DEF EmptyWorld

LEMMA BulkView ==
  ASSUME IInv, NEW c \in BulkColumns, NEW d \in BulkColumns, NEW loads \in SUBSET {c, d},
         MapChunkBulk(c, d, loads)
  PROVE  View!Next
<1>1. shown' = shown /\ events \in Seq(Reports) /\ c \in Columns /\ d \in Columns
  BY BoundsAssumption DEF IInv, TypeOK, MapChunkBulk, InWorld, Handle
<1>2. \A x \in {c, d} \ loads : world'[x] = Absent
  BY <1>1 DEF MapChunkBulk, ApplyBulk
<1>3. DOMAIN Caught \subseteq Columns /\ DOMAIN Caught' \subseteq Columns
  BY DEF Caught, CaughtUp
<1>4. ASSUME NEW x \in Columns
      PROVE  Agree(Caught, Caught', x) \/ (x \in {c, d} \ loads /\ x \notin DOMAIN Caught')
  <2> DEFINE first == events \o (IF c \in loads THEN <<>> ELSE <<Unloaded(c)>>)
             f == CaughtUp(first, shown)
  <2>1. /\ first \in Seq(Reports)
        /\ Agree(Caught, f, x) \/ (x = c /\ c \notin loads /\ x \notin DOMAIN f)
    BY <1>1, UnloadRetracts DEF Caught
  <2>2. events' = first \o (IF d \in loads THEN <<>> ELSE <<Unloaded(d)>>)
    BY DEF MapChunkBulk
  <2> HIDE DEF first
  <2>3. Agree(f, Caught', x) \/ (x = d /\ d \notin loads /\ x \notin DOMAIN Caught')
    BY <1>1, <2>1, <2>2, UnloadRetracts DEF Caught
  <2> HIDE DEF f
  <2> QED
    BY <2>1, <2>3 DEF Agree
<1> QED
  BY <1>1, <1>2, <1>3, <1>4, ViewRetracts DEF Agree

\* A drained build is the column as it is, or tells the window nothing.
LEMMA DrainView == ASSUME IInv, Drain PROVE View!Next
<1> DEFINE job == Head(results)
           current == Carries(queue, job.column, job.generation)
           e == Updated(job.column, job.build)
<1>1. UNCHANGED <<world, light, shown>>
  BY DEF Drain, session, store
<1>2. job \in JobSet /\ job \in AllJobs
  BY DEF IInv, TypeOK, Drain, JobSet
<1>3. e \in Reports /\ job.column \in Columns
  BY <1>2 DEF Reports, AllJobs
<1>4. events \in Seq(Reports)
  BY DEF IInv, TypeOK
<1>5. events' = IF current THEN Append(events, e) ELSE events
  BY DEF Drain
<1>6. current => job.build.blocks = Current[job.column]
  BY <1>2, <1>3 DEF IInv, AcceptedIsCurrent, Current
<1>7. /\ e.kind = "ChunkUpdated" /\ e.build = job.build
      /\ \A c : SpeaksOf(e, c) <=> c = job.column
  BY DEF Updated, SpeaksOf
<1> HIDE DEF job, current, e
<1>8. CASE ~current
  BY <1>1, <1>5, <1>8, ViewQuiet
<1>9. CASE current
  <2> DEFINE told == Blocks(Caught)
  <2>1. Caught' = CaughtUp(Append(events, e), shown)
    BY <1>1, <1>5, <1>9 DEF Caught
  <2>2. job.column \in DOMAIN Caught' /\ Caught'[job.column] = job.build
    BY <1>3, <1>4, <1>7, <2>1, SpokenAppend
  <2>3. \A c \in Columns \ {job.column} : Agree(Caught, Caught', c)
    BY <1>3, <1>4, <1>7, <2>1, SilentAppend DEF Caught
  <2>4. DOMAIN Caught \subseteq Columns /\ DOMAIN Caught' \subseteq Columns
    BY DEF Caught, CaughtUp
  <2>5. DOMAIN Caught' = DOMAIN Caught \cup {job.column}
    BY <1>3, <2>2, <2>3, <2>4 DEF Agree
  <2>6. Blocks(Caught)' = [c \in DOMAIN Caught' |-> Caught'[c].blocks]
    BY DEF Blocks
  <2>7. \A c \in DOMAIN Caught' :
          Caught'[c].blocks = IF c = job.column THEN Current[job.column] ELSE told[c]
    BY <1>6, <1>9, <2>2, <2>3, <2>4, <2>5 DEF Blocks, Agree
  <2>8. Blocks(Caught)' = [c \in DOMAIN told \cup {job.column} |->
                             IF c = job.column THEN Current[job.column] ELSE told[c]]
    BY <2>5, <2>6, <2>7 DEF Blocks
  <2>9. Current' = Current /\ Blocks(shown)' = Blocks(shown)
    BY <1>1 DEF Current, Blocks
  <2>10. View!Report(job.column)
    BY <2>8, <2>9 DEF View!Report, Current
  <2> QED
    BY <1>3, <2>10 DEF View!Next
<1> QED
  BY <1>8, <1>9

LEMMA FrameView == ASSUME IInv, Frame PROVE View!Next
<1>1. Caught' = Caught /\ shown' = Caught
  BY CaughtAfterFrame DEF IInv, Frame
<1>2. Current' = Current
  BY DEF Frame, store, Current
<1>3. Blocks(Caught)' = Blocks(Caught) /\ Blocks(shown)' = Blocks(Caught)
  BY <1>1 DEF Blocks
<1>4. View!Show
  BY <1>2, <1>3 DEF View!Show, Current
<1> QED
  BY <1>4 DEF View!Next

LEMMA ViewInit == Init => View!Init
<1> SUFFICES ASSUME Init PROVE View!Init
  OBVIOUS
<1>1. Caught = [c \in {} |-> EmptyBuild]
  <2>1. \A c : ~StillHeld(events, shown, c)
    BY DEF Init, StillHeld, Spoken, LastWord
  <2> QED
    BY <2>1 DEF Caught, CaughtUp
<1>2. Blocks(Caught) = View!Nothing /\ Blocks(shown) = View!Nothing
  BY <1>1 DEF Blocks, View!Nothing, Init
<1>3. Current = [c \in Columns |-> EmptyBuild.blocks]
  BY BuildBlocks DEF Init, EmptyWorld, Current, BlocksOf, EmptyBuild
<1> QED
  BY <1>2, <1>3 DEF View!Init, Current

LEMMA ViewNext == IInv /\ [Next]_vars => [View!Next]_(View!vars)
<1> SUFFICES ASSUME IInv, [Next]_vars PROVE View!Next
  OBVIOUS
<1>1. CASE Packet
  <2>1. CASE JoinGame \/ RebuildMeshes \/ \E c \in Columns : ChunkData(c) \/ BlockChange(c)
    BY <2>1, ViewQuiet DEF JoinGame, RebuildMeshes, ChunkData, BlockChange, InWorld, Handle
  <2> QED
    BY <1>1, <2>1, RespawnView, ChunkUnloadView, BulkView DEF Packet
<1>2. CASE RebuildMark \/ Idle \/ StreamEnd \/ SessionFails \/ FinishDeadline
  BY <1>2, ViewQuiet DEF RebuildMark, Idle, StreamEnd, SessionFails, FinishDeadline
<1>3. CASE Pump
  BY <1>3, DrainView, ViewQuiet DEF Pump, Spawn, SpawnDone, DrainDone, FinishRound
<1>4. CASE Pool
  BY <1>4, ViewQuiet DEF Pool, Finish
<1>5. CASE Frame
  BY <1>5, FrameView
<1>6. CASE UNCHANGED vars
  BY <1>6, ViewQuiet DEF vars
<1> QED
  BY <1>1, <1>2, <1>3, <1>4, <1>5, <1>6 DEF Next

\* The safety of ViewHolds: through the queue, the pool and the channel, the
\* window is told of a column only what it is at that moment, loses only what
\* is gone, and shows what it was told.
THEOREM PipelineIsAView == Spec => View!Init /\ [][View!Next]_(View!vars)
BY Invariance, ViewInit, ViewNext, PTL DEF Spec
=============================================================================
