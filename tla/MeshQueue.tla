------------------------------ MODULE MeshQueue ------------------------------
(***************************************************************************)
(* The session's dirty set (crates/oxide-game/src/mesh_queue.rs): which    *)
(* columns need a mesh build, and which build's result is still current.   *)
(*                                                                         *)
(* The queue is a value, as the struct is in the code: a record of the     *)
(* waiting columns in order (dirty), every outstanding column's state      *)
(* (states) and the last generation handed out (next).  Each operator is   *)
(* one method, from a queue to the queue it leaves behind.  The model      *)
(* keeps a finite excerpt of the grid; its geometry is a parameter: for    *)
(* every column its four orthogonal and its four diagonal neighbours, in   *)
(* the order the code visits them, Nowhere for one outside the excerpt.    *)
(***************************************************************************)
EXTENDS Integers, Sequences, FiniteSets

CONSTANTS Columns,      \* the columns of the excerpt
          Nowhere,      \* stands for a neighbour outside the excerpt
          Orthogonal,   \* column -> its neighbours at +x, -x, +z, -z
          Diagonal      \* column -> its four diagonal neighbours

Fours == [1 .. 4 -> Columns \cup {Nowhere}]

ASSUME GeometryAssumption ==
  /\ IsFiniteSet(Columns) /\ Nowhere \notin Columns
  /\ Orthogonal \in [Columns -> Fours]
  /\ Diagonal \in [Columns -> Fours]

\* The columns a sequence names, Nowhere left out.
Members(s) == {s[i] : i \in DOMAIN s} \ {Nowhere}

ASSUME SymmetryAssumption ==
  \A c, d \in Columns :
     /\ d \in Members(Orthogonal[c]) <=> c \in Members(Orthogonal[d])
     /\ d \in Members(Orthogonal[c]) => c # d

\* A column's place in the queue: the phase and the generation it carries.
ColumnStates == [phase : {"Dirty", "Running"}, generation : Nat]

NewQueue == [dirty |-> <<>>, states |-> [d \in {} |-> 0], next |-> 0]

Outstanding(q) == DOMAIN q.states

IsQueue(q) ==
  /\ Outstanding(q) \subseteq Columns
  /\ q \in [dirty : Seq(Columns), states : [Outstanding(q) -> ColumnStates], next : Nat]

Pending(q) == Cardinality(Outstanding(q))

\* Whether the column is outstanding and carries this generation.
Carries(q, c, generation) ==
  c \in Outstanding(q) /\ q.states[c].generation = generation

\* The dirty list without the column's place in it.
Position(s, c) == CHOOSE i \in DOMAIN s : s[i] = c

WithoutColumn(s, c) ==
  IF c \in Members(s)
  THEN [i \in 1 .. Len(s) - 1 |-> IF i < Position(s, c) THEN s[i] ELSE s[i + 1]]
  ELSE s

\* MUTANT of MarkDirty: a running column keeps the generation of its job.
MarkDirtyKeepsGeneration(q, c) ==
  IF c \in Outstanding(q) THEN q
  ELSE [dirty  |-> Append(q.dirty, c),
        states |-> [d \in Outstanding(q) \cup {c} |->
                      IF d = c THEN [phase |-> "Dirty", generation |-> q.next + 1]
                               ELSE q.states[d]],
        next   |-> q.next + 1]

\* mark_dirty: a fresh generation; a column already outstanding keeps its
\* place and its phase, any other one starts to wait at the back.
MarkDirty(q, c) ==
  LET fresh   == q.next + 1
      phase   == IF c \in Outstanding(q) THEN q.states[c].phase ELSE "Dirty"
  IN  [dirty  |-> IF c \in Outstanding(q) THEN q.dirty ELSE Append(q.dirty, c),
       states |-> [d \in Outstanding(q) \cup {c} |->
                     IF d = c THEN [phase |-> phase, generation |-> fresh]
                              ELSE q.states[d]],
       next   |-> fresh]

MarkIfIn(q, c, wanted) == IF c \in wanted THEN MarkDirty(q, c) ELSE q

\* mark_dirty on those of four neighbours that are wanted, first to last.
MarkFour(q, four, wanted) ==
  LET one   == MarkIfIn(q, four[1], wanted)
      two   == MarkIfIn(one, four[2], wanted)
      three == MarkIfIn(two, four[3], wanted)
  IN  MarkIfIn(three, four[4], wanted)

WithPhase(q, c, phase) == [q.states EXCEPT ![c].phase = phase]

\* next_job: the front of the dirty list, when it is waiting.
HasJob(q) ==
  /\ q.dirty # <<>>
  /\ Head(q.dirty) \in Outstanding(q)
  /\ q.states[Head(q.dirty)].phase = "Dirty"

NextColumn(q) == Head(q.dirty)

NextGeneration(q) == q.states[NextColumn(q)].generation

\* mark_running: only for the generation the waiting column still carries.
MarkRunning(q, c, generation) ==
  IF Carries(q, c, generation) /\ q.states[c].phase = "Dirty"
  THEN [dirty  |-> WithoutColumn(q.dirty, c),
        states |-> WithPhase(q, c, "Running"),
        next   |-> q.next]
  ELSE q

\* forget: the column's state and its place go.
Forget(q, c) ==
  [dirty  |-> WithoutColumn(q.dirty, c),
   states |-> [d \in Outstanding(q) \ {c} |-> q.states[d]],
   next   |-> q.next]

\* A running column waits once more, with the generation it carries.
WaitAgain(q, c) ==
  [dirty  |-> Append(q.dirty, c),
   states |-> WithPhase(q, c, "Dirty"),
   next   |-> q.next]

\* complete: a current build forgets its column; a stale one queues the
\* column again unless it is waiting already, with the generation the change
\* stamped on it or, for a forgotten column, a fresh one.
Complete(q, c, generation) ==
  CASE Carries(q, c, generation) -> Forget(q, c)
    [] c \notin Outstanding(q) -> MarkDirty(q, c)
    [] c \in Outstanding(q) /\ ~Carries(q, c, generation)
         /\ q.states[c].phase = "Running" ->
         WaitAgain(q, c)
    [] OTHER -> q

\* mark_column_unloaded: the column is forgotten, its neighbours are marked.
MarkColumnUnloaded(q, c) ==
  MarkFour(Forget(q, c), Orthogonal[c], Columns)

\* MUTANT of ClearInPlace: the counter starts over with the new world.
ClearStartsOver(q) == NewQueue

\* clear_in_place: nothing is outstanding, the generation counter survives.
ClearInPlace(q) == [dirty |-> <<>>, states |-> NewQueue.states, next |-> q.next]
=============================================================================
