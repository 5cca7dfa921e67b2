----------------------------- MODULE AssetStore -----------------------------
(***************************************************************************)
(* The asset store and the runs that fill it                               *)
(* (crates/oxide-assets/src/fetch.rs, store.rs, extract.rs).               *)
(*                                                                         *)
(* A run holds the store's lock while it resolves the version document and *)
(* the asset index, fetches the objects of the index and the jar, and      *)
(* extracts the jar.  Every file is written beside its name and renamed    *)
(* over it, so that an error or a kill leaves each file as it was before   *)
(* the step or as it is after.  Between the steps a file may rot.          *)
(*                                                                         *)
(* A file is the revision of the version it belongs to; a rotted one is    *)
(* "bad".  The version document alone is not checked against a hash: it    *)
(* may rot so that it still passes for what it was (`flawed`).  Revisions  *)
(* differ in their jars; the guard of 1.8.9 lets one of them pass, any     *)
(* other version has none.  The space check, the plan of a dry run and the *)
(* strict pass report without a change of the store; what a rot that keeps *)
(* an extracted file's size does, which no run looks for, is left out.     *)
(***************************************************************************)
EXTENDS Integers, Sequences, SequencesExt, FiniteSets

CONSTANTS
  Runs,      \* the processes that may fetch
  Revisions, \* the revisions the version is published in
  Pinned,    \* the one whose jar the constants pin, should the version be 1.8.9
  Index,     \* the objects of a revision's index, in its order
  Entries,   \* the files of a revision's jar, in its order
  MaxEvents  \* errors, kills, rots and publications (bound)

ASSUME RevisionsAssumption == {"none", "bad", "unreadable"} \cap Revisions = {}
ASSUME PinnedAssumption == Pinned \in Revisions
ASSUME ListsAssumption ==
  \A r \in Revisions : Index[r] \in Seq(ToSet(Index[r])) /\ Entries[r] \in Seq(ToSet(Entries[r]))

VARIABLES
  store,     \* the files
  run,       \* the runs
  lock,      \* the holder of the lock, which the operating system keeps
  guard,     \* the revisions check_jar_descriptor lets pass
  published, \* the revision the servers publish
  events     \* events so far (bound)

storeVars == <<store, run, lock, guard, published, events>>

Objects == UNION {ToSet(Index[r]) : r \in Revisions}
Files == UNION {ToSet(Entries[r]) : r \in Revisions}

\* "disturbed": a file has rotted since the run began (history).
Idle == [pc |-> "idle", dry |-> FALSE, rev |-> "none", flawed |-> FALSE, at |-> 1, disturbed |-> FALSE]

StoreInit ==
  /\ store = [document |-> "none", flawed |-> FALSE, index |-> "none", jar |-> "none",
              manifest |-> "none", object |-> [o \in Objects |-> "none"],
              tree |-> [f \in Files |-> "none"]]
  /\ run = [p \in Runs |-> Idle]
  /\ lock = {}
  /\ guard \in {Revisions, {Pinned}}
  /\ published \in Revisions
  /\ events = 0
-----------------------------------------------------------------------------
\* Mutant of Take: the lock is not asked for.
TakeAnyway(p) == lock' = {p}

\* A run is refused while another holds the lock.
Take(p) == lock = {} /\ lock' = {p}

Begin(p, dry) ==
  /\ run[p].pc = "idle"
  /\ Take(p)
  /\ run' = [run EXCEPT ![p] = [Idle EXCEPT !.pc = "document", !.dry = dry]]
  /\ UNCHANGED <<store, published, events>>

\* The lock is let go on every way out, a kill included.
Leave(p) == run' = [run EXCEPT ![p] = Idle] /\ lock' = lock \ {p}

Turn(p, next) == run' = [run EXCEPT ![p] = next] /\ UNCHANGED lock

\* The run is at this place of a list; past its end it goes on to what follows.
Walks(p, pc, at, list, after) ==
  Turn(p, IF at <= Len(list) THEN [run[p] EXCEPT !.pc = pc, !.at = at]
          ELSE [run[p] EXCEPT !.pc = after, !.at = 1])

WalkObjects(p, at) == Walks(p, "objects", at, Index[run[p].rev], "jar")
WalkFiles(p, at)   == Walks(p, "files", at, Entries[run[p].rev], "manifest")

\* A run that can neither go on nor put it right.
GivesUp(p) == Leave(p) /\ UNCHANGED store

\* The stored document, on its word alone, when it passes the guard; else the
\* published one, which a dry run does not store, if that passes.
ResolveVersion(p) ==
  /\ run[p].pc = "document"
  /\ LET stored == store.document \in guard
         rev == IF stored THEN store.document ELSE published
     IN  \/ /\ rev \in guard
            /\ store' = IF stored \/ run[p].dry THEN store
                        ELSE [store EXCEPT !.document = rev, !.flawed = FALSE]
            /\ Turn(p, [run[p] EXCEPT !.rev = rev, !.pc = "index", !.flawed = stored /\ store.flawed])
         \/ rev \notin guard /\ GivesUp(p)

\* What a flawed document says of a file may be a hash nothing has, or an address
\* that answers nothing: the run ends, or finds the file in place and goes on.
\* A dry run plans and ends here.
ResolveIndex(p) ==
  /\ run[p].pc = "index"
  /\ \/ (run[p].dry \/ run[p].flawed) /\ GivesUp(p)
     \/ /\ ~run[p].dry
        /\ store' = [store EXCEPT !.index = run[p].rev]
        /\ WalkObjects(p, 1)

\* Mutant of ProvesCorruption: any failure to verify does.
AnythingProves(held) == held \in {"bad", "unreadable"}

\* What cannot be read proves nothing of its bytes.
ProvesCorruption(held) == held = "bad"

\* An object in place is verified and reused; one that is provably wrong is
\* removed, then fetched; another failure ends the run.
FetchObject(p) ==
  /\ run[p].pc = "objects"
  /\ LET o == Index[run[p].rev][run[p].at]
         held == store.object[o]
     IN  CASE held = "good" -> WalkObjects(p, run[p].at + 1) /\ UNCHANGED store
           [] held = "none" -> /\ WalkObjects(p, run[p].at + 1)
                               /\ store' = [store EXCEPT !.object[o] = "good"]
           [] ProvesCorruption(held) -> /\ store' = [store EXCEPT !.object[o] = "none"]
                                        /\ Turn(p, run[p])
           [] OTHER -> GivesUp(p)

\* Mutant of FetchJar: a jar that is there is kept without a look at it.
FetchJarOnce(p) ==
  /\ run[p].pc = "jar"
  /\ store' = IF store.jar = "none" THEN [store EXCEPT !.jar = run[p].rev] ELSE store
  /\ Turn(p, [run[p] EXCEPT !.pc = "extract"])

\* The jar in place is reused when it verifies, else replaced; one that cannot be
\* read ends the run.
FetchJar(p) ==
  /\ run[p].pc = "jar"
  /\ \/ (run[p].flawed \/ store.jar = "unreadable") /\ GivesUp(p)
     \/ /\ store.jar # "unreadable"
        /\ store' = [store EXCEPT !.jar = run[p].rev]
        /\ Turn(p, [run[p] EXCEPT !.pc = "extract"])

\* The manifest names this jar, and every file it lists has its size.
ManifestMatches(rev) ==
  /\ store.manifest = rev
  /\ \A f \in ToSet(Entries[rev]) : store.tree[f] \notin {"none", "bad"}

\* Mutant of Extract: the stale manifest is left until the fresh one is written.
ExtractUnderManifest(p) ==
  /\ run[p].pc = "extract"
  /\ UNCHANGED store
  /\ IF store.jar \in {"bad", "unreadable"} THEN Leave(p)
     ELSE IF ManifestMatches(run[p].rev) THEN Turn(p, [run[p] EXCEPT !.pc = "report"])
     ELSE WalkFiles(p, 1)

\* The extraction is skipped when it is current.  Otherwise the manifest goes
\* first; a jar that has rotted meanwhile is not read, or does not open.
Extract(p) ==
  /\ run[p].pc = "extract"
  /\ \/ store.jar = "unreadable" /\ GivesUp(p)
     \/ /\ store.jar = run[p].rev /\ ManifestMatches(run[p].rev)
        /\ Turn(p, [run[p] EXCEPT !.pc = "report"]) /\ UNCHANGED store
     \/ /\ store.jar # "unreadable" /\ ~(store.jar = run[p].rev /\ ManifestMatches(run[p].rev))
        /\ store' = [store EXCEPT !.manifest = "none"]
        /\ IF store.jar = "bad" THEN Leave(p) ELSE WalkFiles(p, 1)

ExtractFile(p) ==
  /\ run[p].pc = "files"
  /\ store' = [store EXCEPT !.tree[Entries[run[p].rev][run[p].at]] = run[p].rev]
  /\ WalkFiles(p, run[p].at + 1)

\* The fresh manifest is written last.
WriteManifest(p) ==
  /\ run[p].pc = "manifest"
  /\ store' = [store EXCEPT !.manifest = run[p].rev]
  /\ Turn(p, [run[p] EXCEPT !.pc = "report"])

Report(p) == run[p].pc = "report" /\ Leave(p) /\ UNCHANGED store

Step(p) ==
  /\ \/ ResolveVersion(p) \/ ResolveIndex(p) \/ FetchObject(p) \/ FetchJar(p)
     \/ Extract(p) \/ ExtractFile(p) \/ WriteManifest(p) \/ Report(p)
  /\ UNCHANGED <<published, events>>
-----------------------------------------------------------------------------
Event == events < MaxEvents /\ events' = events + 1

\* An error of the transport or the disk, or a kill, ends the run where it is.
Ends(p) ==
  /\ run[p].pc # "idle" /\ Event
  /\ Leave(p)
  /\ UNCHANGED <<store, published>>

\* A file that is there rots.  A document may do so unnoticed; an object or the jar
\* may become unreadable, and any other file that does is replaced like a bad one.
Rotted ==
  {[store EXCEPT ![part] = "bad"] :
     part \in {q \in {"index", "jar", "manifest"} : store[q] # "none"}}
  \cup (IF store.document \in Revisions
        THEN {[store EXCEPT !.document = "bad", !.flawed = FALSE], [store EXCEPT !.flawed = TRUE]}
        ELSE {})
  \cup (IF store.jar = "none" THEN {} ELSE {[store EXCEPT !.jar = "unreadable"]})
  \cup {[store EXCEPT !.tree[f] = "bad"] : f \in {g \in Files : store.tree[g] # "none"}}
  \cup {[store EXCEPT !.object[o] = held] :
          o \in {q \in Objects : store.object[q] # "none"}, held \in {"bad", "unreadable"}}

Rot ==
  /\ Event
  /\ store' \in Rotted
  /\ run' = [p \in Runs |-> [run[p] EXCEPT !.disturbed = @ \/ run[p].pc # "idle"]]
  /\ UNCHANGED <<lock, published>>

Publish ==
  /\ Event
  /\ published' \in Revisions \ {published}
  /\ UNCHANGED <<store, run, lock>>

StoreNext ==
  /\ \/ \E p \in Runs : (\E dry \in BOOLEAN : Begin(p, dry)) \/ Step(p) \/ Ends(p)
     \/ Rot \/ Publish
  /\ UNCHANGED guard
-----------------------------------------------------------------------------
(* Properties.                                                             *)

\* Wherever runs end, and whatever is published meanwhile, a manifest never
\* describes a partial tree: every file it lists is of its jar, or has rotted.
ManifestIsTrue ==
  store.manifest \in Revisions =>
    \A f \in ToSet(Entries[store.manifest]) : store.tree[f] \in {store.manifest, "bad"}

Complete(rev) ==
  /\ store.document = rev /\ store.index = rev /\ store.jar = rev /\ store.manifest = rev
  /\ \A o \in ToSet(Index[rev]) : store.object[o] = "good"
  /\ \A f \in ToSet(Entries[rev]) : store.tree[f] = rev

\* A run that comes to its report undisturbed leaves a complete store, from
\* whatever earlier runs left and rot damaged.
CompletedIsComplete ==
  \A p \in Runs : run[p].pc = "report" /\ ~run[p].disturbed => Complete(run[p].rev)

\* A run removes no object it did not find wrong, and a dry run changes no file.
KeptAsIs ==
  [][events' = events =>
       /\ \A o \in Objects :
            store.object[o] \in {"good", "unreadable"} => store'.object[o] = store.object[o]
       /\ (\E p \in lock : run[p].dry) => store' = store]_storeVars

\* What no run puts right: a document that has rotted unnoticed or whose like is
\* not published any more, and files that cannot be read, which prove nothing.
BeyondRepair ==
  \/ store.document \in guard /\ store.flawed
  \/ store.document \notin guard /\ published \notin guard
  \/ store.jar = "unreadable" \/ \E o \in Objects : store.object[o] = "unreadable"

\* A run after the last error, kill or rot repairs the store, whatever earlier
\* runs left of it, unless it is beyond repair.
RunsRepair ==
  \A p \in Runs :
    run[p].pc = "document" /\ ~run[p].dry /\ events = MaxEvents /\ ~BeyondRepair
    ~> run[p].pc = "report" /\ Complete(run[p].rev)
=============================================================================
