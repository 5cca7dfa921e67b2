--------------------------- MODULE LauncherProofs ---------------------------
(***************************************************************************)
(* The launcher's store of assets and its accounts for every set of        *)
(* processes, revisions and accounts and any number of errors: a manifest  *)
(* is true, a report means a complete store, and an account stands as the  *)
(* launcher said.                                                          *)
(***************************************************************************)
EXTENDS Launcher, TLAPS

Marks == Revisions \cup {"none", "bad"}

Stores ==
  [document : Marks, flawed : BOOLEAN, index : Marks, jar : Marks \cup {"unreadable"},
   manifest : Marks,
   object : [Objects -> {"none", "good", "bad", "unreadable"}], tree : [Files -> Marks]]

Places == {"idle", "document", "index", "objects", "jar", "extract", "files", "manifest", "report"}

RunRecords ==
  [pc : Places, dry : BOOLEAN, rev : Revisions \cup {"none"}, flawed : BOOLEAN, at : Nat \ {0},
   disturbed : BOOLEAN]

StoreTypeOK ==
  /\ store \in Stores /\ run \in [Runs -> RunRecords]
  /\ lock \subseteq Runs /\ published \in Revisions /\ guard \subseteq Revisions

\* The lock is the one process that runs.
Alone ==
  /\ lock = {p \in Runs : run[p].pc # "idle"}
  /\ \A p, q \in lock : p = q

\* What a run relies on wherever it stands, rotted files or not: the files it has
\* extracted are of its jar or have rotted, under no manifest.
Standing(st, r) ==
  /\ r.pc \notin {"idle", "document"} => r.rev \in Revisions
  /\ r.dry => r.pc \in {"document", "index"}
  /\ r.pc = "objects" => r.at <= Len(Index[r.rev])
  /\ r.pc = "files" =>
       /\ r.at <= Len(Entries[r.rev]) /\ st.manifest = "none"
       /\ \A i \in 1 .. r.at - 1 : st.tree[Entries[r.rev][i]] \in {r.rev, "bad"}
  /\ r.pc = "manifest" =>
       \A i \in 1 .. Len(Entries[r.rev]) : st.tree[Entries[r.rev][i]] \in {r.rev, "bad"}

\* What an undisturbed run has brought about by the place it has come to.
Reached(st, r) ==
  /\ r.pc \notin {"idle", "document"} => st.document = r.rev
  /\ r.pc \notin {"idle", "document", "index"} => st.index = r.rev
  /\ r.pc = "objects" => \A i \in 1 .. r.at - 1 : st.object[Index[r.rev][i]] = "good"
  /\ r.pc \in {"jar", "extract", "files", "manifest", "report"} =>
       \A i \in 1 .. Len(Index[r.rev]) : st.object[Index[r.rev][i]] = "good"
  /\ r.pc \in {"extract", "files", "manifest", "report"} => st.jar = r.rev
  /\ r.pc = "files" => \A i \in 1 .. r.at - 1 : st.tree[Entries[r.rev][i]] = r.rev
  /\ r.pc \in {"manifest", "report"} =>
       \A i \in 1 .. Len(Entries[r.rev]) : st.tree[Entries[r.rev][i]] = r.rev
  /\ r.pc = "report" => st.manifest = r.rev

Fit(st, r) == Standing(st, r) /\ (~r.dry /\ ~r.disturbed => Reached(st, r))

True(st) ==
  st.manifest \in Revisions =>
    \A i \in 1 .. Len(Entries[st.manifest]) :
      st.tree[Entries[st.manifest][i]] \in {st.manifest, "bad"}

StoreInv ==
  /\ StoreTypeOK /\ Alone /\ True(store)
  /\ \A p \in Runs : Fit(store, run[p])

-----------------------------------------------------------------------------
(* The lists.                                                              *)

LEMMA InLists ==
  ASSUME NEW rev \in Revisions
  PROVE  /\ Len(Index[rev]) \in Nat /\ Len(Entries[rev]) \in Nat
         /\ ToSet(Index[rev]) = {Index[rev][i] : i \in 1 .. Len(Index[rev])}
         /\ ToSet(Entries[rev]) = {Entries[rev][i] : i \in 1 .. Len(Entries[rev])}
         /\ \A i \in 1 .. Len(Index[rev]) : Index[rev][i] \in Objects
         /\ \A i \in 1 .. Len(Entries[rev]) : Entries[rev][i] \in Files
<1>1. Index[rev] \in Seq(ToSet(Index[rev])) /\ Entries[rev] \in Seq(ToSet(Entries[rev]))
  BY ListsAssumption
<1>2. /\ Len(Index[rev]) \in Nat /\ DOMAIN Index[rev] = 1 .. Len(Index[rev])
      /\ Len(Entries[rev]) \in Nat /\ DOMAIN Entries[rev] = 1 .. Len(Entries[rev])
  BY <1>1
<1>3. /\ ToSet(Index[rev]) = {Index[rev][i] : i \in 1 .. Len(Index[rev])}
      /\ ToSet(Entries[rev]) = {Entries[rev][i] : i \in 1 .. Len(Entries[rev])}
  BY <1>2 DEF ToSet
<1>4. ToSet(Index[rev]) \subseteq Objects /\ ToSet(Entries[rev]) \subseteq Files
  BY DEF Objects, Files
<1>5. /\ \A i \in 1 .. Len(Index[rev]) : Index[rev][i] \in ToSet(Index[rev])
      /\ \A i \in 1 .. Len(Entries[rev]) : Entries[rev][i] \in ToSet(Entries[rev])
  BY <1>3
<1> QED
  BY <1>2, <1>3, <1>4, <1>5

\* True, said of places in the list, is ManifestIsTrue.
LEMMA TrueIs == True(store) <=> ManifestIsTrue
<1>1. CASE store.manifest \in Revisions
  <2>1. PICK rev \in Revisions : rev = store.manifest
    BY <1>1
  <2>2. ToSet(Entries[rev]) = {Entries[rev][i] : i \in 1 .. Len(Entries[rev])}
    BY InLists
  <2> QED
    BY <2>1, <2>2 DEF True, ManifestIsTrue
<1>2. CASE store.manifest \notin Revisions
  BY <1>2 DEF True, ManifestIsTrue
<1> QED
  BY <1>1, <1>2

-----------------------------------------------------------------------------
(* The steps of a run keep the invariant.                                  *)

LEMMA AtPlace ==
  ASSUME NEW r \in RunRecords, NEW pc \in Places, NEW at \in Nat \ {0}
  PROVE  [r EXCEPT !.pc = pc, !.at = at] \in RunRecords
BY DEF RunRecords

\* The run that steps is alone, so what it leaves is all there is to show.
LEMMA Steps ==
  ASSUME StoreInv, NEW p \in Runs, run[p].pc # "idle",
         NEW next \in RunRecords, run' = [run EXCEPT ![p] = next],
         lock' = IF next.pc = "idle" THEN lock \ {p} ELSE lock,
         store' \in Stores, published' = published, guard' = guard,
         True(store'), Fit(store', next)
  PROVE  StoreInv'
<1>1. \A q \in Runs : q # p => run[q].pc = "idle"
  BY DEF StoreInv, Alone
<1>2. /\ run \in [Runs -> RunRecords] /\ lock \subseteq Runs
      /\ published \in Revisions /\ guard \subseteq Revisions
  BY DEF StoreInv, StoreTypeOK
<1>3. /\ run' \in [Runs -> RunRecords] /\ run'[p] = next
      /\ \A q \in Runs : q # p => run'[q] = run[q]
  BY <1>2
<1>4. StoreTypeOK'
  BY <1>2, <1>3 DEF StoreTypeOK
<1>5. Alone'
  BY <1>1, <1>3 DEF StoreInv, Alone
<1>6. ASSUME NEW q \in Runs, q # p PROVE Fit(store', run'[q])
  <2>1. run'[q].pc = "idle" /\ Standing(store, run[q]) /\ run'[q] = run[q]
    BY <1>1, <1>3, <1>6 DEF StoreInv, Fit
  <2> QED
    BY <2>1 DEF Fit, Standing, Reached
<1> QED
  BY <1>3, <1>4, <1>5, <1>6 DEF StoreInv

LEMMA LeaveStep ==
  ASSUME StoreInv, NEW p \in Runs, run[p].pc # "idle", Leave(p),
         store' \in Stores, published' = published, guard' = guard, True(store')
  PROVE  StoreInv'
<1>1. Idle \in RunRecords /\ Idle.pc = "idle" /\ Fit(store', Idle)
  BY DEF Idle, RunRecords, Places, Fit, Standing, Reached
<1> HIDE DEF Idle
<1> QED
  BY <1>1, Steps DEF Leave

LEMMA TurnStep ==
  ASSUME StoreInv, NEW p \in Runs, run[p].pc # "idle", NEW next \in RunRecords, next.pc # "idle",
         Turn(p, next), store' \in Stores, published' = published, guard' = guard, True(store'), Fit(store', next)
  PROVE  StoreInv'
BY Steps DEF Turn

\* A run comes to a place of the objects' list, or past its end.
LEMMA ObjectsStep ==
  ASSUME StoreInv, NEW p \in Runs, run[p].pc \in {"index", "objects"}, ~run[p].dry,
         NEW at \in Nat \ {0}, WalkObjects(p, at), at <= Len(Index[run[p].rev]) + 1,
         store' \in Stores, published' = published, guard' = guard, True(store'),
         run[p].rev \in Revisions,
         ~run[p].disturbed =>
           /\ store'.document = run[p].rev /\ store'.index = run[p].rev
           /\ \A i \in 1 .. at - 1 : store'.object[Index[run[p].rev][i]] = "good"
  PROVE  StoreInv'
<1> DEFINE r == run[p]
<1>1. r \in RunRecords /\ Len(Index[r.rev]) \in Nat
  BY InLists DEF StoreInv, StoreTypeOK
<1>2. CASE at <= Len(Index[r.rev])
  <2> DEFINE next == [r EXCEPT !.pc = "objects", !.at = at]
  <2>1. Turn(p, next)
    BY <1>2 DEF WalkObjects, Walks
  <2>2. next \in RunRecords /\ next.pc # "idle"
    <3>1. {"objects", "jar", "files", "manifest"} \subseteq Places /\ 1 \in Nat \ {0}
      BY DEF Places
    <3>2. next \in RunRecords
      BY <1>1, <3>1, AtPlace
    <3> QED
      BY <1>1, <3>2 DEF RunRecords
  <2>3. Fit(store', next)
    BY <1>1, <1>2 DEF RunRecords, Fit, Standing, Reached
  <2> HIDE DEF next
  <2> QED
    BY <2>1, <2>2, <2>3, TurnStep
<1>3. CASE ~(at <= Len(Index[r.rev]))
  <2> DEFINE next == [r EXCEPT !.pc = "jar", !.at = 1]
  <2>1. Turn(p, next)
    BY <1>3 DEF WalkObjects, Walks
  <2>2. next \in RunRecords /\ next.pc # "idle"
    <3>1. {"objects", "jar", "files", "manifest"} \subseteq Places /\ 1 \in Nat \ {0}
      BY DEF Places
    <3>2. next \in RunRecords
      BY <1>1, <3>1, AtPlace
    <3> QED
      BY <1>1, <3>2 DEF RunRecords
  <2>3. at - 1 = Len(Index[r.rev])
    BY <1>1, <1>3
  <2>4. Fit(store', next)
    BY <1>1, <2>3 DEF RunRecords, Fit, Standing, Reached
  <2> HIDE DEF next
  <2> QED
    BY <2>1, <2>2, <2>4, TurnStep
<1> QED
  BY <1>2, <1>3

\* Likewise the files' list.
LEMMA FilesStep ==
  ASSUME StoreInv, NEW p \in Runs, run[p].pc \in {"extract", "files"}, ~run[p].dry,
         NEW at \in Nat \ {0}, WalkFiles(p, at), at <= Len(Entries[run[p].rev]) + 1,
         store' \in Stores, published' = published, guard' = guard, store'.manifest = "none",
         store'.document = store.document, store'.index = store.index,
         store'.jar = store.jar, store'.object = store.object,
         \A i \in 1 .. at - 1 : store'.tree[Entries[run[p].rev][i]] \in {run[p].rev, "bad"},
         ~run[p].disturbed =>
            /\ store.jar = run[p].rev
            /\ \A i \in 1 .. at - 1 : store'.tree[Entries[run[p].rev][i]] = run[p].rev
  PROVE  StoreInv'
<1> DEFINE r == run[p]
<1>1. r \in RunRecords /\ Fit(store, r) /\ r.rev \in Revisions
  BY DEF StoreInv, StoreTypeOK, Fit, Standing
<1>2. Len(Entries[r.rev]) \in Nat
  BY <1>1, InLists
<1>3. True(store')
  BY RevisionsAssumption DEF True
<1>4. CASE at <= Len(Entries[r.rev])
  <2> DEFINE next == [r EXCEPT !.pc = "files", !.at = at]
  <2>1. Turn(p, next)
    BY <1>4 DEF WalkFiles, Walks
  <2>2. next \in RunRecords /\ next.pc # "idle"
    <3>1. {"objects", "jar", "files", "manifest"} \subseteq Places /\ 1 \in Nat \ {0}
      BY DEF Places
    <3>2. next \in RunRecords
      BY <1>1, <3>1, AtPlace
    <3> QED
      BY <1>1, <3>2 DEF RunRecords
  <2>3. Fit(store', next)
    BY <1>1, <1>4 DEF RunRecords, Fit, Standing, Reached
  <2> HIDE DEF next
  <2> QED
    BY <1>3, <2>1, <2>2, <2>3, TurnStep
<1>5. CASE ~(at <= Len(Entries[r.rev]))
  <2> DEFINE next == [r EXCEPT !.pc = "manifest", !.at = 1]
  <2>1. Turn(p, next)
    BY <1>5 DEF WalkFiles, Walks
  <2>2. next \in RunRecords /\ next.pc # "idle"
    <3>1. {"objects", "jar", "files", "manifest"} \subseteq Places /\ 1 \in Nat \ {0}
      BY DEF Places
    <3>2. next \in RunRecords
      BY <1>1, <3>1, AtPlace
    <3> QED
      BY <1>1, <3>2 DEF RunRecords
  <2>3. at - 1 = Len(Entries[r.rev])
    BY <1>2, <1>5
  <2>4. Fit(store', next)
    BY <1>1, <2>3 DEF RunRecords, Fit, Standing, Reached
  <2> HIDE DEF next
  <2> QED
    BY <1>3, <2>1, <2>2, <2>4, TurnStep
<1> QED
  BY <1>4, <1>5

LEMMA ResolveVersionStep ==
  ASSUME StoreInv, NEW p \in Runs, ResolveVersion(p), published' = published, guard' = guard PROVE StoreInv'
<1> DEFINE r == run[p]
<1>1. r \in RunRecords /\ r.pc = "document" /\ store \in Stores /\ guard \subseteq Revisions
      /\ True(store) /\ Fit(store, r)
  BY DEF ResolveVersion, StoreInv, StoreTypeOK
<1>2. CASE GivesUp(p)
  BY <1>1, <1>2, LeaveStep DEF GivesUp
<1>3. CASE ~GivesUp(p)
  <2>1. PICK rev \in Revisions, flaw \in BOOLEAN :
          /\ \/ store' = store /\ (r.dry \/ rev = store.document)
             \/ store' = [store EXCEPT !.document = rev, !.flawed = FALSE]
          /\ Turn(p, [r EXCEPT !.rev = rev, !.pc = "index", !.flawed = flaw])
    <3>1. CASE store.document \in guard
      <4>1. (store.document \in guard /\ store.flawed) \in BOOLEAN /\ store.document \in Revisions
        BY <1>1, <3>1
      <4> QED
        BY <1>3, <3>1, <4>1 DEF ResolveVersion
    <3>2. CASE store.document \notin guard
      <4>1. (store.document \in guard /\ store.flawed) \in BOOLEAN
        BY <3>2
      <4> QED
        BY <1>1, <1>3, <3>2, <4>1 DEF ResolveVersion
    <3> QED
      BY <3>1, <3>2
  <2> DEFINE next == [r EXCEPT !.rev = rev, !.pc = "index", !.flawed = flaw]
  <2>2. next \in RunRecords /\ next.pc # "idle"
    BY <1>1 DEF RunRecords, Places
  <2>3. /\ store' \in Stores /\ store'.manifest = store.manifest /\ store'.tree = store.tree
        /\ ~r.dry => store'.document = rev
    BY <1>1, <2>1 DEF Stores, Marks
  <2>4. True(store')
    BY <1>1, <2>3 DEF True
  <2>5. Fit(store', next)
    BY <1>1, <2>3 DEF RunRecords, Fit, Standing, Reached
  <2> QED
    BY <1>1, <2>1, <2>2, <2>3, <2>4, <2>5, TurnStep
<1> QED
  BY <1>2, <1>3

LEMMA ResolveIndexStep ==
  ASSUME StoreInv, NEW p \in Runs, ResolveIndex(p), published' = published, guard' = guard PROVE StoreInv'
<1> DEFINE r == run[p]
<1>1. r \in RunRecords /\ r.pc = "index" /\ store \in Stores /\ True(store) /\ Fit(store, r)
      /\ r.rev \in Revisions
  BY DEF ResolveIndex, StoreInv, StoreTypeOK, Fit, Standing
<1>2. CASE GivesUp(p)
  BY <1>1, <1>2, LeaveStep DEF GivesUp
<1>3. CASE ~r.dry /\ ~GivesUp(p)
  <2>1. store' = [store EXCEPT !.index = r.rev] /\ WalkObjects(p, 1)
    BY <1>3 DEF ResolveIndex
  <2>2. /\ store' \in Stores /\ store'.manifest = store.manifest /\ store'.tree = store.tree
        /\ store'.document = store.document /\ store'.index = r.rev
    BY <1>1, <2>1 DEF Stores, Marks
  <2>3. True(store')
    BY <1>1, <2>2 DEF True
  <2>4. Len(Index[r.rev]) \in Nat
    BY <1>1, InLists
  <2>5. ~r.disturbed => store.document = r.rev
    BY <1>1, <1>3 DEF Fit, Reached
  <2> QED
    BY <1>1, <1>3, <2>1, <2>2, <2>3, <2>4, <2>5, ObjectsStep
<1> QED
  BY <1>2, <1>3 DEF ResolveIndex

LEMMA FetchObjectStep ==
  ASSUME StoreInv, NEW p \in Runs, FetchObject(p), published' = published, guard' = guard PROVE StoreInv'
<1> DEFINE r == run[p]
           o == Index[r.rev][r.at]
<1>1. /\ r \in RunRecords /\ r.pc = "objects" /\ store \in Stores /\ True(store) /\ Fit(store, r)
      /\ r.rev \in Revisions /\ ~r.dry /\ r.at <= Len(Index[r.rev])
  BY DEF FetchObject, StoreInv, StoreTypeOK, Fit, Standing
<1>2. r.at \in Nat \ {0} /\ Len(Index[r.rev]) \in Nat /\ o \in Objects
  BY <1>1, InLists DEF RunRecords
<1>3. /\ ~r.disturbed =>
           /\ store.document = r.rev /\ store.index = r.rev
           /\ \A i \in 1 .. r.at - 1 : store.object[Index[r.rev][i]] = "good"
  BY <1>1 DEF Fit, Reached
<1>4. /\ store' \in Stores /\ store'.manifest = store.manifest /\ store'.tree = store.tree
      /\ store'.document = store.document /\ store'.index = store.index
      /\ \A q \in Objects : q # o => store'.object[q] = store.object[q]
  <2>1. store' = store \/ \E held \in {"good", "none"} : store' = [store EXCEPT !.object[o] = held]
    BY DEF FetchObject, GivesUp
  <2> QED
    BY <1>1, <1>2, <2>1 DEF Stores
<1>5. True(store')
  BY <1>1, <1>4 DEF True
<1>6. CASE WalkObjects(p, r.at + 1) /\ store'.object[o] = "good"
  <2>1. ~r.disturbed => \A i \in 1 .. r.at : store'.object[Index[r.rev][i]] = "good"
    <3>1. \A i \in 1 .. Len(Index[r.rev]) : Index[r.rev][i] \in Objects
      BY <1>1, InLists
    <3> QED
      BY <1>1, <1>2, <1>3, <1>4, <1>6, <3>1
  <2> QED
    BY <1>1, <1>2, <1>3, <1>4, <1>5, <1>6, <2>1, ObjectsStep
<1>7. CASE Turn(p, r) /\ store.object[o] = "bad"
  <2>1. Fit(store', r)
    <3>1. \A i \in 1 .. Len(Index[r.rev]) : Index[r.rev][i] \in Objects
      BY <1>1, InLists
    <3>2. ASSUME ~r.disturbed, NEW i \in 1 .. r.at - 1
          PROVE  store'.object[Index[r.rev][i]] = "good"
      <4>1. i \in 1 .. Len(Index[r.rev]) /\ store.object[Index[r.rev][i]] = "good"
        BY <1>1, <1>2, <1>3, <3>2
      <4>2. Index[r.rev][i] \in Objects /\ Index[r.rev][i] # o
        BY <1>7, <3>1, <4>1
      <4> QED
        BY <1>4, <4>1, <4>2
    <3> QED
      BY <1>1, <1>3, <1>4, <3>2 DEF Fit, Standing, Reached
  <2> QED
    BY <1>1, <1>4, <1>5, <1>7, <2>1, TurnStep
<1>8. CASE Leave(p)
  BY <1>1, <1>4, <1>5, <1>8, LeaveStep
<1> QED
  <2>1. store.object[o] \in {"none", "good", "bad", "unreadable"}
    BY <1>1, <1>2 DEF Stores
  <2>2. CASE store.object[o] = "good"
    BY <1>6, <2>2 DEF FetchObject, ProvesCorruption
  <2>3. CASE store.object[o] = "none"
    <3>1. WalkObjects(p, r.at + 1) /\ store' = [store EXCEPT !.object[o] = "good"]
      BY <2>3 DEF FetchObject, ProvesCorruption
    <3>2. store'.object[o] = "good"
      BY <1>1, <1>2, <3>1 DEF Stores
    <3> QED
      BY <1>6, <3>1, <3>2
  <2>4. CASE store.object[o] = "bad"
    BY <1>7, <2>4 DEF FetchObject, ProvesCorruption
  <2>5. CASE store.object[o] = "unreadable"
    BY <1>8, <2>5 DEF FetchObject, ProvesCorruption, GivesUp
  <2> QED
    BY <2>1, <2>2, <2>3, <2>4, <2>5

LEMMA FetchJarStep ==
  ASSUME StoreInv, NEW p \in Runs, FetchJar(p), published' = published, guard' = guard PROVE StoreInv'
<1> DEFINE r == run[p]
           next == [r EXCEPT !.pc = "extract"]
<1>1. /\ r \in RunRecords /\ r.pc = "jar" /\ store \in Stores /\ True(store) /\ Fit(store, r)
      /\ r.rev \in Revisions
  BY DEF FetchJar, StoreInv, StoreTypeOK, Fit, Standing
<1>2. CASE GivesUp(p)
  BY <1>1, <1>2, LeaveStep DEF GivesUp
<1>3. CASE ~GivesUp(p)
  <2>1. store' = [store EXCEPT !.jar = r.rev] /\ Turn(p, next)
    BY <1>3 DEF FetchJar
  <2>2. next \in RunRecords /\ next.pc # "idle"
    BY <1>1 DEF RunRecords, Places
  <2>3. /\ store' \in Stores /\ store'.manifest = store.manifest /\ store'.tree = store.tree
        /\ store'.document = store.document /\ store'.index = store.index
        /\ store'.object = store.object /\ store'.jar = r.rev
    BY <1>1, <2>1 DEF Stores, Marks
  <2>4. True(store')
    BY <1>1, <2>3 DEF True
  <2>5. Fit(store', next)
    BY <1>1, <2>3 DEF RunRecords, Fit, Standing, Reached
  <2> QED
    BY <1>1, <2>1, <2>2, <2>3, <2>4, <2>5, TurnStep
<1> QED
  BY <1>2, <1>3

LEMMA ExtractStep ==
  ASSUME StoreInv, NEW p \in Runs, Extract(p), published' = published, guard' = guard PROVE StoreInv'
<1> DEFINE r == run[p]
<1>1. /\ r \in RunRecords /\ r.pc = "extract" /\ store \in Stores /\ True(store) /\ Fit(store, r)
      /\ r.rev \in Revisions /\ ~r.dry
  BY DEF Extract, StoreInv, StoreTypeOK, Fit, Standing
<1>2. CASE store.jar = r.rev /\ ManifestMatches(r.rev) /\ ~GivesUp(p)
  <2> DEFINE next == [r EXCEPT !.pc = "report"]
  <2>1. store' = store /\ Turn(p, next)
    BY <1>2 DEF Extract
  <2>2. next \in RunRecords /\ next.pc # "idle"
    BY <1>1 DEF RunRecords, Places
  <2>3. /\ store.manifest = r.rev
        /\ \A i \in 1 .. Len(Entries[r.rev]) : store.tree[Entries[r.rev][i]] = r.rev
    <3>1. store.manifest = r.rev
          /\ \A f \in ToSet(Entries[r.rev]) : store.tree[f] \notin {"none", "bad"}
      BY <1>2 DEF ManifestMatches
    <3>2. \A i \in 1 .. Len(Entries[r.rev]) : store.tree[Entries[r.rev][i]] \in {r.rev, "bad"}
      BY <1>1, <3>1 DEF True
    <3>3. ToSet(Entries[r.rev]) = {Entries[r.rev][i] : i \in 1 .. Len(Entries[r.rev])}
      BY <1>1, InLists
    <3> QED
      BY <3>1, <3>2, <3>3
  <2>4. Fit(store', next)
    BY <1>1, <2>1, <2>3 DEF RunRecords, Fit, Standing, Reached
  <2> QED
    BY <1>1, <2>1, <2>2, <2>4, TurnStep
<1>3. CASE ~(store.jar = r.rev /\ ManifestMatches(r.rev)) /\ ~GivesUp(p)
  <2>1. /\ store' = [store EXCEPT !.manifest = "none"]
        /\ Leave(p) \/ WalkFiles(p, 1)
    BY <1>3 DEF Extract
  <2>2. /\ store' \in Stores /\ store'.manifest = "none" /\ store'.tree = store.tree
        /\ store'.document = store.document /\ store'.index = store.index
        /\ store'.jar = store.jar /\ store'.object = store.object
    BY <1>1, <2>1 DEF Stores, Marks
  <2>3. True(store')
    BY <2>2, RevisionsAssumption DEF True
  <2>4. CASE Leave(p)
    BY <1>1, <2>2, <2>3, <2>4, LeaveStep
  <2>5. CASE WalkFiles(p, 1)
    <3>1. Len(Entries[r.rev]) \in Nat
      BY <1>1, InLists
    <3>2. ~r.disturbed => store.jar = r.rev
      BY <1>1 DEF Fit, Reached
    <3> QED
      BY <1>1, <2>2, <2>5, <3>1, <3>2, FilesStep
  <2> QED
    BY <2>1, <2>4, <2>5
<1>4. CASE GivesUp(p)
  BY <1>1, <1>4, LeaveStep DEF GivesUp
<1> QED
  BY <1>2, <1>3, <1>4

LEMMA ExtractFileStep ==
  ASSUME StoreInv, NEW p \in Runs, ExtractFile(p), published' = published, guard' = guard PROVE StoreInv'
<1> DEFINE r == run[p]
           f == Entries[r.rev][r.at]
<1>1. /\ r \in RunRecords /\ r.pc = "files" /\ store \in Stores /\ Fit(store, r)
      /\ r.rev \in Revisions /\ ~r.dry /\ store.manifest = "none"
      /\ r.at <= Len(Entries[r.rev])
      /\ \A i \in 1 .. r.at - 1 : store.tree[Entries[r.rev][i]] \in {r.rev, "bad"}
      /\ store' = [store EXCEPT !.tree[f] = r.rev] /\ WalkFiles(p, r.at + 1)
  BY DEF ExtractFile, StoreInv, StoreTypeOK, Fit, Standing
<1>2. r.at \in Nat \ {0} /\ Len(Entries[r.rev]) \in Nat /\ f \in Files
  BY <1>1, InLists DEF RunRecords
<1>3. ~r.disturbed =>
        /\ store.jar = r.rev
        /\ \A i \in 1 .. r.at - 1 : store.tree[Entries[r.rev][i]] = r.rev
  BY <1>1 DEF Fit, Reached
<1>4. /\ store' \in Stores /\ store'.manifest = store.manifest
      /\ store'.document = store.document /\ store'.index = store.index
      /\ store'.jar = store.jar /\ store'.object = store.object
      /\ \A g \in Files : store'.tree[g] = IF g = f THEN r.rev ELSE store.tree[g]
  BY <1>1, <1>2 DEF Stores, Marks
<1>5. \A i \in 1 .. Len(Entries[r.rev]) : Entries[r.rev][i] \in Files
  BY <1>1, InLists
<1>6. ASSUME NEW i \in 1 .. r.at
      PROVE  /\ store'.tree[Entries[r.rev][i]] \in {r.rev, "bad"}
             /\ ~r.disturbed => store'.tree[Entries[r.rev][i]] = r.rev
  <2>1. i \in 1 .. Len(Entries[r.rev]) /\ (i = r.at \/ i \in 1 .. r.at - 1)
    BY <1>1, <1>2
  <2>2. Entries[r.rev][i] \in Files
    BY <1>5, <2>1
  <2> QED
    BY <1>1, <1>3, <1>4, <2>1, <2>2
<1>7. PICK at \in Nat \ {0} : at = r.at + 1 /\ at - 1 = r.at
  BY <1>2
<1>8. /\ WalkFiles(p, at) /\ at <= Len(Entries[r.rev]) + 1
      /\ \A i \in 1 .. at - 1 : store'.tree[Entries[r.rev][i]] \in {r.rev, "bad"}
      /\ ~r.disturbed => \A i \in 1 .. at - 1 : store'.tree[Entries[r.rev][i]] = r.rev
  BY <1>1, <1>2, <1>6, <1>7
<1> HIDE DEF f
<1> QED
  BY <1>1, <1>3, <1>4, <1>8, FilesStep

LEMMA WriteManifestStep ==
  ASSUME StoreInv, NEW p \in Runs, WriteManifest(p), published' = published, guard' = guard PROVE StoreInv'
<1> DEFINE r == run[p]
           next == [r EXCEPT !.pc = "report"]
<1>1. /\ r \in RunRecords /\ r.pc = "manifest" /\ store \in Stores /\ Fit(store, r)
      /\ r.rev \in Revisions /\ store' = [store EXCEPT !.manifest = r.rev] /\ Turn(p, next)
  BY DEF WriteManifest, StoreInv, StoreTypeOK, Fit, Standing
<1>2. next \in RunRecords /\ next.pc # "idle"
  BY <1>1 DEF RunRecords, Places
<1>3. /\ store' \in Stores /\ store'.manifest = r.rev /\ store'.tree = store.tree
      /\ store'.document = store.document /\ store'.index = store.index
      /\ store'.object = store.object /\ store'.jar = store.jar
  BY <1>1 DEF Stores, Marks
<1>4. True(store')
  BY <1>1, <1>3 DEF True, Fit, Standing
<1>5. Fit(store', next)
  BY <1>1, <1>3 DEF RunRecords, Fit, Standing, Reached
<1> QED
  BY <1>1, <1>2, <1>3, <1>4, <1>5, TurnStep

-----------------------------------------------------------------------------
(* The other steps, and the whole.                                         *)

LEMMA BeginStep ==
  ASSUME StoreInv, NEW p \in Runs, NEW dry \in BOOLEAN, Begin(p, dry), guard' = guard PROVE StoreInv'
<1> DEFINE next == [Idle EXCEPT !.pc = "document", !.dry = dry]
<1>1. /\ run \in [Runs -> RunRecords] /\ published \in Revisions /\ store \in Stores
      /\ guard \subseteq Revisions
      /\ run[p].pc = "idle" /\ lock = {} /\ lock' = {p}
      /\ store' = store /\ published' = published /\ guard' = guard /\ run' = [run EXCEPT ![p] = next]
  BY DEF Begin, Take, StoreInv, StoreTypeOK
<1>2. next \in RunRecords /\ next.pc = "document"
  <2>1. Idle \in RunRecords
    BY DEF Idle, RunRecords, Places
  <2> HIDE DEF Idle
  <2> QED
    BY <2>1 DEF RunRecords, Places
<1> HIDE DEF next
<1>3. Fit(store, next)
  BY <1>2 DEF Fit, Standing, Reached
<1>4. run' \in [Runs -> RunRecords] /\ run'[p] = next
      /\ \A q \in Runs : q # p => run'[q] = run[q]
  BY <1>1, <1>2
<1>5. StoreTypeOK' /\ Alone'
  BY <1>1, <1>2, <1>4 DEF StoreInv, StoreTypeOK, Alone
<1>6. \A q \in Runs : Fit(store', run'[q])
  BY <1>1, <1>3, <1>4 DEF StoreInv
<1> QED
  BY <1>1, <1>5, <1>6 DEF StoreInv

\* Rot takes a file that is there from what it was to "bad", or unnoticed, or to
\* "unreadable"; a run under way knows it was disturbed.
LEMMA Rots ==
  ASSUME NEW st \in Stores, store = st, NEW now, now \in Rotted
  PROVE  /\ now \in Stores
         /\ now.manifest # st.manifest => now.manifest = "bad" /\ st.manifest # "none"
         /\ \A f \in Files : now.tree[f] # st.tree[f] => now.tree[f] = "bad"
<1>1. CASE \E name \in {q \in {"index", "jar", "manifest"} : store[q] # "none"} :
             now = [store EXCEPT ![name] = "bad"]
  <2>1. CASE now = [store EXCEPT !["index"] = "bad"]
    BY <2>1 DEF Stores, Marks
  <2>2. CASE now = [store EXCEPT !["jar"] = "bad"]
    BY <2>2 DEF Stores, Marks
  <2>3. CASE store["manifest"] # "none" /\ now = [store EXCEPT !["manifest"] = "bad"]
    BY <2>3 DEF Stores, Marks
  <2> QED
    BY <1>1, <2>1, <2>2, <2>3
<1>2. CASE \E f \in Files : now = [store EXCEPT !.tree[f] = "bad"]
  BY <1>2 DEF Stores, Marks
<1>3. CASE \E o \in Objects, held \in {"bad", "unreadable"} : now = [store EXCEPT !.object[o] = held]
  BY <1>3 DEF Stores, Marks
<1>4. CASE now \in {[store EXCEPT !.document = "bad", !.flawed = FALSE], [store EXCEPT !.flawed = TRUE],
                   [store EXCEPT !.jar = "unreadable"]}
  BY <1>4 DEF Stores, Marks
<1> QED
  BY <1>1, <1>2, <1>3, <1>4 DEF Rotted

LEMMA RotStep == ASSUME StoreInv, Rot, guard' = guard PROVE StoreInv'
<1>1. /\ store \in Stores /\ run \in [Runs -> RunRecords] /\ store' \in Rotted
      /\ run' = [p \in Runs |-> [run[p] EXCEPT !.disturbed = @ \/ run[p].pc # "idle"]]
      /\ lock' = lock /\ published' = published
  BY DEF Rot, StoreInv, StoreTypeOK
<1>2. /\ store' \in Stores
      /\ store'.manifest # store.manifest => store'.manifest = "bad" /\ store.manifest # "none"
      /\ \A f \in Files : store'.tree[f] # store.tree[f] => store'.tree[f] = "bad"
  BY <1>1, Rots
<1>3. ASSUME NEW p \in Runs
      PROVE  /\ run'[p] \in RunRecords /\ run'[p].pc = run[p].pc /\ run'[p].dry = run[p].dry
             /\ run'[p].rev = run[p].rev /\ run'[p].at = run[p].at
             /\ run[p].pc # "idle" => run'[p].disturbed
  BY <1>1 DEF RunRecords
<1>4. run' \in [Runs -> RunRecords]
  BY <1>1, <1>3
<1>5. StoreTypeOK' /\ Alone'
  BY <1>1, <1>2, <1>3, <1>4 DEF StoreInv, StoreTypeOK, Alone
<1>6. True(store')
  <2>1. CASE store'.manifest \in Revisions
    <3>1. PICK rev \in Revisions : rev = store'.manifest
      BY <2>1
    <3>2. store.manifest = rev
      BY <1>2, <3>1, RevisionsAssumption
    <3>3. \A i \in 1 .. Len(Entries[rev]) : Entries[rev][i] \in Files
      BY InLists
    <3> QED
      BY <1>2, <3>1, <3>2, <3>3 DEF StoreInv, True
  <2>2. CASE store'.manifest \notin Revisions
    BY <2>2 DEF True
  <2> QED
    BY <2>1, <2>2
<1>7. ASSUME NEW p \in Runs PROVE Fit(store', run'[p])
  <2>1. Standing(store, run[p])
    BY DEF StoreInv, Fit
  <2>2. run[p] \in RunRecords
    BY <1>1
  <2>3. Standing(store', run'[p])
    <3>1. run[p].pc \in {"files", "manifest"} =>
            \A i \in 1 .. Len(Entries[run[p].rev]) : Entries[run[p].rev][i] \in Files
      BY <2>1, InLists DEF Standing
    <3>2. run[p].pc \in {"files", "manifest"} => Len(Entries[run[p].rev]) \in Nat
      BY <2>1, InLists DEF Standing
    <3> QED
      BY <1>2, <1>3, <2>1, <2>2, <3>1, <3>2 DEF Standing, RunRecords
  <2> QED
    BY <1>3, <2>3 DEF Fit, Reached
<1> QED
  BY <1>5, <1>6, <1>7 DEF StoreInv

LEMMA StoreInitInv == StoreInit => StoreInv
<1> SUFFICES ASSUME StoreInit PROVE StoreInv
  OBVIOUS
<1>1. /\ store = [document |-> "none", flawed |-> FALSE, index |-> "none", jar |-> "none",
                  manifest |-> "none", object |-> [o \in Objects |-> "none"],
                  tree |-> [f \in Files |-> "none"]]
      /\ run = [p \in Runs |-> Idle] /\ lock = {} /\ published \in Revisions
      /\ guard \subseteq Revisions
  BY PinnedAssumption DEF StoreInit
<1>2. Idle \in RunRecords /\ Idle.pc = "idle" /\ Idle.dry = FALSE
  BY DEF Idle, RunRecords, Places
<1>3. store \in Stores /\ store.manifest = "none"
  BY <1>1 DEF Stores, Marks
<1> HIDE DEF Idle
<1>4. StoreTypeOK /\ Alone
  BY <1>1, <1>2, <1>3 DEF StoreTypeOK, Alone
<1>5. True(store)
  BY <1>3, RevisionsAssumption DEF True
<1>6. Fit(store, Idle)
  BY <1>2 DEF Fit, Standing, Reached
<1> QED
  BY <1>1, <1>4, <1>5, <1>6 DEF StoreInv

LEMMA StoreNextInv == StoreInv /\ [StoreNext]_storeVars => StoreInv'
<1> SUFFICES ASSUME StoreInv, [StoreNext]_storeVars PROVE StoreInv'
  OBVIOUS
<1>1. ASSUME NEW p \in Runs, NEW dry \in BOOLEAN, Begin(p, dry), guard' = guard PROVE StoreInv'
  BY <1>1, BeginStep
<1>2. ASSUME NEW p \in Runs, Step(p), guard' = guard PROVE StoreInv'
  <2>1. CASE Report(p)
    <3>1. run[p].pc # "idle" /\ store' = store /\ published' = published /\ guard' = guard /\ Leave(p)
      BY <1>2, <2>1 DEF Step, Report
    <3> QED
      BY <3>1, LeaveStep DEF StoreInv, StoreTypeOK
  <2> QED
    BY <1>2, <2>1, ResolveVersionStep, ResolveIndexStep, FetchObjectStep, FetchJarStep,
       ExtractStep, ExtractFileStep, WriteManifestStep DEF Step
<1>3. ASSUME NEW p \in Runs, Ends(p), guard' = guard PROVE StoreInv'
  <2>1. run[p].pc # "idle" /\ store' = store /\ published' = published /\ guard' = guard /\ Leave(p)
    BY <1>3 DEF Ends
  <2> QED
    BY <2>1, LeaveStep DEF StoreInv, StoreTypeOK
<1>4. CASE Rot /\ guard' = guard
  BY <1>4, RotStep
<1>5. CASE Publish /\ guard' = guard
  BY <1>5 DEF Publish, StoreInv, StoreTypeOK, Alone
<1>6. CASE UNCHANGED storeVars
  BY <1>6 DEF storeVars, StoreInv, StoreTypeOK, Alone
<1> QED
  BY <1>1, <1>2, <1>3, <1>4, <1>5, <1>6 DEF StoreNext

\* What a step that is neither an error, a kill, a rot nor a publication does to
\* the objects, and to the store while a dry run holds the lock.
LEMMA StepKeeps ==
  ASSUME StoreInv, [StoreNext]_storeVars, events \in Nat, events' = events
  PROVE  /\ \A o \in Objects :
              store.object[o] \in {"good", "unreadable"} => store'.object[o] = store.object[o]
         /\ (\E p \in lock : run[p].dry) => store' = store
<1>1. store \in Stores
  BY DEF StoreInv, StoreTypeOK
<1>2. CASE store' = store
  BY <1>2
<1>3. ASSUME NEW p \in Runs, Step(p)
      PROVE  /\ \A o \in Objects :
                  store.object[o] \in {"good", "unreadable"} => store'.object[o] = store.object[o]
             /\ (\E q \in lock : run[q].dry) => store' = store
  <2>1. run[p].pc # "idle"
    BY <1>3 DEF Step, ResolveVersion, ResolveIndex, FetchObject, FetchJar, Extract, GivesUp,
                ExtractFile, WriteManifest, Report
  <2>2. \A q \in lock : q = p
    BY <2>1 DEF StoreInv, Alone
  <2>3. ASSUME run[p].dry PROVE store' = store
    <3>1. run[p].pc \in {"document", "index"}
      BY <2>3 DEF StoreInv, Fit, Standing
    <3> QED
      BY <1>3, <2>3, <3>1 DEF Step, ResolveVersion, ResolveIndex, FetchObject, FetchJar, Extract, GivesUp,
                              ExtractFile, WriteManifest, Report
  <2>4. ASSUME NEW o \in Objects, store.object[o] \in {"good", "unreadable"}
        PROVE  store'.object[o] = store.object[o]
    <3>1. CASE FetchObject(p)
      <4> DEFINE named == Index[run[p].rev][run[p].at]
      <4>1. \/ store' = store
            \/ /\ store.object[named] \notin {"good", "unreadable"}
               /\ \E held \in {"good", "none"} : store' = [store EXCEPT !.object[named] = held]
        BY <3>1 DEF FetchObject, ProvesCorruption, GivesUp
      <4> HIDE DEF named
      <4> QED
        BY <1>1, <2>4, <4>1 DEF Stores
    <3>2. CASE ~FetchObject(p)
      BY <1>1, <1>3, <3>2 DEF Step, ResolveVersion, ResolveIndex, FetchJar, Extract, GivesUp,
                              ExtractFile, WriteManifest, Report, Stores
    <3> QED
      BY <3>1, <3>2
  <2> QED
    BY <2>2, <2>3, <2>4
<1> QED
  <2>1. store' = store \/ \E p \in Runs : Step(p)
    <3>1. ~Event
      BY DEF Event
    <3> QED
      BY <3>1 DEF StoreNext, Begin, Ends, Rot, Publish, storeVars
  <2> QED
    BY <1>2, <1>3, <2>1

-----------------------------------------------------------------------------
(* The accounts.                                                           *)

Names == {"none", "in", "out", "start", "named", "status"}

CommandRecords ==
  [kind : Names, id : Ids \cup {"none"},
   pc : {"idle", "poll", "chain", "secret", "read", "aside", "write"},
   look : {"none", "load", "uuid", "name"}, base : SUBSET Ids,
   interval : Nat, waited : Nat, clashed : BOOLEAN]

\* What a command is at where it stands: a read has something to look for, and
\* only a sign-in or a sign-out is ever between the halves.
Sensible(r) ==
  /\ r.pc \in {"read", "aside"} => r.look # "none"
  /\ r.pc = "write" => r.look = "load"
  /\ r.look = "load" => r.kind \in {"in", "out"} /\ r.id \in Ids /\ r.pc \in {"read", "aside", "write"}
  /\ r.pc = "secret" /\ r.kind \in {"in", "out"} => r.id \in Ids
  /\ r.look # "none" /\ r.kind \notin {"in", "status"} => r.id \in Ids

AccountsTyped ==
  /\ file \in [is : {"missing", "good", "bad"}, ids : SUBSET Ids]
  /\ secrets \in SUBSET Ids /\ said \in SUBSET Ids /\ apart \in SUBSET Ids
  /\ command \in [Processes -> CommandRecords]

\* Between the halves, and not overlapped by another command on the account, the
\* keyring is as the command will report.
HalfMade ==
  \A p \in Processes :
    Between(p) /\ ~command[p].clashed =>
      (command[p].id \in secrets <=> command[p].kind = "in")

AccountsInv ==
  /\ AccountsTyped
  /\ \A p \in Processes : Sensible(command[p])
  /\ HalfMade
  /\ StandsAsSaid

Recorded(f, id) == f.is = "good" /\ id \in f.ids

LEMMA NobodysCommand ==
  NoCommand \in CommandRecords /\ Sensible(NoCommand) /\ NoCommand.look = "none"
BY DEF NoCommand, CommandRecords, Sensible, Names

\* A command goes on, between the halves as before or not at all; the accounts
\* whose record it changes are parted.
LEMMA OnwardStep ==
  ASSUME AccountsInv, NEW p \in Processes, NEW next \in CommandRecords, Sensible(next),
         command' = [command EXCEPT ![p] = next],
         (Between(p) <=> next.look = "load"),
         Between(p) => /\ next.id = command[p].id /\ next.kind = command[p].kind
                       /\ next.clashed = command[p].clashed,
         file' \in [is : {"missing", "good", "bad"}, ids : SUBSET Ids],
         secrets' = secrets, said' = said,
         NEW parted \in SUBSET Ids, apart' = apart \cup parted,
         \A id \in Ids \ parted : Recorded(file', id) <=> Recorded(file, id)
  PROVE  AccountsInv'
<1>1. command \in [Processes -> CommandRecords] /\ apart \in SUBSET Ids
  BY DEF AccountsInv, AccountsTyped
<1>2. /\ command' \in [Processes -> CommandRecords]
      /\ command'[p] = next /\ \A q \in Processes : q # p => command'[q] = command[q]
  BY <1>1
<1>3. AccountsTyped'
  BY <1>1, <1>2 DEF AccountsInv, AccountsTyped
<1>4. \A q \in Processes : Sensible(command'[q])
  BY <1>2 DEF AccountsInv
<1>5. \A q \in Processes :
        /\ Between(q)' <=> Between(q)
        /\ Between(q) => /\ command'[q].id = command[q].id /\ command'[q].kind = command[q].kind
                         /\ command'[q].clashed = command[q].clashed
  BY <1>2 DEF Between
<1>6. HalfMade'
  BY <1>5 DEF AccountsInv, HalfMade
<1>7. StandsAsSaid'
  BY <1>5 DEF AccountsInv, StandsAsSaid, HasRecord, Recorded
<1> QED
  BY <1>3, <1>4, <1>6, <1>7 DEF AccountsInv

\* A command ends between the halves with a report.
LEMMA ReportStep ==
  ASSUME AccountsInv, NEW p \in Processes, Between(p), Over(p),
         NEW parted \in SUBSET Ids, Reports(p, parted), secrets' = secrets,
         file' \in [is : {"missing", "good", "bad"}, ids : SUBSET Ids],
         command[p].id \in parted
           \/ (Recorded(file', command[p].id) <=> command[p].kind = "in"),
         \A id \in Ids \ parted :
           id # command[p].id => (Recorded(file', id) <=> Recorded(file, id))
  PROVE  AccountsInv'
<1> DEFINE r == command[p]
<1>1. /\ command \in [Processes -> CommandRecords] /\ apart \in SUBSET Ids /\ said \in SUBSET Ids
      /\ secrets \in SUBSET Ids /\ r.kind \in {"in", "out"} /\ r.id \in Ids
  BY DEF AccountsInv, AccountsTyped, Between, Sensible
<1>2. /\ command' \in [Processes -> CommandRecords]
      /\ command'[p] = NoCommand /\ \A q \in Processes : q # p => command'[q] = command[q]
  BY <1>1, NobodysCommand DEF Over, Becomes
<1>3. /\ said' = IF r.kind = "in" THEN said \cup {r.id} ELSE said \ {r.id}
      /\ apart' = (apart \ {r.id}) \cup parted \cup (IF r.clashed THEN {r.id} ELSE {})
  BY DEF Reports
<1>4. AccountsTyped'
  BY <1>1, <1>2, <1>3 DEF AccountsTyped
<1>5. \A q \in Processes : Sensible(command'[q])
  BY <1>2, NobodysCommand DEF AccountsInv
<1>6. \A q \in Processes : q # p => (Between(q)' <=> Between(q))
  BY <1>2 DEF Between
<1>7. ~Between(p)'
  BY <1>2, NobodysCommand DEF Between
<1>8. HalfMade'
  BY <1>2, <1>6, <1>7 DEF AccountsInv, HalfMade
<1>9. ASSUME NEW id \in Ids, id \notin apart'
      PROVE  \/ \E q \in Processes : Between(q)' /\ command'[q].id = id
             \/ (Recorded(file', id) <=> id \in said') /\ (id \in secrets' <=> id \in said')
  <2>1. CASE id = r.id
    <3>1. ~r.clashed /\ id \notin parted
      BY <1>3, <1>9, <2>1
    <3>2. id \in secrets <=> r.kind = "in"
      BY <2>1, <3>1 DEF AccountsInv, HalfMade
    <3>3. id \in said' <=> r.kind = "in"
      BY <1>3, <2>1
    <3> QED
      BY <2>1, <3>1, <3>2, <3>3
  <2>2. CASE id # r.id
    <3>1. id \notin apart /\ id \notin parted /\ (id \in said' <=> id \in said)
      BY <1>3, <1>9, <2>2
    <3>2. \/ \E q \in Processes : Between(q) /\ command[q].id = id
          \/ (Recorded(file, id) <=> id \in said) /\ (id \in secrets <=> id \in said)
      BY <3>1 DEF AccountsInv, StandsAsSaid, HasRecord, Recorded
    <3> QED
      BY <1>2, <1>6, <2>2, <3>1, <3>2
  <2> QED
    BY <2>1, <2>2
<1>10. StandsAsSaid'
  BY <1>9 DEF StandsAsSaid, HasRecord, Recorded
<1> QED
  BY <1>4, <1>5, <1>8, <1>10 DEF AccountsInv

\* The secret half is written or deleted.
LEMMA HalfStep ==
  ASSUME AccountsInv, NEW p \in Processes, HalfDone(p), command[p].pc = "secret",
         command[p].kind \in {"in", "out"},
         secrets' = IF command[p].kind = "in" THEN secrets \cup {command[p].id}
                    ELSE secrets \ {command[p].id}
  PROVE  AccountsInv'
<1> DEFINE r == command[p]
           next == [r EXCEPT !.pc = "read", !.look = "load", !.clashed = Meets(p) # {}]
<1>1. /\ command \in [Processes -> CommandRecords] /\ r \in CommandRecords
      /\ r.id \in Ids /\ secrets \in SUBSET Ids
  BY DEF AccountsInv, AccountsTyped, Sensible
<1>2. /\ file' = file /\ said' = said /\ apart' = apart
      /\ command' = [q \in Processes |->
           IF q = p THEN next
           ELSE IF q \in Meets(p) THEN [command[q] EXCEPT !.clashed = TRUE] ELSE command[q]]
  BY DEF HalfDone, Quietly
<1>3. /\ next \in CommandRecords /\ Sensible(next) /\ next.id = r.id /\ next.kind = r.kind
      /\ next.look = "load" /\ (next.clashed <=> Meets(p) # {})
  BY <1>1 DEF CommandRecords, Sensible
<1> HIDE DEF next
<1>4. ASSUME NEW q \in Processes, q # p
      PROVE  /\ command'[q] \in CommandRecords /\ Sensible(command'[q])
             /\ command'[q].look = command[q].look /\ command'[q].id = command[q].id
             /\ command'[q].kind = command[q].kind
             /\ command'[q].clashed <=> (command[q].clashed \/ q \in Meets(p))
  <2>1. command[q] \in CommandRecords /\ Sensible(command[q])
    BY <1>1 DEF AccountsInv
  <2> QED
    BY <1>2, <1>4, <2>1 DEF CommandRecords, Sensible
<1>5. command'[p] = next
  BY <1>2
<1>6. AccountsTyped' /\ \A q \in Processes : Sensible(command'[q])
  <2>1. command' \in [Processes -> CommandRecords]
    BY <1>2, <1>3, <1>4, <1>5
  <2> QED
    BY <1>1, <1>2, <1>3, <1>4, <1>5, <2>1 DEF AccountsInv, AccountsTyped
<1>7. HalfMade'
  <2>1. ASSUME NEW q \in Processes, Between(q)', ~command'[q].clashed
        PROVE  command'[q].id \in secrets' <=> command'[q].kind = "in"
    <3>1. CASE q = p
      BY <1>3, <1>5, <3>1
    <3>2. CASE q # p
      <4>1. Between(q) /\ ~command[q].clashed /\ q \notin Meets(p)
        BY <1>4, <2>1, <3>2 DEF Between
      <4>2. command[q].id # r.id
        BY <3>2, <4>1 DEF Meets
      <4> QED
        BY <1>4, <3>2, <4>1, <4>2 DEF AccountsInv, HalfMade
    <3> QED
      BY <3>1, <3>2
  <2> QED
    BY <2>1 DEF HalfMade
<1>8. StandsAsSaid'
  <2>1. \A q \in Processes : Between(q) => Between(q)' /\ command'[q].id = command[q].id
    BY <1>3, <1>4, <1>5 DEF Between
  <2>2. Between(p)' /\ command'[p].id = r.id
    BY <1>3, <1>5 DEF Between
  <2>3. \A id \in Ids : id # r.id => (id \in secrets' <=> id \in secrets)
    OBVIOUS
  <2> QED
    BY <1>2, <2>1, <2>2, <2>3 DEF AccountsInv, StandsAsSaid, HasRecord
<1> QED
  BY <1>6, <1>7, <1>8 DEF AccountsInv

\* What follows a read, by what was read for.
LEMMA ReadStep ==
  ASSUME AccountsInv, NEW p \in Processes, command[p].pc \in {"read", "aside"},
         NEW ids \in SUBSET Ids, NEW parted \in SUBSET Ids, Loaded(p, ids, parted),
         secrets' = secrets, file' \in [is : {"missing", "good", "bad"}, ids : SUBSET Ids],
         \A id \in Ids \ parted : Recorded(file', id) <=> Recorded(file, id),
         command[p].look = "load" =>
           \A id \in Ids \ parted : id \notin ids => ~Recorded(file', id)
  PROVE  AccountsInv'
<1> DEFINE r == command[p]
           found == r.id \in ids
           Made(pc, look) == [r EXCEPT !.pc = pc, !.look = look,
                                       !.base = IF pc = "write" THEN ids ELSE {}]
<1>1. r \in CommandRecords /\ Sensible(r) /\ r.look \in {"load", "uuid", "name"}
  BY DEF AccountsInv, AccountsTyped, CommandRecords, Sensible
<1>2. CASE r.look = "load" /\ (r.kind = "in" \/ found)
  <2> DEFINE next == Made("write", "load")
  <2>1. Becomes(p, next) /\ apart' = apart \cup parted /\ said' = said
    BY <1>2 DEF Loaded
  <2>2. /\ next \in CommandRecords /\ Sensible(next) /\ next.look = "load"
        /\ next.id = r.id /\ next.kind = r.kind /\ next.clashed = r.clashed
    BY <1>1, <1>2 DEF CommandRecords, Sensible
  <2> HIDE DEF next
  <2> QED
    BY <1>2, <2>1, <2>2, OnwardStep DEF Becomes, Between
<1>3. CASE r.look = "load" /\ r.kind = "out" /\ ~found
  <2>1. Over(p) /\ Reports(p, parted)
    BY <1>3 DEF Loaded
  <2>2. r.id \in Ids /\ (r.id \in parted \/ ~Recorded(file', r.id))
    BY <1>1, <1>3 DEF Sensible
  <2> QED
    BY <1>3, <2>1, <2>2, ReportStep DEF Between
<1>4. CASE r.look \in {"uuid", "name"}
  <2>1. PICK next \in CommandRecords :
          /\ Becomes(p, next) /\ Sensible(next) /\ next.look # "load"
          /\ apart' = apart \cup parted /\ said' = said
    <3>1. found =>
            /\ Made("secret", "none") \in CommandRecords /\ Sensible(Made("secret", "none"))
            /\ Made("secret", "none").look = "none"
      BY <1>1, <1>4 DEF CommandRecords, Sensible
    <3>2. Made("read", "name") \in CommandRecords /\ Sensible(Made("read", "name"))
          /\ Made("read", "name").look = "name"
      BY <1>1, <1>4 DEF CommandRecords, Sensible
    <3>3. \/ found /\ Becomes(p, Made("secret", "none"))
          \/ Becomes(p, Made("read", "name"))
          \/ Becomes(p, NoCommand)
      BY <1>4 DEF Loaded, Over
    <3>4. apart' = apart \cup parted /\ said' = said
      BY <1>4 DEF Loaded
    <3> HIDE DEF Made
    <3> QED
      BY <3>1, <3>2, <3>3, <3>4, NobodysCommand
  <2> QED
    BY <1>4, <2>1, OnwardStep DEF Becomes, Between
<1>5. r.look = "load" => r.kind \in {"in", "out"}
  BY <1>1 DEF Sensible
<1> QED
  BY <1>1, <1>2, <1>3, <1>4, <1>5

\* A command that is not between the halves goes on, and nothing else changes.
LEMMA QuietStep ==
  ASSUME AccountsInv, NEW p \in Processes, command[p].look # "load",
         NEW next \in CommandRecords, Sensible(next), next.look # "load",
         Becomes(p, next), UNCHANGED <<file, secrets, said, apart>>
  PROVE  AccountsInv'
<1>1. file \in [is : {"missing", "good", "bad"}, ids : SUBSET Ids]
  BY DEF AccountsInv, AccountsTyped
<1>2. PICK parted \in SUBSET Ids : parted = {} /\ apart = apart \cup parted
  <2>1. {} \in SUBSET Ids /\ apart = apart \cup {}
    OBVIOUS
  <2> QED
    BY <2>1
<1> QED
  BY <1>1, <1>2, OnwardStep DEF Becomes, Between

LEMMA OverStep ==
  ASSUME AccountsInv, NEW p \in Processes, command[p].look # "load", Over(p),
         UNCHANGED <<file, secrets, said, apart>>
  PROVE  AccountsInv'
BY NobodysCommand, QuietStep DEF Over

LEMMA SignInSteps ==
  ASSUME AccountsInv, NEW p \in Processes,
         SignIn(p) \/ Poll(p, FALSE) \/ Poll(p, TRUE) \/ Approved(p) \/ Chain(p)
  PROVE  AccountsInv'
<1> DEFINE r == command[p]
<1>1. /\ r \in CommandRecords /\ Sensible(r) /\ r.pc \in {"idle", "poll", "chain"}
      /\ UNCHANGED <<file, secrets, said, apart>>
  BY DEF AccountsInv, AccountsTyped, SignIn, Poll, Approved, Chain, Stored, Quietly
<1>2. r.look # "load"
  BY <1>1 DEF Sensible
<1>3. CASE SignIn(p)
  <2>1. PICK interval \in Intervals :
          Becomes(p, [NoCommand EXCEPT !.kind = "in", !.pc = "poll", !.interval = interval])
    BY <1>3 DEF SignIn
  <2> DEFINE next == [NoCommand EXCEPT !.kind = "in", !.pc = "poll", !.interval = interval]
  <2>2. interval \in Nat
    BY PollAssumption
  <2>3. next \in CommandRecords /\ Sensible(next) /\ next.look = "none"
    BY <2>2 DEF NoCommand, CommandRecords, Sensible, Names
  <2> HIDE DEF next
  <2> QED
    BY <1>1, <1>2, <2>1, <2>3, QuietStep DEF next
<1>4. ASSUME NEW slow \in BOOLEAN, Poll(p, slow) PROVE AccountsInv'
  <2> DEFINE interval == r.interval + IF slow THEN Bump ELSE 0
             next == [r EXCEPT !.interval = interval, !.waited = @ + interval]
  <2>1. interval \in Nat /\ r.waited + interval \in Nat
    BY <1>1, PollAssumption DEF CommandRecords
  <2>2. Over(p) \/ Becomes(p, next)
    BY <1>4 DEF Poll
  <2> HIDE DEF interval
  <2>3. next \in CommandRecords /\ Sensible(next) /\ next.look # "load"
    BY <1>1, <1>2, <2>1 DEF CommandRecords, Sensible
  <2> HIDE DEF next
  <2> QED
    BY <1>1, <1>2, <2>2, <2>3, QuietStep, OverStep
<1>5. CASE Approved(p)
  <2> DEFINE next == [NoCommand EXCEPT !.kind = "in", !.pc = "chain"]
  <2>1. next \in CommandRecords /\ Sensible(next) /\ next.look = "none"
    BY DEF NoCommand, CommandRecords, Sensible, Names
  <2>2. Becomes(p, next)
    BY <1>5 DEF Approved
  <2> HIDE DEF next
  <2> QED
    BY <1>1, <1>2, <2>1, <2>2, QuietStep
<1>6. CASE Chain(p)
  <2>1. CASE Over(p)
    BY <1>1, <1>2, <2>1, OverStep
  <2>2. ASSUME NEW id \in Ids, Becomes(p, [r EXCEPT !.id = id, !.pc = "secret"]) PROVE AccountsInv'
    <3> DEFINE next == [r EXCEPT !.id = id, !.pc = "secret"]
    <3>1. r.pc = "chain"
      BY <1>6 DEF Chain
    <3>2. next \in CommandRecords /\ Sensible(next) /\ next.look # "load"
      BY <1>1, <1>2, <3>1 DEF CommandRecords, Sensible
    <3> HIDE DEF next
    <3> QED
      BY <1>1, <1>2, <2>2, <3>2, QuietStep DEF next
  <2> QED
    BY <1>6, <2>1, <2>2 DEF Chain
<1> QED
  BY <1>3, <1>4, <1>5, <1>6

LEMMA IssueStep ==
  ASSUME AccountsInv, NEW p \in Processes, NEW c \in Commands[p], c[1] # "in",
         Issue(p, c[1], c[2])
  PROVE  AccountsInv'
<1>1. \/ c[1] \in {"out", "start", "named"} /\ c[2] \in Ids
      \/ c[1] = "status" /\ c[2] = "none"
  BY CommandsAssumption
<1> DEFINE look == IF c[1] \in {"start", "named"} THEN "uuid" ELSE "name"
           next == [NoCommand EXCEPT !.kind = c[1], !.id = c[2], !.pc = "read", !.look = look]
<1>2. /\ command[p].pc = "idle" /\ Becomes(p, next) /\ UNCHANGED <<file, secrets, said, apart>>
      /\ Sensible(command[p])
  BY DEF Issue, Stored, Quietly, AccountsInv
<1>3. look \in {"uuid", "name"}
  OBVIOUS
<1> HIDE DEF look
<1>4. next \in CommandRecords /\ Sensible(next) /\ next.look # "load"
  BY <1>1, <1>3 DEF NoCommand, CommandRecords, Sensible, Names
<1> HIDE DEF next
<1> QED
  BY <1>2, <1>4, QuietStep DEF Sensible

LEMMA SecretSteps ==
  ASSUME AccountsInv, NEW p \in Processes, SetSecret(p) \/ DeleteSecret(p) \/ GetSecret(p)
  PROVE  AccountsInv'
<1> DEFINE r == command[p]
<1>1. r.pc = "secret" /\ r.look # "load"
  <2>1. r.pc = "secret" /\ Sensible(r)
    BY DEF SetSecret, DeleteSecret, GetSecret, AccountsInv
  <2> QED
    BY <2>1 DEF Sensible
<1>2. CASE SetSecret(p)
  <2>1. CASE HalfDone(p) /\ secrets' = secrets \cup {r.id}
    BY <1>1, <1>2, <2>1, HalfStep DEF SetSecret
  <2>2. CASE Over(p) /\ UNCHANGED Stored /\ Quietly
    BY <1>1, <2>2, OverStep DEF Stored, Quietly
  <2> QED
    BY <1>2, <2>1, <2>2 DEF SetSecret
<1>3. CASE DeleteSecret(p)
  BY <1>1, <1>3, HalfStep DEF DeleteSecret
<1>4. CASE GetSecret(p)
  <2> DEFINE next == [NoCommand EXCEPT !.kind = "start", !.pc = "chain"]
  <2>1. next \in CommandRecords /\ Sensible(next) /\ next.look = "none"
    BY DEF NoCommand, CommandRecords, Sensible, Names
  <2>2. (Becomes(p, next) \/ Over(p)) /\ UNCHANGED <<file, secrets, said, apart>>
    BY <1>4 DEF GetSecret, Stored, Quietly
  <2> HIDE DEF next
  <2> QED
    BY <1>1, <2>1, <2>2, QuietStep, OverStep
<1> QED
  BY <1>2, <1>3, <1>4

LEMMA LoadStep == ASSUME AccountsInv, NEW p \in Processes, Load(p) PROVE AccountsInv'
<1> DEFINE r == command[p]
<1>1. /\ file \in [is : {"missing", "good", "bad"}, ids : SUBSET Ids]
      /\ r \in CommandRecords /\ Sensible(r) /\ r.pc = "read"
      /\ file' = file /\ secrets' = secrets
  BY DEF AccountsInv, AccountsTyped, Load, Stored
<1>2. {} \in SUBSET Ids /\ apart = apart \cup {}
  OBVIOUS
<1>3. CASE file.is = "bad"
  <2> DEFINE next == [r EXCEPT !.pc = "aside"]
  <2>1. Becomes(p, next) /\ said' = said /\ apart' = apart
    BY <1>3 DEF Load, GoesTo
  <2>2. next \in CommandRecords /\ Sensible(next) /\ next.look = r.look
        /\ next.id = r.id /\ next.kind = r.kind /\ next.clashed = r.clashed
    BY <1>1 DEF CommandRecords, Sensible
  <2> HIDE DEF next
  <2>3. PICK parted \in SUBSET Ids : parted = {} /\ apart' = apart \cup parted
    BY <1>2, <2>1
  <2> QED
    BY <1>1, <2>1, <2>2, <2>3, OnwardStep DEF Becomes, Between
<1>4. CASE file.is # "bad"
  <2>1. PICK ids \in SUBSET Ids, parted \in SUBSET Ids :
          ids = file.ids /\ parted = {} /\ Loaded(p, ids, parted)
    BY <1>1, <1>2, <1>4 DEF Load
  <2>2. \A id : id \notin ids => ~Recorded(file, id)
    BY <2>1 DEF Recorded
  <2> QED
    BY <1>1, <2>1, <2>2, ReadStep
<1> QED
  BY <1>3, <1>4

\* A read that finds nothing, of a file that is moved away, stays, or cannot be read.
LEMMA EmptyReadSteps ==
  ASSUME AccountsInv, NEW p \in Processes, MoveAside(p) \/ ListsNothing(p) \/ StaysInPlace(p)
  PROVE  AccountsInv'
<1> DEFINE r == command[p]
<1>1. /\ file \in [is : {"missing", "good", "bad"}, ids : SUBSET Ids]
      /\ r.pc \in {"read", "aside"} /\ secrets' = secrets
  BY DEF AccountsInv, AccountsTyped, MoveAside, ListsNothing, StaysInPlace, Stored
<1>2. PICK none \in SUBSET Ids : none = {}
  <2>1. {} \in SUBSET Ids
    OBVIOUS
  <2> QED
    BY <2>1
<1>3. PICK unseen \in SUBSET Ids :
        unseen = Unseen /\ \A id : id \in unseen <=> Recorded(file, id)
  <2>1. Unseen \in SUBSET Ids /\ \A id : id \in Unseen <=> Recorded(file, id)
    BY <1>1 DEF Unseen, Recorded
  <2> QED
    BY <2>1
<1>4. CASE MoveAside(p)
  <2>1. /\ file' \in [is : {"missing", "good", "bad"}, ids : SUBSET Ids]
        /\ Loaded(p, none, unseen)
    BY <1>1, <1>2, <1>3, <1>4 DEF MoveAside, Missing
  <2>2. \A id : ~Recorded(file', id)
    BY <1>4 DEF MoveAside, Missing, Recorded
  <2> QED
    BY <1>1, <1>3, <2>1, <2>2, ReadStep
<1>5. CASE ListsNothing(p)
  <2>1. Loaded(p, none, none) /\ file' = file /\ r.look # "load"
    BY <1>2, <1>5 DEF ListsNothing, Stored
  <2> QED
    BY <1>1, <2>1, ReadStep
<1>6. CASE StaysInPlace(p)
  <2>1. Loaded(p, none, unseen) /\ file' = file
    BY <1>2, <1>3, <1>6 DEF StaysInPlace, Stored
  <2> QED
    BY <1>1, <1>3, <2>1, ReadStep
<1> QED
  BY <1>4, <1>5, <1>6

LEMMA WriteStep == ASSUME AccountsInv, NEW p \in Processes, Write(p) PROVE AccountsInv'
<1> DEFINE r == command[p]
           parted == {id \in Ids \ {r.id} : (id \in r.base) # HasRecord(id)}
<1>1. /\ r \in CommandRecords /\ r.look = "load" /\ r.kind \in {"in", "out"} /\ r.id \in Ids
  BY DEF AccountsInv, AccountsTyped, Sensible, Write
<1>2. /\ file' = [is |-> "good", ids |-> IF r.kind = "in" THEN r.base \cup {r.id}
                                         ELSE r.base \ {r.id}]
      /\ Over(p) /\ Reports(p, parted) /\ secrets' = secrets
  BY DEF Write
<1>3. /\ file' \in [is : {"missing", "good", "bad"}, ids : SUBSET Ids]
      /\ Recorded(file', r.id) <=> r.kind = "in"
      /\ \A id : id # r.id => (Recorded(file', id) <=> id \in r.base)
  BY <1>1, <1>2 DEF CommandRecords, Recorded
<1>4. parted \in SUBSET Ids
      /\ \A id \in Ids \ parted : id # r.id => (id \in r.base <=> Recorded(file, id))
  BY DEF HasRecord, Recorded
<1> HIDE DEF parted
<1> QED
  BY <1>1, <1>2, <1>3, <1>4, ReportStep DEF Between

LEMMA BreaksOffStep == ASSUME AccountsInv, NEW p \in Processes, BreaksOff(p) PROVE AccountsInv'
<1> DEFINE r == command[p]
<1>1. Over(p) /\ UNCHANGED <<file, secrets, said>>
      /\ apart' = (IF Between(p) THEN apart \cup {r.id} ELSE apart)
  BY DEF BreaksOff, Stored
<1>2. CASE ~Between(p)
  BY <1>1, <1>2, OverStep DEF Between
<1>3. CASE Between(p)
  <2>1. /\ command \in [Processes -> CommandRecords] /\ apart \in SUBSET Ids /\ r.id \in Ids
    BY <1>3 DEF AccountsInv, AccountsTyped, Sensible, Between
  <2>2. /\ command' \in [Processes -> CommandRecords]
        /\ command'[p] = NoCommand /\ \A q \in Processes : q # p => command'[q] = command[q]
    BY <1>1, <2>1, NobodysCommand DEF Over, Becomes
  <2>3. AccountsTyped' /\ \A q \in Processes : Sensible(command'[q])
    BY <1>1, <1>3, <2>1, <2>2, NobodysCommand DEF AccountsInv, AccountsTyped
  <2>4. \A q \in Processes : q # p => (Between(q)' <=> Between(q))
    BY <2>2 DEF Between
  <2>5. ~Between(p)'
    BY <2>2, NobodysCommand DEF Between
  <2>6. HalfMade'
    BY <1>1, <2>2, <2>4, <2>5 DEF AccountsInv, HalfMade
  <2>7. StandsAsSaid'
    BY <1>1, <1>3, <2>2, <2>4 DEF AccountsInv, StandsAsSaid, HasRecord
  <2> QED
    BY <2>3, <2>6, <2>7 DEF AccountsInv
<1> QED
  BY <1>2, <1>3

LEMMA GoesBadStep == ASSUME AccountsInv, GoesBad PROVE AccountsInv'
<1>1. /\ UNCHANGED <<secrets, command, said>> /\ apart' = apart \cup file.ids
      /\ file' = [file EXCEPT !.is = "bad"] /\ file.is = "good"
      /\ file \in [is : {"missing", "good", "bad"}, ids : SUBSET Ids]
  BY DEF GoesBad, AccountsInv, AccountsTyped
<1>2. AccountsTyped'
  BY <1>1 DEF AccountsInv, AccountsTyped
<1>3. HalfMade'
  BY <1>1 DEF AccountsInv, HalfMade, Between
<1>4. StandsAsSaid'
  BY <1>1 DEF AccountsInv, StandsAsSaid, HasRecord, Between
<1> QED
  BY <1>1, <1>2, <1>3, <1>4 DEF AccountsInv

LEMMA AccountsInitInv == AccountsInit => AccountsInv
<1> SUFFICES ASSUME AccountsInit PROVE AccountsInv
  OBVIOUS
<1>1. AccountsTyped
  BY NobodysCommand DEF AccountsInit, AccountsTyped, Missing
<1>2. \A p \in Processes : command[p] = NoCommand
  BY DEF AccountsInit
<1>3. StandsAsSaid
  BY DEF AccountsInit, StandsAsSaid, HasRecord, Missing
<1> QED
  BY <1>1, <1>2, <1>3, NobodysCommand DEF AccountsInv, HalfMade, Between

LEMMA AccountsNextInv == AccountsInv /\ [AccountsNext]_accountVars => AccountsInv'
<1> SUFFICES ASSUME AccountsInv, [AccountsNext]_accountVars PROVE AccountsInv'
  OBVIOUS
<1>1. ASSUME NEW p \in Processes, CommandStep(p) \/ SignIn(p) \/ Approved(p) PROVE AccountsInv'
  BY <1>1, SignInSteps, SecretSteps, LoadStep, EmptyReadSteps, WriteStep DEF CommandStep
<1>2. ASSUME NEW p \in Processes, NEW c \in Commands[p], c[1] # "in", Issue(p, c[1], c[2])
      PROVE  AccountsInv'
  BY <1>2, IssueStep
<1>3. ASSUME NEW p \in Processes, BreaksOff(p) \/ ListsNothing(p) \/ StaysInPlace(p)
      PROVE  AccountsInv'
  BY <1>3, BreaksOffStep, EmptyReadSteps
<1>4. CASE GoesBad
  BY <1>4, GoesBadStep
<1>5. CASE UNCHANGED accountVars
  BY <1>5 DEF accountVars, AccountsInv, AccountsTyped, HalfMade, StandsAsSaid, HasRecord, Between
<1> QED
  BY <1>1, <1>2, <1>3, <1>4, <1>5 DEF AccountsNext

-----------------------------------------------------------------------------
(* The launcher.                                                           *)

IInv == StoreInv /\ AccountsInv /\ events \in Nat

\* The invariant the results below rest on.
THEOREM Invariance == Spec => []IInv
<1>1. Init => IInv
  BY StoreInitInv, AccountsInitInv DEF Init, IInv, StoreInit
<1>2. IInv /\ [Next]_vars => IInv'
  <2> SUFFICES ASSUME IInv, [Next]_vars PROVE IInv'
    OBVIOUS
  <2>1. [StoreNext]_storeVars /\ [AccountsNext]_accountVars
    BY DEF Next, Fetch, Auth, vars
  <2>2. events' \in Nat
    <3>1. events' = events \/ Event
      BY <2>1 DEF StoreNext, Begin, Step, Ends, Rot, Publish, storeVars
    <3> QED
      BY <3>1 DEF IInv, Event
  <2> QED
    BY <2>1, <2>2, StoreNextInv, AccountsNextInv DEF IInv
<1> QED
  BY <1>1, <1>2, PTL DEF Spec

\* Extractor::run and is_up_to_date: a manifest on disk never lists a file that
\* was not extracted from the jar it names, wherever runs were cut short.
THEOREM ManifestsAreTrue == Spec => []ManifestIsTrue
<1>1. IInv => ManifestIsTrue
  BY TrueIs DEF IInv, StoreInv
<1> QED
  BY Invariance, <1>1, PTL

\* fetch_version: a run that comes to its report undisturbed has every file of the
\* revision it resolved in the store.
THEOREM ReportsAreComplete == Spec => []CompletedIsComplete
<1>1. ASSUME StoreInv, NEW p \in Runs, run[p].pc = "report", ~run[p].disturbed
      PROVE  Complete(run[p].rev)
  <2> DEFINE rev == run[p].rev
  <2>1. Reached(store, run[p]) /\ run[p].pc = "report" /\ rev \in Revisions
    BY <1>1 DEF StoreInv, Fit, Standing
  <2>2. /\ ToSet(Index[rev]) = {Index[rev][i] : i \in 1 .. Len(Index[rev])}
        /\ ToSet(Entries[rev]) = {Entries[rev][i] : i \in 1 .. Len(Entries[rev])}
    BY <2>1, InLists
  <2> QED
    BY <2>1, <2>2 DEF Complete, Reached
<1>2. IInv => CompletedIsComplete
  BY <1>1 DEF IInv, CompletedIsComplete
<1> QED
  BY Invariance, <1>2, PTL

\* Store::fetch_object and the dry run: no run removes an object it did not find
\* wrong, and a dry run writes nothing.
THEOREM RunsKeep == Spec => KeptAsIs
<1>1. ASSUME IInv, [Next]_vars
      PROVE  [events' = events =>
                /\ \A o \in Objects :
                     store.object[o] \in {"good", "unreadable"} => store'.object[o] = store.object[o]
                /\ (\E p \in lock : run[p].dry) => store' = store]_storeVars
  <2>1. [StoreNext]_storeVars
    BY <1>1 DEF Next, Fetch, Auth, vars
  <2> QED
    BY <1>1, <2>1, StepKeeps DEF IInv
<1> QED
  BY Invariance, <1>1, PTL DEF Spec, KeptAsIs

\* AccountStore::save and remove under any interleaving: an account whose halves
\* nothing has parted since stands as the launcher last said.
THEOREM AccountsStand == Spec => []StandsAsSaid
<1>1. IInv => StandsAsSaid
  BY DEF IInv, AccountsInv
<1> QED
  BY Invariance, <1>1, PTL
=============================================================================
