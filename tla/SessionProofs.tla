---------------------------- MODULE SessionProofs ----------------------------
(***************************************************************************)
(* The window and its sessions for any number of servers and packets: the  *)
(* screen is one of the title's exactly without a session, and a window    *)
(* with nothing left to fold agrees with the session it shows.             *)
(*                                                                         *)
(* The player of a session for any world, input and order of packets: what *)
(* either end takes the other to know is what it knows once all is read.   *)
(***************************************************************************)
EXTENDS SessionLifecycle, PlaySession, TLAPS, SequenceTheorems, WellFoundedInduction

\* The screens of a window without a session.
Idle == {"menu", "servers", "disconnected"}

\* The window's copies w agree with the session's flags p.
Fits(w, p) == w.dead = p.dead /\ (w.screen = "terrain" => p.terrain)

\* The strengthening: what the window will be when it has folded the events on
\* their way agrees with the session; a session not yet joined is fresh, and no
\* death outlives its session.
IInv ==
  /\ TypeOK
  /\ \A s \in Sessions : thread[s] = "none" => player[s] = NewPlayer
  /\ ScreensMatchLink
  /\ link = NoSession => ~window.dead
  /\ link # NoSession => Fits(Folded(window, channel[link]), player[link])

-----------------------------------------------------------------------------
(* The fold.                                                               *)

\* Induction over the numbers, for a set.
LEMMA Induct ==
  ASSUME NEW S, 0 \in S, \A n \in Nat : n \in S => n + 1 \in S
  PROVE  Nat \subseteq S
<1> DEFINE U == Nat \ S
           R == OpToRel(<, Nat)
<1>1. SUFFICES ASSUME NEW n \in U PROVE FALSE
  OBVIOUS
<1>2. \A x, y \in Nat : <<y, x>> \in R <=> y < x
  BY DEF OpToRel
<1>3. IsWellFoundedOn(R, Nat)
  BY NatLessThanWellFounded
<1> HIDE DEF R
<1>4. PICK m \in U : \A k \in U : ~ (<<k, m>> \in R)
  BY <1>3, WFMin
<1>5. \A k \in Nat : k < m => k \in S
  BY <1>2, <1>4
<1>6. m # 0 => m - 1 \in Nat /\ m - 1 < m /\ m = (m - 1) + 1
  OBVIOUS
<1> QED
  BY <1>5, <1>6

\* The states a fold of the events goes through, from w on.
IsFold(f, w, events) ==
  f = [n \in 0 .. Len(events) |-> IF n = 0 THEN w ELSE Fold(f[n - 1], events[n])]

States(w, events) == CHOOSE f : IsFold(f, w, events)

LEMMA FoldedIs == \A w, events : Folded(w, events) = States(w, events)[Len(events)]
BY DEF Folded, States, IsFold

LEMMA FoldExists ==
  ASSUME NEW w, NEW E, NEW events \in Seq(E)
  PROVE  IsFold(States(w, events), w, events)
<1> DEFINE Upto(f, k) ==
             f = [n \in 0 .. k |-> IF n = 0 THEN w ELSE Fold(f[n - 1], events[n])]
           S == {k \in Nat : \E f : Upto(f, k)}
<1>1. 0 \in S
  <2> DEFINE f == [n \in 0 .. 0 |-> w]
  <2>1. f = [n \in 0 .. 0 |-> IF n = 0 THEN w ELSE Fold(f[n - 1], events[n])]
    OBVIOUS
  <2> QED
    BY <2>1
<1>2. ASSUME NEW k \in Nat, k \in S PROVE k + 1 \in S
  <2>1. PICK f : Upto(f, k)
    BY <1>2
  <2> DEFINE last == Fold(f[k], events[k + 1])
             g == [n \in 0 .. k + 1 |-> IF n = k + 1 THEN last ELSE f[n]]
  <2>2. ASSUME NEW n \in 0 .. k + 1
        PROVE  g[n] = IF n = 0 THEN w ELSE Fold(g[n - 1], events[n])
    <3>1. CASE n = k + 1
      <4>1. n # 0 /\ n - 1 = k /\ k \in 0 .. k + 1 /\ k # k + 1
        BY <3>1
      <4>2. g[n] = last /\ g[k] = f[k]
        BY <3>1, <4>1
      <4> QED
        BY <3>1, <4>1, <4>2
    <3>2. CASE n = 0
      <4>1. n # k + 1 /\ n \in 0 .. k
        BY <3>2
      <4>2. f[n] = w
        BY <2>1, <3>2, <4>1
      <4> QED
        BY <3>2, <4>1, <4>2
    <3>3. CASE n # 0 /\ n # k + 1
      <4>1. n \in 0 .. k /\ n - 1 \in 0 .. k + 1 /\ n - 1 # k + 1
        BY <3>3
      <4>2. g[n] = f[n] /\ g[n - 1] = f[n - 1]
        BY <3>3, <4>1
      <4>3. f[n] = Fold(f[n - 1], events[n])
        BY <2>1, <3>3, <4>1
      <4> QED
        BY <3>3, <4>2, <4>3
    <3> QED
      BY <3>1, <3>2, <3>3
  <2>3. DOMAIN g = 0 .. k + 1
    OBVIOUS
  <2>4. g = [n \in 0 .. k + 1 |-> g[n]]
    OBVIOUS
  <2> HIDE DEF g
  <2>5. Upto(g, k + 1)
    BY <2>2, <2>4
  <2> HIDE DEF Upto
  <2>6. k + 1 \in Nat
    OBVIOUS
  <2> QED
    BY <2>5, <2>6
<1>3. Len(events) \in S
  <2>1. Nat \subseteq S
    <3> HIDE DEF S
    <3> QED
      BY <1>1, <1>2, Induct
  <2>2. Len(events) \in Nat
    OBVIOUS
  <2> QED
    BY <2>1, <2>2
<1>4. \E f : IsFold(f, w, events)
  BY <1>3 DEF IsFold
<1> QED
  BY <1>4 DEF States

\* What a fold goes through, step by step.
LEMMA FoldSteps ==
  ASSUME NEW w, NEW E, NEW events \in Seq(E), NEW f, IsFold(f, w, events)
  PROVE  /\ f[0] = w
         /\ \A n \in 1 .. Len(events) : f[n] = Fold(f[n - 1], events[n])
<1>1. Len(events) \in Nat
  OBVIOUS
<1>2. 0 \in 0 .. Len(events)
  BY <1>1
<1>3. \A n \in 1 .. Len(events) : n \in 0 .. Len(events) /\ n # 0
  BY <1>1
<1> QED
  BY <1>2, <1>3 DEF IsFold

LEMMA FoldedEmpty == \A w : Folded(w, <<>>) = w
<1> TAKE w
<1>1. <<>> \in Seq({}) /\ Len(<<>>) = 0
  OBVIOUS
<1>2. IsFold(States(w, <<>>), w, <<>>)
  BY <1>1, FoldExists
<1>3. States(w, <<>>)[0] = w
  BY <1>1, <1>2, FoldSteps
<1> QED
  BY <1>1, <1>3, FoldedIs

\* One more event is folded last.
LEMMA FoldedAppend ==
  ASSUME NEW w, NEW E, NEW events \in Seq(E), NEW e \in E
  PROVE  Folded(w, Append(events, e)) = Fold(Folded(w, events), e)
<1> DEFINE more == Append(events, e)
           N == Len(events)
<1>1. /\ events \in Seq(E) /\ more \in Seq(E) /\ N \in Nat /\ Len(more) = N + 1
      /\ more[N + 1] = e
      /\ \A n \in 1 .. N : more[n] = events[n]
  OBVIOUS
<1>2. PICK f : f = States(w, events)
  OBVIOUS
<1>3. PICK g : g = States(w, more)
  OBVIOUS
<1> HIDE DEF more
<1>4. f[0] = w /\ \A n \in 1 .. N : f[n] = Fold(f[n - 1], events[n])
  <2>1. IsFold(f, w, events)
    BY <1>2, FoldExists
  <2>2. f[0] = w /\ \A n \in 1 .. Len(events) : f[n] = Fold(f[n - 1], events[n])
    BY <1>1, <2>1, FoldSteps
  <2> QED
    BY <2>2
<1>5. g[0] = w /\ \A n \in 1 .. N + 1 : g[n] = Fold(g[n - 1], more[n])
  <2>1. IsFold(g, w, more)
    BY <1>1, <1>3, FoldExists
  <2>2. g[0] = w /\ \A n \in 1 .. Len(more) : g[n] = Fold(g[n - 1], more[n])
    BY <1>1, <2>1, FoldSteps
  <2> QED
    BY <1>1, <2>2
<1> HIDE DEF N
<1>6. f[N] = g[N]
  <2> DEFINE S == {n \in Nat : n <= N => f[n] = g[n]}
  <2>1. 0 \in S
    BY <1>4, <1>5
  <2>2. ASSUME NEW n \in Nat, n \in S PROVE n + 1 \in S
    <3>1. SUFFICES ASSUME n + 1 <= N PROVE f[n + 1] = g[n + 1]
      OBVIOUS
    <3>2. n + 1 \in 1 .. N /\ n + 1 \in 1 .. N + 1 /\ (n + 1) - 1 = n /\ n <= N
      BY <1>1, <3>1
    <3>3. f[n] = g[n]
      BY <2>2, <3>2
    <3>4. f[n + 1] = Fold(f[n], events[n + 1])
      BY <1>4, <3>2
    <3>5. g[n + 1] = Fold(g[n], more[n + 1])
      BY <1>5, <3>2
    <3> QED
      BY <1>1, <3>2, <3>3, <3>4, <3>5
  <2>3. Nat \subseteq S
    <3> HIDE DEF S
    <3> QED
      BY <2>1, <2>2, Induct
  <2> QED
    BY <1>1, <2>3
<1>7. g[N + 1] = Fold(g[N], e)
  <2>1. N + 1 \in 1 .. N + 1 /\ (N + 1) - 1 = N
    BY <1>1
  <2> QED
    BY <1>1, <1>5, <2>1
<1>8. Folded(w, events) = f[N]
  BY <1>2, FoldedIs DEF N
<1>9. Folded(w, more) = g[N + 1]
  BY <1>1, <1>3, FoldedIs
<1> QED
  BY <1>6, <1>7, <1>8, <1>9 DEF more

-----------------------------------------------------------------------------
(* What a fold keeps.                                                      *)

\* Two windows whose copies of the session's flags are the same.
Like(v, w) == v.dead = w.dead /\ (v.screen = "terrain" <=> w.screen = "terrain")

LEMMA SleptType == ASSUME NEW sleep \in Sleeps PROVE Slept(sleep) \in Sleeps
<1>1. SleepTick(sleep.asleep, sleep.timer) \in 0 .. SleepGone - 1
  BY BoundsAssumption DEF Sleeps, SleepTick
<1>2. (sleep.cover /\ (sleep.asleep \/ SleepTick(sleep.asleep, sleep.timer) # 0
                       \/ sleep.timer = 0)) \in BOOLEAN
  OBVIOUS
<1> QED
  BY <1>1, <1>2 DEF Sleeps, Slept

LEMMA FoldType ==
  ASSUME NEW known, NEW w \in Windows(known), NEW e \in Events(known)
  PROVE  Fold(w, e) \in Windows(known)
<1>1. /\ w.screen \in Screens /\ w.sleep \in Sleeps /\ w.dead \in BOOLEAN
      /\ w.meshes \subseteq known /\ w.boards \subseteq known
  BY DEF Windows
<1>2. Slept(w.sleep) \in Sleeps
  BY <1>1, SleptType
<1>3. [asleep |-> TRUE, timer |-> 0, cover |-> TRUE] \in Sleeps
  BY BoundsAssumption DEF Sleeps
<1>4. [w.sleep EXCEPT !.asleep = FALSE] \in Sleeps
  BY <1>1 DEF Sleeps
<1>5. CASE e.kind \in {"ChunkUpdated", "SignTextChanged"}
  <2>1. e.arg \in known
    BY <1>5 DEF Events
  <2> QED
    BY <1>5, <2>1 DEF Fold, Windows
<1>6. CASE e.kind = "SignsCleared"
  BY <1>6 DEF Fold, Windows
<1>7. CASE e.kind = "Disconnected"
  <2>1. e.arg \in Reasons
    BY <1>7 DEF Events
  <2> QED
    BY <1>7, <2>1 DEF Fold, Windows
<1>8. CASE e.kind = "PlayerTick"
  <2>1. OnTick(w) \in Windows(known)
    BY <1>2 DEF OnTick, Windows, Screens
  <2> QED
    BY <1>8, <2>1 DEF Fold
<1>9. CASE e.kind \in {"Sleeping", "Woke"}
  BY <1>3, <1>4, <1>9 DEF Fold, Windows
<1>10. CASE e.kind \in {"Joined", "WorldCleared", "TerrainReady", "Died", "Respawned",
                        "WindowOpened", "WindowClosed"}
  BY <1>10 DEF Fold, Windows, Screens, After
<1> QED
  BY <1>5, <1>6, <1>7, <1>8, <1>9, <1>10 DEF Events

LEMMA FoldLike ==
  ASSUME NEW known, NEW v \in Windows(known), NEW w \in Windows(known), Like(v, w),
         NEW e \in Events(known)
  PROVE  Like(Fold(v, e), Fold(w, e))
<1>1. CASE e.kind = "PlayerTick"
  BY <1>1 DEF Fold, OnTick, Windows, Like
<1>2. CASE e.kind \in {"Joined", "WorldCleared", "TerrainReady"}
  BY <1>2 DEF Fold, Windows, Like, After
<1>3. CASE e.kind \in {"Died", "Respawned", "WindowOpened", "WindowClosed"}
  BY <1>3 DEF Fold, Windows, Like, After
<1>4. CASE e.kind \in {"Sleeping", "Woke", "ChunkUpdated", "SignTextChanged", "SignsCleared",
                       "Disconnected"}
  BY <1>4 DEF Fold, Windows, Like
<1> QED
  BY <1>1, <1>2, <1>3, <1>4 DEF Events

\* No event stands a screen of the title's.
LEMMA FoldStands ==
  ASSUME NEW known, NEW w \in Windows(known), w.screen \notin Idle, NEW e \in Events(known)
  PROVE  Fold(w, e).screen \notin Idle
<1>1. CASE e.kind = "PlayerTick"
  BY <1>1 DEF Fold, OnTick, Windows, Idle
<1>2. CASE e.kind \in {"Joined", "WorldCleared", "TerrainReady"}
  BY <1>2 DEF Fold, Windows, Idle, After
<1>3. CASE e.kind \in {"Died", "Respawned", "WindowOpened", "WindowClosed"}
  BY <1>3 DEF Fold, Windows, Idle, After
<1>4. CASE e.kind \in {"Sleeping", "Woke", "ChunkUpdated", "SignTextChanged", "SignsCleared",
                       "Disconnected"}
  BY <1>4 DEF Fold, Windows, Idle
<1> QED
  BY <1>1, <1>2, <1>3, <1>4 DEF Events

\* A fold of whole events keeps the type, what two windows have alike, and the
\* game's screens.
LEMMA FoldedKeeps ==
  ASSUME NEW known, NEW v \in Windows(known), NEW w \in Windows(known), Like(v, w),
         NEW events \in Seq(Events(known))
  PROVE  /\ Folded(v, events) \in Windows(known)
         /\ Folded(w, events) \in Windows(known)
         /\ Like(Folded(v, events), Folded(w, events))
         /\ w.screen \notin Idle => Folded(w, events).screen \notin Idle
<1> DEFINE N == Len(events)
<1>1. events \in Seq(Events(known)) /\ N \in Nat /\ \A n \in 1 .. N : events[n] \in Events(known)
  OBVIOUS
<1>2. PICK f : f = States(v, events)
  OBVIOUS
<1>3. PICK g : g = States(w, events)
  OBVIOUS
<1>4. f[0] = v /\ \A n \in 1 .. N : f[n] = Fold(f[n - 1], events[n])
  <2>1. IsFold(f, v, events)
    BY <1>1, <1>2, FoldExists
  <2>2. f[0] = v /\ \A n \in 1 .. Len(events) : f[n] = Fold(f[n - 1], events[n])
    BY <1>1, <2>1, FoldSteps
  <2> QED
    BY <2>2
<1>5. g[0] = w /\ \A n \in 1 .. N : g[n] = Fold(g[n - 1], events[n])
  <2>1. IsFold(g, w, events)
    BY <1>1, <1>3, FoldExists
  <2>2. g[0] = w /\ \A n \in 1 .. Len(events) : g[n] = Fold(g[n - 1], events[n])
    BY <1>1, <2>1, FoldSteps
  <2> QED
    BY <2>2
<1> HIDE DEF N
<1> DEFINE Kept(x, y) ==
             /\ x \in Windows(known) /\ y \in Windows(known) /\ Like(x, y)
             /\ w.screen \notin Idle => y.screen \notin Idle
           S == {n \in Nat : n <= N => Kept(f[n], g[n])}
<1>6. 0 \in S
  BY <1>4, <1>5
<1>7. ASSUME NEW n \in Nat, n \in S PROVE n + 1 \in S
  <2>1. SUFFICES ASSUME n + 1 <= N PROVE Kept(f[n + 1], g[n + 1])
    OBVIOUS
  <2>2. n + 1 \in 1 .. N /\ (n + 1) - 1 = n /\ n <= N
    BY <1>1, <2>1
  <2>3. PICK e \in Events(known) : e = events[n + 1]
    BY <1>1, <2>2
  <2>4. PICK x, y : x = f[n] /\ y = g[n]
    OBVIOUS
  <2>5. Kept(x, y)
    BY <1>7, <2>2, <2>4
  <2>6. f[n + 1] = Fold(x, e) /\ g[n + 1] = Fold(y, e)
    BY <1>4, <1>5, <2>2, <2>3, <2>4
  <2>7. Fold(x, e) \in Windows(known) /\ Fold(y, e) \in Windows(known)
    BY <2>5, FoldType
  <2>8. Like(Fold(x, e), Fold(y, e))
    BY <2>5, FoldLike
  <2>9. y.screen \notin Idle => Fold(y, e).screen \notin Idle
    BY <2>5, FoldStands
  <2> QED
    BY <2>5, <2>6, <2>7, <2>8, <2>9
<1>8. N \in S
  <2> HIDE DEF S
  <2> QED
    BY <1>1, <1>6, <1>7, Induct
<1>9. Kept(f[N], g[N])
  BY <1>1, <1>8
<1>10. Folded(v, events) = f[N] /\ Folded(w, events) = g[N]
  BY <1>2, <1>3, FoldedIs DEF N
<1> QED
  BY <1>9, <1>10

LEMMA FoldedType ==
  ASSUME NEW known, NEW w \in Windows(known), NEW events \in Seq(Events(known))
  PROVE  /\ Folded(w, events) \in Windows(known)
         /\ w.screen \notin Idle => Folded(w, events).screen \notin Idle
<1>1. Like(w, w)
  BY DEF Like
<1> QED
  BY <1>1, FoldedKeeps

\* The flags q are those of p after what the event e speaks of.
Follows(e, p, q) ==
  CASE e.kind \in {"Joined", "WorldCleared"} -> q.dead = p.dead /\ q.terrain
    [] e.kind = "TerrainReady" -> q.dead = p.dead
    [] e.kind = "Died"         -> q.dead
    [] e.kind = "Respawned"    -> ~q.dead /\ q.terrain = p.terrain
    [] OTHER                   -> q.dead = p.dead /\ q.terrain = p.terrain

LEMMA FoldFits ==
  ASSUME NEW known, NEW w \in Windows(known), NEW e \in Events(known),
         NEW p \in Players(known), NEW q \in Players(known), Fits(w, p), Follows(e, p, q)
  PROVE  Fits(Fold(w, e), q)
<1>1. CASE e.kind = "PlayerTick"
  BY <1>1 DEF Fold, OnTick, Windows, Players, Fits, Follows
<1>2. CASE e.kind \in {"Joined", "WorldCleared", "TerrainReady"}
  BY <1>2 DEF Fold, Windows, Players, Fits, Follows, After
<1>3. CASE e.kind \in {"Died", "Respawned", "WindowOpened", "WindowClosed"}
  BY <1>3 DEF Fold, Windows, Players, Fits, Follows, After
<1>4. CASE e.kind \in {"Sleeping", "Woke", "ChunkUpdated", "SignTextChanged", "SignsCleared",
                       "Disconnected"}
  BY <1>4 DEF Fold, Windows, Players, Fits, Follows
<1> QED
  BY <1>1, <1>2, <1>3, <1>4 DEF Events

-----------------------------------------------------------------------------
(* The session's steps.                                                    *)

LEMMA Grown ==
  ASSUME NEW known, NEW more, known \subseteq more
  PROVE  /\ Windows(known) \subseteq Windows(more)
         /\ Events(known) \subseteq Events(more)
         /\ Seq(Events(known)) \subseteq Seq(Events(more))
         /\ Players(known) \subseteq Players(more)
<1>1. Events(known) \subseteq Events(more)
  BY DEF Events
<1>2. ASSUME NEW A, NEW B, A \subseteq B PROVE Seq(A) \subseteq Seq(B)
  BY <1>2
<1>3. Seq(Events(known)) \subseteq Seq(Events(more))
  BY <1>1, <1>2
<1>4. Windows(known) \subseteq Windows(more)
  BY DEF Windows
<1>5. Players(known) \subseteq Players(more)
  BY DEF Players
<1> QED
  BY <1>1, <1>3, <1>4, <1>5

LEMMA KnownGrows ==
  ASSUME TypeOK, NEW s \in Sessions, NEW q, player' = [player EXCEPT ![s] = q],
         q.world \in Nat, player[s].world <= q.world
  PROVE  Known \subseteq Known'
<1>1. \A t \in Sessions : player[t].world \in Nat
  BY DEF TypeOK, Players
<1>2. DOMAIN player = Sessions
  BY DEF TypeOK
<1>3. ASSUME NEW t \in Sessions, NEW n \in 0 .. player[t].world
      PROVE  n \in 0 .. player'[t].world
  BY <1>1, <1>2, <1>3
<1> QED
  BY <1>3 DEF Known

\* The channels after a report of the session s whose flags are now q: typed,
\* empty but for the linked one, and still leading to what agrees with q.
Carried(s, known, q) ==
  /\ channel' \in [Sessions -> Seq(Events(known))]
  /\ \A t \in Sessions : link # t => channel'[t] = <<>>
  /\ link = s => Fits(Folded(window, channel'[s]), q)
  /\ link \in Sessions /\ link # s => channel'[link] = channel[link]

LEMMA Silent ==
  ASSUME IInv, NEW s \in Sessions, NEW known, Known \subseteq known, NEW q,
         q.dead = player[s].dead, player[s].terrain => q.terrain, UNCHANGED channel
  PROVE  Carried(s, known, q)
<1>1. channel \in [Sessions -> Seq(Events(known))]
  <2>1. channel \in [Sessions -> Seq(Events(Known))]
    BY DEF IInv, TypeOK
  <2>2. Seq(Events(Known)) \subseteq Seq(Events(known))
    BY Grown
  <2> QED
    BY <2>1, <2>2
<1>2. \A t \in Sessions : link # t => channel[t] = <<>>
  BY DEF IInv, TypeOK
<1>3. s # NoSession
  BY DEF Sessions, NoSession
<1>4. link = s => Fits(Folded(window, channel[s]), q)
  BY <1>3 DEF IInv, Fits
<1> QED
  BY <1>1, <1>2, <1>4 DEF Carried

\* One more event leads on.
LEMMA OnwardFits ==
  ASSUME NEW known, NEW w \in Windows(known), NEW events \in Seq(Events(known)),
         NEW e \in Events(known), NEW p \in Players(known), NEW q \in Players(known),
         Fits(Folded(w, events), p), Follows(e, p, q)
  PROVE  /\ Append(events, e) \in Seq(Events(known))
         /\ Fits(Folded(w, Append(events, e)), q)
<1>1. PICK v \in Windows(known) : v = Folded(w, events)
  BY FoldedType
<1>2. Fits(Fold(v, e), q)
  BY <1>1, FoldFits
<1>3. Folded(w, Append(events, e)) = Fold(v, e)
  BY <1>1, FoldedAppend
<1> QED
  BY <1>2, <1>3

LEMMA OneEvent ==
  ASSUME IInv, NEW s \in Sessions, NEW known, Known \subseteq known,
         NEW q \in Players(known), NEW e \in Events(known), Follows(e, player[s], q),
         Report(s, <<e>>)
  PROVE  Carried(s, known, q)
<1>1. channel \in [Sessions -> Seq(Events(known))] /\ window \in Windows(known)
  <2>1. channel \in [Sessions -> Seq(Events(Known))] /\ window \in Windows(Known)
    BY DEF IInv, TypeOK
  <2> QED
    BY <2>1, Grown
<1>2. \A t \in Sessions : link # t => channel[t] = <<>>
  BY DEF IInv, TypeOK
<1>3. s # NoSession
  BY DEF Sessions, NoSession
<1>4. player[s] \in Players(known)
  BY Grown DEF IInv, TypeOK
<1>5. PICK events \in Seq(Events(known)) : events = channel[s]
  BY <1>1
<1>6. PICK more : more = Append(events, e)
  OBVIOUS
<1>7. more \in Seq(Events(known)) /\ events \o <<e>> = more
  BY <1>6
<1>8. link # s => channel' = channel
  BY DEF Report
<1>9. link = s => channel' = [channel EXCEPT ![s] = more]
  BY <1>5, <1>7 DEF Report
<1>10. link = s => Fits(Folded(window, more), q)
  <2>1. link = s => Fits(Folded(window, events), player[s])
    BY <1>3, <1>5 DEF IInv
  <2>2. PICK p \in Players(known) : p = player[s]
    BY <1>4
  <2>3. Follows(e, p, q) /\ (link = s => Fits(Folded(window, events), p))
    BY <2>1, <2>2
  <2> QED
    BY <1>1, <1>6, <2>3, OnwardFits
<1>11. CASE link = s
  <2>1. channel'[s] = more /\ channel' \in [Sessions -> Seq(Events(known))]
    BY <1>1, <1>7, <1>9, <1>11
  <2>2. \A t \in Sessions : link # t => channel'[t] = <<>>
    BY <1>1, <1>2, <1>9, <1>11
  <2> QED
    BY <1>10, <1>11, <2>1, <2>2 DEF Carried
<1>12. CASE link # s
  BY <1>1, <1>2, <1>8, <1>12 DEF Carried
<1> QED
  BY <1>11, <1>12

LEMMA ThreeEvents ==
  ASSUME IInv, NEW s \in Sessions, NEW known, Known \subseteq known,
         NEW p1 \in Players(known), NEW p2 \in Players(known), NEW q \in Players(known),
         NEW e1 \in Events(known), NEW e2 \in Events(known), NEW e3 \in Events(known),
         Follows(e1, player[s], p1), Follows(e2, p1, p2), Follows(e3, p2, q),
         Report(s, <<e1, e2, e3>>)
  PROVE  Carried(s, known, q)
<1>1. channel \in [Sessions -> Seq(Events(known))] /\ window \in Windows(known)
  <2>1. channel \in [Sessions -> Seq(Events(Known))] /\ window \in Windows(Known)
    BY DEF IInv, TypeOK
  <2> QED
    BY <2>1, Grown
<1>2. \A t \in Sessions : link # t => channel[t] = <<>>
  BY DEF IInv, TypeOK
<1>3. s # NoSession
  BY DEF Sessions, NoSession
<1>4. player[s] \in Players(known)
  BY Grown DEF IInv, TypeOK
<1>5. PICK events \in Seq(Events(known)) : events = channel[s]
  BY <1>1
<1>6. PICK more1 : more1 = Append(events, e1)
  OBVIOUS
<1>7. PICK more2 : more2 = Append(more1, e2)
  OBVIOUS
<1>8. PICK more : more = Append(more2, e3)
  OBVIOUS
<1>9. /\ more1 \in Seq(Events(known)) /\ more2 \in Seq(Events(known))
      /\ more \in Seq(Events(known))
  BY <1>6, <1>7, <1>8
<1>10. events \o <<e1, e2, e3>> = more
  <2>1. ASSUME NEW E, NEW x \in E, NEW y \in E, NEW z \in E, NEW es \in Seq(E)
        PROVE  es \o <<x, y, z>> = Append(Append(Append(es, x), y), z)
    <3>1. /\ Len(es \o <<x, y, z>>) = Len(es) + 3
          /\ Len(Append(Append(Append(es, x), y), z)) = Len(es) + 3
      OBVIOUS
    <3>2. ASSUME NEW i \in 1 .. Len(es) + 3
          PROVE  (es \o <<x, y, z>>)[i] = Append(Append(Append(es, x), y), z)[i]
      OBVIOUS
    <3>3. es \o <<x, y, z>> \in Seq(E) /\ Append(Append(Append(es, x), y), z) \in Seq(E)
      OBVIOUS
    <3> QED
      BY <3>1, <3>2, <3>3
  <2> QED
    BY <1>6, <1>7, <1>8, <2>1
<1>11. link # s => channel' = channel
  BY DEF Report
<1>12. link = s => channel' = [channel EXCEPT ![s] = more]
  BY <1>5, <1>10 DEF Report
<1>13. link = s => Fits(Folded(window, more), q)
  <2>1. link = s => Fits(Folded(window, events), player[s])
    BY <1>3, <1>5 DEF IInv
  <2>2. PICK p \in Players(known) : p = player[s]
    BY <1>4
  <2>3. Follows(e1, p, p1) /\ (link = s => Fits(Folded(window, events), p))
    BY <2>1, <2>2
  <2>4. link = s => Fits(Folded(window, more1), p1)
    BY <1>1, <1>6, <2>3, OnwardFits
  <2>5. link = s => Fits(Folded(window, more2), p2)
    BY <1>1, <1>7, <1>9, <2>4, OnwardFits
  <2> QED
    BY <1>1, <1>8, <1>9, <2>5, OnwardFits
<1>14. CASE link = s
  <2>1. channel'[s] = more /\ channel' \in [Sessions -> Seq(Events(known))]
    BY <1>1, <1>9, <1>12, <1>14
  <2>2. \A t \in Sessions : link # t => channel'[t] = <<>>
    BY <1>1, <1>2, <1>12, <1>14
  <2> QED
    BY <1>13, <1>14, <2>1, <2>2 DEF Carried
<1>15. CASE link # s
  BY <1>1, <1>2, <1>11, <1>15 DEF Carried
<1> QED
  BY <1>14, <1>15

Threads == {"none", "connecting", "login", "play", "ending", "over"}

\* A step of the session s that leaves the window alone and whose report leads
\* to its new flags.
LEMMA SessionStep ==
  ASSUME IInv, NEW s \in Sessions, thread[s] # "none",
         NEW q \in Players(Known'), player' = [player EXCEPT ![s] = q],
         player[s].world <= q.world, q.world <= packets', packets' \in packets .. MaxPackets,
         Carried(s, Known', q),
         thread' \in [Sessions -> Threads], \A t \in Sessions : thread'[t] = "none" => thread[t] = "none",
         verdict' \in [Sessions -> Reasons \ {NoReason}], told' \in [Sessions -> Reasons],
         UNCHANGED <<link, window, body>>
  PROVE  IInv'
<1>1. packets \in 0 .. MaxPackets /\ MaxPackets \in Nat /\ packets' \in 0 .. MaxPackets
  BY BoundsAssumption DEF IInv, TypeOK
<1>2. player \in [Sessions -> Players(Known)]
  BY DEF IInv, TypeOK
<1>3. q.world \in Nat /\ \A t \in Sessions : player[t].world \in Nat /\ player[t].world <= packets
  BY DEF IInv, TypeOK, Players
<1>4. Known \subseteq Known'
  BY <1>3, KnownGrows DEF IInv
<1>5. PICK known : known = Known'
  OBVIOUS
<1>6. /\ Windows(Known) \subseteq Windows(known) /\ Players(Known) \subseteq Players(known)
      /\ q \in Players(known)
  BY <1>4, <1>5, Grown
<1>7. player' \in [Sessions -> Players(known)]
  BY <1>2, <1>6
<1>8. \A t \in Sessions : player'[t].world <= packets'
  BY <1>1, <1>2, <1>3
<1>9. window' \in Windows(known) /\ window'.notice = NoReason
  BY <1>6 DEF IInv, TypeOK
<1>10. channel' \in [Sessions -> Seq(Events(known))]
  BY <1>5 DEF Carried
<1>11. \A t \in Sessions : link' # t => channel'[t] = <<>>
  BY DEF Carried
<1>12. link' \in Sessions \cup {NoSession} /\ body' \in Reasons
  BY DEF IInv, TypeOK
<1>13. TypeOK'
  BY <1>1, <1>5, <1>7, <1>8, <1>9, <1>10, <1>11, <1>12 DEF TypeOK, Threads
<1>14. \A t \in Sessions : thread'[t] = "none" => player'[t] = NewPlayer
  BY <1>2 DEF IInv
<1>15. ScreensMatchLink' /\ (link' = NoSession => ~window'.dead)
  BY DEF IInv, ScreensMatchLink
<1>16. link' # NoSession => Fits(Folded(window', channel'[link']), player'[link'])
  <2>1. SUFFICES ASSUME link \in Sessions
                 PROVE  Fits(Folded(window, channel'[link]), player'[link])
    BY DEF IInv, TypeOK
  <2>2. CASE link = s
    BY <1>2, <2>2 DEF Carried
  <2>3. CASE link # s
    <3>1. channel'[link] = channel[link] /\ player'[link] = player[link]
      BY <1>2, <2>1, <2>3 DEF Carried
    <3>2. link # NoSession
      BY <2>1 DEF Sessions, NoSession
    <3> QED
      BY <3>1, <3>2 DEF IInv
  <2> QED
    BY <2>2, <2>3
<1> QED
  BY <1>13, <1>14, <1>15, <1>16 DEF IInv

\* A step of the session's thread that leaves its flags.
LEMMA ThreadStep ==
  ASSUME IInv, NEW s \in Sessions, thread[s] # "none",
         NEW at \in Threads \ {"none"}, thread' = [thread EXCEPT ![s] = at],
         Carried(s, Known, player[s]),
         verdict' \in [Sessions -> Reasons \ {NoReason}], told' \in [Sessions -> Reasons],
         UNCHANGED <<link, window, body, player, packets>>
  PROVE  IInv'
<1>1. player \in [Sessions -> Players(Known)] /\ packets \in 0 .. MaxPackets /\ MaxPackets \in Nat
  BY BoundsAssumption DEF IInv, TypeOK
<1>2. Known' = Known
  BY DEF Known
<1>3. PICK q \in Players(Known) : q = player[s]
  BY <1>1
<1>4. player' = [player EXCEPT ![s] = q] /\ q \in Players(Known') /\ Carried(s, Known', q)
  BY <1>1, <1>2, <1>3
<1>5. player[s].world <= q.world /\ q.world <= packets' /\ packets' \in packets .. MaxPackets
  BY <1>1, <1>3 DEF IInv, TypeOK, Players
<1>6. thread' \in [Sessions -> Threads] /\ \A t \in Sessions : thread'[t] = "none" => thread[t] = "none"
  BY DEF IInv, TypeOK, Threads
<1> QED
  BY <1>4, <1>5, <1>6, SessionStep

LEMMA Typical ==
  ASSUME IInv
  PROVE  /\ player \in [Sessions -> Players(Known)]
         /\ thread \in [Sessions -> Threads]
         /\ verdict \in [Sessions -> Reasons \ {NoReason}] /\ told \in [Sessions -> Reasons]
         /\ Known \subseteq Known
         /\ \A s \in Sessions : player[s] \in Players(Known)
BY DEF IInv, TypeOK, Threads

\* An end the window is told of.
LEMMA SpokenEnd ==
  ASSUME IInv, NEW s \in Sessions, NEW reason \in Reasons,
         Report(s, <<Event("Disconnected", reason)>>)
  PROVE  Carried(s, Known, player[s])
<1>1. PICK e : e = Event("Disconnected", reason)
  OBVIOUS
<1>2. e \in Events(Known) /\ Report(s, <<e>>)
  BY <1>1 DEF Event, Events
<1>3. Follows(e, player[s], player[s])
  BY <1>1 DEF Event, Follows
<1> QED
  BY <1>2, <1>3, OneEvent, Typical

LEMMA ConnectStep == ASSUME IInv, NEW s \in Sessions, Connect(s) PROVE IInv'
<1>1. Carried(s, Known, player[s])
  BY Silent DEF Connect, ThreadOnly
<1> QED
  BY <1>1, ThreadStep, Typical DEF Connect, ThreadOnly, Threads

LEMMA LoginSuccessStep == ASSUME IInv, NEW s \in Sessions, LoginSuccess(s) PROVE IInv'
<1>1. Carried(s, Known, player[s])
  BY Silent DEF LoginSuccess, ThreadOnly
<1> QED
  BY <1>1, ThreadStep, Typical DEF LoginSuccess, ThreadOnly, Threads

LEMMA EndingStep == ASSUME IInv, NEW s \in Sessions, Ending(s) PROVE IInv'
<1>1. CASE Fails(s) \/ SignInFails(s)
  <2>1. Carried(s, Known, player[s])
    BY <1>1, Silent DEF Fails, SignInFails
  <2>2. verdict' \in [Sessions -> Reasons \ {NoReason}]
    BY <1>1, Typical DEF Fails, SignInFails, End, Reasons, Generic, FromAuth, NoReason
  <2> QED
    BY <1>1, <2>1, <2>2, ThreadStep, Typical DEF Fails, SignInFails, End, ThreadOnly, Threads
<1>2. CASE ServerDisconnects(s)
  <2>1. Carried(s, Known, player[s])
    BY <1>2, SpokenEnd DEF ServerDisconnects, Reasons
  <2>2. verdict' \in [Sessions -> Reasons \ {NoReason}]
    BY <1>2, Typical DEF ServerDisconnects, End, Reasons, Generic, NoReason
  <2>3. told' \in [Sessions -> Reasons]
    BY <1>2, Typical DEF ServerDisconnects, Reasons
  <2> QED
    BY <1>2, <2>1, <2>2, <2>3, ThreadStep DEF ServerDisconnects, End, ThreadOnly, Threads
<1> QED
  BY <1>1, <1>2 DEF Ending

LEMMA LastWordStep == ASSUME IInv, NEW s \in Sessions, LastWord(s) PROVE IInv'
<1>1. PICK reason \in Reasons : reason = verdict[s]
  BY Typical
<1>2. Carried(s, Known, player[s])
  BY <1>1, SpokenEnd DEF LastWord
<1> QED
  BY <1>2, ThreadStep, Typical DEF LastWord, ThreadOnly, Threads

-----------------------------------------------------------------------------
(* The play loop's handlers.                                               *)

\* The flags a handler leaves.
LEMMA HandlerStep ==
  ASSUME IInv, NEW s \in Sessions, Plays(s),
         NEW q, player' = [player EXCEPT ![s] = q],
         q \in [world : Nat, signs : SUBSET Known', dead : BOOLEAN, asleep : BOOLEAN,
                terrain : BOOLEAN],
         packets' \in packets .. MaxPackets,
         q.world \in player[s].world .. player[s].world + (packets' - packets),
         Carried(s, Known', q)
  PROVE  IInv'
<1>1. /\ packets \in Nat /\ MaxPackets \in Nat /\ packets' \in Nat
      /\ player[s].world \in Nat /\ player[s].world <= packets
  BY BoundsAssumption DEF IInv, TypeOK, Players
<1>2. q.world \in 0 .. MaxPackets /\ q.world <= packets' /\ player[s].world <= q.world
  BY <1>1
<1>3. q \in Players(Known')
  BY <1>2 DEF Players
<1>4. thread[s] # "none" /\ thread' = thread /\ verdict' = verdict /\ told' = told
      /\ UNCHANGED <<link, window, body>>
  BY DEF Plays
<1> QED
  BY <1>2, <1>3, <1>4, SessionStep, Typical

\* What a handler's flags and the events of its world are typed by.
LEMMA HandlerTypes ==
  ASSUME IInv, NEW s \in Sessions, NEW q, player' = [player EXCEPT ![s] = q],
         q.world \in Nat, player[s].world <= q.world
  PROVE  /\ Known \subseteq Known' /\ player[s] \in Players(Known')
         /\ player[s].signs \subseteq Known' /\ World(s) \in Known'
         /\ player[s].world \in Nat
<1>1. Known \subseteq Known'
  BY KnownGrows DEF IInv
<1>2. player[s] \in Players(Known)
  BY Typical
<1>3. player[s].world \in Nat /\ player[s].signs \subseteq Known
  BY <1>2 DEF Players
<1>4. World(s) \in Known
  BY <1>3 DEF World, Known
<1> QED
  BY <1>1, <1>2, <1>3, <1>4, Grown

LEMMA PacketsGrow ==
  ASSUME IInv
  PROVE  /\ packets \in Nat /\ packets \in packets .. MaxPackets /\ packets - packets = 0
         /\ packets < MaxPackets => packets + 1 \in packets .. MaxPackets
         /\ (packets + 1) - packets = 1
<1>1. packets \in 0 .. MaxPackets /\ MaxPackets \in Nat
  BY BoundsAssumption DEF IInv, TypeOK
<1> QED
  BY <1>1

\* A handler that leaves the number of worlds and reports one event.
LEMMA PlainHandler ==
  ASSUME IInv, NEW s \in Sessions, Plays(s), packets' \in packets .. MaxPackets,
         NEW q \in Players(Known), q.world = player[s].world,
         player' = [player EXCEPT ![s] = q],
         NEW e \in Events(Known), Follows(e, player[s], q), Report(s, <<e>>)
  PROVE  IInv'
<1>1. player[s].world \in Nat /\ q.world \in Nat /\ player[s].world <= q.world
  BY DEF IInv, TypeOK, Players
<1>2. Known \subseteq Known'
  BY <1>1, KnownGrows DEF IInv
<1>3. PICK known : known = Known'
  OBVIOUS
<1>4. q \in Players(known) /\ e \in Events(known) /\ Known \subseteq known
  BY <1>2, <1>3, Grown
<1>5. Carried(s, known, q)
  BY <1>4, OneEvent
<1>6. q \in [world : Nat, signs : SUBSET known, dead : BOOLEAN, asleep : BOOLEAN,
             terrain : BOOLEAN]
  BY <1>1, <1>4 DEF Players
<1>7. packets \in Nat /\ packets' \in Nat /\ packets' >= packets
  BY DEF IInv, TypeOK
<1>8. q.world \in player[s].world .. player[s].world + (packets' - packets)
  BY <1>1, <1>7
<1> QED
  BY <1>3, <1>5, <1>6, <1>8, HandlerStep

LEMMA Counted ==
  ASSUME IInv, NEW s, Handles(s)
  PROVE  Plays(s) /\ packets' \in packets .. MaxPackets /\ packets' - packets = 1
BY PacketsGrow DEF Handles

LEMMA PlainEvent ==
  ASSUME NEW known,
         NEW kind \in {"Joined", "WorldCleared", "TerrainReady", "Died", "Respawned", "Sleeping",
                       "Woke", "WindowOpened", "WindowClosed", "PlayerTick"}
  PROVE  Plain(kind) \in Events(known) /\ Plain(kind).kind = kind
BY DEF Plain, Event, Events

LEMMA DeathStep == ASSUME IInv, NEW s \in Sessions, Death(s) PROVE IInv'
<1>1. PICK p \in Players(Known) : p = player[s]
  BY Typical
<1>2. PICK q : q = [p EXCEPT !.dead = TRUE]
  OBVIOUS
<1>3. q \in Players(Known) /\ q.world = p.world /\ q.dead
  BY <1>2 DEF Players
<1>4. PICK e : e = Plain("Died")
  OBVIOUS
<1>5. e \in Events(Known) /\ Follows(e, p, q)
  BY <1>3, <1>4, PlainEvent DEF Follows
<1>6. player' = [player EXCEPT ![s] = q] /\ Report(s, <<e>>) /\ Handles(s)
  BY <1>1, <1>2, <1>4 DEF Death, Sets
<1> QED
  BY <1>1, <1>3, <1>5, <1>6, Counted, PlainHandler

LEMMA RespawnStep == ASSUME IInv, NEW s \in Sessions, Respawn(s) PROVE IInv'
<1>1. PICK p \in Players(Known) : p = player[s]
  BY Typical
<1>2. PICK q : q = Awake(p)
  OBVIOUS
<1>3. q \in Players(Known) /\ q.world = p.world /\ ~q.dead /\ q.terrain = p.terrain
  BY <1>2 DEF Players, Awake
<1>4. PICK e : e = Plain("Respawned")
  OBVIOUS
<1>5. e \in Events(Known) /\ Follows(e, p, q)
  BY <1>3, <1>4, PlainEvent DEF Follows
<1>6. player' = [player EXCEPT ![s] = q] /\ Report(s, <<e>>) /\ Handles(s)
  BY <1>1, <1>2, <1>4 DEF Respawn, Sets
<1> QED
  BY <1>1, <1>3, <1>5, <1>6, Counted, PlainHandler

LEMMA SleepStep == ASSUME IInv, NEW s \in Sessions, UseBed(s) \/ Wake(s) PROVE IInv'
<1>1. PICK p \in Players(Known) : p = player[s]
  BY Typical
<1>2. CASE UseBed(s)
  <2>1. PICK q : q = [p EXCEPT !.asleep = TRUE]
    OBVIOUS
  <2>2. q \in Players(Known) /\ q.world = p.world /\ q.dead = p.dead /\ q.terrain = p.terrain
    BY <2>1 DEF Players
  <2>3. PICK e : e = Plain("Sleeping")
    OBVIOUS
  <2>4. e \in Events(Known) /\ Follows(e, p, q)
    BY <2>2, <2>3, PlainEvent DEF Follows
  <2>5. player' = [player EXCEPT ![s] = q] /\ Report(s, <<e>>) /\ Handles(s)
    BY <1>1, <1>2, <2>1, <2>3 DEF UseBed, Sets
  <2> QED
    BY <1>1, <2>2, <2>4, <2>5, Counted, PlainHandler
<1>3. CASE Wake(s)
  <2>1. PICK q : q = [p EXCEPT !.asleep = FALSE]
    OBVIOUS
  <2>2. q \in Players(Known) /\ q.world = p.world /\ q.dead = p.dead /\ q.terrain = p.terrain
    BY <2>1 DEF Players
  <2>3. PICK e : e = Plain("Woke")
    OBVIOUS
  <2>4. e \in Events(Known) /\ Follows(e, p, q)
    BY <2>2, <2>3, PlainEvent DEF Follows
  <2>5. player' = [player EXCEPT ![s] = q] /\ Report(s, <<e>>) /\ Plays(s)
        /\ packets' = packets
    BY <1>1, <1>3, <2>1, <2>3 DEF Wake, Sets
  <2>6. packets' \in packets .. MaxPackets
    BY <2>5, PacketsGrow
  <2> QED
    BY <1>1, <2>2, <2>4, <2>5, <2>6, PlainHandler
<1> QED
  BY <1>2, <1>3

LEMMA ColumnStep == ASSUME IInv, NEW s \in Sessions, Column(s) PROVE IInv'
<1>1. PICK p \in Players(Known) : p = player[s]
  BY Typical
<1>2. World(s) \in Known
  <2>1. p.world \in Nat
    BY DEF Players
  <2> QED
    BY <1>1, <2>1 DEF World, Known
<1>3. PICK e : e = Event("ChunkUpdated", World(s))
  OBVIOUS
<1>4. e \in Events(Known) /\ Follows(e, p, p)
  BY <1>2, <1>3 DEF Event, Events, Follows
<1>5. player' = [player EXCEPT ![s] = p] /\ Report(s, <<e>>) /\ Handles(s)
  BY <1>1, <1>3 DEF Column, Sets
<1> QED
  BY <1>1, <1>4, <1>5, Counted, PlainHandler

LEMMA UpdateSignStep == ASSUME IInv, NEW s \in Sessions, UpdateSign(s) PROVE IInv'
<1>1. PICK p \in Players(Known) : p = player[s]
  BY Typical
<1>2. PICK x : x = World(s)
  OBVIOUS
<1>3. x \in Known
  <2>1. p.world \in Nat
    BY DEF Players
  <2> QED
    BY <1>1, <1>2, <2>1 DEF World, Known
<1>4. PICK q : q = [p EXCEPT !.signs = @ \cup {x}]
  OBVIOUS
<1>5. q \in Players(Known) /\ q.world = p.world /\ q.dead = p.dead /\ q.terrain = p.terrain
  BY <1>3, <1>4 DEF Players
<1>6. PICK e : e = Event("SignTextChanged", x)
  OBVIOUS
<1>7. e \in Events(Known) /\ Follows(e, p, q)
  BY <1>3, <1>5, <1>6 DEF Event, Events, Follows
<1>8. player' = [player EXCEPT ![s] = q] /\ Report(s, <<e>>) /\ Handles(s)
  BY <1>1, <1>2, <1>4, <1>6 DEF UpdateSign, Sets
<1> QED
  BY <1>1, <1>5, <1>7, <1>8, Counted, PlainHandler

LEMMA ServerScreenStep == ASSUME IInv, NEW s \in Sessions, ServerScreen(s) PROVE IInv'
<1>1. PICK p \in Players(Known) : p = player[s]
  BY Typical
<1>2. PICK kind \in {"WindowOpened", "WindowClosed"} : Report(s, <<Plain(kind)>>)
  BY DEF ServerScreen
<1>3. PICK e : e = Plain(kind)
  OBVIOUS
<1>4. e \in Events(Known) /\ Follows(e, p, p)
  BY <1>3, PlainEvent DEF Follows
<1>5. player' = [player EXCEPT ![s] = p] /\ Report(s, <<e>>) /\ Handles(s)
  BY <1>1, <1>2, <1>3 DEF ServerScreen, Sets
<1> QED
  BY <1>1, <1>4, <1>5, Counted, PlainHandler

LEMMA TeleportStep == ASSUME IInv, NEW s \in Sessions, Teleport(s) PROVE IInv'
<1>1. PICK p \in Players(Known) : p = player[s]
  BY Typical
<1>2. PICK q : q = [p EXCEPT !.terrain = FALSE]
  OBVIOUS
<1>3. q \in Players(Known) /\ q.world = p.world /\ q.dead = p.dead
  BY <1>2 DEF Players
<1>4. player' = [player EXCEPT ![s] = q] /\ Handles(s)
  BY <1>1, <1>2 DEF Teleport, Sets
<1>5. CASE p.terrain
  <2>1. PICK e : e = Plain("TerrainReady")
    OBVIOUS
  <2>2. e \in Events(Known) /\ Follows(e, p, q)
    BY <1>3, <2>1, PlainEvent DEF Follows
  <2>3. Report(s, <<e>>)
    BY <1>1, <1>5, <2>1 DEF Teleport
  <2> QED
    BY <1>1, <1>3, <1>4, <2>2, <2>3, Counted, PlainHandler
<1>6. CASE ~p.terrain
  <2>1. q = p
    BY <1>2, <1>6 DEF Players
  <2>2. channel' = channel
    <3>1. Report(s, <<>>) /\ channel \in [Sessions -> Seq(Events(Known))]
      BY <1>1, <1>6 DEF Teleport, IInv, TypeOK
    <3>2. ASSUME NEW es \in Seq(Events(Known)) PROVE es \o <<>> = es
      OBVIOUS
    <3>3. channel[s] \o <<>> = channel[s]
      BY <3>1, <3>2
    <3> QED
      BY <3>1, <3>3 DEF Report
  <2>3. p.world \in Nat /\ p.world <= p.world
    BY DEF Players
  <2>4. player' = [player EXCEPT ![s] = p] /\ Known \subseteq Known'
    BY <1>1, <1>4, <2>1, <2>3, HandlerTypes
  <2>5. PICK known : known = Known'
    OBVIOUS
  <2>6. Carried(s, known, p)
    BY <1>1, <2>2, <2>4, <2>5, Silent
  <2>7. p \in [world : Nat, signs : SUBSET known, dead : BOOLEAN, asleep : BOOLEAN,
               terrain : BOOLEAN]
    BY <2>3, <2>4, <2>5 DEF Players
  <2>8. /\ packets' \in packets .. MaxPackets /\ Plays(s)
        /\ p.world \in player[s].world .. player[s].world + (packets' - packets)
    <3>1. Plays(s) /\ packets' \in packets .. MaxPackets /\ packets' - packets = 1
      BY <1>4, Counted
    <3> QED
      BY <1>1, <2>3, <3>1
  <2> QED
    BY <2>4, <2>5, <2>6, <2>7, <2>8, HandlerStep
<1> QED
  BY <1>5, <1>6 DEF Players

LEMMA JoinGameStep == ASSUME IInv, NEW s \in Sessions, JoinGame(s) PROVE IInv'
<1>1. PICK p \in Players(Known) : p = player[s]
  BY Typical
<1>2. PICK q : q = [p EXCEPT !.world = @ + 1, !.terrain = TRUE]
  OBVIOUS
<1>3. p.world \in Nat /\ q.world = p.world + 1 /\ q.dead = p.dead /\ q.terrain
  BY <1>2 DEF Players
<1>4. player' = [player EXCEPT ![s] = q] /\ Handles(s)
  BY <1>1, <1>2 DEF JoinGame, Sets
<1>5. q.world \in Nat /\ p.world <= q.world
  BY <1>3
<1>6. PICK known : known = Known'
  OBVIOUS
<1>7. Known \subseteq known /\ p.signs \subseteq known
  BY <1>1, <1>4, <1>5, <1>6, HandlerTypes
<1>8. /\ packets' \in packets .. MaxPackets /\ Plays(s)
      /\ q.world \in p.world .. p.world + (packets' - packets)
      /\ q.world \in 0 .. MaxPackets
  <2>1. Plays(s) /\ packets' \in packets .. MaxPackets /\ packets' - packets = 1
    BY <1>4, Counted
  <2>2. packets \in Nat /\ packets < MaxPackets /\ MaxPackets \in Nat /\ p.world <= packets
    BY <1>1, <1>4, BoundsAssumption DEF Handles, IInv, TypeOK
  <2>3. ASSUME NEW m \in Nat, NEW n \in Nat, NEW top \in Nat, n < top, m <= n,
               NEW k \in n .. top, k - n = 1
        PROVE  m + 1 \in m .. m + (k - n) /\ m + 1 \in 0 .. top
    BY <2>3
  <2> QED
    BY <1>3, <2>1, <2>2, <2>3
<1>9. q \in Players(known) /\ q \in [world : Nat, signs : SUBSET known, dead : BOOLEAN,
                                     asleep : BOOLEAN, terrain : BOOLEAN]
  BY <1>2, <1>5, <1>7, <1>8 DEF Players
<1>10. PICK e : e = Plain("Joined")
  OBVIOUS
<1>11. e \in Events(known) /\ Follows(e, p, q)
  BY <1>3, <1>10, PlainEvent DEF Follows
<1>12. Report(s, <<e>>)
  BY <1>10 DEF JoinGame
<1>13. Carried(s, known, q)
  BY <1>1, <1>7, <1>9, <1>11, <1>12, OneEvent
<1> QED
  BY <1>1, <1>4, <1>6, <1>8, <1>9, <1>13, HandlerStep

\* The signs clear, the world starts over, and the fresh player is alive.
LEMMA RespawnElsewhereStep ==
  ASSUME IInv, NEW s \in Sessions, RespawnElsewhere(s) PROVE IInv'
<1>1. PICK p \in Players(Known) : p = player[s]
  BY Typical
<1>2. PICK q : q = [Awake(p) EXCEPT !.world = @ + 1, !.signs = {}, !.terrain = TRUE]
  OBVIOUS
<1>3. p.world \in Nat /\ q.world = p.world + 1 /\ ~q.dead /\ q.terrain
  BY <1>2 DEF Players, Awake
<1>4. player' = [player EXCEPT ![s] = q] /\ Handles(s)
  BY <1>1, <1>2 DEF RespawnElsewhere, Sets
<1>5. q.world \in Nat /\ p.world <= q.world
  BY <1>3
<1>6. PICK known : known = Known'
  OBVIOUS
<1>7. Known \subseteq known /\ p.signs \subseteq known
  BY <1>1, <1>4, <1>5, <1>6, HandlerTypes
<1>8. /\ packets' \in packets .. MaxPackets /\ Plays(s)
      /\ q.world \in p.world .. p.world + (packets' - packets)
      /\ q.world \in 0 .. MaxPackets
  <2>1. Plays(s) /\ packets' \in packets .. MaxPackets /\ packets' - packets = 1
    BY <1>4, Counted
  <2>2. packets \in Nat /\ packets < MaxPackets /\ MaxPackets \in Nat /\ p.world <= packets
    BY <1>1, <1>4, BoundsAssumption DEF Handles, IInv, TypeOK
  <2>3. ASSUME NEW m \in Nat, NEW n \in Nat, NEW top \in Nat, n < top, m <= n,
               NEW k \in n .. top, k - n = 1
        PROVE  m + 1 \in m .. m + (k - n) /\ m + 1 \in 0 .. top
    BY <2>3
  <2> QED
    BY <1>3, <2>1, <2>2, <2>3
<1>9. q \in Players(known) /\ q \in [world : Nat, signs : SUBSET known, dead : BOOLEAN,
                                     asleep : BOOLEAN, terrain : BOOLEAN]
  BY <1>2, <1>5, <1>8 DEF Players, Awake
<1>10. PICK p2 : p2 = [p EXCEPT !.terrain = TRUE]
  OBVIOUS
<1>11. p \in Players(known) /\ p2 \in Players(known) /\ p2.dead = p.dead /\ p2.terrain
  <2>1. p \in Players(known)
    BY <1>7, Grown
  <2> QED
    BY <1>10, <2>1 DEF Players
<1>12. PICK e1, e2, e3 : /\ e1 = Event("SignsCleared", p.signs)
                         /\ e2 = Plain("WorldCleared") /\ e3 = Plain("Respawned")
  OBVIOUS
<1>13. e1 \in Events(known) /\ e1.kind = "SignsCleared"
  BY <1>7, <1>12 DEF Event, Events
<1>14. /\ e2 \in Events(known) /\ e2.kind = "WorldCleared"
       /\ e3 \in Events(known) /\ e3.kind = "Respawned"
  BY <1>12, PlainEvent
<1>15. Follows(e1, p, p) /\ Follows(e2, p, p2) /\ Follows(e3, p2, q)
  BY <1>3, <1>11, <1>13, <1>14 DEF Follows
<1>16. Report(s, <<e1, e2, e3>>)
  BY <1>1, <1>12 DEF RespawnElsewhere
<1>17. Carried(s, known, q)
  BY <1>1, <1>7, <1>9, <1>11, <1>13, <1>14, <1>15, <1>16, ThreeEvents
<1> QED
  BY <1>1, <1>4, <1>6, <1>8, <1>9, <1>17, HandlerStep

LEMMA TickStep == ASSUME IInv, NEW s \in Sessions, Tick(s) PROVE IInv'
<1>1. PICK p \in Players(Known) : p = player[s]
  BY Typical
<1>2. PICK e : e = Plain("PlayerTick")
  OBVIOUS
<1>3. e \in Events(Known) /\ Follows(e, p, p) /\ Report(s, <<e>>)
  BY <1>2, PlainEvent DEF Follows, Tick
<1>4. Carried(s, Known, player[s])
  BY <1>1, <1>3, OneEvent, Typical
<1>5. thread[s] = "play" /\ thread' = [thread EXCEPT ![s] = "play"]
  BY Typical DEF Tick
<1> QED
  BY <1>4, <1>5, ThreadStep, Typical DEF Tick, ThreadOnly, Threads

LEMMA HandlersStep == ASSUME IInv, NEW s \in Sessions, Handler(s) PROVE IInv'
<1>1. JoinGame(s) => IInv'
  BY JoinGameStep
<1>2. Death(s) => IInv'
  BY DeathStep
<1>3. Respawn(s) => IInv'
  BY RespawnStep
<1>4. RespawnElsewhere(s) => IInv'
  BY RespawnElsewhereStep
<1>5. Teleport(s) => IInv'
  BY TeleportStep
<1>6. UseBed(s) \/ Wake(s) => IInv'
  BY SleepStep
<1>7. Column(s) => IInv'
  BY ColumnStep
<1>8. UpdateSign(s) => IInv'
  BY UpdateSignStep
<1>9. ServerScreen(s) => IInv'
  BY ServerScreenStep
<1> QED
  BY <1>1, <1>2, <1>3, <1>4, <1>5, <1>6, <1>7, <1>8, <1>9 DEF Handler

-----------------------------------------------------------------------------
(* The window's steps.                                                     *)

\* The window changes, and with it perhaps the link; no session does.
LEMMA WindowStep ==
  ASSUME IInv, UNCHANGED <<verdict, player, told, packets>>,
         window' \in Windows(Known), window'.notice = NoReason, body' \in Reasons,
         link' \in Sessions \cup {NoSession},
         thread' \in [Sessions -> Threads], \A t \in Sessions : thread'[t] = "none" => thread[t] = "none",
         channel' \in [Sessions -> Seq(Events(Known))],
         \A t \in Sessions : link' # t => channel'[t] = <<>>,
         link' = NoSession <=> window'.screen \in Idle,
         link' = NoSession => ~window'.dead,
         link' # NoSession => Fits(Folded(window', channel'[link']), player[link'])
  PROVE  IInv'
<1>1. Known' = Known
  BY DEF Known
<1>2. TypeOK'
  BY <1>1 DEF IInv, TypeOK, Threads
<1>3. ScreensMatchLink'
  BY DEF ScreensMatchLink, Idle
<1> QED
  BY <1>2, <1>3 DEF IInv

LEMMA FrameStep == ASSUME IInv, Frame PROVE IInv'
<1>1. link \in Sessions /\ link # NoSession
  BY DEF IInv, TypeOK, Frame
<1>2. PICK w : w = Folded(window, channel[link])
  OBVIOUS
<1>3. window \in Windows(Known) /\ channel \in [Sessions -> Seq(Events(Known))]
      /\ \A t \in Sessions : link # t => channel[t] = <<>>
  BY DEF IInv, TypeOK
<1>4. window.screen \notin Idle
  BY <1>1 DEF IInv, ScreensMatchLink, Idle
<1>5. w \in Windows(Known) /\ w.screen \notin Idle
  <2>1. PICK events \in Seq(Events(Known)) : events = channel[link]
    BY <1>1, <1>3
  <2> QED
    BY <1>2, <1>3, <1>4, <2>1, FoldedType
<1>6. Fits(w, player[link])
  BY <1>1, <1>2 DEF IInv
<1>7. /\ channel' \in [Sessions -> Seq(Events(Known))]
      /\ \A t \in Sessions : channel'[t] = <<>>
  <2>1. <<>> \in Seq(Events(Known))
    OBVIOUS
  <2>2. channel' = [channel EXCEPT ![link] = <<>>]
    BY DEF Frame
  <2> QED
    BY <1>1, <1>3, <2>1, <2>2
<1>8. thread' \in [Sessions -> Threads] /\ \A t \in Sessions : thread'[t] = "none" => thread[t] = "none"
  BY Typical DEF Frame
<1>9. UNCHANGED <<verdict, player, told, packets>>
  BY DEF Frame
<1>10. CASE w.notice # NoReason
  <2>1. window' = Ended(w) /\ body' = w.notice /\ link' = NoSession
    BY <1>2, <1>10 DEF Frame
  <2>2. Ended(w) \in Windows(Known) /\ Ended(w).notice = NoReason
        /\ Ended(w).screen = "disconnected" /\ ~Ended(w).dead
    <3>1. Waking \in Sleeps
      BY BoundsAssumption DEF Waking, Sleeps
    <3> QED
      BY <1>5, <3>1 DEF Ended, Windows, Screens, Reasons
  <2>3. w.notice \in Reasons
    BY <1>5 DEF Windows
  <2>4. "disconnected" \in Idle
    BY DEF Idle
  <2> QED
    BY <1>7, <1>8, <1>9, <2>1, <2>2, <2>3, <2>4, WindowStep
<1>11. CASE w.notice = NoReason
  <2>1. window' = w /\ body' = body /\ link' = link
    BY <1>2, <1>11 DEF Frame
  <2>2. body \in Reasons
    BY DEF IInv, TypeOK
  <2>3. Folded(w, channel'[link]) = w
    BY <1>1, <1>7, FoldedEmpty
  <2> QED
    BY <1>1, <1>5, <1>6, <1>7, <1>8, <1>9, <1>11, <2>1, <2>2, <2>3, WindowStep
<1> QED
  BY <1>10, <1>11

\* The window stands another screen of the title's or leaves the game for one.
LEMMA IdleStep ==
  ASSUME IInv, NEW screen \in Idle, ServerList \/ LeaveServerList,
         window' = [window EXCEPT !.screen = screen]
  PROVE  IInv'
<1>1. link' = link /\ channel' = channel /\ thread' = thread /\ body' = body
      /\ UNCHANGED <<verdict, player, told, packets>>
  BY DEF ServerList, LeaveServerList, WindowOnly
<1>2. link = NoSession /\ ~window.dead
  BY DEF IInv, ScreensMatchLink, ServerList, LeaveServerList
<1>3. window \in Windows(Known) /\ window.notice = NoReason /\ body \in Reasons
      /\ channel \in [Sessions -> Seq(Events(Known))]
      /\ \A t \in Sessions : link # t => channel[t] = <<>>
  BY DEF IInv, TypeOK
<1>4. window' \in Windows(Known) /\ window'.notice = NoReason /\ ~window'.dead
      /\ window'.screen = screen
  BY <1>2, <1>3 DEF Windows, Screens, Idle
<1> QED
  BY <1>1, <1>2, <1>3, <1>4, WindowStep, Typical

LEMMA JoinServerStep == ASSUME IInv, NEW s \in Sessions, JoinServer(s) PROVE IInv'
<1>1. link = NoSession /\ ~window.dead
  BY DEF IInv, ScreensMatchLink, JoinServer
<1>2. window \in Windows(Known) /\ window.notice = NoReason /\ body \in Reasons
      /\ channel \in [Sessions -> Seq(Events(Known))]
      /\ \A t \in Sessions : link # t => channel[t] = <<>>
  BY DEF IInv, TypeOK
<1>3. s # NoSession
  BY DEF Sessions, NoSession
<1>4. \A t \in Sessions : channel[t] = <<>>
  BY <1>1, <1>2 DEF Sessions, NoSession
<1>5. /\ link' = s /\ channel' = channel /\ body' = body
      /\ UNCHANGED <<verdict, player, told, packets>>
      /\ window' = [window EXCEPT !.screen = "game"]
  BY DEF JoinServer, Shows
<1>6. window' \in Windows(Known) /\ window'.notice = NoReason /\ ~window'.dead
      /\ window'.screen = "game"
  BY <1>1, <1>2, <1>5 DEF Windows, Screens
<1>7. thread' \in [Sessions -> Threads] /\ \A t \in Sessions : thread'[t] = "none" => thread[t] = "none"
  BY Typical DEF JoinServer, Threads
<1>8. Fits(Folded(window', channel'[s]), player[s])
  <2>1. player[s] = NewPlayer
    BY DEF IInv, JoinServer
  <2>2. Folded(window', channel'[s]) = window'
    BY <1>4, <1>5, FoldedEmpty
  <2>3. Fits(window', NewPlayer)
    BY <1>2, <1>6 DEF Fits, NewPlayer, Windows
  <2> QED
    BY <2>1, <2>2, <2>3
<1>9. "game" \notin Idle
  BY DEF Idle
<1> QED
  BY <1>2, <1>3, <1>4, <1>5, <1>6, <1>7, <1>8, <1>9, WindowStep

LEMMA EscapeStep == ASSUME IInv, Escape PROVE IInv'
<1>1. link # NoSession /\ link \in Sessions
  BY DEF IInv, TypeOK, Escape
<1>2. PICK screen \in {"pause", "game"} : window' = [window EXCEPT !.screen = screen]
  BY DEF Escape, Shows
<1>3. window.screen \in {"game", "pause", "window"}
  BY DEF Escape
<1>4. /\ link' = link /\ channel' = channel /\ thread' = thread /\ body' = body
      /\ UNCHANGED <<verdict, player, told, packets>>
  BY DEF Escape, WindowOnly
<1>5. window \in Windows(Known) /\ window.notice = NoReason /\ body \in Reasons
      /\ channel \in [Sessions -> Seq(Events(Known))]
      /\ \A t \in Sessions : link # t => channel[t] = <<>>
  BY DEF IInv, TypeOK
<1>6. PICK w : w = window'
  OBVIOUS
<1>7. w \in Windows(Known) /\ w.notice = NoReason /\ w.screen \notin Idle /\ Like(window, w)
  BY <1>2, <1>3, <1>5, <1>6 DEF Windows, Screens, Idle, Like
<1>8. PICK events \in Seq(Events(Known)) : events = channel[link]
  BY <1>1, <1>5
<1>9. Fits(Folded(w, events), player[link])
  <2>1. Fits(Folded(window, events), player[link])
    BY <1>1, <1>8 DEF IInv
  <2>2. Like(Folded(window, events), Folded(w, events))
    BY <1>5, <1>7, FoldedKeeps
  <2> QED
    BY <2>1, <2>2 DEF Like, Fits
<1> QED
  BY <1>1, <1>4, <1>5, <1>6, <1>7, <1>8, <1>9, WindowStep, Typical

LEMMA QuitStep == ASSUME IInv, Quit PROVE IInv'
<1>1. link # NoSession /\ link \in Sessions
  BY DEF IInv, TypeOK, Quit
<1>2. window \in Windows(Known) /\ window.notice = NoReason /\ body \in Reasons
      /\ channel \in [Sessions -> Seq(Events(Known))]
      /\ \A t \in Sessions : link # t => channel[t] = <<>>
  BY DEF IInv, TypeOK
<1>3. /\ link' = NoSession /\ channel' = [channel EXCEPT ![link] = <<>>]
      /\ thread' = thread /\ body' = body /\ UNCHANGED <<verdict, player, told, packets>>
      /\ window' = [window EXCEPT !.screen = "menu", !.dead = FALSE]
  BY DEF Quit
<1>4. window' \in Windows(Known) /\ window'.notice = NoReason /\ ~window'.dead
      /\ window'.screen \in Idle
  BY <1>2, <1>3 DEF Windows, Screens, Idle
<1>5. /\ channel' \in [Sessions -> Seq(Events(Known))]
      /\ \A t \in Sessions : channel'[t] = <<>>
  <2>1. <<>> \in Seq(Events(Known))
    OBVIOUS
  <2> QED
    BY <1>1, <1>2, <1>3, <2>1
<1> QED
  BY <1>2, <1>3, <1>4, <1>5, WindowStep, Typical

-----------------------------------------------------------------------------
LEMMA InitInv == Init => IInv
<1> SUFFICES ASSUME Init PROVE IInv
  OBVIOUS
<1>1. window \in Windows(Known) /\ window.notice = NoReason
  BY BoundsAssumption DEF Init, NewWindow, Windows, Screens, Sleeps, Waking, Reasons, NoReason
<1>2. NewPlayer \in Players(Known) /\ NewPlayer.world = 0
  BY BoundsAssumption DEF NewPlayer, Players
<1>3. <<>> \in Seq(Events(Known))
  OBVIOUS
<1>4. TypeOK
  <2>1. link \in Sessions \cup {NoSession} /\ body \in Reasons
    BY DEF Init, Reasons
  <2>2. thread \in [Sessions -> Threads] /\ told \in [Sessions -> Reasons]
    BY DEF Init, Threads, Reasons
  <2>3. verdict \in [Sessions -> Reasons \ {NoReason}]
    BY DEF Init, Reasons, Generic, NoReason
  <2>4. player \in [Sessions -> Players(Known)]
    BY <1>2 DEF Init
  <2>5. channel \in [Sessions -> Seq(Events(Known))] /\ \A s \in Sessions : channel[s] = <<>>
    BY <1>3 DEF Init
  <2>6. packets \in 0 .. MaxPackets /\ \A s \in Sessions : player[s].world <= packets
    BY <1>2, BoundsAssumption DEF Init
  <2> QED
    BY <1>1, <2>1, <2>2, <2>3, <2>4, <2>5, <2>6 DEF TypeOK, Threads
<1>5. ScreensMatchLink /\ ~window.dead
  BY DEF Init, NewWindow, ScreensMatchLink
<1> QED
  BY <1>4, <1>5 DEF Init, IInv

LEMMA UserStep == ASSUME IInv, User PROVE IInv'
<1>1. ServerList => IInv'
  BY IdleStep DEF ServerList, Shows, Idle
<1>2. LeaveServerList => IInv'
  BY IdleStep DEF LeaveServerList, Shows, Idle
<1>3. (\E s \in Sessions : JoinServer(s)) => IInv'
  BY JoinServerStep
<1>4. Escape => IInv'
  BY EscapeStep
<1>5. Quit => IInv'
  BY QuitStep
<1> QED
  BY <1>1, <1>2, <1>3, <1>4, <1>5 DEF User

LEMMA NextInv == IInv /\ [Next]_vars => IInv'
<1> SUFFICES ASSUME IInv, [Next]_vars PROVE IInv'
  OBVIOUS
<1>1. ASSUME NEW s \in Sessions,
             Connect(s) \/ LoginSuccess(s) \/ Handler(s) \/ Tick(s) \/ Ending(s) \/ LastWord(s)
      PROVE  IInv'
  <2>1. Connect(s) => IInv'
    BY ConnectStep
  <2>2. LoginSuccess(s) => IInv'
    BY LoginSuccessStep
  <2>3. Handler(s) => IInv'
    BY HandlersStep
  <2>4. Tick(s) => IInv'
    BY TickStep
  <2>5. Ending(s) => IInv'
    BY EndingStep
  <2>6. LastWord(s) => IInv'
    BY LastWordStep
  <2> QED
    BY <1>1, <2>1, <2>2, <2>3, <2>4, <2>5, <2>6
<1>2. Frame => IInv'
  BY FrameStep
<1>3. User => IInv'
  BY UserStep
<1>4. CASE UNCHANGED vars
  <2>1. Known' = Known
    BY <1>4 DEF vars, Known
  <2>2. TypeOK'
    BY <1>4, <2>1 DEF vars, IInv, TypeOK
  <2> QED
    BY <1>4, <2>2 DEF vars, IInv, ScreensMatchLink
<1> QED
  BY <1>1, <1>2, <1>3, <1>4 DEF Next

\* The inductive invariant holds for any number of servers and packets: the
\* state is typed, the channels of the sessions that were left are empty, and
\* the events on their way lead the window to what its session is.
THEOREM Invariance == Spec => []IInv
<1> QED
  BY InitInv, NextInv, PTL DEF Spec

\* The window stands on a screen of the title's exactly while it has no
\* session: no event folded late, no end and no press leaves it on a screen of
\* a session that is gone, or on the menu with one that is not.
THEOREM ScreensFollowTheLink == Spec => []ScreensMatchLink
<1>1. IInv => ScreensMatchLink
  BY DEF IInv
<1> QED
  BY <1>1, Invariance, PTL

\* A window with nothing left to fold agrees with its session on the player's
\* death, and waits on the terrain screen only with it, whatever ends, quits
\* and joins came before.
THEOREM CopiesDoAgree == Spec => []CopiesAgree
<1>1. IInv => CopiesAgree
  <2> SUFFICES ASSUME IInv, Drained
               PROVE  window.dead = player[link].dead
                      /\ (window.screen = "terrain" => player[link].terrain)
    BY DEF CopiesAgree
  <2>1. Folded(window, channel[link]) = window /\ link # NoSession
    BY FoldedEmpty DEF Drained, Playing
  <2> QED
    BY <2>1 DEF IInv, Fits
<1> QED
  BY <1>1, Invariance, PTL

-----------------------------------------------------------------------------
(* The player: the invariant.                                              *)

\* None of the packets is in C; the last of those in C is in V.
Lacks(s, C) == \A i \in DOMAIN s : s[i] \notin C

EndsIn(s, C, V) ==
  \E i \in DOMAIN s : s[i] \in C \cap V /\ \A j \in DOMAIN s : j > i => s[j] \notin C

\* With the packets read, what the last one in C says holds, or what held.
Comes(s, C, V, now) == (Lacks(s, C) /\ now) \/ EndsIn(s, C, V)

OfKind(kind) == {m \in ServerPackets \cup ClientPackets : m.kind = kind}

EdgesOf(f) == {m \in OfKind("edge") : m.flag = f}

\* The lives that the packets to the session take it through.
IsChain(f, s, first, last) ==
  /\ f \in [0 .. Len(s) -> Nat] /\ f[0] = first /\ f[Len(s)] = last
  /\ \A i \in 1 .. Len(s) : f[i] = f[i - 1] + IF s[i].kind = "respawn" THEN 1 ELSE 0

LivesAgree == \E f : IsChain(f, toClient, client.life, server.life)

\* A respawn has its placement right behind.
Paired(s) ==
  \A i \in DOMAIN s :
    s[i].kind = "respawn" => i + 1 \in DOMAIN s /\ s[i + 1].kind = "position"

\* An edge is of a life the session has had; a life the session does not know
\* of has heard of no flag; while both are of one life, what the server will
\* have heard is what it was told.
MirrorsAgree ==
  /\ Lacks(toServer, {m \in OfKind("edge") : m.life > client.life})
  /\ "flags" \notin crossed /\ client.life < server.life => server.flags = Unset
  /\ /\ "flags" \notin crossed /\ "join" \notin crossed
     /\ client.life = server.life /\ ~client.dead
     /\ Lacks(toServer, {m \in OfKind("edge") : m.life # client.life})
     => \A f \in Flags :
          Comes(toServer, EdgesOf(f), {m \in EdgesOf(f) : m.on = client.told[f]},
                server.flags[f] = client.told[f])

\* A session with no placement to read has reported about where it is, and the
\* server will have it there unless a placement is open.
PosesAgree ==
  /\ client.awaiting => ~Lacks(toClient, OfKind("position"))
  /\ Lacks(toClient, OfKind("position"))
       => /\ Near(client.reported, client.at)
          /\ Comes(toServer, OfKind("move"), {m \in OfKind("move") : m.at = client.reported},
                   server.pending = {} => server.at = client.reported)

\* The slots that are on their way are all of one end, or two decisions crossed.
SlotsAgree ==
  "slot" \notin crossed =>
    \/ /\ Lacks(toClient, OfKind("slot"))
       /\ Comes(toServer, OfKind("slot"), {m \in OfKind("slot") : m.slot = client.slot},
                server.slot = client.slot)
    \/ /\ Lacks(toServer, OfKind("slot"))
       /\ Comes(toClient, OfKind("slot"), {m \in OfKind("slot") : m.slot = server.slot},
                server.slot = client.slot)

\* So it is with the flight, which the server only takes of one it allows.
FlightsAgree ==
  /\ Comes(toClient, OfKind("abilities"), {m \in OfKind("abilities") : m.allowed = server.allowed},
           client.allowed = server.allowed)
  /\ "flying" \notin crossed =>
       \/ /\ Lacks(toClient, OfKind("abilities"))
          /\ Comes(toServer, OfKind("fly"),
                   {m \in OfKind("fly") : m.on = client.flying /\ (m.on => server.allowed)},
                   server.flying = client.flying)
       \/ /\ Lacks(toServer, OfKind("fly"))
          /\ Comes(toClient, OfKind("abilities"),
                   {m \in OfKind("abilities") : m.flying = server.flying},
                   server.flying = client.flying)

PlayInv ==
  /\ PlayTypeOK /\ LivesAgree /\ Paired(toClient)
  /\ MirrorsAgree /\ PosesAgree /\ SlotsAgree /\ FlightsAgree

-----------------------------------------------------------------------------
(* The player: packets.                                                    *)

LEMMA ConcatIs ==
  ASSUME NEW S, NEW a \in Seq(S), NEW b \in Seq(S)
  PROVE  /\ a \o b \in Seq(S) /\ DOMAIN (a \o b) = 1 .. Len(a) + Len(b)
         /\ DOMAIN a = 1 .. Len(a) /\ DOMAIN b = 1 .. Len(b)
         /\ Len(a) \in Nat /\ Len(b) \in Nat /\ Len(a \o b) = Len(a) + Len(b)
         /\ \A i \in 1 .. Len(a) : (a \o b)[i] = a[i]
         /\ \A i \in 1 .. Len(b) : (a \o b)[Len(a) + i] = b[i]
OBVIOUS

LEMMA Concat ==
  ASSUME NEW S, NEW a \in Seq(S), NEW b \in Seq(S), NEW C
  PROVE  /\ Lacks(a \o b, C) <=> Lacks(a, C) /\ Lacks(b, C)
         /\ \A V : EndsIn(b, C, V) => EndsIn(a \o b, C, V)
         /\ \A V : Lacks(b, C) /\ EndsIn(a, C, V) => EndsIn(a \o b, C, V)
<1>a. PICK more : more = a \o b
  OBVIOUS
<1>b. PICK m \in Nat, n \in Nat : m = Len(a) /\ n = Len(b)
  BY ConcatIs
<1>1. /\ DOMAIN more = 1 .. m + n /\ DOMAIN a = 1 .. m /\ DOMAIN b = 1 .. n
      /\ \A i \in 1 .. m : more[i] = a[i]
      /\ \A i \in 1 .. n : more[m + i] = b[i]
  BY <1>a, <1>b, ConcatIs
<1>2. /\ \A i \in 1 .. m : i \in 1 .. m + n
      /\ \A i \in 1 .. n : m + i \in 1 .. m + n
      /\ \A j \in 1 .. m + n : j \in 1 .. m \/ (j > m /\ j - m \in 1 .. n /\ m + (j - m) = j)
  OBVIOUS
<1>3. Lacks(more, C) <=> Lacks(a, C) /\ Lacks(b, C)
  <2>1. ASSUME Lacks(more, C) PROVE Lacks(a, C) /\ Lacks(b, C)
    BY <1>1, <1>2, <2>1 DEF Lacks
  <2>2. ASSUME Lacks(a, C), Lacks(b, C), NEW j \in 1 .. m + n PROVE more[j] \notin C
    <3>1. CASE j \in 1 .. m
      BY <1>1, <2>2, <3>1 DEF Lacks
    <3>2. CASE j - m \in 1 .. n /\ m + (j - m) = j
      <4>1. more[j] = b[j - m]
        BY <1>1, <3>2
      <4> QED
        BY <1>1, <2>2, <3>2, <4>1 DEF Lacks
    <3> QED
      BY <1>2, <3>1, <3>2
  <2> QED
    BY <1>1, <2>1, <2>2 DEF Lacks
<1>4. ASSUME NEW V, EndsIn(b, C, V) PROVE EndsIn(more, C, V)
  <2>1. PICK i \in 1 .. n : b[i] \in C \cap V /\ \A j \in 1 .. n : j > i => b[j] \notin C
    BY <1>1, <1>4 DEF EndsIn
  <2>2. ASSUME NEW j \in 1 .. m + n, j > m + i PROVE more[j] \notin C
    <3>1. j > m /\ j - m > i
      BY <2>2
    <3>2. j - m \in 1 .. n /\ m + (j - m) = j
      BY <1>2, <3>1
    <3> QED
      BY <1>1, <2>1, <3>1, <3>2
  <2>3. more[m + i] \in C \cap V /\ m + i \in 1 .. m + n
    BY <1>1, <1>2, <2>1
  <2> QED
    BY <1>1, <2>2, <2>3 DEF EndsIn
<1>5. ASSUME NEW V, Lacks(b, C), EndsIn(a, C, V) PROVE EndsIn(more, C, V)
  <2>1. PICK i \in 1 .. m : a[i] \in C \cap V /\ \A j \in 1 .. m : j > i => a[j] \notin C
    BY <1>1, <1>5 DEF EndsIn
  <2>2. ASSUME NEW j \in 1 .. m + n, j > i PROVE more[j] \notin C
    <3>1. CASE j \in 1 .. m
      BY <1>1, <2>1, <2>2, <3>1
    <3>2. CASE j - m \in 1 .. n /\ m + (j - m) = j
      <4>1. more[j] = b[j - m]
        BY <1>1, <3>2
      <4> QED
        BY <1>1, <1>5, <3>2, <4>1 DEF Lacks
    <3> QED
      BY <1>2, <3>1, <3>2
  <2>3. more[i] \in C \cap V /\ i \in 1 .. m + n
    BY <1>1, <1>2, <2>1
  <2> QED
    BY <1>1, <2>2, <2>3 DEF EndsIn
<1> QED
  BY <1>a, <1>3, <1>4, <1>5

LEMMA TailIs ==
  ASSUME NEW S, NEW s \in Seq(S), s # <<>>
  PROVE  /\ Head(s) = s[1] /\ Head(s) \in S /\ Tail(s) \in Seq(S)
         /\ Len(s) \in Nat \ {0} /\ DOMAIN s = 1 .. Len(s)
         /\ DOMAIN Tail(s) = 1 .. Len(s) - 1 /\ Len(Tail(s)) = Len(s) - 1
         /\ \A i \in 1 .. Len(s) - 1 : Tail(s)[i] = s[i + 1]
OBVIOUS

LEMMA Behind ==
  ASSUME NEW S, NEW s \in Seq(S), s # <<>>, NEW C
  PROVE  /\ Lacks(s, C) <=> Head(s) \notin C /\ Lacks(Tail(s), C)
         /\ \A V : EndsIn(s, C, V)
              => (Lacks(Tail(s), C) /\ Head(s) \in C \cap V) \/ EndsIn(Tail(s), C, V)
<1>a. PICK rest : rest = Tail(s)
  OBVIOUS
<1>b. PICK n \in Nat \ {0} : n = Len(s)
  BY TailIs
<1>1. /\ DOMAIN s = 1 .. n /\ DOMAIN rest = 1 .. n - 1
      /\ Head(s) = s[1] /\ \A i \in 1 .. n - 1 : rest[i] = s[i + 1]
  BY <1>a, <1>b, TailIs
<1>2. /\ \A i \in 1 .. n : i = 1 \/ (i - 1 \in 1 .. n - 1 /\ (i - 1) + 1 = i)
      /\ \A i \in 1 .. n - 1 : i + 1 \in 1 .. n
      /\ 1 \in 1 .. n
  OBVIOUS
<1>3. Lacks(s, C) <=> Head(s) \notin C /\ Lacks(rest, C)
  <2>1. ASSUME Lacks(s, C) PROVE Head(s) \notin C /\ Lacks(rest, C)
    BY <1>1, <1>2, <2>1 DEF Lacks
  <2>2. ASSUME Head(s) \notin C, Lacks(rest, C), NEW i \in 1 .. n PROVE s[i] \notin C
    <3>1. CASE i = 1
      BY <1>1, <2>2, <3>1
    <3>2. CASE i - 1 \in 1 .. n - 1 /\ (i - 1) + 1 = i
      BY <1>1, <2>2, <3>2 DEF Lacks
    <3> QED
      BY <1>2, <3>1, <3>2
  <2> QED
    BY <1>1, <2>1, <2>2 DEF Lacks
<1>4. ASSUME NEW V, EndsIn(s, C, V)
      PROVE  (Lacks(rest, C) /\ Head(s) \in C \cap V) \/ EndsIn(rest, C, V)
  <2>1. PICK i \in 1 .. n : s[i] \in C \cap V /\ \A j \in 1 .. n : j > i => s[j] \notin C
    BY <1>1, <1>4 DEF EndsIn
  <2>2. CASE i = 1
    <3>1. ASSUME NEW j \in 1 .. n - 1 PROVE rest[j] \notin C
      <4>1. j + 1 \in 1 .. n /\ j + 1 > i
        BY <2>2
      <4> QED
        BY <1>1, <2>1, <4>1
    <3> QED
      BY <1>1, <2>1, <2>2, <3>1 DEF Lacks
  <2>3. CASE i - 1 \in 1 .. n - 1 /\ (i - 1) + 1 = i
    <3>1. ASSUME NEW j \in 1 .. n - 1, j > i - 1 PROVE rest[j] \notin C
      <4>1. j + 1 \in 1 .. n /\ j + 1 > i
        BY <3>1
      <4> QED
        BY <1>1, <2>1, <4>1
    <3>2. rest[i - 1] \in C \cap V
      BY <1>1, <2>1, <2>3
    <3> QED
      BY <1>1, <2>3, <3>1, <3>2 DEF EndsIn
  <2> QED
    BY <1>2, <2>2, <2>3
<1> QED
  BY <1>a, <1>3, <1>4

LEMMA Few ==
  /\ \A C : Lacks(<<>>, C)
  /\ \A x, C : x \notin C => Lacks(<<x>>, C)
  /\ \A x, C, V : x \in C \cap V => EndsIn(<<x>>, C, V)
  /\ \A x, y, C : x \notin C /\ y \notin C => Lacks(<<x, y>>, C)
<1>1. ASSUME NEW C PROVE Lacks(<<>>, C)
  BY DEF Lacks
<1>2. ASSUME NEW x, NEW C, x \notin C PROVE Lacks(<<x>>, C)
  BY <1>2 DEF Lacks
<1>3. ASSUME NEW x, NEW C, NEW V, x \in C \cap V PROVE EndsIn(<<x>>, C, V)
  <2>1. PICK s : s = <<x>>
    OBVIOUS
  <2>2. DOMAIN s = {1} /\ s[1] = x /\ ~(1 > 1)
    BY <2>1
  <2> QED
    BY <1>3, <2>1, <2>2 DEF EndsIn
<1>4. ASSUME NEW x, NEW y, NEW C, x \notin C, y \notin C PROVE Lacks(<<x, y>>, C)
  BY <1>4 DEF Lacks
<1> QED
  BY <1>1, <1>2, <1>3, <1>4

\* The two sequences are alike in the packets of a kind K.
Alike(s, t, K) ==
  \A C \in SUBSET K :
    /\ Lacks(s, C) <=> Lacks(t, C)
    /\ \A V : EndsIn(s, C, V) => EndsIn(t, C, V)

LEMMA AlikeIs ==
  ASSUME NEW S, NEW s \in Seq(S), NEW K
  PROVE  /\ Alike(s, s, K)
         /\ \A b \in Seq(S) : Lacks(b, K) => Alike(s, s \o b, K)
         /\ s # <<>> /\ Head(s) \notin K => Alike(s, Tail(s), K)
<1>1. Alike(s, s, K)
  BY DEF Alike
<1>2. ASSUME NEW b \in Seq(S), Lacks(b, K) PROVE Alike(s, s \o b, K)
  <2>1. ASSUME NEW C \in SUBSET K PROVE Lacks(b, C)
    BY <1>2 DEF Lacks
  <2> QED
    BY <2>1, Concat DEF Alike
<1>3. ASSUME s # <<>>, Head(s) \notin K PROVE Alike(s, Tail(s), K)
  <2>1. ASSUME NEW C \in SUBSET K PROVE Head(s) \notin C
    BY <1>3
  <2> QED
    BY <1>3, <2>1, Behind DEF Alike
<1> QED
  BY <1>1, <1>2, <1>3

-----------------------------------------------------------------------------
(* The player: lives.                                                      *)

LEMMA ChainOrders ==
  ASSUME NEW S, NEW s \in Seq(S), NEW f, NEW first, NEW last, IsChain(f, s, first, last)
  PROVE  /\ first \in Nat /\ last \in Nat /\ first <= last
         /\ (\A i \in DOMAIN s : s[i].kind # "respawn") => first = last
<1>1. PICK n \in Nat : n = Len(s)
  OBVIOUS
<1>2. DOMAIN s = 1 .. n
  BY <1>1
<1>3. /\ f \in [0 .. n -> Nat] /\ f[0] = first /\ f[n] = last
      /\ \A i \in 1 .. n : f[i] = f[i - 1] + IF s[i].kind = "respawn" THEN 1 ELSE 0
  BY <1>1 DEF IsChain
<1>4. first \in Nat /\ last \in Nat
  BY <1>3
<1> DEFINE Still == \A i \in 1 .. n : s[i].kind # "respawn"
           U == {k \in Nat : k <= n => f[0] <= f[k] /\ (Still => f[0] = f[k])}
<1>5. 0 \in U
  BY <1>3
<1>6. ASSUME NEW k \in Nat, k \in U PROVE k + 1 \in U
  <2>1. SUFFICES ASSUME k + 1 <= n PROVE f[0] <= f[k + 1] /\ (Still => f[0] = f[k + 1])
    OBVIOUS
  <2>2. k + 1 \in 1 .. n /\ (k + 1) - 1 = k /\ k \in 0 .. n /\ 0 \in 0 .. n
    BY <2>1
  <2>3. f[k + 1] = f[k] + IF s[k + 1].kind = "respawn" THEN 1 ELSE 0
    BY <1>3, <2>2
  <2>4. f[0] <= f[k] /\ (Still => f[0] = f[k])
    BY <1>6, <2>1
  <2>5. f[k] \in Nat /\ f[0] \in Nat
    BY <1>3, <2>2
  <2> QED
    BY <2>2, <2>3, <2>4, <2>5
<1>7. n \in U
  <2>1. Nat \subseteq U
    <3> HIDE DEF U
    <3> QED
      BY <1>5, <1>6, Induct
  <2> QED
    BY <2>1
<1>8. f[0] <= f[n] /\ (Still => f[0] = f[n])
  BY <1>7
<1> QED
  BY <1>2, <1>3, <1>4, <1>8

LEMMA ChainTail ==
  ASSUME NEW S, NEW s \in Seq(S), s # <<>>, NEW f, NEW first, NEW last,
         IsChain(f, s, first, last)
  PROVE  \E g : IsChain(g, Tail(s), first + IF Head(s).kind = "respawn" THEN 1 ELSE 0, last)
<1>1. PICK rest : rest = Tail(s)
  OBVIOUS
<1>2. PICK n \in Nat \ {0} : n = Len(s)
  BY TailIs
<1>3. Len(rest) = n - 1 /\ Head(s) = s[1] /\ \A i \in 1 .. n - 1 : rest[i] = s[i + 1]
  BY <1>1, <1>2, TailIs
<1>4. /\ f \in [0 .. n -> Nat] /\ f[0] = first /\ f[n] = last
      /\ \A i \in 1 .. n : f[i] = f[i - 1] + IF s[i].kind = "respawn" THEN 1 ELSE 0
  BY <1>2 DEF IsChain
<1>5. PICK g : g = [i \in 0 .. n - 1 |-> f[i + 1]]
  OBVIOUS
<1>6. g \in [0 .. n - 1 -> Nat] /\ g[n - 1] = last /\ g[0] = f[1]
  <2>1. /\ \A i \in 0 .. n - 1 : i + 1 \in 0 .. n
        /\ n - 1 \in 0 .. n - 1 /\ (n - 1) + 1 = n /\ 0 \in 0 .. n - 1
    OBVIOUS
  <2> QED
    BY <1>4, <1>5, <2>1
<1>7. g[0] = first + IF Head(s).kind = "respawn" THEN 1 ELSE 0
  <2>1. 1 \in 1 .. n /\ 1 - 1 = 0
    OBVIOUS
  <2> QED
    BY <1>3, <1>4, <1>6, <2>1
<1>8. ASSUME NEW i \in 1 .. n - 1
      PROVE  g[i] = g[i - 1] + IF rest[i].kind = "respawn" THEN 1 ELSE 0
  <2>1. /\ i \in 0 .. n - 1 /\ i - 1 \in 0 .. n - 1 /\ (i - 1) + 1 = i
        /\ i + 1 \in 1 .. n /\ (i + 1) - 1 = i
    OBVIOUS
  <2>2. g[i] = f[i + 1] /\ g[i - 1] = f[i]
    BY <1>5, <2>1
  <2> QED
    BY <1>3, <1>4, <2>1, <2>2
<1> QED
  BY <1>1, <1>3, <1>6, <1>7, <1>8 DEF IsChain

LEMMA ChainConcat ==
  ASSUME NEW S, NEW a \in Seq(S), NEW b \in Seq(S), NEW f, NEW g, NEW first, NEW mid,
         NEW last, IsChain(f, a, first, mid), IsChain(g, b, mid, last)
  PROVE  \E h : IsChain(h, a \o b, first, last)
<1>1. PICK more : more = a \o b
  OBVIOUS
<1>2. PICK m \in Nat, n \in Nat : m = Len(a) /\ n = Len(b)
  BY ConcatIs
<1>3. /\ Len(more) = m + n /\ \A i \in 1 .. m : more[i] = a[i]
      /\ \A i \in 1 .. n : more[m + i] = b[i]
  BY <1>1, <1>2, ConcatIs
<1>4. /\ f \in [0 .. m -> Nat] /\ f[0] = first /\ f[m] = mid
      /\ \A i \in 1 .. m : f[i] = f[i - 1] + IF a[i].kind = "respawn" THEN 1 ELSE 0
  BY <1>2 DEF IsChain
<1>5. /\ g \in [0 .. n -> Nat] /\ g[0] = mid /\ g[n] = last
      /\ \A i \in 1 .. n : g[i] = g[i - 1] + IF b[i].kind = "respawn" THEN 1 ELSE 0
  BY <1>2 DEF IsChain
<1>6. PICK h : h = [i \in 0 .. m + n |-> IF i <= m THEN f[i] ELSE g[i - m]]
  OBVIOUS
<1>7. /\ \A i \in 0 .. m : h[i] = f[i]
      /\ \A i \in 0 .. n : h[m + i] = g[i]
  <2>1. ASSUME NEW i \in 0 .. m PROVE h[i] = f[i]
    BY <1>6
  <2>2. ASSUME NEW i \in 0 .. n PROVE h[m + i] = g[i]
    <3>1. m + i \in 0 .. m + n /\ (m + i) - m = i /\ (m + i <= m <=> i = 0) /\ m + 0 = m
      OBVIOUS
    <3>2. CASE i = 0
      BY <1>4, <1>5, <1>6, <3>1, <3>2
    <3>3. CASE i # 0
      BY <1>6, <3>1, <3>3
    <3> QED
      BY <3>2, <3>3
  <2> QED
    BY <2>1, <2>2
<1>8. /\ \A i \in 0 .. m + n : i \in 0 .. m \/ (i - m \in 0 .. n /\ m + (i - m) = i)
      /\ 0 \in 0 .. m /\ n \in 0 .. n
  OBVIOUS
<1>9. h \in [0 .. m + n -> Nat] /\ h[0] = first /\ h[m + n] = last
  <2>1. ASSUME NEW i \in 0 .. m + n PROVE h[i] \in Nat
    <3>1. CASE i \in 0 .. m
      BY <1>4, <1>7, <3>1
    <3>2. CASE i - m \in 0 .. n /\ m + (i - m) = i
      <4>1. h[i] = g[i - m]
        BY <1>7, <3>2
      <4> QED
        BY <1>5, <3>2, <4>1
    <3> QED
      BY <1>8, <3>1, <3>2
  <2> QED
    BY <1>4, <1>5, <1>6, <1>7, <1>8, <2>1
<1>10. ASSUME NEW i \in 1 .. m + n
       PROVE  h[i] = h[i - 1] + IF more[i].kind = "respawn" THEN 1 ELSE 0
  <2>1. CASE i \in 1 .. m
    <3>1. i \in 0 .. m /\ i - 1 \in 0 .. m
      BY <2>1
    <3> QED
      BY <1>3, <1>4, <1>7, <2>1, <3>1
  <2>2. CASE i \notin 1 .. m
    <3>1. PICK k \in 1 .. n : m + k = i /\ m + (k - 1) = i - 1
      <4>1. i - m \in 1 .. n /\ m + (i - m) = i /\ m + ((i - m) - 1) = i - 1
        BY <2>2
      <4> QED
        BY <4>1
    <3>2. k \in 0 .. n /\ k - 1 \in 0 .. n
      OBVIOUS
    <3>3. h[i] = g[k] /\ h[i - 1] = g[k - 1] /\ more[i] = b[k]
      BY <1>3, <1>7, <3>1, <3>2
    <3> QED
      BY <1>5, <3>3
  <2> QED
    BY <2>1, <2>2
<1>11. IsChain(h, more, first, last)
  BY <1>3, <1>9, <1>10 DEF IsChain
<1> QED
  BY <1>1, <1>11

LEMMA ChainFew ==
  ASSUME NEW life \in Nat
  PROVE  /\ \E f : IsChain(f, <<>>, life, life)
         /\ \A x : x.kind # "respawn" => \E f : IsChain(f, <<x>>, life, life)
         /\ \A x, y : x.kind = "respawn" /\ y.kind # "respawn"
              => \E f : IsChain(f, <<x, y>>, life, life + 1)
         /\ \A x, y : x.kind # "respawn" /\ y.kind # "respawn"
              => \E f : IsChain(f, <<x, y>>, life, life)
<1>1. \E f : IsChain(f, <<>>, life, life)
  <2>1. PICK f : f = [i \in 0 .. 0 |-> life]
    OBVIOUS
  <2>2. PICK s : s = <<>>
    OBVIOUS
  <2>3. Len(s) = 0
    BY <2>2
  <2>4. f \in [0 .. 0 -> Nat] /\ f[0] = life /\ 1 .. 0 = {}
    BY <2>1
  <2>5. IsChain(f, s, life, life)
    BY <2>3, <2>4 DEF IsChain
  <2> QED
    BY <2>2, <2>5
<1>2. ASSUME NEW x, x.kind # "respawn" PROVE \E f : IsChain(f, <<x>>, life, life)
  <2>1. PICK f : f = [i \in 0 .. 1 |-> life]
    OBVIOUS
  <2>2. PICK s : s = <<x>>
    OBVIOUS
  <2>3. Len(s) = 1 /\ s[1] = x
    BY <2>2
  <2>4. f \in [0 .. 1 -> Nat] /\ f[0] = life /\ f[1] = life /\ 1 .. 1 = {1} /\ 1 - 1 = 0
    BY <2>1
  <2>5. IsChain(f, s, life, life)
    BY <1>2, <2>3, <2>4 DEF IsChain
  <2> QED
    BY <2>2, <2>5
<1>3. ASSUME NEW x, NEW y, NEW up \in {0, 1}, up = IF x.kind = "respawn" THEN 1 ELSE 0,
             y.kind # "respawn"
      PROVE  \E f : IsChain(f, <<x, y>>, life, life + up)
  <2>1. PICK f : f = [i \in 0 .. 2 |-> IF i = 0 THEN life ELSE life + up]
    OBVIOUS
  <2>2. PICK s : s = <<x, y>>
    OBVIOUS
  <2>3. Len(s) = 2 /\ s[1] = x /\ s[2] = y
    BY <2>2
  <2>4. /\ f \in [0 .. 2 -> Nat] /\ f[0] = life /\ f[1] = life + up /\ f[2] = life + up
        /\ 1 .. 2 = {1, 2} /\ 1 - 1 = 0 /\ 2 - 1 = 1
    <3>1. life + up \in Nat
      OBVIOUS
    <3> QED
      BY <2>1, <3>1
  <2>5. (life + up) + 0 = life + up
    OBVIOUS
  <2>6. IsChain(f, s, life, life + up)
    BY <1>3, <2>3, <2>4, <2>5 DEF IsChain
  <2> QED
    BY <2>2, <2>6
<1>4. life + 0 = life
  OBVIOUS
<1> QED
  BY <1>1, <1>2, <1>3, <1>4

LEMMA PairedTail ==
  ASSUME NEW S, NEW s \in Seq(S), s # <<>>, Paired(s) PROVE Paired(Tail(s))
<1>1. PICK rest : rest = Tail(s)
  OBVIOUS
<1>2. PICK n \in Nat \ {0} : n = Len(s)
  BY TailIs
<1>3. /\ DOMAIN s = 1 .. n /\ DOMAIN rest = 1 .. n - 1
      /\ \A i \in 1 .. n - 1 : rest[i] = s[i + 1]
  BY <1>1, <1>2, TailIs
<1>4. ASSUME NEW i \in 1 .. n - 1, rest[i].kind = "respawn"
      PROVE  i + 1 \in 1 .. n - 1 /\ rest[i + 1].kind = "position"
  <2>1. i + 1 \in 1 .. n
    OBVIOUS
  <2>2. (i + 1) + 1 \in 1 .. n /\ s[(i + 1) + 1].kind = "position"
    BY <1>3, <1>4, <2>1 DEF Paired
  <2> QED
    BY <1>3, <2>2
<1> QED
  BY <1>1, <1>3, <1>4 DEF Paired

LEMMA PairedConcat ==
  ASSUME NEW S, NEW a \in Seq(S), NEW b \in Seq(S), Paired(a), Paired(b)
  PROVE  Paired(a \o b)
<1>1. PICK more : more = a \o b
  OBVIOUS
<1>2. PICK m \in Nat, n \in Nat : m = Len(a) /\ n = Len(b)
  BY ConcatIs
<1>3. /\ DOMAIN more = 1 .. m + n /\ DOMAIN a = 1 .. m /\ DOMAIN b = 1 .. n
      /\ \A i \in 1 .. m : more[i] = a[i]
      /\ \A i \in 1 .. n : more[m + i] = b[i]
  BY <1>1, <1>2, ConcatIs
<1>4. ASSUME NEW i \in 1 .. m, more[i].kind = "respawn"
      PROVE  i + 1 \in 1 .. m + n /\ more[i + 1].kind = "position"
  <2>1. i + 1 \in 1 .. m /\ a[i + 1].kind = "position"
    BY <1>3, <1>4 DEF Paired
  <2> QED
    BY <1>3, <2>1
<1>5. ASSUME NEW i \in 1 .. n, more[m + i].kind = "respawn"
      PROVE  (m + i) + 1 \in 1 .. m + n /\ more[(m + i) + 1].kind = "position"
  <2>1. i + 1 \in 1 .. n /\ b[i + 1].kind = "position"
    BY <1>3, <1>5 DEF Paired
  <2>2. (m + i) + 1 = m + (i + 1) /\ m + (i + 1) \in 1 .. m + n
    BY <2>1
  <2> QED
    BY <1>3, <2>1, <2>2
<1>6. \A i \in 1 .. m + n : i \in 1 .. m \/ (i - m \in 1 .. n /\ m + (i - m) = i)
  OBVIOUS
<1>7. ASSUME NEW i \in 1 .. m + n, more[i].kind = "respawn"
      PROVE  i + 1 \in 1 .. m + n /\ more[i + 1].kind = "position"
  BY <1>4, <1>5, <1>6, <1>7
<1> QED
  BY <1>1, <1>3, <1>7 DEF Paired

LEMMA PairedFew ==
  /\ Paired(<<>>)
  /\ \A x : x.kind # "respawn" => Paired(<<x>>)
  /\ \A x, y : y.kind = "position" => Paired(<<x, y>>)
<1>1. Paired(<<>>)
  BY DEF Paired
<1>2. ASSUME NEW x, x.kind # "respawn" PROVE Paired(<<x>>)
  BY <1>2 DEF Paired
<1>3. ASSUME NEW x, NEW y, y.kind = "position" PROVE Paired(<<x, y>>)
  <2>1. PICK s : s = <<x, y>>
    OBVIOUS
  <2>2. DOMAIN s = {1, 2} /\ s[1] = x /\ s[2] = y /\ 1 + 1 = 2
    BY <2>1
  <2>3. "position" # "respawn"
    OBVIOUS
  <2> QED
    BY <1>3, <2>1, <2>2, <2>3 DEF Paired
<1> QED
  BY <1>1, <1>2, <1>3

-----------------------------------------------------------------------------
(* The player: what a step that is not of a copy leaves of it.             *)

LEMMA PlayTypes ==
  ASSUME PlayInv
  PROVE  /\ client \in ClientStates /\ server \in ServerStates
         /\ toServer \in Seq(ServerPackets) /\ toClient \in Seq(ClientPackets)
         /\ crossed \subseteq {"flags", "flying", "slot", "join"} /\ scenario \in Scenarios
         /\ client.life \in Nat /\ server.life \in Nat
         /\ client.at \in Int /\ client.reported \in Int /\ server.at \in Int
         /\ client.keys \subseteq Keys
BY DEF PlayInv, PlayTypeOK, ClientStates, ServerStates

LEMMA MirrorsStay ==
  ASSUME PlayInv, Alike(toServer, toServer', OfKind("edge")),
         client'.life = client.life, client'.dead = client.dead, client'.told = client.told,
         server'.life = server.life, server'.flags = server.flags,
         "flags" \notin crossed' => "flags" \notin crossed,
         "join" \notin crossed' => "join" \notin crossed
  PROVE  MirrorsAgree'
<1>1. PICK Late, Other :
        /\ Late = {m \in OfKind("edge") : m.life > client.life}
        /\ Other = {m \in OfKind("edge") : m.life # client.life}
  OBVIOUS
<1>2. Late \in SUBSET OfKind("edge") /\ Other \in SUBSET OfKind("edge")
  BY <1>1
<1>3. Lacks(toServer, Late) /\ Lacks(toServer', Late)
  BY <1>1, <1>2 DEF PlayInv, MirrorsAgree, Alike
<1>4. Lacks(toServer', {m \in OfKind("edge") : m.life > client'.life})
  BY <1>1, <1>3
<1>5. ASSUME NEW f \in Flags, "flags" \notin crossed', "join" \notin crossed',
             client'.life = server'.life, ~client'.dead,
             Lacks(toServer', {m \in OfKind("edge") : m.life # client'.life})
      PROVE  Comes(toServer', EdgesOf(f), {m \in EdgesOf(f) : m.on = client'.told[f]},
                   server'.flags[f] = client'.told[f])
  <2>1. Lacks(toServer, Other)
    BY <1>1, <1>2, <1>5 DEF Alike
  <2>2. Comes(toServer, EdgesOf(f), {m \in EdgesOf(f) : m.on = client.told[f]},
              server.flags[f] = client.told[f])
    BY <1>1, <1>5, <2>1 DEF PlayInv, MirrorsAgree
  <2>3. EdgesOf(f) \in SUBSET OfKind("edge")
    BY DEF EdgesOf
  <2> QED
    BY <2>2, <2>3 DEF Comes, Alike
<1>6. "flags" \notin crossed' /\ client'.life < server'.life => server'.flags = Unset
  BY DEF PlayInv, MirrorsAgree
<1> QED
  BY <1>4, <1>5, <1>6 DEF MirrorsAgree, EdgesOf

LEMMA PosesStay ==
  ASSUME PlayInv, Alike(toServer, toServer', OfKind("move")),
         Lacks(toClient', OfKind("position")) => Lacks(toClient, OfKind("position")),
         client'.awaiting => client.awaiting,
         client'.reported = client.reported, client'.at = client.at,
         server'.pending = server.pending, server'.at = server.at
  PROVE  PosesAgree'
<1>1. PICK V : V = {m \in OfKind("move") : m.at = client.reported}
  OBVIOUS
<1>2. OfKind("move") \in SUBSET OfKind("move")
  OBVIOUS
<1>3. ASSUME Lacks(toClient, OfKind("position"))
      PROVE  /\ Near(client'.reported, client'.at)
             /\ Comes(toServer', OfKind("move"), V, server.pending = {} => server.at = client.reported)
  <2>1. /\ Near(client.reported, client.at)
        /\ Comes(toServer, OfKind("move"), V, server.pending = {} => server.at = client.reported)
    BY <1>1, <1>3 DEF PlayInv, PosesAgree
  <2> QED
    BY <1>2, <2>1 DEF Comes, Alike
<1>4. client'.awaiting => ~Lacks(toClient', OfKind("position"))
  BY DEF PlayInv, PosesAgree
<1> QED
  BY <1>1, <1>3, <1>4 DEF PosesAgree

\* A placement on its way excuses everything.
LEMMA PosesOpen ==
  ASSUME ~Lacks(toClient', OfKind("position")) PROVE PosesAgree'
BY DEF PosesAgree

LEMMA SlotsStay ==
  ASSUME PlayInv, Alike(toServer, toServer', OfKind("slot")),
         Alike(toClient, toClient', OfKind("slot")),
         client'.slot = client.slot, server'.slot = server.slot,
         "slot" \notin crossed' => "slot" \notin crossed
  PROVE  SlotsAgree'
<1>1. PICK V, W : /\ V = {m \in OfKind("slot") : m.slot = client.slot}
                  /\ W = {m \in OfKind("slot") : m.slot = server.slot}
  OBVIOUS
<1>2. OfKind("slot") \in SUBSET OfKind("slot")
  OBVIOUS
<1>3. SUFFICES ASSUME "slot" \notin crossed
      PROVE  \/ /\ Lacks(toClient', OfKind("slot"))
                /\ Comes(toServer', OfKind("slot"), V, server.slot = client.slot)
             \/ /\ Lacks(toServer', OfKind("slot"))
                /\ Comes(toClient', OfKind("slot"), W, server.slot = client.slot)
  BY <1>1 DEF SlotsAgree
<1>4. \/ /\ Lacks(toClient, OfKind("slot"))
         /\ Comes(toServer, OfKind("slot"), V, server.slot = client.slot)
      \/ /\ Lacks(toServer, OfKind("slot"))
         /\ Comes(toClient, OfKind("slot"), W, server.slot = client.slot)
  BY <1>1, <1>3 DEF PlayInv, SlotsAgree
<1> QED
  BY <1>2, <1>4 DEF Comes, Alike

LEMMA FlightsStay ==
  ASSUME PlayInv, Alike(toServer, toServer', OfKind("fly")),
         Alike(toClient, toClient', OfKind("abilities")),
         client'.allowed = client.allowed, client'.flying = client.flying,
         server'.allowed = server.allowed, server'.flying = server.flying,
         "flying" \notin crossed' => "flying" \notin crossed
  PROVE  FlightsAgree'
<1>1. PICK U, V, W :
        /\ U = {m \in OfKind("abilities") : m.allowed = server.allowed}
        /\ V = {m \in OfKind("fly") : m.on = client.flying /\ (m.on => server.allowed)}
        /\ W = {m \in OfKind("abilities") : m.flying = server.flying}
  OBVIOUS
<1>2. /\ OfKind("fly") \in SUBSET OfKind("fly")
      /\ OfKind("abilities") \in SUBSET OfKind("abilities")
  OBVIOUS
<1>3. Comes(toClient', OfKind("abilities"), U, client.allowed = server.allowed)
  <2>1. Comes(toClient, OfKind("abilities"), U, client.allowed = server.allowed)
    BY <1>1 DEF PlayInv, FlightsAgree
  <2> QED
    BY <1>2, <2>1 DEF Comes, Alike
<1>4. ASSUME "flying" \notin crossed
      PROVE  \/ /\ Lacks(toClient', OfKind("abilities"))
                /\ Comes(toServer', OfKind("fly"), V, server.flying = client.flying)
             \/ /\ Lacks(toServer', OfKind("fly"))
                /\ Comes(toClient', OfKind("abilities"), W, server.flying = client.flying)
  <2>1. \/ /\ Lacks(toClient, OfKind("abilities"))
           /\ Comes(toServer, OfKind("fly"), V, server.flying = client.flying)
        \/ /\ Lacks(toServer, OfKind("fly"))
           /\ Comes(toClient, OfKind("abilities"), W, server.flying = client.flying)
    BY <1>1, <1>4 DEF PlayInv, FlightsAgree
  <2> QED
    BY <1>2, <2>1 DEF Comes, Alike
<1> QED
  BY <1>1, <1>3, <1>4 DEF FlightsAgree

\* Packets that are of no kind a copy is told by.
Mute(b) == \A kind \in {"edge", "move", "slot", "fly"} : Lacks(b, OfKind(kind))

LEMMA MuteIs ==
  ASSUME PlayInv, NEW b \in Seq(ServerPackets), Mute(b)
  PROVE  \A kind \in {"edge", "move", "slot", "fly"} :
           Alike(toServer, toServer \o b, OfKind(kind))
BY PlayTypes, AlikeIs DEF Mute

\* A step of the session that changes no copy and tells nothing of one.
LEMMA CopiesStay ==
  ASSUME PlayInv, PlayTypeOK', UNCHANGED <<server, toClient, crossed>>,
         \A kind \in {"edge", "move", "slot", "fly"} : Alike(toServer, toServer', OfKind(kind)),
         client'.life = client.life, client'.dead = client.dead, client'.told = client.told,
         client'.awaiting = client.awaiting, client'.reported = client.reported,
         client'.at = client.at, client'.slot = client.slot,
         client'.allowed = client.allowed, client'.flying = client.flying
  PROVE  PlayInv'
<1>1. Alike(toClient, toClient', OfKind("slot")) /\ Alike(toClient, toClient', OfKind("abilities"))
  BY PlayTypes, AlikeIs
<1>2. LivesAgree' /\ Paired(toClient')
  BY DEF PlayInv, LivesAgree
<1>3. MirrorsAgree'
  BY MirrorsStay
<1>4. PosesAgree'
  BY PosesStay
<1>5. SlotsAgree'
  BY <1>1, SlotsStay
<1>6. FlightsAgree'
  BY <1>1, FlightsStay
<1> QED
  BY <1>2, <1>3, <1>4, <1>5, <1>6 DEF PlayInv

-----------------------------------------------------------------------------
(* The player: inputs.                                                     *)

LEMMA PressKeeps == ASSUME PlayInv, NEW k \in scenario.keys, Press(k) PROVE PlayInv'
<1>1. client \in ClientStates /\ scenario \in Scenarios
  BY PlayTypes
<1>2. PICK keys \in SUBSET Keys : client' = [client EXCEPT !.keys = keys]
  <2>1. k \in Keys
    BY <1>1 DEF Keys
  <2>2. CASE client.dead
    <3>1. client' = [client EXCEPT !.keys = client.keys]
      BY <1>1, <2>2 DEF Press, ClientStates
    <3> QED
      BY <3>1, PlayTypes
  <2>3. CASE ~client.dead
    <3>1. PICK keys : keys = IF k \in client.keys THEN client.keys \ {k} ELSE client.keys \cup {k}
      OBVIOUS
    <3>2. keys \in SUBSET Keys
      BY <2>1, <3>1, PlayTypes
    <3>3. client' = [client EXCEPT !.keys = keys]
      BY <1>1, <2>3, <3>1 DEF Press, ClientStates
    <3> QED
      BY <3>2, <3>3
  <2> QED
    BY <2>2, <2>3
<1>3. UNCHANGED <<scenario, server, toServer, toClient, crossed>>
  BY DEF Press
<1>4. /\ client' \in ClientStates
      /\ client'.life = client.life /\ client'.dead = client.dead /\ client'.told = client.told
      /\ client'.awaiting = client.awaiting /\ client'.reported = client.reported
      /\ client'.at = client.at /\ client'.slot = client.slot
      /\ client'.allowed = client.allowed /\ client'.flying = client.flying
  BY <1>1, <1>2 DEF ClientStates
<1>5. PlayTypeOK'
  BY <1>3, <1>4 DEF PlayInv, PlayTypeOK
<1>6. \A kind \in {"edge", "move", "slot", "fly"} : Alike(toServer, toServer', OfKind(kind))
  BY <1>3, PlayTypes, AlikeIs
<1> QED
  BY <1>3, <1>4, <1>5, <1>6, CopiesStay

LEMMA FocusLostKeeps == ASSUME PlayInv, FocusLost PROVE PlayInv'
<1>1. client \in ClientStates
  BY PlayTypes
<1>2. /\ client' = [client EXCEPT !.keys = {}]
      /\ UNCHANGED <<scenario, server, toServer, toClient, crossed>>
  BY DEF FocusLost
<1>3. /\ client' \in ClientStates
      /\ client'.life = client.life /\ client'.dead = client.dead /\ client'.told = client.told
      /\ client'.awaiting = client.awaiting /\ client'.reported = client.reported
      /\ client'.at = client.at /\ client'.slot = client.slot
      /\ client'.allowed = client.allowed /\ client'.flying = client.flying
  BY <1>1, <1>2 DEF ClientStates
<1>4. PlayTypeOK'
  BY <1>2, <1>3 DEF PlayInv, PlayTypeOK
<1>5. \A kind \in {"edge", "move", "slot", "fly"} : Alike(toServer, toServer', OfKind(kind))
  BY <1>2, PlayTypes, AlikeIs
<1> QED
  BY <1>2, <1>3, <1>4, <1>5, CopiesStay

LEMMA AskKeeps == ASSUME PlayInv, AskRespawn PROVE PlayInv'
<1>1. PICK x : x = [kind |-> "respawn"]
  OBVIOUS
<1>2. x \in ServerPackets /\ x.kind = "respawn"
  BY <1>1 DEF ServerPackets
<1>3. PICK b : b = <<x>>
  OBVIOUS
<1>4. b \in Seq(ServerPackets)
  BY <1>2, <1>3
<1>5. Mute(b)
  BY <1>2, <1>3, Few DEF Mute, OfKind
<1>6. toServer' = toServer \o b /\ UNCHANGED <<scenario, client, server, toClient, crossed>>
  BY <1>1, <1>3 DEF AskRespawn, Send
<1>7. toServer' \in Seq(ServerPackets)
  BY <1>4, <1>6, PlayTypes, ConcatIs
<1>8. PlayTypeOK'
  BY <1>6, <1>7 DEF PlayInv, PlayTypeOK
<1>9. \A kind \in {"edge", "move", "slot", "fly"} : Alike(toServer, toServer', OfKind(kind))
  BY <1>4, <1>5, <1>6, MuteIs
<1> QED
  BY <1>6, <1>8, <1>9, CopiesStay

\* A decision on a copy leaves the other copies as crossed as they were.
LEMMA DecidedIs ==
  ASSUME NEW copy \in {"flying", "slot"}, NEW crosses, Decided(copy, crosses), PlayInv
  PROVE  /\ crossed' \subseteq {"flags", "flying", "slot", "join"}
         /\ copy \notin crossed' => ~crosses
         /\ \A d : d # copy /\ d \notin crossed' => d \notin crossed
BY PlayTypes DEF Decided

LEMMA OnIs ==
  ASSUME NEW S, S \subseteq ServerPackets \cup ClientPackets, NEW s \in Seq(S), NEW kind
  PROVE  On(s, kind) <=> ~Lacks(s, OfKind(kind))
<1>1. \A i \in DOMAIN s : s[i] \in S
  OBVIOUS
<1> QED
  BY <1>1 DEF On, Lacks, OfKind

LEMMA SelectKeeps == ASSUME PlayInv, NEW s \in scenario.slots, Select(s) PROVE PlayInv'
<1>1. client \in ClientStates /\ scenario \in Scenarios
  BY PlayTypes
<1>2. s \in Slots
  BY <1>1 DEF Slots
<1>3. PICK x : x = [kind |-> "slot", slot |-> s]
  OBVIOUS
<1>4. x \in ServerPackets /\ x.kind = "slot" /\ x.slot = s
  BY <1>2, <1>3 DEF ServerPackets
<1>5. PICK b : b = <<x>>
  OBVIOUS
<1>6. b \in Seq(ServerPackets)
  BY <1>4, <1>5
<1>7. \A kind \in {"edge", "move", "fly"} : Lacks(b, OfKind(kind))
  BY <1>4, <1>5, Few DEF OfKind
<1>8. /\ toServer' = toServer \o b /\ client' = [client EXCEPT !.slot = s]
      /\ Decided("slot", On(toClient, "slot")) /\ UNCHANGED <<scenario, server, toClient>>
  BY <1>3, <1>5 DEF Select, Send
<1>9. /\ client' \in ClientStates /\ client'.slot = s
      /\ client'.life = client.life /\ client'.dead = client.dead /\ client'.told = client.told
      /\ client'.awaiting = client.awaiting /\ client'.reported = client.reported
      /\ client'.at = client.at
      /\ client'.allowed = client.allowed /\ client'.flying = client.flying
  BY <1>1, <1>2, <1>8 DEF ClientStates
<1>10. toServer' \in Seq(ServerPackets)
  BY <1>6, <1>8, PlayTypes, ConcatIs
<1>11. /\ crossed' \subseteq {"flags", "flying", "slot", "join"}
       /\ "slot" \notin crossed' => ~On(toClient, "slot")
       /\ \A d : d # "slot" /\ d \notin crossed' => d \notin crossed
  BY <1>8, DecidedIs
<1>12. PlayTypeOK'
  BY <1>8, <1>9, <1>10, <1>11 DEF PlayInv, PlayTypeOK
<1>13. \A kind \in {"edge", "move", "fly"} : Alike(toServer, toServer', OfKind(kind))
  BY <1>6, <1>7, <1>8, PlayTypes, AlikeIs
<1>14. Alike(toClient, toClient', OfKind("abilities"))
  BY <1>8, PlayTypes, AlikeIs
<1>15. LivesAgree' /\ Paired(toClient')
  BY <1>8, <1>9 DEF PlayInv, LivesAgree
<1>16. MirrorsAgree'
  BY <1>8, <1>9, <1>11, <1>13, MirrorsStay
<1>17. PosesAgree'
  BY <1>8, <1>9, <1>13, PosesStay
<1>18. FlightsAgree'
  BY <1>8, <1>9, <1>11, <1>13, <1>14, FlightsStay
<1>19. SlotsAgree'
  <2>1. x \in OfKind("slot") \cap {m \in OfKind("slot") : m.slot = client'.slot}
    BY <1>4, <1>9 DEF OfKind
  <2>2. EndsIn(b, OfKind("slot"), {m \in OfKind("slot") : m.slot = client'.slot})
    BY <1>5, <2>1, Few
  <2>3. EndsIn(toServer', OfKind("slot"), {m \in OfKind("slot") : m.slot = client'.slot})
    BY <1>6, <1>8, <2>2, PlayTypes, Concat
  <2>4. "slot" \notin crossed' => Lacks(toClient', OfKind("slot"))
    BY <1>8, <1>11, PlayTypes, OnIs
  <2> QED
    BY <2>3, <2>4 DEF SlotsAgree, Comes
<1> QED
  BY <1>12, <1>15, <1>16, <1>17, <1>18, <1>19 DEF PlayInv

-----------------------------------------------------------------------------
(* The player: a tick.                                                     *)

LEMMA SprintIs ==
  ASSUME client \in ClientStates, NEW keys, NEW collided \in BOOLEAN
  PROVE  /\ Sprint(client, keys, collided).on \in BOOLEAN
         /\ Sprint(client, keys, collided).tap
              \in [timer : 0 .. SprintWindow, sneak : BOOLEAN, forward : BOOLEAN]
<1>1. PICK forward \in BOOLEAN, sneak \in BOOLEAN :
        /\ forward <=> "forward" \in keys /\ "sneak" \notin keys
        /\ sneak <=> "sneak" \in keys
  OBVIOUS
<1>2. /\ client.tap \in [timer : 0 .. SprintWindow, sneak : BOOLEAN, forward : BOOLEAN]
      /\ client.tap.timer \in 0 .. SprintWindow
      /\ client.flags["sprint"] \in BOOLEAN
  BY DEF ClientStates, Flags
<1>3. SprintWindow \in Nat
  BY PlayAssumption
<1>4. PICK timer \in 0 .. SprintWindow :
        timer = IF client.tap.timer > 0 THEN client.tap.timer - 1 ELSE 0
  BY <1>2, <1>3
<1>5. PICK opens \in BOOLEAN :
        opens = ((/\ client.ground /\ ~client.tap.sneak /\ ~client.tap.forward
                  /\ forward /\ ~client.flags["sprint"])
                 /\ timer = 0 /\ "sprint" \notin keys)
  OBVIOUS
<1>6. PICK on \in BOOLEAN : on = Sprint(client, keys, collided).on
  <2>1. Sprint(client, keys, collided).on \in BOOLEAN
    BY DEF Sprint
  <2> QED
    BY <2>1, Zenon
<1>7. Sprint(client, keys, collided).tap
        = [timer |-> IF opens THEN SprintWindow ELSE timer, sneak |-> sneak, forward |-> forward]
  BY <1>1, <1>4, <1>5 DEF Sprint
<1>8. (IF opens THEN SprintWindow ELSE timer) \in 0 .. SprintWindow
  BY <1>3
<1> QED
  BY <1>6, <1>7, <1>8

LEMMA FlightIs ==
  ASSUME client \in ClientStates, NEW keys
  PROVE  /\ Flight(client, keys).flips \in BOOLEAN
         /\ Flight(client, keys).flips => client.allowed
         /\ Flight(client, keys).toggle \in [timer : 0 .. FlyWindow, jump : BOOLEAN]
<1>1. PICK jump \in BOOLEAN : jump <=> "jump" \in keys
  OBVIOUS
<1>2. PICK fresh \in BOOLEAN : fresh = (jump /\ ~client.toggle.jump /\ client.allowed)
  OBVIOUS
<1>3. FlyWindow \in Nat /\ client.toggle.timer \in 0 .. FlyWindow
  BY PlayAssumption DEF ClientStates
<1>4. PICK flips \in BOOLEAN : flips = (fresh /\ client.toggle.timer > 0)
  OBVIOUS
<1>5. PICK timer \in 0 .. FlyWindow :
        timer = IF flips THEN 0 ELSE IF fresh THEN FlyWindow ELSE client.toggle.timer
  BY <1>3
<1>6. PICK left \in 0 .. FlyWindow : left = IF timer > 0 THEN timer - 1 ELSE 0
  BY <1>3
<1>7. Flight(client, keys) = [flips |-> flips, toggle |-> [timer |-> left, jump |-> jump]]
  BY <1>1, <1>2, <1>4, <1>5, <1>6 DEF Flight
<1>8. [timer |-> left, jump |-> jump] \in [timer : 0 .. FlyWindow, jump : BOOLEAN]
  OBVIOUS
<1>9. /\ Flight(client, keys).flips = flips
      /\ Flight(client, keys).toggle = [timer |-> left, jump |-> jump]
  BY <1>7
<1>10. flips => client.allowed
  BY <1>2, <1>4
<1>11. Flight(client, keys).flips \in BOOLEAN
  BY <1>9
<1>12. Flight(client, keys).flips => client.allowed
  BY <1>9, <1>10
<1> QED
  BY <1>8, <1>9, <1>11, <1>12

LEMMA FlyIs ==
  ASSUME NEW on \in BOOLEAN
  PROVE  Fly(on) \in ServerPackets /\ Fly(on).kind = "fly" /\ Fly(on).on = on
BY DEF Fly, ServerPackets

\* The toggle and the landing.
LEMMA FliesIs ==
  ASSUME NEW flips \in BOOLEAN, NEW lands \in BOOLEAN, NEW aloft \in BOOLEAN,
         NEW b
  PROVE  b = (IF flips THEN <<Fly(aloft)>> ELSE <<>>)
               \o (IF lands THEN <<Fly(FALSE)>> ELSE <<>>) =>
         /\ b \in Seq(ServerPackets)
         /\ \A kind \in {"edge", "move", "slot"} : Lacks(b, OfKind(kind))
         /\ ~flips /\ ~lands => Lacks(b, OfKind("fly"))
         /\ lands => \A V : Fly(FALSE) \in V => EndsIn(b, OfKind("fly"), V)
         /\ flips /\ ~lands => \A V : Fly(aloft) \in V => EndsIn(b, OfKind("fly"), V)
<1>1. PICK x, y : x = Fly(aloft) /\ y = Fly(FALSE)
  OBVIOUS
<1>2. x \in ServerPackets /\ y \in ServerPackets /\ x.kind = "fly" /\ y.kind = "fly"
  BY <1>1, FlyIs
<1>3. PICK first : first = IF flips THEN <<x>> ELSE <<>>
  OBVIOUS
<1>4. PICK second : second = IF lands THEN <<y>> ELSE <<>>
  OBVIOUS
<1>5. first \in Seq(ServerPackets) /\ second \in Seq(ServerPackets)
  BY <1>2, <1>3, <1>4
<1>6. PICK c : c = first \o second
  OBVIOUS
<1>7. x \in OfKind("fly") /\ y \in OfKind("fly")
      /\ \A kind \in {"edge", "move", "slot"} : x \notin OfKind(kind) /\ y \notin OfKind(kind)
  BY <1>2 DEF OfKind
<1>8. /\ \A kind \in {"edge", "move", "slot"} :
           Lacks(first, OfKind(kind)) /\ Lacks(second, OfKind(kind))
      /\ ~flips => Lacks(first, OfKind("fly"))
      /\ ~lands => Lacks(second, OfKind("fly"))
      /\ flips => \A V : x \in V => EndsIn(first, OfKind("fly"), V)
      /\ lands => \A V : y \in V => EndsIn(second, OfKind("fly"), V)
  BY <1>3, <1>4, <1>7, Few
<1>9. c \in Seq(ServerPackets)
  BY <1>5, <1>6, ConcatIs
<1>10. \A C : Lacks(c, C) <=> Lacks(first, C) /\ Lacks(second, C)
  BY <1>5, <1>6, Concat
<1>11. \A C, V : EndsIn(second, C, V) => EndsIn(c, C, V)
  BY <1>5, <1>6, Concat
<1>12. \A C, V : Lacks(second, C) /\ EndsIn(first, C, V) => EndsIn(c, C, V)
  BY <1>5, <1>6, Concat
<1>13. c = (IF flips THEN <<Fly(aloft)>> ELSE <<>>) \o (IF lands THEN <<Fly(FALSE)>> ELSE <<>>)
  BY <1>1, <1>3, <1>4, <1>6
<1> QED
  BY <1>1, <1>8, <1>9, <1>10, <1>11, <1>12, <1>13

LEMMA EdgeIs ==
  ASSUME client \in ClientStates, NEW f \in Flags, NEW on \in BOOLEAN
  PROVE  /\ Edge(f, on) \in ServerPackets /\ Edge(f, on).kind = "edge"
         /\ Edge(f, on).flag = f /\ Edge(f, on).on = on /\ Edge(f, on).life = client.life
BY DEF Edge, ServerPackets, ClientStates

\* The flags that are not as told.
LEMMA EdgesIs ==
  ASSUME client \in ClientStates, NEW flags \in [Flags -> BOOLEAN],
         NEW old \in [Flags -> BOOLEAN]
  PROVE  LET b == Edges(flags, old)
         IN  /\ b \in Seq(ServerPackets)
             /\ \A kind \in {"fly", "move", "slot"} : Lacks(b, OfKind(kind))
             /\ Lacks(b, {m \in OfKind("edge") : m.life # client.life})
             /\ \A f \in Flags :
                  IF flags[f] = old[f] THEN Lacks(b, EdgesOf(f))
                  ELSE EndsIn(b, EdgesOf(f), {m \in EdgesOf(f) : m.on = flags[f]})
<1>1. PICK x, y : x = Edge("sprint", flags["sprint"]) /\ y = Edge("sneak", flags["sneak"])
  OBVIOUS
<1>2. /\ x \in ServerPackets /\ x.kind = "edge" /\ x.flag = "sprint"
      /\ x.on = flags["sprint"] /\ x.life = client.life
      /\ y \in ServerPackets /\ y.kind = "edge" /\ y.flag = "sneak"
      /\ y.on = flags["sneak"] /\ y.life = client.life
  BY <1>1, EdgeIs DEF Flags
<1>3. PICK first : first = IF flags["sprint"] # old["sprint"] THEN <<x>> ELSE <<>>
  OBVIOUS
<1>4. PICK second : second = IF flags["sneak"] # old["sneak"] THEN <<y>> ELSE <<>>
  OBVIOUS
<1>5. first \in Seq(ServerPackets) /\ second \in Seq(ServerPackets)
  BY <1>2, <1>3, <1>4
<1>6. PICK b : b = Edges(flags, old)
  OBVIOUS
<1>7. b = first \o second
  BY <1>1, <1>3, <1>4, <1>6 DEF Edges
<1>8. b \in Seq(ServerPackets)
  BY <1>5, <1>7, ConcatIs
<1>9. /\ \A C : Lacks(b, C) <=> Lacks(first, C) /\ Lacks(second, C)
      /\ \A C, V : EndsIn(second, C, V) => EndsIn(b, C, V)
      /\ \A C, V : Lacks(second, C) /\ EndsIn(first, C, V) => EndsIn(b, C, V)
  BY <1>5, <1>7, Concat
<1>10. \A C : x \notin C => Lacks(first, C)
  BY <1>3, Few
<1>11. \A C : y \notin C => Lacks(second, C)
  BY <1>4, Few
<1>12. ASSUME NEW kind \in {"fly", "move", "slot"} PROVE Lacks(b, OfKind(kind))
  <2>1. x \notin OfKind(kind) /\ y \notin OfKind(kind)
    BY <1>2 DEF OfKind
  <2> QED
    BY <1>9, <1>10, <1>11, <2>1
<1>13. Lacks(b, {m \in OfKind("edge") : m.life # client.life})
  BY <1>2, <1>9, <1>10, <1>11
<1>14. x \in EdgesOf("sprint") /\ y \in EdgesOf("sneak")
       /\ x \notin EdgesOf("sneak") /\ y \notin EdgesOf("sprint")
  BY <1>2 DEF EdgesOf, OfKind
<1>15. IF flags["sprint"] = old["sprint"] THEN Lacks(b, EdgesOf("sprint"))
       ELSE EndsIn(b, EdgesOf("sprint"), {m \in EdgesOf("sprint") : m.on = flags["sprint"]})
  <2>1. CASE flags["sprint"] = old["sprint"]
    <3>1. Lacks(first, EdgesOf("sprint"))
      BY <1>3, <2>1, Few
    <3> QED
      BY <1>9, <1>11, <1>14, <2>1, <3>1
  <2>2. CASE flags["sprint"] # old["sprint"]
    <3>1. x \in EdgesOf("sprint") \cap {m \in EdgesOf("sprint") : m.on = flags["sprint"]}
      BY <1>2, <1>14
    <3>2. EndsIn(first, EdgesOf("sprint"), {m \in EdgesOf("sprint") : m.on = flags["sprint"]})
      BY <1>3, <2>2, <3>1, Few
    <3> QED
      BY <1>9, <1>11, <1>14, <2>2, <3>2
  <2> QED
    BY <2>1, <2>2
<1>16. IF flags["sneak"] = old["sneak"] THEN Lacks(b, EdgesOf("sneak"))
       ELSE EndsIn(b, EdgesOf("sneak"), {m \in EdgesOf("sneak") : m.on = flags["sneak"]})
  <2>1. CASE flags["sneak"] = old["sneak"]
    <3>1. Lacks(second, EdgesOf("sneak"))
      BY <1>4, <2>1, Few
    <3> QED
      BY <1>9, <1>10, <1>14, <2>1, <3>1
  <2>2. CASE flags["sneak"] # old["sneak"]
    <3>1. y \in EdgesOf("sneak") \cap {m \in EdgesOf("sneak") : m.on = flags["sneak"]}
      BY <1>2, <1>14
    <3>2. EndsIn(second, EdgesOf("sneak"), {m \in EdgesOf("sneak") : m.on = flags["sneak"]})
      BY <1>4, <2>2, <3>1, Few
    <3> QED
      BY <1>9, <2>2, <3>2
  <2> QED
    BY <2>1, <2>2
<1> QED
  BY <1>6, <1>8, <1>12, <1>13, <1>15, <1>16 DEF Flags

\* The report of the pose.
LEMMA WalkIs ==
  ASSUME client \in ClientStates, NEW at \in Int, NEW stale \in BOOLEAN
  PROVE  LET walk == WalkingReport(client, at, stale)
         IN  /\ walk.packets \in Seq(ServerPackets) /\ walk.reported \in Int
             /\ Near(walk.reported, at)
             /\ \A kind \in {"edge", "fly", "slot"} : Lacks(walk.packets, OfKind(kind))
             /\ \/ Lacks(walk.packets, OfKind("move")) /\ walk.reported = client.reported
                \/ EndsIn(walk.packets, OfKind("move"), {m \in OfKind("move") : m.at = walk.reported})
<1>1. PICK x : x = Moved(at)
  OBVIOUS
<1>2. x \in ServerPackets /\ x.kind = "move" /\ x.at = at
  BY <1>1 DEF Moved, ServerPackets
<1>3. PICK walk : walk = WalkingReport(client, at, stale)
  OBVIOUS
<1>4. client.reported \in Int /\ Epsilon \in Nat
  BY PlayAssumption DEF ClientStates
<1>5. \A kind \in {"edge", "fly", "slot"} : x \notin OfKind(kind)
  BY <1>2 DEF OfKind
<1>6. CASE Near(at, client.reported) /\ ~stale
  <2>1. walk.packets = <<>> /\ walk.reported = client.reported
    BY <1>3, <1>6 DEF WalkingReport
  <2>2. Near(client.reported, at)
    BY <1>6 DEF Near
  <2>3. walk.packets \in Seq(ServerPackets)
    BY <2>1
  <2> QED
    BY <1>3, <1>4, <2>1, <2>2, <2>3, Few
<1>7. CASE ~(Near(at, client.reported) /\ ~stale)
  <2>1. walk.packets = <<x>> /\ walk.reported = at
    BY <1>1, <1>3, <1>7 DEF WalkingReport
  <2>2. Near(at, at)
    BY <1>4 DEF Near
  <2>3. walk.packets \in Seq(ServerPackets)
    BY <1>2, <2>1
  <2>4. x \in OfKind("move") \cap {m \in OfKind("move") : m.at = at}
    BY <1>2 DEF OfKind
  <2>5. EndsIn(walk.packets, OfKind("move"), {m \in OfKind("move") : m.at = at})
    BY <2>1, <2>4, Few
  <2>6. \A kind \in {"edge", "fly", "slot"} : Lacks(walk.packets, OfKind(kind))
    BY <1>5, <2>1, Few
  <2> QED
    BY <1>3, <2>1, <2>2, <2>3, <2>5, <2>6
<1> QED
  BY <1>6, <1>7

\* What a tick leaves of the player, and what it tells.
LEMMA TickKeeps ==
  ASSUME PlayInv, NEW p \in scenario.moves \cup {client.at}, NEW ground \in scenario.grounds,
         NEW collided \in scenario.collides, NEW stale \in BOOLEAN,
         StepTick(p, ground, collided, stale)
  PROVE  PlayInv'
<1> DEFINE keys == IF client.dead THEN {} ELSE client.keys
           sprint == Sprint(client, keys, collided)
           flags == [sneak |-> "sneak" \in keys, sprint |-> sprint.on]
           flight == Flight(client, keys)
           flips == flight.flips
           aloft == IF flips THEN ~client.flying ELSE client.flying
           lands == ground /\ aloft
           flying == aloft /\ ~lands
           reports == client.joined /\ ~client.awaiting
           walk == WalkingReport(client, p, stale)
           mirror == IF reports THEN flags ELSE client.told
           reported == IF reports THEN walk.reported ELSE client.reported
           flies == (IF flips THEN <<Fly(aloft)>> ELSE <<>>)
                      \o (IF lands THEN <<Fly(FALSE)>> ELSE <<>>)
           edges == IF reports THEN Edges(flags, client.told) ELSE <<>>
           moves == IF reports THEN walk.packets ELSE <<>>
           Says == {"flags", "flying", "slot", "join"}
<1>1. /\ client' = [client EXCEPT !.flags = flags, !.told = mirror, !.tap = sprint.tap,
                      !.toggle = flight.toggle, !.flying = flying, !.at = p,
                      !.ground = ground, !.reported = reported]
      /\ toServer' = toServer \o ((flies \o edges) \o moves)
      /\ IF flips \/ lands THEN Decided("flying", On(toClient, "abilities")) ELSE UNCHANGED crossed
      /\ client.joined \/ p = client.at
      /\ UNCHANGED <<scenario, server, toClient>>
  BY DEF StepTick, Send
<1>2. client \in ClientStates /\ scenario \in Scenarios
  BY PlayTypes
<1>3. ground \in BOOLEAN /\ collided \in BOOLEAN /\ p \in Int
  <2>1. /\ scenario.moves \subseteq Positions /\ scenario.grounds \subseteq BOOLEAN
        /\ scenario.collides \subseteq BOOLEAN /\ Positions \subseteq Nat
    BY <1>2, PlayAssumption
  <2>2. client.at \in Int
    BY PlayTypes
  <2>3. p \in Int
    <3>1. p \in scenario.moves \/ p = client.at
      OBVIOUS
    <3>2. p \in scenario.moves => p \in Nat
      BY <2>1
    <3> QED
      BY <2>2, <3>1, <3>2
  <2>4. ground \in BOOLEAN /\ collided \in BOOLEAN
    BY <2>1, Zenon
  <2> QED
    BY <2>3, <2>4
<1>4. /\ sprint.on \in BOOLEAN
      /\ sprint.tap \in [timer : 0 .. SprintWindow, sneak : BOOLEAN, forward : BOOLEAN]
  BY <1>2, <1>3, SprintIs
<1>5. /\ flips \in BOOLEAN /\ flips => client.allowed
      /\ flight.toggle \in [timer : 0 .. FlyWindow, jump : BOOLEAN]
  BY <1>2, FlightIs
<1>6. flags \in [Flags -> BOOLEAN] /\ client.told \in [Flags -> BOOLEAN]
  <2> HIDE DEF sprint, keys
  <2>1. PICK sneak \in BOOLEAN : sneak <=> "sneak" \in keys
    OBVIOUS
  <2>2. flags = [sneak |-> sneak, sprint |-> sprint.on]
    BY <2>1
  <2> QED
    BY <1>2, <1>4, <2>2 DEF Flags, ClientStates
<1>7. aloft \in BOOLEAN /\ lands \in BOOLEAN /\ flying \in BOOLEAN /\ reports \in BOOLEAN
      /\ (flying <=> aloft /\ ~lands) /\ (lands => aloft)
      /\ (~flips /\ ~lands => (flying <=> client.flying))
  <2>1. client.flying \in BOOLEAN
    BY <1>2 DEF ClientStates
  <2> HIDE DEF flips
  <2> QED
    BY <1>3, <1>5, <2>1
<1> HIDE DEF flips, aloft, lands, flying
<1>8. /\ flies \in Seq(ServerPackets)
      /\ \A kind \in {"edge", "move", "slot"} : Lacks(flies, OfKind(kind))
      /\ ~flips /\ ~lands => Lacks(flies, OfKind("fly"))
      /\ lands => \A V : Fly(FALSE) \in V => EndsIn(flies, OfKind("fly"), V)
      /\ flips /\ ~lands => \A V : Fly(aloft) \in V => EndsIn(flies, OfKind("fly"), V)
  BY <1>5, <1>7, FliesIs, Zenon
<1> HIDE DEF flies, flags, sprint, flight, keys
<1>9. /\ edges \in Seq(ServerPackets)
      /\ \A kind \in {"fly", "move", "slot"} : Lacks(edges, OfKind(kind))
      /\ Lacks(edges, {m \in OfKind("edge") : m.life # client.life})
      /\ reports =>
           \A f \in Flags :
             IF flags[f] = client.told[f] THEN Lacks(edges, EdgesOf(f))
             ELSE EndsIn(edges, EdgesOf(f), {m \in EdgesOf(f) : m.on = flags[f]})
      /\ ~reports => \A C : Lacks(edges, C)
  <2>1. CASE reports
    <3>1. edges = Edges(flags, client.told)
      BY <2>1
    <3> HIDE DEF edges, reports
    <3> QED
      BY <1>2, <1>6, <2>1, <3>1, EdgesIs
  <2>2. CASE ~reports
    <3>1. edges = <<>> /\ <<>> \in Seq(ServerPackets)
      BY <2>2
    <3> HIDE DEF edges, reports
    <3> QED
      BY <2>2, <3>1, Few
  <2> QED
    BY <2>1, <2>2
<1>10. /\ moves \in Seq(ServerPackets) /\ reported \in Int
       /\ \A kind \in {"edge", "fly", "slot"} : Lacks(moves, OfKind(kind))
       /\ \/ Lacks(moves, OfKind("move")) /\ reported = client.reported
          \/ EndsIn(moves, OfKind("move"), {m \in OfKind("move") : m.at = reported})
       /\ reports => Near(reported, p)
       /\ ~reports => reported = client.reported
  <2>1. CASE reports
    <3>1. moves = walk.packets /\ reported = walk.reported
      BY <2>1
    <3> HIDE DEF moves, reported, reports
    <3> QED
      BY <1>2, <1>3, <2>1, <3>1, WalkIs
  <2>2. CASE ~reports
    <3>1. moves = <<>> /\ reported = client.reported /\ <<>> \in Seq(ServerPackets)
      BY <2>2
    <3> HIDE DEF moves, reported, reports
    <3> QED
      BY <2>2, <3>1, Few, PlayTypes
  <2> QED
    BY <2>1, <2>2
<1>11. mirror \in [Flags -> BOOLEAN]
  BY <1>6
<1>12. /\ reports <=> client.joined /\ ~client.awaiting
       /\ mirror = IF reports THEN flags ELSE client.told
  OBVIOUS
<1> HIDE DEF walk, mirror, reported, edges, moves, reports
<1>13. PICK out : out = (flies \o edges) \o moves
  OBVIOUS
<1>14. /\ out \in Seq(ServerPackets)
       /\ \A C : Lacks(out, C) <=> Lacks(flies, C) /\ Lacks(edges, C) /\ Lacks(moves, C)
       /\ \A C, V : EndsIn(moves, C, V) => EndsIn(out, C, V)
       /\ \A C, V : Lacks(moves, C) /\ EndsIn(edges, C, V) => EndsIn(out, C, V)
       /\ \A C, V : Lacks(moves, C) /\ Lacks(edges, C) /\ EndsIn(flies, C, V) => EndsIn(out, C, V)
  <2>1. PICK both : both = flies \o edges
    OBVIOUS
  <2>2. both \in Seq(ServerPackets)
    BY <1>8, <1>9, <2>1, ConcatIs
  <2>3. /\ \A C : Lacks(both, C) <=> Lacks(flies, C) /\ Lacks(edges, C)
        /\ \A C, V : EndsIn(edges, C, V) => EndsIn(both, C, V)
        /\ \A C, V : Lacks(edges, C) /\ EndsIn(flies, C, V) => EndsIn(both, C, V)
    BY <1>8, <1>9, <2>1, Concat
  <2>4. out = both \o moves
    BY <1>13, <2>1
  <2>5. out \in Seq(ServerPackets)
    BY <1>10, <2>2, <2>4, ConcatIs
  <2>6. /\ \A C : Lacks(out, C) <=> Lacks(both, C) /\ Lacks(moves, C)
        /\ \A C, V : EndsIn(moves, C, V) => EndsIn(out, C, V)
        /\ \A C, V : Lacks(moves, C) /\ EndsIn(both, C, V) => EndsIn(out, C, V)
    BY <1>10, <2>2, <2>4, Concat
  <2> QED
    BY <2>3, <2>5, <2>6
<1>15. toServer' = toServer \o out /\ toServer \in Seq(ServerPackets)
  BY <1>1, <1>13, PlayTypes
<1>16. /\ toServer' \in Seq(ServerPackets)
       /\ \A C : Lacks(toServer', C) <=> Lacks(toServer, C) /\ Lacks(out, C)
       /\ \A C, V : EndsIn(out, C, V) => EndsIn(toServer', C, V)
       /\ \A C, V : Lacks(out, C) /\ EndsIn(toServer, C, V) => EndsIn(toServer', C, V)
  <2>1. toServer' \in Seq(ServerPackets)
    BY <1>14, <1>15, ConcatIs
  <2> QED
    BY <1>14, <1>15, <2>1, Concat
<1>17. /\ client' \in ClientStates
       /\ client'.life = client.life /\ client'.dead = client.dead /\ client'.told = mirror
       /\ client'.awaiting = client.awaiting /\ client'.reported = reported
       /\ client'.at = p /\ client'.slot = client.slot
       /\ client'.allowed = client.allowed /\ client'.flying = flying
  <2>1. /\ sprint.tap \in [timer : 0 .. SprintWindow, sneak : BOOLEAN, forward : BOOLEAN]
        /\ flight.toggle \in [timer : 0 .. FlyWindow, jump : BOOLEAN]
        /\ ground \in BOOLEAN /\ flying \in BOOLEAN /\ p \in Int /\ reported \in Int
        /\ flags \in [Flags -> BOOLEAN] /\ mirror \in [Flags -> BOOLEAN]
    BY <1>3, <1>4, <1>5, <1>6, <1>7, <1>10, <1>11
  <2>2. PICK tap, toggle : tap = sprint.tap /\ toggle = flight.toggle
    OBVIOUS
  <2>3. client' = [client EXCEPT !.flags = flags, !.told = mirror, !.tap = tap,
                      !.toggle = toggle, !.flying = flying, !.at = p,
                      !.ground = ground, !.reported = reported]
    BY <1>1, <2>2
  <2>4. client' \in ClientStates
    BY <1>2, <2>1, <2>2, <2>3 DEF ClientStates
  <2> QED
    BY <1>2, <2>3, <2>4 DEF ClientStates
<1>18. /\ crossed' \subseteq Says
       /\ flips \/ lands => ("flying" \notin crossed' => ~On(toClient, "abilities"))
       /\ ~flips /\ ~lands => crossed' = crossed
       /\ \A d : d # "flying" /\ d \notin crossed' => d \notin crossed
  <2>1. CASE flips \/ lands
    BY <1>1, <2>1, DecidedIs
  <2>2. CASE ~(flips \/ lands)
    BY <1>1, <2>2, PlayTypes
  <2> QED
    BY <2>1, <2>2
<1>19. PlayTypeOK'
  BY <1>1, <1>16, <1>17, <1>18 DEF PlayInv, PlayTypeOK
<1>20. LivesAgree' /\ Paired(toClient')
  BY <1>1, <1>17 DEF PlayInv, LivesAgree
<1>21. Lacks(out, OfKind("slot"))
  BY <1>8, <1>9, <1>10, <1>14
<1>22. SlotsAgree'
  <2>1. Alike(toServer, toServer', OfKind("slot")) /\ Alike(toClient, toClient', OfKind("slot"))
    BY <1>1, <1>14, <1>15, <1>21, AlikeIs, PlayTypes
  <2>2. "slot" \notin crossed' => "slot" \notin crossed
    BY <1>18
  <2> QED
    BY <1>1, <1>17, <2>1, <2>2, SlotsStay
<1>23. FlightsAgree'
  <2>1. Alike(toClient, toClient', OfKind("abilities"))
    BY <1>1, AlikeIs, PlayTypes
  <2>2. CASE ~flips /\ ~lands
    <3>1. Lacks(out, OfKind("fly"))
      BY <1>8, <1>9, <1>10, <1>14, <2>2
    <3>2. Alike(toServer, toServer', OfKind("fly"))
      BY <1>14, <1>15, <3>1, AlikeIs
    <3>3. client'.flying = client.flying
      <4>1. client.flying \in BOOLEAN
        BY <1>2 DEF ClientStates
      <4> QED
        BY <1>7, <1>17, <2>2, <4>1
    <3> QED
      BY <1>1, <1>17, <1>18, <2>1, <2>2, <3>2, <3>3, FlightsStay
  <2>3. CASE flips \/ lands
    <3>1. Comes(toClient, OfKind("abilities"), {m \in OfKind("abilities") : m.allowed = server.allowed},
                client.allowed = server.allowed)
      BY DEF PlayInv, FlightsAgree
    <3>2. SUFFICES ASSUME "flying" \notin crossed'
          PROVE  /\ Lacks(toClient, OfKind("abilities"))
                 /\ EndsIn(toServer', OfKind("fly"),
                           {m \in OfKind("fly") : m.on = flying /\ (m.on => server.allowed)})
      BY <1>1, <1>17, <3>1 DEF FlightsAgree, Comes
    <3>3. Lacks(toClient, OfKind("abilities"))
      BY <1>18, <2>3, <3>2, OnIs, PlayTypes
    <3>4. ~EndsIn(toClient, OfKind("abilities"),
                  {m \in OfKind("abilities") : m.allowed = server.allowed})
      BY <3>3 DEF Lacks, EndsIn
    <3>5. client.allowed = server.allowed
      BY <3>1, <3>4 DEF Comes
    <3>6. PICK V : V = {m \in OfKind("fly") : m.on = flying /\ (m.on => server.allowed)}
      OBVIOUS
    <3>7. EndsIn(flies, OfKind("fly"), V)
      <4>1. CASE lands
        <5>1. Fly(FALSE) \in V
          <6>1. flying = FALSE
            BY <1>7, <4>1
          <6>2. Fly(FALSE) \in ServerPackets /\ Fly(FALSE).kind = "fly" /\ Fly(FALSE).on = FALSE
            BY FlyIs
          <6> QED
            BY <3>6, <6>1, <6>2 DEF OfKind
        <5> QED
          BY <1>8, <4>1, <5>1
      <4>2. CASE flips /\ ~lands
        <5>1. Fly(aloft) \in V
          <6>1. flying = aloft
            BY <1>7, <4>2
          <6>2. Fly(aloft) \in ServerPackets /\ Fly(aloft).kind = "fly" /\ Fly(aloft).on = aloft
            BY <1>7, FlyIs
          <6>3. server.allowed
            BY <1>5, <3>5, <4>2
          <6> QED
            BY <3>6, <6>1, <6>2, <6>3 DEF OfKind
        <5> QED
          BY <1>8, <4>2, <5>1
      <4> QED
        BY <2>3, <4>1, <4>2
    <3>8. Lacks(edges, OfKind("fly")) /\ Lacks(moves, OfKind("fly"))
      BY <1>9, <1>10
    <3>9. EndsIn(toServer', OfKind("fly"), V)
      BY <1>14, <1>16, <3>7, <3>8
    <3> QED
      BY <3>3, <3>6, <3>9
  <2> QED
    BY <2>2, <2>3
<1>24. PosesAgree'
  <2>1. CASE ~Lacks(toClient, OfKind("position"))
    BY <1>1, <2>1, PosesOpen
  <2>2. CASE Lacks(toClient, OfKind("position"))
    <3>1. ~client.awaiting
      BY <2>2 DEF PlayInv, PosesAgree
    <3>2. PICK U : U = {m \in OfKind("move") : m.at = client.reported}
      OBVIOUS
    <3>3. PICK V : V = {m \in OfKind("move") : m.at = reported}
      OBVIOUS
    <3>4. /\ Near(client.reported, client.at)
          /\ Comes(toServer, OfKind("move"), U, server.pending = {} => server.at = client.reported)
      BY <2>2, <3>2 DEF PlayInv, PosesAgree
    <3>5. Near(reported, p)
      <4>1. CASE reports
        BY <1>10, <4>1
      <4>2. CASE ~reports
        BY <1>1, <1>10, <1>12, <3>1, <3>4, <4>2
      <4> QED
        BY <4>1, <4>2
    <3>6. Comes(toServer', OfKind("move"), V, server.pending = {} => server.at = reported)
      <4>1. CASE Lacks(moves, OfKind("move")) /\ reported = client.reported
        <5>1. Lacks(out, OfKind("move"))
          BY <1>8, <1>9, <1>14, <4>1
        <5>2. U = V
          BY <3>2, <3>3, <4>1
        <5> QED
          BY <1>16, <3>4, <4>1, <5>1, <5>2 DEF Comes
      <4>2. CASE EndsIn(moves, OfKind("move"), V)
        BY <1>14, <1>16, <4>2 DEF Comes
      <4> QED
        BY <1>10, <3>3, <4>1, <4>2
    <3> QED
      BY <1>1, <1>17, <3>1, <3>3, <3>5, <3>6 DEF PosesAgree
  <2> QED
    BY <2>1, <2>2
<1>25. MirrorsAgree'
  <2>1. PICK Late, Other :
          /\ Late = {m \in OfKind("edge") : m.life > client.life}
          /\ Other = {m \in OfKind("edge") : m.life # client.life}
    OBVIOUS
  <2>2. Lacks(toServer, Late)
    BY <2>1 DEF PlayInv, MirrorsAgree
  <2>3. Lacks(out, Other)
    <3>1. Lacks(flies, OfKind("edge")) /\ Lacks(moves, OfKind("edge")) /\ Lacks(edges, Other)
      BY <1>8, <1>9, <1>10, <2>1
    <3>2. Lacks(flies, Other) /\ Lacks(moves, Other)
      BY <2>1, <3>1 DEF Lacks
    <3> QED
      BY <1>14, <3>1, <3>2
  <2>4. Lacks(out, Late)
    <3>1. \A m \in Late : m \in Other
      <4>1. client.life \in Nat
        BY PlayTypes
      <4> QED
        BY <2>1, <4>1
    <3> QED
      BY <2>3, <3>1 DEF Lacks
  <2>5. Lacks(toServer', Late)
    BY <1>16, <2>2, <2>4
  <2>6. "flags" \notin crossed' /\ client'.life < server'.life => server'.flags = Unset
    BY <1>1, <1>17, <1>18 DEF PlayInv, MirrorsAgree
  <2>7. ASSUME NEW f \in Flags, "flags" \notin crossed', "join" \notin crossed',
               client.life = server.life, ~client.dead, Lacks(toServer', Other)
        PROVE  Comes(toServer', EdgesOf(f), {m \in EdgesOf(f) : m.on = mirror[f]},
                     server.flags[f] = mirror[f])
    <3>1. Lacks(toServer, Other)
      BY <1>16, <2>7
    <3>2. PICK U : U = {m \in EdgesOf(f) : m.on = client.told[f]}
      OBVIOUS
    <3>3. PICK V : V = {m \in EdgesOf(f) : m.on = mirror[f]}
      OBVIOUS
    <3>4. Comes(toServer, EdgesOf(f), U, server.flags[f] = client.told[f])
      <4>1. "flags" \notin crossed /\ "join" \notin crossed
        BY <1>18, <2>7
      <4> QED
        BY <2>1, <2>7, <3>1, <3>2, <4>1 DEF PlayInv, MirrorsAgree
    <3>5. Lacks(flies, EdgesOf(f)) /\ Lacks(moves, EdgesOf(f))
      <4>1. Lacks(flies, OfKind("edge")) /\ Lacks(moves, OfKind("edge"))
        BY <1>8, <1>10
      <4> QED
        BY <4>1 DEF Lacks, EdgesOf
    <3>6. CASE Lacks(edges, EdgesOf(f)) /\ mirror[f] = client.told[f]
      <4>1. Lacks(out, EdgesOf(f))
        BY <1>14, <3>5, <3>6
      <4>2. U = V
        BY <3>2, <3>3, <3>6
      <4> QED
        BY <1>16, <3>3, <3>4, <3>6, <4>1, <4>2 DEF Comes
    <3>7. CASE EndsIn(edges, EdgesOf(f), V)
      BY <1>14, <1>16, <3>3, <3>5, <3>7 DEF Comes
    <3>8. CASE reports
      <4>1. mirror = flags
        BY <1>12, <3>8
      <4> QED
        BY <1>9, <3>3, <3>6, <3>7, <3>8, <4>1
    <3>9. CASE ~reports
      <4>1. mirror = client.told
        BY <1>12, <3>9
      <4> QED
        BY <1>9, <3>6, <3>9, <4>1
    <3> QED
      BY <3>8, <3>9
  <2> QED
    BY <1>1, <1>17, <2>1, <2>5, <2>6, <2>7 DEF MirrorsAgree
<1> QED
  BY <1>19, <1>20, <1>22, <1>23, <1>24, <1>25 DEF PlayInv

LEMMA TicksKeep == ASSUME PlayInv, SessionTicks PROVE PlayInv'
BY TickKeeps DEF SessionTicks

-----------------------------------------------------------------------------
(* The player: packets of the server.                                      *)

LEMMA ReadIs ==
  ASSUME PlayInv, Read
  PROVE  /\ Head(toClient) \in ClientPackets /\ toClient' \in Seq(ClientPackets)
         /\ toClient' # <<>> \/ Head(toClient).kind # "respawn"
         /\ Head(toClient).kind = "respawn" => ~Lacks(toClient', OfKind("position"))
         /\ Paired(toClient')
         /\ \E g : IsChain(g, toClient',
                           client.life + IF Head(toClient).kind = "respawn" THEN 1 ELSE 0,
                           server.life)
         /\ \A C : Lacks(toClient, C) <=> Head(toClient) \notin C /\ Lacks(toClient', C)
         /\ \A C, V : EndsIn(toClient, C, V)
              => (Lacks(toClient', C) /\ Head(toClient) \in C \cap V) \/ EndsIn(toClient', C, V)
         /\ \A kind : Head(toClient).kind # kind => Alike(toClient, toClient', OfKind(kind))
         /\ UNCHANGED <<scenario, server, crossed>>
<1>1. toClient # <<>> /\ toClient' = Tail(toClient) /\ UNCHANGED <<scenario, server, crossed>>
  BY DEF Read
<1>2. toClient \in Seq(ClientPackets) /\ Paired(toClient)
  BY PlayTypes DEF PlayInv
<1>3. Head(toClient) \in ClientPackets /\ toClient' \in Seq(ClientPackets)
  BY <1>1, <1>2, TailIs
<1>4. Paired(toClient')
  BY <1>1, <1>2, PairedTail
<1>5. \E g : IsChain(g, toClient',
                     client.life + IF Head(toClient).kind = "respawn" THEN 1 ELSE 0,
                     server.life)
  <2>1. PICK f : IsChain(f, toClient, client.life, server.life)
    BY DEF PlayInv, LivesAgree
  <2> QED
    BY <1>1, <1>2, <2>1, ChainTail
<1>6. /\ \A C : Lacks(toClient, C) <=> Head(toClient) \notin C /\ Lacks(toClient', C)
      /\ \A C, V : EndsIn(toClient, C, V)
           => (Lacks(toClient', C) /\ Head(toClient) \in C \cap V) \/ EndsIn(toClient', C, V)
  BY <1>1, <1>2, Behind
<1>7. ASSUME NEW kind, Head(toClient).kind # kind
      PROVE  Alike(toClient, toClient', OfKind(kind))
  <2>1. Head(toClient) \notin OfKind(kind)
    BY <1>7 DEF OfKind
  <2> QED
    BY <1>1, <1>2, <2>1, AlikeIs
<1>8. ASSUME Head(toClient).kind = "respawn"
      PROVE  toClient' # <<>> /\ ~Lacks(toClient', OfKind("position"))
  <2>1. PICK n \in Nat \ {0} : n = Len(toClient)
    BY <1>1, <1>2, TailIs
  <2>2. /\ Head(toClient) = toClient[1] /\ DOMAIN toClient = 1 .. n
        /\ DOMAIN toClient' = 1 .. n - 1
        /\ \A i \in 1 .. n - 1 : toClient'[i] = toClient[i + 1]
    BY <1>1, <1>2, <2>1, TailIs
  <2>3. 2 \in 1 .. n /\ toClient[2].kind = "position"
    <3>1. 1 \in 1 .. n /\ 1 + 1 = 2
      OBVIOUS
    <3> QED
      BY <1>2, <1>8, <2>2, <3>1 DEF Paired
  <2>4. 1 \in 1 .. n - 1 /\ 1 + 1 = 2
    BY <2>3
  <2>5. toClient'[1].kind = "position"
    BY <2>2, <2>3, <2>4
  <2>6. toClient'[1] \in ClientPackets
    BY <1>3, <2>2, <2>4
  <2>7. toClient'[1] \in OfKind("position")
    BY <2>5, <2>6 DEF OfKind
  <2> QED
    BY <2>2, <2>4, <2>7 DEF Lacks
<1> QED
  BY <1>1, <1>3, <1>4, <1>5, <1>6, <1>7, <1>8

\* A packet that is not answered leaves what is on its way to the server.
LEMMA Unanswered ==
  ASSUME PlayInv, Read, Head(toClient).kind # "position"
  PROVE  /\ toServer' = toServer /\ toServer' \in Seq(ServerPackets)
         /\ \A K : Alike(toServer, toServer', K)
<1>1. toServer' = toServer \o <<>>
  BY DEF Read, Send, Answer
<1>2. toServer' = toServer
  BY <1>1, PlayTypes
<1> QED
  BY <1>2, PlayTypes, AlikeIs

LEMMA ReadJoinKeeps ==
  ASSUME PlayInv, Read, Head(toClient).kind = "join" PROVE PlayInv'
<1>1. client' = [client EXCEPT !.joined = TRUE]
  BY DEF Read
<1>2. /\ client' \in ClientStates
      /\ client'.life = client.life /\ client'.dead = client.dead /\ client'.told = client.told
      /\ client'.awaiting = client.awaiting /\ client'.reported = client.reported
      /\ client'.at = client.at /\ client'.slot = client.slot
      /\ client'.allowed = client.allowed /\ client'.flying = client.flying
  BY <1>1, PlayTypes DEF ClientStates
<1>3. PlayTypeOK'
  BY <1>2, ReadIs, Unanswered DEF PlayInv, PlayTypeOK
<1>4. LivesAgree' /\ Paired(toClient')
  <2>1. client.life + 0 = client.life
    BY PlayTypes
  <2> QED
    BY <1>2, <2>1, ReadIs DEF LivesAgree
<1>5. MirrorsAgree'
  BY <1>2, ReadIs, Unanswered, MirrorsStay
<1>6. PosesAgree'
  <2>1. Alike(toClient, toClient', OfKind("position"))
    BY ReadIs
  <2>2. Lacks(toClient', OfKind("position")) => Lacks(toClient, OfKind("position"))
    BY <2>1 DEF Alike
  <2> QED
    BY <1>2, <2>2, ReadIs, Unanswered, PosesStay
<1>7. SlotsAgree'
  BY <1>2, ReadIs, Unanswered, SlotsStay
<1>8. FlightsAgree'
  BY <1>2, ReadIs, Unanswered, FlightsStay
<1> QED
  BY <1>3, <1>4, <1>5, <1>6, <1>7, <1>8 DEF PlayInv

LEMMA UnsetIs == Unset \in [Flags -> BOOLEAN] /\ \A f \in Flags : Unset[f] = FALSE
BY DEF Unset

LEMMA ReadHealthKeeps ==
  ASSUME PlayInv, Read, Head(toClient).kind = "health" PROVE PlayInv'
<1>1. client' = Died(client)
  BY DEF Read
<1>2. /\ client' \in ClientStates
      /\ client'.life = client.life /\ client'.dead
      /\ client'.awaiting = client.awaiting /\ client'.reported = client.reported
      /\ client'.at = client.at /\ client'.slot = client.slot
      /\ client'.allowed = client.allowed /\ client'.flying = client.flying
  <2>1. client \in ClientStates
    BY PlayTypes
  <2>2. CASE client.dead
    <3>1. client' = client
      BY <1>1, <2>2 DEF Died
    <3> QED
      BY <2>1, <2>2, <3>1
  <2>3. CASE ~client.dead
    <3>1. client' = [client EXCEPT !.dead = TRUE, !.keys = {}, !.flags = Unset, !.told = Unset]
      BY <1>1, <2>3 DEF Died
    <3> QED
      BY <2>1, <3>1, UnsetIs DEF ClientStates
  <2> QED
    BY <2>2, <2>3
<1>3. PlayTypeOK'
  BY <1>2, ReadIs, Unanswered DEF PlayInv, PlayTypeOK
<1>4. LivesAgree' /\ Paired(toClient')
  <2>1. client.life + 0 = client.life
    BY PlayTypes
  <2> QED
    BY <1>2, <2>1, ReadIs DEF LivesAgree
<1>5. MirrorsAgree'
  BY <1>2, ReadIs, Unanswered DEF PlayInv, MirrorsAgree
<1>6. PosesAgree'
  <2>1. Alike(toClient, toClient', OfKind("position"))
    BY ReadIs
  <2>2. Lacks(toClient', OfKind("position")) => Lacks(toClient, OfKind("position"))
    BY <2>1 DEF Alike
  <2> QED
    BY <1>2, <2>2, ReadIs, Unanswered, PosesStay
<1>7. SlotsAgree'
  BY <1>2, ReadIs, Unanswered, SlotsStay
<1>8. FlightsAgree'
  BY <1>2, ReadIs, Unanswered, FlightsStay
<1> QED
  BY <1>3, <1>4, <1>5, <1>6, <1>7, <1>8 DEF PlayInv

LEMMA ReadRespawnKeeps ==
  ASSUME PlayInv, Read, Head(toClient).kind = "respawn" PROVE PlayInv'
<1>1. client' = [client EXCEPT !.dead = FALSE, !.flags = Unset, !.told = Unset, !.tap = NoTap,
                               !.toggle = NoToggle, !.ground = FALSE, !.awaiting = TRUE,
                               !.life = client.life + 1]
  <2>1. client \in ClientStates /\ client' = Respawned(client)
    BY PlayTypes DEF Read
  <2> QED
    BY <2>1 DEF Respawned, ResetForRespawn, ClientStates
<1>2. /\ client' \in ClientStates
      /\ client'.life = client.life + 1 /\ client'.told = Unset
      /\ client'.slot = client.slot
      /\ client'.allowed = client.allowed /\ client'.flying = client.flying
  <2>1. /\ NoTap \in [timer : 0 .. SprintWindow, sneak : BOOLEAN, forward : BOOLEAN]
        /\ NoToggle \in [timer : 0 .. FlyWindow, jump : BOOLEAN]
    BY PlayAssumption DEF NoTap, NoToggle
  <2>2. client.life + 1 \in Nat /\ client \in ClientStates
    BY PlayTypes
  <2>3. client' \in ClientStates
    BY <1>1, <2>1, <2>2, UnsetIs DEF ClientStates
  <2> QED
    BY <1>1, <2>2, <2>3 DEF ClientStates
<1>3. PlayTypeOK'
  BY <1>2, ReadIs, Unanswered DEF PlayInv, PlayTypeOK
<1>4. LivesAgree' /\ Paired(toClient')
  BY <1>2, ReadIs DEF LivesAgree
<1>5. MirrorsAgree'
  <2>1. client.life \in Nat /\ server.life \in Nat /\ UNCHANGED <<server, crossed>> /\ toServer' = toServer
    BY PlayTypes, ReadIs, Unanswered
  <2>2. Lacks(toServer, {m \in OfKind("edge") : m.life > client.life})
    BY DEF PlayInv, MirrorsAgree
  <2>3. toServer \in Seq(ServerPackets)
    BY PlayTypes
  <2>4. \A m \in ServerPackets : m \in OfKind("edge") => m.life \in Nat
    BY DEF OfKind, ServerPackets
  <2>5. \A i \in DOMAIN toServer : toServer[i] \in ServerPackets
    BY <2>3
  <2>6. \A i \in DOMAIN toServer :
          toServer[i] \in OfKind("edge") => toServer[i].life \in Nat /\ toServer[i].life <= client.life
    BY <2>1, <2>2, <2>4, <2>5 DEF Lacks
  <2>7. Lacks(toServer, {m \in OfKind("edge") : m.life > client.life + 1})
    BY <2>1, <2>6 DEF Lacks
  <2>8. "flags" \notin crossed /\ client.life + 1 < server.life => server.flags = Unset
    BY <2>1 DEF PlayInv, MirrorsAgree
  <2>9. ASSUME NEW f \in Flags, "flags" \notin crossed, client.life + 1 = server.life,
               Lacks(toServer, {m \in OfKind("edge") : m.life # client.life + 1})
        PROVE  Lacks(toServer, EdgesOf(f)) /\ server.flags[f] = Unset[f]
    <3>1. server.flags = Unset
      BY <2>1, <2>9 DEF PlayInv, MirrorsAgree
    <3>2. \A i \in DOMAIN toServer : toServer[i] \notin OfKind("edge")
      BY <2>1, <2>6, <2>9 DEF Lacks
    <3> QED
      BY <3>1, <3>2 DEF Lacks, EdgesOf
  <2> QED
    BY <1>2, <2>1, <2>7, <2>8, <2>9 DEF MirrorsAgree, Comes
<1>6. PosesAgree'
  BY ReadIs, PosesOpen
<1>7. SlotsAgree'
  BY <1>2, ReadIs, Unanswered, SlotsStay
<1>8. FlightsAgree'
  BY <1>2, ReadIs, Unanswered, FlightsStay
<1> QED
  BY <1>3, <1>4, <1>5, <1>6, <1>7, <1>8 DEF PlayInv

LEMMA ReadPositionKeeps ==
  ASSUME PlayInv, Read, Head(toClient).kind = "position" PROVE PlayInv'
<1>1. PICK at \in Int : client' = [client EXCEPT !.awaiting = FALSE, !.at = at, !.reported = at]
  <2>1. client' = Corrected(client, Head(toClient))
    BY DEF Read
  <2>2. Head(toClient).at \in Int
    BY ReadIs DEF ClientPackets
  <2>3. PICK at : at = IF Head(toClient).relative THEN client.at + Head(toClient).at
                       ELSE Head(toClient).at
    OBVIOUS
  <2>4. at \in Int
    BY <2>2, <2>3, PlayTypes
  <2> QED
    BY <2>1, <2>3, <2>4 DEF Corrected
<1>2. /\ client' \in ClientStates
      /\ client'.life = client.life /\ client'.dead = client.dead /\ client'.told = client.told
      /\ ~client'.awaiting /\ client'.reported = at
      /\ client'.at = at /\ client'.slot = client.slot
      /\ client'.allowed = client.allowed /\ client'.flying = client.flying
  BY <1>1, PlayTypes DEF ClientStates
<1>3. PICK x : x = Echoed(at)
  OBVIOUS
<1>4. x \in ServerPackets /\ x.kind = "move" /\ x.at = at
  BY <1>3 DEF Echoed, ServerPackets
<1>5. PICK b : b = <<x>>
  OBVIOUS
<1>6. b \in Seq(ServerPackets) /\ \A kind \in {"edge", "slot", "fly"} : Lacks(b, OfKind(kind))
  BY <1>4, <1>5, Few DEF OfKind
<1>7. toServer' = toServer \o b
  BY <1>2, <1>3, <1>5 DEF Read, Send, Answer
<1>8. toServer' \in Seq(ServerPackets)
  BY <1>6, <1>7, PlayTypes, ConcatIs
<1>9. \A kind \in {"edge", "slot", "fly"} : Alike(toServer, toServer', OfKind(kind))
  BY <1>6, <1>7, PlayTypes, AlikeIs
<1>10. PlayTypeOK'
  BY <1>2, <1>8, ReadIs DEF PlayInv, PlayTypeOK
<1>11. LivesAgree' /\ Paired(toClient')
  <2>1. client.life + 0 = client.life
    BY PlayTypes
  <2> QED
    BY <1>2, <2>1, ReadIs DEF LivesAgree
<1>12. MirrorsAgree'
  BY <1>2, <1>9, ReadIs, MirrorsStay
<1>13. PosesAgree'
  <2>1. x \in OfKind("move") \cap {m \in OfKind("move") : m.at = at}
    BY <1>4 DEF OfKind
  <2>2. EndsIn(b, OfKind("move"), {m \in OfKind("move") : m.at = at})
    BY <1>5, <2>1, Few
  <2>3. EndsIn(toServer', OfKind("move"), {m \in OfKind("move") : m.at = at})
    BY <1>6, <1>7, <2>2, PlayTypes, Concat
  <2>4. Near(at, at)
    BY PlayAssumption DEF Near
  <2> QED
    BY <1>2, <2>3, <2>4 DEF PosesAgree, Comes
<1>14. SlotsAgree'
  BY <1>2, <1>9, ReadIs, SlotsStay
<1>15. FlightsAgree'
  BY <1>2, <1>9, ReadIs, FlightsStay
<1> QED
  BY <1>10, <1>11, <1>12, <1>13, <1>14, <1>15 DEF PlayInv

LEMMA ReadAbilitiesKeeps ==
  ASSUME PlayInv, Read, Head(toClient).kind = "abilities" PROVE PlayInv'
<1>1. PICK h : h = Head(toClient)
  OBVIOUS
<1>2. h \in ClientPackets /\ h.kind = "abilities" /\ h.allowed \in BOOLEAN /\ h.flying \in BOOLEAN
  BY <1>1, ReadIs DEF ClientPackets
<1>3. client' = [client EXCEPT !.flying = h.flying, !.allowed = h.allowed]
  BY <1>1 DEF Read, ApplyAbilities
<1>4. /\ client' \in ClientStates
      /\ client'.life = client.life /\ client'.dead = client.dead /\ client'.told = client.told
      /\ client'.awaiting = client.awaiting /\ client'.reported = client.reported
      /\ client'.at = client.at /\ client'.slot = client.slot
      /\ client'.allowed = h.allowed /\ client'.flying = h.flying
  BY <1>2, <1>3, PlayTypes DEF ClientStates
<1>5. PlayTypeOK'
  BY <1>4, ReadIs, Unanswered DEF PlayInv, PlayTypeOK
<1>6. LivesAgree' /\ Paired(toClient')
  <2>1. client.life + 0 = client.life
    BY PlayTypes
  <2> QED
    BY <1>4, <2>1, ReadIs DEF LivesAgree
<1>7. MirrorsAgree'
  BY <1>4, ReadIs, Unanswered, MirrorsStay
<1>8. PosesAgree'
  <2>1. Alike(toClient, toClient', OfKind("position"))
    BY ReadIs
  <2>2. Lacks(toClient', OfKind("position")) => Lacks(toClient, OfKind("position"))
    BY <2>1 DEF Alike
  <2> QED
    BY <1>4, <2>2, ReadIs, Unanswered, PosesStay
<1>9. SlotsAgree'
  BY <1>4, ReadIs, Unanswered, SlotsStay
<1>10. h \in OfKind("abilities")
  BY <1>2 DEF OfKind
<1>11. ~Lacks(toClient, OfKind("abilities"))
  BY <1>1, <1>10, ReadIs
<1>12. \A V : EndsIn(toClient, OfKind("abilities"), V)
         => (Lacks(toClient', OfKind("abilities")) /\ h \in V) \/ EndsIn(toClient', OfKind("abilities"), V)
  BY <1>1, ReadIs
<1>13. UNCHANGED server /\ toServer' = toServer /\ UNCHANGED crossed
  BY ReadIs, Unanswered
<1>14. Comes(toClient', OfKind("abilities"), {m \in OfKind("abilities") : m.allowed = server.allowed},
             h.allowed = server.allowed)
  <2>1. EndsIn(toClient, OfKind("abilities"), {m \in OfKind("abilities") : m.allowed = server.allowed})
    BY <1>11 DEF PlayInv, FlightsAgree, Comes
  <2> QED
    BY <1>12, <2>1 DEF Comes
<1>15. ASSUME "flying" \notin crossed
       PROVE  /\ Lacks(toServer, OfKind("fly"))
              /\ Comes(toClient', OfKind("abilities"),
                       {m \in OfKind("abilities") : m.flying = server.flying},
                       server.flying = h.flying)
  <2>1. /\ Lacks(toServer, OfKind("fly"))
        /\ EndsIn(toClient, OfKind("abilities"),
                  {m \in OfKind("abilities") : m.flying = server.flying})
    BY <1>11, <1>15 DEF PlayInv, FlightsAgree, Comes
  <2> QED
    BY <1>12, <2>1 DEF Comes
<1>16. FlightsAgree'
  BY <1>4, <1>13, <1>14, <1>15 DEF FlightsAgree
<1> QED
  BY <1>5, <1>6, <1>7, <1>8, <1>9, <1>16 DEF PlayInv

LEMMA ReadSlotKeeps ==
  ASSUME PlayInv, Read, Head(toClient).kind = "slot" PROVE PlayInv'
<1>1. PICK h : h = Head(toClient)
  OBVIOUS
<1>2. h \in ClientPackets /\ h.kind = "slot" /\ h.slot \in Slots
  BY <1>1, ReadIs DEF ClientPackets
<1>3. client' = [client EXCEPT !.slot = h.slot]
  BY <1>1 DEF Read
<1>4. /\ client' \in ClientStates
      /\ client'.life = client.life /\ client'.dead = client.dead /\ client'.told = client.told
      /\ client'.awaiting = client.awaiting /\ client'.reported = client.reported
      /\ client'.at = client.at /\ client'.slot = h.slot
      /\ client'.allowed = client.allowed /\ client'.flying = client.flying
  BY <1>2, <1>3, PlayTypes DEF ClientStates
<1>5. PlayTypeOK'
  BY <1>4, ReadIs, Unanswered DEF PlayInv, PlayTypeOK
<1>6. LivesAgree' /\ Paired(toClient')
  <2>1. client.life + 0 = client.life
    BY PlayTypes
  <2> QED
    BY <1>4, <2>1, ReadIs DEF LivesAgree
<1>7. MirrorsAgree'
  BY <1>4, ReadIs, Unanswered, MirrorsStay
<1>8. PosesAgree'
  <2>1. Alike(toClient, toClient', OfKind("position"))
    BY ReadIs
  <2>2. Lacks(toClient', OfKind("position")) => Lacks(toClient, OfKind("position"))
    BY <2>1 DEF Alike
  <2> QED
    BY <1>4, <2>2, ReadIs, Unanswered, PosesStay
<1>9. FlightsAgree'
  BY <1>4, ReadIs, Unanswered, FlightsStay
<1>10. h \in OfKind("slot")
  BY <1>2 DEF OfKind
<1>11. ~Lacks(toClient, OfKind("slot"))
  BY <1>1, <1>10, ReadIs
<1>12. \A V : EndsIn(toClient, OfKind("slot"), V)
         => (Lacks(toClient', OfKind("slot")) /\ h \in V) \/ EndsIn(toClient', OfKind("slot"), V)
  BY <1>1, ReadIs
<1>13. UNCHANGED server /\ toServer' = toServer /\ UNCHANGED crossed
  BY ReadIs, Unanswered
<1>14. ASSUME "slot" \notin crossed
       PROVE  /\ Lacks(toServer, OfKind("slot"))
              /\ Comes(toClient', OfKind("slot"),
                       {m \in OfKind("slot") : m.slot = server.slot}, server.slot = h.slot)
  <2>1. /\ Lacks(toServer, OfKind("slot"))
        /\ EndsIn(toClient, OfKind("slot"), {m \in OfKind("slot") : m.slot = server.slot})
    BY <1>11, <1>14 DEF PlayInv, SlotsAgree, Comes
  <2> QED
    BY <1>12, <2>1 DEF Comes
<1>15. SlotsAgree'
  BY <1>4, <1>13, <1>14 DEF SlotsAgree
<1> QED
  BY <1>5, <1>6, <1>7, <1>8, <1>9, <1>15 DEF PlayInv

LEMMA ReadKeeps == ASSUME PlayInv, Read PROVE PlayInv'
<1>1. Head(toClient).kind \in {"join", "health", "respawn", "slot", "position", "abilities"}
  BY ReadIs DEF ClientPackets
<1> QED
  BY <1>1, ReadJoinKeeps, ReadHealthKeeps, ReadRespawnKeeps, ReadPositionKeeps,
     ReadAbilitiesKeeps, ReadSlotKeeps

-----------------------------------------------------------------------------
(* The player: the server.                                                 *)

\* What the server tells: no packet of it is of a kind the server is told.
LEMMA TellIs ==
  ASSUME PlayInv, NEW b \in Seq(ClientPackets), toClient' = toClient \o b
  PROVE  /\ toClient' \in Seq(ClientPackets)
         /\ \A C : Lacks(toClient', C) <=> Lacks(toClient, C) /\ Lacks(b, C)
         /\ \A C, V : EndsIn(b, C, V) => EndsIn(toClient', C, V)
         /\ \A C, V : Lacks(b, C) /\ EndsIn(toClient, C, V) => EndsIn(toClient', C, V)
         /\ \A K : Lacks(b, K) => Alike(toClient, toClient', K)
         /\ Paired(b) => Paired(toClient')
         /\ \A last : (\E g : IsChain(g, b, server.life, last))
              => \E h : IsChain(h, toClient', client.life, last)
<1>1. toClient \in Seq(ClientPackets) /\ Paired(toClient)
  BY PlayTypes DEF PlayInv
<1>2. toClient' \in Seq(ClientPackets)
  BY <1>1, ConcatIs
<1>3. Paired(b) => Paired(toClient')
  BY <1>1, PairedConcat
<1>4. ASSUME NEW last, NEW g, IsChain(g, b, server.life, last)
      PROVE  \E h : IsChain(h, toClient', client.life, last)
  <2>1. PICK f : IsChain(f, toClient, client.life, server.life)
    BY DEF PlayInv, LivesAgree
  <2> QED
    BY <1>1, <1>4, <2>1, ChainConcat
<1>5. \A K : Lacks(b, K) => Alike(toClient, toClient', K)
  BY <1>1, AlikeIs
<1> QED
  BY <1>1, <1>2, <1>3, <1>4, <1>5, Concat

\* What the session has said stays as it was.
LEMMA Unsaid == ASSUME PlayInv, UNCHANGED toServer PROVE \A K : Alike(toServer, toServer', K)
BY PlayTypes, AlikeIs

LEMMA KillKeeps == ASSUME PlayInv, Kill PROVE PlayInv'
<1>1. PICK x : x = [kind |-> "health"]
  OBVIOUS
<1>2. x \in ClientPackets /\ x.kind = "health"
  BY <1>1 DEF ClientPackets
<1>3. PICK b : b = <<x>>
  OBVIOUS
<1>4. b \in Seq(ClientPackets)
  BY <1>2, <1>3
<1>5. /\ server' = [server EXCEPT !.alive = FALSE] /\ toClient' = toClient \o b
      /\ UNCHANGED <<scenario, client, toServer, crossed>>
  BY <1>1, <1>3 DEF Kill, Tell
<1>6. /\ server' \in ServerStates /\ server'.life = server.life /\ server'.flags = server.flags
      /\ server'.at = server.at /\ server'.pending = server.pending
      /\ server'.allowed = server.allowed /\ server'.flying = server.flying
      /\ server'.slot = server.slot
  BY <1>5, PlayTypes DEF ServerStates
<1>7. \A kind \in {"position", "slot", "abilities"} : Alike(toClient, toClient', OfKind(kind))
  <2>1. \A kind \in {"position", "slot", "abilities"} : Lacks(b, OfKind(kind))
    BY <1>2, <1>3, Few DEF OfKind
  <2> QED
    BY <1>4, <1>5, <2>1, TellIs
<1>8. PlayTypeOK'
  BY <1>4, <1>5, <1>6, TellIs DEF PlayInv, PlayTypeOK
<1>9. LivesAgree' /\ Paired(toClient')
  <2>1. Paired(b) /\ \E g : IsChain(g, b, server.life, server.life)
    BY <1>2, <1>3, PairedFew, ChainFew, PlayTypes
  <2> QED
    BY <1>4, <1>5, <1>6, <2>1, TellIs DEF LivesAgree
<1>10. MirrorsAgree'
  BY <1>5, <1>6, Unsaid, MirrorsStay
<1>11. PosesAgree'
  <2>1. Lacks(toClient', OfKind("position")) => Lacks(toClient, OfKind("position"))
    BY <1>7 DEF Alike
  <2> QED
    BY <1>5, <1>6, <2>1, Unsaid, PosesStay
<1>12. SlotsAgree'
  BY <1>5, <1>6, <1>7, Unsaid, SlotsStay
<1>13. FlightsAgree'
  BY <1>5, <1>6, <1>7, Unsaid, FlightsStay
<1> QED
  BY <1>8, <1>9, <1>10, <1>11, <1>12, <1>13 DEF PlayInv

LEMMA PositionsAre == Spawn \in Positions /\ \A p \in Positions : p \in Int
<1>1. Positions \subseteq Nat /\ Spawn \in Positions
  BY PlayAssumption
<1>2. \A p \in Positions : p \in Nat
  BY <1>1
<1> QED
  BY <1>1, <1>2

LEMMA PlacedIs ==
  ASSUME NEW p \in Int
  PROVE  Placed(p) \in ClientPackets /\ Placed(p).kind = "position"
BY DEF Placed, ClientPackets

\* A new player on the server: what it hears from the old one's session does
\* not concern it, and the session learns of it with its next respawn.
LEMMA NewLifeKeeps ==
  ASSUME PlayInv, NewLife, UNCHANGED <<scenario, client>>,
         toServer' \in Seq(ServerPackets),
         \A kind \in {"edge", "slot", "fly"} : Alike(toServer, toServer', OfKind(kind))
  PROVE  PlayInv'
<1>1. PICK x, y : x = [kind |-> "respawn"] /\ y = Placed(Spawn)
  OBVIOUS
<1>2. Spawn \in Positions /\ Spawn \in Int
  BY PositionsAre
<1>3. x \in ClientPackets /\ x.kind = "respawn" /\ y \in ClientPackets /\ y.kind = "position"
  BY <1>1, <1>2, PlacedIs DEF ClientPackets
<1>4. PICK b : b = <<x, y>>
  OBVIOUS
<1>5. b \in Seq(ClientPackets)
  BY <1>3, <1>4
<1>6. /\ server' = [server EXCEPT !.alive = TRUE, !.life = server.life + 1, !.flags = Unset,
                                  !.at = Spawn, !.pending = {Spawn}]
      /\ toClient' = toClient \o b /\ crossed' = crossed \ {"flags"}
  <2>1. server \in ServerStates
    BY PlayTypes
  <2> QED
    BY <1>1, <1>4, <2>1 DEF NewLife, Tell, ServerStates
<1>7. /\ server' \in ServerStates /\ server'.life = server.life + 1 /\ server'.flags = Unset
      /\ server'.allowed = server.allowed /\ server'.flying = server.flying
      /\ server'.slot = server.slot
  <2>1. server \in ServerStates /\ server.life + 1 \in Nat
    BY PlayTypes
  <2>2. server' \in ServerStates
    BY <1>2, <1>6, <2>1, UnsetIs DEF ServerStates
  <2> QED
    BY <1>6, <2>1, <2>2 DEF ServerStates
<1>8. \A kind \in {"slot", "abilities"} : Alike(toClient, toClient', OfKind(kind))
  <2>1. \A kind \in {"slot", "abilities"} : Lacks(b, OfKind(kind))
    BY <1>3, <1>4, Few DEF OfKind
  <2> QED
    BY <1>5, <1>6, <2>1, TellIs
<1>9. crossed' \subseteq {"flags", "flying", "slot", "join"}
  BY <1>6, PlayTypes
<1>10. PlayTypeOK'
  BY <1>5, <1>6, <1>7, <1>9, TellIs DEF PlayInv, PlayTypeOK
<1>11. LivesAgree' /\ Paired(toClient')
  <2>1. Paired(b) /\ \E g : IsChain(g, b, server.life, server.life + 1)
    BY <1>3, <1>4, PairedFew, ChainFew, PlayTypes
  <2> QED
    BY <1>5, <1>6, <1>7, <2>1, TellIs DEF LivesAgree
<1>12. MirrorsAgree'
  <2>1. PICK f : IsChain(f, toClient, client.life, server.life)
    BY DEF PlayInv, LivesAgree
  <2>2. client.life \in Nat /\ server.life \in Nat /\ client.life <= server.life
    BY <2>1, PlayTypes, ChainOrders
  <2>3. client'.life # server'.life
    BY <1>7, <2>2
  <2>4. Lacks(toServer', {m \in OfKind("edge") : m.life > client.life})
    BY DEF PlayInv, MirrorsAgree, Alike
  <2> QED
    BY <1>7, <2>3, <2>4 DEF MirrorsAgree
<1>13. PosesAgree'
  <2>1. ~Lacks(b, OfKind("position"))
    <3>1. y \in OfKind("position")
      BY <1>3 DEF OfKind
    <3>2. 2 \in DOMAIN b /\ b[2] = y
      BY <1>4
    <3> QED
      BY <3>1, <3>2 DEF Lacks
  <2>2. ~Lacks(toClient', OfKind("position"))
    BY <1>5, <1>6, <2>1, TellIs
  <2> QED
    BY <2>2, PosesOpen
<1>14. SlotsAgree'
  BY <1>6, <1>7, <1>8, SlotsStay
<1>15. FlightsAgree'
  BY <1>6, <1>7, <1>8, FlightsStay
<1> QED
  BY <1>10, <1>11, <1>12, <1>13, <1>14, <1>15 DEF PlayInv

LEMMA TravelKeeps == ASSUME PlayInv, Travel PROVE PlayInv'
<1>1. NewLife /\ UNCHANGED <<scenario, client, toServer>>
  BY DEF Travel
<1> QED
  BY <1>1, NewLifeKeeps, Unsaid, PlayTypes

LEMMA RejoinKeeps == ASSUME PlayInv, Rejoin PROVE PlayInv'
<1>1. PICK x, y : x = [kind |-> "join"] /\ y = Placed(Spawn)
  OBVIOUS
<1>2. Spawn \in Positions /\ Spawn \in Int
  BY PositionsAre
<1>3. x \in ClientPackets /\ x.kind = "join" /\ y \in ClientPackets /\ y.kind = "position"
  BY <1>1, <1>2, PlacedIs DEF ClientPackets
<1>4. PICK b : b = <<x, y>>
  OBVIOUS
<1>5. b \in Seq(ClientPackets)
  BY <1>3, <1>4
<1>6. /\ server' = [server EXCEPT !.flags = Unset, !.at = Spawn, !.pending = {Spawn}]
      /\ toClient' = toClient \o b /\ crossed' = crossed \cup {"join"}
      /\ UNCHANGED <<scenario, client, toServer>>
  BY <1>1, <1>4 DEF Rejoin, Tell
<1>7. /\ server' \in ServerStates /\ server'.life = server.life /\ server'.flags = Unset
      /\ server'.allowed = server.allowed /\ server'.flying = server.flying
      /\ server'.slot = server.slot
  BY <1>2, <1>6, PlayTypes, UnsetIs DEF ServerStates
<1>8. \A kind \in {"slot", "abilities"} : Alike(toClient, toClient', OfKind(kind))
  <2>1. \A kind \in {"slot", "abilities"} : Lacks(b, OfKind(kind))
    BY <1>3, <1>4, Few DEF OfKind
  <2> QED
    BY <1>5, <1>6, <2>1, TellIs
<1>9. crossed' \subseteq {"flags", "flying", "slot", "join"}
  BY <1>6, PlayTypes
<1>10. PlayTypeOK'
  BY <1>5, <1>6, <1>7, <1>9, TellIs DEF PlayInv, PlayTypeOK
<1>11. LivesAgree' /\ Paired(toClient')
  <2>1. Paired(b) /\ \E g : IsChain(g, b, server.life, server.life)
    BY <1>3, <1>4, PairedFew, ChainFew, PlayTypes
  <2> QED
    BY <1>5, <1>6, <1>7, <2>1, TellIs DEF LivesAgree
<1>12. MirrorsAgree'
  <2>1. "join" \in crossed'
    BY <1>6
  <2>2. Lacks(toServer', {m \in OfKind("edge") : m.life > client.life})
    BY <1>6 DEF PlayInv, MirrorsAgree
  <2> QED
    BY <1>6, <1>7, <2>1, <2>2 DEF MirrorsAgree
<1>13. PosesAgree'
  <2>1. ~Lacks(b, OfKind("position"))
    <3>1. y \in OfKind("position")
      BY <1>3 DEF OfKind
    <3>2. 2 \in DOMAIN b /\ b[2] = y
      BY <1>4
    <3> QED
      BY <3>1, <3>2 DEF Lacks
  <2>2. ~Lacks(toClient', OfKind("position"))
    BY <1>5, <1>6, <2>1, TellIs
  <2> QED
    BY <2>2, PosesOpen
<1>14. SlotsAgree'
  BY <1>6, <1>7, <1>8, Unsaid, SlotsStay
<1>15. FlightsAgree'
  BY <1>6, <1>7, <1>8, Unsaid, FlightsStay
<1> QED
  BY <1>10, <1>11, <1>12, <1>13, <1>14, <1>15 DEF PlayInv

\* A placement that is told: whatever it is of, it will be read first.
LEMMA PlacementKeeps ==
  ASSUME PlayInv, NEW x \in ClientPackets, x.kind = "position",
         toClient' = toClient \o <<x>>, UNCHANGED <<scenario, client, toServer, crossed>>,
         server' \in ServerStates, server'.life = server.life, server'.flags = server.flags,
         server'.allowed = server.allowed, server'.flying = server.flying,
         server'.slot = server.slot
  PROVE  PlayInv'
<1>1. PICK b : b = <<x>>
  OBVIOUS
<1>2. b \in Seq(ClientPackets) /\ toClient' = toClient \o b
  BY <1>1
<1>3. \A kind \in {"slot", "abilities"} : Alike(toClient, toClient', OfKind(kind))
  <2>1. \A kind \in {"slot", "abilities"} : Lacks(b, OfKind(kind))
    BY <1>1, Few DEF OfKind
  <2> QED
    BY <1>2, <2>1, TellIs
<1>4. PlayTypeOK'
  BY <1>2, TellIs DEF PlayInv, PlayTypeOK
<1>5. LivesAgree' /\ Paired(toClient')
  <2>1. Paired(b) /\ \E g : IsChain(g, b, server.life, server.life)
    BY <1>1, PairedFew, ChainFew, PlayTypes
  <2> QED
    BY <1>2, <2>1, TellIs DEF LivesAgree
<1>6. MirrorsAgree'
  BY Unsaid, MirrorsStay
<1>7. PosesAgree'
  <2>1. ~Lacks(b, OfKind("position"))
    <3>1. x \in OfKind("position")
      BY DEF OfKind
    <3>2. 1 \in DOMAIN b /\ b[1] = x
      BY <1>1
    <3> QED
      BY <3>1, <3>2 DEF Lacks
  <2>2. ~Lacks(toClient', OfKind("position"))
    BY <1>2, <2>1, TellIs
  <2> QED
    BY <2>2, PosesOpen
<1>8. SlotsAgree'
  BY <1>3, Unsaid, SlotsStay
<1>9. FlightsAgree'
  BY <1>3, Unsaid, FlightsStay
<1> QED
  BY <1>4, <1>5, <1>6, <1>7, <1>8, <1>9 DEF PlayInv

LEMMA RepositionKeeps ==
  ASSUME PlayInv, NEW p \in scenario.moves, NEW relative \in BOOLEAN, Reposition(p, relative)
  PROVE  PlayInv'
<1>1. p \in Positions /\ p \in Int
  <2>1. scenario.moves \subseteq Positions
    BY PlayTypes, PlayAssumption
  <2>2. p \in Positions
    BY <2>1
  <2> QED
    BY <2>2, PositionsAre
<1>2. PICK at \in Int : at = IF relative THEN p - server.at ELSE p
  BY <1>1, PlayTypes
<1>3. PICK x : x = [kind |-> "position", relative |-> relative, at |-> at]
  OBVIOUS
<1>4. x \in ClientPackets /\ x.kind = "position"
  BY <1>2, <1>3 DEF ClientPackets
<1>5. /\ server' = [server EXCEPT !.pending = {p}, !.at = p] /\ toClient' = toClient \o <<x>>
      /\ UNCHANGED <<scenario, client, toServer, crossed>>
  BY <1>2, <1>3 DEF Reposition, Tell
<1>6. /\ server' \in ServerStates /\ server'.life = server.life /\ server'.flags = server.flags
      /\ server'.allowed = server.allowed /\ server'.flying = server.flying
      /\ server'.slot = server.slot
  BY <1>1, <1>5, PlayTypes DEF ServerStates
<1> QED
  BY <1>4, <1>5, <1>6, PlacementKeeps

LEMMA ResendKeeps == ASSUME PlayInv, Resend PROVE PlayInv'
<1>1. server.pending \subseteq Positions /\ server \in ServerStates
  BY PlayTypes DEF ServerStates
<1>2. PICK p \in server.pending : toClient' = toClient \o <<Placed(p)>>
  BY DEF Resend, Tell
<1>3. p \in Int
  BY <1>1, PositionsAre
<1>4. UNCHANGED <<scenario, client, server, toServer, crossed>>
  BY DEF Resend
<1> QED
  BY <1>1, <1>2, <1>3, <1>4, PlacedIs, PlacementKeeps

LEMMA SetAbilitiesKeeps ==
  ASSUME PlayInv, NEW allowed \in BOOLEAN, NEW flying \in BOOLEAN, SetAbilities(allowed, flying)
  PROVE  PlayInv'
<1>1. PICK x : x = [kind |-> "abilities", allowed |-> allowed, flying |-> flying]
  OBVIOUS
<1>2. /\ x \in ClientPackets /\ x.kind = "abilities" /\ x.allowed = allowed
      /\ x.flying = flying
  BY <1>1 DEF ClientPackets
<1>3. PICK b : b = <<x>>
  OBVIOUS
<1>4. b \in Seq(ClientPackets)
  BY <1>2, <1>3
<1>5. /\ server' = [server EXCEPT !.allowed = allowed, !.flying = flying]
      /\ toClient' = toClient \o b /\ Decided("flying", On(toServer, "fly"))
      /\ UNCHANGED <<scenario, client, toServer>>
  BY <1>1, <1>3 DEF SetAbilities, Tell
<1>6. /\ server' \in ServerStates /\ server'.life = server.life /\ server'.flags = server.flags
      /\ server'.at = server.at /\ server'.pending = server.pending
      /\ server'.allowed = allowed /\ server'.flying = flying /\ server'.slot = server.slot
  BY <1>5, PlayTypes DEF ServerStates
<1>7. \A kind \in {"position", "slot"} : Alike(toClient, toClient', OfKind(kind))
  <2>1. \A kind \in {"position", "slot"} : Lacks(b, OfKind(kind))
    BY <1>2, <1>3, Few DEF OfKind
  <2> QED
    BY <1>4, <1>5, <2>1, TellIs
<1>8. /\ crossed' \subseteq {"flags", "flying", "slot", "join"}
      /\ "flying" \notin crossed' => ~On(toServer, "fly")
      /\ \A d : d # "flying" /\ d \notin crossed' => d \notin crossed
  BY <1>5, DecidedIs
<1>9. PlayTypeOK'
  BY <1>4, <1>5, <1>6, <1>8, TellIs DEF PlayInv, PlayTypeOK
<1>10. LivesAgree' /\ Paired(toClient')
  <2>1. Paired(b) /\ \E g : IsChain(g, b, server.life, server.life)
    BY <1>2, <1>3, PairedFew, ChainFew, PlayTypes
  <2> QED
    BY <1>4, <1>5, <1>6, <2>1, TellIs DEF LivesAgree
<1>11. MirrorsAgree'
  BY <1>5, <1>6, <1>8, Unsaid, MirrorsStay
<1>12. PosesAgree'
  <2>1. Lacks(toClient', OfKind("position")) => Lacks(toClient, OfKind("position"))
    BY <1>7 DEF Alike
  <2> QED
    BY <1>5, <1>6, <2>1, Unsaid, PosesStay
<1>13. SlotsAgree'
  BY <1>5, <1>6, <1>7, <1>8, Unsaid, SlotsStay
<1>14. FlightsAgree'
  <2>1. x \in OfKind("abilities")
    BY <1>2 DEF OfKind
  <2>2. \A V : x \in V => EndsIn(toClient', OfKind("abilities"), V)
    <3>1. \A V : x \in V => EndsIn(b, OfKind("abilities"), V)
      BY <1>3, <2>1, Few
    <3> QED
      BY <1>4, <1>5, <3>1, TellIs
  <2>3. "flying" \notin crossed' => Lacks(toServer', OfKind("fly"))
    BY <1>5, <1>8, OnIs, PlayTypes
  <2> QED
    BY <1>2, <1>6, <2>1, <2>2, <2>3 DEF FlightsAgree, Comes
<1> QED
  BY <1>9, <1>10, <1>11, <1>12, <1>13, <1>14 DEF PlayInv

LEMMA SetSlotKeeps == ASSUME PlayInv, NEW s \in scenario.slots, SetSlot(s) PROVE PlayInv'
<1>1. s \in Slots
  BY PlayTypes DEF Slots
<1>2. PICK x : x = [kind |-> "slot", slot |-> s]
  OBVIOUS
<1>3. x \in ClientPackets /\ x.kind = "slot" /\ x.slot = s
  BY <1>1, <1>2 DEF ClientPackets
<1>4. PICK b : b = <<x>>
  OBVIOUS
<1>5. b \in Seq(ClientPackets)
  BY <1>3, <1>4
<1>6. /\ server' = [server EXCEPT !.slot = s] /\ toClient' = toClient \o b
      /\ Decided("slot", On(toServer, "slot")) /\ UNCHANGED <<scenario, client, toServer>>
  BY <1>2, <1>4 DEF SetSlot, Tell
<1>7. /\ server' \in ServerStates /\ server'.life = server.life /\ server'.flags = server.flags
      /\ server'.at = server.at /\ server'.pending = server.pending
      /\ server'.allowed = server.allowed /\ server'.flying = server.flying
      /\ server'.slot = s
  BY <1>1, <1>6, PlayTypes DEF ServerStates
<1>8. \A kind \in {"position", "abilities"} : Alike(toClient, toClient', OfKind(kind))
  <2>1. \A kind \in {"position", "abilities"} : Lacks(b, OfKind(kind))
    BY <1>3, <1>4, Few DEF OfKind
  <2> QED
    BY <1>5, <1>6, <2>1, TellIs
<1>9. /\ crossed' \subseteq {"flags", "flying", "slot", "join"}
      /\ "slot" \notin crossed' => ~On(toServer, "slot")
      /\ \A d : d # "slot" /\ d \notin crossed' => d \notin crossed
  BY <1>6, DecidedIs
<1>10. PlayTypeOK'
  BY <1>5, <1>6, <1>7, <1>9, TellIs DEF PlayInv, PlayTypeOK
<1>11. LivesAgree' /\ Paired(toClient')
  <2>1. Paired(b) /\ \E g : IsChain(g, b, server.life, server.life)
    BY <1>3, <1>4, PairedFew, ChainFew, PlayTypes
  <2> QED
    BY <1>5, <1>6, <1>7, <2>1, TellIs DEF LivesAgree
<1>12. MirrorsAgree'
  BY <1>6, <1>7, <1>9, Unsaid, MirrorsStay
<1>13. PosesAgree'
  <2>1. Lacks(toClient', OfKind("position")) => Lacks(toClient, OfKind("position"))
    BY <1>8 DEF Alike
  <2> QED
    BY <1>6, <1>7, <2>1, Unsaid, PosesStay
<1>14. FlightsAgree'
  BY <1>6, <1>7, <1>8, <1>9, Unsaid, FlightsStay
<1>15. SlotsAgree'
  <2>1. x \in OfKind("slot")
    BY <1>3 DEF OfKind
  <2>2. \A V : x \in V => EndsIn(toClient', OfKind("slot"), V)
    <3>1. \A V : x \in V => EndsIn(b, OfKind("slot"), V)
      BY <1>4, <2>1, Few
    <3> QED
      BY <1>5, <1>6, <3>1, TellIs
  <2>3. "slot" \notin crossed' => Lacks(toServer', OfKind("slot"))
    BY <1>6, <1>9, OnIs, PlayTypes
  <2> QED
    BY <1>3, <1>7, <2>1, <2>2, <2>3 DEF SlotsAgree, Comes
<1> QED
  BY <1>10, <1>11, <1>12, <1>13, <1>14, <1>15 DEF PlayInv

\* What the server finds first on its way.
LEMMA ServerReadIs ==
  ASSUME PlayInv, toServer # <<>>, toServer' = Tail(toServer)
  PROVE  /\ Head(toServer) \in ServerPackets /\ toServer' \in Seq(ServerPackets)
         /\ \A C : Lacks(toServer, C) <=> Head(toServer) \notin C /\ Lacks(toServer', C)
         /\ \A C, V : EndsIn(toServer, C, V)
              => (Lacks(toServer', C) /\ Head(toServer) \in C \cap V) \/ EndsIn(toServer', C, V)
         /\ \A kind : Head(toServer).kind # kind => Alike(toServer, toServer', OfKind(kind))
<1>1. toServer \in Seq(ServerPackets)
  BY PlayTypes
<1>2. ASSUME NEW kind, Head(toServer).kind # kind
      PROVE  Alike(toServer, toServer', OfKind(kind))
  <2>1. Head(toServer) \notin OfKind(kind)
    BY <1>2 DEF OfKind
  <2> QED
    BY <1>1, <2>1, AlikeIs
<1> QED
  BY <1>1, <1>2, TailIs, Behind

\* A read that begins no new life is of the server alone.
Reads(packet) ==
  /\ toServer # <<>> /\ toServer' = Tail(toServer) /\ packet = Head(toServer)
  /\ UNCHANGED <<scenario, client, toClient>>
  /\ crossed' = IF packet.kind = "edge" /\ packet.life # server.life
                THEN crossed \cup {"flags"} ELSE crossed

LEMMA ReadsIs ==
  ASSUME PlayInv, NEW h, Reads(h)
  PROVE  /\ h \in ServerPackets /\ toServer' \in Seq(ServerPackets)
         /\ \A K : Alike(toClient, toClient', K)
         /\ server' \in ServerStates => PlayTypeOK'
         /\ server'.life = server.life => LivesAgree' /\ Paired(toClient')
         /\ \A d : d \notin crossed' => d \notin crossed
<1>1. /\ crossed' \subseteq {"flags", "flying", "slot", "join"}
      /\ \A d : d \notin crossed' => d \notin crossed
  BY PlayTypes DEF Reads
<1>2. h \in ServerPackets /\ toServer' \in Seq(ServerPackets)
  BY ServerReadIs DEF Reads
<1>3. \A K : Alike(toClient, toClient', K)
  BY PlayTypes, AlikeIs DEF Reads
<1>4. UNCHANGED <<scenario, client, toClient>>
  BY DEF Reads
<1>5. server'.life = server.life => LivesAgree' /\ Paired(toClient')
  BY <1>4 DEF PlayInv, LivesAgree
<1> QED
  BY <1>1, <1>2, <1>3, <1>4, <1>5 DEF PlayInv, PlayTypeOK

LEMMA EdgeReadKeeps ==
  ASSUME PlayInv, NEW h, Reads(h), h.kind = "edge",
         server' = [server EXCEPT !.flags[h.flag] = h.on]
  PROVE  PlayInv'
<1>1. h \in ServerPackets /\ h.flag \in Flags /\ h.on \in BOOLEAN /\ h.life \in Nat
  BY ReadsIs DEF ServerPackets
<1>2. server \in ServerStates /\ server.flags \in [Flags -> BOOLEAN]
  BY PlayTypes DEF ServerStates
<1>3. server' = [server EXCEPT !.flags = [server.flags EXCEPT ![h.flag] = h.on]]
  BY <1>2 DEF ServerStates
<1>4. PICK flags \in [Flags -> BOOLEAN] : flags = [server.flags EXCEPT ![h.flag] = h.on]
  BY <1>1, <1>2
<1>5. /\ server' \in ServerStates /\ server'.life = server.life /\ server'.flags = flags
      /\ server'.at = server.at /\ server'.pending = server.pending
      /\ server'.allowed = server.allowed /\ server'.flying = server.flying
      /\ server'.slot = server.slot
  BY <1>2, <1>3, <1>4 DEF ServerStates
<1>6. UNCHANGED <<client, toClient>> /\ toServer # <<>> /\ toServer' = Tail(toServer) /\ h = Head(toServer)
  BY DEF Reads
<1>7. \A kind \in {"move", "slot", "fly"} : Alike(toServer, toServer', OfKind(kind))
  BY <1>6, ServerReadIs
<1>8. PosesAgree' /\ SlotsAgree' /\ FlightsAgree'
  <2>1. PosesAgree'
    BY <1>5, <1>6, <1>7, PosesStay
  <2>2. SlotsAgree'
    BY <1>5, <1>6, <1>7, ReadsIs, SlotsStay
  <2>3. FlightsAgree'
    BY <1>5, <1>6, <1>7, ReadsIs, FlightsStay
  <2> QED
    BY <2>1, <2>2, <2>3
<1>9. h \in OfKind("edge")
  BY <1>1 DEF OfKind
<1>10. /\ \A C : Lacks(toServer, C) <=> h \notin C /\ Lacks(toServer', C)
       /\ \A C, V : EndsIn(toServer, C, V)
            => (Lacks(toServer', C) /\ h \in C \cap V) \/ EndsIn(toServer', C, V)
  BY <1>6, ServerReadIs
<1>11. MirrorsAgree'
  <2>1. PICK Late, Other :
          /\ Late = {m \in OfKind("edge") : m.life > client.life}
          /\ Other = {m \in OfKind("edge") : m.life # client.life}
    OBVIOUS
  <2>2. Lacks(toServer', Late) /\ h \notin Late
    BY <1>10, <2>1 DEF PlayInv, MirrorsAgree
  <2>3. h.life <= client.life /\ client.life \in Nat /\ server.life \in Nat
    BY <1>1, <1>9, <2>1, <2>2, PlayTypes
  <2>4. "flags" \notin crossed' => h.life = server.life
    BY DEF Reads
  <2>5. ASSUME NEW f \in Flags, "flags" \notin crossed', "join" \notin crossed',
               client.life = server.life, ~client.dead, Lacks(toServer', Other)
        PROVE  Comes(toServer', EdgesOf(f), {m \in EdgesOf(f) : m.on = client.told[f]},
                     flags[f] = client.told[f])
    <3>1. Lacks(toServer, Other)
      <4>1. h \notin Other
        BY <2>1, <2>4, <2>5
      <4> QED
        BY <1>10, <2>5, <4>1
    <3>2. PICK V : V = {m \in EdgesOf(f) : m.on = client.told[f]}
      OBVIOUS
    <3>3. Comes(toServer, EdgesOf(f), V, server.flags[f] = client.told[f])
      <4>1. "flags" \notin crossed /\ "join" \notin crossed
        BY <2>5, ReadsIs
      <4> QED
        BY <2>1, <2>5, <3>1, <3>2, <4>1 DEF PlayInv, MirrorsAgree
    <3>4. CASE f = h.flag
      <4>1. h \in EdgesOf(f) /\ flags[f] = h.on
        BY <1>1, <1>2, <1>4, <1>9, <3>4 DEF EdgesOf
      <4>2. EndsIn(toServer, EdgesOf(f), V)
        BY <1>10, <3>3, <4>1 DEF Comes
      <4>3. (Lacks(toServer', EdgesOf(f)) /\ h \in V) \/ EndsIn(toServer', EdgesOf(f), V)
        BY <1>10, <4>2
      <4> QED
        BY <3>2, <4>1, <4>3 DEF Comes
    <3>5. CASE f # h.flag
      <4>1. h \notin EdgesOf(f) /\ flags[f] = server.flags[f]
        BY <1>1, <1>2, <1>4, <3>5 DEF EdgesOf
      <4> QED
        BY <1>10, <3>2, <3>3, <4>1 DEF Comes
    <3> QED
      BY <3>4, <3>5
  <2>6. ~("flags" \notin crossed' /\ client.life < server.life)
    BY <2>3, <2>4
  <2>7. client' = client /\ server'.life = server.life /\ server'.flags = flags
    BY <1>5, <1>6
  <2> QED
    BY <2>1, <2>2, <2>5, <2>6, <2>7 DEF MirrorsAgree
<1> QED
  BY <1>5, <1>8, <1>11, ReadsIs DEF PlayInv

LEMMA MoveReadKeeps ==
  ASSUME PlayInv, NEW h, Reads(h), h.kind = "move", server' = Moves(h.at)
  PROVE  PlayInv'
<1>1. h \in ServerPackets /\ h.at \in Int /\ h \in OfKind("move")
  BY ReadsIs DEF ServerPackets, OfKind
<1>2. /\ server' \in ServerStates /\ server'.life = server.life /\ server'.flags = server.flags
      /\ server'.allowed = server.allowed /\ server'.flying = server.flying
      /\ server'.slot = server.slot
      /\ server'.pending = {} => server'.at = h.at
  <2>1. server \in ServerStates
    BY PlayTypes
  <2>2. CASE server.pending \subseteq {h.at}
    <3>1. server' = [server EXCEPT !.at = h.at, !.pending = {}]
      BY <2>2 DEF Moves
    <3> QED
      BY <1>1, <2>1, <3>1 DEF ServerStates
  <2>3. CASE ~(server.pending \subseteq {h.at})
    <3>1. server' = server
      BY <2>3 DEF Moves
    <3> QED
      BY <2>1, <2>3, <3>1
  <2> QED
    BY <2>2, <2>3
<1>3. UNCHANGED <<client, toClient>> /\ toServer # <<>> /\ toServer' = Tail(toServer) /\ h = Head(toServer)
  BY DEF Reads
<1>4. \A kind \in {"edge", "slot", "fly"} : Alike(toServer, toServer', OfKind(kind))
  BY <1>3, ServerReadIs
<1>5. MirrorsAgree'
  BY <1>2, <1>3, <1>4, ReadsIs, MirrorsStay
<1>6. SlotsAgree'
  BY <1>2, <1>3, <1>4, ReadsIs, SlotsStay
<1>7. FlightsAgree'
  BY <1>2, <1>3, <1>4, ReadsIs, FlightsStay
<1>8. PosesAgree'
  <2>1. PICK V : V = {m \in OfKind("move") : m.at = client.reported}
    OBVIOUS
  <2>2. ASSUME Lacks(toClient, OfKind("position"))
        PROVE  /\ Near(client.reported, client.at)
               /\ Comes(toServer', OfKind("move"), V, server'.pending = {} => server'.at = client.reported)
    <3>1. Near(client.reported, client.at) /\ Comes(toServer, OfKind("move"), V, server.pending = {} => server.at = client.reported)
      BY <2>1, <2>2 DEF PlayInv, PosesAgree
    <3>2. EndsIn(toServer, OfKind("move"), V)
      BY <1>1, <1>3, <3>1, ServerReadIs DEF Comes
    <3>3. (Lacks(toServer', OfKind("move")) /\ h \in V) \/ EndsIn(toServer', OfKind("move"), V)
      BY <1>3, <3>2, ServerReadIs
    <3> QED
      BY <1>2, <2>1, <3>1, <3>3 DEF Comes
  <2>3. client.awaiting => ~Lacks(toClient, OfKind("position"))
    BY DEF PlayInv, PosesAgree
  <2> QED
    BY <1>3, <2>1, <2>2, <2>3 DEF PosesAgree
<1> QED
  BY <1>2, <1>5, <1>6, <1>7, <1>8, ReadsIs DEF PlayInv

LEMMA FlyReadKeeps ==
  ASSUME PlayInv, NEW h, Reads(h), h.kind = "fly",
         server' = [server EXCEPT !.flying = h.on /\ server.allowed]
  PROVE  PlayInv'
<1>1. h \in ServerPackets /\ h.on \in BOOLEAN /\ h \in OfKind("fly")
  BY ReadsIs DEF ServerPackets, OfKind
<1>2. server \in ServerStates /\ server.allowed \in BOOLEAN /\ client.flying \in BOOLEAN
  BY PlayTypes DEF ServerStates, ClientStates
<1>3. PICK flying \in BOOLEAN : flying = (h.on /\ server.allowed)
  BY <1>1, <1>2
<1>4. /\ server' \in ServerStates /\ server'.life = server.life /\ server'.flags = server.flags
      /\ server'.at = server.at /\ server'.pending = server.pending
      /\ server'.allowed = server.allowed /\ server'.flying = flying
      /\ server'.slot = server.slot
  BY <1>2, <1>3 DEF ServerStates
<1>5. UNCHANGED <<client, toClient>> /\ toServer # <<>> /\ toServer' = Tail(toServer) /\ h = Head(toServer)
  BY DEF Reads
<1>6. \A kind \in {"edge", "slot", "move"} : Alike(toServer, toServer', OfKind(kind))
  BY <1>5, ServerReadIs
<1>7. MirrorsAgree'
  BY <1>4, <1>5, <1>6, ReadsIs, MirrorsStay
<1>8. SlotsAgree'
  BY <1>4, <1>5, <1>6, ReadsIs, SlotsStay
<1>9. PosesAgree'
  BY <1>4, <1>5, <1>6, PosesStay
<1>10. FlightsAgree'
  <2>1. PICK V : V = {m \in OfKind("fly") : m.on = client.flying /\ (m.on => server.allowed)}
    OBVIOUS
  <2>2. ~Lacks(toServer, OfKind("fly"))
    BY <1>1, <1>5, ServerReadIs
  <2>3. Comes(toClient, OfKind("abilities"), {m \in OfKind("abilities") : m.allowed = server.allowed},
              client.allowed = server.allowed)
    BY DEF PlayInv, FlightsAgree
  <2>4. ASSUME "flying" \notin crossed'
        PROVE  /\ Lacks(toClient, OfKind("abilities"))
               /\ Comes(toServer', OfKind("fly"), V, flying = client.flying)
    <3>1. "flying" \notin crossed
      BY <2>4, ReadsIs
    <3>2. Lacks(toClient, OfKind("abilities")) /\ EndsIn(toServer, OfKind("fly"), V)
      BY <2>1, <2>2, <3>1 DEF PlayInv, FlightsAgree, Comes
    <3>3. (Lacks(toServer', OfKind("fly")) /\ h \in V) \/ EndsIn(toServer', OfKind("fly"), V)
      BY <1>5, <3>2, ServerReadIs
    <3>4. h \in V => flying = client.flying
      BY <1>1, <1>2, <1>3, <2>1
    <3> QED
      BY <3>2, <3>3, <3>4 DEF Comes
  <2> QED
    BY <1>4, <1>5, <2>1, <2>3, <2>4 DEF FlightsAgree
<1> QED
  BY <1>4, <1>7, <1>8, <1>9, <1>10, ReadsIs DEF PlayInv

LEMMA SlotReadKeeps ==
  ASSUME PlayInv, NEW h, Reads(h), h.kind = "slot", server' = [server EXCEPT !.slot = h.slot]
  PROVE  PlayInv'
<1>1. h \in ServerPackets /\ h.slot \in Slots /\ h \in OfKind("slot")
  BY ReadsIs DEF ServerPackets, OfKind
<1>2. /\ server' \in ServerStates /\ server'.life = server.life /\ server'.flags = server.flags
      /\ server'.at = server.at /\ server'.pending = server.pending
      /\ server'.allowed = server.allowed /\ server'.flying = server.flying
      /\ server'.slot = h.slot
  BY <1>1, PlayTypes DEF ServerStates
<1>3. UNCHANGED <<client, toClient>> /\ toServer # <<>> /\ toServer' = Tail(toServer) /\ h = Head(toServer)
  BY DEF Reads
<1>4. \A kind \in {"edge", "move", "fly"} : Alike(toServer, toServer', OfKind(kind))
  BY <1>3, ServerReadIs
<1>5. MirrorsAgree'
  BY <1>2, <1>3, <1>4, ReadsIs, MirrorsStay
<1>6. PosesAgree'
  BY <1>2, <1>3, <1>4, PosesStay
<1>7. FlightsAgree'
  BY <1>2, <1>3, <1>4, ReadsIs, FlightsStay
<1>8. SlotsAgree'
  <2>1. PICK V : V = {m \in OfKind("slot") : m.slot = client.slot}
    OBVIOUS
  <2>2. ~Lacks(toServer, OfKind("slot"))
    BY <1>1, <1>3, ServerReadIs
  <2>3. ASSUME "slot" \notin crossed'
        PROVE  /\ Lacks(toClient, OfKind("slot"))
               /\ Comes(toServer', OfKind("slot"), V, h.slot = client.slot)
    <3>1. "slot" \notin crossed
      BY <2>3, ReadsIs
    <3>2. Lacks(toClient, OfKind("slot")) /\ EndsIn(toServer, OfKind("slot"), V)
      BY <2>1, <2>2, <3>1 DEF PlayInv, SlotsAgree, Comes
    <3>3. (Lacks(toServer', OfKind("slot")) /\ h \in V) \/ EndsIn(toServer', OfKind("slot"), V)
      BY <1>3, <3>2, ServerReadIs
    <3> QED
      BY <2>1, <3>2, <3>3 DEF Comes
  <2> QED
    BY <1>2, <1>3, <2>1, <2>3 DEF SlotsAgree
<1> QED
  BY <1>2, <1>5, <1>6, <1>7, <1>8, ReadsIs DEF PlayInv

\* A respawn asked for by the living.
LEMMA OtherReadKeeps ==
  ASSUME PlayInv, NEW h, Reads(h), h.kind = "respawn", server' = server
  PROVE  PlayInv'
<1>1. UNCHANGED <<client, toClient>> /\ toServer # <<>> /\ toServer' = Tail(toServer) /\ h = Head(toServer)
  BY DEF Reads
<1>2. \A kind \in {"edge", "move", "fly", "slot"} : Alike(toServer, toServer', OfKind(kind))
  BY <1>1, ServerReadIs
<1>3. UNCHANGED crossed /\ PlayTypeOK'
  BY ReadsIs, PlayTypes DEF Reads
<1> QED
  BY <1>1, <1>2, <1>3, CopiesStay

LEMMA ServerReadKeeps == ASSUME PlayInv, ServerReads PROVE PlayInv'
<1>1. PICK h : h = Head(toServer)
  OBVIOUS
<1>2. toServer # <<>> /\ toServer' = Tail(toServer) /\ UNCHANGED <<scenario, client>>
  BY DEF ServerReads
<1>3. h \in ServerPackets /\ h.kind \in {"respawn", "slot", "edge", "fly", "move"}
  BY <1>1, <1>2, ServerReadIs DEF ServerPackets
<1>4. CASE h.kind = "respawn" /\ ~server.alive
  <2>1. NewLife
    BY <1>1, <1>4 DEF ServerReads
  <2>2. toServer' \in Seq(ServerPackets)
        /\ \A kind \in {"edge", "slot", "fly"} : Alike(toServer, toServer', OfKind(kind))
    BY <1>1, <1>2, <1>4, ServerReadIs
  <2> QED
    BY <1>2, <2>1, <2>2, NewLifeKeeps
<1>5. CASE ~(h.kind = "respawn" /\ ~server.alive)
  <2>1. Reads(h)
    BY <1>1, <1>2, <1>5 DEF ServerReads, Reads
  <2>2. CASE h.kind = "edge"
    <3>1. server' = [server EXCEPT !.flags[h.flag] = h.on]
      BY <1>1, <1>5, <2>2 DEF ServerReads
    <3> QED
      BY <2>1, <2>2, <3>1, EdgeReadKeeps
  <2>3. CASE h.kind = "move"
    <3>1. server' = Moves(h.at)
      BY <1>1, <1>5, <2>3 DEF ServerReads
    <3> QED
      BY <2>1, <2>3, <3>1, MoveReadKeeps
  <2>4. CASE h.kind = "fly"
    <3>1. server' = [server EXCEPT !.flying = h.on /\ server.allowed]
      BY <1>1, <1>5, <2>4 DEF ServerReads
    <3> QED
      BY <2>1, <2>4, <3>1, FlyReadKeeps
  <2>5. CASE h.kind = "slot"
    <3>1. server' = [server EXCEPT !.slot = h.slot]
      BY <1>1, <1>5, <2>5 DEF ServerReads
    <3> QED
      BY <2>1, <2>5, <3>1, SlotReadKeeps
  <2>6. CASE h.kind = "respawn"
    <3>1. server' = server
      BY <1>1, <1>5, <2>6 DEF ServerReads
    <3> QED
      BY <2>1, <2>6, <3>1, OtherReadKeeps
  <2> QED
    BY <1>3, <2>2, <2>3, <2>4, <2>5, <2>6
<1> QED
  BY <1>4, <1>5

-----------------------------------------------------------------------------
(* The player: the theorems.                                               *)

LEMMA PlayStarts == PlayInit => PlayInv
<1> SUFFICES ASSUME PlayInit PROVE PlayInv
  OBVIOUS
<1>1. PICK x, y : x = [kind |-> "join"] /\ y = Placed(Spawn)
  OBVIOUS
<1>2. x \in ClientPackets /\ x.kind = "join" /\ y \in ClientPackets /\ y.kind = "position"
  BY <1>1, PositionsAre, PlacedIs DEF ClientPackets
<1>3. PICK b : b = <<x, y>>
  OBVIOUS
<1>4. toClient = b /\ toServer = <<>> /\ crossed = {} /\ scenario \in Scenarios
  BY <1>1, <1>3 DEF PlayInit
<1>5. b \in Seq(ClientPackets) /\ <<>> \in Seq(ServerPackets)
  BY <1>2, <1>3
<1>6. /\ client \in ClientStates /\ client.life = 0 /\ client.told = Unset
      /\ client.slot = 0 /\ client.allowed = FALSE /\ client.flying = FALSE /\ ~client.awaiting
  <2>1. /\ NoTap \in [timer : 0 .. SprintWindow, sneak : BOOLEAN, forward : BOOLEAN]
        /\ NoToggle \in [timer : 0 .. FlyWindow, jump : BOOLEAN]
    BY PlayAssumption DEF NoTap, NoToggle
  <2>2. Spawn \in Int /\ 0 \in Slots
    BY PositionsAre DEF Slots
  <2>3. client = [joined |-> FALSE, dead |-> FALSE, awaiting |-> FALSE, life |-> 0,
                  keys |-> {}, flags |-> Unset, told |-> Unset, tap |-> NoTap,
                  at |-> Spawn, reported |-> Spawn, ground |-> FALSE,
                  allowed |-> FALSE, flying |-> FALSE, toggle |-> NoToggle, slot |-> 0]
    BY DEF PlayInit
  <2> QED
    BY <2>1, <2>2, <2>3, UnsetIs DEF ClientStates
<1>7. /\ server \in ServerStates /\ server.life = 0 /\ server.flags = Unset
      /\ server.slot = 0 /\ server.allowed = FALSE /\ server.flying = FALSE
  <2>1. Spawn \in Int /\ {Spawn} \subseteq Positions /\ 0 \in Slots
    BY PositionsAre DEF Slots
  <2>2. server = [alive |-> TRUE, life |-> 0, flags |-> Unset, at |-> Spawn,
                  pending |-> {Spawn}, allowed |-> FALSE, flying |-> FALSE, slot |-> 0]
    BY DEF PlayInit
  <2> QED
    BY <2>1, <2>2, UnsetIs DEF ServerStates
<1>8. PlayTypeOK
  BY <1>4, <1>5, <1>6, <1>7 DEF PlayTypeOK
<1>9. LivesAgree /\ Paired(toClient)
  BY <1>2, <1>3, <1>4, <1>6, <1>7, ChainFew, PairedFew DEF LivesAgree
<1>10. \A C : Lacks(toServer, C)
  BY <1>4, Few
<1>11. /\ Lacks(toClient, OfKind("slot")) /\ Lacks(toClient, OfKind("abilities"))
       /\ ~Lacks(toClient, OfKind("position"))
  <2>1. \A kind \in {"slot", "abilities"} : x \notin OfKind(kind) /\ y \notin OfKind(kind)
    BY <1>2 DEF OfKind
  <2>2. y \in OfKind("position") /\ 2 \in DOMAIN b /\ b[2] = y
    BY <1>2, <1>3 DEF OfKind
  <2>3. ~Lacks(b, OfKind("position"))
    BY <2>2 DEF Lacks
  <2> QED
    BY <1>3, <1>4, <2>1, <2>3, Few
<1>12. MirrorsAgree
  BY <1>6, <1>7, <1>10 DEF MirrorsAgree, Comes
<1>13. PosesAgree
  BY <1>11 DEF PosesAgree
<1>14. SlotsAgree
  BY <1>6, <1>7, <1>10, <1>11 DEF SlotsAgree, Comes
<1>15. FlightsAgree
  BY <1>6, <1>7, <1>10, <1>11 DEF FlightsAgree, Comes
<1> QED
  BY <1>8, <1>9, <1>12, <1>13, <1>14, <1>15 DEF PlayInv

LEMMA PlayStutters == ASSUME PlayInv, UNCHANGED playVars PROVE PlayInv'
<1>1. UNCHANGED <<scenario, client, server, toServer, toClient, crossed>>
  BY DEF playVars
<1>2. PlayTypeOK'
  BY <1>1 DEF PlayInv, PlayTypeOK
<1> QED
  BY <1>1, <1>2, Unsaid, CopiesStay

LEMMA PlaySteps == PlayInv /\ [PlayNext]_playVars => PlayInv'
<1> SUFFICES ASSUME PlayInv, [PlayNext]_playVars PROVE PlayInv'
  OBVIOUS
<1>1. CASE SessionTicks
  BY <1>1, TicksKeep
<1>2. CASE Read
  BY <1>2, ReadKeeps
<1>3. CASE PlayerActs
  BY <1>3, PressKeeps, FocusLostKeeps, AskKeeps, SelectKeeps DEF PlayerActs
<1>4. CASE ServerDecides
  <2>1. CASE Kill
    BY <2>1, KillKeeps
  <2>2. CASE Travel
    BY <2>2, TravelKeeps
  <2>3. CASE Rejoin
    BY <2>3, RejoinKeeps
  <2>4. CASE \E p \in scenario.moves, relative \in BOOLEAN : Reposition(p, relative)
    BY <2>4, RepositionKeeps
  <2>5. CASE \E allowed, flying \in BOOLEAN : (flying => allowed) /\ SetAbilities(allowed, flying)
    BY <2>5, SetAbilitiesKeeps
  <2>6. CASE \E s \in scenario.slots : SetSlot(s)
    BY <2>6, SetSlotKeeps
  <2> QED
    BY <1>4, <2>1, <2>2, <2>3, <2>4, <2>5, <2>6 DEF ServerDecides
<1>5. CASE Resend
  BY <1>5, ResendKeeps
<1>6. CASE ServerReads
  BY <1>6, ServerReadKeeps
<1>7. CASE UNCHANGED playVars
  BY <1>7, PlayStutters
<1> QED
  BY <1>1, <1>2, <1>3, <1>4, <1>5, <1>6, <1>7 DEF PlayNext

\* The player at the two ends keeps its invariant, whatever dies, changes
\* worlds, is corrected or decided on, in whatever order it is read.
THEOREM PlayInvariance == PlaySpec => []PlayInv
BY PlayStarts, PlaySteps, PTL DEF PlaySpec

\* The last of the edges is what the server will have heard.
LEMMA HeardIs ==
  ASSUME NEW f \in Flags, NEW v, toServer \in Seq(ServerPackets),
         Comes(toServer, EdgesOf(f), {m \in EdgesOf(f) : m.on = v}, server.flags[f] = v)
  PROVE  Heard(f) = v
<1>1. PICK n \in Nat : n = Len(toServer)
  OBVIOUS
<1>2. DOMAIN toServer = 1 .. n /\ \A i \in 1 .. n : toServer[i] \in ServerPackets
  BY <1>1
<1>3. PICK edges : edges = {i \in DOMAIN toServer :
                              toServer[i].kind = "edge" /\ toServer[i].flag = f}
  OBVIOUS
<1>4. \A i \in 1 .. n : i \in edges <=> toServer[i] \in EdgesOf(f)
  BY <1>2, <1>3 DEF EdgesOf, OfKind
<1>5. edges \subseteq 1 .. n
  BY <1>2, <1>3
<1>6. Heard(f) = IF edges = {} THEN server.flags[f] ELSE toServer[Max(edges)].on
  BY <1>3 DEF Heard
<1>7. CASE Lacks(toServer, EdgesOf(f)) /\ server.flags[f] = v
  <2>1. edges = {}
    BY <1>2, <1>4, <1>5, <1>7 DEF Lacks
  <2> QED
    BY <1>6, <1>7, <2>1
<1>8. CASE EndsIn(toServer, EdgesOf(f), {m \in EdgesOf(f) : m.on = v})
  <2>1. PICK i \in 1 .. n :
          /\ toServer[i] \in EdgesOf(f) /\ toServer[i].on = v
          /\ \A j \in 1 .. n : j > i => toServer[j] \notin EdgesOf(f)
    BY <1>2, <1>8 DEF EndsIn
  <2>2. i \in edges /\ \A j \in 1 .. n : j \in edges => j <= i
    BY <1>4, <2>1
  <2>3. \A j \in edges : j \in 1 .. n
    BY <1>5
  <2>4. Max(edges) = i
    <3>1. \A j \in edges : i >= j
      BY <2>2, <2>3
    <3>2. Max(edges) \in edges /\ \A j \in edges : Max(edges) >= j
      BY <2>2, <3>1 DEF Max
    <3>3. Max(edges) \in 1 .. n /\ Max(edges) <= i /\ Max(edges) >= i
      BY <2>2, <2>3, <3>2
    <3> QED
      BY <3>3
  <2> QED
    BY <1>6, <2>1, <2>2, <2>4
<1> QED
  BY <1>7, <1>8 DEF Comes

\* Until a second Join Game replaces the player on the server, what the session
\* takes it to know of a live player's flags is what it has once it has read
\* what is on its way.
THEOREM FlagsDoAgree == PlaySpec => []FlagsAgree
<1>1. PlayInv => FlagsAgree
  <2> SUFFICES ASSUME PlayInv, "join" \notin crossed,
                      client.joined, ~client.dead, "flags" \notin crossed,
                      ~On(toClient, "respawn"),
                      \A i \in DOMAIN toServer :
                        toServer[i].kind = "edge" => toServer[i].life = client.life,
                      NEW f \in Flags
               PROVE  Heard(f) = client.told[f]
    BY DEF FlagsAgree, FlagsTold
  <2>1. toClient \in Seq(ClientPackets) /\ toServer \in Seq(ServerPackets)
    BY PlayTypes
  <2>2. client.life = server.life
    <3>1. PICK g : IsChain(g, toClient, client.life, server.life)
      BY DEF PlayInv, LivesAgree
    <3>2. \A i \in DOMAIN toClient : toClient[i].kind # "respawn"
      BY DEF On
    <3> QED
      BY <2>1, <3>1, <3>2, ChainOrders
  <2>3. Lacks(toServer, {m \in OfKind("edge") : m.life # client.life})
    BY DEF Lacks, OfKind
  <2>4. Comes(toServer, EdgesOf(f), {m \in EdgesOf(f) : m.on = client.told[f]},
              server.flags[f] = client.told[f])
    BY <2>2, <2>3 DEF PlayInv, MirrorsAgree
  <2> QED
    BY <2>1, <2>4, HeardIs
<1> QED
  BY <1>1, PlayInvariance, PTL

\* With everything read and no correction open, the server has the player where
\* the session shows it, but for what a tick leaves unreported.
THEOREM PosesDoAgree == PlaySpec => []PoseAgrees
<1>1. PlayInv => PoseAgrees
  <2> SUFFICES ASSUME PlayInv, toServer = <<>>, toClient = <<>>, server.pending = {}
               PROVE  Near(server.at, client.at)
    BY DEF PoseAgrees, Quiet
  <2>1. Lacks(toClient, OfKind("position")) /\ \A C, V : ~EndsIn(toServer, C, V)
    BY DEF Lacks, EndsIn
  <2>2. Near(client.reported, client.at) /\ server.at = client.reported
    BY <2>1 DEF PlayInv, PosesAgree, Comes
  <2> QED
    BY <2>2
<1> QED
  BY <1>1, PlayInvariance, PTL

\* Flight and the selected slot are the same at both ends once all is read,
\* unless two decisions crossed.
THEOREM DecisionsDoAgree == PlaySpec => []DecisionsAgree
<1>1. PlayInv => DecisionsAgree
  <2> SUFFICES ASSUME PlayInv, toServer = <<>>, toClient = <<>>
               PROVE  /\ "flying" \notin crossed => server.flying = client.flying
                      /\ "slot" \notin crossed => server.slot = client.slot
    BY DEF DecisionsAgree, Quiet
  <2>1. \A C, V : ~EndsIn(toServer, C, V) /\ ~EndsIn(toClient, C, V)
    BY DEF EndsIn
  <2> QED
    BY <2>1 DEF PlayInv, FlightsAgree, SlotsAgree, Comes
<1> QED
  BY <1>1, PlayInvariance, PTL
=============================================================================
