--------------------------- MODULE HeldInputProofs ---------------------------
(***************************************************************************)
(* What the session holds is down, for any keys and any number of gestures *)
(* and packets: in every interleaving of the player, the window's frames   *)
(* and the session's passes.                                               *)
(***************************************************************************)
EXTENDS HeldInput, TLAPS, WellFoundedInduction

-----------------------------------------------------------------------------
(* Folds.                                                                  *)

\* Induction over the numbers, for a set.
LEMMA Induct ==
  ASSUME NEW S, 0 \in S, \A n \in Nat : n \in S => n + 1 \in S
  PROVE  Nat \subseteq S
<1> DEFINE U == Nat \ S
           R == OpToRel(<, Nat)
<1>1. SUFFICES ASSUME NEW n \in U PROVE FALSE
  OBVIOUS
<1>2. \A x, y \in Nat : <<y, x>> \in R <=> y < x
  BY DEF OpToRel
<1>3. IsWellFoundedOn(R, Nat)
  BY NatLessThanWellFounded
<1> HIDE DEF R
<1>4. PICK m \in U : \A k \in U : ~ (<<k, m>> \in R)
  BY <1>3, WFMin
<1>5. \A k \in Nat : k < m => k \in S
  BY <1>2, <1>4
<1>6. m # 0 => m - 1 \in Nat /\ m - 1 < m /\ m = (m - 1) + 1
  OBVIOUS
<1> QED
  BY <1>5, <1>6

\* A step of D for each of the first N numbers, and a run of them from w on.
Steps(G, D, N) == G \in [1 .. N -> [D -> D]]

IsRun(f, G, D, N, w) ==
  f \in [0 .. N -> D] /\ f[0] = w /\ \A n \in 1 .. N : f[n] = G[n][f[n - 1]]

LEMMA RunExists ==
  ASSUME NEW D, NEW N \in Nat, NEW G, Steps(G, D, N), NEW w \in D
  PROVE  \E f : IsRun(f, G, D, N, w)
<1> USE DEF Steps
<1> DEFINE Upto(f, k) ==
             /\ f \in [0 .. k -> D] /\ f[0] = w
             /\ \A n \in 1 .. k : f[n] = G[n][f[n - 1]]
           S == {k \in Nat : k <= N => \E f : Upto(f, k)}
<1>1. 0 \in S
  <2> DEFINE f == [n \in 0 .. 0 |-> w]
  <2>1. f \in [0 .. 0 -> D] /\ f[0] = w /\ 1 .. 0 = {}
    OBVIOUS
  <2> QED
    BY <2>1
<1>2. ASSUME NEW k \in Nat, k \in S PROVE k + 1 \in S
  <2>1. SUFFICES ASSUME k + 1 <= N PROVE \E f : Upto(f, k + 1)
    OBVIOUS
  <2>2. PICK f : Upto(f, k)
    BY <1>2, <2>1
  <2>3. PICK last : last = G[k + 1][f[k]]
    OBVIOUS
  <2>4. last \in D
    <3>1. f[k] \in D /\ k + 1 \in 1 .. N
      BY <2>1, <2>2
    <3> QED
      BY <2>3, <3>1
  <2>5. PICK g : g = [n \in 0 .. k + 1 |-> IF n = k + 1 THEN last ELSE f[n]]
    OBVIOUS
  <2>6. g \in [0 .. k + 1 -> D]
    <3>1. ASSUME NEW n \in 0 .. k + 1
          PROVE  (IF n = k + 1 THEN last ELSE f[n]) \in D
      <4>1. n # k + 1 => n \in 0 .. k
        OBVIOUS
      <4> QED
        BY <2>2, <2>4, <4>1
    <3> QED
      BY <2>5, <3>1
  <2>7. g[0] = w
    <3>1. 0 \in 0 .. k + 1 /\ 0 # k + 1
      OBVIOUS
    <3> QED
      BY <2>2, <2>5, <3>1
  <2>8. ASSUME NEW n \in 1 .. k + 1 PROVE g[n] = G[n][g[n - 1]]
    <3>1. n \in 0 .. k + 1 /\ n - 1 \in 0 .. k + 1 /\ n - 1 # k + 1
      OBVIOUS
    <3>2. g[n - 1] = f[n - 1]
      BY <2>5, <3>1
    <3>3. CASE n = k + 1
      BY <2>3, <2>5, <3>1, <3>2, <3>3
    <3>4. CASE n # k + 1
      <4>1. n \in 1 .. k
        BY <3>4
      <4> QED
        BY <2>2, <2>5, <3>1, <3>2, <3>4, <4>1
    <3> QED
      BY <3>3, <3>4
  <2> QED
    BY <2>6, <2>7, <2>8
<1>3. N \in S
  <2>1. Nat \subseteq S
    <3> HIDE DEF S
    <3> QED
      BY <1>1, <1>2, Induct
  <2> QED
    BY <2>1
<1> QED
  BY <1>3 DEF IsRun

\* What a drain goes through, input by input.
IsDraining(f, s, sent) ==
  f = [n \in 0 .. Len(sent) |-> IF n = 0 THEN s ELSE Drain(f[n - 1], sent[n])]

LEMMA InputIs ==
  ASSUME NEW x \in Inputs
  PROVE  \/ x = FocusLost
         \/ x # FocusLost /\ x.button \in Buttons /\ x.pressed \in BOOLEAN
BY DEF Inputs, FocusLost

LEMMA DrainType ==
  ASSUME NEW s \in Sessions, NEW x \in Inputs
  PROVE  /\ Drain(s, x) \in Sessions /\ Drain(s, x).dead = s.dead
         /\ s.dead => Drain(s, x).held \subseteq s.held
         /\ x = FocusLost => Drain(s, x).held = {}
         /\ Drain(s, x).held \subseteq s.held \cup (Keys \ {Attack})
<1>1. CASE x = FocusLost
  BY <1>1 DEF Drain, Sessions
<1>2. CASE x # FocusLost /\ s.dead
  BY <1>2 DEF Drain, Sessions
<1>3. CASE x # FocusLost /\ ~s.dead /\ x.button = Attack
  <2>1. Drain(s, x) = [s EXCEPT !.left = x.pressed]
    BY <1>3 DEF Drain
  <2> QED
    BY <1>3, <2>1, InputIs DEF Sessions
<1>4. CASE x # FocusLost /\ ~s.dead /\ x.button # Attack
  <2>1. PICK held : held = IF x.pressed THEN s.held \cup {x.button} ELSE s.held \ {x.button}
    OBVIOUS
  <2>2. Drain(s, x) = [s EXCEPT !.held = held]
    BY <1>4, <2>1 DEF Drain
  <2>3. x.button \in Keys \ {Attack}
    BY <1>4, InputIs DEF Buttons
  <2>4. held \in SUBSET Keys /\ held \subseteq s.held \cup (Keys \ {Attack})
    BY <2>1, <2>3 DEF Sessions
  <2> QED
    BY <1>4, <2>2, <2>4 DEF Sessions
<1> QED
  BY <1>1, <1>2, <1>3, <1>4

LEMMA DrainedIs ==
  ASSUME NEW s \in Sessions, NEW sent \in Seq(Inputs)
  PROVE  \E f : /\ f[0] = s
                /\ \A n \in 1 .. Len(sent) : f[n] = Drain(f[n - 1], sent[n])
                /\ Drained(s, sent) = f[Len(sent)]
<1>1. PICK N \in Nat : N = Len(sent)
  OBVIOUS
<1>2. PICK G : G = [n \in 1 .. N |-> [t \in Sessions |-> Drain(t, sent[n])]]
  OBVIOUS
<1>3. G \in [1 .. N -> [Sessions -> Sessions]]
  <2>1. ASSUME NEW n \in 1 .. N PROVE [t \in Sessions |-> Drain(t, sent[n])] \in [Sessions -> Sessions]
    <3>1. sent[n] \in Inputs
      BY <1>1
    <3> QED
      BY <3>1, DrainType
  <2> QED
    BY <1>2, <2>1
<1>4. PICK g \in [0 .. N -> Sessions] : g[0] = s /\ \A n \in 1 .. N : g[n] = G[n][g[n - 1]]
  <2>1. Steps(G, Sessions, N)
    BY <1>3 DEF Steps
  <2>2. \E f : IsRun(f, G, Sessions, N, s)
    BY <2>1, RunExists
  <2> QED
    BY <2>2 DEF IsRun
<1>5. IsDraining(g, s, sent)
  <2>1. ASSUME NEW n \in 0 .. N
        PROVE  g[n] = IF n = 0 THEN s ELSE Drain(g[n - 1], sent[n])
    <3>1. CASE n = 0
      BY <1>4, <3>1
    <3>2. CASE n # 0
      <4>1. n \in 1 .. N /\ n - 1 \in 0 .. N
        BY <3>2
      <4>2. g[n - 1] \in Sessions /\ g[n] = G[n][g[n - 1]]
        BY <1>4, <4>1
      <4> QED
        BY <1>2, <3>2, <4>1, <4>2
    <3> QED
      BY <3>1, <3>2
  <2>2. g = [n \in 0 .. N |-> g[n]]
    BY <1>4
  <2>3. g = [n \in 0 .. N |-> IF n = 0 THEN s ELSE Drain(g[n - 1], sent[n])]
    BY <2>1, <2>2
  <2> QED
    BY <1>1, <2>3 DEF IsDraining
<1>6. PICK f : f = CHOOSE h : IsDraining(h, s, sent)
  OBVIOUS
<1>7. IsDraining(f, s, sent)
  BY <1>5, <1>6
<1>8. Drained(s, sent) = f[Len(sent)]
  BY <1>6 DEF Drained, IsDraining
<1>9. f[0] = s /\ \A n \in 1 .. Len(sent) : f[n] = Drain(f[n - 1], sent[n])
  <2>1. 0 \in 0 .. N /\ \A n \in 1 .. N : n \in 0 .. N /\ n # 0
    OBVIOUS
  <2>2. f = [n \in 0 .. N |-> IF n = 0 THEN s ELSE Drain(f[n - 1], sent[n])]
    BY <1>1, <1>7 DEF IsDraining
  <2> HIDE DEF Drain
  <2> QED
    BY <1>1, <2>1, <2>2
<1> QED
  BY <1>8, <1>9

\* A drain keeps the player dead or alive; a dead player's holds no more than
\* there was.
LEMMA DrainedType ==
  ASSUME NEW s \in Sessions, NEW sent \in Seq(Inputs)
  PROVE  /\ Drained(s, sent) \in Sessions /\ Drained(s, sent).dead = s.dead
         /\ s.dead => Drained(s, sent).held \subseteq s.held
         /\ Drained(s, sent).held \subseteq s.held \cup (Keys \ {Attack})
<1>1. PICK f : /\ f[0] = s
               /\ \A n \in 1 .. Len(sent) : f[n] = Drain(f[n - 1], sent[n])
               /\ Drained(s, sent) = f[Len(sent)]
  BY DrainedIs
<1> DEFINE Good(t) == /\ t \in Sessions /\ t.dead = s.dead
                      /\ s.dead => t.held \subseteq s.held
                      /\ t.held \subseteq s.held \cup (Keys \ {Attack})
           S == {n \in Nat : n <= Len(sent) => Good(f[n])}
<1>2. 0 \in S
  BY <1>1
<1>3. ASSUME NEW n \in Nat, n \in S PROVE n + 1 \in S
  <2>1. SUFFICES ASSUME n + 1 <= Len(sent) PROVE Good(f[n + 1])
    OBVIOUS
  <2>2. n + 1 \in 1 .. Len(sent) /\ (n + 1) - 1 = n /\ n <= Len(sent)
    <3>1. Len(sent) \in Nat
      OBVIOUS
    <3> QED
      BY <2>1, <3>1
  <2>3. sent[n + 1] \in Inputs
    BY <2>2
  <2>4. Good(f[n]) /\ f[n + 1] = Drain(f[n], sent[n + 1])
    BY <1>1, <1>3, <2>2
  <2>5. PICK t \in Sessions : t = f[n]
    BY <2>4
  <2>6. PICK u : u = f[n + 1]
    OBVIOUS
  <2>7. /\ u \in Sessions /\ u.dead = t.dead
        /\ t.dead => u.held \subseteq t.held
        /\ u.held \subseteq t.held \cup (Keys \ {Attack})
    BY <2>3, <2>4, <2>5, <2>6, DrainType
  <2>8. Good(u)
    BY <2>4, <2>5, <2>7
  <2> QED
    BY <2>6, <2>8
<1> HIDE DEF S
<1>4. Nat \subseteq S
  BY <1>2, <1>3, Induct
<1>5. Good(f[Len(sent)])
  <2>1. Len(sent) \in Nat
    OBVIOUS
  <2> QED
    BY <1>4, <2>1 DEF S
<1> QED
  BY <1>1, <1>5

LEMMA DrainedEmpty == ASSUME NEW s \in Sessions PROVE Drained(s, <<>>) = s
<1>1. <<>> \in Seq(Inputs) /\ Len(<<>>) = 0
  OBVIOUS
<1> QED
  BY <1>1, DrainedIs

\* One more input is drained last.
LEMMA DrainedAppend ==
  ASSUME NEW s \in Sessions, NEW sent \in Seq(Inputs), NEW x \in Inputs
  PROVE  Drained(s, Append(sent, x)) = Drain(Drained(s, sent), x)
<1>1. PICK more : more = Append(sent, x)
  OBVIOUS
<1>2. PICK N \in Nat : N = Len(sent)
  OBVIOUS
<1>3. /\ more \in Seq(Inputs) /\ Len(more) = N + 1 /\ more[N + 1] = x
      /\ \A n \in 1 .. N : more[n] = sent[n]
  BY <1>1, <1>2
<1>4. PICK f : /\ f[0] = s
               /\ \A n \in 1 .. N : f[n] = Drain(f[n - 1], sent[n])
               /\ Drained(s, sent) = f[N]
  BY <1>2, DrainedIs
<1>5. PICK g : /\ g[0] = s
               /\ \A n \in 1 .. N + 1 : g[n] = Drain(g[n - 1], more[n])
               /\ Drained(s, more) = g[N + 1]
  BY <1>3, DrainedIs
<1> DEFINE S == {n \in Nat : n <= N => f[n] = g[n]}
<1>6. 0 \in S
  BY <1>4, <1>5
<1>7. ASSUME NEW n \in Nat, n \in S PROVE n + 1 \in S
  <2>1. SUFFICES ASSUME n + 1 <= N PROVE f[n + 1] = g[n + 1]
    OBVIOUS
  <2>2. n + 1 \in 1 .. N /\ n + 1 \in 1 .. N + 1 /\ (n + 1) - 1 = n /\ n <= N
    BY <2>1
  <2>3. f[n] = g[n]
    BY <1>7, <2>2
  <2>4. f[n + 1] = Drain(f[n], sent[n + 1])
    BY <1>4, <2>2
  <2>5. g[n + 1] = Drain(g[n], more[n + 1])
    BY <1>5, <2>2
  <2> QED
    BY <1>3, <2>2, <2>3, <2>4, <2>5
<1> HIDE DEF S
<1>8. Nat \subseteq S
  BY <1>6, <1>7, Induct
<1>9. f[N] = g[N]
  BY <1>8 DEF S
<1>10. g[N + 1] = Drain(g[N], more[N + 1])
  <2>1. N + 1 \in 1 .. N + 1 /\ (N + 1) - 1 = N
    OBVIOUS
  <2> QED
    BY <1>5, <2>1
<1> QED
  BY <1>1, <1>3, <1>4, <1>5, <1>9, <1>10

-----------------------------------------------------------------------------
(* The window's fold.                                                      *)

\* Keys are the gameplay's in the window w: nothing is open, and the pointer
\* is grabbed.
InPlayOf(w) == w.grabbed /\ ~w.chat /\ w.screen = "none"

\* What may be held while w still folds: under a death screen too, if one of
\* the respawns R that are still to be folded takes it down.
Allows(w, R) ==
  IF /\ focused /\ w.grabbed /\ ~w.chat
     /\ w.screen = "none" \/ (w.screen = "death" /\ R # {})
  THEN down ELSE {}

LEMMA ReleasedIs ==
  ASSUME NEW w \in Windows
  PROVE  /\ Released(w) \in Windows
         /\ Released(w).out = Append(w.out, FocusLost)
         /\ Released(w).screen = w.screen /\ Released(w).dead = w.dead
         /\ Released(w).grabbed = FALSE /\ Released(w).slipped = FALSE
<1>1. PICK out : out = Append(w.out, FocusLost)
  OBVIOUS
<1>2. out \in Seq(Inputs)
  <2>1. w.out \in Seq(Inputs) /\ FocusLost \in Inputs
    BY DEF Windows, Inputs
  <2> QED
    BY <1>1, <2>1
<1>3. Released(w) = [w EXCEPT !.grabbed = FALSE, !.locked = FALSE, !.slipped = FALSE,
                              !.out = out]
  BY <1>1 DEF Released, Windows
<1> QED
  BY <1>1, <1>2, <1>3 DEF Windows

LEMMA StandIs ==
  ASSUME NEW w \in Windows, NEW screen \in Screens
  PROVE  /\ Stand(w, screen) \in Windows
         /\ Stand(w, screen).screen = screen /\ Stand(w, screen).dead = w.dead
         /\ Stand(w, screen).grabbed = FALSE
         /\ IF w.grabbed THEN /\ Stand(w, screen).out = Append(w.out, FocusLost)
                              /\ Stand(w, screen).slipped = FALSE
            ELSE Stand(w, screen).out = w.out /\ Stand(w, screen).slipped = w.slipped
<1>1. PICK v : v = [w EXCEPT !.screen = screen]
  OBVIOUS
<1>2. /\ v \in Windows /\ v.screen = screen /\ v.dead = w.dead /\ v.out = w.out
      /\ v.slipped = w.slipped /\ v.grabbed = w.grabbed
  BY <1>1 DEF Windows
<1>3. Stand(w, screen) = IF v.grabbed THEN Released(v) ELSE v
  BY <1>1 DEF Stand, ChatOpen
<1> QED
  BY <1>2, <1>3, ReleasedIs DEF Windows

\* One event folded into v: the window said that it let the pointer go, or allows
\* what it did, but where a dead player's screen stands again.
FoldsTo(w, e, v, R) ==
  \/ v.out = Append(w.out, FocusLost)
  \/ /\ v.out = w.out /\ v.slipped = w.slipped
     /\ \/ Allows(w, R) \subseteq Allows(v, R)
        \/ e = "PlayerTick" /\ w.dead /\ R = {}
        \/ e = "Respawned"
     /\ e = "Respawned" => \A Q : Allows(w, Q) \subseteq Allows(v, R)

DeadAfter(w, e) == e = "Died" \/ (e # "Respawned" /\ w.dead)

LEMMA FoldIs ==
  ASSUME NEW w \in Windows, NEW e \in Events, NEW allowed \in BOOLEAN, NEW R
  PROVE  /\ Fold(w, e, allowed) \in Windows
         /\ Fold(w, e, allowed).dead <=> DeadAfter(w, e)
         /\ FoldsTo(w, e, Fold(w, e, allowed), R)
<1>1. PICK v : v = Fold(w, e, allowed)
  OBVIOUS
<1>2. SUFFICES v \in Windows /\ (v.dead <=> DeadAfter(w, e)) /\ FoldsTo(w, e, v, R)
  BY <1>1
<1>3. CASE e = "Died"
  <2>1. v = [Stand(w, "death") EXCEPT !.gate = FALSE, !.dead = TRUE]
    BY <1>1, <1>3 DEF Fold
  <2>2. PICK u \in Windows : u = Stand(w, "death")
    BY StandIs DEF Screens
  <2>3. /\ u.grabbed = FALSE
        /\ IF w.grabbed THEN u.out = Append(w.out, FocusLost)
           ELSE u.out = w.out /\ u.slipped = w.slipped
    BY <2>2, StandIs DEF Screens
  <2>4. v = [u EXCEPT !.gate = FALSE, !.dead = TRUE]
    BY <2>1, <2>2
  <2>5. v \in Windows /\ v.dead = TRUE /\ v.out = u.out /\ v.slipped = u.slipped
    BY <2>4 DEF Windows
  <2>6. FoldsTo(w, e, v, R)
    BY <1>3, <2>3, <2>5 DEF Allows, FoldsTo
  <2> QED
    BY <1>3, <2>5, <2>6 DEF DeadAfter
<1>4. CASE e = "Respawned"
  <2>1. PICK screen \in Screens : screen = IF w.screen = "death" THEN "none" ELSE w.screen
    BY DEF Windows, Screens
  <2>2. v = [w EXCEPT !.screen = screen, !.dead = FALSE]
    BY <1>1, <1>4, <2>1 DEF Fold, Windows
  <2>3. v \in Windows /\ v.dead = FALSE /\ v.out = w.out /\ v.slipped = w.slipped
        /\ v.grabbed = w.grabbed /\ v.chat = w.chat /\ v.screen = screen
    BY <2>2 DEF Windows
  <2>4. FoldsTo(w, e, v, R)
    BY <1>4, <2>1, <2>3 DEF Allows, FoldsTo
  <2> QED
    BY <1>4, <2>3, <2>4 DEF DeadAfter
<1>5. CASE e = "WindowOpened"
  <2>1. v = Stand(w, "container")
    BY <1>1, <1>5 DEF Fold
  <2>2. /\ v \in Windows /\ v.dead = w.dead
        /\ IF w.grabbed THEN v.out = Append(w.out, FocusLost)
           ELSE v.out = w.out /\ v.slipped = w.slipped
    BY <2>1, StandIs DEF Screens
  <2>3. FoldsTo(w, e, v, R)
    BY <1>5, <2>2 DEF Allows, FoldsTo
  <2> QED
    BY <1>5, <2>2, <2>3 DEF DeadAfter
<1>6. CASE e = "WindowClosed"
  <2>1. v = ServerCloses(w, allowed)
    BY <1>1, <1>6 DEF Fold
  <2>2. CASE w.screen # "container"
    <3>1. v = w
      BY <2>1, <2>2 DEF ServerCloses
    <3>2. FoldsTo(w, e, v, R)
      BY <1>6, <3>1 DEF FoldsTo
    <3> QED
      BY <1>6, <3>1, <3>2 DEF DeadAfter
  <2>3. CASE w.screen = "container"
    <3>1. PICK locked \in BOOLEAN : locked = (w.locked \/ allowed)
      BY Zenon
    <3>2. v = [w EXCEPT !.screen = "none", !.grabbed = allowed, !.locked = locked]
      <4>1. v = [w EXCEPT !.screen = "none", !.grabbed = allowed, !.locked = @ \/ allowed]
        BY <2>1, <2>3 DEF ServerCloses
      <4> QED
        BY <3>1, <4>1 DEF Windows
    <3>3. v \in Windows /\ v.dead = w.dead /\ v.out = w.out /\ v.slipped = w.slipped
      BY <3>2 DEF Windows, Screens
    <3>4. FoldsTo(w, e, v, R)
      BY <1>6, <2>3, <3>3 DEF Allows, FoldsTo
    <3> QED
      BY <1>6, <3>3, <3>4 DEF DeadAfter
  <2> QED
    BY <2>2, <2>3
<1>7. CASE e = "PlayerTick"
  <2>1. v = OnTick(w)
    BY <1>1, <1>7 DEF Fold
  <2>2. CASE w.screen = "death"
    <3>1. v = [w EXCEPT !.gate = TRUE]
      BY <2>1, <2>2 DEF OnTick
    <3>2. v \in Windows /\ v.dead = w.dead /\ v.out = w.out /\ v.slipped = w.slipped
          /\ v.grabbed = w.grabbed /\ v.chat = w.chat /\ v.screen = w.screen
      BY <3>1 DEF Windows
    <3>3. FoldsTo(w, e, v, R)
      BY <1>7, <3>2 DEF Allows, FoldsTo
    <3> QED
      BY <1>7, <3>2, <3>3 DEF DeadAfter
  <2>3. CASE w.screen # "death" /\ w.dead
    <3>1. v = [w EXCEPT !.screen = "death", !.gate = FALSE]
      BY <2>1, <2>3 DEF OnTick
    <3>2. v \in Windows /\ v.dead = w.dead /\ v.out = w.out /\ v.slipped = w.slipped
          /\ v.grabbed = w.grabbed /\ v.chat = w.chat /\ v.screen = "death"
      BY <3>1 DEF Windows, Screens
    <3>3. R # {} => Allows(w, R) \subseteq Allows(v, R)
      BY <2>3, <3>2 DEF Allows
    <3>4. FoldsTo(w, e, v, R)
      BY <1>7, <2>3, <3>2, <3>3 DEF FoldsTo
    <3> QED
      BY <1>7, <3>2, <3>4 DEF DeadAfter
  <2>4. CASE w.screen # "death" /\ ~w.dead
    <3>1. v = w
      BY <2>1, <2>4 DEF OnTick
    <3>2. FoldsTo(w, e, v, R)
      BY <1>7, <3>1 DEF FoldsTo
    <3> QED
      BY <1>7, <3>1, <3>2 DEF DeadAfter
  <2> QED
    BY <2>2, <2>3, <2>4
<1> QED
  BY <1>3, <1>4, <1>5, <1>6, <1>7 DEF Events

\* What a frame goes through, event by event.
IsFolding(f, w, reports, allowed) ==
  f = [n \in 0 .. Len(reports) |-> IF n = 0 THEN w ELSE Fold(f[n - 1], reports[n], allowed)]

LEMMA FoldedIs ==
  ASSUME NEW w \in Windows, NEW reports \in Seq(Events), NEW allowed \in BOOLEAN
  PROVE  \E f : /\ f[0] = w
                /\ \A n \in 1 .. Len(reports) : f[n] = Fold(f[n - 1], reports[n], allowed)
                /\ Folded(w, reports, allowed) = f[Len(reports)]
<1>1. PICK N \in Nat : N = Len(reports)
  OBVIOUS
<1>2. PICK G : G = [n \in 1 .. N |-> [v \in Windows |-> Fold(v, reports[n], allowed)]]
  OBVIOUS
<1>3. G \in [1 .. N -> [Windows -> Windows]]
  <2>1. ASSUME NEW n \in 1 .. N
        PROVE  [v \in Windows |-> Fold(v, reports[n], allowed)] \in [Windows -> Windows]
    <3>1. reports[n] \in Events
      BY <1>1
    <3> QED
      BY <3>1, FoldIs
  <2> QED
    BY <1>2, <2>1
<1>4. PICK g \in [0 .. N -> Windows] : g[0] = w /\ \A n \in 1 .. N : g[n] = G[n][g[n - 1]]
  <2>1. Steps(G, Windows, N)
    BY <1>3 DEF Steps
  <2>2. \E f : IsRun(f, G, Windows, N, w)
    BY <2>1, RunExists
  <2> QED
    BY <2>2 DEF IsRun
<1>5. IsFolding(g, w, reports, allowed)
  <2>1. ASSUME NEW n \in 0 .. N
        PROVE  g[n] = IF n = 0 THEN w ELSE Fold(g[n - 1], reports[n], allowed)
    <3>1. CASE n = 0
      BY <1>4, <3>1
    <3>2. CASE n # 0
      <4>1. n \in 1 .. N /\ n - 1 \in 0 .. N
        BY <3>2
      <4>2. g[n - 1] \in Windows /\ g[n] = G[n][g[n - 1]]
        BY <1>4, <4>1
      <4> QED
        BY <1>2, <3>2, <4>1, <4>2
    <3> QED
      BY <3>1, <3>2
  <2>2. g = [n \in 0 .. N |-> g[n]]
    BY <1>4
  <2>3. g = [n \in 0 .. N |-> IF n = 0 THEN w ELSE Fold(g[n - 1], reports[n], allowed)]
    BY <2>1, <2>2
  <2> QED
    BY <1>1, <2>3 DEF IsFolding
<1>6. PICK f : f = CHOOSE h : IsFolding(h, w, reports, allowed)
  OBVIOUS
<1>7. IsFolding(f, w, reports, allowed)
  BY <1>5, <1>6
<1>8. Folded(w, reports, allowed) = f[Len(reports)]
  BY <1>6 DEF Folded, IsFolding
<1>9. f[0] = w /\ \A n \in 1 .. Len(reports) : f[n] = Fold(f[n - 1], reports[n], allowed)
  <2>1. 0 \in 0 .. N /\ \A n \in 1 .. N : n \in 0 .. N /\ n # 0
    OBVIOUS
  <2>2. f = [n \in 0 .. N |-> IF n = 0 THEN w ELSE Fold(f[n - 1], reports[n], allowed)]
    BY <1>1, <1>7 DEF IsFolding
  <2> HIDE DEF Fold
  <2> QED
    BY <1>1, <2>1, <2>2
<1> QED
  BY <1>8, <1>9

-----------------------------------------------------------------------------
(* The invariant.                                                          *)

DeathEvents == {"Died", "Respawned"}

\* Whether the player is dead, d, is what the last death or respawn after the
\* n-th report says, and dead where there is none.
Ahead(dead, n, reports, d) ==
  \/ d = dead /\ \A j \in n + 1 .. Len(reports) : reports[j] \notin DeathEvents
  \/ \E i \in n + 1 .. Len(reports) :
       /\ reports[i] \in DeathEvents /\ d = (reports[i] = "Died")
       /\ \A j \in i + 1 .. Len(reports) : reports[j] \notin DeathEvents

\* Once the session has drained what is on its way, it holds keys that are down,
\* and none while keys are not the gameplay's; and once the window has folded
\* what is on its way, it knows whether the player is dead.
IInv ==
  /\ TypeOK
  /\ session.held \subseteq Keys \ {Attack}
  /\ session.dead => session.held = {}
  /\ Ahead(window.dead, 0, events, session.dead)
  /\ ~window.slipped =>
       Drained(session, inputs).held \subseteq IF focused /\ InPlay THEN down ELSE {}

Respawns(n) == {i \in n + 1 .. Len(events) : events[i] = "Respawned"}

\* The same for a window that has folded n of the events.
Halfway(w, n) ==
  /\ w \in Windows
  /\ Ahead(w.dead, n, events, session.dead)
  /\ ~w.slipped => Drained(session, inputs \o w.out).held \subseteq Allows(w, Respawns(n))

LEMMA AheadStep ==
  ASSUME NEW reports \in Seq(Events), NEW n \in Nat, n < Len(reports),
         NEW d \in BOOLEAN, NEW dead \in BOOLEAN, NEW after \in BOOLEAN,
         Ahead(dead, n, reports, d), after <=> DeadAfter([dead |-> dead], reports[n + 1])
  PROVE  Ahead(after, n + 1, reports, d)
<1>1. PICK N \in Nat : N = Len(reports)
  OBVIOUS
<1>2. n + 1 \in 1 .. N /\ n + 1 \in n + 1 .. N
  BY <1>1
<1>3. reports[n + 1] \in Events
  BY <1>1, <1>2
<1>4. after <=> (reports[n + 1] = "Died" \/ (reports[n + 1] # "Respawned" /\ dead))
  BY DEF DeadAfter
<1>5. CASE d = dead /\ \A j \in n + 1 .. N : reports[j] \notin DeathEvents
  <2>1. after = dead
    BY <1>2, <1>4, <1>5 DEF DeathEvents
  <2>2. \A j \in (n + 1) + 1 .. N : j \in n + 1 .. N
    OBVIOUS
  <2> QED
    BY <1>1, <1>5, <2>1, <2>2 DEF Ahead
<1>6. ASSUME NEW i \in n + 1 .. N, reports[i] \in DeathEvents, d = (reports[i] = "Died"),
             \A j \in i + 1 .. N : reports[j] \notin DeathEvents
      PROVE  Ahead(after, n + 1, reports, d)
  <2>1. CASE i = n + 1
    <3>1. after = d
      BY <1>4, <1>6, <2>1 DEF DeathEvents
    <3> QED
      BY <1>1, <1>6, <2>1, <3>1 DEF Ahead
  <2>2. CASE i # n + 1
    <3>1. i \in (n + 1) + 1 .. N
      BY <2>2
    <3> QED
      BY <1>1, <1>6, <3>1 DEF Ahead
  <2> QED
    BY <2>1, <2>2
<1> QED
  BY <1>1, <1>5, <1>6 DEF Ahead

\* One report more is the last.
LEMMA AheadAppend ==
  ASSUME NEW reports \in Seq(Events), NEW x \in Events, NEW dead \in BOOLEAN, NEW d \in BOOLEAN,
         NEW c \in BOOLEAN, Ahead(dead, 0, reports, d),
         IF x \in DeathEvents THEN c = (x = "Died") ELSE c = d
  PROVE  Ahead(dead, 0, reports \o <<x>>, c)
<1>1. PICK N \in Nat : N = Len(reports)
  OBVIOUS
<1>2. PICK more : more = reports \o <<x>>
  OBVIOUS
<1>3. Len(more) = N + 1 /\ more[N + 1] = x /\ \A n \in 1 .. N : more[n] = reports[n]
  BY <1>1, <1>2
<1>4. CASE x \in DeathEvents
  <2>1. N + 1 \in 0 + 1 .. N + 1 /\ (N + 1) + 1 .. N + 1 = {}
    OBVIOUS
  <2> QED
    BY <1>2, <1>3, <1>4, <2>1 DEF Ahead
<1>5. CASE x \notin DeathEvents
  <2>1. c = d
    BY <1>5
  <2>2. CASE d = dead /\ \A j \in 0 + 1 .. N : reports[j] \notin DeathEvents
    <3>1. \A j \in 0 + 1 .. N + 1 : more[j] \notin DeathEvents
      BY <1>3, <1>5, <2>2
    <3> QED
      BY <1>2, <1>3, <2>1, <2>2, <3>1 DEF Ahead
  <2>3. ASSUME NEW i \in 0 + 1 .. N, reports[i] \in DeathEvents, d = (reports[i] = "Died"),
               \A j \in i + 1 .. N : reports[j] \notin DeathEvents
        PROVE  Ahead(dead, 0, more, c)
    <3>1. \A j \in i + 1 .. N + 1 : more[j] \notin DeathEvents
      BY <1>3, <1>5, <2>3
    <3>2. i \in 0 + 1 .. N + 1 /\ more[i] = reports[i]
      BY <1>3
    <3> QED
      BY <1>3, <2>1, <2>3, <3>1, <3>2 DEF Ahead
  <2> QED
    BY <1>1, <1>2, <2>2, <2>3 DEF Ahead
<1> QED
  BY <1>4, <1>5

LEMMA RespawnsStep ==
  ASSUME NEW n \in Nat, n < Len(events), TypeOK
  PROVE  /\ events[n + 1] # "Respawned" => Respawns(n + 1) = Respawns(n)
         /\ events[n + 1] \in Events
<1>1. PICK N \in Nat : N = Len(events)
  BY DEF TypeOK
<1>2. n + 1 \in 1 .. N
  BY <1>1
<1>3. \A i \in n + 1 .. N : i = n + 1 \/ i \in (n + 1) + 1 .. N
  OBVIOUS
<1>4. \A i \in (n + 1) + 1 .. N : i \in n + 1 .. N
  OBVIOUS
<1>5. events[n + 1] \in Events
  BY <1>1, <1>2 DEF TypeOK
<1> QED
  BY <1>1, <1>3, <1>4, <1>5 DEF Respawns

\* A death screen stands again for a player who is dead, and holds nothing.
LEMMA DeadAhead ==
  ASSUME NEW n \in Nat, NEW dead \in BOOLEAN, dead, IInv,
         Ahead(dead, n, events, session.dead), Respawns(n) = {}
  PROVE  session.dead /\ session.held = {}
<1>1. session.dead \in BOOLEAN /\ Len(events) \in Nat
  BY DEF IInv, TypeOK, Sessions
<1>2. \A i \in n + 1 .. Len(events) : events[i] # "Respawned"
  BY DEF Respawns
<1>3. session.dead
  BY <1>1, <1>2 DEF Ahead, DeathEvents
<1> QED
  BY <1>3 DEF IInv

LEMMA HalfwayStep ==
  ASSUME IInv, NEW n \in Nat, n < Len(events), NEW w, Halfway(w, n), NEW allowed \in BOOLEAN
  PROVE  Halfway(Fold(w, events[n + 1], allowed), n + 1)
<1>1. PICK e \in Events : e = events[n + 1]
  BY RespawnsStep DEF IInv
<1>2. PICK R : R = Respawns(n + 1)
  OBVIOUS
<1>3. e # "Respawned" => R = Respawns(n)
  BY <1>1, <1>2, RespawnsStep DEF IInv
<1>4. PICK v : v = Fold(w, e, allowed)
  OBVIOUS
<1>5. w \in Windows
  BY DEF Halfway
<1>6. v \in Windows /\ (v.dead <=> DeadAfter(w, e)) /\ FoldsTo(w, e, v, R)
  BY <1>4, <1>5, FoldIs
<1>7. Ahead(v.dead, n + 1, events, session.dead)
  <2>1. session.dead \in BOOLEAN /\ w.dead \in BOOLEAN /\ v.dead \in BOOLEAN
        /\ events \in Seq(Events)
    BY <1>5, <1>6 DEF IInv, TypeOK, Sessions, Windows
  <2>2. v.dead <=> DeadAfter([dead |-> w.dead], events[n + 1])
    BY <1>1, <1>6 DEF DeadAfter
  <2>3. Ahead(w.dead, n, events, session.dead)
    BY DEF Halfway
  <2> QED
    BY <2>1, <2>2, <2>3, AheadStep
<1>8. ASSUME ~v.slipped
      PROVE  Drained(session, inputs \o v.out).held \subseteq Allows(v, R)
  <2>1. /\ session \in Sessions /\ inputs \in Seq(Inputs) /\ w.out \in Seq(Inputs)
        /\ FocusLost \in Inputs
    BY <1>5 DEF IInv, TypeOK, Windows, Inputs
  <2>2. PICK sent \in Seq(Inputs) : sent = inputs \o w.out
    <3>1. inputs \o w.out \in Seq(Inputs)
      BY <2>1
    <3> QED
      BY <3>1
  <2>3. PICK t \in Sessions : t = Drained(session, sent)
    BY <2>1, DrainedType
  <2>4. CASE v.out = Append(w.out, FocusLost)
    <3>1. inputs \o v.out = Append(sent, FocusLost)
      BY <2>1, <2>2, <2>4
    <3>2. Drained(session, inputs \o v.out) = Drain(t, FocusLost)
      BY <2>1, <2>3, <3>1, DrainedAppend
    <3>3. Drained(session, inputs \o v.out).held = {}
      BY <2>1, <3>2, DrainType
    <3> QED
      BY <3>3
  <2>5. CASE v.out = w.out /\ v.slipped = w.slipped
    <3>1. t.held \subseteq Allows(w, Respawns(n)) /\ Drained(session, inputs \o v.out) = t
      BY <1>8, <2>2, <2>3, <2>5 DEF Halfway
    <3>2. CASE e = "Respawned"
      <4>1. v.out # Append(w.out, FocusLost)
        BY <2>1, <2>5
      <4>2. Allows(w, Respawns(n)) \subseteq Allows(v, R)
        BY <1>6, <3>2, <4>1 DEF FoldsTo
      <4> QED
        BY <3>1, <4>2
    <3>3. CASE Allows(w, R) \subseteq Allows(v, R) /\ e # "Respawned"
      BY <1>3, <3>1, <3>3
    <3>4. CASE e = "PlayerTick" /\ w.dead /\ R = {}
      <4>1. w.dead \in BOOLEAN /\ Respawns(n) = {}
        BY <1>3, <1>5, <3>4 DEF Windows
      <4>2. session.dead /\ session.held = {}
        BY <3>4, <4>1, DeadAhead DEF Halfway
      <4>3. t.held = {}
        BY <2>1, <2>3, <4>2, DrainedType
      <4> QED
        BY <3>1, <4>3
    <3>5. v.out # Append(w.out, FocusLost)
      BY <2>1, <2>5
    <3> QED
      BY <1>6, <3>2, <3>3, <3>4, <3>5 DEF FoldsTo
  <2> QED
    BY <1>6, <2>4, <2>5 DEF FoldsTo
<1> QED
  BY <1>1, <1>2, <1>4, <1>6, <1>7, <1>8 DEF Halfway

LEMMA InPlayIsOf == InPlay = InPlayOf(window)
BY DEF InPlay, InPlayOf

\* What the window sends leaves a state of the invariant, if what the session
\* will hold then is what may be held.
LEMMA WindowStep ==
  ASSUME IInv, NEW w \in Windows, Sends(w), UNCHANGED session,
         down' \subseteq Buttons, focused' \in BOOLEAN,
         gestures' \in 0 .. MaxGestures, UNCHANGED <<asked, packets>>,
         events' \in Seq(Events), Ahead(w.dead, 0, events', session.dead),
         ~w.slipped => Drained(session, inputs \o w.out).held
                         \subseteq IF focused' /\ InPlayOf(w) THEN down' ELSE {}
  PROVE  IInv'
<1>1. PICK v : v = [w EXCEPT !.out = <<>>]
  OBVIOUS
<1>2. /\ v \in Windows /\ v.out = <<>> /\ v.dead = w.dead /\ v.slipped = w.slipped
      /\ InPlayOf(v) = InPlayOf(w)
  <2>1. /\ v \in Windows /\ v.out = <<>> /\ v.dead = w.dead /\ v.slipped = w.slipped
        /\ v.grabbed = w.grabbed /\ v.chat = w.chat /\ v.screen = w.screen
    <3>1. PICK none \in Seq(Inputs) : none = <<>>
      <4>1. <<>> \in Seq(Inputs)
        OBVIOUS
      <4> QED
        BY <4>1, Zenon
    <3>2. v = [w EXCEPT !.out = none]
      BY <1>1, <3>1
    <3>3. /\ v \in Windows /\ v.out = none /\ v.dead = w.dead /\ v.slipped = w.slipped
          /\ v.grabbed = w.grabbed /\ v.chat = w.chat /\ v.screen = w.screen
      BY <3>2 DEF Windows
    <3> QED
      BY <3>1, <3>3
  <2> QED
    BY <2>1 DEF InPlayOf
<1>3. window' = v /\ inputs' = inputs \o w.out
  BY <1>1 DEF Sends
<1>4. inputs' \in Seq(Inputs)
  BY <1>3 DEF IInv, TypeOK, Windows
<1>5. TypeOK'
  BY <1>2, <1>3, <1>4 DEF IInv, TypeOK
<1>6. InPlay' = InPlayOf(w)
  <2>1. InPlay' = InPlayOf(v)
    BY <1>3 DEF InPlay, InPlayOf
  <2> QED
    BY <1>2, <2>1
<1>7. Ahead(window'.dead, 0, events', session'.dead)
  BY <1>2, <1>3
<1>8. ~window'.slipped => Drained(session', inputs').held
                            \subseteq IF focused' /\ InPlay' THEN down' ELSE {}
  BY <1>2, <1>3, <1>6
<1> QED
  BY <1>5, <1>7, <1>8 DEF IInv

LEMMA FrameKeeps == ASSUME IInv, Frame PROVE IInv'
<1>1. PICK allowed \in BOOLEAN : Sends(Folded(window, events, allowed))
  BY DEF Frame
<1>2. window \in Windows /\ events \in Seq(Events) /\ session \in Sessions
      /\ inputs \in Seq(Inputs) /\ window.out = <<>>
  BY DEF IInv, TypeOK
<1>3. PICK N \in Nat : N = Len(events)
  BY <1>2
<1>4. PICK f : /\ f[0] = window
               /\ \A n \in 1 .. N : f[n] = Fold(f[n - 1], events[n], allowed)
               /\ Folded(window, events, allowed) = f[N]
  BY <1>2, <1>3, FoldedIs
<1> DEFINE S == {n \in Nat : n <= N => Halfway(f[n], n)}
<1>5. 0 \in S
  <2>1. inputs \o window.out = inputs
    BY <1>2
  <2>2. (IF focused /\ InPlay THEN down ELSE {}) \subseteq Allows(window, Respawns(0))
    BY DEF Allows, InPlay
  <2>3. Halfway(window, 0)
    BY <1>2, <2>1, <2>2 DEF IInv, Halfway
  <2> QED
    BY <1>4, <2>3
<1>6. ASSUME NEW n \in Nat, n \in S PROVE n + 1 \in S
  <2>1. SUFFICES ASSUME n + 1 <= N PROVE Halfway(f[n + 1], n + 1)
    OBVIOUS
  <2>2. n + 1 \in 1 .. N /\ (n + 1) - 1 = n /\ n < N
    BY <2>1
  <2>3. f[n + 1] = Fold(f[n], events[n + 1], allowed)
    BY <1>4, <2>2
  <2>4. Halfway(f[n], n)
    BY <1>6, <2>2
  <2> QED
    BY <1>3, <2>2, <2>3, <2>4, HalfwayStep
<1> HIDE DEF S
<1>7. Nat \subseteq S
  BY <1>5, <1>6, Induct
<1>8. PICK w : w = f[N]
  OBVIOUS
<1>9. Halfway(w, N)
  BY <1>7, <1>8 DEF S
<1>10. Sends(w)
  BY <1>1, <1>4, <1>8
<1>11. Respawns(N) = {}
  BY <1>3 DEF Respawns
<1>12. Allows(w, {}) = IF focused /\ InPlayOf(w) THEN down ELSE {}
  BY DEF Allows, InPlayOf
<1>13. /\ UNCHANGED <<down, focused, session, asked, gestures, packets>>
       /\ events' = <<>> /\ Len(<<>>) = 0
  BY DEF Frame
<1>14. w \in Windows /\ Ahead(w.dead, 0, events', session.dead)
  <2>1. Ahead(w.dead, N, events, session.dead) /\ N + 1 .. N = {} /\ 0 + 1 .. 0 = {}
    BY <1>9 DEF Halfway
  <2>2. session.dead = w.dead
    BY <1>3, <2>1 DEF Ahead
  <2> QED
    BY <1>9, <1>13, <2>1, <2>2 DEF Ahead, Halfway
<1>15. ~w.slipped => Drained(session, inputs \o w.out).held
                       \subseteq IF focused' /\ InPlayOf(w) THEN down' ELSE {}
  BY <1>9, <1>11, <1>12, <1>13 DEF Halfway
<1>16. events' \in Seq(Events)
  BY <1>13
<1>17. /\ down' \subseteq Buttons /\ focused' \in BOOLEAN /\ gestures' \in 0 .. MaxGestures
  BY <1>13 DEF IInv, TypeOK
<1> QED
  BY <1>10, <1>13, <1>14, <1>15, <1>16, <1>17, WindowStep

-----------------------------------------------------------------------------
(* The player's gestures.                                                  *)

LEMMA EdgeReads ==
  ASSUME NEW b \in Buttons, NEW screen
  PROVE  /\ Edge(b, TRUE, screen) # FocusLost /\ Edge(b, FALSE, screen) # FocusLost
         /\ Edge(b, TRUE, screen).button = b /\ Edge(b, FALSE, screen).button = b
         /\ Edge(b, TRUE, screen).pressed /\ ~Edge(b, FALSE, screen).pressed
<1>1. /\ Edge(b, TRUE, screen).kind = "edge" /\ Edge(b, FALSE, screen).kind = "edge"
      /\ FocusLost.kind = "focus lost"
  BY DEF Edge, FocusLost
<1> QED
  BY <1>1 DEF Edge

\* What an edge adds to the held keys, or takes from them.
LEMMA DrainEdge ==
  ASSUME NEW s \in Sessions, NEW x, x # FocusLost
  PROVE  /\ x.button = Attack => Drain(s, x).held = s.held
         /\ x.pressed => Drain(s, x).held \subseteq s.held \cup {x.button}
         /\ ~x.pressed /\ ~s.dead /\ x.button # Attack
              => Drain(s, x).held = s.held \ {x.button}
         /\ s.dead => Drain(s, x).held = s.held
<1>1. PICK t : t = Drain(s, x)
  OBVIOUS
<1>2. CASE s.dead
  <2>1. t = s
    BY <1>1, <1>2 DEF Drain
  <2> QED
    BY <1>1, <1>2, <2>1
<1>3. CASE ~s.dead /\ x.button = Attack
  <2>1. t = [s EXCEPT !.left = x.pressed]
    BY <1>1, <1>3 DEF Drain
  <2>2. t.held = s.held
    BY <2>1 DEF Sessions
  <2> QED
    BY <1>1, <1>3, <2>2
<1>4. CASE ~s.dead /\ x.button # Attack
  <2>1. PICK held : held = IF x.pressed THEN s.held \cup {x.button} ELSE s.held \ {x.button}
    OBVIOUS
  <2>2. t = [s EXCEPT !.held = held]
    BY <1>1, <1>4, <2>1 DEF Drain
  <2>3. t.held = held
    BY <2>2 DEF Sessions
  <2> QED
    BY <1>1, <1>4, <2>1, <2>3
<1> QED
  BY <1>2, <1>3, <1>4

\* What the session will hold once it has drained what is on its way.
LEMMA Coming ==
  ASSUME IInv
  PROVE  /\ Drained(session, inputs) \in Sessions
         /\ Drained(session, inputs).dead = session.dead
         /\ session.dead => Drained(session, inputs).held = {}
         /\ Drained(session, inputs).held \subseteq Keys \ {Attack}
<1>1. session \in Sessions /\ inputs \in Seq(Inputs)
  BY DEF IInv, TypeOK
<1> QED
  BY <1>1, DrainedType DEF IInv

\* A gesture that sends nothing and one that sends one input.
LEMMA Sent ==
  ASSUME IInv, NEW w \in Windows
  PROVE  /\ w.out = <<>> => Drained(session, inputs \o w.out) = Drained(session, inputs)
         /\ \A x \in Inputs : w.out = <<x>> =>
              Drained(session, inputs \o w.out) = Drain(Drained(session, inputs), x)
<1>1. session \in Sessions /\ inputs \in Seq(Inputs)
  BY DEF IInv, TypeOK
<1>2. inputs \o <<>> = inputs
  BY <1>1
<1>3. ASSUME NEW x \in Inputs
      PROVE  Drained(session, inputs \o <<x>>) = Drain(Drained(session, inputs), x)
  <2>1. inputs \o <<x>> = Append(inputs, x)
    BY <1>1
  <2> QED
    BY <1>1, <2>1, DrainedAppend
<1> QED
  BY <1>2, <1>3

\* A gesture's step, in short: what is left to show of it.
LEMMA GestureStep ==
  ASSUME IInv, Gesture, NEW w \in Windows, Sends(w), down' \subseteq Buttons,
         focused' \in BOOLEAN, w.dead = window.dead,
         ~w.slipped => Drained(session, inputs \o w.out).held
                         \subseteq IF focused' /\ InPlayOf(w) THEN down' ELSE {}
  PROVE  IInv'
<1>1. /\ UNCHANGED <<session, events, asked, packets>> /\ focused
      /\ gestures < MaxGestures /\ gestures' = gestures + 1
  BY DEF Gesture
<1>2. gestures' \in 0 .. MaxGestures
  BY <1>1, BoundsAssumption DEF IInv, TypeOK
<1>3. events' \in Seq(Events) /\ Ahead(w.dead, 0, events', session.dead)
  BY <1>1 DEF IInv, TypeOK
<1> QED
  BY <1>1, <1>2, <1>3, WindowStep

LEMMA EdgeIs ==
  ASSUME IInv, NEW b \in Buttons, NEW p \in BOOLEAN, NEW screen \in {"none", "death"}
  PROVE  LET w == [window EXCEPT !.out = <<Edge(b, p, screen)>>]
         IN  /\ w \in Windows /\ w.dead = window.dead /\ w.slipped = window.slipped
             /\ InPlayOf(w) = InPlayOf(window)
             /\ Drained(session, inputs \o w.out)
                  = Drain(Drained(session, inputs), Edge(b, p, screen))
<1>1. PICK x \in Inputs : x = Edge(b, p, screen)
  BY DEF Edge, Inputs
<1>2. PICK out \in Seq(Inputs) : out = <<x>>
  <2>1. <<x>> \in Seq(Inputs)
    BY <1>1
  <2> QED
    BY <2>1, Zenon
<1>3. PICK w : w = [window EXCEPT !.out = out]
  OBVIOUS
<1>4. /\ w \in Windows /\ w.dead = window.dead /\ w.slipped = window.slipped
      /\ w.grabbed = window.grabbed /\ w.chat = window.chat /\ w.screen = window.screen
      /\ w.out = out
  BY <1>3 DEF Windows, IInv, TypeOK
<1>5. InPlayOf(w) = InPlayOf(window)
  BY <1>4 DEF InPlayOf
<1>6. Drained(session, inputs \o w.out) = Drain(Drained(session, inputs), x)
  BY <1>2, <1>4, Sent
<1> QED
  BY <1>1, <1>2, <1>3, <1>4, <1>5, <1>6

\* A press and a release.
LEMMA PressKeeps ==
  ASSUME IInv, Gesture, NEW b \in Buttons, UNCHANGED focused, down' = down \cup {b},
         Sends(IF InPlay THEN [window EXCEPT !.out = <<Edge(b, TRUE, "none")>>] ELSE window)
  PROVE  IInv'
<1>1. /\ focused /\ focused' \in BOOLEAN /\ down' \subseteq Buttons /\ window \in Windows
      /\ window.out = <<>>
  BY DEF IInv, TypeOK, Gesture
<1>2. CASE InPlay
  <2>1. PICK w : w = [window EXCEPT !.out = <<Edge(b, TRUE, "none")>>]
    OBVIOUS
  <2>2. /\ w \in Windows /\ w.dead = window.dead /\ w.slipped = window.slipped
        /\ InPlayOf(w) = InPlayOf(window)
        /\ Drained(session, inputs \o w.out)
             = Drain(Drained(session, inputs), Edge(b, TRUE, "none"))
    BY <2>1, EdgeIs
  <2>3. Sends(w)
    BY <1>2, <2>1
  <2>4. ~w.slipped => Drained(session, inputs \o w.out).held
                        \subseteq IF focused' /\ InPlayOf(w) THEN down' ELSE {}
    <3>1. SUFFICES ASSUME ~w.slipped
                   PROVE  Drained(session, inputs \o w.out).held \subseteq down'
      BY <1>1, <1>2, <2>2, InPlayIsOf
    <3>2. Drained(session, inputs).held \subseteq down
      BY <1>1, <1>2, <2>2, <3>1 DEF IInv
    <3>3. Drained(session, inputs \o w.out).held \subseteq Drained(session, inputs).held \cup {b}
      BY <2>2, Coming, EdgeReads, DrainEdge
    <3> QED
      BY <3>2, <3>3
  <2> QED
    BY <1>1, <2>2, <2>3, <2>4, GestureStep
<1>3. CASE ~InPlay
  <2>1. Sends(window)
    BY <1>3
  <2>2. Drained(session, inputs \o window.out) = Drained(session, inputs)
    BY <1>1, Sent
  <2>3. ~window.slipped => Drained(session, inputs \o window.out).held
                        \subseteq IF focused' /\ InPlayOf(window) THEN down' ELSE {}
    BY <1>3, <2>2 DEF IInv
  <2> QED
    BY <1>1, <2>1, <2>3, GestureStep
<1> QED
  BY <1>2, <1>3

LEMMA ReleaseKeeps ==
  ASSUME IInv, Gesture, NEW b \in Buttons, UNCHANGED focused, down' = down \ {b},
         Sends(IF InPlay THEN [window EXCEPT !.out = <<Edge(b, FALSE, "none")>>] ELSE window)
  PROVE  IInv'
<1>1. /\ focused /\ focused' \in BOOLEAN /\ down' \subseteq Buttons /\ window \in Windows
      /\ window.out = <<>>
  BY DEF IInv, TypeOK, Gesture
<1>2. CASE InPlay
  <2>1. PICK w : w = [window EXCEPT !.out = <<Edge(b, FALSE, "none")>>]
    OBVIOUS
  <2>2. /\ w \in Windows /\ w.dead = window.dead /\ w.slipped = window.slipped
        /\ InPlayOf(w) = InPlayOf(window)
        /\ Drained(session, inputs \o w.out)
             = Drain(Drained(session, inputs), Edge(b, FALSE, "none"))
    BY <2>1, EdgeIs
  <2>3. Sends(w)
    BY <1>2, <2>1
  <2>4. ~w.slipped => Drained(session, inputs \o w.out).held
                        \subseteq IF focused' /\ InPlayOf(w) THEN down' ELSE {}
    <3>1. SUFFICES ASSUME ~w.slipped
                   PROVE  Drained(session, inputs \o w.out).held \subseteq down'
      BY <1>1, <1>2, <2>2, InPlayIsOf
    <3>2. PICK s \in Sessions : s = Drained(session, inputs)
      BY Coming
    <3>3. PICK x, t : /\ t = Drain(s, x) /\ x = Edge(b, FALSE, "none")
                      /\ x # FocusLost /\ x.button = b /\ ~x.pressed
      BY EdgeReads
    <3>4. s.held \subseteq down
      BY <1>1, <1>2, <2>2, <3>1, <3>2 DEF IInv
    <3>5. t = Drained(session, inputs \o w.out)
      BY <2>2, <3>2, <3>3
    <3>6. CASE session.dead
      <4>1. s.held = {} /\ s.dead
        BY <3>2, <3>6, Coming
      <4>2. t.held = s.held
        BY <3>3, <4>1, DrainEdge
      <4> QED
        BY <3>5, <4>1, <4>2
    <3>7. CASE ~session.dead /\ b # Attack
      <4>1. ~s.dead
        BY <3>2, <3>7, Coming
      <4>2. t.held = s.held \ {b}
        BY <3>3, <3>7, <4>1, DrainEdge
      <4> QED
        BY <3>4, <3>5, <4>2
    <3>8. CASE b = Attack
      <4>1. t.held = s.held /\ b \notin s.held
        BY <3>2, <3>3, <3>8, Coming, DrainEdge
      <4> QED
        BY <3>4, <3>5, <4>1
    <3> QED
      BY <3>6, <3>7, <3>8
  <2> QED
    BY <1>1, <2>2, <2>3, <2>4, GestureStep
<1>3. CASE ~InPlay
  <2>1. Sends(window)
    BY <1>3
  <2>2. Drained(session, inputs \o window.out) = Drained(session, inputs)
    BY <1>1, Sent
  <2>3. ~window.slipped => Drained(session, inputs \o window.out).held
                        \subseteq IF focused' /\ InPlayOf(window) THEN down' ELSE {}
    BY <1>3, <2>2 DEF IInv
  <2> QED
    BY <1>1, <2>1, <2>3, GestureStep
<1> QED
  BY <1>2, <1>3

LEMMA GrabbedIs ==
  ASSUME NEW w \in Windows
  PROVE  /\ Grabbed(w) \in Windows /\ Refused(w) \in Windows
         /\ Grabbed(w).out = w.out /\ Refused(w).out = w.out
         /\ Grabbed(w).dead = w.dead /\ Refused(w).dead = w.dead
         /\ Grabbed(w).slipped = w.slipped /\ Refused(w).slipped = w.slipped
BY DEF Grabbed, Refused, Windows

\* A gesture that sends nothing, in a window where nothing may be held.
LEMMA QuietKeeps ==
  ASSUME IInv, Gesture, NEW w \in Windows, Sends(w), w.out = <<>>, w.dead = window.dead,
         ~w.slipped => ~window.slipped /\ ~InPlay,
         down' \subseteq Buttons, UNCHANGED focused
  PROVE  IInv'
<1>1. focused' \in BOOLEAN
  BY DEF IInv, TypeOK
<1>2. Drained(session, inputs \o w.out) = Drained(session, inputs)
  BY Sent
<1>3. ~w.slipped => Drained(session, inputs \o w.out).held
                      \subseteq IF focused' /\ InPlayOf(w) THEN down' ELSE {}
  BY <1>2 DEF IInv
<1> QED
  BY <1>1, <1>3, GestureStep

\* A gesture that lets the pointer go and says so.
LEMMA LostKeeps ==
  ASSUME IInv, Gesture, NEW w \in Windows, Sends(w), w.out = <<FocusLost>>,
         w.dead = window.dead, UNCHANGED down, focused' \in BOOLEAN
  PROVE  IInv'
<1>1. FocusLost \in Inputs
  BY DEF Inputs
<1>2. Drained(session, inputs \o w.out) = Drain(Drained(session, inputs), FocusLost)
  BY <1>1, Sent
<1>3. Drained(session, inputs \o w.out).held = {}
  BY <1>1, <1>2, Coming, DrainType
<1>4. down' \subseteq Buttons
  BY DEF IInv, TypeOK
<1> QED
  BY <1>3, <1>4, GestureStep

LEMMA MousePressKeeps == ASSUME IInv, MousePress PROVE IInv'
<1>1. /\ Gesture /\ UNCHANGED focused /\ down' = down \cup {Attack}
      /\ Attack \in Buttons /\ window \in Windows /\ window.out = <<>>
  BY DEF MousePress, Buttons, IInv, TypeOK
<1>2. down' \subseteq Buttons
  BY <1>1 DEF IInv, TypeOK
<1>3. CASE InPlay /\ Sends([window EXCEPT !.out = <<Edge(Attack, TRUE, "none")>>])
  BY <1>1, <1>3, PressKeeps
<1>4. CASE /\ window.screen = "death"
           /\ Sends([window EXCEPT !.out = <<Edge(Attack, TRUE, "death")>>])
  <2>1. PICK w : w = [window EXCEPT !.out = <<Edge(Attack, TRUE, "death")>>]
    OBVIOUS
  <2>2. /\ w \in Windows /\ w.dead = window.dead /\ w.slipped = window.slipped
        /\ Drained(session, inputs \o w.out)
             = Drain(Drained(session, inputs), Edge(Attack, TRUE, "death"))
    BY <1>1, <2>1, EdgeIs
  <2>3. Drained(session, inputs \o w.out).held = Drained(session, inputs).held
    <3>1. PICK x : /\ x = Edge(Attack, TRUE, "death") /\ x # FocusLost
                   /\ x.button = Attack
      BY <1>1, EdgeReads
    <3>2. Drain(Drained(session, inputs), x).held = Drained(session, inputs).held
      BY <3>1, Coming, DrainEdge
    <3> QED
      BY <2>2, <3>1, <3>2
  <2>4. ~InPlay
    BY <1>4 DEF InPlay
  <2>5. ~w.slipped => Drained(session, inputs \o w.out).held
                        \subseteq IF focused' /\ InPlayOf(w) THEN down' ELSE {}
    BY <2>2, <2>3, <2>4 DEF IInv
  <2>6. Sends(w) /\ focused' \in BOOLEAN
    BY <1>1, <1>4, <2>1 DEF IInv, TypeOK
  <2> QED
    BY <1>1, <1>2, <2>2, <2>5, <2>6, GestureStep
<1>5. CASE ~window.grabbed /\ (Sends(Grabbed(window)) \/ Sends(Refused(window)))
  <2>1. ~InPlay
    BY <1>5 DEF InPlay
  <2>2. CASE Sends(Grabbed(window))
    BY <1>1, <1>2, <2>1, <2>2, GrabbedIs, QuietKeeps
  <2>3. CASE Sends(Refused(window))
    BY <1>1, <1>2, <2>1, <2>3, GrabbedIs, QuietKeeps
  <2> QED
    BY <1>5, <2>2, <2>3
<1>6. CASE (window.screen # "none" \/ window.chat) /\ Sends(window)
  <2>1. ~InPlay
    BY <1>6 DEF InPlay
  <2> QED
    BY <1>1, <1>2, <1>6, <2>1, QuietKeeps
<1> QED
  BY <1>3, <1>4, <1>5, <1>6 DEF MousePress

LEMMA OpensKeep == ASSUME IInv, OpenChat \/ OpenInventory PROVE IInv'
<1>1. /\ Gesture /\ InPlay /\ UNCHANGED <<down, focused>>
      /\ window \in Windows /\ window.out = <<>> /\ window.grabbed
      /\ focused' \in BOOLEAN
  BY DEF OpenChat, OpenInventory, InPlay, IInv, TypeOK
<1>2. Append(<<>>, FocusLost) = <<FocusLost>>
  OBVIOUS
<1>3. CASE OpenChat
  <2>1. PICK v : v = [window EXCEPT !.chat = TRUE]
    OBVIOUS
  <2>2. v \in Windows /\ v.out = <<>> /\ v.grabbed /\ v.dead = window.dead
    <3>1. v \in Windows /\ v.out = window.out /\ v.grabbed = window.grabbed
          /\ v.dead = window.dead
      BY <1>1, <2>1 DEF Windows
    <3> QED
      BY <1>1, <3>1
  <2>3. Sends(Released(v))
    BY <1>3, <2>1, <2>2 DEF OpenChat, ChatOpen
  <2> QED
    BY <1>1, <1>2, <2>2, <2>3, ReleasedIs, LostKeeps
<1>4. CASE OpenInventory
  <2>1. PICK v : v = Stand(window, "container")
    OBVIOUS
  <2>2. v \in Windows /\ v.dead = window.dead /\ v.out = Append(window.out, FocusLost)
    BY <1>1, <2>1, StandIs DEF Screens
  <2>3. Sends(v)
    BY <1>4, <2>1 DEF OpenInventory
  <2> QED
    BY <1>1, <1>2, <2>2, <2>3, LostKeeps
<1> QED
  BY <1>3, <1>4

LEMMA EscapeKeeps == ASSUME IInv, Escape PROVE IInv'
<1>1. /\ Gesture /\ UNCHANGED <<down, focused>>
      /\ window \in Windows /\ window.out = <<>> /\ down' \subseteq Buttons
  BY DEF Escape, IInv, TypeOK
<1>2. CASE /\ window.chat
           /\ \/ Sends(Grabbed([window EXCEPT !.chat = FALSE]))
              \/ Sends(Refused([window EXCEPT !.chat = FALSE]))
  <2>1. PICK v : v = [window EXCEPT !.chat = FALSE]
    OBVIOUS
  <2>2. v \in Windows /\ v.out = window.out /\ v.dead = window.dead
        /\ v.slipped = window.slipped
    BY <1>1, <2>1 DEF Windows
  <2>3. ~InPlay
    BY <1>2 DEF InPlay
  <2>4. CASE Sends(Grabbed(v))
    BY <1>1, <2>2, <2>3, <2>4, GrabbedIs, QuietKeeps
  <2>5. CASE Sends(Refused(v))
    BY <1>1, <2>2, <2>3, <2>5, GrabbedIs, QuietKeeps
  <2> QED
    BY <1>2, <2>1, <2>4, <2>5
<1>3. CASE /\ window.screen # "none"
           /\ \/ Sends(Grabbed([window EXCEPT !.screen = "none"]))
              \/ Sends(Refused([window EXCEPT !.screen = "none"]))
  <2>1. PICK v : v = [window EXCEPT !.screen = "none"]
    OBVIOUS
  <2>2. v \in Windows /\ v.out = window.out /\ v.dead = window.dead
        /\ v.slipped = window.slipped
    BY <1>1, <2>1 DEF Windows, Screens
  <2>3. ~InPlay
    BY <1>3 DEF InPlay
  <2>4. CASE Sends(Grabbed(v))
    BY <1>1, <2>2, <2>3, <2>4, GrabbedIs, QuietKeeps
  <2>5. CASE Sends(Refused(v))
    BY <1>1, <2>2, <2>3, <2>5, GrabbedIs, QuietKeeps
  <2> QED
    BY <1>3, <2>1, <2>4, <2>5
<1>4. CASE Sends(Stand(EscapeStepDropped(window), "pause"))
  <2>1. PICK slipped \in BOOLEAN : slipped = (window.slipped \/ window.grabbed)
    BY Zenon
  <2>2. PICK v : v = EscapeStepDropped(window)
    OBVIOUS
  <2>3. v = [window EXCEPT !.grabbed = FALSE, !.slipped = slipped]
    BY <1>1, <2>1, <2>2 DEF EscapeStepDropped, Windows
  <2>4. /\ v \in Windows /\ v.grabbed = FALSE /\ v.slipped = slipped
        /\ v.out = window.out /\ v.dead = window.dead
    BY <1>1, <2>3 DEF Windows
  <2>5. PICK w : w = Stand(v, "pause")
    OBVIOUS
  <2>6. /\ w \in Windows /\ w.dead = v.dead /\ w.out = v.out /\ w.slipped = v.slipped
    BY <2>4, <2>5, StandIs DEF Screens
  <2>7. ~w.slipped => ~window.slipped /\ ~InPlay
    BY <2>1, <2>4, <2>6 DEF InPlay
  <2>8. Sends(w)
    BY <1>4, <2>2, <2>5
  <2> QED
    BY <1>1, <2>4, <2>6, <2>7, <2>8, QuietKeeps
<1> QED
  BY <1>2, <1>3, <1>4 DEF Escape

LEMMA FocusKeeps == ASSUME IInv, LoseFocus \/ LetGoElsewhere \/ RegainFocus PROVE IInv'
<1>1. CASE LoseFocus
  <2>1. /\ Gesture /\ focused' = FALSE /\ Sends(Released(window)) /\ UNCHANGED down
        /\ window \in Windows /\ window.out = <<>>
    BY <1>1 DEF LoseFocus, IInv, TypeOK
  <2>2. PICK w : w = Released(window)
    OBVIOUS
  <2>3. w \in Windows /\ w.dead = window.dead /\ w.out = <<FocusLost>>
    <3>1. Append(<<>>, FocusLost) = <<FocusLost>>
      OBVIOUS
    <3> QED
      BY <2>1, <2>2, <3>1, ReleasedIs
  <2> QED
    BY <2>1, <2>2, <2>3, LostKeeps
<1>2. CASE LetGoElsewhere \/ RegainFocus
  <2>1. /\ ~focused /\ focused' \in BOOLEAN /\ down' \subseteq Buttons
        /\ UNCHANGED <<window, inputs, session, events, asked, gestures, packets>>
    BY <1>2 DEF LetGoElsewhere, RegainFocus, IInv, TypeOK
  <2>2. TypeOK'
    BY <2>1 DEF IInv, TypeOK
  <2>3. ~window.slipped => Drained(session, inputs).held = {}
    BY <2>1 DEF IInv
  <2> QED
    BY <2>1, <2>2, <2>3 DEF IInv, InPlay
<1> QED
  BY <1>1, <1>2

-----------------------------------------------------------------------------
(* The session's passes.                                                   *)

\* A pass whose session keeps of the held keys what the dead let go of, and
\* reports one thing or nothing.
LEMMA PassStep ==
  ASSUME IInv, NEW s \in Sessions, NEW reports, Pass(s, reports),
         packets' \in 0 .. MaxPackets,
         s.held \subseteq Drained(session, inputs).held, s.dead => s.held = {},
         \/ reports = <<>> /\ s.dead = session.dead
         \/ \E x \in Events : /\ reports = <<x>>
                              /\ IF x \in DeathEvents THEN s.dead = (x = "Died")
                                 ELSE s.dead = session.dead
  PROVE  IInv'
<1>1. /\ session' = s /\ inputs' = <<>> /\ asked' = asked \cup Requests
      /\ events' = events \o reports /\ UNCHANGED <<down, focused, window, gestures>>
  BY DEF Pass
<1>2. /\ session \in Sessions /\ inputs \in Seq(Inputs) /\ events \in Seq(Events)
      /\ window \in Windows /\ <<>> \in Seq(Inputs)
  BY DEF IInv, TypeOK
<1>3. Requests \subseteq {"none", "death"}
  <2>1. ASSUME NEW i \in DOMAIN inputs, inputs[i] # FocusLost
        PROVE  inputs[i].screen \in {"none", "death"}
    <3>1. inputs[i] \in Inputs
      BY <1>2
    <3> QED
      BY <2>1, <3>1 DEF Inputs
  <2> QED
    BY <2>1 DEF Requests
<1>4. events' \in Seq(Events)
  <2>1. CASE reports = <<>>
    BY <1>1, <1>2, <2>1
  <2>2. ASSUME NEW x \in Events, reports = <<x>> PROVE events' \in Seq(Events)
    BY <1>1, <1>2, <2>2
  <2> QED
    BY <2>1, <2>2
<1>5. TypeOK'
  BY <1>1, <1>2, <1>3, <1>4 DEF IInv, TypeOK
<1>6. Ahead(window'.dead, 0, events', session'.dead)
  <2>1. /\ window.dead \in BOOLEAN /\ session.dead \in BOOLEAN /\ s.dead \in BOOLEAN
        /\ Ahead(window.dead, 0, events, session.dead)
    BY <1>2 DEF IInv, Windows, Sessions
  <2>2. CASE reports = <<>> /\ s.dead = session.dead
    <3>1. events \o <<>> = events
      BY <1>2
    <3> QED
      BY <1>1, <2>1, <2>2, <3>1
  <2>3. ASSUME NEW x \in Events, reports = <<x>>,
               IF x \in DeathEvents THEN s.dead = (x = "Died") ELSE s.dead = session.dead
        PROVE  Ahead(window'.dead, 0, events', session'.dead)
    BY <1>1, <1>2, <2>1, <2>3, AheadAppend
  <2> QED
    BY <2>2, <2>3
<1>7. Drained(session', inputs') = s
  BY <1>1, DrainedEmpty
<1>8. s.held \subseteq Keys \ {Attack}
  BY Coming
<1>9. ~window'.slipped => Drained(session', inputs').held
                            \subseteq IF focused' /\ InPlay' THEN down' ELSE {}
  BY <1>1, <1>7 DEF IInv, InPlay
<1> QED
  BY <1>1, <1>5, <1>6, <1>8, <1>9 DEF IInv

LEMMA PassesKeep == ASSUME IInv, Session PROVE IInv'
<1>1. packets \in 0 .. MaxPackets /\ MaxPackets \in Nat
  BY BoundsAssumption DEF IInv, TypeOK
<1>2. PICK t \in Sessions : /\ t = Drained(session, inputs) /\ t.dead = session.dead
                            /\ t.dead => t.held = {}
  BY Coming
<1>3. CASE PassWithPacket
  <2>1. PICK packet \in {"health", "respawn", "open", "close"} :
             Pass(Handled(t, packet), Reported(t, packet))
    BY <1>2, <1>3 DEF PassWithPacket
  <2>2. packets' \in 0 .. MaxPackets
    BY <1>1, <1>3 DEF PassWithPacket
  <2>3. PICK s : s = Handled(t, packet)
    OBVIOUS
  <2>4. PICK reports : reports = Reported(t, packet)
    OBVIOUS
  <2>5. CASE packet = "health"
    <3>1. s \in Sessions /\ s.held = {} /\ s.dead = TRUE
      BY <2>3, <2>5 DEF Handled, Sessions
    <3>2. CASE t.dead
      <4>1. reports = <<>>
        BY <2>4, <2>5, <3>2 DEF Reported
      <4>2. s.dead = session.dead
        BY <1>2, <3>1, <3>2 DEF Sessions
      <4> QED
        BY <2>1, <2>2, <2>3, <2>4, <3>1, <4>1, <4>2, PassStep
    <3>3. CASE ~t.dead
      <4>1. reports = <<"Died">> /\ "Died" \in Events /\ "Died" \in DeathEvents
        BY <2>4, <2>5, <3>3 DEF Reported, Events, DeathEvents
      <4>2. s.dead = ("Died" = "Died")
        BY <3>1
      <4> QED
        BY <2>1, <2>2, <2>3, <2>4, <3>1, <4>1, <4>2, PassStep
    <3> QED
      BY <3>2, <3>3
  <2>6. CASE packet = "respawn"
    <3>1. s = [t EXCEPT !.dead = FALSE]
      BY <2>3, <2>6 DEF Handled
    <3>2. s \in Sessions /\ s.held = t.held /\ s.dead = FALSE
      BY <3>1 DEF Sessions
    <3>3. /\ reports = <<"Respawned">> /\ "Respawned" \in Events
          /\ "Respawned" \in DeathEvents /\ s.dead = ("Respawned" = "Died")
      BY <2>4, <2>6, <3>2 DEF Reported, Events, DeathEvents
    <3> QED
      BY <1>2, <2>1, <2>2, <2>3, <2>4, <3>2, <3>3, PassStep
  <2>7. CASE packet \in {"open", "close"}
    <3>1. s = t
      BY <2>3, <2>7 DEF Handled
    <3>2. \E x \in Events \ DeathEvents : reports = <<x>>
      BY <2>4, <2>7 DEF Reported, Events, DeathEvents
    <3> QED
      BY <1>2, <2>1, <2>2, <2>3, <2>4, <3>1, <3>2, PassStep
  <2> QED
    BY <2>5, <2>6, <2>7
<1>4. CASE PassWithTick
  <2>1. Pass(t, <<"PlayerTick">>) /\ packets' = packets
    BY <1>2, <1>4 DEF PassWithTick
  <2>2. "PlayerTick" \in Events /\ "PlayerTick" \notin DeathEvents
    BY DEF Events, DeathEvents
  <2> QED
    BY <1>1, <1>2, <2>1, <2>2, PassStep
<1> QED
  BY <1>3, <1>4 DEF Session

-----------------------------------------------------------------------------
(* The theorems.                                                           *)

LEMMA InitIInv == Init => IInv
<1>1. SUFFICES ASSUME Init PROVE IInv
  OBVIOUS
<1>2. /\ window = NewWindow /\ session = NewSession /\ inputs = <<>> /\ events = <<>>
      /\ down = {} /\ focused \in BOOLEAN /\ asked = {} /\ gestures = 0 /\ packets = 0
  BY <1>1 DEF Init
<1>3. inputs \in Seq(Inputs) /\ events \in Seq(Events) /\ Len(events) = 0
  BY <1>2
<1>4. session \in Sessions /\ session.held = {} /\ ~session.dead
  BY <1>2 DEF NewSession, Sessions
<1>5. window \in Windows /\ window.out = <<>> /\ window.dead = FALSE
  <2>1. PICK none \in Seq(Inputs) : none = <<>>
    BY <1>2, <1>3
  <2>2. window = [grabbed |-> FALSE, locked |-> FALSE, slipped |-> FALSE, chat |-> FALSE,
                  screen |-> "none", gate |-> FALSE, dead |-> FALSE, out |-> none]
    BY <1>2, <2>1 DEF NewWindow
  <2> QED
    BY <2>1, <2>2 DEF Windows, Screens
<1>6. TypeOK
  BY <1>2, <1>3, <1>4, <1>5, BoundsAssumption DEF TypeOK
<1>7. Ahead(window.dead, 0, events, session.dead)
  <2>1. session.dead = FALSE
    BY <1>2 DEF NewSession
  <2>2. session.dead = window.dead
    BY <1>5, <2>1
  <2>3. 0 + 1 .. 0 = {}
    OBVIOUS
  <2> QED
    BY <1>3, <2>2, <2>3 DEF Ahead
<1>8. Drained(session, inputs) = session
  BY <1>2, <1>4, DrainedEmpty
<1> QED
  BY <1>4, <1>6, <1>7, <1>8 DEF IInv

LEMMA NextIInv == IInv /\ [Next]_vars => IInv'
<1>1. SUFFICES ASSUME IInv, [Next]_vars PROVE IInv'
  OBVIOUS
<1>2. ASSUME NEW k \in Keys, KeyPress(k) \/ KeyRelease(k) PROVE IInv'
  <2>1. k \in Buttons
    BY DEF Buttons
  <2> QED
    BY <1>1, <1>2, <2>1, PressKeeps, ReleaseKeeps DEF KeyPress, KeyRelease
<1>3. CASE MousePress
  BY <1>1, <1>3, MousePressKeeps
<1>4. CASE MouseRelease
  <2>1. Attack \in Buttons
    BY DEF Buttons
  <2> QED
    BY <1>1, <1>4, <2>1, ReleaseKeeps DEF MouseRelease
<1>5. CASE OpenChat \/ OpenInventory
  BY <1>1, <1>5, OpensKeep
<1>6. CASE Escape
  BY <1>1, <1>6, EscapeKeeps
<1>7. CASE LoseFocus \/ LetGoElsewhere \/ RegainFocus
  BY <1>1, <1>7, FocusKeeps
<1>8. CASE Frame
  BY <1>1, <1>8, FrameKeeps
<1>9. CASE Session
  BY <1>1, <1>9, PassesKeep
<1>10. CASE UNCHANGED vars
  BY <1>1, <1>10 DEF vars, IInv, TypeOK, InPlay
<1> QED
  BY <1>1, <1>2, <1>3, <1>4, <1>5, <1>6, <1>7, <1>8, <1>9, <1>10 DEF Next, Player

\* The types, and what is on its way, hold in every state.
THEOREM Invariance == Spec => []IInv
<1> QED
  BY InitIInv, NextIInv, PTL DEF Spec

\* A session that has drained its inputs holds no key the player has let go, and
\* none while the pointer is free, but for those held when an Escape opened the
\* pause menu: whatever deaths, screens and losses of focus came in between.
THEOREM HeldKeysAreDown == Spec => []KeysAreDown
<1>1. IInv => KeysAreDown
  <2>1. SUFFICES ASSUME IInv, inputs = <<>>, ~window.slipped
                 PROVE  session.held \subseteq IF window.grabbed THEN down ELSE {}
    BY DEF KeysAreDown, Settled
  <2>2. Drained(session, inputs) = session
    BY <2>1, DrainedEmpty DEF IInv, TypeOK
  <2> QED
    BY <2>1, <2>2 DEF IInv, InPlay
<1> QED
  BY <1>1, Invariance, PTL
=============================================================================
