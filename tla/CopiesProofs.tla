---------------------------- MODULE CopiesProofs ----------------------------
(***************************************************************************)
(* Two tables the game keeps twice.                                        *)
(*                                                                         *)
(* The player list and the scoreboard, for every set of names and every    *)
(* sequence of packets: the board is consistent and implements the one     *)
(* that holds each fact once, and the window's copies follow.              *)
(*                                                                         *)
(* The slots of an open window, for any slots, items and stack size: the   *)
(* session's prediction of a click is the container's own click, no click  *)
(* makes an item, and once nothing is on its way the window shows what the *)
(* server holds.                                                           *)
(***************************************************************************)
EXTENDS Roster, Windows, TLAPS, SequenceTheorems, FiniteSetTheorems, WellFoundedInduction

-----------------------------------------------------------------------------
(* The player list and the scoreboard.                                     *)

NoCopies == [list |-> NoList, board |-> NoBoard, text |-> Nothing]

\* The strengthening: a board on its way is consistent too, and before the
\* first server is joined the window's copies are empty.
IInv ==
  /\ TypeOK
  /\ BoardConsistent
  /\ \A i \in DOMAIN channel : channel[i].kind = "board" => Consistent(channel[i].table)
  /\ joined = 0 => ~linked /\ window = NoCopies
  /\ CopiesFollow

-----------------------------------------------------------------------------
(* The last event of a kind.                                               *)

LEMMA MaxOfSome ==
  ASSUME NEW n \in Nat, NEW T \in SUBSET (1 .. n), T # {}
  PROVE  Max(T) \in T /\ \A i \in T : i <= Max(T)
<1> DEFINE U == {n - i : i \in T}
           R == OpToRel(<, Nat)
<1>1. U \subseteq Nat
  <2>1. \A i \in T : i \in 1 .. n
    OBVIOUS
  <2> QED
    BY <2>1
<1>2. PICK k \in T : TRUE
  OBVIOUS
<1>3. n - k \in U
  BY <1>2
<1>4. \A x, y \in Nat : <<y, x>> \in R <=> y < x
  BY DEF OpToRel
<1>5. IsWellFoundedOn(R, Nat)
  BY NatLessThanWellFounded
<1> HIDE DEF U, R
<1>6. PICK x \in U : \A y \in U : ~ (<<y, x>> \in R)
  BY <1>1, <1>3, <1>5, WFMin
<1>7. ASSUME NEW y \in U PROVE x <= y
  <2>1. x \in Nat /\ y \in Nat
    BY <1>1
  <2>2. ~ (y < x)
    BY <1>4, <1>6, <2>1
  <2> QED
    BY <2>1, <2>2
<1>8. PICK m \in T : x = n - m
  BY <1>6 DEF U
<1>9. \A i \in T : m >= i
  <2>1. \A i \in T : i \in 1 .. n /\ n - i \in U
    BY DEF U
  <2> QED
    BY <1>7, <1>8, <2>1
<1> QED
  BY <1>8, <1>9 DEF Max

LEMMA LastOfIs ==
  ASSUME NEW events \in Seq(Events), NEW kind
  PROVE  LET last == LastOf(events, kind)
         IN  \/ last = 0 /\ \A i \in DOMAIN events : events[i].kind # kind
             \/ /\ last \in DOMAIN events /\ events[last].kind = kind
                /\ \A i \in DOMAIN events : events[i].kind = kind => i <= last
<1> DEFINE I == {i \in 1 .. Len(events) : events[i].kind = kind}
<1>1. CASE I = {}
  BY <1>1 DEF LastOf, SelectLastInSeq
<1>2. CASE I # {}
  <2>1. I \in SUBSET (1 .. Len(events)) /\ Len(events) \in Nat
    OBVIOUS
  <2>2. Max(I) \in I /\ \A i \in I : i <= Max(I)
    BY <1>2, <2>1, MaxOfSome
  <2>3. LastOf(events, kind) = Max(I)
    BY <1>2 DEF LastOf, SelectLastInSeq
  <2> HIDE DEF I
  <2> QED
    BY <2>2, <2>3 DEF I
<1> QED
  BY <1>1, <1>2

\* One more event of the kind is its last; one of another kind leaves it.
LEMMA ObservedAppend ==
  ASSUME NEW events \in Seq(Events), NEW e \in Events, NEW kind, NEW kept
  PROVE  Observed(Append(events, e), kind, kept) =
           IF e.kind = kind THEN e.table ELSE Observed(events, kind, kept)
<1> DEFINE more == Append(events, e)
           n == Len(events) + 1
           last == LastOf(events, kind)
           now == LastOf(more, kind)
<1>1. /\ more \in Seq(Events) /\ n \in Nat
      /\ DOMAIN more = 1 .. n /\ DOMAIN events = 1 .. n - 1
      /\ more[n] = e
      /\ \A i \in DOMAIN events : more[i] = events[i]
  OBVIOUS
<1>2. \/ last = 0 /\ \A i \in DOMAIN events : events[i].kind # kind
      \/ /\ last \in DOMAIN events /\ events[last].kind = kind
         /\ \A i \in DOMAIN events : events[i].kind = kind => i <= last
  BY LastOfIs
<1> HIDE DEF more
<1>3. \/ now = 0 /\ \A i \in DOMAIN more : more[i].kind # kind
      \/ /\ now \in DOMAIN more /\ more[now].kind = kind
         /\ \A i \in DOMAIN more : more[i].kind = kind => i <= now
  BY <1>1, LastOfIs
<1> HIDE DEF n, last, now
<1>4. CASE e.kind = kind
  <2>1. now = n
    BY <1>1, <1>3, <1>4
  <2>2. n # 0
    BY <1>1 DEF n
  <2> QED
    BY <1>1, <1>4, <2>1, <2>2 DEF Observed, now, more
<1>5. CASE e.kind # kind
  <2>1. now = last
    BY <1>1, <1>2, <1>3, <1>5
  <2>2. last # 0 => last \in DOMAIN events
    BY <1>2
  <2> QED
    BY <1>1, <1>5, <2>1, <2>2 DEF Observed, now, last, more
<1> QED
  BY <1>4, <1>5

LEMMA ObservedEmpty == \A kind, kept : Observed(<<>>, kind, kept) = kept
<1>1. <<>> \in Seq(Events) /\ DOMAIN <<>> = {}
  OBVIOUS
<1>2. ASSUME NEW kind PROVE LastOf(<<>>, kind) = 0
  <2>1. LastOf(<<>>, kind) \notin DOMAIN <<>>
    BY <1>1
  <2> QED
    BY <1>1, <2>1, LastOfIs
<1> QED
  BY <1>2 DEF Observed

\* What a drain leaves has the types of the tables, and of the boards only
\* those that were kept or on their way.
LEMMA ObservedFrom ==
  ASSUME NEW events \in Seq(Events), NEW kind, NEW kept
  PROVE  \/ Observed(events, kind, kept) = kept
         \/ \E i \in DOMAIN events :
              events[i].kind = kind /\ Observed(events, kind, kept) = events[i].table
BY LastOfIs DEF Observed

\* A report that is made unless the table was the same: what a drain leaves.
Unless(e, old) == IF e.table = old THEN <<>> ELSE <<e>>

LEMMA UnlessKinds ==
  ASSUME NEW e \in Events, NEW old
  PROVE  LET reports == Unless(e, old)
         IN  /\ reports \in Seq(Events)
             /\ {reports[i].kind : i \in DOMAIN reports} = IF e.table = old THEN {} ELSE {e.kind}
<1> DEFINE reports == Unless(e, old)
<1>1. CASE e.table = old
  <2>1. reports = <<>>
    BY <1>1 DEF Unless
  <2> HIDE DEF reports
  <2> QED
    BY <1>1, <2>1 DEF reports
<1>2. CASE e.table # old
  <2>1. reports = <<e>>
    BY <1>2 DEF Unless
  <2> HIDE DEF reports
  <2>2. reports \in Seq(Events) /\ {reports[i].kind : i \in DOMAIN reports} = {e.kind}
    BY <2>1
  <2> QED
    BY <1>2, <2>2 DEF reports
<1> QED
  BY <1>1, <1>2

KindsOf(events) == {events[i].kind : i \in DOMAIN events}

LEMMA KindsOfUnless ==
  ASSUME NEW e \in Events, NEW old
  PROVE  /\ Unless(e, old) \in Seq(Events)
         /\ KindsOf(Unless(e, old)) = IF e.table = old THEN {} ELSE {e.kind}
BY UnlessKinds DEF KindsOf

LEMMA MaybeReported ==
  ASSUME NEW events \in Seq(Events), NEW e \in Events, NEW old
  PROVE  LET reports == Unless(e, old)
             more    == events \o reports
         IN  /\ more \in Seq(Events)
             /\ \A kind, kept : Observed(more, kind, kept) =
                  IF e.table # old /\ e.kind = kind THEN e.table ELSE Observed(events, kind, kept)
             /\ \A i \in DOMAIN more : more[i] = e \/ \E j \in DOMAIN events : more[i] = events[j]
<1>1. CASE e.table = old
  <2>1. events \o <<>> = events
    OBVIOUS
  <2> QED
    BY <1>1, <2>1 DEF Unless
<1>2. CASE e.table # old
  <2>1. events \o <<e>> = Append(events, e) /\ Append(events, e) \in Seq(Events)
    OBVIOUS
  <2>2. \A i \in DOMAIN Append(events, e) :
          Append(events, e)[i] = e \/ \E j \in DOMAIN events : Append(events, e)[i] = events[j]
    <3>1. \A i \in DOMAIN Append(events, e) :
            \/ Append(events, e)[i] = e
            \/ i \in DOMAIN events /\ Append(events, e)[i] = events[i]
      OBVIOUS
    <3> QED
      BY <3>1
  <2>3. \A kind, kept : Observed(Append(events, e), kind, kept) =
          IF e.kind = kind THEN e.table ELSE Observed(events, kind, kept)
    BY ObservedAppend
  <2> DEFINE reports == Unless(e, old)
             more    == events \o reports
  <2>4. reports = <<e>> /\ more = Append(events, e)
    BY <1>2, <2>1 DEF Unless
  <2> HIDE DEF reports, more
  <2>5. /\ more \in Seq(Events)
        /\ \A kind, kept : Observed(more, kind, kept) =
             IF e.kind = kind THEN e.table ELSE Observed(events, kind, kept)
        /\ \A i \in DOMAIN more : more[i] = e \/ \E j \in DOMAIN events : more[i] = events[j]
    BY <2>1, <2>2, <2>3, <2>4
  <2> QED
    BY <1>2, <2>5 DEF reports, more
<1> QED
  BY <1>1, <1>2

-----------------------------------------------------------------------------
(* Each mutator of the scoreboard leaves a consistent board.               *)

Good(b) == b \in Boards /\ Consistent(b)

LEMMA NoBoardGood == Good(NoBoard)
BY NothingAssumption
   DEF Good, Boards, NoBoard, Consistent, MembershipAgrees, NothingDangles

LEMMA ObjectivesGood ==
  ASSUME NEW b, Good(b), NEW o \in Objectives
  PROVE  Good(SetObjective(b, o)) /\ Good(RemoveObjective(b, o))
BY DEF Good, Boards, Consistent, MembershipAgrees, NothingDangles, SetObjective, RemoveObjective

LEMMA ScoresGood ==
  ASSUME NEW b, Good(b), NEW p \in Players
  PROVE  /\ Good(RemoveScores(b, p))
         /\ \A o \in b.objectives : Good(SetScore(b, p, o)) /\ Good(RemoveScore(b, p, o))
BY DEF Good, Boards, Consistent, MembershipAgrees, NothingDangles,
       RemoveScores, SetScore, RemoveScore

LEMMA DisplayGood ==
  ASSUME NEW b, Good(b), NEW s \in Slots, NEW o \in b.objectives \cup {Nothing}
  PROVE  Good(SetDisplay(b, s, o))
BY DEF Good, Boards, Consistent, MembershipAgrees, NothingDangles, SetDisplay

\* What the operations on teams write: the teams, a team's players, and each
\* entry's team, of a board whose other tables stay.
SameScores(b, r) ==
  r.objectives = b.objectives /\ r.scores = b.scores /\ r.display = b.display

LEMMA SetTeamFields ==
  ASSUME NEW b \in Boards, NEW t \in Teams
  PROVE  LET r == SetTeam(b, t)
         IN  /\ r \in Boards /\ SameScores(b, r)
             /\ r.teams = b.teams \cup {t}
             /\ r.players = b.players /\ r.member_of = b.member_of
BY DEF Boards, SetTeam, SameScores

LEMMA RemoveTeamFields ==
  ASSUME NEW b \in Boards, NEW t \in Teams
  PROVE  LET r == RemoveTeam(b, t)
         IN  /\ r \in Boards /\ SameScores(b, r)
             /\ r.teams = b.teams \ {t}
             /\ \A u \in Teams : r.players[u] = IF u = t THEN {} ELSE b.players[u]
             /\ \A p \in Players :
                  r.member_of[p] = IF b.member_of[p] = t THEN Nothing ELSE b.member_of[p]
BY DEF Boards, RemoveTeam, SameScores

LEMMA AddTeamPlayersFields ==
  ASSUME NEW b \in Boards, NEW t \in b.teams, NEW moved \in SUBSET Players
  PROVE  LET r == AddTeamPlayers(b, t, moved)
         IN  /\ r \in Boards /\ SameScores(b, r) /\ r.teams = b.teams
             /\ \A u \in Teams : \A p \in Players :
                  p \in r.players[u] <=>
                    IF u = t THEN p \in b.players[u] \/ p \in moved
                    ELSE p \in b.players[u] /\ (p \notin moved \/ b.member_of[p] # u)
             /\ \A p \in Players : r.member_of[p] = IF p \in moved THEN t ELSE b.member_of[p]
<1> DEFINE members == [p \in Players |-> IF p \in moved THEN t ELSE b.member_of[p]]
           players == [u \in Teams |->
                         IF u = t THEN b.players[u] \cup moved
                         ELSE {p \in b.players[u] : p \notin moved \/ b.member_of[p] # u}]
           r == [b EXCEPT !.member_of = members, !.players = players]
<1>1. r = AddTeamPlayers(b, t, moved)
  BY DEF AddTeamPlayers
<1>2. t \in Teams
  BY DEF Boards
<1>3. members \in [Players -> Teams \cup {Nothing}]
  BY <1>2 DEF Boards
<1>4. players \in [Teams -> SUBSET Players]
  BY DEF Boards
<1>5. /\ \A u \in Teams : \A p \in Players :
           p \in players[u] <=>
             IF u = t THEN p \in b.players[u] \/ p \in moved
             ELSE p \in b.players[u] /\ (p \notin moved \/ b.member_of[p] # u)
      /\ \A p \in Players : members[p] = IF p \in moved THEN t ELSE b.member_of[p]
  OBVIOUS
<1> HIDE DEF members, players
<1>6. /\ r \in Boards /\ SameScores(b, r) /\ r.teams = b.teams
      /\ r.players = players /\ r.member_of = members
  BY <1>3, <1>4 DEF Boards, SameScores
<1> HIDE DEF r
<1> QED
  BY <1>1, <1>5, <1>6

LEMMA RemoveTeamPlayersFields ==
  ASSUME NEW b \in Boards, NEW t \in Teams, NEW named \in SUBSET Players
  PROVE  LET r == RemoveTeamPlayers(b, t, named)
         IN  /\ r \in Boards /\ SameScores(b, r) /\ r.teams = b.teams
             /\ \A u \in Teams : \A p \in Players :
                  p \in r.players[u] <=>
                    p \in b.players[u] /\ ~(u = t /\ p \in named /\ b.member_of[p] = t)
             /\ \A p \in Players :
                  r.member_of[p] = IF p \in named /\ b.member_of[p] = t THEN Nothing
                                   ELSE b.member_of[p]
<1> DEFINE gone == {p \in named : b.member_of[p] = t}
           members == [p \in Players |-> IF p \in gone THEN Nothing ELSE b.member_of[p]]
           r == [b EXCEPT !.member_of = members, !.players[t] = @ \ gone]
<1>1. r = RemoveTeamPlayers(b, t, named)
  BY DEF RemoveTeamPlayers
<1>2. \A p : p \in gone <=> p \in named /\ b.member_of[p] = t
  OBVIOUS
<1> HIDE DEF gone
<1>3. members \in [Players -> Teams \cup {Nothing}]
  BY DEF Boards
<1>4. \A p \in Players : members[p] = IF p \in gone THEN Nothing ELSE b.member_of[p]
  OBVIOUS
<1> HIDE DEF members
<1>5. /\ r \in Boards /\ SameScores(b, r) /\ r.teams = b.teams
      /\ r.member_of = members
      /\ \A u \in Teams : r.players[u] = IF u = t THEN b.players[u] \ gone ELSE b.players[u]
  BY <1>3 DEF Boards, SameScores
<1> HIDE DEF r
<1> QED
  BY <1>1, <1>2, <1>4, <1>5

LEMMA SetTeamGood ==
  ASSUME NEW b, Good(b), NEW t \in Teams PROVE Good(SetTeam(b, t))
BY SetTeamFields DEF Good, Consistent, MembershipAgrees, NothingDangles, SameScores

LEMMA RemoveTeamGood ==
  ASSUME NEW b, Good(b), NEW t \in Teams PROVE Good(RemoveTeam(b, t))
BY RemoveTeamFields, NothingAssumption
   DEF Good, Consistent, MembershipAgrees, NothingDangles, SameScores

LEMMA AddTeamPlayersGood ==
  ASSUME NEW b, Good(b), NEW t \in Teams, NEW moved \in SUBSET Players
  PROVE  Good(AddTeamPlayers(b, t, moved))
<1> DEFINE r == AddTeamPlayers(b, t, moved)
<1>1. CASE t \notin b.teams
  BY <1>1 DEF AddTeamPlayers
<1>2. CASE t \in b.teams
  <2>1. /\ r \in Boards /\ SameScores(b, r) /\ r.teams = b.teams
        /\ \A u \in Teams : \A p \in Players :
             p \in r.players[u] <=>
               IF u = t THEN p \in b.players[u] \/ p \in moved
               ELSE p \in b.players[u] /\ (p \notin moved \/ b.member_of[p] # u)
        /\ \A p \in Players : r.member_of[p] = IF p \in moved THEN t ELSE b.member_of[p]
    BY <1>2, AddTeamPlayersFields DEF Good
  <2> HIDE DEF r
  <2>2. NothingDangles(r)
    BY <1>2, <2>1 DEF Good, Consistent, NothingDangles, SameScores
  <2>3. ASSUME NEW u \in Teams PROVE r.players[u] = {p \in Players : r.member_of[p] = u}
    <3>1. r.players[u] \subseteq Players
      BY <2>1 DEF Boards
    <3>2. \A p \in Players : p \in r.players[u] <=> r.member_of[p] = u
      BY <1>2, <2>1 DEF Good, Consistent, MembershipAgrees
    <3> QED
      BY <3>1, <3>2
  <2> QED
    BY <2>1, <2>2, <2>3 DEF Good, Consistent, MembershipAgrees, r
<1> QED
  BY <1>1, <1>2

LEMMA RemoveTeamPlayersGood ==
  ASSUME NEW b, Good(b), NEW t \in Teams, NEW named \in SUBSET Players
  PROVE  Good(RemoveTeamPlayers(b, t, named))
<1> DEFINE r == RemoveTeamPlayers(b, t, named)
<1>1. /\ r \in Boards /\ SameScores(b, r) /\ r.teams = b.teams
      /\ \A u \in Teams : \A p \in Players :
           p \in r.players[u] <=>
             p \in b.players[u] /\ ~(u = t /\ p \in named /\ b.member_of[p] = t)
      /\ \A p \in Players :
           r.member_of[p] = IF p \in named /\ b.member_of[p] = t THEN Nothing
                            ELSE b.member_of[p]
  BY RemoveTeamPlayersFields DEF Good
<1> HIDE DEF r
<1>2. NothingDangles(r)
  BY <1>1 DEF Good, Consistent, NothingDangles, SameScores
<1>3. ASSUME NEW u \in Teams PROVE r.players[u] = {p \in Players : r.member_of[p] = u}
  <2>1. r.players[u] \subseteq Players
    BY <1>1 DEF Boards
  <2>2. \A p \in Players : p \in r.players[u] <=> r.member_of[p] = u
    BY <1>1, NothingAssumption DEF Good, Consistent, MembershipAgrees
  <2> QED
    BY <2>1, <2>2
<1> QED
  BY <1>1, <1>2, <1>3 DEF Good, Consistent, MembershipAgrees, r

LEMMA CreateTeamGood ==
  ASSUME NEW b, Good(b), NEW t \in Teams, NEW named \in SUBSET Players
  PROVE  Good(CreateTeam(b, t, named))
BY RemoveTeamGood, SetTeamGood, AddTeamPlayersGood DEF CreateTeam

-----------------------------------------------------------------------------
(* The steps keep the invariant.                                           *)

LEMMA EventTables ==
  ASSUME NEW e \in Events
  PROVE  /\ e.kind \in EventKinds
         /\ e.kind = "list" => e.table \in Lists
         /\ e.kind = "board" => e.table \in Boards
         /\ e.kind = "text" => e.table \in Texts
BY DEF Events, EventKinds

LEMMA EventTypes ==
  /\ \A now \in Lists : Event("list", now) \in Events
  /\ \A now \in Boards : Event("board", now) \in Events
  /\ \A now \in Texts : Event("text", now) \in Events
BY DEF Event, Events

\* A drain leaves tables, and a consistent board.
LEMMA DrainedType ==
  ASSUME IInv
  PROVE  Drained \in [list : Lists, board : Boards, text : Texts] /\ Consistent(Drained.board)
<1>1. /\ channel \in Seq(Events)
      /\ window.list \in Lists /\ window.board \in Boards /\ window.text \in Texts
      /\ Consistent(window.board)
      /\ \A i \in DOMAIN channel : channel[i].kind = "board" => Consistent(channel[i].table)
  BY DEF IInv, TypeOK, BoardConsistent
<1>2. \A i \in DOMAIN channel : channel[i] \in Events
  BY <1>1
<1>3. Observed(channel, "list", window.list) \in Lists
  BY <1>1, <1>2, ObservedFrom, EventTables
<1>4. Observed(channel, "board", window.board) \in Boards
      /\ Consistent(Observed(channel, "board", window.board))
  BY <1>1, <1>2, ObservedFrom, EventTables
<1>5. Observed(channel, "text", window.text) \in Texts
  BY <1>1, <1>2, ObservedFrom, EventTables
<1> QED
  BY <1>3, <1>4, <1>5 DEF Drained

\* The kinds of two reports in a row.
LEMMA ConcatKinds ==
  ASSUME NEW s \in Seq(Events), NEW t \in Seq(Events)
  PROVE  {(s \o t)[i].kind : i \in DOMAIN (s \o t)} =
           {s[i].kind : i \in DOMAIN s} \cup {t[i].kind : i \in DOMAIN t}
<1> DEFINE u == s \o t
<1>1. \A i \in DOMAIN u :
        \/ i \in DOMAIN s /\ u[i] = s[i]
        \/ i - Len(s) \in DOMAIN t /\ u[i] = t[i - Len(s)]
  OBVIOUS
<1>2. \A i \in DOMAIN s : i \in DOMAIN u /\ u[i] = s[i]
  OBVIOUS
<1>3. \A i \in DOMAIN t : i + Len(s) \in DOMAIN u /\ u[i + Len(s)] = t[i]
  OBVIOUS
<1> HIDE DEF u
<1>4. {u[i].kind : i \in DOMAIN u} = {s[i].kind : i \in DOMAIN s} \cup {t[i].kind : i \in DOMAIN t}
  BY <1>1, <1>2, <1>3
<1> QED
  BY <1>4 DEF u

\* A handler that writes one table and reports it if it changed.
LEMMA WriteStep ==
  ASSUME IInv, Handles, NEW e \in Events, NEW old,
         Reports(Unless(e, old)),
         e.kind = "board" => Consistent(e.table)
  PROVE  /\ channel' \in Seq(Events) /\ told' \subseteq EventKinds
         /\ packets' \in 0 .. MaxPackets
         /\ \A i \in DOMAIN channel' : channel'[i].kind = "board" => Consistent(channel'[i].table)
         /\ told' = told \cup (IF e.table = old THEN {} ELSE {e.kind})
         /\ \A kind, kept : Observed(channel', kind, kept) =
              IF e.table # old /\ e.kind = kind THEN e.table ELSE Observed(channel, kind, kept)
<1> DEFINE reports == Unless(e, old)
           more == channel \o reports
<1>1. channel \in Seq(Events) /\ told \subseteq EventKinds /\ e.kind \in EventKinds
  BY EventTables DEF IInv, TypeOK
<1>2. channel' = more /\ told' = told \cup {reports[i].kind : i \in DOMAIN reports}
  BY DEF Reports
<1>3. {reports[i].kind : i \in DOMAIN reports} = IF e.table = old THEN {} ELSE {e.kind}
  BY UnlessKinds
<1>4. /\ more \in Seq(Events)
      /\ \A kind, kept : Observed(more, kind, kept) =
           IF e.table # old /\ e.kind = kind THEN e.table ELSE Observed(channel, kind, kept)
      /\ \A i \in DOMAIN more : more[i] = e \/ \E j \in DOMAIN channel : more[i] = channel[j]
  BY <1>1, MaybeReported
<1> HIDE DEF reports, more
<1>5. packets' \in 0 .. MaxPackets
  BY BoundsAssumption DEF IInv, TypeOK, Handles
<1> QED
  BY <1>1, <1>2, <1>3, <1>4, <1>5 DEF IInv

LEMMA ListStep == ASSUME IInv, NEW now \in Lists, ListBecomes(now) PROVE IInv'
<1> DEFINE e == Event("list", now)
<1>1. Handles /\ Reports(Unless(e, list)) /\ list' = now
      /\ UNCHANGED <<board, text, linked, joined, window>> /\ linked
  BY DEF ListBecomes, ListReport, Handles, Event, Unless
<1>2. e \in Events /\ e.kind = "list" /\ e.table = now
  BY EventTypes DEF Event
<1> HIDE DEF e
<1>3. /\ channel' \in Seq(Events) /\ told' \subseteq EventKinds
      /\ packets' \in 0 .. MaxPackets
      /\ \A i \in DOMAIN channel' : channel'[i].kind = "board" => Consistent(channel'[i].table)
      /\ told' = told \cup (IF now = list THEN {} ELSE {"list"})
      /\ \A kind, kept : Observed(channel', kind, kept) =
           IF now # list /\ kind = "list" THEN now ELSE Observed(channel, kind, kept)
  BY <1>1, <1>2, WriteStep
<1>4. TypeOK' /\ BoardConsistent'
  BY <1>1, <1>3 DEF IInv, TypeOK, BoardConsistent
<1>5. CopiesFollow'
  BY <1>1, <1>3 DEF IInv, CopiesFollow, Follows, Drained
<1> QED
  BY <1>1, <1>3, <1>4, <1>5 DEF IInv

LEMMA BoardStep == ASSUME IInv, NEW now, Good(now), BoardBecomes(now) PROVE IInv'
<1> DEFINE e == Event("board", now)
<1>1. Handles /\ Reports(Unless(e, board)) /\ board' = now
      /\ UNCHANGED <<list, text, linked, joined, window>> /\ linked
  BY DEF BoardBecomes, BoardReport, Handles, Event, Unless
<1>2. e \in Events /\ e.kind = "board" /\ e.table = now
  BY EventTypes DEF Event, Good
<1> HIDE DEF e
<1>3. /\ channel' \in Seq(Events) /\ told' \subseteq EventKinds
      /\ packets' \in 0 .. MaxPackets
      /\ \A i \in DOMAIN channel' : channel'[i].kind = "board" => Consistent(channel'[i].table)
      /\ told' = told \cup (IF now = board THEN {} ELSE {"board"})
      /\ \A kind, kept : Observed(channel', kind, kept) =
           IF now # board /\ kind = "board" THEN now ELSE Observed(channel, kind, kept)
  BY <1>1, <1>2, WriteStep DEF Good
<1>4. TypeOK' /\ BoardConsistent'
  BY <1>1, <1>3 DEF IInv, TypeOK, BoardConsistent, Good
<1>5. CopiesFollow'
  BY <1>1, <1>3 DEF IInv, CopiesFollow, Follows, Drained
<1> QED
  BY <1>1, <1>3, <1>4, <1>5 DEF IInv

LEMMA TextStep == ASSUME IInv, NEW now \in Looks, TabHeaderFooter(now) PROVE IInv'
<1> DEFINE e == Event("text", now)
<1>1. Handles /\ Reports(Unless(e, text)) /\ text' = now
      /\ UNCHANGED <<list, board, linked, joined, window>> /\ linked
  BY DEF TabHeaderFooter, TextReport, Handles, Event, Unless
<1>2. e \in Events /\ e.kind = "text" /\ e.table = now
  BY EventTypes DEF Event, Texts
<1> HIDE DEF e
<1>3. /\ channel' \in Seq(Events) /\ told' \subseteq EventKinds
      /\ packets' \in 0 .. MaxPackets
      /\ \A i \in DOMAIN channel' : channel'[i].kind = "board" => Consistent(channel'[i].table)
      /\ told' = told \cup (IF now = text THEN {} ELSE {"text"})
      /\ \A kind, kept : Observed(channel', kind, kept) =
           IF now # text /\ kind = "text" THEN now ELSE Observed(channel, kind, kept)
  BY <1>1, <1>2, WriteStep
<1>4. TypeOK' /\ BoardConsistent'
  BY <1>1, <1>3 DEF IInv, TypeOK, BoardConsistent, Texts
<1>5. CopiesFollow'
  BY <1>1, <1>3 DEF IInv, CopiesFollow, Follows, Drained
<1> QED
  BY <1>1, <1>3, <1>4, <1>5 DEF IInv

LEMMA JoinGameStep == ASSUME IInv, JoinGame PROVE IInv'
<1> DEFINE l == Event("list", NoList)
           b == Event("board", NoBoard)
           lists == Unless(l, list)
           boards == Unless(b, board)
           first == channel \o lists
           more == first \o boards
           kinds == {(lists \o boards)[i].kind : i \in DOMAIN (lists \o boards)}
<1>1. /\ linked /\ UNCHANGED <<linked, joined, window, text>>
      /\ list' = NoList /\ board' = NoBoard
      /\ packets' \in 0 .. MaxPackets
  BY BoundsAssumption DEF JoinGame, Handles, IInv, TypeOK
<1>2. channel' = channel \o (lists \o boards) /\ told' = told \cup kinds
  BY DEF JoinGame, Reports, ListReport, BoardReport, Event, Unless
<1>3. /\ l \in Events /\ l.kind = "list" /\ l.table = NoList
      /\ b \in Events /\ b.kind = "board" /\ b.table = NoBoard
      /\ NoList \in Lists /\ Good(NoBoard)
  BY NoBoardGood, EventTypes DEF Event, NoList, Lists, Good
<1>4. channel \in Seq(Events) /\ told \subseteq EventKinds
  BY DEF IInv, TypeOK
<1> HIDE DEF l, b
<1>5. /\ lists \in Seq(Events) /\ boards \in Seq(Events)
      /\ {lists[i].kind : i \in DOMAIN lists} = (IF NoList = list THEN {} ELSE {"list"})
      /\ {boards[i].kind : i \in DOMAIN boards} = (IF NoBoard = board THEN {} ELSE {"board"})
  <2>1. lists \in Seq(Events) /\ KindsOf(lists) = (IF l.table = list THEN {} ELSE {l.kind})
    BY <1>3, KindsOfUnless
  <2>2. boards \in Seq(Events) /\ KindsOf(boards) = (IF b.table = board THEN {} ELSE {b.kind})
    BY <1>3, KindsOfUnless
  <2> HIDE DEF lists, boards
  <2> QED
    BY <1>3, <2>1, <2>2 DEF KindsOf
<1>6. /\ first \in Seq(Events)
      /\ \A kind, kept : Observed(first, kind, kept) =
           IF l.table # list /\ l.kind = kind THEN l.table ELSE Observed(channel, kind, kept)
      /\ \A i \in DOMAIN first : first[i] = l \/ \E j \in DOMAIN channel : first[i] = channel[j]
  BY <1>3, <1>4, MaybeReported
<1> HIDE DEF first
<1>7. /\ more \in Seq(Events)
      /\ \A kind, kept : Observed(more, kind, kept) =
           IF b.table # board /\ b.kind = kind THEN b.table ELSE Observed(first, kind, kept)
      /\ \A i \in DOMAIN more : more[i] = b \/ \E j \in DOMAIN first : more[i] = first[j]
  BY <1>3, <1>6, MaybeReported
<1> HIDE DEF lists, boards
<1>8. channel' = more
  <2>1. channel \o (lists \o boards) = (channel \o lists) \o boards
    BY <1>4, <1>5
  <2> QED
    BY <1>2, <2>1 DEF first
<1> HIDE DEF more
<1>9. told' \subseteq EventKinds
      /\ ("list" \in told' => "list" \in told \/ NoList # list)
      /\ ("board" \in told' => "board" \in told \/ NoBoard # board)
      /\ ("text" \in told' => "text" \in told)
  <2>1. kinds = {lists[i].kind : i \in DOMAIN lists} \cup {boards[i].kind : i \in DOMAIN boards}
    BY <1>5, ConcatKinds
  <2> HIDE DEF kinds
  <2>2. kinds = (IF NoList = list THEN {} ELSE {"list"}) \cup (IF NoBoard = board THEN {} ELSE {"board"})
    BY <1>3, <1>5, <2>1
  <2>3. told' = told \cup kinds /\ told \subseteq EventKinds
    BY <1>2, <1>4
  <2> QED
    BY <2>2, <2>3 DEF EventKinds
<1>10. \A kept : Observed(channel', "list", kept) =
         IF NoList # list THEN NoList ELSE Observed(channel, "list", kept)
  BY <1>3, <1>6, <1>7, <1>8
<1>11. \A kept : Observed(channel', "board", kept) =
         IF NoBoard # board THEN NoBoard ELSE Observed(channel, "board", kept)
  BY <1>3, <1>6, <1>7, <1>8
<1>12. \A kept : Observed(channel', "text", kept) = Observed(channel, "text", kept)
  BY <1>3, <1>6, <1>7, <1>8
<1>13. \A i \in DOMAIN channel' : channel'[i].kind = "board" => Consistent(channel'[i].table)
  <2>1. \A i \in DOMAIN channel' :
          channel'[i] = l \/ channel'[i] = b \/ \E j \in DOMAIN channel : channel'[i] = channel[j]
    BY <1>6, <1>7, <1>8
  <2> QED
    BY <1>3, <2>1 DEF IInv, Good
<1>14. TypeOK' /\ BoardConsistent'
  BY <1>1, <1>3, <1>7, <1>8, <1>9 DEF IInv, TypeOK, BoardConsistent, Good
<1>15. CopiesFollow'
  <2>1. Follows("list")' => Observed(channel', "list", window.list) = NoList
    BY <1>1, <1>9, <1>10 DEF IInv, CopiesFollow, Follows, Drained
  <2>2. Follows("board")' => Observed(channel', "board", window.board) = NoBoard
    BY <1>1, <1>9, <1>11 DEF IInv, CopiesFollow, Follows, Drained
  <2>3. Follows("text")' => Observed(channel', "text", window.text) = text
    BY <1>1, <1>9, <1>12 DEF IInv, CopiesFollow, Follows, Drained
  <2> QED
    BY <1>1, <2>1, <2>2, <2>3 DEF CopiesFollow, Drained
<1> QED
  BY <1>1, <1>13, <1>14, <1>15 DEF IInv

LEMMA WindowStep == ASSUME IInv, Frame \/ SessionOver PROVE IInv'
<1>1. /\ UNCHANGED <<joined, list, board, text, told, packets>> /\ channel' = <<>>
      /\ linked /\ linked' \in BOOLEAN /\ (linked' => Frame)
      /\ (window' = Drained \/ (SessionOver /\ window' = window))
  BY DEF Frame, SessionOver, tables, IInv, TypeOK
<1>2. Drained \in [list : Lists, board : Boards, text : Texts] /\ Consistent(Drained.board)
  BY DrainedType
<1>3. TypeOK' /\ BoardConsistent'
  BY <1>1, <1>2 DEF IInv, TypeOK, BoardConsistent
<1>4. CopiesFollow'
  <2>1. CASE Frame
    <3>1. window' = Drained
      BY <2>1 DEF Frame
    <3>2. \A kind, kept : Observed(channel', kind, kept) = kept
      BY <1>1, ObservedEmpty
    <3>3. Drained' = Drained
      BY <3>1, <3>2 DEF Drained
    <3> QED
      BY <1>1, <3>3 DEF IInv, CopiesFollow, Follows
  <2>2. CASE ~Frame
    BY <1>1, <2>2 DEF CopiesFollow
  <2> QED
    BY <2>1, <2>2
<1>5. joined # 0
  BY <1>1 DEF IInv
<1> QED
  BY <1>1, <1>3, <1>4, <1>5 DEF IInv

LEMMA JoinServerStep == ASSUME IInv, JoinServer PROVE IInv'
<1>1. /\ linked' = TRUE /\ joined' = joined + 1 /\ joined' \in 0 .. MaxSessions
      /\ list' = NoList /\ board' = NoBoard /\ text' = Nothing
      /\ channel' = <<>> /\ told' = {} /\ packets' = 0 /\ window' = window
      /\ joined \in Nat
  BY BoundsAssumption DEF JoinServer, IInv, TypeOK
<1>2. NoList \in Lists /\ Good(NoBoard) /\ Nothing \in Texts
  BY NoBoardGood DEF NoList, Lists, Texts
<1>3. TypeOK' /\ BoardConsistent'
  BY <1>1, <1>2, BoundsAssumption DEF IInv, TypeOK, BoardConsistent, Good
<1>4. \A kind, kept : Observed(channel', kind, kept) = kept
  BY <1>1, ObservedEmpty
<1>5. CopiesFollow'
  <2>1. CASE joined = 0
    BY <1>1, <1>4, <2>1 DEF IInv, CopiesFollow, Follows, Drained, NoCopies
  <2>2. CASE joined # 0
    BY <1>1, <2>2 DEF CopiesFollow, Follows
  <2> QED
    BY <2>1, <2>2
<1> QED
  BY <1>1, <1>3, <1>5 DEF IInv

LEMMA InitInv == Init => IInv
<1> SUFFICES ASSUME Init PROVE IInv
  OBVIOUS
<1>1. NoList \in Lists /\ Good(NoBoard) /\ Nothing \in Texts
  BY NoBoardGood DEF NoList, Lists, Texts
<1>2. /\ linked = FALSE /\ joined = 0 /\ list = NoList /\ board = NoBoard /\ text = Nothing
      /\ channel = <<>> /\ told = {} /\ packets = 0
      /\ window = [list |-> NoList, board |-> NoBoard, text |-> Nothing]
  BY DEF Init
<1>3. TypeOK
  <2>1. window \in [list : Lists, board : Boards, text : Texts] /\ channel \in Seq(Events)
    BY <1>1, <1>2 DEF Good
  <2>2. joined \in 0 .. MaxSessions /\ packets \in 0 .. MaxPackets
    BY <1>2, BoundsAssumption
  <2> QED
    BY <1>1, <1>2, <2>1, <2>2 DEF TypeOK, Good
<1>4. BoardConsistent
  BY <1>1, <1>2 DEF BoardConsistent, Good
<1> QED
  BY <1>2, <1>3, <1>4 DEF IInv, CopiesFollow, NoCopies

LEMMA PlayersStep ==
  ASSUME IInv, NEW p \in Players, NEW look \in Looks,
         PlayerRemove(p) \/ PlayerAdd(p, look) \/ PlayerUpdate(p, look)
  PROVE  IInv'
<1>1. list \in Lists
  BY DEF IInv, TypeOK
<1>2. /\ [list EXCEPT ![p] = Nothing] \in Lists /\ [list EXCEPT ![p] = look] \in Lists
      /\ [list EXCEPT ![p] = IF @ = Nothing THEN Nothing ELSE look] \in Lists
  BY <1>1 DEF Lists
<1> QED
  BY <1>2, ListStep DEF PlayerRemove, PlayerAdd, PlayerUpdate

LEMMA ScoreboardStep ==
  ASSUME IInv, ScoreboardObjective \/ ScoreboardScore \/ ScoreboardDisplay \/ ScoreboardTeam
  PROVE  IInv'
<1>1. Good(board)
  BY DEF IInv, TypeOK, BoardConsistent, Good
<1>2. CASE ScoreboardObjective
  BY <1>1, <1>2, ObjectivesGood, BoardStep DEF ScoreboardObjective
<1>3. CASE ScoreboardScore
  BY <1>1, <1>3, ScoresGood, BoardStep DEF ScoreboardScore
<1>4. CASE ScoreboardDisplay
  BY <1>1, <1>4, DisplayGood, BoardStep DEF ScoreboardDisplay
<1>5. CASE ScoreboardTeam
  BY <1>1, <1>5, SetTeamGood, RemoveTeamGood, CreateTeamGood, AddTeamPlayersGood,
     RemoveTeamPlayersGood, BoardStep DEF ScoreboardTeam, UpdateTeam
<1> QED
  BY <1>2, <1>3, <1>4, <1>5

LEMMA NextInv == IInv /\ [Next]_vars => IInv'
<1> SUFFICES ASSUME IInv, [Next]_vars PROVE IInv'
  OBVIOUS
<1>1. CASE \E p \in Players : PlayerRemove(p)
  <2>1. PICK p \in Players : PlayerRemove(p)
    BY <1>1
  <2>2. [list EXCEPT ![p] = Nothing] \in Lists
    BY DEF IInv, TypeOK, Lists
  <2> QED
    BY <2>1, <2>2, ListStep DEF PlayerRemove
<1>2. CASE \E p \in Players, look \in Looks : PlayerAdd(p, look) \/ PlayerUpdate(p, look)
  BY <1>2, PlayersStep
<1>3. CASE ScoreboardObjective \/ ScoreboardScore \/ ScoreboardDisplay \/ ScoreboardTeam
  BY <1>3, ScoreboardStep
<1>4. CASE \E now \in Looks : TabHeaderFooter(now)
  BY <1>4, TextStep
<1>5. CASE JoinGame
  BY <1>5, JoinGameStep
<1>6. CASE RespawnElsewhere
  <2>1. NoList \in Lists
    BY DEF NoList, Lists
  <2> QED
    BY <1>6, <2>1, ListStep DEF RespawnElsewhere
<1>7. CASE Frame \/ SessionOver
  BY <1>7, WindowStep
<1>8. CASE JoinServer
  BY <1>8, JoinServerStep
<1>9. CASE UNCHANGED vars
  BY <1>9 DEF vars, tables, IInv, TypeOK, BoardConsistent, CopiesFollow, Follows, Drained
<1> QED
  BY <1>1, <1>2, <1>3, <1>4, <1>5, <1>6, <1>7, <1>8, <1>9 DEF Next

\* The invariant the results below rest on.
THEOREM Invariance == Spec => []IInv
BY InitInv, NextInv, PTL DEF Spec

\* Scoreboard's two records of a membership agree and nothing in a board names
\* what is gone, in the session's board and in the one the window draws.
THEOREM BoardsAreConsistent == Spec => []BoardConsistent
<1>1. IInv => BoardConsistent
  BY DEF IInv
<1> QED
  BY Invariance, <1>1, PTL

\* report_list_change, report_board_change and TabState::observe: a drain of
\* what is on its way leaves the session's own tables, of every table this
\* session has reported, and of all of them in the first session.
THEOREM WindowFollows == Spec => []CopiesFollow
<1>1. IInv => CopiesFollow
  BY DEF IInv
<1> QED
  BY Invariance, <1>1, PTL

-----------------------------------------------------------------------------
(* The session's board implements Scoreboard.                              *)

Scored(b) == UNION {{p} \X b.scores[p] : p \in Players}

TeamOf(b) == [p \in Players |->
                IF \E t \in Teams : p \in b.players[t]
                THEN CHOOSE t \in Teams : p \in b.players[t] ELSE Nothing]

\* Of a consistent board, the teams' players and the entries' teams say the same.
LEMMA TeamOfIs == ASSUME NEW b, Good(b) PROVE TeamOf(b) = b.member_of
<1>1. b.member_of \in [Players -> Teams \cup {Nothing}]
  BY DEF Good, Boards
<1>2. ASSUME NEW p \in Players PROVE TeamOf(b)[p] = b.member_of[p]
  <2>1. \A t \in Teams : p \in b.players[t] <=> b.member_of[p] = t
    BY DEF Good, Consistent, MembershipAgrees
  <2>2. TeamOf(b)[p] = IF \E t \in Teams : p \in b.players[t]
                       THEN CHOOSE t \in Teams : p \in b.players[t] ELSE Nothing
    BY DEF TeamOf
  <2>3. CASE \E t \in Teams : p \in b.players[t]
    BY <2>1, <2>2, <2>3
  <2>4. CASE ~ \E t \in Teams : p \in b.players[t]
    BY <1>1, <2>1, <2>2, <2>4
  <2> QED
    BY <2>3, <2>4
<1>3. TeamOf(b) = [p \in Players |-> TeamOf(b)[p]]
  BY DEF TeamOf
<1> QED
  BY <1>1, <1>2, <1>3

LEMMA ScoredIs ==
  ASSUME NEW b, Good(b)
  PROVE  /\ \A x : x \in Scored(b) <=> \E p \in Players : \E o \in b.scores[p] : x = <<p, o>>
         /\ Scored(b) \subseteq Players \X b.objectives
<1>1. \A p \in Players : b.scores[p] \subseteq b.objectives
  BY DEF Good, Consistent, NothingDangles
<1> QED
  BY <1>1 DEF Scored

\* What is mapped, of a board and of the board after a step.
LEMMA Mapped ==
  ASSUME Good(board), Good(board)'
  PROVE  /\ TeamOf(board) = board.member_of /\ TeamOf(board)' = board'.member_of
         /\ \A p \in Players : \A o : <<p, o>> \in Scored(board) <=> o \in board.scores[p]
         /\ \A p \in Players : \A o : <<p, o>> \in Scored(board)' <=> o \in board'.scores[p]
<1>1. Good(board')
  OBVIOUS
<1>2. TeamOf(board') = board'.member_of
  BY <1>1, TeamOfIs
<1>3. \A x : x \in Scored(board') <=> \E p \in Players : \E o \in board'.scores[p] : x = <<p, o>>
  BY <1>1, ScoredIs
<1> QED
  BY <1>2, <1>3, TeamOfIs, ScoredIs

LEMMA ObjectiveRefines ==
  ASSUME Good(board), Good(board)', NEW o \in Objectives
  PROVE  /\ board' = SetObjective(board, o) => Told!WriteObjective(o)
         /\ board' = RemoveObjective(board, o) => Told!RemoveObjective(o)
<1>1. board \in Boards /\ board' \in Boards
  BY DEF Good
<1>2. ASSUME board' = SetObjective(board, o) PROVE Told!WriteObjective(o)
  <2>1. /\ board'.objectives = board.objectives \cup {o}
        /\ board'.scores = board.scores /\ board'.display = board.display
        /\ board'.teams = board.teams /\ board'.players = board.players
    BY <1>1, <1>2 DEF Boards, SetObjective
  <2>2. Scored(board)' = Scored(board) /\ TeamOf(board)' = TeamOf(board)
    BY <2>1 DEF Scored, TeamOf
  <2> QED
    BY <2>1, <2>2 DEF Told!WriteObjective, Told!ScoresOnly, Scored, TeamOf
<1>3. ASSUME board' = RemoveObjective(board, o) PROVE Told!RemoveObjective(o)
  <2>1. /\ board'.objectives = board.objectives \ {o}
        /\ board'.scores = [p \in Players |-> board.scores[p] \ {o}]
        /\ board'.display = [s \in Slots |-> IF board.display[s] = o THEN Nothing
                                             ELSE board.display[s]]
        /\ board'.teams = board.teams /\ board'.players = board.players
    BY <1>1, <1>3 DEF Boards, RemoveObjective
  <2>2. TeamOf(board)' = TeamOf(board)
    BY <2>1 DEF TeamOf
  <2>3. Scored(board)' = {x \in Scored(board) : x[2] # o}
    <3>1. Good(board')
      OBVIOUS
    <3>2. \A x : x \in Scored(board') <=> \E p \in Players : \E u \in board'.scores[p] : x = <<p, u>>
      BY <3>1, ScoredIs
    <3>3. \A x : x \in Scored(board) <=> \E p \in Players : \E u \in board.scores[p] : x = <<p, u>>
      BY ScoredIs
    <3>4. \A p \in Players : board'.scores[p] = board.scores[p] \ {o}
      BY <2>1
    <3> QED
      BY <3>2, <3>3, <3>4
  <2> QED
    BY <2>1, <2>2, <2>3 DEF Told!RemoveObjective, Told!ScoresOnly, Scored, TeamOf
<1> QED
  BY <1>2, <1>3

LEMMA ScoresRefine ==
  ASSUME Good(board), Good(board)', NEW now, board' = [board EXCEPT !.scores = now]
  PROVE  \E set \in SUBSET (Players \X Objectives) : Told!SetScores(set)
<1>1. board \in Boards
  BY DEF Good
<1>2. /\ board'.objectives = board.objectives /\ board'.display = board.display
      /\ board'.teams = board.teams /\ board'.players = board.players
  BY <1>1 DEF Boards
<1>3. TeamOf(board)' = TeamOf(board)
  BY <1>2 DEF TeamOf
<1>4. Good(board')
  OBVIOUS
<1>5. Scored(board') \subseteq Players \X board.objectives
  BY <1>2, <1>4, ScoredIs
<1>6. Scored(board') \subseteq Players \X Objectives
  BY <1>1, <1>5 DEF Boards
<1>7. PICK set \in SUBSET (Players \X Objectives) : set = Scored(board')
  BY <1>6
<1>8. Told!SetScores(set)
  BY <1>2, <1>3, <1>5, <1>7 DEF Told!SetScores, Told!ScoresOnly, Scored, TeamOf
<1> QED
  BY <1>8

LEMMA DisplayRefines ==
  ASSUME Good(board), Good(board)', NEW s \in Slots, NEW o, board' = SetDisplay(board, s, o)
  PROVE  Told!Show(s, o)
<1>1. board \in Boards
  BY DEF Good
<1>2. /\ board'.objectives = board.objectives /\ board'.scores = board.scores
      /\ board'.display = [board.display EXCEPT ![s] = o]
      /\ board'.teams = board.teams /\ board'.players = board.players
  BY <1>1 DEF Boards, SetDisplay
<1>3. TeamOf(board)' = TeamOf(board) /\ Scored(board)' = Scored(board)
  BY <1>2 DEF TeamOf, Scored
<1> QED
  BY <1>2, <1>3 DEF Told!Show, Told!ScoresOnly, Scored, TeamOf

\* A step on teams, by what it makes of the entries' teams.
LEMMA TeamsRefine ==
  ASSUME Good(board), Good(board)', SameScores(board, board')
  PROVE  /\ TeamOf(board) = board.member_of /\ TeamOf(board)' = board'.member_of
         /\ Scored(board)' = Scored(board) /\ Told!TeamsOnly
<1>1. Scored(board)' = Scored(board)
  BY DEF SameScores, Scored
<1> QED
  BY <1>1, Mapped DEF SameScores, Told!TeamsOnly, Scored

LEMMA CreateRefines ==
  ASSUME Good(board), Good(board)', NEW t \in Teams, NEW members \in SUBSET Players,
         SameScores(board, board'), board'.teams = board.teams \cup {t},
         \A p \in Players : board'.member_of[p] =
           IF p \in members THEN t ELSE IF board.member_of[p] = t THEN Nothing
                                        ELSE board.member_of[p]
  PROVE  Told!CreateTeam(t, members)
<1>1. board'.member_of = [p \in Players |->
        IF p \in members THEN t ELSE IF board.member_of[p] = t THEN Nothing
                                     ELSE board.member_of[p]]
  BY DEF Good, Boards
<1>2. TeamOf(board)' = [p \in Players |->
        IF p \in members THEN t ELSE IF TeamOf(board)[p] = t THEN Nothing
                                     ELSE TeamOf(board)[p]]
  BY <1>1, TeamsRefine
<1> QED
  BY <1>2, TeamsRefine DEF Told!CreateTeam, TeamOf

LEMMA RemoveTeamRefines ==
  ASSUME Good(board), Good(board)', NEW t \in Teams, board' = RemoveTeam(board, t)
  PROVE  Told!RemoveTeam(t)
<1>1. /\ SameScores(board, board') /\ board'.teams = board.teams \ {t}
      /\ \A p \in Players :
           board'.member_of[p] = IF board.member_of[p] = t THEN Nothing ELSE board.member_of[p]
  BY RemoveTeamFields DEF Good
<1>2. board'.member_of = [p \in Players |->
        IF board.member_of[p] = t THEN Nothing ELSE board.member_of[p]]
  BY <1>1 DEF Good, Boards
<1>3. TeamOf(board)' = [p \in Players |->
        IF TeamOf(board)[p] = t THEN Nothing ELSE TeamOf(board)[p]]
  BY <1>1, <1>2, TeamsRefine
<1> QED
  BY <1>1, <1>3, TeamsRefine DEF Told!RemoveTeam, TeamOf

LEMMA JoinTeamRefines ==
  ASSUME Good(board), Good(board)', NEW t \in board.teams, NEW members \in SUBSET Players,
         board' = AddTeamPlayers(board, t, members)
  PROVE  Told!JoinTeam(t, members)
<1>1. /\ SameScores(board, board') /\ board'.teams = board.teams
      /\ \A p \in Players :
           board'.member_of[p] = IF p \in members THEN t ELSE board.member_of[p]
  BY AddTeamPlayersFields DEF Good
<1>2. board'.member_of = [p \in Players |-> IF p \in members THEN t ELSE board.member_of[p]]
  BY <1>1 DEF Good, Boards
<1>3. TeamOf(board)' = [p \in Players |-> IF p \in members THEN t ELSE TeamOf(board)[p]]
  BY <1>1, <1>2, TeamsRefine
<1> QED
  BY <1>1, <1>3, TeamsRefine DEF Told!JoinTeam, TeamOf

LEMMA LeaveTeamRefines ==
  ASSUME Good(board), Good(board)', NEW t \in Teams, NEW members \in SUBSET Players,
         board' = RemoveTeamPlayers(board, t, members)
  PROVE  Told!LeaveTeam(t, members)
<1>1. /\ SameScores(board, board') /\ board'.teams = board.teams
      /\ \A p \in Players :
           board'.member_of[p] = IF p \in members /\ board.member_of[p] = t THEN Nothing
                                 ELSE board.member_of[p]
  BY RemoveTeamPlayersFields DEF Good
<1>2. board'.member_of = [p \in Players |->
        IF p \in members /\ board.member_of[p] = t THEN Nothing ELSE board.member_of[p]]
  BY <1>1 DEF Good, Boards
<1>3. TeamOf(board)' = [p \in Players |->
        IF p \in members /\ TeamOf(board)[p] = t THEN Nothing ELSE TeamOf(board)[p]]
  BY <1>1, <1>2, TeamsRefine
<1> QED
  BY <1>1, <1>3, TeamsRefine DEF Told!LeaveTeam, TeamOf

\* An update that registers a new team creates it with the entries it already
\* has, which are none.
LEMMA UpdateTeamRefines ==
  ASSUME Good(board), Good(board)', NEW t \in Teams, board' = UpdateTeam(board, t)
  PROVE  \E members \in SUBSET Players : Told!CreateTeam(t, members)
<1>1. /\ SameScores(board, board') /\ board'.teams = board.teams \cup {t}
      /\ board'.member_of = board.member_of
  BY SetTeamFields DEF Good, UpdateTeam
<1>2. PICK members \in SUBSET Players :
        \A p \in Players : p \in members <=> board.member_of[p] = t
  <2>1. {p \in Players : board.member_of[p] = t} \in SUBSET Players
    OBVIOUS
  <2> QED
    BY <2>1
<1>3. \A p \in Players : board'.member_of[p] =
        IF p \in members THEN t ELSE IF board.member_of[p] = t THEN Nothing
                                     ELSE board.member_of[p]
  BY <1>1, <1>2
<1> QED
  BY <1>1, <1>3, CreateRefines

LEMMA CreateTeamRefines ==
  ASSUME Good(board), Good(board)', NEW t \in Teams, NEW named \in SUBSET Players,
         board' = CreateTeam(board, t, named)
  PROVE  Told!CreateTeam(t, named)
<1> DEFINE gone == RemoveTeam(board, t)
           made == SetTeam(gone, t)
<1>1. /\ gone \in Boards /\ SameScores(board, gone) /\ gone.teams = board.teams \ {t}
      /\ \A p \in Players :
           gone.member_of[p] = IF board.member_of[p] = t THEN Nothing ELSE board.member_of[p]
  BY RemoveTeamFields DEF Good
<1>2. board' = AddTeamPlayers(made, t, named)
  BY DEF CreateTeam
<1> HIDE DEF gone
<1>3. /\ made \in Boards /\ SameScores(gone, made) /\ made.teams = gone.teams \cup {t}
      /\ made.member_of = gone.member_of
  BY <1>1, SetTeamFields
<1> HIDE DEF made
<1>4. /\ SameScores(made, board') /\ board'.teams = made.teams
      /\ \A p \in Players : board'.member_of[p] = IF p \in named THEN t ELSE made.member_of[p]
  BY <1>2, <1>3, AddTeamPlayersFields
<1>5. /\ SameScores(board, board') /\ board'.teams = board.teams \cup {t}
      /\ \A p \in Players : board'.member_of[p] =
           IF p \in named THEN t ELSE IF board.member_of[p] = t THEN Nothing
                                      ELSE board.member_of[p]
  BY <1>1, <1>3, <1>4 DEF SameScores, Good, Boards
<1> QED
  BY <1>5, CreateRefines

LEMMA NoBoardRefines ==
  /\ board = NoBoard => Told!Init
  /\ board' = NoBoard => Told!StartOver
<1>1. /\ NoBoard.objectives = {} /\ NoBoard.teams = {}
      /\ NoBoard.display = [s \in Slots |-> Nothing]
      /\ NoBoard.member_of = [p \in Players |-> Nothing]
  BY DEF NoBoard
<1>2. TeamOf(NoBoard) = [p \in Players |-> Nothing]
  BY <1>1, NoBoardGood, TeamOfIs
<1>3. Scored(NoBoard) = {}
  BY <1>1, NoBoardGood, ScoredIs
<1> QED
  BY <1>1, <1>2, <1>3 DEF Told!Init, Told!StartOver, Scored, TeamOf

LEMMA BoardStepRefines ==
  ASSUME IInv, IInv', [Next]_vars
  PROVE  [Told!Next]_(Told!board)
<1>1. Good(board) /\ Good(board)'
  BY DEF IInv, TypeOK, BoardConsistent, Good
<1>2. ASSUME board' = board PROVE UNCHANGED Told!board
  BY <1>2 DEF Told!board
<1>3. CASE ScoreboardObjective
  BY <1>1, <1>3, ObjectiveRefines DEF ScoreboardObjective, BoardBecomes, Told!Next
<1>4. CASE ScoreboardScore
  <2>1. \E now : board' = [board EXCEPT !.scores = now]
    <3>1. board \in Boards
      BY <1>1 DEF Good
    <3>2. ASSUME NEW p \in Players, NEW o,
                 \/ board' = SetScore(board, p, o)
                 \/ board' = RemoveScore(board, p, o)
                 \/ board' = RemoveScores(board, p)
          PROVE  board' = [board EXCEPT !.scores = board'.scores]
      BY <3>1, <3>2 DEF Boards, SetScore, RemoveScore, RemoveScores
    <3> QED
      BY <1>4, <3>2 DEF ScoreboardScore, BoardBecomes
  <2> QED
    BY <1>1, <2>1, ScoresRefine DEF Told!Next
<1>5. CASE ScoreboardDisplay
  BY <1>1, <1>5, DisplayRefines DEF ScoreboardDisplay, BoardBecomes, Told!Next
<1>6. CASE ScoreboardTeam
  <2>1. PICK t \in Teams :
          \/ board' = UpdateTeam(board, t)
          \/ board' = RemoveTeam(board, t)
          \/ \E named \in SUBSET Players : \/ board' = CreateTeam(board, t, named)
                                           \/ board' = AddTeamPlayers(board, t, named)
                                           \/ board' = RemoveTeamPlayers(board, t, named)
    BY <1>6 DEF ScoreboardTeam, BoardBecomes
  <2>2. CASE board' = UpdateTeam(board, t)
    BY <1>1, <2>2, UpdateTeamRefines DEF Told!Next
  <2>3. CASE board' = RemoveTeam(board, t)
    BY <1>1, <2>3, RemoveTeamRefines DEF Told!Next
  <2>4. ASSUME NEW named \in SUBSET Players, board' = CreateTeam(board, t, named)
        PROVE  Told!Next
    BY <1>1, <2>4, CreateTeamRefines DEF Told!Next
  <2>5. ASSUME NEW named \in SUBSET Players, board' = AddTeamPlayers(board, t, named)
        PROVE  [Told!Next]_(Told!board)
    <3>1. CASE t \in board.teams
      BY <1>1, <2>5, <3>1, JoinTeamRefines DEF Told!Next
    <3>2. CASE t \notin board.teams
      BY <1>2, <2>5, <3>2 DEF AddTeamPlayers
    <3> QED
      BY <3>1, <3>2
  <2>6. ASSUME NEW named \in SUBSET Players, board' = RemoveTeamPlayers(board, t, named)
        PROVE  Told!Next
    BY <1>1, <2>6, LeaveTeamRefines DEF Told!Next
  <2> QED
    BY <2>1, <2>2, <2>3, <2>4, <2>5, <2>6
<1>7. CASE JoinGame \/ JoinServer
  BY <1>7, NoBoardRefines DEF JoinGame, JoinServer, Told!Next
<1>8. CASE \/ \E p \in Players : PlayerRemove(p)
           \/ \E p \in Players, look \in Looks : PlayerAdd(p, look) \/ PlayerUpdate(p, look)
           \/ \E now \in Looks : TabHeaderFooter(now)
           \/ RespawnElsewhere \/ Frame \/ SessionOver \/ UNCHANGED vars
  <2>1. board' = board
    BY <1>8 DEF PlayerRemove, PlayerAdd, PlayerUpdate, ListBecomes, TabHeaderFooter,
                RespawnElsewhere, Frame, SessionOver, vars, tables
  <2> QED
    BY <1>2, <2>1
<1> QED
  BY <1>3, <1>4, <1>5, <1>6, <1>7, <1>8 DEF Next

\* scoreboard.rs, each entry's team and each team's players kept apart, implements
\* the scoreboard that holds every fact once.
THEOREM BoardImplements == Spec => BoardHolds
<1>1. Init => Told!Init
  BY NoBoardRefines DEF Init
<1>2. IInv /\ IInv' /\ [Next]_vars => [Told!Next]_(Told!board)
  BY BoardStepRefines
<1> QED
  BY <1>1, <1>2, Invariance, PTL DEF Spec, BoardHolds, Told!Spec

-----------------------------------------------------------------------------
(* Sums over slots.                                                        *)

LEMMA Induct ==
  ASSUME NEW S, 0 \in S, \A n \in Nat : n \in S => n + 1 \in S
  PROVE  Nat \subseteq S
<1> DEFINE U == Nat \ S
           R == OpToRel(<, Nat)
<1>1. SUFFICES ASSUME NEW n \in U PROVE FALSE
  OBVIOUS
<1>2. \A x, y \in Nat : <<y, x>> \in R <=> y < x
  BY DEF OpToRel
<1>3. IsWellFoundedOn(R, Nat)
  BY NatLessThanWellFounded
<1> HIDE DEF R
<1>4. PICK m \in U : \A k \in U : ~ (<<k, m>> \in R)
  BY <1>3, WFMin
<1>5. \A k \in Nat : k < m => k \in S
  BY <1>2, <1>4
<1>6. m # 0 => m - 1 \in Nat /\ m - 1 < m /\ m = (m - 1) + 1
  OBVIOUS
<1> QED
  BY <1>5, <1>6

\* The sums of the first numbers of a sequence.
IsSum(sum, n, f) ==
  /\ sum \in [0 .. n -> Int] /\ sum[0] = 0
  /\ \A i \in 1 .. n : sum[i] = sum[i - 1] + f[i]

LEMMA SumExists ==
  ASSUME NEW n \in Nat, NEW f \in [1 .. n -> Int]
  PROVE  \E sum : IsSum(sum, n, f)
<1> DEFINE S == {k \in Nat : k <= n => \E sum : IsSum(sum, k, f)}
<1>1. 0 \in S
  <2> DEFINE sum == [i \in 0 .. 0 |-> 0]
  <2>1. sum \in [0 .. 0 -> Int] /\ sum[0] = 0 /\ 1 .. 0 = {}
    OBVIOUS
  <2> QED
    BY <2>1 DEF IsSum
<1>2. ASSUME NEW k \in Nat, k \in S PROVE k + 1 \in S
  <2>1. SUFFICES ASSUME k + 1 <= n PROVE \E sum : IsSum(sum, k + 1, f)
    OBVIOUS
  <2>2. PICK sum : IsSum(sum, k, f)
    BY <1>2, <2>1
  <2>3. k \in 0 .. k /\ k + 1 \in 1 .. n
    BY <2>1
  <2>4. sum[k] + f[k + 1] \in Int
    BY <2>2, <2>3 DEF IsSum
  <2> DEFINE more == [i \in 0 .. k + 1 |-> IF i = k + 1 THEN sum[k] + f[k + 1] ELSE sum[i]]
  <2>5. more \in [0 .. k + 1 -> Int]
    <3>1. \A i \in 0 .. k + 1 : i # k + 1 => i \in 0 .. k
      OBVIOUS
    <3> QED
      BY <2>2, <2>4, <3>1 DEF IsSum
  <2>6. more[0] = 0
    BY <2>2 DEF IsSum
  <2>7. ASSUME NEW i \in 1 .. k + 1 PROVE more[i] = more[i - 1] + f[i]
    <3>1. i \in 0 .. k + 1 /\ i - 1 \in 0 .. k + 1 /\ i - 1 # k + 1
      OBVIOUS
    <3>2. CASE i = k + 1
      BY <3>1, <3>2
    <3>3. CASE i # k + 1
      <4>1. i \in 1 .. k
        BY <3>3
      <4> QED
        BY <2>2, <3>1, <3>3, <4>1 DEF IsSum
    <3> QED
      BY <3>2, <3>3
  <2> HIDE DEF more
  <2> QED
    BY <2>5, <2>6, <2>7 DEF IsSum
<1>3. n \in S
  <2> HIDE DEF S
  <2> QED
    BY <1>1, <1>2, Induct
<1> QED
  BY <1>3

LEMMA TotalIs ==
  ASSUME NEW n \in Nat, NEW f \in [1 .. n -> Int]
  PROVE  \E sum : IsSum(sum, n, f) /\ Total(f) = sum[n]
<1>1. Len(f) = n
  BY f \in Seq(Int)
<1> DEFINE Is(sum) == sum = [i \in 0 .. Len(f) |-> IF i = 0 THEN 0 ELSE sum[i - 1] + f[i]]
           total == CHOOSE sum : Is(sum)
<1>2. Total(f) = total[n]
  BY <1>1 DEF Total
<1>3. \E sum : Is(sum)
  <2>1. PICK sum : IsSum(sum, n, f)
    BY SumExists
  <2>2. sum = [i \in 0 .. n |-> sum[i]]
    BY <2>1 DEF IsSum
  <2>3. \A i \in 0 .. n : sum[i] = IF i = 0 THEN 0 ELSE sum[i - 1] + f[i]
    BY <2>1 DEF IsSum
  <2>4. [i \in 0 .. n |-> sum[i]] = [i \in 0 .. n |-> IF i = 0 THEN 0 ELSE sum[i - 1] + f[i]]
    BY <2>3
  <2> QED
    BY <1>1, <2>2, <2>4
<1>4. Is(total)
  BY <1>3
<1>5. DOMAIN total = 0 .. n /\ \A i \in 0 .. n : total[i] = IF i = 0 THEN 0 ELSE total[i - 1] + f[i]
  BY <1>1, <1>4
<1> HIDE DEF total
<1>6. total[0] = 0 /\ \A i \in 1 .. n : total[i] = total[i - 1] + f[i]
  BY <1>5
<1>7. \A i \in 0 .. n : total[i] \in Int
  <2> DEFINE S == {k \in Nat : k <= n => total[k] \in Int}
  <2>1. 0 \in S
    BY <1>6
  <2>2. ASSUME NEW k \in Nat, k \in S PROVE k + 1 \in S
    <3>1. k + 1 <= n => k + 1 \in 1 .. n /\ (k + 1) - 1 = k
      OBVIOUS
    <3> QED
      BY <1>6, <2>2, <3>1
  <2>3. Nat \subseteq S
    <3> HIDE DEF S
    <3> QED
      BY <2>1, <2>2, Induct
  <2> QED
    BY <2>3
<1>8. total = [i \in 0 .. n |-> total[i]]
  BY <1>1, <1>4
<1>9. total \in [0 .. n -> Int]
  BY <1>7, <1>8
<1> QED
  BY <1>2, <1>6, <1>9 DEF IsSum

LEMMA TotalInt ==
  ASSUME NEW n \in Nat, NEW f \in [1 .. n -> Int]
  PROVE  Total(f) \in Int
<1>1. n \in 0 .. n
  OBVIOUS
<1> QED
  BY <1>1, TotalIs DEF IsSum

\* The sums of two sequences and of the sequence of their sums.
LEMMA TotalPlus ==
  ASSUME NEW n \in Nat, NEW f \in [1 .. n -> Int], NEW g \in [1 .. n -> Int],
         NEW h \in [1 .. n -> Int], \A i \in 1 .. n : h[i] = f[i] + g[i]
  PROVE  Total(h) = Total(f) + Total(g)
<1>1. PICK a : IsSum(a, n, f) /\ Total(f) = a[n]
  BY TotalIs
<1>2. PICK b : IsSum(b, n, g) /\ Total(g) = b[n]
  BY TotalIs
<1>3. PICK c : IsSum(c, n, h) /\ Total(h) = c[n]
  BY TotalIs
<1> DEFINE S == {k \in Nat : k <= n => c[k] = a[k] + b[k]}
<1>4. 0 \in S
  BY <1>1, <1>2, <1>3 DEF IsSum
<1>5. ASSUME NEW k \in Nat, k \in S PROVE k + 1 \in S
  <2>1. SUFFICES ASSUME k + 1 <= n PROVE c[k + 1] = a[k + 1] + b[k + 1]
    OBVIOUS
  <2>2. k + 1 \in 1 .. n /\ (k + 1) - 1 = k /\ k \in 0 .. n
    BY <2>1
  <2>3. c[k] = a[k] + b[k]
    BY <1>5, <2>1
  <2>4. /\ a[k + 1] = a[k] + f[k + 1] /\ b[k + 1] = b[k] + g[k + 1]
        /\ c[k + 1] = c[k] + h[k + 1]
    BY <1>1, <1>2, <1>3, <2>2 DEF IsSum
  <2>5. a[k] \in Int /\ b[k] \in Int /\ f[k + 1] \in Int /\ g[k + 1] \in Int
    BY <1>1, <1>2, <2>2 DEF IsSum
  <2>6. h[k + 1] = f[k + 1] + g[k + 1]
    BY <2>2
  <2> QED
    BY <2>3, <2>4, <2>5, <2>6
<1>6. n \in S
  <2> HIDE DEF S
  <2> QED
    BY <1>4, <1>5, Induct
<1> QED
  BY <1>1, <1>2, <1>3, <1>6

\* A number for each of some slots.
LEMMA TotalEach ==
  ASSUME NEW n \in Nat, NEW T \in SUBSET (1 .. n), NEW v \in Int,
         NEW f \in [1 .. n -> Int], \A i \in 1 .. n : f[i] = IF i \in T THEN v ELSE 0
  PROVE  Total(f) = v * Cardinality(T)
<1>1. PICK a : IsSum(a, n, f) /\ Total(f) = a[n]
  BY TotalIs
<1> DEFINE U(k) == T \cap (1 .. k)
           S == {k \in Nat : k <= n => a[k] = v * Cardinality(U(k))}
<1>2. 0 \in S
  <2>1. U(0) = {}
    OBVIOUS
  <2>2. Cardinality(U(0)) = 0
    BY <2>1, FS_EmptySet
  <2> QED
    BY <1>1, <2>2 DEF IsSum
<1>3. ASSUME NEW k \in Nat, k \in S PROVE k + 1 \in S
  <2>1. SUFFICES ASSUME k + 1 <= n PROVE a[k + 1] = v * Cardinality(U(k + 1))
    OBVIOUS
  <2>2. k + 1 \in 1 .. n /\ (k + 1) - 1 = k /\ k \in 0 .. n
    BY <2>1
  <2>3. a[k + 1] = a[k] + f[k + 1]
    BY <1>1, <2>2 DEF IsSum
  <2>4. IsFiniteSet(U(k)) /\ Cardinality(U(k)) \in Nat
    <3>1. IsFiniteSet(1 .. k)
      BY FS_Interval
    <3> QED
      BY <3>1, FS_Subset, FS_CardinalityType
  <2>5. CASE k + 1 \in T
    <3>1. U(k + 1) = U(k) \cup {k + 1} /\ k + 1 \notin U(k)
      BY <2>5
    <3>2. Cardinality(U(k + 1)) = Cardinality(U(k)) + 1
      BY <2>4, <3>1, FS_AddElement
    <3>3. f[k + 1] = v
      BY <2>2, <2>5
    <3> DEFINE c == Cardinality(U(k))
    <3>4. a[k] = v * c /\ c \in Nat
      BY <1>3, <2>1, <2>4
    <3>5. v * (c + 1) = v * c + v
      <4> HIDE DEF c
      <4> QED
        BY <3>4
    <3> QED
      BY <2>3, <3>2, <3>3, <3>4, <3>5
  <2>6. CASE k + 1 \notin T
    <3>1. U(k + 1) = U(k)
      BY <2>6
    <3>2. f[k + 1] = 0 /\ a[k] \in Int
      BY <1>1, <2>2, <2>6 DEF IsSum
    <3>3. a[k] = v * Cardinality(U(k))
      BY <1>3, <2>1
    <3>4. a[k + 1] = a[k]
      BY <2>3, <3>2
    <3> QED
      BY <3>1, <3>3, <3>4, Zenon
  <2> QED
    BY <2>5, <2>6
<1>4. n \in S
  <2> HIDE DEF S
  <2> QED
    BY <1>2, <1>3, Induct
<1>5. U(n) = T
  OBVIOUS
<1>6. a[n] = v * Cardinality(U(n))
  BY <1>4
<1> QED
  BY <1>1, <1>5, <1>6, Zenon

LEMMA TotalAtMost ==
  ASSUME NEW n \in Nat, NEW f \in [1 .. n -> Int], NEW g \in [1 .. n -> Int],
         \A i \in 1 .. n : f[i] <= g[i]
  PROVE  Total(f) <= Total(g)
<1>1. PICK a : IsSum(a, n, f) /\ Total(f) = a[n]
  BY TotalIs
<1>2. PICK b : IsSum(b, n, g) /\ Total(g) = b[n]
  BY TotalIs
<1> DEFINE S == {k \in Nat : k <= n => a[k] <= b[k]}
<1>3. 0 \in S
  BY <1>1, <1>2 DEF IsSum
<1>4. ASSUME NEW k \in Nat, k \in S PROVE k + 1 \in S
  <2>1. SUFFICES ASSUME k + 1 <= n PROVE a[k + 1] <= b[k + 1]
    OBVIOUS
  <2>2. k + 1 \in 1 .. n /\ (k + 1) - 1 = k /\ k \in 0 .. n
    BY <2>1
  <2>3. a[k] <= b[k] /\ f[k + 1] <= g[k + 1]
    BY <1>4, <2>1, <2>2
  <2>4. a[k + 1] = a[k] + f[k + 1] /\ b[k + 1] = b[k] + g[k + 1]
    BY <1>1, <1>2, <2>2 DEF IsSum
  <2>5. a[k] \in Int /\ b[k] \in Int /\ f[k + 1] \in Int /\ g[k + 1] \in Int
    BY <1>1, <1>2, <2>2 DEF IsSum
  <2> QED
    BY <2>3, <2>4, <2>5
<1>5. n \in S
  <2> HIDE DEF S
  <2> QED
    BY <1>3, <1>4, Induct
<1> QED
  BY <1>1, <1>2, <1>5

\* Slots that count nothing add nothing.
LEMMA TotalLonger ==
  ASSUME NEW n \in Nat, NEW m \in Nat, n <= m,
         NEW f \in [1 .. n -> Int], NEW g \in [1 .. m -> Int],
         \A i \in 1 .. m : g[i] = IF i \in 1 .. n THEN f[i] ELSE 0
  PROVE  Total(g) = Total(f)
<1>1. PICK a : IsSum(a, n, f) /\ Total(f) = a[n]
  BY TotalIs
<1>2. PICK b : IsSum(b, m, g) /\ Total(g) = b[m]
  BY TotalIs
<1> DEFINE S == {k \in Nat : k <= m => b[k] = IF k <= n THEN a[k] ELSE a[n]}
<1>3. 0 \in S
  BY <1>1, <1>2 DEF IsSum
<1>4. ASSUME NEW k \in Nat, k \in S PROVE k + 1 \in S
  <2>1. SUFFICES ASSUME k + 1 <= m PROVE b[k + 1] = IF k + 1 <= n THEN a[k + 1] ELSE a[n]
    OBVIOUS
  <2>2. k + 1 \in 1 .. m /\ (k + 1) - 1 = k
    BY <2>1
  <2>3. b[k + 1] = b[k] + g[k + 1] /\ b[k] = IF k <= n THEN a[k] ELSE a[n]
    BY <1>2, <1>4, <2>1, <2>2 DEF IsSum
  <2>4. a[n] \in Int
    BY <1>1 DEF IsSum
  <2>5. CASE k + 1 <= n
    <3>1. k + 1 \in 1 .. n /\ g[k + 1] = f[k + 1]
      BY <2>2, <2>5
    <3>2. a[k + 1] = a[k] + f[k + 1]
      BY <1>1, <2>2, <3>1 DEF IsSum
    <3> QED
      BY <2>3, <2>5, <3>1, <3>2
  <2>6. CASE ~ (k + 1 <= n)
    <3>1. g[k + 1] = 0 /\ (k <= n => k = n)
      BY <2>2, <2>6
    <3> QED
      BY <2>3, <2>4, <2>6, <3>1
  <2> QED
    BY <2>5, <2>6
<1>5. m \in S
  <2> HIDE DEF S
  <2> QED
    BY <1>3, <1>4, Induct
<1>6. m <= n => m = n
  OBVIOUS
<1> QED
  BY <1>1, <1>2, <1>5, <1>6

LEMMA TotalOne ==
  ASSUME NEW n \in Nat, NEW f \in [1 .. n -> Int], NEW g \in [1 .. n -> Int],
         NEW k \in 1 .. n, \A i \in 1 .. n : i # k => g[i] = f[i]
  PROVE  Total(g) = Total(f) + (g[k] - f[k])
<1> DEFINE v == g[k] - f[k]
           h == [i \in 1 .. n |-> IF i \in {k} THEN v ELSE 0]
<1>1. v \in Int /\ {k} \in SUBSET (1 .. n)
  OBVIOUS
<1>2. h \in [1 .. n -> Int] /\ \A i \in 1 .. n : h[i] = IF i \in {k} THEN v ELSE 0
  BY <1>1
<1>3. \A i \in 1 .. n : g[i] = f[i] + h[i]
  BY <1>2
<1>4. v = g[k] - f[k]
  OBVIOUS
<1> HIDE DEF h, v
<1>5. h \in [1 .. n -> Int]
  BY <1>2
<1>6. Total(g) = Total(f) + Total(h)
  BY <1>3, <1>5, TotalPlus
<1>7. Total(h) = v * Cardinality({k})
  BY <1>1, <1>2, TotalEach
<1>8. Cardinality({k}) = 1
  BY FS_Singleton
<1>9. Total(f) \in Int
  BY TotalInt
<1> QED
  BY <1>1, <1>4, <1>6, <1>7, <1>8, <1>9

-----------------------------------------------------------------------------
(* Stacks, and what a drag gives out.                                      *)

LEMMA StackIs ==
  /\ Empty \in StacksOrEmpty /\ Empty.count = 0 /\ Empty.kind = Nobody
  /\ \A s \in StacksOrEmpty :
       /\ s.count \in 0 .. MaxStack /\ (s = Empty <=> s.count = 0)
       /\ s # Empty => s \in Stacks /\ s.kind \in Kinds
       /\ s = [kind |-> s.kind, count |-> s.count]
  /\ \A kind \in Kinds, n \in Int : n <= MaxStack => Of(kind, n) \in StacksOrEmpty
BY MaxStackAssumption DEF StacksOrEmpty, Stacks, Empty, Of

LEMMA LessIs ==
  ASSUME NEW s \in StacksOrEmpty, NEW n \in Nat
  PROVE  Less(s, n) \in StacksOrEmpty
<1>1. CASE s = Empty
  BY <1>1, StackIs DEF Less, Of
<1>2. CASE s # Empty
  BY <1>2, StackIs, MaxStackAssumption DEF Less
<1> QED
  BY <1>1, <1>2

LEMMA DivIs == \A a \in Nat, b \in Nat \ {0} : a \div b \in Nat /\ (a \div b) * b <= a
OBVIOUS

\* Nothing is taken back from a slot, and the cursor has what is given.
LEMMA AddedIs ==
  ASSUME NEW n \in Nat, NEW c \in Containers(1 .. n), NEW T \in SUBSET c.drag.over,
         c.drag.over # {}, c.cursor # Empty, Cardinality(c.drag.over) <= c.cursor.count
  PROVE  /\ Added(c, T) \in [1 .. n -> Nat]
         /\ Total(Added(c, T)) \in 0 .. c.cursor.count
         /\ \A s \in 1 .. n :
              ComputeStackSize(c.drag, c.cursor, c.slots[s]) \in c.slots[s].count .. MaxStack
         /\ \A s \in 1 .. n : ComputeStackSize(c.drag, c.cursor, c.slots[s]) > 0
<1> DEFINE m == Cardinality(c.drag.over)
           base == IF c.drag.share = "split" THEN c.cursor.count \div m ELSE 1
           f == Added(c, T)
<1>1. /\ c.slots \in [1 .. n -> StacksOrEmpty] /\ c.cursor \in StacksOrEmpty
      /\ c.drag.over \in SUBSET (1 .. n)
  BY DEF Containers
<1>2. IsFiniteSet(c.drag.over) /\ m \in Nat /\ m # 0
  <2>1. IsFiniteSet(1 .. n)
    BY FS_Interval
  <2>2. IsFiniteSet(c.drag.over)
    BY <1>1, <2>1, FS_Subset
  <2> QED
    BY <2>2, FS_CardinalityType, FS_EmptySet
<1>3. c.cursor.count \in Nat /\ c.cursor.count > 0 /\ MaxStack \in Nat
  BY <1>1, StackIs, MaxStackAssumption
<1>4. base \in Nat /\ base > 0 /\ base * m <= c.cursor.count
  <2>1. c.cursor.count \div m \in Nat /\ (c.cursor.count \div m) * m <= c.cursor.count
    BY <1>2, <1>3, DivIs
  <2>2. c.cursor.count \div m > 0
    <3> DEFINE a == c.cursor.count
    <3>1. a \in Nat /\ m <= a
      BY <1>3
    <3> HIDE DEF a, m
    <3> QED
      BY <1>2, <3>1 DEF a
  <2>3. 1 * m <= c.cursor.count
    BY <1>2
  <2> HIDE DEF m
  <2> QED
    BY <2>1, <2>2, <2>3
<1>5. \A s \in 1 .. n : ComputeStackSize(c.drag, c.cursor, c.slots[s]) = Least(base + c.slots[s].count, MaxStack)
  BY DEF ComputeStackSize
<1> HIDE DEF m, base
<1>6. \A s \in 1 .. n : c.slots[s].count \in 0 .. MaxStack
  BY <1>1, StackIs
<1>7. ASSUME NEW s \in 1 .. n
      PROVE  /\ ComputeStackSize(c.drag, c.cursor, c.slots[s]) \in c.slots[s].count .. MaxStack
             /\ ComputeStackSize(c.drag, c.cursor, c.slots[s]) > 0
             /\ ComputeStackSize(c.drag, c.cursor, c.slots[s]) - c.slots[s].count \in 0 .. base
  <2>1. c.slots[s].count \in 0 .. MaxStack /\ MaxStack > 0
    BY <1>6, MaxStackAssumption
  <2> QED
    BY <1>3, <1>4, <1>5, <2>1 DEF Least
<1>8. DOMAIN c.slots = 1 .. n
  BY <1>1
<1>9. \A s \in 1 .. n : f[s] \in 0 .. base /\ (s \notin T => f[s] = 0)
  BY <1>4, <1>7, <1>8 DEF Added
<1>10. f \in [1 .. n -> Nat]
  <2>1. f = [s \in 1 .. n |-> f[s]]
    BY <1>8 DEF Added
  <2>2. \A s \in 1 .. n : f[s] \in Nat
    BY <1>4, <1>9
  <2> HIDE DEF f
  <2> QED
    BY <2>1, <2>2
<1> HIDE DEF f
<1>11. Total(f) \in 0 .. c.cursor.count
  <2> DEFINE g == [s \in 1 .. n |-> IF s \in c.drag.over THEN base ELSE 0]
             z == [s \in 1 .. n |-> IF s \in {} THEN 0 ELSE 0]
  <2>1. g \in [1 .. n -> Int] /\ \A s \in 1 .. n : g[s] = IF s \in c.drag.over THEN base ELSE 0
    BY <1>4
  <2>2. z \in [1 .. n -> Int] /\ \A s \in 1 .. n : z[s] = 0
    OBVIOUS
  <2>3. f \in [1 .. n -> Int]
    BY <1>10
  <2> HIDE DEF g, z
  <2>4. \A s \in 1 .. n : z[s] <= f[s] /\ f[s] <= g[s]
    <3>1. \A s \in 1 .. n : s \in T => s \in c.drag.over
      OBVIOUS
    <3>2. \A s \in 1 .. n : g[s] \in 0 .. base /\ (s \in c.drag.over => g[s] = base)
      BY <1>4, <2>1
    <3> QED
      BY <1>4, <1>9, <2>2, <3>1, <3>2
  <2>5. Total(g) = base * m
    <3>1. base \in Int
      BY <1>4
    <3> QED
      BY <1>1, <2>1, <3>1, TotalEach DEF m
  <2>6. Total(z) = 0 * Cardinality({})
    <3>1. \A s \in 1 .. n : z[s] = IF s \in {} THEN 0 ELSE 0
      BY <2>2
    <3>2. {} \in SUBSET (1 .. n) /\ 0 \in Int
      OBVIOUS
    <3> QED
      BY <2>2, <3>1, <3>2, TotalEach
  <2>7. Total(z) <= Total(f) /\ Total(f) <= Total(g)
    BY <2>1, <2>2, <2>3, <2>4, TotalAtMost
  <2>8. Total(z) = 0
    BY <2>6, FS_EmptySet
  <2>9. Total(f) \in Int
    BY <2>3, TotalInt
  <2> QED
    BY <1>2, <1>3, <1>4, <2>5, <2>7, <2>8, <2>9
<1> QED
  BY <1>7, <1>10, <1>11 DEF f

-----------------------------------------------------------------------------
(* The containers at the two ends stay containers.                         *)

\* A container of n slots, whose drag is only set while open.
Boxes(n) == {c \in Containers(1 .. n) : ~c.drag.open => c.drag = NoDrag}

Drags(n) == [open : BOOLEAN, share : Shares, over : SUBSET (1 .. n)]

LEMMA BoxIs ==
  ASSUME NEW n, NEW c \in Boxes(n)
  PROVE  /\ c \in Containers(1 .. n) /\ DOMAIN c.slots = 1 .. n
         /\ c.slots \in [1 .. n -> StacksOrEmpty] /\ c.cursor \in StacksOrEmpty
         /\ c.drag \in Drags(n) /\ (~c.drag.open => c.drag = NoDrag)
         /\ c.drag.open \in BOOLEAN /\ c.drag.over \in SUBSET (1 .. n)
         /\ c = [slots |-> c.slots, cursor |-> c.cursor, drag |-> c.drag]
BY DEF Boxes, Containers, Drags

LEMMA BoxOf ==
  ASSUME NEW n, NEW slots \in [1 .. n -> StacksOrEmpty], NEW cursor \in StacksOrEmpty,
         NEW drag \in Drags(n), ~drag.open => drag = NoDrag
  PROVE  [slots |-> slots, cursor |-> cursor, drag |-> drag] \in Boxes(n)
BY DEF Boxes, Containers, Drags

LEMMA DragsAre ==
  ASSUME NEW n
  PROVE  /\ NoDrag \in Drags(n) /\ ~NoDrag.open /\ NoDrag.over = {}
         /\ \A share \in Shares :
              BeginDrag(share) \in Drags(n) /\ BeginDrag(share).open /\ BeginDrag(share).over = {}
         /\ \A d \in Drags(n), s \in 1 .. n :
              LET more == [d EXCEPT !.over = @ \cup {s}]
              IN  /\ more \in Drags(n) /\ more.open = d.open
                  /\ more.over = d.over \cup {s} /\ more.share = d.share
BY DEF Drags, NoDrag, BeginDrag, Shares

Modes == {"pickup", "drop", "begin", "cover", "finish"}

\* The clicks of a window of n slots.
ClicksOn(n) ==
  {c \in [mode : Modes, slot : 0 .. n, button : Buttons, share : Shares] :
     c.mode \in {"cover", "drop"} => c.slot # NoSlot}

LEMMA ClickIs ==
  ASSUME NEW n \in Nat, NEW k \in ClicksOn(n)
  PROVE  /\ k.mode \in Modes /\ k.slot \in 0 .. n /\ k.button \in Buttons /\ k.share \in Shares
         /\ k.slot # NoSlot => k.slot \in 1 .. n
         /\ k.mode \in {"cover", "drop"} => k.slot \in 1 .. n
BY DEF ClicksOn, NoSlot

\* A stack that is moved from a slot to the cursor or back.
Trade(c, s, stack, cursor) ==
  [slots |-> [c.slots EXCEPT ![s] = stack], cursor |-> cursor, drag |-> c.drag]

LEMMA TradeIs ==
  ASSUME NEW n, NEW c \in Boxes(n), NEW s, NEW stack, NEW cursor
  PROVE  [c EXCEPT !.slots[s] = stack, !.cursor = cursor] = Trade(c, s, stack, cursor)
<1>1. c \in Containers(1 .. n)
  BY BoxIs
<1>2. PICK d : d = [c EXCEPT !.slots[s] = stack, !.cursor = cursor]
  OBVIOUS
<1>3. d = Trade(c, s, stack, cursor)
  BY <1>1, <1>2 DEF Containers, Trade
<1> QED
  BY <1>2, <1>3

LEMMA TradeBox ==
  ASSUME NEW n \in Nat, NEW c \in Boxes(n), NEW s \in 1 .. n,
         NEW stack \in StacksOrEmpty, NEW cursor \in StacksOrEmpty
  PROVE  Trade(c, s, stack, cursor) \in Boxes(n)
<1>1. [c.slots EXCEPT ![s] = stack] \in [1 .. n -> StacksOrEmpty]
  BY BoxIs
<1>2. c.drag \in Drags(n) /\ (~c.drag.open => c.drag = NoDrag)
  BY BoxIs
<1> QED
  BY <1>1, <1>2, BoxOf DEF Trade

-----------------------------------------------------------------------------
(* The prediction is the click: windows.rs and container.rs agree.         *)

LEMMA NothingAdded ==
  ASSUME NEW n \in Nat, NEW c \in Boxes(n)
  PROVE  Total(Added(c, {})) = 0 /\ Less(c.cursor, 0) = c.cursor
<1>1. Added(c, {}) = [s \in 1 .. n |-> IF s \in {} THEN 0 ELSE 0]
  BY BoxIs DEF Added
<1> DEFINE z == [s \in 1 .. n |-> IF s \in {} THEN 0 ELSE 0]
<1>2. z \in [1 .. n -> Int] /\ \A s \in 1 .. n : z[s] = IF s \in {} THEN 0 ELSE 0
  OBVIOUS
<1>3. {} \in SUBSET (1 .. n) /\ 0 \in Int
  OBVIOUS
<1> HIDE DEF z
<1>4. Total(z) = 0 * Cardinality({})
  BY <1>2, <1>3, TotalEach
<1>5. Total(z) = 0
  BY <1>4, FS_EmptySet
<1>6. Less(c.cursor, 0) = c.cursor
  <2>1. c.cursor \in StacksOrEmpty
    BY BoxIs
  <2>2. CASE c.cursor = Empty
    BY <2>2, StackIs DEF Less, Of
  <2>3. CASE c.cursor # Empty
    <3>1. c.cursor.count > 0 /\ c.cursor.count - 0 = c.cursor.count
      BY <2>1, <2>3, StackIs
    <3>2. c.cursor = [kind |-> c.cursor.kind, count |-> c.cursor.count]
      BY <2>1, StackIs
    <3> QED
      BY <3>1, <3>2 DEF Less, Of
  <2> QED
    BY <2>2, <2>3
<1> QED
  BY <1>1, <1>5, <1>6 DEF z

LEMMA FinishPredicted ==
  ASSUME NEW n \in Nat, NEW c \in Boxes(n), c.cursor # Empty, c.drag.open,
         c.drag.over # {}, ~Undercut(c)
  PROVE  ResetDrag(FinishDrag(c)) = Finish(c)
<1> DEFINE m == Cardinality(c.drag.over)
           takes == {s \in c.drag.over : CanAddItemToSlot(c.slots[s], c.cursor) /\ c.cursor.count >= m}
<1>1. /\ c = [slots |-> c.slots, cursor |-> c.cursor, drag |-> c.drag]
      /\ DOMAIN c.slots = 1 .. n /\ c.slots = [s \in 1 .. n |-> c.slots[s]]
  BY BoxIs
<1>2. m \in Nat /\ c.cursor.count \in Nat
  <2>1. c.drag.over \in SUBSET (1 .. n) /\ c.cursor \in StacksOrEmpty
    BY BoxIs
  <2>2. IsFiniteSet(1 .. n)
    BY FS_Interval
  <2>3. IsFiniteSet(c.drag.over)
    BY <2>1, <2>2, FS_Subset
  <2> QED
    BY <2>1, <2>3, FS_CardinalityType, StackIs
<1>3. \A s \in c.drag.over : CanAddItemToSlot(c.slots[s], c.cursor)
  BY DEF Undercut
<1>4. Finish(c) =
        [slots  |-> [s \in DOMAIN c.slots |->
                       IF s \in takes THEN Of(c.cursor.kind, ComputeStackSize(c.drag, c.cursor, c.slots[s]))
                                      ELSE c.slots[s]],
         cursor |-> Less(c.cursor, Total(Added(c, takes))),
         drag   |-> NoDrag]
  BY DEF Finish
<1>5. CASE c.cursor.count < m
  <2>1. takes = {}
    BY <1>2, <1>5
  <2>2. FinishDrag(c) = c
    BY <1>5 DEF FinishDrag
  <2>3. Finish(c) = [slots |-> [s \in DOMAIN c.slots |-> c.slots[s]],
                     cursor |-> Less(c.cursor, Total(Added(c, {}))), drag |-> NoDrag]
    <3> HIDE DEF takes
    <3> QED
      BY <1>4, <2>1
  <2>4. Finish(c) = [slots |-> c.slots, cursor |-> c.cursor, drag |-> NoDrag]
    BY <1>1, <2>3, NothingAdded
  <2> QED
    BY <1>1, <2>2, <2>4 DEF ResetDrag
<1>6. CASE ~ (c.cursor.count < m)
  <2>1. takes = c.drag.over
    BY <1>2, <1>3, <1>6
  <2> DEFINE slots == [s \in DOMAIN c.slots |->
                         IF s \in c.drag.over
                         THEN Of(c.cursor.kind, ComputeStackSize(c.drag, c.cursor, c.slots[s]))
                         ELSE c.slots[s]]
             cursor == Less(c.cursor, Total(Added(c, c.drag.over)))
  <2>2. FinishDrag(c) = [c EXCEPT !.slots = slots, !.cursor = cursor]
    BY <1>6 DEF FinishDrag
  <2>3. Finish(c) = [slots |-> slots, cursor |-> cursor, drag |-> NoDrag]
    <3> HIDE DEF takes
    <3> QED
      BY <1>4, <2>1
  <2> HIDE DEF slots, cursor
  <2> QED
    <3>1. FinishDrag(c) = [slots |-> slots, cursor |-> cursor, drag |-> c.drag]
      BY <1>1, <2>2
    <3>2. [FinishDrag(c) EXCEPT !.drag = NoDrag] = [slots |-> slots, cursor |-> cursor, drag |-> NoDrag]
      BY <3>1
    <3> QED
      BY <2>3, <3>2 DEF ResetDrag
<1> QED
  BY <1>5, <1>6

LEMMA PickupPredicted ==
  ASSUME NEW n \in Nat, NEW c \in Boxes(n), NEW s \in 1 .. n, NEW b \in Buttons
  PROVE  PredictPickup(c, s, b) = Pickup(c, s, b)
<1> DEFINE stack == c.slots[s]
           m == Moves(stack, c.cursor, b)
           kind == IF stack = Empty THEN c.cursor.kind ELSE stack.kind
<1>1. stack \in StacksOrEmpty /\ c.cursor \in StacksOrEmpty
  BY BoxIs
<1>2. b = "left" \/ b = "right"
  BY DEF Buttons
<1>3. /\ stack.count \in Nat /\ c.cursor.count \in Nat /\ MaxStack \in Nat
      /\ stack.count <= MaxStack /\ c.cursor.count <= MaxStack
      /\ (stack = Empty <=> stack.count = 0) /\ (c.cursor = Empty <=> c.cursor.count = 0)
  BY <1>1, StackIs, MaxStackAssumption
<1>4. Empty \in {stack, c.cursor} \/ stack.kind = c.cursor.kind
        => PredictPickup(c, s, b) =
             [c EXCEPT !.slots[s] = Of(kind, stack.count + m), !.cursor = Of(kind, c.cursor.count - m)]
  BY DEF PredictPickup
<1>5. CASE stack = Empty
  <2>1. m = IF b = "left" THEN c.cursor.count ELSE Least(1, c.cursor.count)
    BY <1>5 DEF Moves
  <2>2. stack.count + m = m /\ kind = c.cursor.kind
    BY <1>3, <1>5, <2>1 DEF Least
  <2>3. Least(IF b = "left" THEN c.cursor.count ELSE 1, c.cursor.count) = m
    BY <1>3, <2>1 DEF Least
  <2> HIDE DEF m, kind
  <2>4. Pickup(c, s, b) = [c EXCEPT !.slots[s] = Of(c.cursor.kind, m), !.cursor = Less(@, m)]
    BY <1>5, <2>3 DEF Pickup
  <2> QED
    BY <1>4, <1>5, <2>2, <2>4 DEF Less
<1>6. CASE stack # Empty /\ c.cursor = Empty
  <2> DEFINE take == IF b = "left" THEN stack.count ELSE (stack.count + 1) \div 2
  <2>1. m = -take
    BY <1>6 DEF Moves
  <2>2. take \in Nat
    BY <1>3
  <2>3. stack.count + m = stack.count - take /\ c.cursor.count - m = take /\ kind = stack.kind
    BY <1>3, <1>6, <2>1, <2>2
  <2>4. Pickup(c, s, b) = [c EXCEPT !.slots[s] = Less(@, take), !.cursor = Of(stack.kind, take)]
    BY <1>6 DEF Pickup
  <2> HIDE DEF m, kind, take
  <2> QED
    BY <1>4, <1>6, <2>3, <2>4 DEF Less
<1>7. CASE stack # Empty /\ c.cursor # Empty /\ stack.kind = c.cursor.kind
  <2>1. m = Least(IF b = "left" THEN c.cursor.count ELSE 1, MaxStack - stack.count)
    BY <1>7 DEF Moves
  <2>2. m \in Nat /\ stack.count + m > 0 /\ kind = stack.kind /\ kind = c.cursor.kind
    BY <1>3, <1>7, <2>1 DEF Least
  <2>3. Pickup(c, s, b) = [c EXCEPT !.slots[s].count = @ + m, !.cursor = Less(@, m)]
    BY <1>7, <2>1 DEF Pickup
  <2>4. [stack EXCEPT !.count = @ + m] = Of(kind, stack.count + m)
    <3>1. stack = [kind |-> stack.kind, count |-> stack.count]
      BY <1>1, StackIs
    <3>2. Of(kind, stack.count + m) = [kind |-> kind, count |-> stack.count + m]
      BY <2>2 DEF Of
    <3> HIDE DEF m, kind, stack
    <3> QED
      BY <2>2, <3>1, <3>2
  <2>5. [c EXCEPT !.slots[s].count = @ + m, !.cursor = Less(@, m)]
          = [c EXCEPT !.slots[s] = [stack EXCEPT !.count = @ + m], !.cursor = Less(@, m)]
    <3> HIDE DEF m
    <3> QED
      OBVIOUS
  <2>6. Less(c.cursor, m) = Of(kind, c.cursor.count - m)
    BY <2>2 DEF Less
  <2> HIDE DEF m, kind, stack
  <2> QED
    BY <1>4, <1>7, <2>2, <2>3, <2>4, <2>5, <2>6
<1>8. CASE stack # Empty /\ c.cursor # Empty /\ stack.kind # c.cursor.kind
  BY <1>8 DEF PredictPickup, Pickup
<1> QED
  BY <1>5, <1>6, <1>7, <1>8

LEMMA DropPredicted ==
  ASSUME NEW n \in Nat, NEW c \in Boxes(n), NEW s \in 1 .. n, NEW b \in Buttons
  PROVE  PredictDrop(c, s, b) = Drop(c, s, b)
<1>1. c.slots[s] \in StacksOrEmpty
  BY BoxIs
<1>2. b = "left" \/ b = "right"
  BY DEF Buttons
<1>3. CASE c.cursor # Empty \/ c.slots[s] = Empty
  BY <1>3 DEF PredictDrop, Drop
<1>4. CASE ~ (c.cursor # Empty \/ c.slots[s] = Empty)
  <2>1. c.slots[s].count \in Nat /\ c.slots[s].count > 0
    BY <1>1, <1>4, StackIs
  <2>2. c.slots[s].count <= 1 => Less(c.slots[s], 1) = Empty
    BY <2>1 DEF Less, Of
  <2>3. (IF b = "right" \/ c.slots[s].count <= 1 THEN Empty ELSE Less(c.slots[s], 1))
          = IF b = "left" THEN Less(c.slots[s], 1) ELSE Empty
    BY <1>2, <2>2
  <2> QED
    BY <1>4, <2>3 DEF PredictDrop, Drop
<1> QED
  BY <1>3, <1>4

LEMMA ThrowPredicted ==
  ASSUME NEW n \in Nat, NEW c \in Boxes(n), NEW b \in Buttons
  PROVE  PredictThrow(c, b) = Throw(c, b)
<1>1. c.cursor \in StacksOrEmpty /\ c = [slots |-> c.slots, cursor |-> c.cursor, drag |-> c.drag]
  BY BoxIs
<1>2. b = "left" \/ b = "right"
  BY DEF Buttons
<1>3. CASE c.cursor = Empty
  <2>1. [c EXCEPT !.cursor = Empty] = c
    BY <1>1, <1>3
  <2>2. ~ (c.cursor.count > 1)
    BY <1>3, StackIs
  <2> QED
    BY <1>3, <2>1, <2>2 DEF PredictThrow, Throw
<1>4. CASE c.cursor # Empty
  <2>1. c.cursor.count \in Nat /\ c.cursor.count > 0
    BY <1>1, <1>4, StackIs
  <2>2. ~ (c.cursor.count > 1) => Less(c.cursor, 1) = Empty
    BY <2>1 DEF Less, Of
  <2> QED
    BY <1>2, <1>4, <2>2 DEF PredictThrow, Throw
<1> QED
  BY <1>3, <1>4

\* On one container the two machines do the same and answer the same, unless a
\* covered slot has come to refuse the stack that is dragged over it.
THEOREM PredictionIsTheClick ==
  ASSUME NEW n \in Nat, NEW c \in Boxes(n), NEW k \in ClicksOn(n), ~Undercut(c)
  PROVE  PredictClick(c, k) = SlotClick(c, k) /\ Echo(c, k) = Carrier(c, k)
<1>1. /\ k.mode \in Modes /\ k.slot \in 0 .. n /\ k.button \in Buttons /\ k.share \in Shares
      /\ k.slot # NoSlot => k.slot \in 1 .. n
      /\ k.mode \in {"cover", "drop"} => k.slot \in 1 .. n
  BY ClickIs
<1>2. DOMAIN c.slots = 1 .. n /\ c.drag.open \in BOOLEAN
  BY BoxIs
<1>3. k.slot \in 1 .. n <=> Carried(c, k.slot)
  BY <1>2 DEF Carried
<1>4. k.slot \in 1 .. n <=> k.slot # NoSlot
  BY <1>1 DEF NoSlot
<1>5. CASE k.mode = "begin"
  <2>1. PredictClick(c, k) = PredictDrag(c, k) /\ SlotClick(c, k) = Begin(c, k.share)
    BY <1>5 DEF PredictClick, SlotClick
  <2>2. Echo(c, k) = Empty /\ Carrier(c, k) = Empty
    BY <1>5 DEF Echo, Carrier
  <2> QED
    BY <1>2, <1>5, <2>1, <2>2 DEF PredictDrag, Begin, ResetDrag
<1>6. CASE k.mode = "cover"
  <2>1. PredictClick(c, k) = PredictDrag(c, k) /\ SlotClick(c, k) = Cover(c, k.slot)
    BY <1>6 DEF PredictClick, SlotClick
  <2>2. Echo(c, k) = Empty /\ Carrier(c, k) = Empty
    BY <1>6 DEF Echo, Carrier
  <2> QED
    BY <1>1, <1>2, <1>3, <1>6, <2>1, <2>2 DEF PredictDrag, Cover, ResetDrag
<1>7. CASE k.mode = "finish"
  <2>1. PredictClick(c, k) = PredictDrag(c, k) /\ SlotClick(c, k) = Finish(c)
    BY <1>7 DEF PredictClick, SlotClick
  <2>2. Echo(c, k) = Empty /\ Carrier(c, k) = Empty
    BY <1>7 DEF Echo, Carrier
  <2>3. CASE c.cursor = Empty \/ ~c.drag.open
    BY <1>2, <1>7, <2>1, <2>2, <2>3 DEF PredictDrag, Finish, ResetDrag
  <2>4. CASE c.cursor # Empty /\ c.drag.open
    <3>1. PredictDrag(c, k) = ResetDrag(IF c.drag.over = {} THEN c ELSE FinishDrag(c))
      BY <1>7, <2>4 DEF PredictDrag
    <3>2. CASE c.drag.over = {}
      BY <2>1, <2>2, <3>1, <3>2 DEF Finish, ResetDrag
    <3>3. CASE c.drag.over # {}
      BY <2>1, <2>2, <2>4, <3>1, <3>3, FinishPredicted
    <3> QED
      BY <3>2, <3>3
  <2> QED
    BY <2>3, <2>4
<1>8. CASE k.mode \in {"pickup", "drop"} /\ c.drag.open
  BY <1>8 DEF PredictClick, SlotClick, ResetDrag, Echo, Carrier
<1>9. CASE k.mode = "pickup" /\ ~c.drag.open
  <2>1. Echo(c, k) = Carrier(c, k)
    BY <1>3, <1>4, <1>9 DEF Echo, Carrier
  <2>2. SlotClick(c, k) = IF k.slot = NoSlot THEN Throw(c, k.button) ELSE Pickup(c, k.slot, k.button)
    BY <1>9 DEF SlotClick
  <2>3. PredictClick(c, k) = IF k.slot = NoSlot THEN PredictThrow(c, k.button)
                             ELSE PredictPickup(c, k.slot, k.button)
    BY <1>3, <1>4, <1>9 DEF PredictClick
  <2> QED
    BY <1>1, <1>4, <2>1, <2>2, <2>3, ThrowPredicted, PickupPredicted
<1>10. CASE k.mode = "drop" /\ ~c.drag.open
  <2>1. Echo(c, k) = Carrier(c, k)
    BY <1>10 DEF Echo, Carrier
  <2>2. SlotClick(c, k) = Drop(c, k.slot, k.button)
    BY <1>10 DEF SlotClick
  <2>3. PredictClick(c, k) = PredictDrop(c, k.slot, k.button)
    BY <1>1, <1>3, <1>10 DEF PredictClick
  <2> QED
    BY <1>1, <1>10, <2>1, <2>2, <2>3, DropPredicted
<1> QED
  BY <1>1, <1>5, <1>6, <1>7, <1>8, <1>9, <1>10 DEF Modes

-----------------------------------------------------------------------------
(* A click leaves a container, and makes no item.                          *)

LEMMA ResetIs ==
  ASSUME NEW n, NEW c \in Boxes(n)
  PROVE  /\ ResetDrag(c) \in Boxes(n) /\ ResetDrag(c).drag = NoDrag
         /\ ResetDrag(c).slots = c.slots /\ ResetDrag(c).cursor = c.cursor
<1>1. c = [slots |-> c.slots, cursor |-> c.cursor, drag |-> c.drag]
  BY BoxIs
<1>2. ResetDrag(c) = [slots |-> c.slots, cursor |-> c.cursor, drag |-> NoDrag]
  BY <1>1 DEF ResetDrag
<1>3. c.slots \in [1 .. n -> StacksOrEmpty] /\ c.cursor \in StacksOrEmpty
  BY BoxIs
<1>4. NoDrag \in Drags(n)
  BY DragsAre
<1>5. [slots |-> c.slots, cursor |-> c.cursor, drag |-> NoDrag] \in Boxes(n)
  BY <1>3, <1>4, BoxOf
<1> QED
  BY <1>2, <1>5

Counted(stack, kind) == IF stack.kind = kind THEN stack.count ELSE 0

Counts(slots, kind) == [s \in DOMAIN slots |-> Counted(slots[s], kind)]

LEMMA CountedIs ==
  ASSUME NEW kind \in Kinds
  PROVE  /\ \A stack \in StacksOrEmpty : Counted(stack, kind) \in Nat
         /\ Counted(Empty, kind) = 0
         /\ \A k \in Kinds, n \in Int :
              Counted(Of(k, n), kind) = IF k = kind /\ n > 0 THEN n ELSE 0
BY StackIs DEF Counted, Empty, Of

LEMMA ItemsAre ==
  ASSUME NEW n \in Nat, NEW c \in Boxes(n), NEW kind \in Kinds
  PROVE  /\ Items(c, kind) = Counted(c.cursor, kind) + Total(Counts(c.slots, kind))
         /\ Counts(c.slots, kind) \in [1 .. n -> Int]
         /\ Total(Counts(c.slots, kind)) \in Int /\ Counted(c.cursor, kind) \in Nat
<1>1. /\ c.slots \in [1 .. n -> StacksOrEmpty] /\ c.cursor \in StacksOrEmpty
      /\ DOMAIN c.slots = 1 .. n
  BY BoxIs
<1>2. Counts(c.slots, kind) \in [1 .. n -> Int]
  <2>1. \A s \in 1 .. n : Counted(c.slots[s], kind) \in Nat
    BY <1>1, CountedIs
  <2> QED
    BY <1>1, <2>1 DEF Counts
<1>3. Items(c, kind) = Counted(c.cursor, kind) + Total(Counts(c.slots, kind))
  BY DEF Items, Counted, Counts
<1> QED
  BY <1>1, <1>2, <1>3, CountedIs, TotalInt

\* What one slot and the cursor trade.
LEMMA TradeMakesNothing ==
  ASSUME NEW n \in Nat, NEW c \in Boxes(n), NEW s \in 1 .. n,
         NEW stack \in StacksOrEmpty, NEW cursor \in StacksOrEmpty, NEW kind \in Kinds,
         Counted(stack, kind) + Counted(cursor, kind)
           <= Counted(c.slots[s], kind) + Counted(c.cursor, kind)
  PROVE  Items(Trade(c, s, stack, cursor), kind) <= Items(c, kind)
<1> DEFINE d == Trade(c, s, stack, cursor)
<1>1. d \in Boxes(n) /\ d.slots = [c.slots EXCEPT ![s] = stack] /\ d.cursor = cursor
  BY TradeBox DEF Trade
<1> HIDE DEF d
<1>2. /\ Items(c, kind) = Counted(c.cursor, kind) + Total(Counts(c.slots, kind))
      /\ Counts(c.slots, kind) \in [1 .. n -> Int]
      /\ Total(Counts(c.slots, kind)) \in Int /\ Counted(c.cursor, kind) \in Nat
  BY ItemsAre
<1>3. /\ Items(d, kind) = Counted(d.cursor, kind) + Total(Counts(d.slots, kind))
      /\ Counts(d.slots, kind) \in [1 .. n -> Int] /\ Counted(d.cursor, kind) \in Nat
  BY <1>1, ItemsAre
<1>4. DOMAIN c.slots = 1 .. n /\ c.slots[s] \in StacksOrEmpty
  BY BoxIs
<1>5. /\ \A i \in 1 .. n : i # s => Counts(d.slots, kind)[i] = Counts(c.slots, kind)[i]
      /\ Counts(d.slots, kind)[s] = Counted(stack, kind)
      /\ Counts(c.slots, kind)[s] = Counted(c.slots[s], kind)
  BY <1>1, <1>4 DEF Counts
<1>6. Total(Counts(d.slots, kind))
        = Total(Counts(c.slots, kind)) + (Counted(stack, kind) - Counted(c.slots[s], kind))
  <2>1. Total(Counts(d.slots, kind)) = Total(Counts(c.slots, kind))
          + (Counts(d.slots, kind)[s] - Counts(c.slots, kind)[s])
    BY <1>2, <1>3, <1>5, TotalOne
  <2> QED
    BY <1>5, <2>1
<1>7. Counted(stack, kind) \in Nat /\ Counted(c.slots[s], kind) \in Nat
  BY <1>4, CountedIs
<1>8. Items(d, kind) <= Items(c, kind)
  BY <1>1, <1>2, <1>3, <1>6, <1>7
<1> QED
  BY <1>8 DEF d

\* Some of a stack is put on top of another one of its kind, or on none.
LEMMA MovedCounts ==
  ASSUME NEW from \in StacksOrEmpty, NEW to \in StacksOrEmpty, NEW put \in Nat,
         put <= from.count, to.count + put <= MaxStack, to = Empty \/ to.kind = from.kind,
         NEW kind \in Kinds
  PROVE  /\ Less(from, put) \in StacksOrEmpty /\ Of(from.kind, to.count + put) \in StacksOrEmpty
         /\ Counted(Of(from.kind, to.count + put), kind) + Counted(Less(from, put), kind)
              <= Counted(to, kind) + Counted(from, kind)
<1>1. Less(from, put) \in StacksOrEmpty
  BY LessIs
<1>2. CASE from = Empty
  <2>1. from.count = 0 /\ put = 0 /\ to.count \in Nat /\ from.kind = Nobody
    BY <1>2, StackIs
  <2>2. CASE to = Empty
    <3>1. Of(from.kind, to.count + put) = Empty /\ Less(from, put) = Empty
      BY <2>1, <2>2, StackIs DEF Of, Less
    <3> QED
      BY <1>1, <1>2, <2>2, <3>1, CountedIs, StackIs
  <2>3. CASE to # Empty
    <3>1. Less(from, put) = Empty /\ Of(from.kind, to.count + put) = to
      <4>1. to.count > 0 /\ to.count + put = to.count
        BY <2>1, <2>3, StackIs
      <4>2. to = [kind |-> to.kind, count |-> to.count]
        BY StackIs
      <4> QED
        BY <2>1, <2>3, <4>1, <4>2 DEF Of, Less
    <3> QED
      BY <1>1, <1>2, <3>1, CountedIs
  <2> QED
    BY <2>2, <2>3
<1>3. CASE from # Empty
  <2>1. /\ from.kind \in Kinds /\ from.count \in Nat /\ to.count \in Nat
        /\ (to = Empty => to.count = 0)
    BY <1>3, StackIs
  <2>2. Of(from.kind, to.count + put) \in StacksOrEmpty
    BY <2>1, StackIs
  <2>3. /\ Counted(Of(from.kind, to.count + put), kind) =
             IF from.kind = kind /\ to.count + put > 0 THEN to.count + put ELSE 0
        /\ Counted(Less(from, put), kind) =
             IF from.kind = kind /\ from.count - put > 0 THEN from.count - put ELSE 0
    BY <2>1, CountedIs DEF Less
  <2>4. Counted(from, kind) = IF from.kind = kind THEN from.count ELSE 0
    BY DEF Counted
  <2>5. Counted(to, kind) \in Nat /\ (from.kind = kind => Counted(to, kind) = to.count)
    <3>1. Counted(to, kind) \in Nat
      BY CountedIs
    <3>2. CASE to = Empty
      BY <2>1, <3>1, <3>2, CountedIs
    <3>3. CASE to # Empty
      BY <3>1, <3>3 DEF Counted
    <3> QED
      BY <3>2, <3>3
  <2> QED
    BY <1>1, <2>1, <2>2, <2>3, <2>4, <2>5
<1> QED
  BY <1>2, <1>3

LEMMA PickupTrades ==
  ASSUME NEW n \in Nat, NEW c \in Boxes(n), NEW s \in 1 .. n, NEW b \in Buttons
  PROVE  \E stack \in StacksOrEmpty, cursor \in StacksOrEmpty :
           /\ Pickup(c, s, b) = Trade(c, s, stack, cursor)
           /\ \A kind \in Kinds : Counted(stack, kind) + Counted(cursor, kind)
                                    <= Counted(c.slots[s], kind) + Counted(c.cursor, kind)
<1> DEFINE held_ == c.slots[s]
           m == Moves(held_, c.cursor, b)
           kind_ == IF held_ = Empty THEN c.cursor.kind ELSE held_.kind
<1>1. held_ \in StacksOrEmpty /\ c.cursor \in StacksOrEmpty
  BY BoxIs
<1>2. /\ held_.count \in Nat /\ c.cursor.count \in Nat /\ MaxStack \in Nat
      /\ held_.count <= MaxStack /\ c.cursor.count <= MaxStack
      /\ (held_ = Empty <=> held_.count = 0) /\ (c.cursor = Empty <=> c.cursor.count = 0)
  BY <1>1, StackIs, MaxStackAssumption
<1>3. Pickup(c, s, b) = PredictPickup(c, s, b)
  BY PickupPredicted
<1>4. CASE held_ # Empty /\ c.cursor # Empty /\ held_.kind # c.cursor.kind
  <2>1. Pickup(c, s, b) = [c EXCEPT !.slots[s] = c.cursor, !.cursor = held_]
    BY <1>4 DEF Pickup
  <2>2. [c EXCEPT !.slots[s] = c.cursor, !.cursor = held_] = Trade(c, s, c.cursor, held_)
    <3>1. PICK d : d = [c EXCEPT !.slots[s] = c.cursor, !.cursor = held_]
      OBVIOUS
    <3>2. c \in Containers(1 .. n)
      BY BoxIs
    <3>3. d = Trade(c, s, c.cursor, held_)
      BY <3>1, <3>2 DEF Containers, Trade
    <3> QED
      BY <3>1, <3>3
  <2>0. Pickup(c, s, b) = Trade(c, s, c.cursor, held_)
    BY <2>1, <2>2, Zenon
  <2>3. \A kind \in Kinds : Counted(c.cursor, kind) \in Nat /\ Counted(held_, kind) \in Nat
    BY <1>1, CountedIs
  <2> QED
    BY <1>1, <2>0, <2>3
<1>5. CASE ~ (held_ # Empty /\ c.cursor # Empty /\ held_.kind # c.cursor.kind)
  <2>1. PredictPickup(c, s, b) =
          [c EXCEPT !.slots[s] = Of(kind_, held_.count + m), !.cursor = Of(kind_, c.cursor.count - m)]
    BY <1>5 DEF PredictPickup
  <2>2. Pickup(c, s, b) = Trade(c, s, Of(kind_, held_.count + m), Of(kind_, c.cursor.count - m))
    <3> HIDE DEF kind_, held_, m
    <3> DEFINE x == Of(kind_, held_.count + m)
               y == Of(kind_, c.cursor.count - m)
    <3>1. PredictPickup(c, s, b) = [c EXCEPT !.slots[s] = x, !.cursor = y]
      BY <2>1
    <3> HIDE DEF x, y
    <3>2. [c EXCEPT !.slots[s] = x, !.cursor = y] = Trade(c, s, x, y)
      <4>1. PICK d : d = [c EXCEPT !.slots[s] = x, !.cursor = y]
        OBVIOUS
      <4>2. c \in Containers(1 .. n)
        BY BoxIs
      <4>3. d = Trade(c, s, x, y)
        BY <4>1, <4>2 DEF Containers, Trade
      <4> QED
        BY <4>1, <4>3
    <3>3. Pickup(c, s, b) = Trade(c, s, x, y)
      BY <1>3, <3>1, <3>2, Zenon
    <3> QED
      BY <3>3 DEF x, y
  <2>3. CASE held_ # Empty /\ c.cursor = Empty
    <3>1. m = IF b = "left" THEN -held_.count ELSE -((held_.count + 1) \div 2)
      BY <2>3 DEF Moves
    <3> DEFINE take == -m
    <3>2. take \in Nat /\ take <= held_.count /\ c.cursor.count + take <= MaxStack
      BY <1>2, <2>3, <3>1
    <3>3. /\ Less(held_, take) = Of(kind_, held_.count + m)
          /\ Of(held_.kind, c.cursor.count + take) = Of(kind_, c.cursor.count - m)
      <4>1. held_.count - take = held_.count + m /\ c.cursor.count + take = c.cursor.count - m
        BY <1>2, <3>1
      <4> HIDE DEF take, m
      <4> QED
        BY <2>3, <4>1 DEF Less
    <3> HIDE DEF take, m, kind_, held_
    <3>4. /\ Less(held_, take) \in StacksOrEmpty
          /\ Of(held_.kind, c.cursor.count + take) \in StacksOrEmpty
          /\ \A kind \in Kinds :
               Counted(Of(held_.kind, c.cursor.count + take), kind) + Counted(Less(held_, take), kind)
                 <= Counted(c.cursor, kind) + Counted(held_, kind)
      <4>1. Less(held_, take) \in StacksOrEmpty
        BY <1>1, <3>2, LessIs
      <4>2. Of(held_.kind, c.cursor.count + take) \in StacksOrEmpty
        BY <1>1, <1>2, <2>3, <3>2, StackIs
      <4> QED
        BY <1>1, <2>3, <3>2, <4>1, <4>2, MovedCounts
    <3>5. \A kind \in Kinds :
            /\ Counted(Less(held_, take), kind) \in Nat /\ Counted(c.cursor, kind) \in Nat
            /\ Counted(Of(held_.kind, c.cursor.count + take), kind) \in Nat
            /\ Counted(held_, kind) \in Nat
      BY <1>1, <3>4, CountedIs
    <3>6. \A kind \in Kinds :
            Counted(Less(held_, take), kind) + Counted(Of(held_.kind, c.cursor.count + take), kind)
              <= Counted(held_, kind) + Counted(c.cursor, kind)
      BY <3>4, <3>5
    <3> QED
      BY <2>2, <3>3, <3>4, <3>6 DEF held_
  <2>4. CASE ~ (held_ # Empty /\ c.cursor = Empty)
    <3>1. m \in Nat /\ m <= c.cursor.count /\ held_.count + m <= MaxStack
      <4>1. CASE held_ = Empty
        BY <1>2, <4>1 DEF Moves, Least
      <4>2. CASE held_ # Empty /\ c.cursor # Empty
        BY <1>2, <4>2 DEF Moves, Least
      <4> QED
        BY <2>4, <4>1, <4>2
    <3>2. kind_ = c.cursor.kind /\ (held_ = Empty \/ held_.kind = c.cursor.kind)
      BY <1>5, <2>4
    <3>3. Less(c.cursor, m) = Of(kind_, c.cursor.count - m)
      BY <3>2 DEF Less
    <3> HIDE DEF m, kind_, held_
    <3>4. /\ Less(c.cursor, m) \in StacksOrEmpty
          /\ Of(kind_, held_.count + m) \in StacksOrEmpty
          /\ \A kind \in Kinds :
               Counted(Of(kind_, held_.count + m), kind) + Counted(Less(c.cursor, m), kind)
                 <= Counted(held_, kind) + Counted(c.cursor, kind)
      <4>1. Less(c.cursor, m) \in StacksOrEmpty
        BY <1>1, <3>1, LessIs
      <4>2. Of(c.cursor.kind, held_.count + m) \in StacksOrEmpty
        <5>1. CASE c.cursor = Empty
          <6>1. held_.count + m = 0 /\ c.cursor.kind = Nobody
            BY <1>2, <2>4, <3>1, <5>1, StackIs
          <6> QED
            BY <6>1, StackIs DEF Of
        <5>2. CASE c.cursor # Empty
          BY <1>1, <1>2, <3>1, <5>2, StackIs
        <5> QED
          BY <5>1, <5>2
      <4>3. \A kind \in Kinds :
              Counted(Of(c.cursor.kind, held_.count + m), kind) + Counted(Less(c.cursor, m), kind)
                <= Counted(held_, kind) + Counted(c.cursor, kind)
        BY <1>1, <3>1, <3>2, MovedCounts
      <4> QED
        BY <3>2, <4>1, <4>2, <4>3
    <3> QED
      BY <2>2, <3>3, <3>4 DEF held_
  <2> QED
    BY <2>3, <2>4
<1> QED
  BY <1>4, <1>5

LEMMA DropTrades ==
  ASSUME NEW n \in Nat, NEW c \in Boxes(n), NEW s \in 1 .. n, NEW b \in Buttons
  PROVE  \/ Drop(c, s, b) = c
         \/ \E stack \in StacksOrEmpty :
              /\ Drop(c, s, b) = Trade(c, s, stack, c.cursor)
              /\ \A kind \in Kinds : Counted(stack, kind) <= Counted(c.slots[s], kind)
<1> DEFINE stack == IF b = "left" THEN Less(c.slots[s], 1) ELSE Empty
<1>1. CASE c.cursor # Empty \/ c.slots[s] = Empty
  BY <1>1 DEF Drop
<1>2. CASE ~ (c.cursor # Empty \/ c.slots[s] = Empty)
  <2>1. c.slots[s] \in StacksOrEmpty
    BY BoxIs
  <2>2. stack \in StacksOrEmpty
    BY <2>1, LessIs, StackIs
  <2>3. \A kind \in Kinds : Counted(stack, kind) <= Counted(c.slots[s], kind)
    <3>1. SUFFICES ASSUME NEW kind \in Kinds PROVE Counted(stack, kind) <= Counted(c.slots[s], kind)
      OBVIOUS
    <3>2. Counted(c.slots[s], kind) \in Nat /\ Counted(Empty, kind) = 0
      BY <2>1, CountedIs
    <3>3. c.slots[s].kind \in Kinds /\ c.slots[s].count \in Nat
      BY <1>2, <2>1, StackIs
    <3>4. Counted(Less(c.slots[s], 1), kind) =
            IF c.slots[s].kind = kind /\ c.slots[s].count - 1 > 0 THEN c.slots[s].count - 1 ELSE 0
      BY <3>3, CountedIs DEF Less
    <3> QED
      BY <3>2, <3>3, <3>4 DEF Counted
  <2>4. Drop(c, s, b) = [c EXCEPT !.slots[s] = stack]
    BY <1>2 DEF Drop
  <2> HIDE DEF stack
  <2>5. [c EXCEPT !.slots[s] = stack] = Trade(c, s, stack, c.cursor)
    <3>1. PICK d : d = [c EXCEPT !.slots[s] = stack]
      OBVIOUS
    <3>2. c \in Containers(1 .. n)
      BY BoxIs
    <3>3. d = Trade(c, s, stack, c.cursor)
      BY <3>1, <3>2 DEF Containers, Trade
    <3> QED
      BY <3>1, <3>3
  <2> QED
    BY <2>2, <2>3, <2>4, <2>5
<1> QED
  BY <1>1, <1>2

LEMMA ThrowIs ==
  ASSUME NEW n \in Nat, NEW c \in Boxes(n), NEW b \in Buttons
  PROVE  /\ Throw(c, b) \in Boxes(n)
         /\ \A kind \in Kinds : Items(Throw(c, b), kind) <= Items(c, kind)
<1> DEFINE left == IF b = "left" THEN Empty ELSE Less(c.cursor, 1)
<1>1. CASE c.cursor = Empty
  <2>1. Throw(c, b) = c
    BY <1>1 DEF Throw
  <2>2. \A kind \in Kinds : Items(c, kind) \in Int
    BY ItemsAre
  <2> QED
    BY <2>1, <2>2
<1>2. CASE c.cursor # Empty
  <2>1. /\ c = [slots |-> c.slots, cursor |-> c.cursor, drag |-> c.drag]
        /\ c.slots \in [1 .. n -> StacksOrEmpty] /\ c.cursor \in StacksOrEmpty
        /\ c.drag \in Drags(n) /\ (~c.drag.open => c.drag = NoDrag)
    BY BoxIs
  <2>2. left \in StacksOrEmpty
    BY <2>1, LessIs, StackIs
  <2>3. Throw(c, b) = [c EXCEPT !.cursor = left]
    BY <1>2 DEF Throw
  <2>4. \A kind \in Kinds : Counted(left, kind) <= Counted(c.cursor, kind)
    <3>1. SUFFICES ASSUME NEW kind \in Kinds PROVE Counted(left, kind) <= Counted(c.cursor, kind)
      OBVIOUS
    <3>2. Counted(c.cursor, kind) \in Nat /\ Counted(Empty, kind) = 0
      BY <2>1, CountedIs
    <3>3. c.cursor.kind \in Kinds /\ c.cursor.count \in Nat
      BY <1>2, <2>1, StackIs
    <3>4. Counted(Less(c.cursor, 1), kind) =
            IF c.cursor.kind = kind /\ c.cursor.count - 1 > 0 THEN c.cursor.count - 1 ELSE 0
      BY <3>3, CountedIs DEF Less
    <3> QED
      BY <3>2, <3>3, <3>4 DEF Counted
  <2> HIDE DEF left
  <2> DEFINE d == [slots |-> c.slots, cursor |-> left, drag |-> c.drag]
  <2>5. Throw(c, b) = d
    BY <2>1, <2>3
  <2>6. d \in Boxes(n) /\ d.slots = c.slots /\ d.cursor = left
    BY <2>1, <2>2, BoxOf
  <2> HIDE DEF d
  <2>7. ASSUME NEW kind \in Kinds PROVE Items(d, kind) <= Items(c, kind)
    <3>1. /\ Items(d, kind) = Counted(left, kind) + Total(Counts(c.slots, kind))
          /\ Counted(left, kind) \in Nat
      BY <2>6, ItemsAre
    <3>2. /\ Items(c, kind) = Counted(c.cursor, kind) + Total(Counts(c.slots, kind))
          /\ Total(Counts(c.slots, kind)) \in Int /\ Counted(c.cursor, kind) \in Nat
      BY ItemsAre
    <3> QED
      BY <2>4, <3>1, <3>2
  <2> QED
    BY <2>5, <2>6, <2>7
<1> QED
  BY <1>1, <1>2

LEMMA PickupIs ==
  ASSUME NEW n \in Nat, NEW c \in Boxes(n), NEW s \in 1 .. n, NEW b \in Buttons
  PROVE  /\ Pickup(c, s, b) \in Boxes(n)
         /\ \A kind \in Kinds : Items(Pickup(c, s, b), kind) <= Items(c, kind)
<1>1. PICK stack \in StacksOrEmpty, cursor \in StacksOrEmpty :
           /\ Pickup(c, s, b) = Trade(c, s, stack, cursor)
           /\ \A kind \in Kinds : Counted(stack, kind) + Counted(cursor, kind)
                                    <= Counted(c.slots[s], kind) + Counted(c.cursor, kind)
  BY PickupTrades
<1>2. Trade(c, s, stack, cursor) \in Boxes(n)
  BY TradeBox
<1>3. \A kind \in Kinds : Items(Trade(c, s, stack, cursor), kind) <= Items(c, kind)
  BY <1>1, TradeMakesNothing
<1> QED
  BY <1>1, <1>2, <1>3

LEMMA DropIs ==
  ASSUME NEW n \in Nat, NEW c \in Boxes(n), NEW s \in 1 .. n, NEW b \in Buttons
  PROVE  /\ Drop(c, s, b) \in Boxes(n)
         /\ \A kind \in Kinds : Items(Drop(c, s, b), kind) <= Items(c, kind)
<1>1. CASE Drop(c, s, b) = c
  <2>1. \A kind \in Kinds : Items(c, kind) \in Int
    BY ItemsAre
  <2> QED
    BY <1>1, <2>1
<1>2. CASE Drop(c, s, b) # c
  <2>1. PICK stack \in StacksOrEmpty :
          /\ Drop(c, s, b) = Trade(c, s, stack, c.cursor)
          /\ \A kind \in Kinds : Counted(stack, kind) <= Counted(c.slots[s], kind)
    BY <1>2, DropTrades
  <2>2. c.cursor \in StacksOrEmpty /\ c.slots[s] \in StacksOrEmpty
    BY BoxIs
  <2>3. Trade(c, s, stack, c.cursor) \in Boxes(n)
    BY <2>2, TradeBox
  <2>4. \A kind \in Kinds : Counted(stack, kind) + Counted(c.cursor, kind)
                              <= Counted(c.slots[s], kind) + Counted(c.cursor, kind)
    <3>1. \A kind \in Kinds : /\ Counted(stack, kind) \in Nat /\ Counted(c.cursor, kind) \in Nat
                              /\ Counted(c.slots[s], kind) \in Nat
      BY <2>2, CountedIs
    <3> QED
      BY <2>1, <3>1
  <2>5. \A kind \in Kinds : Items(Trade(c, s, stack, c.cursor), kind) <= Items(c, kind)
    BY <2>2, <2>4, TradeMakesNothing
  <2> QED
    BY <2>1, <2>3, <2>5
<1> QED
  BY <1>1, <1>2

\* A drag's end: the shares some of its slots take, out of the cursor.
GivenOut(c, T) ==
  [slots  |-> [s \in DOMAIN c.slots |->
                 IF s \in T THEN Of(c.cursor.kind, ComputeStackSize(c.drag, c.cursor, c.slots[s]))
                            ELSE c.slots[s]],
   cursor |-> Less(c.cursor, Total(Added(c, T))),
   drag   |-> NoDrag]

LEMMA GivenOutIs ==
  ASSUME NEW n \in Nat, NEW c \in Boxes(n), NEW T \in SUBSET c.drag.over,
         c.drag.over # {}, c.cursor # Empty, Cardinality(c.drag.over) <= c.cursor.count
  PROVE  /\ GivenOut(c, T) \in Boxes(n)
         /\ (\A s \in T : CanAddItemToSlot(c.slots[s], c.cursor))
              => \A kind \in Kinds : Items(GivenOut(c, T), kind) <= Items(c, kind)
<1> DEFINE size(s) == ComputeStackSize(c.drag, c.cursor, c.slots[s])
           slots == [s \in 1 .. n |-> IF s \in T THEN Of(c.cursor.kind, size(s)) ELSE c.slots[s]]
           given == Total(Added(c, T))
           d == [slots |-> slots, cursor |-> Less(c.cursor, given), drag |-> NoDrag]
<1>1. /\ c \in Containers(1 .. n) /\ DOMAIN c.slots = 1 .. n
      /\ c.slots \in [1 .. n -> StacksOrEmpty] /\ c.cursor \in StacksOrEmpty
  BY BoxIs
<1>2. /\ Added(c, T) \in [1 .. n -> Nat] /\ given \in 0 .. c.cursor.count
      /\ \A s \in 1 .. n : size(s) \in c.slots[s].count .. MaxStack /\ size(s) > 0
  BY <1>1, AddedIs
<1>3. GivenOut(c, T) = d
  BY <1>1 DEF GivenOut
<1>4. c.cursor.kind \in Kinds /\ c.cursor.count \in Nat /\ MaxStack \in Nat
  BY <1>1, StackIs, MaxStackAssumption
<1>5. \A s \in 1 .. n : c.slots[s].count \in Nat /\ size(s) \in Int /\ size(s) <= MaxStack
  <2>1. \A s \in 1 .. n : c.slots[s].count \in Nat
    BY <1>1, StackIs
  <2>2. ASSUME NEW s \in 1 .. n PROVE size(s) \in Int /\ size(s) <= MaxStack
    <3>1. size(s) \in c.slots[s].count .. MaxStack /\ c.slots[s].count \in Nat
      BY <1>2, <2>1
    <3> HIDE DEF size
    <3> QED
      BY <1>4, <3>1
  <2> QED
    BY <2>1, <2>2
<1>6. \A s \in 1 .. n : Added(c, T)[s] = IF s \in T THEN size(s) - c.slots[s].count ELSE 0
  BY <1>1 DEF Added
<1>7. Less(c.cursor, given) \in StacksOrEmpty
  BY <1>1, <1>2, LessIs
<1> HIDE DEF size, given
<1>8. slots \in [1 .. n -> StacksOrEmpty]
  <2>1. \A s \in 1 .. n : Of(c.cursor.kind, size(s)) \in StacksOrEmpty
    BY <1>4, <1>5, StackIs
  <2> QED
    BY <1>1, <2>1
<1>9. d \in Boxes(n)
  <2> HIDE DEF slots
  <2>1. NoDrag \in Drags(n)
    BY DragsAre
  <2> QED
    BY <1>7, <1>8, <2>1, BoxOf
<1>10. ASSUME \A s \in T : CanAddItemToSlot(c.slots[s], c.cursor), NEW kind \in Kinds
       PROVE  Items(d, kind) <= Items(c, kind)
  <2>1. /\ Items(c, kind) = Counted(c.cursor, kind) + Total(Counts(c.slots, kind))
        /\ Counts(c.slots, kind) \in [1 .. n -> Int]
        /\ Total(Counts(c.slots, kind)) \in Int /\ Counted(c.cursor, kind) \in Nat
    BY ItemsAre
  <2>2. d.slots = slots /\ d.cursor = Less(c.cursor, given)
    OBVIOUS
  <2> HIDE DEF d
  <2>3. /\ Items(d, kind) = Counted(d.cursor, kind) + Total(Counts(d.slots, kind))
        /\ Counts(d.slots, kind) \in [1 .. n -> Int]
        /\ Total(Counts(d.slots, kind)) \in Int /\ Counted(d.cursor, kind) \in Nat
    BY <1>9, ItemsAre
  <2>4. \A s \in 1 .. n : /\ Counts(c.slots, kind)[s] = Counted(c.slots[s], kind)
                          /\ Counts(d.slots, kind)[s] =
                               IF s \in T THEN Counted(Of(c.cursor.kind, size(s)), kind)
                                          ELSE Counted(c.slots[s], kind)
    BY <1>1, <2>2 DEF Counts
  <2>5. \A s \in 1 .. n : Counted(Of(c.cursor.kind, size(s)), kind) =
                            IF c.cursor.kind = kind THEN size(s) ELSE 0
    BY <1>2, <1>4, <1>5, CountedIs DEF size
  <2>6. \A s \in T : Counted(c.slots[s], kind) = IF c.cursor.kind = kind THEN c.slots[s].count ELSE 0
    <3>1. ASSUME NEW s \in T
          PROVE  Counted(c.slots[s], kind) = IF c.cursor.kind = kind THEN c.slots[s].count ELSE 0
      <4>1. c.slots[s] = Empty \/ c.slots[s].kind = c.cursor.kind
        BY <1>10 DEF CanAddItemToSlot
      <4>2. CASE c.slots[s] = Empty
        BY <4>2, CountedIs, StackIs
      <4>3. CASE c.slots[s].kind = c.cursor.kind
        BY <4>3 DEF Counted
      <4> QED
        BY <4>1, <4>2, <4>3
    <3> QED
      BY <3>1
  <2>7. T \subseteq 1 .. n
    BY <1>1 DEF Containers
  <2>8. CASE c.cursor.kind = kind
    <3>1. Added(c, T) \in [1 .. n -> Int]
      BY <1>2
    <3>2. \A s \in 1 .. n : Counts(d.slots, kind)[s] = Counts(c.slots, kind)[s] + Added(c, T)[s]
      <4>1. SUFFICES ASSUME NEW s \in 1 .. n
                     PROVE  Counts(d.slots, kind)[s] = Counts(c.slots, kind)[s] + Added(c, T)[s]
        OBVIOUS
      <4>2. CASE s \in T
        BY <1>5, <1>6, <2>4, <2>5, <2>6, <2>8, <4>2
      <4>3. CASE s \notin T
        <5>1. Counts(c.slots, kind)[s] \in Int
          BY <2>1
        <5> QED
          BY <1>6, <2>4, <4>3, <5>1
      <4> QED
        BY <4>2, <4>3
    <3>3. Total(Counts(d.slots, kind)) = Total(Counts(c.slots, kind)) + given
      BY <2>1, <2>3, <3>1, <3>2, TotalPlus DEF given
    <3>4. Counted(d.cursor, kind) = c.cursor.count - given
      <4>1. Counted(Of(c.cursor.kind, c.cursor.count - given), kind) =
              IF c.cursor.count - given > 0 THEN c.cursor.count - given ELSE 0
        <5>1. c.cursor.count - given \in Int
          BY <1>2, <1>4
        <5> QED
          BY <1>4, <2>8, <5>1, CountedIs
      <4> QED
        BY <1>2, <1>4, <2>2, <4>1 DEF Less
    <3>5. Counted(c.cursor, kind) = c.cursor.count
      BY <2>8 DEF Counted
    <3> QED
      BY <1>2, <1>4, <2>1, <2>3, <3>3, <3>4, <3>5
  <2>9. CASE c.cursor.kind # kind
    <3>1. \A s \in 1 .. n : Counts(d.slots, kind)[s] <= Counts(c.slots, kind)[s]
      <4>1. \A s \in 1 .. n : Counted(c.slots[s], kind) \in Nat
        BY <1>1, CountedIs
      <4> QED
        BY <2>4, <2>5, <2>6, <2>9, <4>1
    <3>2. Total(Counts(d.slots, kind)) <= Total(Counts(c.slots, kind))
      BY <2>1, <2>3, <3>1, TotalAtMost
    <3>3. Counted(d.cursor, kind) = 0
      <4>1. c.cursor.count - given \in Int
        BY <1>2, <1>4
      <4> QED
        BY <1>4, <2>2, <2>9, <4>1, CountedIs DEF Less
    <3> QED
      BY <2>1, <2>3, <3>2, <3>3
  <2> QED
    BY <2>8, <2>9
<1> QED
  BY <1>3, <1>9, <1>10

LEMMA FinishDragIs ==
  ASSUME NEW n \in Nat, NEW c \in Boxes(n), c.drag.over # {}, c.cursor # Empty
  PROVE  /\ ResetDrag(FinishDrag(c)) \in Boxes(n)
         /\ ~Undercut(c) /\ c.drag.open
              => \A kind \in Kinds : Items(ResetDrag(FinishDrag(c)), kind) <= Items(c, kind)
<1> DEFINE m == Cardinality(c.drag.over)
<1>1. /\ c = [slots |-> c.slots, cursor |-> c.cursor, drag |-> c.drag]
      /\ c.drag.over \in SUBSET (1 .. n) /\ c.cursor \in StacksOrEmpty
  BY BoxIs
<1>2. m \in Nat /\ c.cursor.count \in Nat
  <2>1. IsFiniteSet(1 .. n)
    BY FS_Interval
  <2>2. IsFiniteSet(c.drag.over)
    BY <1>1, <2>1, FS_Subset
  <2> QED
    BY <1>1, <2>2, FS_CardinalityType, StackIs
<1>3. CASE c.cursor.count < m
  <2>1. FinishDrag(c) = c
    BY <1>3 DEF FinishDrag
  <2>2. ResetDrag(c) \in Boxes(n) /\ \A kind \in Kinds : Items(ResetDrag(c), kind) = Items(c, kind)
    BY ResetIs DEF Items
  <2>3. \A kind \in Kinds : Items(c, kind) \in Int
    BY ItemsAre
  <2> QED
    BY <2>1, <2>2, <2>3
<1>4. CASE ~ (c.cursor.count < m)
  <2>1. ResetDrag(FinishDrag(c)) = GivenOut(c, c.drag.over)
    <3> DEFINE slots == [s \in DOMAIN c.slots |->
                           IF s \in c.drag.over
                           THEN Of(c.cursor.kind, ComputeStackSize(c.drag, c.cursor, c.slots[s]))
                           ELSE c.slots[s]]
               cursor == Less(c.cursor, Total(Added(c, c.drag.over)))
    <3>1. FinishDrag(c) = [c EXCEPT !.slots = slots, !.cursor = cursor]
      BY <1>4 DEF FinishDrag
    <3>2. GivenOut(c, c.drag.over) = [slots |-> slots, cursor |-> cursor, drag |-> NoDrag]
      BY DEF GivenOut
    <3> HIDE DEF slots, cursor
    <3>3. FinishDrag(c) = [slots |-> slots, cursor |-> cursor, drag |-> c.drag]
      BY <1>1, <3>1
    <3>4. [FinishDrag(c) EXCEPT !.drag = NoDrag] = [slots |-> slots, cursor |-> cursor, drag |-> NoDrag]
      BY <3>3
    <3> QED
      BY <3>2, <3>4 DEF ResetDrag
  <2>2. Cardinality(c.drag.over) <= c.cursor.count
    BY <1>2, <1>4
  <2>3. ~Undercut(c) /\ c.drag.open => \A s \in c.drag.over : CanAddItemToSlot(c.slots[s], c.cursor)
    BY DEF Undercut
  <2> HIDE DEF m
  <2>4. c.drag.over \in SUBSET c.drag.over
    OBVIOUS
  <2> QED
    BY <2>1, <2>2, <2>3, <2>4, GivenOutIs
<1> QED
  BY <1>3, <1>4

LEMMA FinishIs ==
  ASSUME NEW n \in Nat, NEW c \in Boxes(n)
  PROVE  /\ Finish(c) \in Boxes(n)
         /\ \A kind \in Kinds : Items(Finish(c), kind) <= Items(c, kind)
<1> DEFINE m == Cardinality(c.drag.over)
           takes == {s \in c.drag.over : CanAddItemToSlot(c.slots[s], c.cursor) /\ c.cursor.count >= m}
<1>1. /\ c = [slots |-> c.slots, cursor |-> c.cursor, drag |-> c.drag] /\ DOMAIN c.slots = 1 .. n
      /\ c.drag.over \in SUBSET (1 .. n) /\ c.cursor \in StacksOrEmpty
      /\ c.slots = [s \in 1 .. n |-> c.slots[s]]
  BY BoxIs
<1>2. m \in Nat /\ c.cursor.count \in Nat
  <2>1. IsFiniteSet(1 .. n)
    BY FS_Interval
  <2>2. IsFiniteSet(c.drag.over)
    BY <1>1, <2>1, FS_Subset
  <2> QED
    BY <1>1, <2>2, FS_CardinalityType, StackIs
<1>3. /\ ResetDrag(c) \in Boxes(n)
      /\ \A kind \in Kinds : Items(ResetDrag(c), kind) <= Items(c, kind)
  <2>1. ResetDrag(c) \in Boxes(n) /\ \A kind \in Kinds : Items(ResetDrag(c), kind) = Items(c, kind)
    BY ResetIs DEF Items
  <2>2. \A kind \in Kinds : Items(c, kind) \in Int
    BY ItemsAre
  <2> QED
    BY <2>1, <2>2
<1>4. CASE c.cursor = Empty \/ ~c.drag.open \/ c.drag.over = {}
  BY <1>3, <1>4 DEF Finish, ResetDrag
<1>5. CASE ~ (c.cursor = Empty \/ ~c.drag.open \/ c.drag.over = {})
  <2>1. Finish(c) = GivenOut(c, takes)
    BY <1>5 DEF Finish, GivenOut
  <2>2. takes \in SUBSET c.drag.over /\ \A s \in takes : CanAddItemToSlot(c.slots[s], c.cursor)
    OBVIOUS
  <2>3. m > c.cursor.count => takes = {}
    BY <1>2
  <2> HIDE DEF takes
  <2>4. CASE m <= c.cursor.count
    <3> HIDE DEF m
    <3>1. Cardinality(c.drag.over) <= c.cursor.count
      BY <2>4 DEF m
    <3> QED
      BY <1>5, <2>1, <2>2, <3>1, GivenOutIs
  <2>5. CASE m > c.cursor.count
    <3>1. GivenOut(c, {}) = [slots |-> [s \in 1 .. n |-> c.slots[s]],
                             cursor |-> Less(c.cursor, Total(Added(c, {}))), drag |-> NoDrag]
      BY <1>1 DEF GivenOut
    <3>2. GivenOut(c, {}) = [slots |-> c.slots, cursor |-> c.cursor, drag |-> NoDrag]
      BY <1>1, <3>1, NothingAdded
    <3>3. ResetDrag(c) = [slots |-> c.slots, cursor |-> c.cursor, drag |-> NoDrag]
      BY <1>1 DEF ResetDrag
    <3> QED
      BY <1>3, <2>1, <2>3, <2>5, <3>2, <3>3
  <2> QED
    BY <1>2, <2>4, <2>5
<1> QED
  BY <1>4, <1>5

\* A drag that is opened or covers one slot more.
LEMMA DragIs ==
  ASSUME NEW n \in Nat, NEW c \in Boxes(n), NEW drag \in Drags(n), ~drag.open => drag = NoDrag
  PROVE  LET d == [c EXCEPT !.drag = drag]
         IN  /\ d \in Boxes(n) /\ d.slots = c.slots /\ d.cursor = c.cursor /\ d.drag = drag
             /\ \A kind \in Kinds : Items(d, kind) = Items(c, kind)
<1> DEFINE d == [slots |-> c.slots, cursor |-> c.cursor, drag |-> drag]
<1>1. /\ c = [slots |-> c.slots, cursor |-> c.cursor, drag |-> c.drag]
      /\ c.slots \in [1 .. n -> StacksOrEmpty] /\ c.cursor \in StacksOrEmpty
  BY BoxIs
<1>2. [c EXCEPT !.drag = drag] = d
  BY <1>1
<1>3. d \in Boxes(n)
  BY <1>1, BoxOf
<1>4. d.slots = c.slots /\ d.cursor = c.cursor /\ d.drag = drag
  OBVIOUS
<1> HIDE DEF d
<1>5. \A kind \in Kinds : Items(d, kind) = Items(c, kind)
  BY <1>4 DEF Items
<1> QED
  BY <1>2, <1>3, <1>4, <1>5

\* One slot more under the drag.
Covered(c, s) ==
  [slots |-> c.slots, cursor |-> c.cursor,
   drag |-> [open |-> c.drag.open, share |-> c.drag.share, over |-> c.drag.over \cup {s}]]

LEMMA CoverIs ==
  ASSUME NEW n \in Nat, NEW c \in Boxes(n), NEW s \in 1 .. n
  PROVE  /\ c.drag.open => Covered(c, s) \in Boxes(n)
         /\ Covered(c, s).slots = c.slots /\ Covered(c, s).cursor = c.cursor
         /\ Covered(c, s).drag.over = c.drag.over \cup {s} /\ Covered(c, s).drag.open = c.drag.open
         /\ \A kind \in Kinds : Items(Covered(c, s), kind) = Items(c, kind)
<1> DEFINE more == [open |-> c.drag.open, share |-> c.drag.share, over |-> c.drag.over \cup {s}]
           d == [slots |-> c.slots, cursor |-> c.cursor, drag |-> more]
<1>1. /\ c.drag \in Drags(n) /\ c.slots \in [1 .. n -> StacksOrEmpty] /\ c.cursor \in StacksOrEmpty
  BY BoxIs
<1>2. more \in Drags(n) /\ more.open = c.drag.open /\ more.over = c.drag.over \cup {s}
  BY <1>1 DEF Drags
<1>3. Covered(c, s) = d
  BY DEF Covered
<1> HIDE DEF more
<1>4. d.slots = c.slots /\ d.cursor = c.cursor /\ d.drag = more
  OBVIOUS
<1>5. c.drag.open => d \in Boxes(n)
  <2>1. SUFFICES ASSUME c.drag.open PROVE d \in Boxes(n)
    OBVIOUS
  <2>2. ~more.open => more = NoDrag
    BY <1>2, <2>1
  <2> QED
    BY <1>1, <1>2, <2>2, BoxOf
<1> HIDE DEF d
<1>6. \A kind \in Kinds : Items(d, kind) = Items(c, kind)
  BY <1>4 DEF Items
<1> QED
  BY <1>2, <1>3, <1>4, <1>5, <1>6

\* What the session makes of a click on its window: a container still, with no
\* item more, and no drag over a slot that refuses the stack.
LEMMA PredictIs ==
  ASSUME NEW n \in Nat, NEW m \in Nat, NEW c \in Boxes(n), NEW k \in ClicksOn(m)
  PROVE  /\ PredictClick(c, k) \in Boxes(n)
         /\ ~Undercut(c) => /\ ~Undercut(PredictClick(c, k))
                            /\ \A kind \in Kinds : Items(PredictClick(c, k), kind) <= Items(c, kind)
<1> DEFINE d == PredictClick(c, k)
<1>1. /\ k.mode \in Modes /\ k.slot \in 0 .. m /\ k.button \in Buttons /\ k.share \in Shares
  BY ClickIs
<1>2. c.drag.open \in BOOLEAN /\ DOMAIN c.slots = 1 .. n /\ (~c.drag.open => c.drag = NoDrag)
  BY BoxIs
<1>3. /\ c \in Boxes(n)
      /\ ~Undercut(c) => ~Undercut(c) /\ \A kind \in Kinds : Items(c, kind) <= Items(c, kind)
  <2>1. \A kind \in Kinds : Items(c, kind) \in Int
    BY ItemsAre
  <2> QED
    BY <2>1
<1>4. /\ ResetDrag(c) \in Boxes(n) /\ ~Undercut(ResetDrag(c))
      /\ \A kind \in Kinds : Items(ResetDrag(c), kind) <= Items(c, kind)
  <2>1. /\ ResetDrag(c) \in Boxes(n) /\ ResetDrag(c).drag = NoDrag
        /\ \A kind \in Kinds : Items(ResetDrag(c), kind) = Items(c, kind)
    BY ResetIs DEF Items
  <2>2. \A kind \in Kinds : Items(c, kind) \in Int
    BY ItemsAre
  <2> QED
    BY <2>1, <2>2 DEF Undercut, NoDrag
<1>5. \A e \in Boxes(n) : e.drag.open = FALSE => ~Undercut(e)
  BY DEF Undercut
<1>6. CASE k.mode \in {"begin", "cover", "finish"}
  <2>1. d = PredictDrag(c, k)
    BY <1>6 DEF PredictClick
  <2>2. CASE c.cursor = Empty \/ c.drag.open # (k.mode # "begin")
    BY <1>4, <2>1, <2>2 DEF PredictDrag
  <2>3. CASE ~ (c.cursor = Empty \/ c.drag.open # (k.mode # "begin"))
    <3>1. CASE k.mode = "begin"
      <4>1. d = [c EXCEPT !.drag = BeginDrag(k.share)]
        BY <2>1, <2>3, <3>1 DEF PredictDrag
      <4>2. /\ BeginDrag(k.share) \in Drags(n) /\ BeginDrag(k.share).open
            /\ BeginDrag(k.share).over = {}
        BY <1>1, DragsAre
      <4>3. /\ d \in Boxes(n) /\ d.drag = BeginDrag(k.share)
            /\ \A kind \in Kinds : Items(d, kind) = Items(c, kind)
        BY <4>1, <4>2, DragIs
      <4>4. ~Undercut(d)
        BY <4>2, <4>3 DEF Undercut
      <4>5. \A kind \in Kinds : Items(c, kind) \in Int
        BY ItemsAre
      <4> QED
        BY <4>3, <4>4, <4>5
    <3>2. CASE k.mode = "cover"
      <4>1. CASE /\ Carried(c, k.slot)
                 /\ CanAddItemToSlot(c.slots[k.slot], c.cursor)
                 /\ c.cursor.count > Cardinality(c.drag.over)
        <5>1. d = [c EXCEPT !.drag.over = @ \cup {k.slot}]
          BY <2>1, <2>3, <3>2, <4>1 DEF PredictDrag
        <5>2. k.slot \in 1 .. n /\ c.drag.open
          BY <1>2, <2>3, <3>2, <4>1 DEF Carried
        <5>3. /\ d \in Boxes(n) /\ d.slots = c.slots /\ d.cursor = c.cursor
              /\ d.drag.over = c.drag.over \cup {k.slot} /\ d.drag.open = c.drag.open
              /\ \A kind \in Kinds : Items(d, kind) = Items(c, kind)
          <6>1. d = Covered(c, k.slot)
            <7>1. PICK e : e = [c EXCEPT !.drag.over = @ \cup {k.slot}]
              OBVIOUS
            <7>2. c \in Containers(1 .. n)
              BY BoxIs
            <7>3. e = Covered(c, k.slot)
              BY <7>1, <7>2 DEF Containers, Covered
            <7> QED
              BY <5>1, <7>1, <7>3
          <6>2. /\ c.drag.open => Covered(c, k.slot) \in Boxes(n)
                /\ Covered(c, k.slot).slots = c.slots /\ Covered(c, k.slot).cursor = c.cursor
                /\ Covered(c, k.slot).drag.over = c.drag.over \cup {k.slot}
                /\ Covered(c, k.slot).drag.open = c.drag.open
                /\ \A kind \in Kinds : Items(Covered(c, k.slot), kind) = Items(c, kind)
            <7> HIDE DEF d
            <7>1. k.slot \in 1 .. n
              BY <5>2
            <7> QED
              <8>1. c.drag.open => Covered(c, k.slot) \in Boxes(n)
                BY <7>1, CoverIs
              <8>2. Covered(c, k.slot).slots = c.slots /\ Covered(c, k.slot).cursor = c.cursor
                BY <7>1, CoverIs
              <8>3. Covered(c, k.slot).drag.over = c.drag.over \cup {k.slot}
                BY <7>1, CoverIs
              <8>4. Covered(c, k.slot).drag.open = c.drag.open
                BY <7>1, CoverIs
              <8>5. \A kind \in Kinds : Items(Covered(c, k.slot), kind) = Items(c, kind)
                BY <7>1, CoverIs
              <8> QED
                BY <8>1, <8>2, <8>3, <8>4, <8>5
          <6> HIDE DEF d
          <6> QED
            BY <5>2, <6>1, <6>2
        <5>4. ~Undercut(c) => ~Undercut(d)
          BY <4>1, <5>2, <5>3 DEF Undercut
        <5>5. \A kind \in Kinds : Items(c, kind) \in Int
          BY ItemsAre
        <5> QED
          BY <5>3, <5>4, <5>5
      <4>2. CASE ~ (/\ Carried(c, k.slot)
                    /\ CanAddItemToSlot(c.slots[k.slot], c.cursor)
                    /\ c.cursor.count > Cardinality(c.drag.over))
        <5>1. d = c
          BY <2>1, <2>3, <3>2, <4>2 DEF PredictDrag
        <5> QED
          BY <1>3, <5>1
      <4> QED
        BY <4>1, <4>2
    <3>3. CASE k.mode = "finish"
      <4>1. d = ResetDrag(IF c.drag.over = {} THEN c ELSE FinishDrag(c)) /\ c.drag.open
        BY <1>2, <2>1, <2>3, <3>3 DEF PredictDrag
      <4>2. CASE c.drag.over = {}
        BY <1>4, <4>1, <4>2
      <4>3. CASE c.drag.over # {}
        <5>1. d = ResetDrag(FinishDrag(c))
          BY <4>1, <4>3
        <5>2. /\ d \in Boxes(n)
              /\ ~Undercut(c) => \A kind \in Kinds : Items(d, kind) <= Items(c, kind)
          BY <2>3, <4>1, <4>3, <5>1, FinishDragIs
        <5>3. d.drag.open = FALSE
          <6>1. d.drag = NoDrag \/ ~("drag" \in DOMAIN d)
            BY <5>1 DEF ResetDrag
          <6>2. "drag" \in DOMAIN d
            <7>1. d = [slots |-> d.slots, cursor |-> d.cursor, drag |-> d.drag]
              BY <5>2, BoxIs
            <7> HIDE DEF d
            <7> QED
              BY <7>1
          <6> QED
            BY <6>1, <6>2 DEF NoDrag
        <5> QED
          BY <1>5, <5>2, <5>3
      <4> QED
        BY <4>2, <4>3
    <3> QED
      BY <1>6, <3>1, <3>2, <3>3
  <2> QED
    BY <2>2, <2>3
<1>7. CASE k.mode \in {"pickup", "drop"} /\ c.drag.open
  BY <1>4, <1>7 DEF PredictClick
<1>8. CASE k.mode \in {"pickup", "drop"} /\ ~c.drag.open
  <2>1. CASE k.mode = "pickup" /\ k.slot = NoSlot
    <3>1. d = Throw(c, k.button)
      BY <1>1, <1>8, <2>1, ThrowPredicted DEF PredictClick
    <3>2. d.drag = c.drag
      BY <3>1, BoxIs DEF Throw
    <3>3. d.drag.open = FALSE
      BY <1>2, <1>8, <3>2
    <3> QED
      BY <1>1, <1>5, <3>1, <3>3, ThrowIs
  <2>2. CASE ~ (k.mode = "pickup" /\ k.slot = NoSlot) /\ ~Carried(c, k.slot)
    <3>1. d = c
      BY <1>8, <2>2 DEF PredictClick
    <3> QED
      BY <1>3, <3>1
  <2>3. CASE ~ (k.mode = "pickup" /\ k.slot = NoSlot) /\ Carried(c, k.slot)
    <3>1. k.slot \in 1 .. n
      BY <1>2, <2>3 DEF Carried
    <3>2. CASE k.mode = "pickup"
      <4>1. d = Pickup(c, k.slot, k.button)
        <5>1. d = PredictPickup(c, k.slot, k.button)
          BY <1>8, <2>3, <3>2 DEF PredictClick
        <5> QED
          BY <1>1, <3>1, <5>1, PickupPredicted
      <4>2. PICK stack \in StacksOrEmpty, cursor \in StacksOrEmpty : d = Trade(c, k.slot, stack, cursor)
        BY <1>1, <3>1, <4>1, PickupTrades
      <4>3. d.drag.open = FALSE
        BY <1>2, <1>8, <4>2 DEF Trade
      <4> QED
        BY <1>1, <1>5, <3>1, <4>1, <4>3, PickupIs
    <3>3. CASE k.mode = "drop"
      <4>1. d = Drop(c, k.slot, k.button)
        <5>1. d = PredictDrop(c, k.slot, k.button)
          BY <1>8, <2>3, <3>3 DEF PredictClick
        <5> QED
          BY <1>1, <3>1, <5>1, DropPredicted
      <4>2. d.drag.open = FALSE
        <5>1. d = c \/ \E stack \in StacksOrEmpty : d = Trade(c, k.slot, stack, c.cursor)
          BY <1>1, <3>1, <4>1, DropTrades
        <5> QED
          BY <1>2, <1>8, <5>1 DEF Trade
      <4> QED
        BY <1>1, <1>5, <3>1, <4>1, <4>2, DropIs
    <3> QED
      BY <1>8, <3>2, <3>3
  <2> QED
    BY <2>1, <2>2, <2>3
<1> QED
  BY <1>1, <1>2, <1>6, <1>7, <1>8 DEF Modes

\* What the server makes of a click on its window.
LEMMA SlotClickIs ==
  ASSUME NEW n \in Nat, NEW c \in Boxes(n), NEW k \in ClicksOn(n)
  PROVE  /\ SlotClick(c, k) \in Boxes(n)
         /\ \A kind \in Kinds : Items(SlotClick(c, k), kind) <= Items(c, kind)
<1>1. /\ k.mode \in Modes /\ k.slot \in 0 .. n /\ k.button \in Buttons /\ k.share \in Shares
      /\ k.slot # NoSlot => k.slot \in 1 .. n
      /\ k.mode \in {"cover", "drop"} => k.slot \in 1 .. n
  BY ClickIs
<1>2. \A kind \in Kinds : Items(c, kind) \in Int
  BY ItemsAre
<1>3. /\ [c EXCEPT !.drag = NoDrag] \in Boxes(n)
      /\ \A kind \in Kinds : Items([c EXCEPT !.drag = NoDrag], kind) <= Items(c, kind)
  <2>1. ResetDrag(c) \in Boxes(n) /\ \A kind \in Kinds : Items(ResetDrag(c), kind) = Items(c, kind)
    BY ResetIs DEF Items
  <2>2. ResetDrag(c) = [c EXCEPT !.drag = NoDrag]
    BY DEF ResetDrag
  <2> QED
    BY <1>2, <2>1, <2>2
<1>4. CASE k.mode = "begin"
  <2>1. SlotClick(c, k) = Begin(c, k.share)
    BY <1>4 DEF SlotClick
  <2>2. CASE c.cursor # Empty /\ ~c.drag.open
    <3>1. Begin(c, k.share) = [c EXCEPT !.drag = BeginDrag(k.share)]
      BY <2>2 DEF Begin
    <3>2. BeginDrag(k.share) \in Drags(n) /\ BeginDrag(k.share).open
      BY <1>1, DragsAre
    <3>3. /\ Begin(c, k.share) \in Boxes(n)
          /\ \A kind \in Kinds : Items(Begin(c, k.share), kind) = Items(c, kind)
      BY <3>1, <3>2, DragIs
    <3> QED
      BY <1>2, <2>1, <3>3
  <2>3. CASE ~ (c.cursor # Empty /\ ~c.drag.open)
    BY <1>3, <2>1, <2>3 DEF Begin
  <2> QED
    BY <2>2, <2>3
<1>5. CASE k.mode = "cover"
  <2>1. SlotClick(c, k) = Cover(c, k.slot)
    BY <1>5 DEF SlotClick
  <2>2. CASE c.cursor = Empty \/ ~c.drag.open
    BY <1>3, <2>1, <2>2 DEF Cover
  <2>3. CASE /\ ~ (c.cursor = Empty \/ ~c.drag.open)
             /\ CanAddItemToSlot(c.slots[k.slot], c.cursor)
             /\ c.cursor.count > Cardinality(c.drag.over)
    <3>1. Cover(c, k.slot) = Covered(c, k.slot)
      <4>1. PICK e : e = [c EXCEPT !.drag.over = @ \cup {k.slot}]
        OBVIOUS
      <4>2. c \in Containers(1 .. n)
        BY BoxIs
      <4>3. e = Covered(c, k.slot)
        BY <4>1, <4>2 DEF Containers, Covered
      <4> QED
        BY <2>3, <4>1, <4>3 DEF Cover
    <3>2. k.slot \in 1 .. n
      BY <1>1, <1>5
    <3>3. c.drag.open => Covered(c, k.slot) \in Boxes(n)
      BY <3>2, CoverIs
    <3>4. \A kind \in Kinds : Items(Covered(c, k.slot), kind) = Items(c, kind)
      BY <3>2, CoverIs
    <3> QED
      BY <1>2, <2>1, <2>3, <3>1, <3>3, <3>4
  <2>4. CASE /\ ~ (c.cursor = Empty \/ ~c.drag.open)
             /\ ~ (/\ CanAddItemToSlot(c.slots[k.slot], c.cursor)
                   /\ c.cursor.count > Cardinality(c.drag.over))
    <3>1. Cover(c, k.slot) = c
      BY <2>4 DEF Cover
    <3> QED
      BY <1>2, <2>1, <3>1
  <2> QED
    BY <2>2, <2>3, <2>4
<1>6. CASE k.mode = "finish"
  <2>1. SlotClick(c, k) = Finish(c)
    BY <1>6 DEF SlotClick
  <2> QED
    BY <2>1, FinishIs
<1>7. CASE k.mode \in {"pickup", "drop"} /\ c.drag.open
  <2>1. SlotClick(c, k) = [c EXCEPT !.drag = NoDrag]
    BY <1>7 DEF SlotClick
  <2> QED
    BY <1>3, <2>1
<1>8. CASE k.mode = "pickup" /\ ~c.drag.open
  <2>1. SlotClick(c, k) = IF k.slot = NoSlot THEN Throw(c, k.button) ELSE Pickup(c, k.slot, k.button)
    BY <1>8 DEF SlotClick
  <2> QED
    BY <1>1, <2>1, ThrowIs, PickupIs
<1>9. CASE k.mode = "drop" /\ ~c.drag.open
  <2>1. SlotClick(c, k) = Drop(c, k.slot, k.button) /\ k.slot \in 1 .. n
    BY <1>1, <1>9 DEF SlotClick
  <2> QED
    BY <1>1, <2>1, DropIs
<1> QED
  BY <1>1, <1>4, <1>5, <1>6, <1>7, <1>8, <1>9 DEF Modes

-----------------------------------------------------------------------------
(* The types of everything, the packets on their way included.             *)

\* The packets, when so many clicks have been numbered and windows asked for.
ToServer(clicks, asked) ==
  [type : {"click"}, window : 0 .. MaxUses, click : ClicksOn(Layout), action : 1 .. clicks,
   echo : StacksOrEmpty, touches : SUBSET DeclaredSlots, read : [DeclaredSlots -> Int]]
    \cup [type : {"use"}, window : 1 .. asked] \cup [type : {"close"}, window : 0 .. MaxUses]
    \cup [type : {"apology"}, window : 0 .. MaxUses, action : 1 .. clicks]

ToClient(clicks) ==
  [type : {"confirm"}, window : 0 .. MaxUses, action : 1 .. clicks, accepted : BOOLEAN]
    \cup [type : {"items"}, window : 0 .. MaxUses, slots : [LayoutSlots -> StacksOrEmpty]]
    \cup [type : {"cursor"}, item : StacksOrEmpty]
    \cup [type : {"open", "close"}, window : 0 .. MaxUses]
    \cup [type : {"slot"}, window : 0 .. MaxUses, slot : DeclaredSlots, item : StacksOrEmpty]

WindowTypes ==
  /\ WindowTypeOK
  /\ view \in Boxes(Declared) /\ held \in Boxes(Layout)
  /\ \A s \in DeclaredSlots : sent[s] \in 0 .. changes
  /\ batch \in Seq([window : 0 .. MaxUses, click : ClicksOn(Layout)])
  /\ toServer \in Seq(ToServer(action, uses))
  /\ toClient \in Seq(ToClient(action))

LEMMA SizesAre ==
  /\ Declared \in Nat /\ Declared # 0 /\ Layout \in Nat /\ Declared <= Layout
  /\ Reach \subseteq 1 .. Layout /\ DeclaredSlots = 1 .. Declared /\ LayoutSlots = 1 .. Layout
  /\ DeclaredSlots \subseteq LayoutSlots
  /\ Chest \in [LayoutSlots -> StacksOrEmpty] /\ Changes \subseteq StacksOrEmpty
  /\ MaxGestures \in Nat /\ MaxUses \in Nat /\ MaxChanges \in Nat
BY WindowsAssumption DEF DeclaredSlots, LayoutSlots

LEMMA NoContainerIs == NoContainer \in Boxes(Declared) /\ NoContainer.drag = NoDrag
<1>1. [s \in 1 .. Declared |-> Empty] \in [1 .. Declared -> StacksOrEmpty]
  BY StackIs
<1>2. NoDrag \in Drags(Declared)
  BY DragsAre
<1> QED
  BY <1>1, <1>2, StackIs, SizesAre, BoxOf DEF NoContainer

LEMMA ChangeIs ==
  ASSUME NEW n \in Nat, NEW c \in Boxes(n)
  PROVE  /\ \A s \in 1 .. n, x \in StacksOrEmpty : [c EXCEPT !.slots[s] = x] \in Boxes(n)
         /\ \A slots \in [1 .. n -> StacksOrEmpty] : [c EXCEPT !.slots = slots] \in Boxes(n)
         /\ \A x \in StacksOrEmpty : [c EXCEPT !.cursor = x] \in Boxes(n)
         /\ Dropped(c) \in Boxes(n)
<1>1. /\ c = [slots |-> c.slots, cursor |-> c.cursor, drag |-> c.drag]
      /\ c.slots \in [1 .. n -> StacksOrEmpty] /\ c.cursor \in StacksOrEmpty
      /\ c.drag \in Drags(n) /\ (~c.drag.open => c.drag = NoDrag)
  BY BoxIs
<1>2. ASSUME NEW slots \in [1 .. n -> StacksOrEmpty] PROVE [c EXCEPT !.slots = slots] \in Boxes(n)
  <2>1. [c EXCEPT !.slots = slots] = [slots |-> slots, cursor |-> c.cursor, drag |-> c.drag]
    BY <1>1
  <2> QED
    BY <1>1, <2>1, BoxOf
<1>3. ASSUME NEW s \in 1 .. n, NEW x \in StacksOrEmpty PROVE [c EXCEPT !.slots[s] = x] \in Boxes(n)
  <2>1. [c.slots EXCEPT ![s] = x] \in [1 .. n -> StacksOrEmpty]
    BY <1>1
  <2>2. [c EXCEPT !.slots[s] = x] = [c EXCEPT !.slots = [c.slots EXCEPT ![s] = x]]
    OBVIOUS
  <2> QED
    BY <1>2, <2>1, <2>2
<1>4. ASSUME NEW x \in StacksOrEmpty PROVE [c EXCEPT !.cursor = x] \in Boxes(n)
  <2>1. [c EXCEPT !.cursor = x] = [slots |-> c.slots, cursor |-> x, drag |-> c.drag]
    BY <1>1
  <2> QED
    BY <1>1, <2>1, BoxOf
<1>5. Dropped(c) \in Boxes(n)
  <2>1. Dropped(c) = [slots |-> c.slots, cursor |-> Empty, drag |-> NoDrag]
    <3>1. PICK d : d = [c EXCEPT !.cursor = Empty, !.drag = NoDrag]
      OBVIOUS
    <3>2. d = [slots |-> c.slots, cursor |-> Empty, drag |-> NoDrag]
      BY <1>1, <3>1
    <3> QED
      BY <3>1, <3>2 DEF Dropped
  <2>2. NoDrag \in Drags(n)
    BY DragsAre
  <2> QED
    BY <1>1, <2>1, <2>2, StackIs, BoxOf
<1> QED
  BY <1>2, <1>3, <1>4, <1>5

LEMMA InitTypes == WindowInit => WindowTypes
<1> SUFFICES ASSUME WindowInit PROVE WindowTypes
  OBVIOUS
<1>1. view \in Boxes(Declared)
  BY NoContainerIs DEF WindowInit
<1>2. held \in Boxes(Layout)
  <2>1. NoDrag \in Drags(Layout)
    BY DragsAre
  <2> QED
    BY <2>1, SizesAre, StackIs, BoxOf DEF WindowInit
<1>3. view \in Containers(DeclaredSlots) /\ held \in Containers(LayoutSlots)
  BY <1>1, <1>2, BoxIs, SizesAre
<1>4. /\ sent \in [DeclaredSlots -> 0 .. MaxChanges]
      /\ \A s \in DeclaredSlots : sent[s] \in 0 .. changes
  BY SizesAre DEF WindowInit
<1>5. WindowTypeOK
  BY <1>3, <1>4, SizesAre DEF WindowInit, WindowTypeOK
<1> QED
  BY <1>1, <1>2, <1>4, <1>5 DEF WindowInit, WindowTypes

LEMMA QueuesAre ==
  ASSUME NEW S, NEW q \in Seq(S)
  PROVE  /\ \A T : S \subseteq T => q \in Seq(T)
         /\ q # <<>> => Head(q) \in S /\ Head(q) = q[1] /\ Tail(q) \in Seq(S)
         /\ \A e \in S : Append(q, e) \in Seq(S)
         /\ \A r \in Seq(S) : q \o r \in Seq(S)
<1>1. ASSUME NEW T, S \subseteq T PROVE q \in Seq(T)
  <2>1. Len(q) \in Nat /\ q \in [1 .. Len(q) -> S]
    OBVIOUS
  <2>2. q \in [1 .. Len(q) -> T]
    BY <1>1, <2>1
  <2> QED
    BY <2>1, <2>2
<1> QED
  BY <1>1

\* The packets on their way stay packets: the numbers only grow.
LEMMA PacketsStay ==
  ASSUME NEW a \in Nat, NEW b \in Nat, a <= b, NEW u \in Nat, NEW v \in Nat, u <= v
  PROVE  /\ \A q \in Seq(ToServer(a, u)) : q \in Seq(ToServer(b, v))
         /\ \A q \in Seq(ToClient(a)) : q \in Seq(ToClient(b))
<1>1. 1 .. a \subseteq 1 .. b /\ 1 .. u \subseteq 1 .. v
  OBVIOUS
<1>2. ToServer(a, u) \subseteq ToServer(b, v)
  BY <1>1 DEF ToServer
<1>3. ToClient(a) \subseteq ToClient(b)
  BY <1>1 DEF ToClient
<1> QED
  BY <1>2, <1>3, QueuesAre

LEMMA UnreadIs ==
  ASSUME WindowTypes, NEW s
  PROVE  Unread(s) \in Nat
<1>1. Len(toClient) \in Nat /\ DOMAIN toClient = 1 .. Len(toClient)
  BY DEF WindowTypes
<1> DEFINE U == {i \in DOMAIN toClient : toClient[i].type = "slot" /\ toClient[i].slot = s}
<1>2. IsFiniteSet(DOMAIN toClient)
  BY <1>1, FS_Interval
<1>3. IsFiniteSet(U)
  BY <1>2, FS_Subset
<1>4. Cardinality(U) \in Nat
  BY <1>3, FS_CardinalityType
<1> QED
  BY <1>4 DEF Unread

\* What changes the view, or the container there, leaves it one.
LEMMA ContainersAre ==
  ASSUME WindowTypes
  PROVE  /\ \A c \in Boxes(Declared) : c \in Containers(DeclaredSlots)
         /\ \A c \in Boxes(Layout) : c \in Containers(LayoutSlots)
BY BoxIs, SizesAre

LEMMA SinglesAre == SingleClicks \subseteq ClicksOn(Layout)
<1>1. \A s \in Reach : s \in 0 .. Layout /\ s # NoSlot
  BY SizesAre DEF NoSlot
<1>2. NoSlot \in 0 .. Layout
  BY SizesAre DEF NoSlot
<1> QED
  BY <1>1, <1>2 DEF SingleClicks, Click, ClicksOn, Modes, Buttons, Shares

LEMMA DragsAreClicks ==
  ASSUME NEW n \in 1 .. Cardinality(Reach), NEW share \in Shares, NEW covers \in Injection(1 .. n, Reach),
         NEW w \in 0 .. MaxUses
  PROVE  [i \in DOMAIN DragClicks(covers, share) |->
            [window |-> w, click |-> DragClicks(covers, share)[i]]]
           \in Seq([window : 0 .. MaxUses, click : ClicksOn(Layout)])
<1>1. n \in Nat
  <2>1. IsFiniteSet(1 .. Layout)
    BY SizesAre, FS_Interval
  <2>2. IsFiniteSet(Reach)
    BY <2>1, SizesAre, FS_Subset
  <2>3. Cardinality(Reach) \in Nat
    BY <2>2, FS_CardinalityType
  <2> QED
    BY <2>3
<1>2. covers \in [1 .. n -> Reach]
  BY DEF Injection, IsInjective
<1> DEFINE first == Click("begin", NoSlot, "left", share)
           middle == [i \in DOMAIN covers |-> Click("cover", covers[i], "left", share)]
           last == Click("finish", NoSlot, "left", share)
<1>3. first \in ClicksOn(Layout) /\ last \in ClicksOn(Layout)
  BY SizesAre DEF Click, ClicksOn, Modes, Buttons, NoSlot
<1>4. middle \in Seq(ClicksOn(Layout))
  <2>1. \A i \in 1 .. n : covers[i] \in 0 .. Layout /\ covers[i] # NoSlot
    <3>1. \A s \in Reach : s \in 0 .. Layout /\ s # NoSlot
      BY SizesAre DEF NoSlot
    <3>2. \A i \in 1 .. n : covers[i] \in Reach
      BY <1>2
    <3> QED
      BY <3>1, <3>2
  <2>2. \A i \in 1 .. n : Click("cover", covers[i], "left", share) \in ClicksOn(Layout)
    BY <2>1 DEF Click, ClicksOn, Modes, Buttons
  <2>3. middle \in [1 .. n -> ClicksOn(Layout)]
    BY <1>2, <2>2
  <2> QED
    BY <1>1, <2>3
<1> DEFINE clicks == <<first>> \o middle \o <<last>>
<1>5. DragClicks(covers, share) = clicks
  BY DEF DragClicks
<1> HIDE DEF first, middle, last
<1>6. clicks \in Seq(ClicksOn(Layout))
  BY <1>3, <1>4
<1> HIDE DEF clicks
<1>7. Len(clicks) \in Nat /\ DOMAIN clicks = 1 .. Len(clicks) /\ \A i \in 1 .. Len(clicks) : clicks[i] \in ClicksOn(Layout)
  BY <1>6
<1>8. [i \in DOMAIN clicks |-> [window |-> w, click |-> clicks[i]]]
        \in [1 .. Len(clicks) -> [window : 0 .. MaxUses, click : ClicksOn(Layout)]]
  BY <1>7
<1>9. [i \in DOMAIN clicks |-> [window |-> w, click |-> clicks[i]]]
        \in Seq([window : 0 .. MaxUses, click : ClicksOn(Layout)])
  BY <1>7, <1>8
<1> QED
  BY <1>5, <1>9

\* A click leaves the session a container and sends a packet.
LEMMA ClicksTypes ==
  ASSUME WindowTypes, NEW click \in ClicksOn(Layout), Clicks(click)
  PROVE  /\ view' \in Boxes(Declared) /\ action' = action + 1
         /\ toServer' \in Seq(ToServer(action', uses)) /\ apart' \in SUBSET {"resync", "beyond", "cut", "undercut", "crossed"}
         /\ open' = open /\ toClient' = toClient /\ sent' = sent
<1>1. view' = PredictClick(view, click) /\ action' = action + 1
  BY DEF Clicks
<1>2. view \in Boxes(Declared) /\ action \in Nat /\ uses \in Nat /\ open \in 0 .. MaxUses
  BY SizesAre DEF WindowTypes, WindowTypeOK
<1>3. view' \in Boxes(Declared)
  BY <1>1, <1>2, SizesAre, PredictIs
<1> DEFINE touches == view.drag.over \cup ({click.slot} \cap DeclaredSlots)
           read == [s \in DeclaredSlots |-> sent[s] - Unread(s)]
           m == [type |-> "click", window |-> open, click |-> click, action |-> action',
                 echo |-> Echo(view, click), touches |-> touches, read |-> read]
<1>4. touches \in SUBSET DeclaredSlots
  BY <1>2, BoxIs, SizesAre
<1>5. read \in [DeclaredSlots -> Int]
  <2>1. \A s \in DeclaredSlots : Unread(s) \in Nat
    BY UnreadIs
  <2>2. \A s \in DeclaredSlots : sent[s] \in Nat
    BY SizesAre DEF WindowTypes, WindowTypeOK
  <2> QED
    BY <2>1, <2>2
<1>6. Echo(view, click) \in StacksOrEmpty
  <2>1. DOMAIN view.slots = 1 .. Declared /\ view.slots \in [1 .. Declared -> StacksOrEmpty]
    BY <1>2, BoxIs
  <2> QED
    BY <2>1, StackIs DEF Echo, Carried
<1>7. toServer' = Append(toServer, m)
  BY DEF Clicks
<1> HIDE DEF touches, read
<1>8. m \in ToServer(action', uses)
  BY <1>1, <1>2, <1>4, <1>5, <1>6 DEF ToServer
<1> HIDE DEF m
<1>9. toServer \in Seq(ToServer(action', uses))
  BY <1>1, <1>2, PacketsStay DEF WindowTypes
<1>10. toServer' \in Seq(ToServer(action', uses))
  BY <1>7, <1>8, <1>9, QueuesAre
<1>11. apart' \in SUBSET {"resync", "beyond", "cut", "undercut", "crossed"}
  BY DEF Clicks, WindowTypes, WindowTypeOK
<1> QED
  BY <1>1, <1>3, <1>10, <1>11 DEF Clicks

LEMMA PlayerTypes == WindowTypes /\ (Player \/ ClickOfDrag) => WindowTypes'
<1> SUFFICES ASSUME WindowTypes, Player \/ ClickOfDrag PROVE WindowTypes'
  OBVIOUS
<1>1. /\ view \in Boxes(Declared) /\ held \in Boxes(Layout) /\ action \in Nat /\ uses \in Nat
      /\ open \in 0 .. MaxUses /\ WindowTypeOK
      /\ batch \in Seq([window : 0 .. MaxUses, click : ClicksOn(Layout)])
      /\ toServer \in Seq(ToServer(action, uses)) /\ toClient \in Seq(ToClient(action))
      /\ gestures \in Nat /\ MaxGestures \in Nat /\ MaxUses \in Nat
  BY SizesAre DEF WindowTypes, WindowTypeOK
<1>2. ASSUME NEW click \in ClicksOn(Layout), Clicks(click),
             UNCHANGED <<server, uses, changes>>, gestures' \in 0 .. MaxGestures,
             batch' \in Seq([window : 0 .. MaxUses, click : ClicksOn(Layout)])
      PROVE  WindowTypes'
  <2>1. /\ view' \in Boxes(Declared) /\ action' = action + 1
        /\ toServer' \in Seq(ToServer(action', uses)) /\ open' = open /\ toClient' = toClient /\ sent' = sent
        /\ apart' \in SUBSET {"resync", "beyond", "cut", "undercut", "crossed"}
    BY <1>2, ClicksTypes
  <2>2. toClient' \in Seq(ToClient(action'))
    BY <1>1, <2>1, PacketsStay
  <2>3. view' \in Containers(DeclaredSlots) /\ held' = held /\ uses' = uses /\ changes' = changes
        /\ serving' = serving /\ locked' = locked
    BY <1>2, <2>1, ContainersAre DEF server
  <2>4. locked' \in 0 .. action'
    BY <1>1, <2>1, <2>3 DEF WindowTypeOK
  <2>5. WindowTypeOK'
    BY <1>1, <1>2, <2>1, <2>3, <2>4 DEF WindowTypeOK
  <2> QED
    BY <1>2, <2>1, <2>2, <2>3, <2>5 DEF WindowTypes
<1>3. CASE ClickSingle
  <2>1. PICK click \in SingleClicks : Clicks(click)
    BY <1>3 DEF ClickSingle
  <2>2. click \in ClicksOn(Layout)
    BY SinglesAre
  <2>3. gestures' \in 0 .. MaxGestures /\ batch' = batch /\ UNCHANGED <<server, uses, changes>>
    BY <1>1, <1>3 DEF ClickSingle
  <2> QED
    BY <1>1, <1>2, <2>1, <2>2, <2>3
<1>4. CASE LetGoOfDrag
  <2>1. batch' \in Seq([window : 0 .. MaxUses, click : ClicksOn(Layout)])
    <3>1. PICK n \in 1 .. Cardinality(Reach), share \in Shares :
            \E covers \in Injection(1 .. n, Reach) :
              batch' = [i \in DOMAIN DragClicks(covers, share) |->
                          [window |-> open, click |-> DragClicks(covers, share)[i]]]
      BY <1>4 DEF LetGoOfDrag
    <3>2. PICK covers \in Injection(1 .. n, Reach) :
              batch' = [i \in DOMAIN DragClicks(covers, share) |->
                          [window |-> open, click |-> DragClicks(covers, share)[i]]]
      BY <3>1
    <3>3. [i \in DOMAIN DragClicks(covers, share) |->
             [window |-> open, click |-> DragClicks(covers, share)[i]]]
            \in Seq([window : 0 .. MaxUses, click : ClicksOn(Layout)])
      BY <1>1, DragsAreClicks
    <3> QED
      BY <3>2, <3>3
  <2>2. gestures' \in 0 .. MaxGestures
    BY <1>1, <1>4 DEF LetGoOfDrag
  <2> QED
    BY <1>4, <2>1, <2>2 DEF LetGoOfDrag, WindowTypes, WindowTypeOK, server, history
<1>5. CASE CloseWindow
  <2>1. view' \in Boxes(Declared) /\ view' \in Containers(DeclaredSlots) /\ open' \in 0 .. MaxUses
    BY <1>1, <1>5, NoContainerIs, ContainersAre DEF CloseWindow, Shut
  <2>2. [type |-> "close", window |-> open] \in ToServer(action, uses)
    BY <1>1 DEF ToServer
  <2>3. toServer' \in Seq(ToServer(action, uses))
    BY <1>1, <1>5, <2>2, QueuesAre DEF CloseWindow
  <2> QED
    BY <1>5, <2>1, <2>3 DEF CloseWindow, WindowTypes, WindowTypeOK, server, bounds, history
<1>6. CASE UseBlock
  <2>1. uses' = uses + 1 /\ uses' \in 0 .. MaxUses /\ uses' \in Nat
    BY <1>1, <1>6 DEF UseBlock
  <2>2. toServer \in Seq(ToServer(action, uses'))
    BY <1>1, <2>1, PacketsStay
  <2>3. [type |-> "use", window |-> uses'] \in ToServer(action, uses')
    BY <1>1, <2>1 DEF ToServer
  <2>4. toServer' \in Seq(ToServer(action, uses'))
    BY <1>6, <2>2, <2>3, QueuesAre DEF UseBlock
  <2> QED
    BY <1>6, <2>1, <2>4 DEF UseBlock, WindowTypes, WindowTypeOK, client, server, history
<1>7. CASE ClickOfDrag
  <2>1. /\ Head(batch) \in [window : 0 .. MaxUses, click : ClicksOn(Layout)]
        /\ batch' \in Seq([window : 0 .. MaxUses, click : ClicksOn(Layout)])
    BY <1>1, <1>7, QueuesAre DEF ClickOfDrag
  <2>2. gestures' \in 0 .. MaxGestures /\ UNCHANGED <<server, uses, changes>>
    BY <1>1, <1>7 DEF ClickOfDrag, bounds, WindowTypeOK
  <2>3. CASE Clicks(Head(batch).click)
    BY <1>2, <2>1, <2>2, <2>3
  <2>4. CASE UNCHANGED <<open, view, action, toServer, toClient, history>>
    BY <1>7, <2>1, <2>4 DEF ClickOfDrag, WindowTypes, WindowTypeOK, server, bounds, history
  <2> QED
    BY <1>7, <2>3, <2>4 DEF ClickOfDrag
<1> QED
  BY <1>3, <1>4, <1>5, <1>6, <1>7 DEF Player

LEMMA PacketTypes == WindowTypes /\ Packet => WindowTypes'
<1> SUFFICES ASSUME WindowTypes, Packet PROVE WindowTypes'
  OBVIOUS
<1>1. /\ view \in Boxes(Declared) /\ held \in Boxes(Layout) /\ action \in Nat /\ uses \in Nat
      /\ open \in 0 .. MaxUses /\ WindowTypeOK
      /\ toServer \in Seq(ToServer(action, uses)) /\ toClient \in Seq(ToClient(action))
      /\ MaxUses \in Nat /\ DeclaredSlots = 1 .. Declared /\ LayoutSlots = 1 .. Layout /\ Declared <= Layout
      /\ Declared \in Nat /\ Layout \in Nat
  BY SizesAre DEF WindowTypes, WindowTypeOK
<1> DEFINE m == Head(toClient)
<1>2. toClient # <<>> /\ toClient' = Tail(toClient)
  BY DEF Packet, OpenWindow, SetSlot, SetCursor, WindowItems, ConfirmTransaction, WindowClosed, Reads
<1>3. m \in ToClient(action) /\ toClient' \in Seq(ToClient(action))
  BY <1>1, <1>2, QueuesAre
<1>4. /\ m.type = "open" => m.window \in 0 .. MaxUses
      /\ m.type = "slot" => m.slot \in DeclaredSlots /\ m.item \in StacksOrEmpty
      /\ m.type = "cursor" => m.item \in StacksOrEmpty
      /\ m.type = "items" => m.slots \in [LayoutSlots -> StacksOrEmpty]
      /\ m.type = "confirm" => m.window \in 0 .. MaxUses /\ m.action \in 1 .. action
  BY <1>3 DEF ToClient
<1>5. ASSUME view' \in Boxes(Declared), open' \in 0 .. MaxUses,
             UNCHANGED <<action, batch, server, toServer, bounds, sent>>,
             apart' \in SUBSET {"resync", "beyond", "cut", "undercut", "crossed"}
      PROVE  WindowTypes'
  <2>1. view' \in Containers(DeclaredSlots)
    BY <1>5, ContainersAre
  <2> QED
    BY <1>3, <1>5, <2>1 DEF WindowTypes, WindowTypeOK, server, bounds
<1>6. apart \in SUBSET {"resync", "beyond", "cut", "undercut", "crossed"}
  BY <1>1 DEF WindowTypeOK
<1>7. \A cut : Notes(cut) => apart' \in SUBSET {"resync", "beyond", "cut", "undercut", "crossed"}
  BY <1>6 DEF Notes
<1>8. CASE OpenWindow
  <2>1. m.type = "open" /\ open' = m.window /\ view' = [NoContainer EXCEPT !.cursor = view.cursor]
    BY <1>8 DEF OpenWindow, Reads
  <2>2. view' \in Boxes(Declared)
    <3>1. view.cursor \in StacksOrEmpty
      BY <1>1, BoxIs
    <3> QED
      BY <1>1, <2>1, <3>1, NoContainerIs, ChangeIs
  <2> QED
    BY <1>4, <1>5, <1>6, <1>8, <2>1, <2>2 DEF OpenWindow, history
<1>9. CASE SetSlot
  <2>1. m.type = "slot" /\ Notes(FALSE)
        /\ view' = IF m.window = open /\ Carried(view, m.slot)
                   THEN [view EXCEPT !.slots[m.slot] = m.item] ELSE view
    BY <1>9 DEF SetSlot, Reads
  <2>2. view' \in Boxes(Declared)
    BY <1>1, <1>4, <2>1, ChangeIs
  <2> QED
    BY <1>1, <1>5, <1>7, <1>9, <2>1, <2>2 DEF SetSlot
<1>10. CASE SetCursor
  <2>1. m.type = "cursor" /\ Notes(TRUE) /\ view' = [view EXCEPT !.cursor = m.item]
    BY <1>10 DEF SetCursor, Reads
  <2>2. view' \in Boxes(Declared)
    BY <1>1, <1>4, <2>1, ChangeIs
  <2> QED
    BY <1>1, <1>5, <1>7, <1>10, <2>1, <2>2 DEF SetCursor
<1>11. CASE WindowItems
  <2>1. m.type = "items" /\ Notes(TRUE)
        /\ view' = IF m.window = open
                   THEN [view EXCEPT !.slots = [s \in DOMAIN view.slots |-> m.slots[s]]] ELSE view
    BY <1>11 DEF WindowItems, Reads
  <2>2. [s \in DOMAIN view.slots |-> m.slots[s]] \in [1 .. Declared -> StacksOrEmpty]
    <3>1. DOMAIN view.slots = 1 .. Declared /\ \A s \in 1 .. Declared : s \in LayoutSlots
      BY <1>1, BoxIs
    <3> QED
      BY <1>4, <2>1, <3>1
  <2>3. view' \in Boxes(Declared)
    BY <1>1, <2>1, <2>2, ChangeIs
  <2> QED
    BY <1>1, <1>5, <1>7, <1>11, <2>1, <2>3 DEF WindowItems
<1>12. CASE ConfirmTransaction
  <2>1. m.type = "confirm"
        /\ toServer' = IF ~m.accepted /\ m.window = open
                       THEN Append(toServer, [type |-> "apology", window |-> m.window, action |-> m.action])
                       ELSE toServer
    BY <1>12 DEF ConfirmTransaction, Reads
  <2>2. [type |-> "apology", window |-> m.window, action |-> m.action] \in ToServer(action, uses)
    BY <1>4, <2>1 DEF ToServer
  <2>3. toServer' \in Seq(ToServer(action, uses))
    BY <1>1, <2>1, <2>2, QueuesAre
  <2> QED
    BY <1>3, <1>12, <2>3 DEF ConfirmTransaction, WindowTypes, WindowTypeOK, client, server, bounds, history
<1>13. CASE WindowClosed
  <2>1. view' \in Boxes(Declared) /\ open' \in 0 .. MaxUses
    BY <1>1, <1>13, NoContainerIs DEF WindowClosed, Shut
  <2> QED
    BY <1>5, <1>6, <1>13, <2>1 DEF WindowClosed, history
<1> QED
  BY <1>8, <1>9, <1>10, <1>11, <1>12, <1>13 DEF Packet

LEMMA ServerTypes == WindowTypes /\ (ServerHears \/ ServerActs) => WindowTypes'
<1> SUFFICES ASSUME WindowTypes, ServerHears \/ ServerActs PROVE WindowTypes'
  OBVIOUS
<1>1. /\ view \in Boxes(Declared) /\ held \in Boxes(Layout) /\ action \in Nat /\ uses \in 0 .. MaxUses
      /\ serving \in 0 .. MaxUses /\ WindowTypeOK /\ locked \in 0 .. action
      /\ toServer \in Seq(ToServer(action, uses)) /\ toClient \in Seq(ToClient(action))
      /\ MaxUses \in Nat /\ changes \in Nat /\ MaxChanges \in Nat
      /\ apart \in SUBSET {"resync", "beyond", "cut", "undercut", "crossed"}
  BY SizesAre DEF WindowTypes, WindowTypeOK
<1> DEFINE m == Head(toServer)
<1>2. toServer # <<>> => m \in ToServer(action, uses) /\ Tail(toServer) \in Seq(ToServer(action, uses))
  BY <1>1, QueuesAre
<1>3. /\ m \in ToServer(action, uses) /\ m.type = "click"
           => m.window \in 0 .. MaxUses /\ m.action \in 1 .. action /\ m.click \in ClicksOn(Layout)
      /\ m \in ToServer(action, uses) /\ m.type = "use" => m.window \in 1 .. uses
  BY DEF ToServer
<1>4. ASSUME held' \in Boxes(Layout), serving' \in 0 .. MaxUses, locked' \in 0 .. action,
             UNCHANGED <<client, gestures, uses, sent>>, changes' \in changes .. MaxChanges,
             toServer' \in Seq(ToServer(action, uses)), toClient' \in Seq(ToClient(action)),
             apart' \in SUBSET {"resync", "beyond", "cut", "undercut", "crossed"}
      PROVE  WindowTypes'
  <2>1. held' \in Containers(LayoutSlots)
    BY <1>4, ContainersAre
  <2>2. \A s \in DeclaredSlots : sent[s] \in 0 .. changes'
    BY <1>1, <1>4 DEF WindowTypes
  <2>3. changes' \in 0 .. MaxChanges
    BY <1>1, <1>4
  <2> QED
    BY <1>4, <2>1, <2>2, <2>3 DEF WindowTypes, WindowTypeOK, client
<1>5. Dropped(held) \in Boxes(Layout)
  BY <1>1, ChangeIs, SizesAre
<1>6. changes \in changes .. MaxChanges
  BY <1>1 DEF WindowTypeOK
<1>7. \A w \in 0 .. MaxUses, c \in Boxes(Layout) :
        /\ Whole(w, c) \in Seq(ToClient(action))
        /\ <<[type |-> "open", window |-> w]>> \in Seq(ToClient(action))
        /\ <<[type |-> "close", window |-> w]>> \in Seq(ToClient(action))
        /\ <<>> \in Seq(ToClient(action))
  <2>1. ASSUME NEW w \in 0 .. MaxUses, NEW c \in Boxes(Layout)
        PROVE  Whole(w, c) \in Seq(ToClient(action))
    <3>1. c.slots \in [LayoutSlots -> StacksOrEmpty] /\ c.cursor \in StacksOrEmpty
      BY BoxIs, SizesAre
    <3>2. /\ [type |-> "items", window |-> w, slots |-> c.slots] \in ToClient(action)
          /\ [type |-> "cursor", item |-> c.cursor] \in ToClient(action)
      BY <3>1 DEF ToClient
    <3> QED
      BY <3>2 DEF Whole
  <2>2. ASSUME NEW w \in 0 .. MaxUses
        PROVE  /\ [type |-> "open", window |-> w] \in ToClient(action)
               /\ [type |-> "close", window |-> w] \in ToClient(action)
    BY DEF ToClient
  <2> QED
    BY <2>1, <2>2
<1>8. CASE ServerRunsClick
  <2> DEFINE accepted == Carrier(held, m.click) = m.echo
             confirm == [type |-> "confirm", window |-> m.window, action |-> m.action, accepted |-> accepted]
             news == <<confirm>> \o (IF accepted THEN <<>> ELSE Whole(serving, held'))
  <2>1. m \in ToServer(action, uses) /\ m.type = "click" /\ toServer' \in Seq(ToServer(action, uses))
    BY <1>2, <1>8 DEF ServerRunsClick, Hears
  <2>2. /\ held' = SlotClick(held, m.click)
        /\ locked' = IF accepted THEN 0 ELSE m.action
        /\ toClient' = toClient \o news
        /\ apart' = apart \cup (IF accepted /\ Crossed(m) THEN {"crossed"} ELSE {})
    BY <1>8 DEF ServerRunsClick, Sends
  <2>3. held' \in Boxes(Layout)
    BY <1>1, <1>3, <2>1, <2>2, SlotClickIs, SizesAre
  <2>4. confirm \in ToClient(action)
    BY <1>3, <2>1 DEF ToClient
  <2>5. Whole(serving, held') \in Seq(ToClient(action)) /\ <<>> \in Seq(ToClient(action))
    BY <1>1, <1>7, <2>3
  <2>6. locked' \in 0 .. action
    BY <1>1, <1>3, <2>1, <2>2
  <2> HIDE DEF accepted, confirm
  <2>7. toClient' \in Seq(ToClient(action))
    <3>1. <<confirm>> \in Seq(ToClient(action))
      BY <2>4
    <3>2. news \in Seq(ToClient(action))
      BY <2>5, <3>1, QueuesAre
    <3> QED
      BY <1>1, <2>2, <3>2, QueuesAre
  <2>8. apart' \in SUBSET {"resync", "beyond", "cut", "undercut", "crossed"}
    BY <1>1, <2>2
  <2> QED
    BY <1>1, <1>4, <1>6, <1>8, <2>1, <2>3, <2>6, <2>7, <2>8 DEF ServerRunsClick, bounds
<1>9. CASE ServerIgnoresClick
  <2>1. toServer' \in Seq(ToServer(action, uses))
    BY <1>2, <1>9 DEF ServerIgnoresClick, Hears
  <2> QED
    BY <1>1, <1>4, <1>6, <1>9, <2>1 DEF ServerIgnoresClick, server, bounds, history
<1>10. CASE ServerUnlocks
  <2>1. toServer' \in Seq(ToServer(action, uses)) /\ locked' \in 0 .. action
    BY <1>1, <1>2, <1>10 DEF ServerUnlocks, Hears
  <2> QED
    BY <1>1, <1>4, <1>6, <1>10, <2>1 DEF ServerUnlocks, bounds, history
<1>11. CASE ServerHearsClose
  <2>1. toServer' \in Seq(ToServer(action, uses)) /\ locked' \in 0 .. action /\ serving' \in 0 .. MaxUses
    BY <1>1, <1>2, <1>11 DEF ServerHearsClose, Hears
  <2> QED
    BY <1>1, <1>4, <1>5, <1>6, <1>11, <2>1 DEF ServerHearsClose, bounds, history
<1>12. CASE ServerOpens
  <2>1. m \in ToServer(action, uses) /\ m.type = "use" /\ toServer' \in Seq(ToServer(action, uses))
    BY <1>2, <1>12 DEF ServerOpens, Hears
  <2>2. serving' \in 0 .. MaxUses /\ locked' \in 0 .. action /\ held' \in Boxes(Layout)
    BY <1>1, <1>3, <1>5, <1>12, <2>1 DEF ServerOpens
  <2> DEFINE closes == IF serving = 0 THEN <<>> ELSE <<[type |-> "close", window |-> serving]>>
             opens == <<[type |-> "open", window |-> serving']>>
  <2>3. toClient' = toClient \o (closes \o opens \o Whole(serving', held'))
    BY <1>12 DEF ServerOpens, Sends
  <2>4. /\ closes \in Seq(ToClient(action)) /\ opens \in Seq(ToClient(action))
        /\ Whole(serving', held') \in Seq(ToClient(action))
    BY <1>1, <1>7, <2>2
  <2> HIDE DEF closes, opens
  <2>5. toClient' \in Seq(ToClient(action))
    BY <1>1, <2>3, <2>4, QueuesAre
  <2> QED
    BY <1>1, <1>4, <1>6, <1>12, <2>1, <2>2, <2>5 DEF ServerOpens, bounds, history
<1>13. CASE ServerCloses
  <2>1. /\ serving' \in 0 .. MaxUses /\ locked' \in 0 .. action
        /\ toClient' = toClient \o <<[type |-> "close", window |-> serving]>>
        /\ changes' \in changes .. MaxChanges
    BY <1>1, <1>13 DEF ServerCloses, Sends
  <2>2. toClient' \in Seq(ToClient(action))
    BY <1>1, <1>7, <2>1, QueuesAre
  <2> QED
    BY <1>1, <1>4, <1>5, <1>13, <2>1, <2>2 DEF ServerCloses, history
<1>14. ASSUME NEW slot \in DeclaredSlots, NEW item \in Changes, ServerChanges(slot, item)
       PROVE  WindowTypes'
  <2>1. item \in StacksOrEmpty /\ slot \in 1 .. Layout
    BY SizesAre
  <2>2. held' \in Boxes(Layout)
    BY <1>1, <1>14, <2>1, ChangeIs, SizesAre DEF ServerChanges
  <2>3. <<[type |-> "slot", window |-> serving, slot |-> slot, item |-> item]>> \in Seq(ToClient(action))
    <3>1. [type |-> "slot", window |-> serving, slot |-> slot, item |-> item] \in ToClient(action)
      BY <1>1, <2>1 DEF ToClient
    <3> QED
      BY <3>1
  <2>4. toClient' \in Seq(ToClient(action))
    BY <1>1, <1>14, <2>3, QueuesAre DEF ServerChanges, Sends
  <2>5. changes' = changes + 1 /\ changes' \in 0 .. MaxChanges
    BY <1>1, <1>14 DEF ServerChanges
  <2>6. /\ sent' \in [DeclaredSlots -> 0 .. MaxChanges]
        /\ \A s \in DeclaredSlots : sent'[s] \in 0 .. changes'
    <3>1. sent \in [DeclaredSlots -> 0 .. MaxChanges] /\ \A s \in DeclaredSlots : sent[s] \in 0 .. changes
      BY <1>1 DEF WindowTypes, WindowTypeOK
    <3>2. sent' = [sent EXCEPT ![slot] = @ + 1]
      BY <1>14 DEF ServerChanges
    <3>3. \A s \in DeclaredSlots : sent'[s] \in 0 .. changes'
      BY <1>1, <2>5, <3>1, <3>2
    <3>4. \A s \in DeclaredSlots : sent'[s] \in 0 .. MaxChanges
      BY <1>1, <2>5, <3>3
    <3> QED
      BY <3>1, <3>2, <3>3, <3>4
  <2>7. held' \in Containers(LayoutSlots)
    BY <2>2, ContainersAre
  <2> QED
    BY <1>1, <1>14, <2>2, <2>4, <2>5, <2>6, <2>7 DEF ServerChanges, WindowTypes, WindowTypeOK, client
<1> QED
  BY <1>8, <1>9, <1>10, <1>11, <1>12, <1>13, <1>14 DEF ServerHears, ServerActs

\* Windows, clicks and packets are what they are declared to be.
THEOREM WindowsTypeCorrect == WindowSpec => [](WindowTypeOK /\ WindowTypes)
<1>1. WindowTypes /\ UNCHANGED windowVars => WindowTypes'
  BY DEF WindowTypes, WindowTypeOK, windowVars, client, server, bounds, history, ToServer, ToClient
<1>2. WindowTypes /\ [WindowNext]_windowVars => WindowTypes'
  BY <1>1, PlayerTypes, PacketTypes, ServerTypes DEF WindowNext
<1>3. WindowTypes => WindowTypeOK /\ WindowTypes
  BY DEF WindowTypes
<1> QED
  BY <1>2, <1>3, InitTypes, PTL DEF WindowSpec

-----------------------------------------------------------------------------
(* A click makes no item.                                                  *)

\* A drag over a slot that has come to refuse the stack has been noted.
UndercutNoted == "undercut" \notin apart => ~Undercut(view)

LEMMA InitNoted == WindowInit => UndercutNoted
BY NoContainerIs DEF WindowInit, UndercutNoted, Undercut, NoDrag

LEMMA NextNoted == WindowTypes /\ UndercutNoted /\ [WindowNext]_windowVars => UndercutNoted'
<1> SUFFICES ASSUME WindowTypes, UndercutNoted, [WindowNext]_windowVars PROVE UndercutNoted'
  OBVIOUS
<1>1. ASSUME view' = view, apart \subseteq apart' PROVE UndercutNoted'
  BY <1>1 DEF UndercutNoted, Undercut
<1>2. ASSUME NEW click \in ClicksOn(Layout), Clicks(click) PROVE UndercutNoted'
  <2>1. view' = PredictClick(view, click) /\ apart \subseteq apart'
    BY <1>2 DEF Clicks
  <2>2. view \in Boxes(Declared)
    BY DEF WindowTypes
  <2>3. ~Undercut(view) => ~Undercut(view')
    BY <2>1, <2>2, SizesAre, PredictIs
  <2>4. ~Undercut(view') => (~Undercut(view))'
    BY DEF Undercut
  <2> QED
    BY <2>1, <2>3, <2>4 DEF UndercutNoted
<1>3. ASSUME view' = [NoContainer EXCEPT !.cursor = view.cursor] \/ view' = NoContainer
      PROVE  UndercutNoted'
  <2>1. ~view'.drag.open
    BY <1>3, NoContainerIs DEF NoContainer, NoDrag
  <2> QED
    BY <2>1 DEF UndercutNoted, Undercut
<1>4. ASSUME NEW cut, Notes(cut) PROVE UndercutNoted'
  BY <1>4 DEF Notes, UndercutNoted, Undercut
<1>5. CASE Player
  <2>1. ASSUME ClickSingle PROVE UndercutNoted'
    <3>1. PICK click \in SingleClicks : Clicks(click)
      BY <2>1 DEF ClickSingle
    <3> QED
      BY <1>2, <3>1, SinglesAre
  <2> QED
    BY <1>1, <1>3, <1>5, <2>1 DEF Player, LetGoOfDrag, CloseWindow, UseBlock, Shut, client, history
<1>6. CASE ClickOfDrag
  <2>1. Head(batch).click \in ClicksOn(Layout)
    <3>1. Head(batch) \in [window : 0 .. MaxUses, click : ClicksOn(Layout)]
      BY <1>6, QueuesAre DEF ClickOfDrag, WindowTypes
    <3> QED
      BY <3>1
  <2> QED
    BY <1>1, <1>2, <1>6, <2>1 DEF ClickOfDrag, history
<1>7. CASE Packet
  BY <1>1, <1>3, <1>4, <1>7
     DEF Packet, OpenWindow, SetSlot, SetCursor, WindowItems, ConfirmTransaction, WindowClosed, Shut,
         client, history
<1>8. CASE ServerHears \/ ServerActs
  BY <1>1, <1>8
     DEF ServerHears, ServerRunsClick, ServerIgnoresClick, ServerUnlocks, ServerHearsClose, ServerOpens,
         ServerActs, ServerCloses, ServerChanges, client, history
<1>9. CASE UNCHANGED windowVars
  BY <1>1, <1>9 DEF windowVars, client, history
<1> QED
  BY <1>5, <1>6, <1>7, <1>8, <1>9 DEF WindowNext

\* Whatever is clicked, the window and the cursor hold no more of any item after
\* the click than before, until a resync has left a drag over a slot that refuses
\* its stack.
THEOREM ClicksCreate == WindowSpec => ClicksCreateNothing
<1>1. ASSUME WindowTypes, UndercutNoted, [WindowNext]_windowVars, action' # action, "undercut" \notin apart
      PROVE  \A kind \in Kinds : Items(view', kind) <= Items(view, kind)
  <2>1. ASSUME NEW click \in ClicksOn(Layout), Clicks(click)
        PROVE  \A kind \in Kinds : Items(view', kind) <= Items(view, kind)
    <3>1. view' = PredictClick(view, click) /\ view \in Boxes(Declared) /\ ~Undercut(view)
      BY <1>1, <2>1 DEF Clicks, WindowTypes, UndercutNoted
    <3>2. \A kind \in Kinds : Items(PredictClick(view, click), kind) <= Items(view, kind)
      BY <2>1, <3>1, SizesAre, PredictIs
    <3> QED
      BY <3>1, <3>2
  <2>2. CASE ClickSingle
    <3>1. PICK click \in SingleClicks : Clicks(click)
      BY <2>2 DEF ClickSingle
    <3> QED
      BY <2>1, <3>1, SinglesAre
  <2>3. CASE ClickOfDrag
    <3>1. Head(batch) \in [window : 0 .. MaxUses, click : ClicksOn(Layout)]
      BY <1>1, <2>3, QueuesAre DEF ClickOfDrag, WindowTypes
    <3>2. Clicks(Head(batch).click)
      BY <1>1, <2>3 DEF ClickOfDrag
    <3> QED
      BY <2>1, <3>1, <3>2
  <2>4. ClickSingle \/ ClickOfDrag
    BY <1>1 DEF WindowNext, Player, LetGoOfDrag, CloseWindow, UseBlock, Packet, OpenWindow, SetSlot,
         SetCursor, WindowItems, ConfirmTransaction, WindowClosed, ServerHears, ServerRunsClick,
         ServerIgnoresClick, ServerUnlocks, ServerHearsClose, ServerOpens, ServerActs, ServerCloses,
         ServerChanges, client, windowVars
  <2> QED
    BY <2>2, <2>3, <2>4
<1>2. WindowTypes /\ UndercutNoted /\ [WindowNext]_windowVars
        => [action' # action /\ "undercut" \notin apart =>
              \A kind \in Kinds : Items(view', kind) <= Items(view, kind)]_windowVars
  BY <1>1
<1>3. WindowTypes /\ UndercutNoted /\ [WindowNext]_windowVars => UndercutNoted'
  BY NextNoted
<1> QED
  BY <1>2, <1>3, InitTypes, InitNoted, WindowsTypeCorrect, PTL DEF WindowSpec, ClicksCreateNothing

-----------------------------------------------------------------------------
(* A click looks at the slot it names, the slots of the drag and the       *)
(* cursor, and touches nothing else: two containers that agree on those    *)
(* agree after it.                                                         *)

\* Two containers agree on some slots, the cursor and the drag.
AgreeOn(T, c, d) ==
  c.cursor = d.cursor /\ c.drag = d.drag /\ \A s \in T : c.slots[s] = d.slots[s]

LEMMA TradeAgrees ==
  ASSUME NEW n \in Nat, NEW m \in Nat, NEW c \in Boxes(n), NEW d \in Boxes(m),
         NEW T \in SUBSET ((1 .. n) \cap (1 .. m)), AgreeOn(T, c, d),
         NEW s \in T, NEW stack, NEW cursor
  PROVE  /\ AgreeOn(T, Trade(c, s, stack, cursor), Trade(d, s, stack, cursor))
         /\ \A i \in 1 .. n : i # s => Trade(c, s, stack, cursor).slots[i] = c.slots[i]
         /\ Trade(c, s, stack, cursor).drag = c.drag
<1>1. DOMAIN c.slots = 1 .. n /\ DOMAIN d.slots = 1 .. m
  BY BoxIs
<1>2. \A i \in T : i \in 1 .. n /\ i \in 1 .. m
  OBVIOUS
<1> QED
  BY <1>1, <1>2 DEF AgreeOn, Trade

LEMMA GivenAgrees ==
  ASSUME NEW n \in Nat, NEW m \in Nat, NEW c \in Boxes(n), NEW d \in Boxes(m),
         NEW T \in SUBSET ((1 .. n) \cap (1 .. m)), AgreeOn(T, c, d),
         c.drag.over \subseteq T, NEW U \in SUBSET c.drag.over, c.drag.over # {}, c.cursor # Empty,
         Cardinality(c.drag.over) <= c.cursor.count
  PROVE  /\ AgreeOn(T, GivenOut(c, U), GivenOut(d, U))
         /\ \A i \in 1 .. n : i \notin T => GivenOut(c, U).slots[i] = c.slots[i]
<1>1. DOMAIN c.slots = 1 .. n /\ DOMAIN d.slots = 1 .. m
  BY BoxIs
<1>2. \A i \in T : i \in 1 .. n /\ i \in 1 .. m /\ c.slots[i] = d.slots[i]
  BY DEF AgreeOn
<1>3. c.cursor = d.cursor /\ c.drag = d.drag
  BY DEF AgreeOn
<1>4. \A i \in U : i \in T
  OBVIOUS
<1>5. \A i \in T : GivenOut(c, U).slots[i] = GivenOut(d, U).slots[i]
  BY <1>1, <1>2, <1>3 DEF GivenOut
<1>6. \A i \in 1 .. n : i \notin T => GivenOut(c, U).slots[i] = c.slots[i]
  BY <1>1, <1>4 DEF GivenOut
<1>7. Total(Added(c, U)) = Total(Added(d, U))
  <2> DEFINE f == Added(c, U)
             g == Added(d, U)
  <2>1. f \in [1 .. n -> Int] /\ g \in [1 .. m -> Int]
    <3>1. c \in Containers(1 .. n) /\ d \in Containers(1 .. m)
      BY BoxIs
    <3>2. d.drag.over = c.drag.over /\ d.cursor = c.cursor
      BY <1>3
    <3>3. f \in [1 .. n -> Nat]
      BY <3>1, AddedIs
    <3>4. g \in [1 .. m -> Nat]
      BY <3>1, <3>2, AddedIs
    <3> HIDE DEF f, g
    <3> QED
      BY <3>3, <3>4
  <2>2. \A i \in U : i \in 1 .. n /\ i \in 1 .. m /\ f[i] = g[i]
    BY <1>1, <1>2, <1>3, <1>4 DEF Added
  <2>3. \A i \in 1 .. n : i \notin U => f[i] = 0
    BY <1>1 DEF Added
  <2>4. \A i \in 1 .. m : i \notin U => g[i] = 0
    BY <1>1 DEF Added
  <2> HIDE DEF f, g
  <2>5. CASE n <= m
    <3>1. \A i \in 1 .. m : g[i] = IF i \in 1 .. n THEN f[i] ELSE 0
      BY <2>2, <2>3, <2>4
    <3> QED
      BY <2>1, <2>5, <3>1, TotalLonger DEF f, g
  <2>6. CASE m <= n
    <3>1. \A i \in 1 .. n : f[i] = IF i \in 1 .. m THEN g[i] ELSE 0
      BY <2>2, <2>3, <2>4
    <3> QED
      BY <2>1, <2>6, <3>1, TotalLonger DEF f, g
  <2> QED
    BY <2>5, <2>6
<1> QED
  BY <1>3, <1>5, <1>6, <1>7 DEF AgreeOn, GivenOut

LEMMA DragAgrees ==
  ASSUME NEW n, NEW m, NEW c \in Boxes(n), NEW d \in Boxes(m), NEW T, AgreeOn(T, c, d), NEW drag
  PROVE  /\ AgreeOn(T, [c EXCEPT !.drag = drag], [d EXCEPT !.drag = drag])
         /\ [c EXCEPT !.drag = drag].slots = c.slots /\ [c EXCEPT !.drag = drag].drag = drag
BY BoxIs DEF AgreeOn

\* What a pickup puts in the slot and on the cursor depends on what they hold.
LEMMA PickupSame ==
  ASSUME NEW n \in Nat, NEW m \in Nat, NEW c \in Boxes(n), NEW d \in Boxes(m),
         NEW s \in 1 .. n, s \in 1 .. m, NEW b \in Buttons,
         c.cursor = d.cursor, c.slots[s] = d.slots[s]
  PROVE  \E stack \in StacksOrEmpty, cursor \in StacksOrEmpty :
           Pickup(c, s, b) = Trade(c, s, stack, cursor) /\ Pickup(d, s, b) = Trade(d, s, stack, cursor)
<1> DEFINE p == Moves(c.slots[s], c.cursor, b)
           kind == IF c.slots[s] = Empty THEN c.cursor.kind ELSE c.slots[s].kind
           trades == Empty \notin {c.slots[s], c.cursor} /\ c.slots[s].kind # c.cursor.kind
           stack == IF trades THEN c.cursor ELSE Of(kind, c.slots[s].count + p)
           cursor == IF trades THEN c.slots[s] ELSE Of(kind, c.cursor.count - p)
<1>1. Pickup(c, s, b) = [c EXCEPT !.slots[s] = stack, !.cursor = cursor]
  <2>1. Pickup(c, s, b) = PredictPickup(c, s, b)
    BY PickupPredicted
  <2> QED
    BY <2>1 DEF PredictPickup
<1>2. Pickup(d, s, b) = [d EXCEPT !.slots[s] = stack, !.cursor = cursor]
  <2>1. Pickup(d, s, b) = PredictPickup(d, s, b)
    BY PickupPredicted
  <2> QED
    BY <2>1 DEF PredictPickup
<1> HIDE DEF stack, cursor
<1>3. Pickup(c, s, b) = Trade(c, s, stack, cursor)
  <2>1. PICK e : e = [c EXCEPT !.slots[s] = stack, !.cursor = cursor]
    OBVIOUS
  <2>2. e = Trade(c, s, stack, cursor)
    BY <2>1, BoxIs DEF Containers, Trade
  <2> QED
    BY <1>1, <2>1, <2>2
<1>4. Pickup(d, s, b) = Trade(d, s, stack, cursor)
  <2>1. PICK e : e = [d EXCEPT !.slots[s] = stack, !.cursor = cursor]
    OBVIOUS
  <2>2. e = Trade(d, s, stack, cursor)
    BY <2>1, BoxIs DEF Containers, Trade
  <2> QED
    BY <1>2, <2>1, <2>2
<1>5. PICK x \in StacksOrEmpty, y \in StacksOrEmpty : Pickup(c, s, b) = Trade(c, s, x, y)
  BY PickupTrades
<1>6. DOMAIN c.slots = 1 .. n
  BY BoxIs
<1>7. x = stack /\ y = cursor
  <2>1. Trade(c, s, x, y).cursor = y /\ Trade(c, s, x, y).slots[s] = x
    BY <1>6 DEF Trade
  <2>2. Trade(c, s, stack, cursor).cursor = cursor /\ Trade(c, s, stack, cursor).slots[s] = stack
    BY <1>6 DEF Trade
  <2> QED
    BY <1>3, <1>5, <2>1, <2>2
<1> QED
  BY <1>3, <1>4, <1>7

\* The slots a click touches are those of the drag and its own.
LEMMA ClickAgrees ==
  ASSUME NEW n \in Nat, NEW m \in Nat, NEW c \in Boxes(n), NEW d \in Boxes(m),
         NEW T \in SUBSET ((1 .. n) \cap (1 .. m)), AgreeOn(T, c, d), c.drag.over \subseteq T,
         NEW k \in ClicksOn(n), k.slot \in T \cup {NoSlot}
  PROVE  /\ AgreeOn(T, SlotClick(c, k), SlotClick(d, k))
         /\ \A i \in 1 .. n : i \notin T => SlotClick(c, k).slots[i] = c.slots[i]
         /\ Carrier(c, k) = Carrier(d, k)
<1>1. /\ k.mode \in Modes /\ k.button \in Buttons /\ k.share \in Shares
      /\ k.slot # NoSlot => k.slot \in T
      /\ k.mode \in {"cover", "drop"} => k.slot \in T
  BY ClickIs, NoSlot \notin 1 .. n DEF ClicksOn, NoSlot
<1>2. c.cursor = d.cursor /\ c.drag = d.drag /\ \A i \in T : c.slots[i] = d.slots[i]
  BY DEF AgreeOn
<1>3. Carrier(c, k) = Carrier(d, k)
  BY <1>1, <1>2 DEF Carrier
<1>4. AgreeOn(T, c, d) /\ \A i \in 1 .. n : i \notin T => c.slots[i] = c.slots[i]
  OBVIOUS
<1>5. /\ AgreeOn(T, [c EXCEPT !.drag = NoDrag], [d EXCEPT !.drag = NoDrag])
      /\ \A i \in 1 .. n : i \notin T => [c EXCEPT !.drag = NoDrag].slots[i] = c.slots[i]
  BY DragAgrees
<1>6. CASE k.mode = "begin"
  <2>1. SlotClick(c, k) = Begin(c, k.share) /\ SlotClick(d, k) = Begin(d, k.share)
    BY <1>6 DEF SlotClick
  <2> DEFINE drag == IF c.cursor # Empty /\ ~c.drag.open THEN BeginDrag(k.share) ELSE NoDrag
  <2>2. Begin(c, k.share) = [c EXCEPT !.drag = drag] /\ Begin(d, k.share) = [d EXCEPT !.drag = drag]
    BY <1>2 DEF Begin
  <2> HIDE DEF drag
  <2> QED
    BY <1>3, <2>1, <2>2, DragAgrees
<1>7. CASE k.mode = "cover"
  <2>1. SlotClick(c, k) = Cover(c, k.slot) /\ SlotClick(d, k) = Cover(d, k.slot)
    BY <1>7 DEF SlotClick
  <2>2. CASE c.cursor = Empty \/ ~c.drag.open
    <3>1. Cover(c, k.slot) = [c EXCEPT !.drag = NoDrag] /\ Cover(d, k.slot) = [d EXCEPT !.drag = NoDrag]
      BY <1>2, <2>2 DEF Cover
    <3> QED
      BY <1>3, <1>5, <2>1, <3>1
  <2>3. CASE /\ ~ (c.cursor = Empty \/ ~c.drag.open)
             /\ CanAddItemToSlot(c.slots[k.slot], c.cursor)
             /\ c.cursor.count > Cardinality(c.drag.over)
    <3>1. CanAddItemToSlot(d.slots[k.slot], d.cursor) /\ d.cursor.count > Cardinality(d.drag.over)
      BY <1>1, <1>2, <1>7, <2>3
    <3>2. Cover(c, k.slot) = Covered(c, k.slot)
      <4>1. PICK e : e = [c EXCEPT !.drag.over = @ \cup {k.slot}]
        OBVIOUS
      <4>2. e = Covered(c, k.slot)
        BY <4>1, BoxIs DEF Containers, Covered
      <4> QED
        BY <2>3, <4>1, <4>2 DEF Cover
    <3>3. Cover(d, k.slot) = Covered(d, k.slot)
      <4>1. PICK e : e = [d EXCEPT !.drag.over = @ \cup {k.slot}]
        OBVIOUS
      <4>2. e = Covered(d, k.slot)
        BY <4>1, BoxIs DEF Containers, Covered
      <4> QED
        BY <1>2, <2>3, <3>1, <4>1, <4>2 DEF Cover
    <3>4. /\ AgreeOn(T, Covered(c, k.slot), Covered(d, k.slot))
          /\ Covered(c, k.slot).slots = c.slots
      BY <1>2 DEF Covered, AgreeOn
    <3> QED
      BY <1>3, <2>1, <3>2, <3>3, <3>4
  <2>4. CASE /\ ~ (c.cursor = Empty \/ ~c.drag.open)
             /\ ~ (/\ CanAddItemToSlot(c.slots[k.slot], c.cursor)
                   /\ c.cursor.count > Cardinality(c.drag.over))
    <3>1. ~ (CanAddItemToSlot(d.slots[k.slot], d.cursor) /\ d.cursor.count > Cardinality(d.drag.over))
      BY <1>1, <1>2, <1>7, <2>4
    <3>2. Cover(c, k.slot) = c
      BY <2>4 DEF Cover
    <3>3. Cover(d, k.slot) = d
      BY <1>2, <2>4, <3>1 DEF Cover
    <3> QED
      BY <1>3, <1>4, <2>1, <3>2, <3>3
  <2> QED
    BY <2>2, <2>3, <2>4
<1>8. CASE k.mode = "finish"
  <2> DEFINE takes(b) == {s \in b.drag.over : /\ CanAddItemToSlot(b.slots[s], b.cursor)
                                              /\ b.cursor.count >= Cardinality(b.drag.over)}
  <2>1. SlotClick(c, k) = Finish(c) /\ SlotClick(d, k) = Finish(d)
    BY <1>8 DEF SlotClick
  <2>2. CASE c.cursor = Empty \/ ~c.drag.open \/ c.drag.over = {}
    <3>1. Finish(c) = [c EXCEPT !.drag = NoDrag] /\ Finish(d) = [d EXCEPT !.drag = NoDrag]
      BY <1>2, <2>2 DEF Finish
    <3> QED
      BY <1>3, <1>5, <2>1, <3>1
  <2>3. CASE ~ (c.cursor = Empty \/ ~c.drag.open \/ c.drag.over = {})
    <3>1. Finish(c) = GivenOut(c, takes(c))
      BY <2>3 DEF Finish, GivenOut
    <3>2. Finish(d) = GivenOut(d, takes(d))
      BY <1>2, <2>3 DEF Finish, GivenOut
    <3>3. takes(c) = takes(d)
      BY <1>2
    <3>4. takes(c) \in SUBSET c.drag.over
      OBVIOUS
    <3>5. CASE Cardinality(c.drag.over) <= c.cursor.count
      <4> DEFINE U == takes(c)
      <4>1. U \in SUBSET c.drag.over
        BY <3>4
      <4> HIDE DEF U
      <4>2. /\ AgreeOn(T, GivenOut(c, U), GivenOut(d, U))
            /\ \A i \in 1 .. n : i \notin T => GivenOut(c, U).slots[i] = c.slots[i]
        BY <2>3, <3>5, <4>1, GivenAgrees
      <4>3. GivenOut(c, takes(c)) = GivenOut(c, U) /\ GivenOut(d, takes(d)) = GivenOut(d, U)
        BY <3>3 DEF U
      <4> HIDE DEF takes
      <4> QED
        BY <1>3, <2>1, <3>1, <3>2, <4>2, <4>3
    <3>6. CASE ~ (Cardinality(c.drag.over) <= c.cursor.count)
      <4>1. takes(c) = {}
        <5>1. c.cursor.count \in Nat /\ IsFiniteSet(c.drag.over)
          <6>1. c.cursor \in StacksOrEmpty /\ c.drag.over \in SUBSET (1 .. n)
            BY BoxIs
          <6>2. IsFiniteSet(1 .. n)
            BY FS_Interval
          <6> QED
            BY <6>1, <6>2, FS_Subset, StackIs
        <5>2. Cardinality(c.drag.over) \in Nat
          BY <5>1, FS_CardinalityType
        <5> QED
          BY <3>6, <5>1, <5>2
      <4>2. Total(Added(c, {})) = 0 /\ Less(c.cursor, 0) = c.cursor
        BY NothingAdded
      <4>3. Total(Added(d, {})) = 0 /\ Less(d.cursor, 0) = d.cursor
        BY NothingAdded
      <4>4. DOMAIN c.slots = 1 .. n /\ DOMAIN d.slots = 1 .. m
        BY BoxIs
      <4>5. /\ AgreeOn(T, GivenOut(c, {}), GivenOut(d, {}))
            /\ \A i \in 1 .. n : GivenOut(c, {}).slots[i] = c.slots[i]
        <5>1. \A i \in T : i \in 1 .. n /\ i \in 1 .. m
          OBVIOUS
        <5>2. /\ \A i \in 1 .. n : GivenOut(c, {}).slots[i] = c.slots[i]
              /\ \A i \in 1 .. m : GivenOut(d, {}).slots[i] = d.slots[i]
          BY <4>4 DEF GivenOut
        <5>3. GivenOut(c, {}).cursor = c.cursor /\ GivenOut(d, {}).cursor = d.cursor
              /\ GivenOut(c, {}).drag = NoDrag /\ GivenOut(d, {}).drag = NoDrag
          BY <4>2, <4>3 DEF GivenOut
        <5> QED
          BY <1>2, <5>1, <5>2, <5>3 DEF AgreeOn
      <4> HIDE DEF takes
      <4> QED
        BY <1>3, <2>1, <3>1, <3>2, <3>3, <4>1, <4>5
    <3> QED
      BY <3>5, <3>6
  <2> QED
    BY <2>2, <2>3
<1>9. CASE k.mode \in {"pickup", "drop"} /\ c.drag.open
  <2>1. SlotClick(c, k) = [c EXCEPT !.drag = NoDrag] /\ SlotClick(d, k) = [d EXCEPT !.drag = NoDrag]
    BY <1>2, <1>9 DEF SlotClick
  <2> QED
    BY <1>3, <1>5, <2>1
<1>10. CASE k.mode = "pickup" /\ ~c.drag.open
  <2>1. CASE k.slot = NoSlot
    <3>1. SlotClick(c, k) = Throw(c, k.button) /\ SlotClick(d, k) = Throw(d, k.button)
      BY <1>2, <1>10, <2>1 DEF SlotClick
    <3>2. Throw(c, k.button).slots = c.slots /\ Throw(d, k.button).slots = d.slots
          /\ Throw(c, k.button).drag = c.drag /\ Throw(d, k.button).drag = d.drag
          /\ Throw(c, k.button).cursor = Throw(d, k.button).cursor
      BY <1>2, BoxIs DEF Throw
    <3> QED
      BY <1>2, <1>3, <3>1, <3>2 DEF AgreeOn
  <2>2. CASE k.slot # NoSlot
    <3> DEFINE s == k.slot
    <3>1. s \in T /\ s \in 1 .. n /\ s \in 1 .. m
      BY <1>1, <2>2
    <3>2. SlotClick(c, k) = Pickup(c, s, k.button) /\ SlotClick(d, k) = Pickup(d, s, k.button)
      BY <1>2, <1>10, <2>2 DEF SlotClick
    <3> HIDE DEF s
    <3>3. \E stack \in StacksOrEmpty, cursor \in StacksOrEmpty :
             /\ Pickup(c, s, k.button) = Trade(c, s, stack, cursor)
             /\ Pickup(d, s, k.button) = Trade(d, s, stack, cursor)
      BY <1>1, <1>2, <3>1, PickupSame
    <3>4. PICK stack \in StacksOrEmpty, cursor \in StacksOrEmpty :
             /\ Pickup(c, s, k.button) = Trade(c, s, stack, cursor)
             /\ Pickup(d, s, k.button) = Trade(d, s, stack, cursor)
      BY <3>3
    <3> QED
      BY <1>3, <3>1, <3>2, <3>4, TradeAgrees
  <2> QED
    BY <2>1, <2>2
<1>11. CASE k.mode = "drop" /\ ~c.drag.open
  <2> DEFINE s == k.slot
  <2>1. s \in T /\ s \in 1 .. n /\ s \in 1 .. m
    BY <1>1, <1>11
  <2>2. SlotClick(c, k) = Drop(c, s, k.button) /\ SlotClick(d, k) = Drop(d, s, k.button)
    BY <1>2, <1>11 DEF SlotClick
  <2> HIDE DEF s
  <2>3. CASE c.cursor # Empty \/ c.slots[s] = Empty
    <3>1. Drop(c, s, k.button) = c /\ Drop(d, s, k.button) = d
      BY <1>2, <2>1, <2>3 DEF Drop
    <3> QED
      BY <1>3, <1>4, <2>2, <3>1
  <2>4. CASE ~ (c.cursor # Empty \/ c.slots[s] = Empty)
    <3> DEFINE stack == IF k.button = "left" THEN Less(c.slots[s], 1) ELSE Empty
    <3>1. Drop(c, s, k.button) = [c EXCEPT !.slots[s] = stack]
      BY <2>4 DEF Drop
    <3>2. Drop(d, s, k.button) = [d EXCEPT !.slots[s] = stack]
      BY <1>2, <2>1, <2>4 DEF Drop
    <3> HIDE DEF stack
    <3>3. [c EXCEPT !.slots[s] = stack] = Trade(c, s, stack, c.cursor)
      <4>1. PICK e : e = [c EXCEPT !.slots[s] = stack]
        OBVIOUS
      <4>2. e = Trade(c, s, stack, c.cursor)
        BY <4>1, BoxIs DEF Containers, Trade
      <4> QED
        BY <4>1, <4>2
    <3>4. [d EXCEPT !.slots[s] = stack] = Trade(d, s, stack, d.cursor)
      <4>1. PICK e : e = [d EXCEPT !.slots[s] = stack]
        OBVIOUS
      <4>2. e = Trade(d, s, stack, d.cursor)
        BY <4>1, BoxIs DEF Containers, Trade
      <4> QED
        BY <4>1, <4>2
    <3>5. /\ AgreeOn(T, Trade(c, s, stack, c.cursor), Trade(d, s, stack, c.cursor))
          /\ \A i \in 1 .. n : i # s => Trade(c, s, stack, c.cursor).slots[i] = c.slots[i]
      BY <2>1, TradeAgrees
    <3> QED
      BY <1>2, <1>3, <2>1, <2>2, <3>1, <3>2, <3>3, <3>4, <3>5
  <2> QED
    BY <2>3, <2>4
<1> QED
  BY <1>1, <1>6, <1>7, <1>8, <1>9, <1>10, <1>11 DEF Modes

-----------------------------------------------------------------------------
(* The two ends run ahead: what each comes to when it has read what is on   *)
(* its way.                                                                 *)

\* The session on its way: the window it holds and what it shows of it.
Ends == [open : Nat, view : Boxes(Declared)]

\* A packet read.  A resync ends a drag, or is noted.
Read(v, m) ==
  CASE m.type = "open" -> [open |-> m.window, view |-> [NoContainer EXCEPT !.cursor = v.view.cursor]]
    [] m.type = "slot" ->
         IF m.window = v.open THEN [v EXCEPT !.view.slots[m.slot] = m.item] ELSE v
    [] m.type = "cursor" -> [v EXCEPT !.view = ResetDrag([v.view EXCEPT !.cursor = m.item])]
    [] m.type = "items" ->
         [v EXCEPT !.view = ResetDrag(IF m.window = v.open
                                      THEN [v.view EXCEPT !.slots = [s \in DeclaredSlots |-> m.slots[s]]]
                                      ELSE v.view)]
    [] m.type = "confirm" -> v
    [] m.type = "close" -> IF m.window = v.open THEN [open |-> 0, view |-> NoContainer] ELSE v

\* The server on its way, with the window w open: every click it will run is one
\* it accepts.
Boxed == [held : Boxes(Layout), locked : Nat]

Runs(w, b, m) == m.type = "click" /\ m.window = w /\ b.locked = 0
Hear(w, b, m) ==
  IF Runs(w, b, m) THEN [b EXCEPT !.held = SlotClick(b.held, m.click)]
  ELSE IF m.type = "apology" /\ m.window = w /\ m.action = b.locked THEN [b EXCEPT !.locked = 0]
  ELSE b

\* The states a queue leads through, the first before any packet is read.
ReadThrough(f, q, v) ==
  f \in [0 .. Len(q) -> Ends] /\ f[0] = v /\ \A i \in 1 .. Len(q) : f[i] = Read(f[i - 1], q[i])
HeardThrough(g, w, q, b) ==
  g \in [0 .. Len(q) -> Boxed] /\ g[0] = b /\ \A i \in 1 .. Len(q) : g[i] = Hear(w, g[i - 1], q[i])

-----------------------------------------------------------------------------
(* The exchange: windows are numbered upwards, a rejection is followed by    *)
(* the window whole and then by its acknowledgement.                        *)

Numbers ==
  /\ open <= uses /\ serving <= uses
  /\ \A i \in 1 .. Len(toServer) : toServer[i].window <= uses
  /\ \A i \in 1 .. Len(toClient) : toClient[i].type # "cursor" => toClient[i].window <= uses
  /\ \A i \in 1 .. Len(toServer) : toServer[i].type = "use" =>
       LET w == toServer[i].window
       IN  /\ open < w /\ serving < w
           /\ \A j \in 1 .. Len(toServer) : toServer[j].type # "use" \/ j < i => toServer[j].window < w
           /\ \A j \in 1 .. Len(toClient) : toClient[j].type # "cursor" => toClient[j].window < w

\* Having read so many packets the session holds the window that is served.
Since(i) ==
  \/ i = 0 /\ open = serving
  \/ i \in 1 .. Len(toClient) /\ toClient[i].type = "open" /\ toClient[i].window = serving

Rejects(m) == m.type = "confirm" /\ ~m.accepted
Apology(w, m) == m.type = "apology" /\ m.window = w

\* The window whole, from the i-th packet on.
WholeAt(i) ==
  /\ i \in 1 .. Len(toClient) /\ i + 1 \in 1 .. Len(toClient)
  /\ toClient[i].type = "items" /\ toClient[i].window = serving /\ toClient[i + 1].type = "cursor"

NoReject == \A j \in 1 .. Len(toClient) : ~Rejects(toClient[j])
NoApology == \A j \in 1 .. Len(toServer) : ~Apology(serving, toServer[j])

\* A rejection is still to be read, or its acknowledgement to be heard.
RejectionComes ==
  /\ NoApology
  /\ \E j \in 1 .. Len(toClient) :
       /\ Rejects(toClient[j]) /\ toClient[j].action = locked /\ WholeAt(j + 1)
       /\ \A k \in 1 .. Len(toClient) : Rejects(toClient[k]) => k = j
ApologyComes ==
  /\ NoReject
  /\ \E j \in 1 .. Len(toServer) :
       /\ Apology(serving, toServer[j]) /\ toServer[j].action = locked
       /\ \A k \in 1 .. Len(toServer) : Apology(serving, toServer[k]) => k = j

\* Behind the opening of the window served there is nothing of another.
OfServed(i) ==
  \A j \in 1 .. Len(toClient) :
    j > i => /\ toClient[j].type \notin {"open", "close"}
             /\ toClient[j].type # "cursor" => toClient[j].window = serving
\* A window that has not been seen yet has not been clicked.
Fresh(i) ==
  /\ WholeAt(i + 1) /\ locked = 0
  /\ \A j \in 1 .. Len(toServer) : toServer[j].type \in {"click", "apology"} => toServer[j].window # serving

Exchanging(i) ==
  /\ OfServed(i)
  /\ i > 0 => Fresh(i)
  /\ locked = 0 => NoApology /\ \A j \in 1 .. Len(toClient) : j > i => ~Rejects(toClient[j])
  /\ locked # 0 => RejectionComes \/ ApologyComes
Exchange == serving # 0 => \A i \in 0 .. Len(toClient) : Since(i) => Exchanging(i)

\* A click has read no more changes of a slot than were sent, and only a pickup
\* echoes a stack.
ReadsBehind ==
  \A i \in 1 .. Len(toServer) : toServer[i].type = "click" =>
    /\ \A s \in DeclaredSlots : toServer[i].read[s] <= sent[s]
    /\ toServer[i].echo # Empty => toServer[i].click.mode = "pickup"

-----------------------------------------------------------------------------
(* The invariant: as long as the server accepts, the two ends run ahead      *)
(* agree.                                                                   *)

\* The click was predicted on what it will be run on.
Predicted(c, m) ==
  /\ Carrier(c, m.click) = m.echo /\ c.drag.over \subseteq m.touches
  /\ m.click.slot \in m.touches \cup {NoSlot}

Ahead(f, g) ==
  LET v == f[Len(toClient)]
      c == g[Len(toServer)]
      runs(i) == Runs(serving, g[i - 1], toServer[i])
  IN  v.open = serving /\ (\A i \in 1 .. Len(toServer) : runs(i) => ~Crossed(toServer[i])) =>
        /\ AgreeOn(DeclaredSlots, v.view, c.held)
        /\ \A i \in 1 .. Len(toServer) : runs(i) => Predicted(g[i - 1].held, toServer[i])

Leads(f, g) ==
  /\ ReadThrough(f, toClient, [open |-> open, view |-> view])
  /\ HeardThrough(g, serving, toServer, [held |-> held, locked |-> locked])
  /\ Ahead(f, g)
EndsAgree == apart = {} /\ serving # 0 => \E f, g : Leads(f, g)

-----------------------------------------------------------------------------
(* Queues read to their end.                                                *)

\* So many steps from one value to the next.
Advances(f, n, step, V) == f \in [0 .. n -> V] /\ \A i \in 1 .. n : f[i] = step[i][f[i - 1]]
SameUpTo(n, f, h) == \A i \in 0 .. n : h[i] = f[i]

\* A run of steps goes on to the last.
LEMMA RunExtends ==
  ASSUME NEW V, NEW n \in Nat, NEW m \in Nat, n <= m, NEW step \in [1 .. m -> [V -> V]],
         NEW f, Advances(f, n, step, V)
  PROVE  \E h : Advances(h, m, step, V) /\ SameUpTo(n, f, h)
<1> DEFINE Goes(h, k) == /\ h \in [0 .. k -> V]
                         /\ \A i \in 0 .. n : h[i] = f[i]
                         /\ \A i \in 1 .. k : h[i] = step[i][h[i - 1]]
           S == {k \in Nat : n <= k /\ k <= m => \E h : Goes(h, k)}
<1>1. Goes(f, n)
  BY DEF Advances
<1> HIDE DEF Goes
<1>2. 0 \in S
  <2>1. n <= 0 => n = 0
    OBVIOUS
  <2> QED
    BY <1>1, <2>1
<1>3. ASSUME NEW k \in Nat, k \in S PROVE k + 1 \in S
  <2>1. SUFFICES ASSUME n <= k + 1, k + 1 <= m PROVE \E h : Goes(h, k + 1)
    OBVIOUS
  <2>2. CASE n = k + 1
    <3> QED
      BY <1>1, <2>2
  <2>3. CASE n <= k
    <3>1. PICK h : Goes(h, k)
      BY <1>3, <2>1, <2>3
    <3>2. k \in 0 .. k /\ k + 1 \in 1 .. m
      BY <2>1
    <3>3. h[k] \in V /\ step[k + 1][h[k]] \in V
      BY <3>1, <3>2 DEF Goes
    <3> DEFINE more == [i \in 0 .. k + 1 |-> IF i = k + 1 THEN step[k + 1][h[k]] ELSE h[i]]
    <3>4. \A i \in 0 .. k + 1 : i # k + 1 => i \in 0 .. k
      OBVIOUS
    <3>5. more \in [0 .. k + 1 -> V]
      BY <3>1, <3>3, <3>4 DEF Goes
    <3>6. \A i \in 0 .. n : more[i] = f[i]
      BY <2>3, <3>1 DEF Goes
    <3>7. ASSUME NEW i \in 1 .. k + 1 PROVE more[i] = step[i][more[i - 1]]
      <4>1. i - 1 \in 0 .. k + 1 /\ i - 1 # k + 1 /\ i \in 0 .. k + 1
        OBVIOUS
      <4>2. more[i - 1] = h[i - 1]
        BY <4>1
      <4>3. CASE i = k + 1
        BY <4>1, <4>2, <4>3
      <4>4. CASE i # k + 1
        BY <3>1, <4>1, <4>2, <4>4 DEF Goes
      <4> QED
        BY <4>3, <4>4
    <3> HIDE DEF more
    <3>8. Goes(more, k + 1)
      BY <3>5, <3>6, <3>7 DEF Goes
    <3> QED
      BY <3>8
  <2> QED
    BY <2>1, <2>2, <2>3
<1>4. m \in S
  <2> HIDE DEF S
  <2> QED
    BY <1>2, <1>3, Induct
<1>5. PICK h : Goes(h, m)
  BY <1>4
<1> QED
  BY <1>5 DEF Goes, Advances, SameUpTo

LEMMA EndsAre ==
  /\ \A v \in Ends : v.open \in Nat /\ v.view \in Boxes(Declared)
  /\ \A w \in Nat, c \in Boxes(Declared) : [open |-> w, view |-> c] \in Ends
  /\ \A v \in Ends, c \in Boxes(Declared) :
       [v EXCEPT !.view = c] \in Ends /\ [v EXCEPT !.view = c] = [open |-> v.open, view |-> c]
BY DEF Ends

LEMMA PacketIs ==
  ASSUME NEW a \in Nat, NEW m \in ToClient(a)
  PROVE  /\ m.type \in {"open", "slot", "cursor", "items", "confirm", "close"}
         /\ m.type # "cursor" => m.window \in Nat
         /\ m.type = "slot" => m.slot \in 1 .. Declared /\ m.item \in StacksOrEmpty
         /\ m.type = "cursor" => m.item \in StacksOrEmpty
         /\ m.type = "items" => m.slots \in [1 .. Layout -> StacksOrEmpty]
         /\ m.type = "confirm" => m.action \in 1 .. a /\ m.accepted \in BOOLEAN
<1>1. 0 .. MaxUses \subseteq Nat
  BY SizesAre
<1> QED
  BY <1>1, SizesAre DEF ToClient

\* What a packet does, kind by kind.
LEMMA ReadIs ==
  ASSUME NEW a \in Nat, NEW m \in ToClient(a), NEW v \in Ends
  PROVE  /\ Read(v, m) \in Ends
         /\ m.type = "open" => Read(v, m) = [open |-> m.window, view |-> [NoContainer EXCEPT !.cursor = v.view.cursor]]
         /\ m.type = "slot" =>
              Read(v, m) = [open |-> v.open,
                            view |-> IF m.window = v.open THEN [v.view EXCEPT !.slots[m.slot] = m.item] ELSE v.view]
         /\ m.type = "cursor" =>
              Read(v, m) = [open |-> v.open, view |-> ResetDrag([v.view EXCEPT !.cursor = m.item])]
         /\ m.type = "items" =>
              Read(v, m) = [open |-> v.open,
                            view |-> ResetDrag(IF m.window = v.open
                                               THEN [v.view EXCEPT !.slots = [s \in DeclaredSlots |-> m.slots[s]]]
                                               ELSE v.view)]
         /\ m.type = "confirm" => Read(v, m) = v
         /\ m.type = "close" =>
              Read(v, m) = IF m.window = v.open THEN [open |-> 0, view |-> NoContainer] ELSE v
<1>1. v.open \in Nat /\ v.view \in Boxes(Declared) /\ v = [open |-> v.open, view |-> v.view]
  BY DEF Ends
<1>2. /\ m.type \in {"open", "slot", "cursor", "items", "confirm", "close"}
      /\ m.type # "cursor" => m.window \in Nat
      /\ m.type = "slot" => m.slot \in 1 .. Declared /\ m.item \in StacksOrEmpty
      /\ m.type = "cursor" => m.item \in StacksOrEmpty
      /\ m.type = "items" => m.slots \in [1 .. Layout -> StacksOrEmpty]
  BY PacketIs
<1>3. Declared \in Nat /\ DeclaredSlots = 1 .. Declared /\ Declared <= Layout /\ Layout \in Nat
  BY SizesAre
<1>4. CASE m.type = "open"
  <2>1. Read(v, m) = [open |-> m.window, view |-> [NoContainer EXCEPT !.cursor = v.view.cursor]]
    BY <1>4 DEF Read
  <2>2. [NoContainer EXCEPT !.cursor = v.view.cursor] \in Boxes(Declared)
    <3>1. v.view.cursor \in StacksOrEmpty
      BY <1>1, BoxIs
    <3> QED
      BY <1>3, <3>1, NoContainerIs, ChangeIs
  <2> QED
    BY <1>2, <1>4, <2>1, <2>2, EndsAre
<1>5. CASE m.type = "slot"
  <2>1. [v.view EXCEPT !.slots[m.slot] = m.item] \in Boxes(Declared)
    BY <1>1, <1>2, <1>3, <1>5, ChangeIs
  <2>2. [v EXCEPT !.view.slots[m.slot] = m.item] = [v EXCEPT !.view = [v.view EXCEPT !.slots[m.slot] = m.item]]
    OBVIOUS
  <2>3. Read(v, m) = IF m.window = v.open THEN [v EXCEPT !.view.slots[m.slot] = m.item] ELSE v
    BY <1>5 DEF Read
  <2> QED
    BY <1>1, <1>5, <2>1, <2>2, <2>3, EndsAre
<1>6. CASE m.type = "cursor"
  <2>1. ResetDrag([v.view EXCEPT !.cursor = m.item]) \in Boxes(Declared)
    BY <1>1, <1>2, <1>3, <1>6, ChangeIs, ResetIs
  <2>2. Read(v, m) = [v EXCEPT !.view = ResetDrag([v.view EXCEPT !.cursor = m.item])]
    BY <1>6 DEF Read
  <2> QED
    BY <1>6, <2>1, <2>2, EndsAre
<1>7. CASE m.type = "items"
  <2> DEFINE c == IF m.window = v.open
                  THEN [v.view EXCEPT !.slots = [s \in DeclaredSlots |-> m.slots[s]]] ELSE v.view
  <2>1. c \in Boxes(Declared)
    <3>1. [s \in DeclaredSlots |-> m.slots[s]] \in [1 .. Declared -> StacksOrEmpty]
      BY <1>2, <1>3, <1>7
    <3> QED
      BY <1>1, <1>3, <3>1, ChangeIs
  <2>2. Read(v, m) = [v EXCEPT !.view = ResetDrag(c)]
    BY <1>7 DEF Read
  <2> HIDE DEF c
  <2>3. ResetDrag(c) \in Boxes(Declared)
    BY <2>1, ResetIs
  <2>4. Read(v, m) \in Ends /\ Read(v, m) = [open |-> v.open, view |-> ResetDrag(c)]
    BY <2>2, <2>3, EndsAre
  <2> QED
    BY <1>7, <2>4 DEF c
<1>8. CASE m.type = "confirm"
  BY <1>8 DEF Read
<1>9. CASE m.type = "close"
  <2>1. Read(v, m) = IF m.window = v.open THEN [open |-> 0, view |-> NoContainer] ELSE v
    BY <1>9 DEF Read
  <2>2. [open |-> 0, view |-> NoContainer] \in Ends
    BY NoContainerIs, EndsAre
  <2> QED
    BY <1>9, <2>1, <2>2
<1> QED
  BY <1>2, <1>4, <1>5, <1>6, <1>7, <1>8, <1>9

\* A queue that goes on from another.
Continues(S, p, q) ==
  p \in Seq(S) /\ q \in Seq(S) /\ Len(p) <= Len(q) /\ \A i \in 1 .. Len(p) : q[i] = p[i]

\* What the session has read of a queue it goes on from.
LEMMA ReadOn ==
  ASSUME NEW a \in Nat, NEW p, NEW q, Continues(ToClient(a), p, q), NEW v, NEW f, ReadThrough(f, p, v)
  PROVE  \E h : ReadThrough(h, q, v) /\ SameUpTo(Len(p), f, h)
<1> DEFINE step == [i \in 1 .. Len(q) |-> [w \in Ends |-> Read(w, q[i])]]
<1>0. /\ p \in Seq(ToClient(a)) /\ q \in Seq(ToClient(a)) /\ Len(p) <= Len(q)
      /\ \A i \in 1 .. Len(p) : q[i] = p[i]
  BY DEF Continues
<1>1. Len(p) \in Nat /\ Len(q) \in Nat /\ \A i \in 1 .. Len(q) : q[i] \in ToClient(a)
  BY <1>0
<1>2. step \in [1 .. Len(q) -> [Ends -> Ends]]
  BY <1>1, ReadIs
<1>3. f \in [0 .. Len(p) -> Ends] /\ f[0] = v /\ \A i \in 1 .. Len(p) : f[i] = Read(f[i - 1], p[i])
  BY DEF ReadThrough
<1>4. Advances(f, Len(p), step, Ends)
  <2> SUFFICES ASSUME NEW i \in 1 .. Len(p) PROVE f[i] = step[i][f[i - 1]]
    BY <1>3 DEF Advances
  <2>1. i \in 1 .. Len(q) /\ i - 1 \in 0 .. Len(p)
    BY <1>0, <1>1
  <2> QED
    BY <1>0, <1>3, <2>1
<1> HIDE DEF step
<1>5. PICK h : Advances(h, Len(q), step, Ends) /\ SameUpTo(Len(p), f, h)
  BY <1>0, <1>1, <1>2, <1>4, RunExtends
<1>6. \A i \in 1 .. Len(q) : h[i] = Read(h[i - 1], q[i])
  <2> TAKE i \in 1 .. Len(q)
  <2>1. i - 1 \in 0 .. Len(q)
    BY <1>1
  <2>2. h[i - 1] \in Ends
    BY <1>5, <2>1 DEF Advances
  <2> QED
    BY <1>5, <2>2 DEF step, Advances
<1>7. h[0] = v
  BY <1>1, <1>3, <1>5 DEF SameUpTo
<1> QED
  BY <1>5, <1>6, <1>7 DEF ReadThrough, Advances

LEMMA ReadExists ==
  ASSUME NEW a \in Nat, NEW q \in Seq(ToClient(a)), NEW v \in Ends
  PROVE  \E f : ReadThrough(f, q, v)
<1> DEFINE p == <<>>
           f == [i \in 0 .. 0 |-> v]
<1>1. Len(p) = 0 /\ Continues(ToClient(a), p, q)
  BY DEF Continues
<1>2. ReadThrough(f, p, v)
  BY <1>1 DEF ReadThrough
<1> HIDE DEF p, f
<1> QED
  BY <1>1, <1>2, ReadOn

\* The packets behind the first are read from where it leads.
LEMMA ReadTail ==
  ASSUME NEW S, NEW q \in Seq(S), q # <<>>, NEW v, NEW f, ReadThrough(f, q, v)
  PROVE  \E h : ReadThrough(h, Tail(q), Read(v, q[1])) /\ h[Len(Tail(q))] = f[Len(q)]
<1> DEFINE n == Len(Tail(q))
           h == [i \in 0 .. n |-> f[i + 1]]
<1>1. Len(q) \in Nat /\ n \in Nat /\ Len(q) = n + 1 /\ \A i \in 1 .. n : Tail(q)[i] = q[i + 1]
  OBVIOUS
<1>2. f \in [0 .. n + 1 -> Ends] /\ f[0] = v /\ \A i \in 1 .. n + 1 : f[i] = Read(f[i - 1], q[i])
  BY <1>1 DEF ReadThrough
<1>3. h \in [0 .. n -> Ends]
  BY <1>1, <1>2
<1>4. h[0] = Read(v, q[1])
  <2>1. 1 \in 1 .. n + 1 /\ 0 \in 0 .. n /\ 0 + 1 = 1 /\ 1 - 1 = 0
    BY <1>1
  <2> QED
    BY <1>2, <2>1
<1>5. \A i \in 1 .. n : h[i] = Read(h[i - 1], Tail(q)[i])
  <2> TAKE i \in 1 .. n
  <2>1. i + 1 \in 1 .. n + 1 /\ i \in 0 .. n /\ i - 1 \in 0 .. n /\ (i - 1) + 1 = i /\ (i + 1) - 1 = i
    BY <1>1
  <2> QED
    BY <1>1, <1>2, <2>1
<1>6. h[n] = f[Len(q)]
  BY <1>1
<1> QED
  BY <1>3, <1>4, <1>5, <1>6 DEF ReadThrough

LEMMA BoxedAre ==
  /\ \A b \in Boxed : b.held \in Boxes(Layout) /\ b.locked \in Nat /\ b = [held |-> b.held, locked |-> b.locked]
  /\ \A c \in Boxes(Layout), n \in Nat : [held |-> c, locked |-> n] \in Boxed
BY DEF Boxed

LEMMA MessageIs ==
  ASSUME NEW a \in Nat, NEW u \in Nat, NEW m \in ToServer(a, u)
  PROVE  /\ m.type \in {"click", "use", "close", "apology"} /\ m.window \in Nat
         /\ m.type = "click" => /\ m.click \in ClicksOn(Layout) /\ m.action \in 1 .. a /\ m.echo \in StacksOrEmpty
                                /\ m.touches \in SUBSET DeclaredSlots /\ m.read \in [DeclaredSlots -> Int]
         /\ m.type = "apology" => m.action \in 1 .. a
         /\ m.type = "use" => m.window \in 1 .. u
<1>1. 0 .. MaxUses \subseteq Nat /\ 1 .. u \subseteq Nat
  BY SizesAre
<1> QED
  BY <1>1 DEF ToServer

LEMMA HearIs ==
  ASSUME NEW a \in Nat, NEW u \in Nat, NEW m \in ToServer(a, u), NEW w, NEW b \in Boxed
  PROVE  /\ Hear(w, b, m) \in Boxed
         /\ Runs(w, b, m) => Hear(w, b, m) = [held |-> SlotClick(b.held, m.click), locked |-> b.locked]
         /\ ~Runs(w, b, m) => Hear(w, b, m).held = b.held
         /\ ~Runs(w, b, m) => Hear(w, b, m).locked =
              IF m.type = "apology" /\ m.window = w /\ m.action = b.locked THEN 0 ELSE b.locked
<1>1. b.held \in Boxes(Layout) /\ b.locked \in Nat /\ b = [held |-> b.held, locked |-> b.locked]
  BY BoxedAre
<1>2. CASE Runs(w, b, m)
  <2>1. m.click \in ClicksOn(Layout)
    BY <1>2, MessageIs DEF Runs
  <2>2. SlotClick(b.held, m.click) \in Boxes(Layout)
    BY <1>1, <2>1, SizesAre, SlotClickIs
  <2>3. Hear(w, b, m) = [b EXCEPT !.held = SlotClick(b.held, m.click)]
    BY <1>2 DEF Hear
  <2> DEFINE c == SlotClick(b.held, m.click)
  <2>4. [b EXCEPT !.held = c] = [held |-> c, locked |-> b.locked]
    <3> HIDE DEF c
    <3> QED
      BY <1>1
  <2> QED
    BY <1>1, <1>2, <2>2, <2>3, <2>4, BoxedAre
<1>3. CASE ~Runs(w, b, m) /\ m.type = "apology" /\ m.window = w /\ m.action = b.locked
  <2>1. Hear(w, b, m) = [b EXCEPT !.locked = 0]
    BY <1>3 DEF Hear
  <2>2. [b EXCEPT !.locked = 0] = [held |-> b.held, locked |-> 0]
    BY <1>1
  <2> QED
    BY <1>1, <1>3, <2>1, <2>2, BoxedAre
<1>4. CASE ~Runs(w, b, m) /\ ~ (m.type = "apology" /\ m.window = w /\ m.action = b.locked)
  BY <1>1, <1>4 DEF Hear
<1> QED
  BY <1>2, <1>3, <1>4

LEMMA HeardOn ==
  ASSUME NEW a \in Nat, NEW u \in Nat, NEW p, NEW q, Continues(ToServer(a, u), p, q),
         NEW w, NEW b, NEW g, HeardThrough(g, w, p, b)
  PROVE  \E h : HeardThrough(h, w, q, b) /\ SameUpTo(Len(p), g, h)
<1> DEFINE step == [i \in 1 .. Len(q) |-> [x \in Boxed |-> Hear(w, x, q[i])]]
<1>0. /\ p \in Seq(ToServer(a, u)) /\ q \in Seq(ToServer(a, u)) /\ Len(p) <= Len(q)
      /\ \A i \in 1 .. Len(p) : q[i] = p[i]
  BY DEF Continues
<1>1. Len(p) \in Nat /\ Len(q) \in Nat /\ \A i \in 1 .. Len(q) : q[i] \in ToServer(a, u)
  BY <1>0
<1>2. step \in [1 .. Len(q) -> [Boxed -> Boxed]]
  BY <1>1, HearIs
<1>3. g \in [0 .. Len(p) -> Boxed] /\ g[0] = b /\ \A i \in 1 .. Len(p) : g[i] = Hear(w, g[i - 1], p[i])
  BY DEF HeardThrough
<1>4. Advances(g, Len(p), step, Boxed)
  <2> SUFFICES ASSUME NEW i \in 1 .. Len(p) PROVE g[i] = step[i][g[i - 1]]
    BY <1>3 DEF Advances
  <2>1. i \in 1 .. Len(q) /\ i - 1 \in 0 .. Len(p)
    BY <1>0, <1>1
  <2> QED
    BY <1>0, <1>3, <2>1
<1> HIDE DEF step
<1>5. PICK h : Advances(h, Len(q), step, Boxed) /\ SameUpTo(Len(p), g, h)
  BY <1>0, <1>1, <1>2, <1>4, RunExtends
<1>6. \A i \in 1 .. Len(q) : h[i] = Hear(w, h[i - 1], q[i])
  <2> TAKE i \in 1 .. Len(q)
  <2>1. i - 1 \in 0 .. Len(q)
    BY <1>1
  <2>2. h[i - 1] \in Boxed
    BY <1>5, <2>1 DEF Advances
  <2> QED
    BY <1>5, <2>2 DEF step, Advances
<1>7. h[0] = b
  BY <1>1, <1>3, <1>5 DEF SameUpTo
<1> QED
  BY <1>5, <1>6, <1>7 DEF HeardThrough, Advances

LEMMA HeardExists ==
  ASSUME NEW a \in Nat, NEW u \in Nat, NEW q \in Seq(ToServer(a, u)), NEW w, NEW b \in Boxed
  PROVE  \E g : HeardThrough(g, w, q, b)
<1>1. PICK p : p = <<>>
  OBVIOUS
<1>2. PICK g : g = [i \in 0 .. 0 |-> b]
  OBVIOUS
<1>3. Len(p) = 0 /\ Continues(ToServer(a, u), p, q)
  BY <1>1 DEF Continues
<1>4. HeardThrough(g, w, p, b)
  BY <1>2, <1>3 DEF HeardThrough
<1> QED
  BY <1>3, <1>4, HeardOn

LEMMA HeardTail ==
  ASSUME NEW S, NEW q \in Seq(S), q # <<>>, NEW w, NEW b, NEW g, HeardThrough(g, w, q, b)
  PROVE  /\ HeardThrough([i \in 0 .. Len(Tail(q)) |-> g[i + 1]], w, Tail(q), Hear(w, b, q[1]))
         /\ Len(q) = Len(Tail(q)) + 1 /\ \A i \in 1 .. Len(Tail(q)) : Tail(q)[i] = q[i + 1]
<1> DEFINE n == Len(Tail(q))
           h == [i \in 0 .. n |-> g[i + 1]]
<1>1. Len(q) \in Nat /\ n \in Nat /\ Len(q) = n + 1 /\ \A i \in 1 .. n : Tail(q)[i] = q[i + 1]
  OBVIOUS
<1>2. g \in [0 .. n + 1 -> Boxed] /\ g[0] = b /\ \A i \in 1 .. n + 1 : g[i] = Hear(w, g[i - 1], q[i])
  BY <1>1 DEF HeardThrough
<1>3. h \in [0 .. n -> Boxed]
  BY <1>1, <1>2
<1>4. h[0] = Hear(w, b, q[1])
  <2>1. 1 \in 1 .. n + 1 /\ 0 \in 0 .. n /\ 0 + 1 = 1 /\ 1 - 1 = 0
    BY <1>1
  <2> QED
    BY <1>2, <2>1
<1>5. \A i \in 1 .. n : h[i] = Hear(w, h[i - 1], Tail(q)[i])
  <2> TAKE i \in 1 .. n
  <2>1. i + 1 \in 1 .. n + 1 /\ i \in 0 .. n /\ i - 1 \in 0 .. n /\ (i - 1) + 1 = i /\ (i + 1) - 1 = i
    BY <1>1
  <2> QED
    BY <1>1, <1>2, <2>1
<1> QED
  BY <1>1, <1>3, <1>4, <1>5 DEF HeardThrough

LEMMA ReadOpens ==
  ASSUME NEW a \in Nat, NEW m \in ToClient(a), NEW v \in Ends
  PROVE  /\ m.type \in {"slot", "cursor", "items", "confirm"} => Read(v, m).open = v.open
         /\ m.type = "open" => Read(v, m).open = m.window
         /\ m.type = "close" => Read(v, m).open \in {v.open, 0}
<1>0. \A x : [v EXCEPT !.view = x].open = v.open
  BY DEF Ends
<1>1. CASE m.type = "open"
  <2>1. Read(v, m) = [open |-> m.window, view |-> [NoContainer EXCEPT !.cursor = v.view.cursor]]
    BY <1>1 DEF Read
  <2> QED
    BY <1>1, <2>1
<1>2. CASE m.type = "slot"
  BY <1>2 DEF Read
<1>3. CASE m.type = "cursor"
  BY <1>0, <1>3 DEF Read
<1>4. CASE m.type = "items"
  BY <1>0, <1>4 DEF Read
<1>5. CASE m.type = "confirm"
  BY <1>5 DEF Read
<1>6. CASE m.type = "close"
  <2>1. Read(v, m) = IF m.window = v.open THEN [open |-> 0, view |-> NoContainer] ELSE v
    BY <1>6 DEF Read
  <2> QED
    BY <1>6, <2>1
<1> QED
  BY <1>1, <1>2, <1>3, <1>4, <1>5, <1>6, PacketIs

\* The slots of the window whole, and the cursor.
LEMMA ReadItems ==
  ASSUME NEW a \in Nat, NEW m \in ToClient(a), NEW v \in Ends, m.type = "items", m.window = v.open,
         NEW slots, slots = [s \in DeclaredSlots |-> m.slots[s]]
  PROVE  Read(v, m) = [open |-> v.open,
                       view |-> [slots |-> slots, cursor |-> v.view.cursor, drag |-> NoDrag]]
<1>1. v.view \in Boxes(Declared) /\ v.open \in Nat
  BY EndsAre
<1>2. v.view = [slots |-> v.view.slots, cursor |-> v.view.cursor, drag |-> v.view.drag]
  BY <1>1, BoxIs
<1>3. PICK c : c = [v.view EXCEPT !.slots = slots]
  OBVIOUS
<1>4. c = [slots |-> slots, cursor |-> v.view.cursor, drag |-> v.view.drag]
  BY <1>2, <1>3
<1>5. ResetDrag(c) = [slots |-> slots, cursor |-> v.view.cursor, drag |-> NoDrag]
  BY <1>4 DEF ResetDrag
<1>6. Read(v, m) = [v EXCEPT !.view = ResetDrag(c)]
  BY <1>3 DEF Read
<1> QED
  BY <1>5, <1>6 DEF Ends

LEMMA ReadCursor ==
  ASSUME NEW a \in Nat, NEW m \in ToClient(a), NEW v \in Ends, m.type = "cursor"
  PROVE  Read(v, m) = [open |-> v.open,
                       view |-> [slots |-> v.view.slots, cursor |-> m.item, drag |-> NoDrag]]
<1>1. v.view \in Boxes(Declared) /\ v.open \in Nat
  BY EndsAre
<1>2. v.view = [slots |-> v.view.slots, cursor |-> v.view.cursor, drag |-> v.view.drag]
  BY <1>1, BoxIs
<1>3. PICK c : c = [v.view EXCEPT !.cursor = m.item]
  OBVIOUS
<1>4. c = [slots |-> v.view.slots, cursor |-> m.item, drag |-> v.view.drag]
  BY <1>2, <1>3
<1>5. ResetDrag(c) = [slots |-> v.view.slots, cursor |-> m.item, drag |-> NoDrag]
  BY <1>4 DEF ResetDrag
<1>6. Read(v, m) = [v EXCEPT !.view = ResetDrag(c)]
  BY <1>3 DEF Read
<1> QED
  BY <1>5, <1>6 DEF Ends

\* What is read to a place in a queue, and on.
LEMMA ReadAt ==
  ASSUME NEW a \in Nat, NEW q \in Seq(ToClient(a)), NEW v, NEW f, ReadThrough(f, q, v)
  PROVE  /\ Len(q) \in Nat /\ f[0] = v /\ \A i \in 0 .. Len(q) : f[i] \in Ends
         /\ \A i \in 1 .. Len(q) : f[i - 1] \in Ends /\ q[i] \in ToClient(a) /\ f[i] = Read(f[i - 1], q[i])
<1>1. Len(q) \in Nat /\ \A i \in 1 .. Len(q) : q[i] \in ToClient(a) /\ i - 1 \in 0 .. Len(q)
  OBVIOUS
<1> QED
  BY <1>1 DEF ReadThrough

\* The window held stays the one it is until another opens or it is closed.
LEMMA OpenKept ==
  ASSUME NEW a \in Nat, NEW q \in Seq(ToClient(a)), NEW v, NEW f, ReadThrough(f, q, v),
         NEW i \in 0 .. Len(q), \A j \in 1 .. Len(q) : j > i => q[j].type \notin {"open", "close"}
  PROVE  \A j \in i .. Len(q) : f[j].open = f[i].open
<1>1. Len(q) \in Nat /\ \A j \in 1 .. Len(q) : /\ f[j - 1] \in Ends /\ q[j] \in ToClient(a)
                                               /\ f[j] = Read(f[j - 1], q[j])
  BY ReadAt
<1> DEFINE S == {k \in Nat : i + k <= Len(q) => f[i + k].open = f[i].open}
<1>2. 0 \in S
  BY <1>1
<1>3. ASSUME NEW k \in Nat, k \in S PROVE k + 1 \in S
  <2>1. SUFFICES ASSUME i + (k + 1) <= Len(q) PROVE f[i + (k + 1)].open = f[i].open
    OBVIOUS
  <2> DEFINE j == i + (k + 1)
  <2>2. j \in 1 .. Len(q) /\ j > i /\ j - 1 = i + k /\ i + k <= Len(q)
    BY <1>1, <2>1
  <2> HIDE DEF j
  <2>3. f[j - 1] \in Ends /\ q[j] \in ToClient(a) /\ f[j] = Read(f[j - 1], q[j])
    BY <1>1, <2>2
  <2>4. q[j].type \in {"slot", "cursor", "items", "confirm"}
    BY <2>2, <2>3, PacketIs
  <2>5. f[j].open = f[j - 1].open
    BY <2>3, <2>4, ReadOpens
  <2>6. f[i + k].open = f[i].open
    BY <1>3, <2>2
  <2> QED
    BY <2>2, <2>5, <2>6 DEF j
<1> HIDE DEF S
<1>4. Nat \subseteq S
  BY <1>2, <1>3, Induct
<1> SUFFICES ASSUME NEW j \in i .. Len(q) PROVE f[j].open = f[i].open
  OBVIOUS
<1>5. j - i \in Nat /\ i + (j - i) = j /\ i + (j - i) <= Len(q)
  BY <1>1
<1> QED
  BY <1>4, <1>5 DEF S

\* A window that has come to be held was opened by a packet.
Opened(f, q, w) ==
  \A k \in 0 .. Len(q) : f[k].open = w => \E i \in 1 .. k : q[i].type = "open" /\ q[i].window = w
LEMMA OpenedBy ==
  ASSUME NEW a \in Nat, NEW q \in Seq(ToClient(a)), NEW v, NEW f, ReadThrough(f, q, v),
         NEW w, w # 0, w # v.open
  PROVE  Opened(f, q, w)
<1>1. Len(q) \in Nat /\ f[0] = v /\ \A j \in 1 .. Len(q) : /\ f[j - 1] \in Ends /\ q[j] \in ToClient(a)
                                                           /\ f[j] = Read(f[j - 1], q[j])
  BY ReadAt
<1> DEFINE S == {k \in Nat : k <= Len(q) /\ f[k].open = w =>
                   \E i \in 1 .. k : q[i].type = "open" /\ q[i].window = w}
<1>2. 0 \in S
  BY <1>1
<1>3. ASSUME NEW k \in Nat, k \in S PROVE k + 1 \in S
  <2>1. SUFFICES ASSUME k + 1 <= Len(q), f[k + 1].open = w
                 PROVE  \E i \in 1 .. k + 1 : q[i].type = "open" /\ q[i].window = w
    OBVIOUS
  <2>2. k + 1 \in 1 .. Len(q) /\ (k + 1) - 1 = k /\ k <= Len(q) /\ k + 1 \in 1 .. k + 1
    BY <1>1, <2>1
  <2>3. f[k] \in Ends /\ q[k + 1] \in ToClient(a) /\ f[k + 1] = Read(f[k], q[k + 1])
    BY <1>1, <2>2
  <2>4. CASE f[k].open = w
    <3>1. PICK i \in 1 .. k : q[i].type = "open" /\ q[i].window = w
      BY <1>3, <2>2, <2>4
    <3>2. i \in 1 .. k + 1
      OBVIOUS
    <3> QED
      BY <3>1, <3>2
  <2>5. CASE f[k].open # w
    <3>1. q[k + 1].type \in {"open", "slot", "cursor", "items", "confirm", "close"}
      BY <2>3, PacketIs
    <3>2. q[k + 1].type = "open" /\ q[k + 1].window = w
      BY <2>1, <2>3, <2>5, <3>1, ReadOpens
    <3> QED
      BY <2>2, <3>2
  <2> QED
    BY <2>4, <2>5
<1> HIDE DEF S
<1>4. Nat \subseteq S
  BY <1>2, <1>3, Induct
<1> SUFFICES ASSUME NEW k \in 0 .. Len(q), f[k].open = w
             PROVE  \E i \in 1 .. k : q[i].type = "open" /\ q[i].window = w
  BY DEF Opened
<1>5. k \in Nat /\ k <= Len(q)
  BY <1>1
<1> QED
  BY <1>4, <1>5 DEF S

\* The window whole leaves nothing of what was shown before it.
LEMMA Overwritten ==
  ASSUME NEW a \in Nat, NEW q \in Seq(ToClient(a)), NEW v, NEW f, ReadThrough(f, q, v),
         NEW u, NEW h, ReadThrough(h, q, u), NEW i \in 1 .. Len(q), i + 1 <= Len(q),
         q[i].type = "items", q[i + 1].type = "cursor",
         f[i - 1].open = q[i].window, h[i - 1].open = q[i].window
  PROVE  h[Len(q)] = f[Len(q)]
<1>1. Len(q) \in Nat /\ \A j \in 1 .. Len(q) : /\ f[j - 1] \in Ends /\ q[j] \in ToClient(a)
                                               /\ f[j] = Read(f[j - 1], q[j])
  BY ReadAt
<1>2. \A j \in 1 .. Len(q) : h[j - 1] \in Ends /\ h[j] = Read(h[j - 1], q[j])
  BY ReadAt
<1>3. i + 1 \in 1 .. Len(q) /\ (i + 1) - 1 = i
  BY <1>1
<1> DEFINE slots == [s \in DeclaredSlots |-> q[i].slots[s]]
           W == q[i].window
<1>4. ASSUME NEW x \in Ends, x.open = W
      PROVE  Read(Read(x, q[i]), q[i + 1])
               = [open |-> W, view |-> [slots |-> slots, cursor |-> q[i + 1].item, drag |-> NoDrag]]
  <2>1. q[i] \in ToClient(a) /\ q[i + 1] \in ToClient(a) /\ Read(x, q[i]) \in Ends
    BY <1>1, <1>3, ReadIs
  <2> HIDE DEF slots
  <2>2. Read(x, q[i]) = [open |-> W, view |-> [slots |-> slots, cursor |-> x.view.cursor, drag |-> NoDrag]]
    BY <1>4, <2>1, ReadItems DEF slots
  <2> QED
    BY <2>1, <2>2, ReadCursor
<1>5. h[i + 1] = f[i + 1]
  <2>1. f[i + 1] = Read(Read(f[i - 1], q[i]), q[i + 1]) /\ f[i - 1] \in Ends
    BY <1>1, <1>3
  <2>2. h[i + 1] = Read(Read(h[i - 1], q[i]), q[i + 1]) /\ h[i - 1] \in Ends
    BY <1>2, <1>3
  <2> QED
    BY <1>4, <2>1, <2>2
<1> DEFINE S == {k \in Nat : (i + 1) + k <= Len(q) => h[(i + 1) + k] = f[(i + 1) + k]}
<1>6. 0 \in S
  BY <1>3, <1>5
<1>7. ASSUME NEW k \in Nat, k \in S PROVE k + 1 \in S
  <2>1. SUFFICES ASSUME (i + 1) + (k + 1) <= Len(q) PROVE h[(i + 1) + (k + 1)] = f[(i + 1) + (k + 1)]
    OBVIOUS
  <2> DEFINE j == (i + 1) + (k + 1)
  <2>2. j \in 1 .. Len(q) /\ j - 1 = (i + 1) + k /\ (i + 1) + k <= Len(q)
    BY <1>1, <2>1
  <2> HIDE DEF j
  <2>3. f[j] = Read(f[j - 1], q[j]) /\ h[j] = Read(h[j - 1], q[j])
    BY <1>1, <1>2, <2>2
  <2>4. h[j - 1] = f[j - 1]
    BY <1>7, <2>2
  <2> QED
    BY <2>3, <2>4 DEF j
<1> HIDE DEF S
<1>8. Nat \subseteq S
  BY <1>6, <1>7, Induct
<1>9. PICK k \in Nat : (i + 1) + k = Len(q)
  <2>1. Len(q) - (i + 1) \in Nat /\ (i + 1) + (Len(q) - (i + 1)) = Len(q)
    BY <1>1, <1>3
  <2> QED
    BY <2>1
<1>10. k \in S /\ (i + 1) + k <= Len(q)
  BY <1>1, <1>8, <1>9
<1>11. h[(i + 1) + k] = f[(i + 1) + k]
  BY <1>10 DEF S
<1> QED
  BY <1>9, <1>11

LEMMA ReadSlot ==
  ASSUME NEW a \in Nat, NEW m \in ToClient(a), NEW v \in Ends, m.type = "slot"
  PROVE  Read(v, m) = [open |-> v.open,
                       view |-> [slots |-> IF m.window = v.open THEN [v.view.slots EXCEPT ![m.slot] = m.item]
                                           ELSE v.view.slots,
                                 cursor |-> v.view.cursor, drag |-> v.view.drag]]
<1>1. v.view \in Boxes(Declared) /\ v.open \in Nat /\ v = [open |-> v.open, view |-> v.view]
  BY DEF Ends
<1>2. v.view = [slots |-> v.view.slots, cursor |-> v.view.cursor, drag |-> v.view.drag]
  BY <1>1, BoxIs
<1>3. PICK slots : slots = [v.view.slots EXCEPT ![m.slot] = m.item]
  OBVIOUS
<1>4. [v EXCEPT !.view.slots[m.slot] = m.item]
        = [open |-> v.open, view |-> [slots |-> slots, cursor |-> v.view.cursor, drag |-> v.view.drag]]
  <2>1. [v EXCEPT !.view.slots[m.slot] = m.item] = [v EXCEPT !.view = [v.view EXCEPT !.slots = slots]]
    BY <1>3
  <2>2. [v.view EXCEPT !.slots = slots] = [slots |-> slots, cursor |-> v.view.cursor, drag |-> v.view.drag]
    BY <1>2
  <2>3. \A x : [v EXCEPT !.view = x] = [open |-> v.open, view |-> x]
    BY <1>1
  <2> QED
    BY <2>1, <2>2, <2>3
<1>5. Read(v, m) = IF m.window = v.open THEN [v EXCEPT !.view.slots[m.slot] = m.item] ELSE v
  BY DEF Read
<1> QED
  BY <1>1, <1>2, <1>3, <1>4, <1>5

\* Set Slots change slots and nothing else, and only those they name.
LEMMA OnlySlots ==
  ASSUME NEW a \in Nat, NEW q \in Seq(ToClient(a)), NEW v, NEW f, ReadThrough(f, q, v),
         \A j \in 1 .. Len(q) : q[j].type \in {"slot", "confirm"}
  PROVE  \A k \in 0 .. Len(q) :
           /\ f[k].open = v.open /\ f[k].view.cursor = v.view.cursor /\ f[k].view.drag = v.view.drag
           /\ \A s \in 1 .. Declared : (\A j \in 1 .. Len(q) : q[j].type = "slot" => q[j].slot # s)
                => f[k].view.slots[s] = v.view.slots[s]
<1>1. Len(q) \in Nat /\ f[0] = v /\ \A j \in 1 .. Len(q) : /\ f[j - 1] \in Ends /\ q[j] \in ToClient(a)
                                                           /\ f[j] = Read(f[j - 1], q[j])
  BY ReadAt
<1> DEFINE Unnamed(s) == \A j \in 1 .. Len(q) : q[j].type = "slot" => q[j].slot # s
           Stays(k) == /\ f[k].open = v.open /\ f[k].view.cursor = v.view.cursor
                       /\ f[k].view.drag = v.view.drag
                       /\ \A s \in 1 .. Declared : Unnamed(s) => f[k].view.slots[s] = v.view.slots[s]
           S == {k \in Nat : k <= Len(q) => Stays(k)}
<1>2. 0 \in S
  BY <1>1
<1>3. ASSUME NEW k \in Nat, k \in S PROVE k + 1 \in S
  <2>1. SUFFICES ASSUME k + 1 <= Len(q) PROVE Stays(k + 1)
    OBVIOUS
  <2>2. k + 1 \in 1 .. Len(q) /\ (k + 1) - 1 = k /\ k <= Len(q)
    BY <1>1, <2>1
  <2> DEFINE m == q[k + 1]
  <2>3. f[k] \in Ends /\ m \in ToClient(a) /\ f[k + 1] = Read(f[k], m) /\ m.type \in {"slot", "confirm"}
    BY <1>1, <2>2
  <2>4. Stays(k)
    BY <1>3, <2>2
  <2>5. \A s : Unnamed(s) /\ m.type = "slot" => m.slot # s
    BY <2>2
  <2> HIDE DEF Unnamed, m
  <2>6. CASE m.type = "confirm"
    <3>1. f[k + 1] = f[k]
      BY <2>3, <2>6 DEF Read
    <3> QED
      BY <2>4, <3>1
  <2>7. CASE m.type = "slot"
    <3>1. f[k + 1] = [open |-> f[k].open,
                      view |-> [slots |-> IF m.window = f[k].open THEN [f[k].view.slots EXCEPT ![m.slot] = m.item]
                                          ELSE f[k].view.slots,
                                cursor |-> f[k].view.cursor, drag |-> f[k].view.drag]]
      BY <2>3, <2>7, ReadSlot
    <3>2. DOMAIN f[k].view.slots = 1 .. Declared
      BY <2>3, EndsAre, BoxIs
    <3>3. \A s \in 1 .. Declared : s # m.slot => f[k + 1].view.slots[s] = f[k].view.slots[s]
      <4>1. f[k + 1].view.slots = IF m.window = f[k].open THEN [f[k].view.slots EXCEPT ![m.slot] = m.item]
                                  ELSE f[k].view.slots
        BY <3>1
      <4> QED
        BY <3>2, <4>1
    <3>4. \A s \in 1 .. Declared : Unnamed(s) => f[k + 1].view.slots[s] = v.view.slots[s]
      BY <2>4, <2>5, <2>7, <3>3
    <3>5. f[k + 1].open = f[k].open /\ f[k + 1].view.cursor = f[k].view.cursor
          /\ f[k + 1].view.drag = f[k].view.drag
      BY <3>1
    <3> QED
      BY <2>4, <3>4, <3>5
  <2> QED
    BY <2>3, <2>6, <2>7
<1> HIDE DEF S
<1>4. Nat \subseteq S
  BY <1>2, <1>3, Induct
<1> SUFFICES ASSUME NEW k \in 0 .. Len(q) PROVE Stays(k)
  OBVIOUS
<1>5. k \in Nat /\ k <= Len(q)
  BY <1>1
<1> HIDE DEF Stays
<1> QED
  BY <1>4, <1>5 DEF S

\* From two views Set Slots lead to the same slot where they began with the same.
LEMMA SameSlots ==
  ASSUME NEW a \in Nat, NEW q \in Seq(ToClient(a)), NEW v, NEW f, ReadThrough(f, q, v),
         NEW u, NEW h, ReadThrough(h, q, u), u.open = v.open,
         \A j \in 1 .. Len(q) : q[j].type \in {"slot", "confirm"},
         NEW s \in 1 .. Declared, u.view.slots[s] = v.view.slots[s]
  PROVE  h[Len(q)].view.slots[s] = f[Len(q)].view.slots[s]
<1>1. Len(q) \in Nat /\ f[0] = v /\ \A j \in 1 .. Len(q) : /\ f[j - 1] \in Ends /\ q[j] \in ToClient(a)
                                                           /\ f[j] = Read(f[j - 1], q[j])
  BY ReadAt
<1>2. h[0] = u /\ \A j \in 1 .. Len(q) : h[j - 1] \in Ends /\ h[j] = Read(h[j - 1], q[j])
  BY ReadAt
<1>3. \A k \in 0 .. Len(q) : f[k].open = v.open /\ h[k].open = v.open
  BY OnlySlots
<1> DEFINE S == {k \in Nat : k <= Len(q) => h[k].view.slots[s] = f[k].view.slots[s]}
<1>4. 0 \in S
  BY <1>1, <1>2
<1>5. ASSUME NEW k \in Nat, k \in S PROVE k + 1 \in S
  <2>1. SUFFICES ASSUME k + 1 <= Len(q) PROVE h[k + 1].view.slots[s] = f[k + 1].view.slots[s]
    OBVIOUS
  <2>2. k + 1 \in 1 .. Len(q) /\ (k + 1) - 1 = k /\ k <= Len(q) /\ k \in 0 .. Len(q)
    BY <1>1, <2>1
  <2> DEFINE m == q[k + 1]
  <2>3. /\ f[k] \in Ends /\ h[k] \in Ends /\ m \in ToClient(a) /\ m.type \in {"slot", "confirm"}
        /\ f[k + 1] = Read(f[k], m) /\ h[k + 1] = Read(h[k], m)
    BY <1>1, <1>2, <2>2
  <2>4. h[k].view.slots[s] = f[k].view.slots[s] /\ h[k].open = f[k].open
    BY <1>3, <1>5, <2>2
  <2> HIDE DEF m
  <2>5. CASE m.type = "confirm"
    <3>1. f[k + 1] = f[k] /\ h[k + 1] = h[k]
      BY <2>3, <2>5 DEF Read
    <3> QED
      BY <2>4, <3>1
  <2>6. CASE m.type = "slot"
    <3>1. f[k + 1].view.slots = IF m.window = f[k].open THEN [f[k].view.slots EXCEPT ![m.slot] = m.item]
                                ELSE f[k].view.slots
      <4>1. Read(f[k], m) = [open |-> f[k].open,
              view |-> [slots |-> IF m.window = f[k].open THEN [f[k].view.slots EXCEPT ![m.slot] = m.item]
                                  ELSE f[k].view.slots,
                        cursor |-> f[k].view.cursor, drag |-> f[k].view.drag]]
        BY <2>3, <2>6, ReadSlot
      <4> QED
        BY <2>3, <4>1
    <3>2. h[k + 1].view.slots = IF m.window = h[k].open THEN [h[k].view.slots EXCEPT ![m.slot] = m.item]
                                ELSE h[k].view.slots
      <4>1. Read(h[k], m) = [open |-> h[k].open,
              view |-> [slots |-> IF m.window = h[k].open THEN [h[k].view.slots EXCEPT ![m.slot] = m.item]
                                  ELSE h[k].view.slots,
                        cursor |-> h[k].view.cursor, drag |-> h[k].view.drag]]
        BY <2>3, <2>6, ReadSlot
      <4> QED
        BY <2>3, <4>1
    <3>3. DOMAIN f[k].view.slots = 1 .. Declared /\ DOMAIN h[k].view.slots = 1 .. Declared
      BY <2>3, EndsAre, BoxIs
    <3> QED
      BY <2>4, <3>1, <3>2, <3>3
  <2> QED
    BY <2>3, <2>5, <2>6
<1> HIDE DEF S
<1>6. Nat \subseteq S
  BY <1>4, <1>5, Induct
<1> QED
  BY <1>1, <1>6 DEF S

LEMMA HeardAt ==
  ASSUME NEW a \in Nat, NEW u \in Nat, NEW q \in Seq(ToServer(a, u)), NEW w, NEW b, NEW g, HeardThrough(g, w, q, b)
  PROVE  /\ Len(q) \in Nat /\ g[0] = b /\ \A i \in 0 .. Len(q) : g[i] \in Boxed
         /\ \A i \in 1 .. Len(q) : g[i - 1] \in Boxed /\ q[i] \in ToServer(a, u) /\ g[i] = Hear(w, g[i - 1], q[i])
<1>1. Len(q) \in Nat /\ \A i \in 1 .. Len(q) : q[i] \in ToServer(a, u) /\ i - 1 \in 0 .. Len(q)
  OBVIOUS
<1> QED
  BY <1>1 DEF HeardThrough

LEMMA HearLocks ==
  ASSUME NEW a \in Nat, NEW u \in Nat, NEW m \in ToServer(a, u), NEW w, NEW b \in Boxed
  PROVE  /\ Hear(w, b, m).locked =
              IF m.type = "apology" /\ m.window = w /\ m.action = b.locked THEN 0 ELSE b.locked
<1>1. Runs(w, b, m) => m.type # "apology" /\ Hear(w, b, m).locked = b.locked
  <2>1. Runs(w, b, m) => m.type = "click"
    BY DEF Runs
  <2>2. Runs(w, b, m) => Hear(w, b, m) = [held |-> SlotClick(b.held, m.click), locked |-> b.locked]
    BY HearIs
  <2> QED
    BY <2>1, <2>2
<1> QED
  BY <1>1, HearIs

\* Unlocked it stays, as long as it accepts.
LEMMA StaysUnlocked ==
  ASSUME NEW a \in Nat, NEW u \in Nat, NEW q \in Seq(ToServer(a, u)), NEW w, NEW b, NEW g,
         HeardThrough(g, w, q, b), NEW i \in 0 .. Len(q), g[i].locked = 0
  PROVE  \A j \in i .. Len(q) : g[j].locked = 0
<1>1. Len(q) \in Nat /\ \A j \in 1 .. Len(q) : /\ g[j - 1] \in Boxed /\ q[j] \in ToServer(a, u)
                                               /\ g[j] = Hear(w, g[j - 1], q[j])
  BY HeardAt
<1> DEFINE S == {k \in Nat : i + k <= Len(q) => g[i + k].locked = 0}
<1>2. 0 \in S
  BY <1>1
<1>3. ASSUME NEW k \in Nat, k \in S PROVE k + 1 \in S
  <2>1. SUFFICES ASSUME i + (k + 1) <= Len(q) PROVE g[i + (k + 1)].locked = 0
    OBVIOUS
  <2> DEFINE j == i + (k + 1)
  <2>2. j \in 1 .. Len(q) /\ j - 1 = i + k /\ i + k <= Len(q)
    BY <1>1, <2>1
  <2> HIDE DEF j
  <2>3. g[j - 1] \in Boxed /\ q[j] \in ToServer(a, u) /\ g[j] = Hear(w, g[j - 1], q[j]) /\ g[j - 1].locked = 0
    BY <1>1, <1>3, <2>2
  <2>4. g[j].locked = 0
    BY <2>3, HearLocks
  <2> QED
    BY <2>4 DEF j
<1> HIDE DEF S
<1>4. Nat \subseteq S
  BY <1>2, <1>3, Induct
<1> SUFFICES ASSUME NEW j \in i .. Len(q) PROVE g[j].locked = 0
  OBVIOUS
<1>5. j - i \in Nat /\ i + (j - i) = j /\ i + (j - i) <= Len(q)
  BY <1>1
<1> QED
  BY <1>4, <1>5 DEF S

\* A server that is deaf, or is told nothing of its window, runs nothing.
LEMMA StaysDeaf ==
  ASSUME NEW a \in Nat, NEW u \in Nat, NEW q \in Seq(ToServer(a, u)), NEW w, NEW b, NEW g,
         HeardThrough(g, w, q, b),
         \A j \in 1 .. Len(q) : ~ (q[j].type = "apology" /\ q[j].window = w),
         b.locked # 0 \/ \A j \in 1 .. Len(q) : ~ (q[j].type = "click" /\ q[j].window = w)
  PROVE  /\ \A k \in 0 .. Len(q) : g[k] = b
         /\ \A j \in 1 .. Len(q) : ~Runs(w, g[j - 1], q[j])
<1>1. Len(q) \in Nat /\ g[0] = b /\ \A j \in 1 .. Len(q) : /\ g[j - 1] \in Boxed /\ q[j] \in ToServer(a, u)
                                                           /\ g[j] = Hear(w, g[j - 1], q[j])
  BY HeardAt
<1>2. \A j \in 1 .. Len(q) : ~Runs(w, b, q[j]) /\ Hear(w, b, q[j]) = b
  BY DEF Runs, Hear
<1> DEFINE S == {k \in Nat : k <= Len(q) => g[k] = b}
<1>3. 0 \in S
  BY <1>1
<1>4. ASSUME NEW k \in Nat, k \in S PROVE k + 1 \in S
  <2>1. SUFFICES ASSUME k + 1 <= Len(q) PROVE g[k + 1] = b
    OBVIOUS
  <2>2. k + 1 \in 1 .. Len(q) /\ (k + 1) - 1 = k /\ k <= Len(q)
    BY <1>1, <2>1
  <2> QED
    BY <1>1, <1>2, <1>4, <2>2
<1> HIDE DEF S
<1>5. Nat \subseteq S
  BY <1>3, <1>4, Induct
<1>6. \A k \in 0 .. Len(q) : g[k] = b
  <2> TAKE k \in 0 .. Len(q)
  <2>1. k \in S /\ k <= Len(q)
    BY <1>1, <1>5
  <2> QED
    BY <2>1 DEF S
<1>7. \A j \in 1 .. Len(q) : j - 1 \in 0 .. Len(q)
  BY <1>1
<1> QED
  BY <1>2, <1>6, <1>7

\* The acknowledgement of the rejection unlocks.
LEMMA Acknowledged ==
  ASSUME NEW a \in Nat, NEW u \in Nat, NEW q \in Seq(ToServer(a, u)), NEW w, NEW b, NEW g,
         HeardThrough(g, w, q, b), NEW i \in 1 .. Len(q),
         q[i].type = "apology", q[i].window = w, q[i].action = b.locked
  PROVE  g[Len(q)].locked = 0
<1>1. Len(q) \in Nat /\ g[0] = b /\ \A j \in 1 .. Len(q) : /\ g[j - 1] \in Boxed /\ q[j] \in ToServer(a, u)
                                                           /\ g[j] = Hear(w, g[j - 1], q[j])
  BY HeardAt
<1> DEFINE S == {k \in Nat : k <= Len(q) => g[k].locked \in {0, b.locked}}
<1>2. 0 \in S
  BY <1>1
<1>3. ASSUME NEW k \in Nat, k \in S PROVE k + 1 \in S
  <2>1. SUFFICES ASSUME k + 1 <= Len(q) PROVE g[k + 1].locked \in {0, b.locked}
    OBVIOUS
  <2>2. k + 1 \in 1 .. Len(q) /\ (k + 1) - 1 = k /\ k <= Len(q)
    BY <1>1, <2>1
  <2>3. g[k] \in Boxed /\ q[k + 1] \in ToServer(a, u) /\ g[k + 1] = Hear(w, g[k], q[k + 1])
        /\ g[k].locked \in {0, b.locked}
    BY <1>1, <1>3, <2>2
  <2> QED
    BY <2>3, HearLocks
<1> HIDE DEF S
<1>4. Nat \subseteq S
  BY <1>2, <1>3, Induct
<1>5. i - 1 \in Nat /\ i - 1 <= Len(q) /\ i \in 0 .. Len(q) /\ Len(q) \in i .. Len(q)
  BY <1>1
<1>6. g[i - 1].locked \in {0, b.locked}
  BY <1>4, <1>5 DEF S
<1>7. g[i].locked = 0
  BY <1>1, <1>6, HearLocks
<1> QED
  BY <1>5, <1>7, StaysUnlocked

-----------------------------------------------------------------------------
(* The exchange is kept.                                                    *)

LEMMA TypesAre ==
  ASSUME WindowTypes
  PROVE  /\ action \in Nat /\ uses \in Nat /\ open \in Nat /\ serving \in Nat /\ locked \in Nat
         /\ view \in Boxes(Declared) /\ held \in Boxes(Layout)
         /\ toServer \in Seq(ToServer(action, uses)) /\ toClient \in Seq(ToClient(action))
         /\ Len(toServer) \in Nat /\ Len(toClient) \in Nat
         /\ \A i \in 1 .. Len(toServer) : toServer[i] \in ToServer(action, uses)
         /\ \A i \in 1 .. Len(toClient) : toClient[i] \in ToClient(action)
         /\ \A s \in DeclaredSlots : sent[s] \in Nat
BY SizesAre DEF WindowTypes, WindowTypeOK

LEMMA AppendIs ==
  ASSUME NEW S, NEW q \in Seq(S), NEW m
  PROVE  /\ Len(q) \in Nat /\ Len(Append(q, m)) = Len(q) + 1 /\ Append(q, m)[Len(q) + 1] = m
         /\ \A i \in 1 .. Len(q) : Append(q, m)[i] = q[i]
OBVIOUS

LEMMA TailIs ==
  ASSUME NEW S, NEW q \in Seq(S), q # <<>>
  PROVE  /\ Len(q) \in Nat /\ Len(q) = Len(Tail(q)) + 1 /\ Len(Tail(q)) \in Nat
         /\ \A i \in 1 .. Len(Tail(q)) : Tail(q)[i] = q[i + 1] /\ i + 1 \in 1 .. Len(q)
OBVIOUS

LEMMA ConcatIs ==
  ASSUME NEW S, NEW q \in Seq(S), NEW r \in Seq(S)
  PROVE  /\ Len(q) \in Nat /\ Len(r) \in Nat /\ Len(q \o r) = Len(q) + Len(r)
         /\ \A i \in 1 .. Len(q) : (q \o r)[i] = q[i]
         /\ \A i \in 1 .. Len(r) : (q \o r)[Len(q) + i] = r[i]
OBVIOUS

\* What the session says and reads of a window it has heard of.
LEMMA ClientNumbers ==
  ASSUME WindowTypes, Numbers, serving' = serving, uses' = uses,
         NEW C, C = {0, open} \cup {toClient[i].window : i \in {j \in 1 .. Len(toClient) : toClient[j].type # "cursor"}},
         open' \in C,
         toServer' = toServer \/ \E m : /\ m.type # "use" /\ m.window \in C
                                        /\ toServer' = Append(toServer, m),
         toClient' = toClient \/ (toClient # <<>> /\ toClient' = Tail(toClient))
  PROVE  Numbers'
<1>1. /\ Len(toServer) \in Nat /\ Len(toClient) \in Nat /\ uses \in Nat /\ open \in Nat
      /\ toServer \in Seq(ToServer(action, uses)) /\ toClient \in Seq(ToClient(action))
      /\ \A i \in 1 .. Len(toServer) : toServer[i].type = "use" => toServer[i].window \in 1 .. uses
  BY TypesAre, MessageIs
<1>2. \A c \in C : c <= uses /\ \A i \in 1 .. Len(toServer) : toServer[i].type = "use" => c < toServer[i].window
  BY <1>1 DEF Numbers
<1>3. \A j \in 1 .. Len(toClient') : \E i \in 1 .. Len(toClient) : toClient'[j] = toClient[i]
  BY <1>1, TailIs
<1>4. \A j \in 1 .. Len(toClient') : toClient'[j].type # "cursor" => toClient'[j].window \in C
  BY <1>3
<1>5. \A j \in 1 .. Len(toServer') :
         \/ j \in 1 .. Len(toServer) /\ toServer'[j] = toServer[j]
         \/ j = Len(toServer) + 1 /\ toServer'[j].type # "use" /\ toServer'[j].window \in C
  <2>1. CASE toServer' = toServer
    BY <2>1
  <2>2. ASSUME NEW m, m.type # "use", m.window \in C, toServer' = Append(toServer, m)
        PROVE  \A j \in 1 .. Len(toServer') :
                 \/ j \in 1 .. Len(toServer) /\ toServer'[j] = toServer[j]
                 \/ j = Len(toServer) + 1 /\ toServer'[j].type # "use" /\ toServer'[j].window \in C
    <3>1. /\ Len(toServer') = Len(toServer) + 1 /\ toServer'[Len(toServer) + 1] = m
          /\ \A i \in 1 .. Len(toServer) : toServer'[i] = toServer[i]
      BY <1>1, <2>2, AppendIs
    <3>2. \A j \in 1 .. Len(toServer) + 1 : j \in 1 .. Len(toServer) \/ j = Len(toServer) + 1
      BY <1>1
    <3> QED
      BY <2>2, <3>1, <3>2
  <2> QED
    BY <2>1, <2>2
<1>6. \A i \in 1 .. Len(toServer') : toServer'[i].window <= uses
  BY <1>2, <1>5 DEF Numbers
<1>7. serving <= uses
  BY DEF Numbers
<1>8. ASSUME NEW i \in 1 .. Len(toServer'), toServer'[i].type = "use"
      PROVE  /\ open' < toServer'[i].window /\ serving < toServer'[i].window
             /\ \A j \in 1 .. Len(toServer') :
                  toServer'[j].type # "use" \/ j < i => toServer'[j].window < toServer'[i].window
             /\ \A j \in 1 .. Len(toClient') :
                  toClient'[j].type # "cursor" => toClient'[j].window < toServer'[i].window
  <2>1. i \in 1 .. Len(toServer) /\ toServer'[i] = toServer[i]
    BY <1>5, <1>8
  <2>2. serving < toServer[i].window
        /\ \A j \in 1 .. Len(toServer) : toServer[j].type # "use" \/ j < i => toServer[j].window < toServer[i].window
    BY <1>8, <2>1 DEF Numbers
  <2>3. \A c \in C : c < toServer[i].window
    BY <1>2, <1>8, <2>1
  <2>4. ASSUME NEW j \in 1 .. Len(toServer'), toServer'[j].type # "use" \/ j < i
        PROVE  toServer'[j].window < toServer'[i].window
    BY <1>5, <2>1, <2>2, <2>3, <2>4
  <2> QED
    BY <1>4, <2>1, <2>2, <2>3, <2>4
<1>9. open' <= uses /\ \A j \in 1 .. Len(toClient') : toClient'[j].type # "cursor" => toClient'[j].window <= uses
  BY <1>2, <1>4
<1> QED
  BY <1>6, <1>7, <1>8, <1>9 DEF Numbers

\* What the server says is of the window it serves, or of the one it is asked for.
LEMMA ServerNumbers ==
  ASSUME WindowTypes, Numbers, open' = open, uses' = uses, NEW w, NEW news \in Seq(ToClient(action)),
         \/ w = serving /\ (toServer' = toServer \/ (toServer # <<>> /\ toServer' = Tail(toServer)))
         \/ /\ toServer # <<>> /\ toServer' = Tail(toServer)
            /\ toServer[1].type = "use" /\ w = toServer[1].window,
         serving' \in {0, w}, toClient' = toClient \o news,
         \A j \in 1 .. Len(news) : news[j].type # "cursor" => news[j].window \in {serving, w}
  PROVE  Numbers'
<1>1. /\ Len(toServer) \in Nat /\ Len(toClient) \in Nat /\ uses \in Nat /\ open \in Nat
      /\ toServer \in Seq(ToServer(action, uses)) /\ toClient \in Seq(ToClient(action))
      /\ \A i \in 1 .. Len(toServer) : toServer[i].type = "use" => toServer[i].window \in 1 .. uses
  BY TypesAre, MessageIs
<1>2. toServer # <<>> => 1 \in 1 .. Len(toServer)
  BY <1>1
<1>3. PICK d \in {0, 1} : /\ \A j \in 1 .. Len(toServer') : j + d \in 1 .. Len(toServer) /\ toServer'[j] = toServer[j + d]
                          /\ w = serving \/ (d = 1 /\ toServer # <<>> /\ toServer[1].type = "use" /\ w = toServer[1].window)
  <2>1. CASE toServer' = toServer /\ w = serving
    BY <1>1, <2>1
  <2>2. CASE toServer # <<>> /\ toServer' = Tail(toServer)
    <3>1. \A j \in 1 .. Len(toServer') : j + 1 \in 1 .. Len(toServer) /\ toServer'[j] = toServer[j + 1]
      BY <1>1, <2>2, TailIs
    <3> QED
      BY <2>2, <3>1
  <2> QED
    BY <2>1, <2>2
<1>4. w <= uses /\ serving <= uses
  BY <1>1, <1>2, <1>3 DEF Numbers
<1>5. \A j \in 1 .. Len(toClient') :
         \/ j \in 1 .. Len(toClient) /\ toClient'[j] = toClient[j]
         \/ toClient'[j].type # "cursor" => toClient'[j].window \in {serving, w}
  <2>1. /\ Len(news) \in Nat /\ Len(toClient') = Len(toClient) + Len(news)
        /\ \A i \in 1 .. Len(toClient) : toClient'[i] = toClient[i]
        /\ \A i \in 1 .. Len(news) : toClient'[Len(toClient) + i] = news[i]
    BY <1>1, ConcatIs
  <2> TAKE j \in 1 .. Len(toClient')
  <2>2. CASE j \in 1 .. Len(toClient)
    BY <2>1, <2>2
  <2>3. CASE j \notin 1 .. Len(toClient)
    <3>1. j - Len(toClient) \in 1 .. Len(news) /\ Len(toClient) + (j - Len(toClient)) = j
      BY <1>1, <2>1, <2>3
    <3>2. toClient'[j] = news[j - Len(toClient)]
      BY <2>1, <3>1
    <3> QED
      BY <3>1, <3>2
  <2> QED
    BY <2>2, <2>3
<1>6. \A j \in 1 .. Len(toClient') : toClient'[j].type # "cursor" => toClient'[j].window <= uses
  BY <1>4, <1>5 DEF Numbers
<1>7. \A i \in 1 .. Len(toServer') : toServer'[i].window <= uses
  BY <1>3 DEF Numbers
<1>8. ASSUME NEW i \in 1 .. Len(toServer'), toServer'[i].type = "use"
      PROVE  /\ open < toServer'[i].window /\ serving' < toServer'[i].window
             /\ \A j \in 1 .. Len(toServer') :
                  toServer'[j].type # "use" \/ j < i => toServer'[j].window < toServer'[i].window
             /\ \A j \in 1 .. Len(toClient') :
                  toClient'[j].type # "cursor" => toClient'[j].window < toServer'[i].window
  <2> DEFINE k == i + d
             x == toServer[k].window
  <2>1. k \in 1 .. Len(toServer) /\ toServer'[i] = toServer[k] /\ toServer[k].type = "use"
    BY <1>3, <1>8
  <2>2. /\ open < x /\ serving < x /\ x \in 1 .. uses
        /\ \A j \in 1 .. Len(toServer) : toServer[j].type # "use" \/ j < k => toServer[j].window < x
        /\ \A j \in 1 .. Len(toClient) : toClient[j].type # "cursor" => toClient[j].window < x
    BY <1>1, <2>1 DEF Numbers
  <2>3. w < x
    <3>1. CASE w = serving
      BY <2>2, <3>1
    <3>2. CASE d = 1 /\ toServer # <<>> /\ w = toServer[1].window
      <4>1. 1 < k /\ 1 \in 1 .. Len(toServer)
        BY <1>2, <2>1, <3>2
      <4> QED
        BY <2>2, <3>2, <4>1
    <3> QED
      BY <1>3, <3>1, <3>2
  <2>4. ASSUME NEW j \in 1 .. Len(toServer'), toServer'[j].type # "use" \/ j < i
        PROVE  toServer'[j].window < x
    <3>1. j + d \in 1 .. Len(toServer) /\ toServer'[j] = toServer[j + d]
      BY <1>3
    <3>2. j < i => j + d < k
      OBVIOUS
    <3> HIDE DEF k, x
    <3> QED
      BY <2>2, <2>4, <3>1, <3>2
  <2>5. serving' < x
    BY <2>2, <2>3
  <2> HIDE DEF k
  <2>6. \A j \in 1 .. Len(toClient') : toClient'[j].type # "cursor" => toClient'[j].window < x
    BY <1>5, <2>2, <2>3
  <2> QED
    BY <2>1, <2>2, <2>4, <2>5, <2>6
<1>9. open' <= uses /\ serving' <= uses
  BY <1>1, <1>4 DEF Numbers
<1> QED
  BY <1>6, <1>7, <1>8, <1>9 DEF Numbers

\* The packet of a click.
LEMMA ClickSent ==
  ASSUME NEW click, Clicks(click)
  PROVE  \E m : /\ toServer' = Append(toServer, m)
                /\ m.type = "click" /\ m.window = open /\ m.click = click /\ m.echo = Echo(view, click)
                /\ m.touches = view.drag.over \cup ({click.slot} \cap DeclaredSlots)
                /\ m.read = [s \in DeclaredSlots |-> sent[s] - Unread(s)]
                /\ open' = open /\ toClient' = toClient /\ sent' = sent /\ view' = PredictClick(view, click)
<1> DEFINE m == [type |-> "click", window |-> open, click |-> click,
                 action |-> action', echo |-> Echo(view, click),
                 touches |-> view.drag.over \cup ({click.slot} \cap DeclaredSlots),
                 read |-> [s \in DeclaredSlots |-> sent[s] - Unread(s)]]
<1>1. toServer' = Append(toServer, m)
  BY DEF Clicks
<1>2. /\ m.type = "click" /\ m.window = open /\ m.click = click /\ m.echo = Echo(view, click)
      /\ m.touches = view.drag.over \cup ({click.slot} \cap DeclaredSlots)
      /\ m.read = [s \in DeclaredSlots |-> sent[s] - Unread(s)]
  OBVIOUS
<1>3. open' = open /\ toClient' = toClient /\ sent' = sent /\ view' = PredictClick(view, click)
  BY DEF Clicks
<1> HIDE DEF m
<1> QED
  BY <1>1, <1>2, <1>3

\* The steps of the player, in kinds.
LEMMA PlayerSteps ==
  ASSUME WindowTypes, Player \/ ClickOfDrag
  PROVE  \/ /\ \E click \in ClicksOn(Layout) : Clicks(click)
            /\ UNCHANGED <<serving, held, locked, uses>>
         \/ /\ UNCHANGED <<open, view, serving, held, locked, toServer, toClient, uses, sent, apart>>
         \/ /\ open' = 0 /\ toServer' = Append(toServer, [type |-> "close", window |-> open])
            /\ UNCHANGED <<serving, held, locked, toClient, uses, sent, apart>>
         \/ /\ uses' = uses + 1 /\ toServer' = Append(toServer, [type |-> "use", window |-> uses'])
            /\ UNCHANGED <<open, view, serving, held, locked, toClient, sent, apart>>
<1>1. CASE ClickSingle
  <2>1. \E click \in SingleClicks : Clicks(click)
    BY <1>1 DEF ClickSingle
  <2> QED
    BY <1>1, <2>1, SinglesAre DEF ClickSingle, server
<1>2. CASE LetGoOfDrag
  BY <1>2 DEF LetGoOfDrag, server, history
<1>3. CASE CloseWindow
  BY <1>3 DEF CloseWindow, Shut, server, bounds, history
<1>4. CASE UseBlock
  BY <1>4 DEF UseBlock, client, server, history
<1>5. CASE ClickOfDrag
  <2>1. Head(batch).click \in ClicksOn(Layout)
    <3>1. Head(batch) \in [window : 0 .. MaxUses, click : ClicksOn(Layout)]
      BY <1>5, QueuesAre DEF ClickOfDrag, WindowTypes
    <3> QED
      BY <3>1
  <2> QED
    BY <1>5, <2>1 DEF ClickOfDrag, server, bounds, history
<1> QED
  BY <1>1, <1>2, <1>3, <1>4, <1>5 DEF Player

LEMMA NumbersInit == WindowInit => Numbers
BY DEF WindowInit, Numbers

LEMMA NumbersPlayer ==
  ASSUME WindowTypes, Numbers, Player \/ ClickOfDrag
  PROVE  Numbers'
<1> DEFINE C == {0, open} \cup {toClient[i].window : i \in {j \in 1 .. Len(toClient) : toClient[j].type # "cursor"}}
<1>1. open \in C /\ 0 \in C
  OBVIOUS
<1>2. CASE UNCHANGED <<open, view, serving, held, locked, toServer, toClient, uses, sent, apart>>
  BY <1>2 DEF Numbers
<1>3. CASE (\E click \in ClicksOn(Layout) : Clicks(click)) /\ UNCHANGED <<serving, held, locked, uses>>
  <2>1. PICK click \in ClicksOn(Layout) : Clicks(click)
    BY <1>3
  <2>2. PICK m : toServer' = Append(toServer, m) /\ m.type = "click" /\ m.window = open
                 /\ open' = open /\ toClient' = toClient
    BY <2>1, ClickSent
  <2>3. \E x : x.type # "use" /\ x.window \in C /\ toServer' = Append(toServer, x)
    BY <1>1, <2>2
  <2> HIDE DEF C
  <2>4. serving' = serving /\ uses' = uses /\ open' \in C
    BY <1>1, <1>3, <2>2
  <2> QED
    BY <2>2, <2>3, <2>4, ClientNumbers DEF C
<1>4. CASE /\ open' = 0 /\ toServer' = Append(toServer, [type |-> "close", window |-> open])
           /\ UNCHANGED <<serving, held, locked, toClient, uses, sent, apart>>
  <2>1. \E x : x.type # "use" /\ x.window \in C /\ toServer' = Append(toServer, x)
    <3>1. PICK x : x = [type |-> "close", window |-> open]
      OBVIOUS
    <3>2. x.type # "use" /\ x.window = open
      BY <3>1
    <3> QED
      BY <1>1, <1>4, <3>1, <3>2
  <2> HIDE DEF C
  <2> QED
    BY <1>1, <1>4, <2>1, ClientNumbers DEF C
<1>5. CASE /\ uses' = uses + 1 /\ toServer' = Append(toServer, [type |-> "use", window |-> uses'])
           /\ UNCHANGED <<open, view, serving, held, locked, toClient, sent, apart>>
  <2>1. /\ Len(toServer) \in Nat /\ Len(toClient) \in Nat /\ uses \in Nat /\ toServer \in Seq(ToServer(action, uses))
        /\ open \in Nat /\ serving \in Nat
        /\ \A i \in 1 .. Len(toServer) : toServer[i].window \in Nat
        /\ \A i \in 1 .. Len(toClient) : toClient[i].type # "cursor" => toClient[i].window \in Nat
    BY TypesAre, MessageIs, PacketIs
  <2>2. PICK m : m = [type |-> "use", window |-> uses'] /\ m.type = "use" /\ m.window = uses + 1
    BY <1>5
  <2>3. /\ Len(toServer') = Len(toServer) + 1 /\ toServer'[Len(toServer) + 1] = m
        /\ \A i \in 1 .. Len(toServer) : toServer'[i] = toServer[i]
    BY <1>5, <2>1, <2>2, AppendIs
  <2>4. \A j \in 1 .. Len(toServer') : \/ j \in 1 .. Len(toServer) /\ toServer'[j] = toServer[j]
                                       \/ j = Len(toServer) + 1 /\ toServer'[j] = m
    BY <2>1, <2>3
  <2>5. /\ open' <= uses' /\ serving' <= uses'
        /\ \A i \in 1 .. Len(toServer') : toServer'[i].window <= uses'
        /\ \A i \in 1 .. Len(toClient') : toClient'[i].type # "cursor" => toClient'[i].window <= uses'
    <3>1. /\ open <= uses /\ serving <= uses /\ \A i \in 1 .. Len(toServer) : toServer[i].window <= uses
          /\ \A i \in 1 .. Len(toClient) : toClient[i].type # "cursor" => toClient[i].window <= uses
      BY DEF Numbers
    <3>2. /\ uses' = uses + 1 /\ open' = open /\ serving' = serving /\ toClient' = toClient
      BY <1>5
    <3>3. \A i \in 1 .. Len(toServer') : toServer'[i].window <= uses + 1
      BY <2>1, <2>2, <2>4, <3>1
    <3>4. \A i \in 1 .. Len(toClient) : toClient[i].type # "cursor" => toClient[i].window <= uses + 1
      BY <2>1, <3>1
    <3> QED
      BY <2>1, <3>1, <3>2, <3>3, <3>4
  <2>6. ASSUME NEW i \in 1 .. Len(toServer'), toServer'[i].type = "use"
        PROVE  /\ open' < toServer'[i].window /\ serving' < toServer'[i].window
               /\ \A j \in 1 .. Len(toServer') :
                    toServer'[j].type # "use" \/ j < i => toServer'[j].window < toServer'[i].window
               /\ \A j \in 1 .. Len(toClient') :
                    toClient'[j].type # "cursor" => toClient'[j].window < toServer'[i].window
    <3>1. CASE i \in 1 .. Len(toServer) /\ toServer'[i] = toServer[i]
      <4>1. /\ open < toServer[i].window /\ serving < toServer[i].window
            /\ \A j \in 1 .. Len(toServer) :
                 toServer[j].type # "use" \/ j < i => toServer[j].window < toServer[i].window
            /\ \A j \in 1 .. Len(toClient) :
                 toClient[j].type # "cursor" => toClient[j].window < toServer[i].window
        BY <2>6, <3>1 DEF Numbers
      <4>2. \A j \in 1 .. Len(toServer') : toServer'[j].type # "use" \/ j < i
              => j \in 1 .. Len(toServer) /\ toServer'[j] = toServer[j]
        BY <2>1, <2>2, <2>4, <3>1
      <4> QED
        BY <1>5, <3>1, <4>1, <4>2
    <3>2. CASE i = Len(toServer) + 1 /\ toServer'[i] = m
      <4>1. \A j \in 1 .. Len(toServer') : toServer'[j].type # "use" \/ j < i
              => j \in 1 .. Len(toServer) /\ toServer'[j] = toServer[j]
        BY <2>1, <2>2, <2>4, <3>2
      <4>2. \A j \in 1 .. Len(toServer) : toServer[j].window < uses + 1
        BY <2>1 DEF Numbers
      <4>3. \A j \in 1 .. Len(toClient) : toClient[j].type # "cursor" => toClient[j].window < uses + 1
        BY <2>1 DEF Numbers
      <4>4. open < uses + 1 /\ serving < uses + 1
        BY <2>1 DEF Numbers
      <4> QED
        BY <1>5, <2>2, <3>2, <4>1, <4>2, <4>3, <4>4
    <3> QED
      BY <2>4, <3>1, <3>2
  <2> QED
    BY <2>5, <2>6 DEF Numbers
<1> QED
  BY <1>2, <1>3, <1>4, <1>5, PlayerSteps

\* The reading of a packet, in kinds.
LEMMA PacketSteps ==
  ASSUME WindowTypes, Packet
  PROVE  /\ toClient # <<>> /\ toClient' = Tail(toClient) /\ toClient[1] \in ToClient(action)
         /\ UNCHANGED <<serving, held, locked, uses, sent>>
         /\ LET m == toClient[1] IN
            /\ m.type = "open" <=> OpenWindow
            /\ m.type = "slot" <=> SetSlot
            /\ m.type = "cursor" <=> SetCursor
            /\ m.type = "items" <=> WindowItems
            /\ m.type = "confirm" <=> ConfirmTransaction
            /\ m.type = "close" <=> WindowClosed
            /\ open' = IF m.type = "open" THEN m.window
                       ELSE IF m.type = "close" /\ m.window = open THEN 0 ELSE open
            /\ IF m.type = "confirm" /\ ~m.accepted /\ m.window = open
               THEN toServer' = Append(toServer, [type |-> "apology", window |-> m.window, action |-> m.action])
               ELSE toServer' = toServer
<1> DEFINE m == toClient[1]
<1>1. toClient # <<>> /\ toClient' = Tail(toClient)
  BY DEF Packet, OpenWindow, SetSlot, SetCursor, WindowItems, ConfirmTransaction, WindowClosed, Reads
<1>2. m = Head(toClient) /\ m \in ToClient(action)
  BY <1>1, TypesAre, QueuesAre
<1>3. UNCHANGED <<serving, held, locked, uses, sent>>
  BY DEF Packet, OpenWindow, SetSlot, SetCursor, WindowItems, ConfirmTransaction, WindowClosed,
         server, bounds, history
<1>5. /\ (OpenWindow => m.type = "open") /\ (SetSlot => m.type = "slot") /\ (SetCursor => m.type = "cursor")
      /\ (WindowItems => m.type = "items") /\ (ConfirmTransaction => m.type = "confirm")
      /\ (WindowClosed => m.type = "close")
  BY <1>2 DEF OpenWindow, SetSlot, SetCursor, WindowItems, ConfirmTransaction, WindowClosed, Reads
<1>6. OpenWindow \/ SetSlot \/ SetCursor \/ WindowItems \/ ConfirmTransaction \/ WindowClosed
  BY DEF Packet
<1>7. /\ m.type = "open" <=> OpenWindow
      /\ m.type = "slot" <=> SetSlot
      /\ m.type = "cursor" <=> SetCursor
      /\ m.type = "items" <=> WindowItems
      /\ m.type = "confirm" <=> ConfirmTransaction
      /\ m.type = "close" <=> WindowClosed
  BY <1>5, <1>6
<1>8. open' = IF m.type = "open" THEN m.window
              ELSE IF m.type = "close" /\ m.window = open THEN 0 ELSE open
  BY <1>2, <1>5, <1>6
     DEF OpenWindow, SetSlot, SetCursor, WindowItems, ConfirmTransaction, WindowClosed, Shut, client
<1>9. IF m.type = "confirm" /\ ~m.accepted /\ m.window = open
      THEN toServer' = Append(toServer, [type |-> "apology", window |-> m.window, action |-> m.action])
      ELSE toServer' = toServer
  BY <1>2, <1>5, <1>6 DEF OpenWindow, SetSlot, SetCursor, WindowItems, ConfirmTransaction, WindowClosed
<1> QED
  BY <1>1, <1>2, <1>3, <1>7, <1>8, <1>9

LEMMA NumbersPacket ==
  ASSUME WindowTypes, Numbers, Packet
  PROVE  Numbers'
<1> DEFINE C == {0, open} \cup {toClient[i].window : i \in {j \in 1 .. Len(toClient) : toClient[j].type # "cursor"}}
           m == toClient[1]
<1>1. /\ toClient # <<>> /\ toClient' = Tail(toClient) /\ serving' = serving /\ uses' = uses
      /\ open' = IF m.type = "open" THEN m.window ELSE IF m.type = "close" /\ m.window = open THEN 0 ELSE open
      /\ IF m.type = "confirm" /\ ~m.accepted /\ m.window = open
         THEN toServer' = Append(toServer, [type |-> "apology", window |-> m.window, action |-> m.action])
         ELSE toServer' = toServer
  BY PacketSteps
<1>2. 1 \in 1 .. Len(toClient)
  BY <1>1, TypesAre
<1>3. m.type # "cursor" => m.window \in C
  BY <1>2
<1>4. open \in C /\ 0 \in C
  OBVIOUS
<1>5. open' \in C
  BY <1>1, <1>3, <1>4
<1>6. toServer' = toServer \/ \E x : x.type # "use" /\ x.window \in C /\ toServer' = Append(toServer, x)
  <2>1. PICK x : x = [type |-> "apology", window |-> m.window, action |-> m.action]
    OBVIOUS
  <2>2. x.type # "use" /\ x.window = m.window
    BY <2>1
  <2> QED
    BY <1>1, <1>4, <2>1, <2>2
<1> HIDE DEF C
<1> QED
  BY <1>1, <1>5, <1>6, ClientNumbers DEF C

\* What the server sends.
LEMMA PacketsOf ==
  ASSUME WindowTypes
  PROVE  /\ \A w \in 0 .. MaxUses, c \in Boxes(Layout) :
              /\ [type |-> "items", window |-> w, slots |-> c.slots] \in ToClient(action)
              /\ [type |-> "cursor", item |-> c.cursor] \in ToClient(action)
         /\ \A w \in 0 .. MaxUses : /\ [type |-> "open", window |-> w] \in ToClient(action)
                                    /\ [type |-> "close", window |-> w] \in ToClient(action)
         /\ \A w \in 0 .. MaxUses, s \in DeclaredSlots, x \in StacksOrEmpty :
              [type |-> "slot", window |-> w, slot |-> s, item |-> x] \in ToClient(action)
         /\ \A w \in 0 .. MaxUses, n \in 1 .. action, b \in BOOLEAN :
              [type |-> "confirm", window |-> w, action |-> n, accepted |-> b] \in ToClient(action)
<1>1. ASSUME NEW c \in Boxes(Layout) PROVE c.slots \in [LayoutSlots -> StacksOrEmpty] /\ c.cursor \in StacksOrEmpty
  BY BoxIs, SizesAre
<1> QED
  BY <1>1 DEF ToClient

\* A click that is run, accepted or rejected.
LEMMA RunsStep ==
  ASSUME WindowTypes, ServerRunsClick
  PROVE  LET m == toServer[1]
             s == toClient'
             n == Len(toClient) IN
         /\ toServer # <<>> /\ toServer' = Tail(toServer) /\ m \in ToServer(action, uses)
         /\ m.type = "click" /\ m.window = serving /\ locked = 0
         /\ held' = SlotClick(held, m.click) /\ held' \in Boxes(Layout)
         /\ UNCHANGED <<open, view, serving, uses, sent>>
         /\ \/ /\ Carrier(held, m.click) = m.echo /\ locked' = 0
               /\ apart' = apart \cup (IF Crossed(m) THEN {"crossed"} ELSE {})
               /\ \E news \in Seq(ToClient(action)) :
                    /\ toClient' = toClient \o news /\ Len(news) = 1
                    /\ news[1].type = "confirm" /\ news[1].window = serving /\ news[1].accepted
            \/ /\ Carrier(held, m.click) # m.echo /\ locked' = m.action /\ apart' = apart
               /\ \E news \in Seq(ToClient(action)) :
                    /\ toClient' = toClient \o news /\ Len(news) = 3
                    /\ news[1].type = "confirm" /\ news[1].window = serving /\ ~news[1].accepted
                    /\ news[1].action = locked'
                    /\ news[2].type = "items" /\ news[2].window = serving /\ news[2].slots = held'.slots
                    /\ news[3].type = "cursor" /\ news[3].item = held'.cursor
<1> DEFINE m == toServer[1]
           accepted == Carrier(held, m.click) = m.echo
           confirm == [type |-> "confirm", window |-> m.window, action |-> m.action, accepted |-> accepted]
           items == [type |-> "items", window |-> serving, slots |-> held'.slots]
           cursor == [type |-> "cursor", item |-> held'.cursor]
<1>1. toServer # <<>> /\ toServer' = Tail(toServer) /\ m = Head(toServer) /\ m \in ToServer(action, uses) /\ m.type = "click"
  BY TypesAre, QueuesAre DEF ServerRunsClick, Hears
<1>2. /\ m.window = serving /\ locked = 0 /\ held' = SlotClick(held, m.click)
      /\ locked' = IF accepted THEN 0 ELSE m.action
      /\ toClient' = toClient \o (<<confirm>> \o (IF accepted THEN <<>> ELSE <<items, cursor>>))
      /\ apart' = apart \cup (IF accepted /\ Crossed(m) THEN {"crossed"} ELSE {})
  BY <1>1 DEF ServerRunsClick, Sends, Whole
<1>3. UNCHANGED <<open, view, serving, uses, sent>>
  BY DEF ServerRunsClick, client, bounds
<1>4. m.action \in 1 .. action /\ m.click \in ClicksOn(Layout)
  BY <1>1, TypesAre, MessageIs
<1>5. held' \in Boxes(Layout)
  BY <1>2, <1>4, TypesAre, SizesAre, SlotClickIs
<1>6. serving \in 0 .. MaxUses /\ accepted \in BOOLEAN
  BY DEF WindowTypes, WindowTypeOK
<1>7. confirm \in ToClient(action) /\ items \in ToClient(action) /\ cursor \in ToClient(action)
  BY <1>2, <1>4, <1>5, <1>6, PacketsOf
<1>8. /\ confirm.type = "confirm" /\ confirm.window = serving /\ (confirm.accepted <=> accepted)
      /\ confirm.action = m.action
      /\ items.type = "items" /\ items.window = serving /\ items.slots = held'.slots
      /\ cursor.type = "cursor" /\ cursor.item = held'.cursor
  BY <1>2
<1> HIDE DEF confirm, items, cursor
<1>9. CASE accepted
  <2> DEFINE news == <<confirm>>
  <2>1. news \in Seq(ToClient(action)) /\ Len(news) = 1 /\ news[1] = confirm
    BY <1>7
  <2>2. toClient' = toClient \o news
    BY <1>2, <1>9
  <2> HIDE DEF news
  <2>3. /\ toClient' = toClient \o news /\ Len(news) = 1
        /\ news[1].type = "confirm" /\ news[1].window = serving /\ news[1].accepted
    BY <1>8, <1>9, <2>1, <2>2
  <2> QED
    BY <1>1, <1>2, <1>3, <1>5, <1>9, <2>1, <2>3
<1>10. CASE ~accepted
  <2> DEFINE news == <<confirm, items, cursor>>
  <2>1. news \in Seq(ToClient(action)) /\ Len(news) = 3 /\ news[1] = confirm /\ news[2] = items /\ news[3] = cursor
    BY <1>7
  <2>2. toClient' = toClient \o news
    BY <1>2, <1>10
  <2> HIDE DEF news
  <2>3. /\ toClient' = toClient \o news /\ Len(news) = 3
        /\ news[1].type = "confirm" /\ news[1].window = serving /\ ~news[1].accepted
        /\ news[1].action = locked'
        /\ news[2].type = "items" /\ news[2].window = serving /\ news[2].slots = held'.slots
        /\ news[3].type = "cursor" /\ news[3].item = held'.cursor
    BY <1>2, <1>8, <1>10, <2>1, <2>2
  <2> QED
    BY <1>1, <1>2, <1>3, <1>5, <1>10, <2>1, <2>3
<1> QED
  BY <1>9, <1>10

LEMMA FourAre ==
  ASSUME NEW S, NEW a \in S, NEW b \in S, NEW c \in S, NEW d \in S,
         NEW q, q = (<<a>> \o <<b>>) \o <<c, d>>
  PROVE  Len(q) = 4 /\ q[1] = a /\ q[2] = b /\ q[3] = c /\ q[4] = d /\ q \in Seq(S)
OBVIOUS

\* A window that is opened.
LEMMA OpensStep ==
  ASSUME WindowTypes, ServerOpens
  PROVE  LET m == toServer[1] IN
         /\ toServer # <<>> /\ toServer' = Tail(toServer) /\ m \in ToServer(action, uses) /\ m.type = "use"
         /\ serving' = m.window /\ held' = Dropped(held) /\ held' \in Boxes(Layout) /\ locked' = 0
         /\ UNCHANGED <<open, view, uses, sent, apart>>
         /\ \E news \in Seq(ToClient(action)), k \in {0, 1} :
              /\ toClient' = toClient \o news /\ Len(news) = k + 3
              /\ k = 1 => news[1].type = "close" /\ news[1].window = serving
              /\ news[k + 1].type = "open" /\ news[k + 1].window = serving'
              /\ news[k + 2].type = "items" /\ news[k + 2].window = serving' /\ news[k + 2].slots = held'.slots
              /\ news[k + 3].type = "cursor" /\ news[k + 3].item = held'.cursor
<1> DEFINE m == toServer[1]
           closed == [type |-> "close", window |-> serving]
           opened == [type |-> "open", window |-> serving']
           items == [type |-> "items", window |-> serving', slots |-> held'.slots]
           cursor == [type |-> "cursor", item |-> held'.cursor]
<1>1. toServer # <<>> /\ toServer' = Tail(toServer) /\ m = Head(toServer) /\ m \in ToServer(action, uses) /\ m.type = "use"
  BY TypesAre, QueuesAre DEF ServerOpens, Hears
<1>2. /\ serving' = m.window /\ held' = Dropped(held) /\ locked' = 0
      /\ toClient' = toClient \o (((IF serving = 0 THEN <<>> ELSE <<closed>>) \o <<opened>>) \o <<items, cursor>>)
  BY <1>1 DEF ServerOpens, Sends, Whole
<1>3. UNCHANGED <<open, view, uses, sent, apart>>
  BY DEF ServerOpens, client, bounds, history
<1>4. held' \in Boxes(Layout)
  BY <1>2, TypesAre, SizesAre, ChangeIs
<1>5. serving \in 0 .. MaxUses /\ serving' \in 0 .. MaxUses
  <2>1. m.window \in 1 .. uses
    BY <1>1, TypesAre, MessageIs
  <2>2. uses \in 0 .. MaxUses /\ serving \in 0 .. MaxUses
    BY DEF WindowTypes, WindowTypeOK
  <2> QED
    BY <1>2, <2>1, <2>2, SizesAre
<1>6. /\ closed \in ToClient(action) /\ opened \in ToClient(action)
      /\ items \in ToClient(action) /\ cursor \in ToClient(action)
  BY <1>4, <1>5, PacketsOf
<1>7. /\ closed.type = "close" /\ closed.window = serving /\ opened.type = "open" /\ opened.window = serving'
      /\ items.type = "items" /\ items.window = serving' /\ items.slots = held'.slots
      /\ cursor.type = "cursor" /\ cursor.item = held'.cursor
  OBVIOUS
<1> HIDE DEF closed, opened, items, cursor
<1>8. CASE serving = 0
  <2> DEFINE news == <<opened, items, cursor>>
  <2>1. news \in Seq(ToClient(action)) /\ Len(news) = 3 /\ news[1] = opened /\ news[2] = items /\ news[3] = cursor
    BY <1>6
  <2>2. toClient' = toClient \o news
    BY <1>2, <1>8
  <2> HIDE DEF news
  <2>3. \E k \in {0, 1} :
              /\ toClient' = toClient \o news /\ Len(news) = k + 3
              /\ k = 1 => news[1].type = "close" /\ news[1].window = serving
              /\ news[k + 1].type = "open" /\ news[k + 1].window = serving'
              /\ news[k + 2].type = "items" /\ news[k + 2].window = serving' /\ news[k + 2].slots = held'.slots
              /\ news[k + 3].type = "cursor" /\ news[k + 3].item = held'.cursor
    <3>1. PICK k \in {0, 1} : k = 0
      OBVIOUS
    <3>2. k + 1 = 1 /\ k + 2 = 2 /\ k + 3 = 3
      BY <3>1
    <3> QED
      BY <1>7, <2>1, <2>2, <3>1, <3>2
  <2> QED
    BY <1>1, <1>2, <1>3, <1>4, <2>1, <2>3
<1>9. CASE serving # 0
  <2> DEFINE news == (<<closed>> \o <<opened>>) \o <<items, cursor>>
  <2>1. news \in Seq(ToClient(action)) /\ Len(news) = 4
        /\ news[1] = closed /\ news[2] = opened /\ news[3] = items /\ news[4] = cursor
    BY <1>6, FourAre
  <2>2. toClient' = toClient \o news
    BY <1>2, <1>9
  <2> HIDE DEF news
  <2>3. \E k \in {0, 1} :
              /\ toClient' = toClient \o news /\ Len(news) = k + 3
              /\ k = 1 => news[1].type = "close" /\ news[1].window = serving
              /\ news[k + 1].type = "open" /\ news[k + 1].window = serving'
              /\ news[k + 2].type = "items" /\ news[k + 2].window = serving' /\ news[k + 2].slots = held'.slots
              /\ news[k + 3].type = "cursor" /\ news[k + 3].item = held'.cursor
    <3>1. PICK k \in {0, 1} : k = 1
      OBVIOUS
    <3>2. k + 1 = 2 /\ k + 2 = 3 /\ k + 3 = 4
      BY <3>1
    <3> QED
      BY <1>7, <2>1, <2>2, <3>1, <3>2
  <2> QED
    BY <1>1, <1>2, <1>3, <1>4, <2>1, <2>3
<1> QED
  BY <1>8, <1>9

\* The server changes a slot of its own accord.
LEMMA ChangesStep ==
  ASSUME WindowTypes, NEW slot \in DeclaredSlots, NEW item \in Changes, ServerChanges(slot, item)
  PROVE  /\ serving # 0 /\ item \in StacksOrEmpty /\ slot \in 1 .. Layout /\ slot \in 1 .. Declared
         /\ held' = [held EXCEPT !.slots[slot] = item] /\ sent' = [sent EXCEPT ![slot] = @ + 1]
         /\ UNCHANGED <<open, view, serving, locked, toServer, uses, apart>>
         /\ \E news \in Seq(ToClient(action)) :
              /\ toClient' = toClient \o news /\ Len(news) = 1
              /\ news[1].type = "slot" /\ news[1].window = serving /\ news[1].slot = slot /\ news[1].item = item
<1>1. item \in StacksOrEmpty /\ slot \in 1 .. Layout /\ slot \in 1 .. Declared
  BY SizesAre
<1> DEFINE m == [type |-> "slot", window |-> serving, slot |-> slot, item |-> item]
<1>2. m \in ToClient(action)
  <2>1. serving \in 0 .. MaxUses
    BY DEF WindowTypes, WindowTypeOK
  <2> QED
    BY <1>1, <2>1, PacketsOf
<1>3. m.type = "slot" /\ m.window = serving /\ m.slot = slot /\ m.item = item
  OBVIOUS
<1>4. toClient' = toClient \o <<m>>
  BY DEF ServerChanges, Sends
<1> HIDE DEF m
<1>5. PICK news : news = <<m>>
  OBVIOUS
<1>6. news \in Seq(ToClient(action)) /\ Len(news) = 1 /\ news[1] = m
  BY <1>2, <1>5
<1>7. \E new \in Seq(ToClient(action)) :
              /\ toClient' = toClient \o new /\ Len(new) = 1
              /\ new[1].type = "slot" /\ new[1].window = serving /\ new[1].slot = slot /\ new[1].item = item
  BY <1>3, <1>4, <1>5, <1>6
<1> QED
  BY <1>1, <1>7 DEF ServerChanges, client

\* The other steps of the server.
LEMMA HearsSteps ==
  ASSUME WindowTypes, ServerIgnoresClick \/ ServerUnlocks \/ ServerHearsClose
  PROVE  LET m == toServer[1] IN
         /\ toServer # <<>> /\ toServer' = Tail(toServer) /\ m \in ToServer(action, uses)
         /\ UNCHANGED <<open, view, uses, sent, apart, toClient>>
         /\ \/ /\ m.type = "click" /\ (m.window # serving \/ locked # 0)
               /\ UNCHANGED <<serving, held, locked>>
            \/ /\ m.type = "apology"
               /\ locked' = IF m.window = serving /\ m.action = locked THEN 0 ELSE locked
               /\ UNCHANGED <<serving, held>>
            \/ m.type = "close" /\ serving' = 0
<1> DEFINE m == toServer[1]
<1>1. toServer # <<>> /\ toServer' = Tail(toServer)
  BY DEF ServerIgnoresClick, ServerUnlocks, ServerHearsClose, Hears
<1>2. m = Head(toServer) /\ m \in ToServer(action, uses)
  BY <1>1, TypesAre, QueuesAre
<1>3. CASE ServerIgnoresClick
  <2>1. m.type = "click" /\ (m.window # serving \/ locked # 0)
    BY <1>2, <1>3 DEF ServerIgnoresClick, Hears
  <2>2. UNCHANGED <<open, view, uses, sent, apart, toClient, serving, held, locked>>
    BY <1>3 DEF ServerIgnoresClick, client, server, bounds, history
  <2> QED
    BY <1>1, <1>2, <2>1, <2>2
<1>4. CASE ServerUnlocks
  <2>1. m.type = "apology" /\ locked' = IF m.window = serving /\ m.action = locked THEN 0 ELSE locked
    BY <1>2, <1>4 DEF ServerUnlocks, Hears
  <2>2. UNCHANGED <<open, view, uses, sent, apart, toClient, serving, held>>
    BY <1>4 DEF ServerUnlocks, client, bounds, history
  <2> QED
    BY <1>1, <1>2, <2>1, <2>2
<1>5. CASE ServerHearsClose
  <2>1. m.type = "close" /\ serving' = 0
    BY <1>2, <1>5 DEF ServerHearsClose, Hears
  <2>2. UNCHANGED <<open, view, uses, sent, apart, toClient>>
    BY <1>5 DEF ServerHearsClose, client, bounds, history
  <2> QED
    BY <1>1, <1>2, <2>1, <2>2
<1> QED
  BY <1>3, <1>4, <1>5

LEMMA ClosesStep ==
  ASSUME WindowTypes, ServerCloses
  PROVE  /\ serving' = 0 /\ UNCHANGED <<open, view, toServer, uses, sent, apart>>
         /\ \E news \in Seq(ToClient(action)) :
              toClient' = toClient \o news /\ Len(news) = 1 /\ news[1].type = "close" /\ news[1].window = serving
<1> DEFINE m == [type |-> "close", window |-> serving]
<1>1. m \in ToClient(action)
  <2>1. serving \in 0 .. MaxUses
    BY DEF WindowTypes, WindowTypeOK
  <2> QED
    BY <2>1, PacketsOf
<1>2. m.type = "close" /\ m.window = serving
  OBVIOUS
<1>3. toClient' = toClient \o <<m>>
  BY DEF ServerCloses, Sends
<1> HIDE DEF m
<1>4. PICK news : news = <<m>>
  OBVIOUS
<1>5. news \in Seq(ToClient(action)) /\ Len(news) = 1 /\ news[1] = m
  BY <1>1, <1>4
<1>6. \E new \in Seq(ToClient(action)) :
        toClient' = toClient \o new /\ Len(new) = 1 /\ new[1].type = "close" /\ new[1].window = serving
  BY <1>2, <1>3, <1>4, <1>5
<1> QED
  BY <1>6 DEF ServerCloses, client, history

LEMMA NumbersServer ==
  ASSUME WindowTypes, Numbers, ServerHears \/ ServerActs
  PROVE  Numbers'
<1>1. CASE ServerRunsClick
  <2>1. /\ toServer # <<>> /\ toServer' = Tail(toServer) /\ UNCHANGED <<open, view, serving, uses, sent>>
        /\ \E news \in Seq(ToClient(action)) :
             /\ toClient' = toClient \o news
             /\ \A j \in 1 .. Len(news) : news[j].type # "cursor" => news[j].window \in {serving, serving}
    <3>1. \A j \in 1 .. 3 : j = 1 \/ j = 2 \/ j = 3
      OBVIOUS
    <3>2. \A j \in 1 .. 1 : j = 1
      OBVIOUS
    <3> QED
      BY <1>1, <3>1, <3>2, RunsStep
  <2> QED
    BY <2>1, ServerNumbers
<1>2. CASE ServerIgnoresClick \/ ServerUnlocks \/ ServerHearsClose
  <2>1. toServer # <<>> /\ toServer' = Tail(toServer) /\ UNCHANGED <<open, view, uses, sent, apart, toClient>>
        /\ serving' \in {0, serving}
    BY <1>2, HearsSteps
  <2>2. PICK news : news = <<>>
    OBVIOUS
  <2>3. /\ news \in Seq(ToClient(action)) /\ toClient' = toClient \o news
        /\ \A j \in 1 .. Len(news) : news[j].type # "cursor" => news[j].window \in {serving, serving}
    BY <2>1, <2>2, TypesAre
  <2> QED
    BY <2>1, <2>3, ServerNumbers
<1>3. CASE ServerOpens
  <2>1. /\ toServer # <<>> /\ toServer' = Tail(toServer) /\ UNCHANGED <<open, view, uses, sent, apart>>
        /\ toServer[1].type = "use" /\ serving' = toServer[1].window
    BY <1>3, OpensStep
  <2>2. PICK news \in Seq(ToClient(action)), k \in {0, 1} :
              /\ toClient' = toClient \o news /\ Len(news) = k + 3
              /\ k = 1 => news[1].type = "close" /\ news[1].window = serving
              /\ news[k + 1].type = "open" /\ news[k + 1].window = serving'
              /\ news[k + 2].type = "items" /\ news[k + 2].window = serving' /\ news[k + 2].slots = held'.slots
              /\ news[k + 3].type = "cursor" /\ news[k + 3].item = held'.cursor
    BY <1>3, OpensStep
  <2>3. \A j \in 1 .. k + 3 : j = k + 1 \/ j = k + 2 \/ j = k + 3 \/ (k = 1 /\ j = 1)
    OBVIOUS
  <2>4. \A j \in 1 .. Len(news) : news[j].type # "cursor" => news[j].window \in {serving, serving'}
    BY <2>2, <2>3
  <2> QED
    BY <2>1, <2>2, <2>4, ServerNumbers
<1>4. CASE ServerCloses
  <2>1. serving' = 0 /\ UNCHANGED <<open, view, toServer, uses, sent, apart>>
    BY <1>4, ClosesStep
  <2>2. PICK news \in Seq(ToClient(action)) :
          toClient' = toClient \o news /\ Len(news) = 1 /\ news[1].type = "close" /\ news[1].window = serving
    BY <1>4, ClosesStep
  <2>3. \A j \in 1 .. Len(news) : news[j].type # "cursor" => news[j].window \in {serving, serving}
    BY <2>2
  <2> QED
    BY <2>1, <2>2, <2>3, ServerNumbers
<1>5. ASSUME NEW slot \in DeclaredSlots, NEW item \in Changes, ServerChanges(slot, item) PROVE Numbers'
  <2>1. UNCHANGED <<open, view, serving, locked, toServer, uses, apart>>
    BY <1>5, ChangesStep
  <2>2. PICK news \in Seq(ToClient(action)) :
          /\ toClient' = toClient \o news /\ Len(news) = 1
          /\ news[1].type = "slot" /\ news[1].window = serving /\ news[1].slot = slot /\ news[1].item = item
    BY <1>5, ChangesStep
  <2>3. \A j \in 1 .. Len(news) : news[j].type # "cursor" => news[j].window \in {serving, serving}
    BY <2>2
  <2> QED
    BY <2>1, <2>2, <2>3, ServerNumbers
<1> QED
  BY <1>1, <1>2, <1>3, <1>4, <1>5 DEF ServerHears, ServerActs

LEMMA NumbersNext == WindowTypes /\ Numbers /\ [WindowNext]_windowVars => Numbers'
<1>1. ASSUME Numbers, UNCHANGED windowVars PROVE Numbers'
  BY <1>1 DEF Numbers, windowVars, client, server, bounds
<1> QED
  BY <1>1, NumbersPlayer, NumbersPacket, NumbersServer DEF WindowNext

LEMMA BehindKept ==
  ASSUME WindowTypes, ReadsBehind, \A s \in DeclaredSlots : sent'[s] \in Nat /\ sent[s] <= sent'[s],
         \A j \in 1 .. Len(toServer') :
           toServer'[j].type = "click" => \E i \in 1 .. Len(toServer) : toServer'[j] = toServer[i]
  PROVE  ReadsBehind'
<1> SUFFICES ASSUME NEW j \in 1 .. Len(toServer'), toServer'[j].type = "click"
             PROVE  /\ \A s \in DeclaredSlots : toServer'[j].read[s] <= sent'[s]
                    /\ toServer'[j].echo # Empty => toServer'[j].click.mode = "pickup"
  BY DEF ReadsBehind
<1>1. PICK i \in 1 .. Len(toServer) : toServer'[j] = toServer[i]
  OBVIOUS
<1>2. /\ \A s \in DeclaredSlots : toServer[i].read[s] <= sent[s]
      /\ toServer[i].echo # Empty => toServer[i].click.mode = "pickup"
  BY <1>1 DEF ReadsBehind
<1>3. toServer[i].read \in [DeclaredSlots -> Int]
  BY <1>1, TypesAre, MessageIs
<1>4. \A s \in DeclaredSlots : toServer[i].read[s] \in Int /\ sent[s] \in Nat
  BY <1>3, TypesAre
<1> QED
  BY <1>1, <1>2, <1>4

\* No Set Slot of the slot is on its way.
LEMMA NoneUnread ==
  ASSUME WindowTypes, NEW s, Unread(s) = 0
  PROVE  \A i \in 1 .. Len(toClient) : ~ (toClient[i].type = "slot" /\ toClient[i].slot = s)
<1> DEFINE I == {i \in DOMAIN toClient : toClient[i].type = "slot" /\ toClient[i].slot = s}
<1>1. DOMAIN toClient = 1 .. Len(toClient) /\ Len(toClient) \in Nat
  BY TypesAre
<1>2. IsFiniteSet(DOMAIN toClient)
  BY <1>1, FS_Interval
<1>3. IsFiniteSet(I)
  BY <1>2, FS_Subset
<1>4. Cardinality(I) = 0
  BY DEF Unread
<1>5. I = {}
  <2> HIDE DEF I
  <2> QED
    BY <1>3, <1>4, FS_EmptySet
<1> QED
  BY <1>1, <1>5

LEMMA BehindNext == WindowTypes /\ ReadsBehind /\ [WindowNext]_windowVars => ReadsBehind'
<1> SUFFICES ASSUME WindowTypes, ReadsBehind, [WindowNext]_windowVars PROVE ReadsBehind'
  OBVIOUS
<1>0. /\ toServer \in Seq(ToServer(action, uses)) /\ Len(toServer) \in Nat
      /\ \A s \in DeclaredSlots : sent[s] \in Nat
      /\ sent \in [DeclaredSlots -> 0 .. MaxChanges]
  BY TypesAre DEF WindowTypes, WindowTypeOK
<1>1. \A j \in 1 .. Len(Tail(toServer)) :
        toServer # <<>> => \E i \in 1 .. Len(toServer) : Tail(toServer)[j] = toServer[i]
  BY <1>0, TailIs
<1>2. ASSUME NEW m, m.type # "click", toServer' = Append(toServer, m)
      PROVE  \A j \in 1 .. Len(toServer') :
               toServer'[j].type = "click" => \E i \in 1 .. Len(toServer) : toServer'[j] = toServer[i]
  <2>1. /\ Len(toServer') = Len(toServer) + 1 /\ toServer'[Len(toServer) + 1] = m
        /\ \A i \in 1 .. Len(toServer) : toServer'[i] = toServer[i]
    BY <1>0, <1>2, AppendIs
  <2>2. \A j \in 1 .. Len(toServer) + 1 : j \in 1 .. Len(toServer) \/ j = Len(toServer) + 1
    BY <1>0
  <2> QED
    BY <1>2, <2>1, <2>2
<1>3. CASE sent' = sent /\ toServer' = toServer
  BY <1>3 DEF ReadsBehind
<1>4. CASE sent' = sent /\ toServer # <<>> /\ toServer' = Tail(toServer)
  BY <1>0, <1>1, <1>4, BehindKept
<1>5. CASE sent' = sent /\ \E m : m.type # "click" /\ toServer' = Append(toServer, m)
  BY <1>0, <1>2, <1>5, BehindKept
<1>6. ASSUME NEW click \in ClicksOn(Layout), Clicks(click) PROVE ReadsBehind'
  <2>1. PICK m : /\ toServer' = Append(toServer, m)
                 /\ m.type = "click" /\ m.window = open /\ m.click = click /\ m.echo = Echo(view, click)
                 /\ m.touches = view.drag.over \cup ({click.slot} \cap DeclaredSlots)
                 /\ m.read = [s \in DeclaredSlots |-> sent[s] - Unread(s)]
                 /\ open' = open /\ toClient' = toClient /\ sent' = sent /\ view' = PredictClick(view, click)
    BY <1>6, ClickSent
  <2>2. /\ Len(toServer') = Len(toServer) + 1 /\ toServer'[Len(toServer) + 1] = m
        /\ \A i \in 1 .. Len(toServer) : toServer'[i] = toServer[i]
    BY <1>0, <2>1, AppendIs
  <2>3. \A s \in DeclaredSlots : m.read[s] <= sent'[s]
    BY <1>0, <2>1, UnreadIs
  <2>4. m.echo # Empty => m.click.mode = "pickup"
    BY <2>1 DEF Echo
  <2> SUFFICES ASSUME NEW j \in 1 .. Len(toServer'), toServer'[j].type = "click"
               PROVE  /\ \A s \in DeclaredSlots : toServer'[j].read[s] <= sent'[s]
                      /\ toServer'[j].echo # Empty => toServer'[j].click.mode = "pickup"
    BY DEF ReadsBehind
  <2>5. CASE j = Len(toServer) + 1
    BY <2>2, <2>3, <2>4, <2>5
  <2>6. CASE j # Len(toServer) + 1
    <3>1. j \in 1 .. Len(toServer) /\ toServer'[j] = toServer[j]
      BY <1>0, <2>2, <2>6
    <3> QED
      BY <2>1, <3>1 DEF ReadsBehind
  <2> QED
    BY <2>5, <2>6
<1>7. CASE Player \/ ClickOfDrag
  <2>1. ASSUME NEW w, toServer' = Append(toServer, [type |-> "close", window |-> w]) \/ toServer' = Append(toServer, [type |-> "use", window |-> w])
        PROVE  \E m : m.type # "click" /\ toServer' = Append(toServer, m)
    <3>1. PICK x, y : x = [type |-> "close", window |-> w] /\ y = [type |-> "use", window |-> w]
      OBVIOUS
    <3>2. x.type # "click" /\ y.type # "click"
      BY <3>1
    <3> QED
      BY <2>1, <3>1, <3>2
  <2> QED
    BY <1>3, <1>5, <1>6, <1>7, <2>1, PlayerSteps
<1>8. CASE Packet
  <2>1. sent' = sent
    BY <1>8, PacketSteps
  <2>2. toServer' = toServer \/ \E m : m.type # "click" /\ toServer' = Append(toServer, m)
    <3>1. PICK x : x = [type |-> "apology", window |-> toClient[1].window, action |-> toClient[1].action]
      OBVIOUS
    <3>2. x.type # "click"
      BY <3>1
    <3> QED
      BY <1>8, <3>1, <3>2, PacketSteps
  <2> QED
    BY <1>3, <1>5, <2>1, <2>2
<1>9. CASE ServerHears
  <2>1. sent' = sent /\ toServer # <<>> /\ toServer' = Tail(toServer)
    BY <1>9, RunsStep, HearsSteps, OpensStep DEF ServerHears
  <2> QED
    BY <1>4, <2>1
<1>10. CASE ServerCloses
  BY <1>3, <1>10, ClosesStep
<1>11. ASSUME NEW slot \in DeclaredSlots, NEW item \in Changes, ServerChanges(slot, item) PROVE ReadsBehind'
  <2>1. sent' = [sent EXCEPT ![slot] = @ + 1] /\ toServer' = toServer
    BY <1>11, ChangesStep
  <2>2. \A s \in DeclaredSlots : sent'[s] \in Nat /\ sent[s] <= sent'[s]
    BY <1>0, <2>1
  <2> QED
    BY <2>1, <2>2, BehindKept
<1>12. CASE UNCHANGED windowVars
  BY <1>3, <1>12 DEF windowVars, history
<1> QED
  BY <1>7, <1>8, <1>9, <1>10, <1>11, <1>12 DEF WindowNext, ServerActs

\* The session sends anything but an acknowledgement.
LEMMA ExchangeSends ==
  ASSUME WindowTypes, Exchange, UNCHANGED <<serving, locked, toClient>>, open' \in {0, open},
         NEW m, m.type # "apology", m.type = "click" => m.window = open,
         toServer' = toServer \/ toServer' = Append(toServer, m)
  PROVE  Exchange'
<1> SUFFICES ASSUME serving # 0, NEW i \in 0 .. Len(toClient), Since(i)' PROVE Exchanging(i)'
  BY DEF Exchange
<1>0. /\ toServer \in Seq(ToServer(action, uses)) /\ Len(toServer) \in Nat /\ Len(toClient) \in Nat
  BY TypesAre
<1>1. Since(i)
  BY DEF Since
<1>2. Exchanging(i)
  BY <1>1 DEF Exchange
<1>3. \A j \in 1 .. Len(toServer') : \/ j \in 1 .. Len(toServer) /\ toServer'[j] = toServer[j]
                                     \/ toServer'[j] = m
  <2>1. CASE toServer' = toServer
    BY <2>1
  <2>2. CASE toServer' = Append(toServer, m)
    <3>1. /\ Len(toServer') = Len(toServer) + 1 /\ toServer'[Len(toServer) + 1] = m
          /\ \A j \in 1 .. Len(toServer) : toServer'[j] = toServer[j]
      BY <1>0, <2>2, AppendIs
    <3>2. \A j \in 1 .. Len(toServer) + 1 : j \in 1 .. Len(toServer) \/ j = Len(toServer) + 1
      BY <1>0
    <3> QED
      BY <3>1, <3>2
  <2> QED
    BY <2>1, <2>2
<1>4. OfServed(i)'
  BY <1>2 DEF Exchanging, OfServed
<1>5. i > 0 => Fresh(i)'
  <2> SUFFICES ASSUME i > 0 PROVE Fresh(i)'
    OBVIOUS
  <2>1. Fresh(i)
    BY <1>2 DEF Exchanging
  <2>2. open # serving
    <3> SUFFICES ASSUME open = serving PROVE FALSE
      OBVIOUS
    <3>1. 0 \in 0 .. Len(toClient) /\ Since(0)
      BY <1>0 DEF Since
    <3>2. OfServed(0)
      BY <3>1 DEF Exchange, Exchanging
    <3>3. i \in 1 .. Len(toClient) /\ toClient[i].type = "open"
      BY <1>1 DEF Since
    <3> QED
      BY <3>2, <3>3 DEF OfServed
  <2>3. WholeAt(i + 1)' /\ locked' = 0
    BY <2>1 DEF Fresh, WholeAt
  <2>4. \A j \in 1 .. Len(toServer') : toServer'[j].type \in {"click", "apology"} => toServer'[j].window # serving
    BY <1>3, <2>1, <2>2 DEF Fresh
  <2> QED
    BY <2>3, <2>4 DEF Fresh
<1>6. NoApology => NoApology'
  BY <1>3 DEF NoApology, Apology
<1>7. locked' = 0 => NoApology' /\ \A j \in 1 .. Len(toClient') : j > i => ~Rejects(toClient'[j])
  BY <1>2, <1>6 DEF Exchanging
<1>8. RejectionComes => RejectionComes'
  BY <1>6 DEF RejectionComes, WholeAt
<1>9. ApologyComes => ApologyComes'
  <2> SUFFICES ASSUME ApologyComes PROVE ApologyComes'
    OBVIOUS
  <2>1. PICK j \in 1 .. Len(toServer) :
          /\ Apology(serving, toServer[j]) /\ toServer[j].action = locked
          /\ \A k \in 1 .. Len(toServer) : Apology(serving, toServer[k]) => k = j
    BY DEF ApologyComes
  <2>2. j \in 1 .. Len(toServer') /\ toServer'[j] = toServer[j]
    <3>1. CASE toServer' = toServer
      BY <3>1
    <3>2. CASE toServer' = Append(toServer, m)
      BY <1>0, <3>2, AppendIs
    <3> QED
      BY <3>1, <3>2
  <2>3. \A k \in 1 .. Len(toServer') : Apology(serving, toServer'[k]) => k = j
    BY <1>3, <2>1 DEF Apology
  <2>4. NoReject'
    BY DEF ApologyComes, NoReject
  <2>5. Apology(serving, toServer'[j])
    BY <2>1, <2>2 DEF Apology
  <2> QED
    BY <2>1, <2>2, <2>3, <2>4, <2>5 DEF ApologyComes
<1> QED
  BY <1>2, <1>4, <1>5, <1>7, <1>8, <1>9 DEF Exchanging

\* A rejection of the window served is in order, and is acknowledged.
LEMMA ExchangeReads ==
  ASSUME WindowTypes, Exchange, Packet
  PROVE  Exchange'
<1> DEFINE m == toClient[1]
<1> SUFFICES ASSUME serving # 0, NEW i \in 0 .. Len(toClient'), Since(i)' PROVE Exchanging(i)'
  BY PacketSteps DEF Exchange
<1>0. /\ toServer \in Seq(ToServer(action, uses)) /\ Len(toServer) \in Nat
      /\ toClient \in Seq(ToClient(action)) /\ Len(toClient) \in Nat
  BY TypesAre
<1>1. /\ toClient # <<>> /\ toClient' = Tail(toClient) /\ serving' = serving /\ locked' = locked
      /\ open' = IF m.type = "open" THEN m.window ELSE IF m.type = "close" /\ m.window = open THEN 0 ELSE open
      /\ IF m.type = "confirm" /\ ~m.accepted /\ m.window = open
         THEN toServer' = Append(toServer, [type |-> "apology", window |-> m.window, action |-> m.action])
         ELSE toServer' = toServer
  BY PacketSteps
<1>2. /\ Len(toClient) = Len(toClient') + 1 /\ Len(toClient') \in Nat /\ 1 \in 1 .. Len(toClient)
      /\ \A j \in 1 .. Len(toClient') : toClient'[j] = toClient[j + 1] /\ j + 1 \in 1 .. Len(toClient)
  BY <1>0, <1>1, TailIs
<1> HIDE DEF m
<1>3. PICK k \in 0 .. Len(toClient) : Since(k) /\ k <= i + 1 /\ (i > 0 => k = i + 1) /\ (k = 0 => open = serving)
  <2>1. CASE i > 0
    <3>1. i \in 1 .. Len(toClient') /\ toClient'[i].type = "open" /\ toClient'[i].window = serving
      BY <1>1, <2>1 DEF Since
    <3>2. i + 1 \in 0 .. Len(toClient) /\ Since(i + 1) /\ i + 1 # 0
      BY <1>2, <3>1 DEF Since
    <3> QED
      BY <3>2
  <2>2. CASE i = 0
    <3>1. open' = serving
      BY <1>1, <1>2, <2>2 DEF Since
    <3>2. CASE m.type = "open"
      <4>1. Since(1)
        BY <1>1, <1>2, <3>1, <3>2 DEF Since, m
      <4> QED
        BY <1>2, <2>2, <4>1
    <3>3. CASE m.type # "open"
      <4>1. open = serving
        BY <1>1, <3>1, <3>3
      <4>2. Since(0) /\ 0 \in 0 .. Len(toClient)
        BY <1>0, <4>1 DEF Since
      <4> QED
        BY <2>2, <4>1, <4>2
    <3> QED
      BY <3>2, <3>3
  <2> QED
    BY <2>1, <2>2
<1>4. Exchanging(k)
  BY <1>3 DEF Exchange
<1>5. OfServed(i)'
  <2> SUFFICES ASSUME NEW j \in 1 .. Len(toClient'), j > i
               PROVE  /\ toClient'[j].type \notin {"open", "close"}
                      /\ toClient'[j].type # "cursor" => toClient'[j].window = serving'
    BY DEF OfServed
  <2>1. j + 1 \in 1 .. Len(toClient) /\ j + 1 > k /\ toClient'[j] = toClient[j + 1]
    BY <1>2, <1>3
  <2> QED
    BY <1>1, <1>4, <2>1 DEF Exchanging, OfServed
<1>6. ASSUME open = serving PROVE k = 0 /\ i = 0
  <2>1. Since(0) /\ 0 \in 0 .. Len(toClient)
    BY <1>0, <1>6 DEF Since
  <2>2. OfServed(0)
    BY <2>1 DEF Exchange, Exchanging
  <2>3. k = 0
    BY <1>3, <2>2 DEF Since, OfServed
  <2> QED
    BY <1>3, <2>3
<1>7. NoApology /\ (locked = 0 \/ ~Rejects(m)) => NoApology'
  <2> SUFFICES ASSUME NoApology, locked = 0 \/ ~Rejects(m) PROVE NoApology'
    OBVIOUS
  <2>1. CASE toServer' = toServer
    BY <1>1, <2>1 DEF NoApology
  <2>2. CASE toServer' # toServer
    <3>1. Rejects(m) /\ m.window = open
          /\ toServer' = Append(toServer, [type |-> "apology", window |-> m.window, action |-> m.action])
      BY <1>1, <2>2 DEF Rejects
    <3>2. open # serving
      <4> SUFFICES ASSUME open = serving PROVE FALSE
        OBVIOUS
      <4>1. k = 0 /\ locked = 0
        BY <1>6, <3>1
      <4>2. ~Rejects(toClient[1])
        BY <1>2, <1>4, <4>1 DEF Exchanging
      <4> QED
        BY <3>1, <4>2 DEF m
    <3>3. \A j \in 1 .. Len(toServer') :
            (j \in 1 .. Len(toServer) /\ toServer'[j] = toServer[j]) \/ toServer'[j].window = open
      <4>1. PICK x : x = [type |-> "apology", window |-> m.window, action |-> m.action]
        OBVIOUS
      <4>2. toServer' = Append(toServer, x) /\ x.window = open
        BY <3>1, <4>1
      <4>3. /\ Len(toServer') = Len(toServer) + 1 /\ toServer'[Len(toServer) + 1] = x
            /\ \A j \in 1 .. Len(toServer) : toServer'[j] = toServer[j]
        BY <1>0, <4>2, AppendIs
      <4>4. \A j \in 1 .. Len(toServer) + 1 : j \in 1 .. Len(toServer) \/ j = Len(toServer) + 1
        BY <1>0
      <4> QED
        BY <4>2, <4>3, <4>4
    <3> QED
      BY <1>1, <3>2, <3>3 DEF NoApology, Apology
  <2> QED
    BY <2>1, <2>2
<1>8. i > 0 => Fresh(i)'
  <2> SUFFICES ASSUME i > 0 PROVE Fresh(i)'
    OBVIOUS
  <2>1. k = i + 1 /\ k > 0
    BY <1>3
  <2>2. Fresh(k) /\ open # serving
    BY <1>4, <1>6, <2>1 DEF Exchanging
  <2>3. WholeAt(i + 1)'
    <3>1. /\ k + 1 \in 1 .. Len(toClient) /\ (k + 1) + 1 \in 1 .. Len(toClient)
          /\ toClient[k + 1].type = "items" /\ toClient[k + 1].window = serving /\ toClient[(k + 1) + 1].type = "cursor"
      BY <2>2 DEF Fresh, WholeAt
    <3>2. i + 1 \in 1 .. Len(toClient') /\ (i + 1) + 1 \in 1 .. Len(toClient')
          /\ (i + 1) + 1 = k + 1 /\ ((i + 1) + 1) + 1 = (k + 1) + 1
      BY <1>2, <2>1, <3>1
    <3> QED
      BY <1>1, <1>2, <3>1, <3>2 DEF WholeAt
  <2>4. \A j \in 1 .. Len(toServer') : toServer'[j].type \in {"click", "apology"} => toServer'[j].window # serving
    <3>1. CASE toServer' = toServer
      BY <2>2, <3>1 DEF Fresh
    <3>2. CASE toServer' # toServer
      <4>1. PICK x : x = [type |-> "apology", window |-> m.window, action |-> m.action]
        OBVIOUS
      <4>2. toServer' = Append(toServer, x) /\ x.window = open
        BY <1>1, <3>2, <4>1
      <4>3. /\ Len(toServer') = Len(toServer) + 1 /\ toServer'[Len(toServer) + 1] = x
            /\ \A j \in 1 .. Len(toServer) : toServer'[j] = toServer[j]
        BY <1>0, <4>2, AppendIs
      <4>4. \A j \in 1 .. Len(toServer) + 1 : j \in 1 .. Len(toServer) \/ j = Len(toServer) + 1
        BY <1>0
      <4> QED
        BY <2>2, <4>2, <4>3, <4>4 DEF Fresh
    <3> QED
      BY <3>1, <3>2
  <2> QED
    BY <1>1, <2>2, <2>3, <2>4 DEF Fresh
<1>9. locked' = 0 => NoApology' /\ \A j \in 1 .. Len(toClient') : j > i => ~Rejects(toClient'[j])
  <2> SUFFICES ASSUME locked = 0
               PROVE  NoApology' /\ \A j \in 1 .. Len(toClient') : j > i => ~Rejects(toClient'[j])
    BY <1>1
  <2>1. NoApology /\ \A j \in 1 .. Len(toClient) : j > k => ~Rejects(toClient[j])
    BY <1>4 DEF Exchanging
  <2>2. ASSUME NEW j \in 1 .. Len(toClient'), j > i PROVE ~Rejects(toClient'[j])
    <3>1. j + 1 \in 1 .. Len(toClient) /\ j + 1 > k /\ toClient'[j] = toClient[j + 1]
      BY <1>2, <1>3, <2>2
    <3> QED
      BY <2>1, <3>1
  <2> QED
    BY <1>7, <2>1, <2>2
<1>10. ASSUME locked # 0, RejectionComes PROVE RejectionComes' \/ ApologyComes'
  <2>1. k = 0
    BY <1>4, <1>10 DEF Exchanging, Fresh
  <2>2. open = serving
    BY <1>3, <2>1
  <2>3. PICK j \in 1 .. Len(toClient) :
          /\ Rejects(toClient[j]) /\ toClient[j].action = locked /\ WholeAt(j + 1)
          /\ \A l \in 1 .. Len(toClient) : Rejects(toClient[l]) => l = j
    BY <1>10 DEF RejectionComes
  <2>4. CASE j = 1
    <3>1. m.type = "confirm" /\ ~m.accepted /\ m.window = serving /\ m.action = locked
      BY <1>2, <1>4, <2>1, <2>3, <2>4 DEF Rejects, Exchanging, OfServed, m
    <3>2. PICK x : x = [type |-> "apology", window |-> m.window, action |-> m.action]
      OBVIOUS
    <3>3. toServer' = Append(toServer, x) /\ x.type = "apology" /\ x.window = serving /\ x.action = locked
      BY <1>1, <2>2, <3>1, <3>2
    <3>4. /\ Len(toServer') = Len(toServer) + 1 /\ toServer'[Len(toServer) + 1] = x
          /\ \A l \in 1 .. Len(toServer) : toServer'[l] = toServer[l]
      BY <1>0, <3>3, AppendIs
    <3>5. \A l \in 1 .. Len(toServer) + 1 : l \in 1 .. Len(toServer) \/ l = Len(toServer) + 1
      BY <1>0
    <3>6. Len(toServer) + 1 \in 1 .. Len(toServer')
      BY <1>0, <3>4
    <3>7. \A l \in 1 .. Len(toServer') : Apology(serving, toServer'[l]) => l = Len(toServer) + 1
      BY <1>10, <3>4, <3>5 DEF RejectionComes, NoApology
    <3>8. NoReject'
      <4>1. \A l \in 1 .. Len(toClient') : l + 1 # 1
        OBVIOUS
      <4> QED
        BY <1>2, <2>3, <2>4, <4>1 DEF NoReject
    <3> QED
      BY <1>1, <3>3, <3>4, <3>6, <3>7, <3>8 DEF ApologyComes, Apology
  <2>5. CASE j # 1
    <3>1. ~Rejects(m)
      BY <1>2, <2>3, <2>5 DEF m
    <3>2. NoApology'
      BY <1>7, <1>10, <3>1 DEF RejectionComes
    <3>3. j - 1 \in 1 .. Len(toClient') /\ (j - 1) + 1 = j
      BY <1>2, <2>5
    <3>4. toClient'[j - 1] = toClient[j]
      BY <1>2, <3>3
    <3>5. \A l \in 1 .. Len(toClient') : Rejects(toClient'[l]) => l = j - 1
      <4>1. \A l \in 1 .. Len(toClient') : l + 1 = j => l = j - 1
        BY <3>3
      <4> QED
        BY <1>2, <2>3, <4>1
    <3>6. WholeAt((j - 1) + 1)'
      <4>1. /\ j + 1 \in 1 .. Len(toClient) /\ (j + 1) + 1 \in 1 .. Len(toClient)
            /\ toClient[j + 1].type = "items" /\ toClient[j + 1].window = serving /\ toClient[(j + 1) + 1].type = "cursor"
        BY <2>3 DEF WholeAt
      <4>2. j \in 1 .. Len(toClient') /\ j + 1 \in 1 .. Len(toClient')
        BY <1>2, <4>1
      <4>3. WholeAt(j)'
        BY <1>1, <1>2, <4>1, <4>2 DEF WholeAt
      <4> QED
        BY <3>3, <4>3
    <3> QED
      BY <1>1, <2>3, <3>2, <3>3, <3>4, <3>5, <3>6 DEF RejectionComes
  <2> QED
    BY <2>4, <2>5
<1>11. ASSUME ApologyComes PROVE ApologyComes'
  <2>1. ~Rejects(m)
    BY <1>2, <1>11 DEF ApologyComes, NoReject, m
  <2>2. toServer' = toServer
    BY <1>1, <2>1 DEF Rejects
  <2>3. NoReject'
    BY <1>2, <1>11 DEF ApologyComes, NoReject
  <2> QED
    BY <1>1, <1>11, <2>2, <2>3 DEF ApologyComes
<1> QED
  BY <1>1, <1>4, <1>5, <1>8, <1>9, <1>10, <1>11 DEF Exchanging

LEMMA ConcatParts ==
  ASSUME NEW S, NEW q \in Seq(S), NEW r \in Seq(S)
  PROVE  \A j \in 1 .. Len(q \o r) :
           \/ j \in 1 .. Len(q) /\ (q \o r)[j] = q[j]
           \/ /\ j \notin 1 .. Len(q) /\ j - Len(q) \in 1 .. Len(r)
              /\ (q \o r)[j] = r[j - Len(q)]
<1>1. /\ Len(q) \in Nat /\ Len(r) \in Nat /\ Len(q \o r) = Len(q) + Len(r)
      /\ \A i \in 1 .. Len(q) : (q \o r)[i] = q[i]
      /\ \A i \in 1 .. Len(r) : (q \o r)[Len(q) + i] = r[i]
  BY ConcatIs
<1> TAKE j \in 1 .. Len(q \o r)
<1>2. CASE j \in 1 .. Len(q)
  BY <1>1, <1>2
<1>3. CASE j \notin 1 .. Len(q)
  <2>1. j - Len(q) \in 1 .. Len(r) /\ Len(q) + (j - Len(q)) = j
    BY <1>1, <1>3
  <2>2. (q \o r)[Len(q) + (j - Len(q))] = r[j - Len(q)]
    BY <1>1, <2>1
  <2> QED
    BY <1>3, <2>1, <2>2
<1> QED
  BY <1>2, <1>3

\* The server runs a click: a window clicked has been seen, and nothing of it
\* was left to acknowledge.
LEMMA ExchangeRuns ==
  ASSUME WindowTypes, Exchange, ServerRunsClick
  PROVE  Exchange'
<1> DEFINE m == toServer[1]
<1>0. /\ toServer \in Seq(ToServer(action, uses)) /\ Len(toServer) \in Nat
      /\ toClient \in Seq(ToClient(action)) /\ Len(toClient) \in Nat
  BY TypesAre
<1>1. /\ toServer # <<>> /\ toServer' = Tail(toServer) /\ m.type = "click" /\ m.window = serving /\ locked = 0
      /\ serving' = serving /\ open' = open /\ m \in ToServer(action, uses)
  BY RunsStep
<1>2. /\ Len(toServer) = Len(toServer') + 1 /\ Len(toServer') \in Nat /\ 1 \in 1 .. Len(toServer)
      /\ \A j \in 1 .. Len(toServer') : toServer'[j] = toServer[j + 1] /\ j + 1 \in 1 .. Len(toServer)
  BY <1>0, <1>1, TailIs
<1>3. m.action # 0
  BY <1>1, TypesAre, MessageIs
<1>4. PICK news \in Seq(ToClient(action)) :
        /\ toClient' = toClient \o news /\ Len(news) \in {1, 3}
        /\ news[1].type = "confirm" /\ news[1].window = serving
        /\ \/ locked' = 0 /\ Len(news) = 1 /\ news[1].accepted
           \/ /\ locked' = m.action /\ Len(news) = 3 /\ ~news[1].accepted /\ news[1].action = locked'
              /\ news[2].type = "items" /\ news[2].window = serving /\ news[3].type = "cursor"
  BY RunsStep
<1> HIDE DEF m
<1>5. \A j \in 1 .. Len(news) : /\ news[j].type \in {"confirm", "items", "cursor"}
                                /\ news[j].type # "cursor" => news[j].window = serving
                                /\ j # 1 => news[j].type \in {"items", "cursor"}
  <2>1. \A j \in 1 .. 3 : j = 1 \/ j = 2 \/ j = 3
    OBVIOUS
  <2>2. \A j \in 1 .. 1 : j = 1
    OBVIOUS
  <2> QED
    BY <1>4, <2>1, <2>2
<1>6. \A j \in 1 .. Len(toClient') :
        \/ j \in 1 .. Len(toClient) /\ toClient'[j] = toClient[j]
        \/ j \notin 1 .. Len(toClient) /\ j - Len(toClient) \in 1 .. Len(news) /\ toClient'[j] = news[j - Len(toClient)]
  BY <1>0, <1>4, ConcatParts
<1>61. /\ Len(news) \in Nat /\ Len(toClient') = Len(toClient) + Len(news)
       /\ \A j \in 1 .. Len(toClient) : toClient'[j] = toClient[j]
       /\ \A j \in 1 .. Len(news) : toClient'[Len(toClient) + j] = news[j]
  BY <1>0, <1>4, ConcatIs
<1> SUFFICES ASSUME serving # 0, NEW i \in 0 .. Len(toClient'), Since(i)' PROVE Exchanging(i)'
  BY <1>1 DEF Exchange
<1>7. Since(i) /\ i \in 0 .. Len(toClient)
  <2>1. CASE i = 0
    BY <1>0, <1>1, <2>1 DEF Since
  <2>2. CASE i # 0
    <3>1. i \in 1 .. Len(toClient') /\ toClient'[i].type = "open" /\ toClient'[i].window = serving
      BY <1>1, <2>2 DEF Since
    <3>2. i \in 1 .. Len(toClient) /\ toClient'[i] = toClient[i]
      <4>1. CASE i - Len(toClient) \in 1 .. Len(news) /\ toClient'[i] = news[i - Len(toClient)]
        BY <1>5, <3>1, <4>1
      <4> QED
        BY <1>6, <3>1, <4>1
    <3> QED
      BY <3>1, <3>2 DEF Since
  <2> QED
    BY <2>1, <2>2
<1>8. Exchanging(i)
  BY <1>7 DEF Exchange
<1>9. i = 0
  <2> SUFFICES ASSUME i > 0 PROVE FALSE
    BY <1>7
  <2>1. toServer[1].type \in {"click", "apology"} => toServer[1].window # serving
    BY <1>2, <1>8 DEF Exchanging, Fresh
  <2> QED
    BY <1>1, <2>1 DEF m
<1>10. OfServed(i)'
  <2> SUFFICES ASSUME NEW j \in 1 .. Len(toClient'), j > i
               PROVE  /\ toClient'[j].type \notin {"open", "close"}
                      /\ toClient'[j].type # "cursor" => toClient'[j].window = serving
    BY <1>1 DEF OfServed
  <2>1. CASE j \in 1 .. Len(toClient) /\ toClient'[j] = toClient[j]
    BY <1>8, <2>1 DEF Exchanging, OfServed
  <2>2. CASE j - Len(toClient) \in 1 .. Len(news) /\ toClient'[j] = news[j - Len(toClient)]
    BY <1>5, <2>2
  <2> QED
    BY <1>6, <2>1, <2>2
<1>11. NoApology'
  BY <1>1, <1>2, <1>8 DEF Exchanging, NoApology
<1>12. \A j \in 1 .. Len(toClient) : ~Rejects(toClient[j])
  BY <1>1, <1>8, <1>9 DEF Exchanging
<1>13. ASSUME locked' = 0
       PROVE  \A j \in 1 .. Len(toClient') : j > i => ~Rejects(toClient'[j])
  <2>1. Len(news) = 1 /\ news[1].accepted
    BY <1>3, <1>4, <1>13
  <2>2. \A j \in 1 .. Len(news) : ~Rejects(news[j])
    BY <2>1 DEF Rejects
  <2> QED
    BY <1>6, <1>12, <2>2
<1>14. ASSUME locked' # 0 PROVE RejectionComes'
  <2>0. PICK n \in Nat : n = Len(toClient)
    BY <1>0
  <2>1. /\ Len(news) = 3 /\ ~news[1].accepted /\ news[1].action = locked'
        /\ news[2].type = "items" /\ news[2].window = serving /\ news[3].type = "cursor"
    BY <1>4, <1>14
  <2>2. 1 \in 1 .. Len(news) /\ 2 \in 1 .. Len(news) /\ 3 \in 1 .. Len(news)
    BY <2>1
  <2>3. toClient'[n + 1] = news[1] /\ toClient'[n + 2] = news[2] /\ toClient'[n + 3] = news[3]
    BY <1>61, <2>0, <2>2
  <2>4. n + 1 \in 1 .. Len(toClient') /\ n + 2 \in 1 .. Len(toClient') /\ n + 3 \in 1 .. Len(toClient')
        /\ (n + 1) + 1 = n + 2 /\ ((n + 1) + 1) + 1 = n + 3
    BY <1>61, <2>0, <2>1
  <2>5. WholeAt((n + 1) + 1)'
    <3>1. WholeAt(n + 2)'
      <4>1. (n + 2) + 1 = n + 3
        OBVIOUS
      <4> QED
        BY <1>1, <2>1, <2>3, <2>4, <4>1 DEF WholeAt
    <3> QED
      BY <2>4, <3>1
  <2>6. Rejects(toClient'[n + 1]) /\ toClient'[n + 1].action = locked'
    BY <1>4, <2>1, <2>3 DEF Rejects
  <2>7. \A k \in 1 .. Len(toClient') : Rejects(toClient'[k]) => k = n + 1
    <3> SUFFICES ASSUME NEW k \in 1 .. Len(toClient'), Rejects(toClient'[k]) PROVE k = n + 1
      OBVIOUS
    <3>1. CASE k \in 1 .. Len(toClient) /\ toClient'[k] = toClient[k]
      BY <1>12, <3>1
    <3>2. CASE k - Len(toClient) \in 1 .. Len(news) /\ toClient'[k] = news[k - Len(toClient)]
      <4>1. k - Len(toClient) = 1
        BY <1>5, <3>2 DEF Rejects
      <4> QED
        BY <1>0, <2>0, <4>1
    <3> QED
      BY <1>6, <3>1, <3>2
  <2> QED
    BY <1>11, <2>4, <2>5, <2>6, <2>7 DEF RejectionComes
<1> QED
  BY <1>9, <1>10, <1>11, <1>13, <1>14 DEF Exchanging

\* The server hears something else than what it runs.
LEMMA ExchangeHears ==
  ASSUME WindowTypes, Exchange, ServerIgnoresClick \/ ServerUnlocks \/ ServerHearsClose
  PROVE  Exchange'
<1> DEFINE m == toServer[1]
<1>0. /\ toServer \in Seq(ToServer(action, uses)) /\ Len(toServer) \in Nat /\ Len(toClient) \in Nat
  BY TypesAre
<1>1. /\ toServer # <<>> /\ toServer' = Tail(toServer) /\ UNCHANGED <<open, toClient>>
      /\ \/ m.type = "click" /\ UNCHANGED <<serving, locked>>
         \/ /\ m.type = "apology" /\ UNCHANGED serving
            /\ locked' = IF m.window = serving /\ m.action = locked THEN 0 ELSE locked
         \/ serving' = 0
  BY HearsSteps
<1>2. /\ Len(toServer) = Len(toServer') + 1 /\ Len(toServer') \in Nat /\ 1 \in 1 .. Len(toServer)
      /\ \A j \in 1 .. Len(toServer') : toServer'[j] = toServer[j + 1] /\ j + 1 \in 1 .. Len(toServer)
  BY <1>0, <1>1, TailIs
<1> HIDE DEF m
<1> SUFFICES ASSUME serving' # 0, serving' = serving, NEW i \in 0 .. Len(toClient), Since(i)' PROVE Exchanging(i)'
  BY <1>1 DEF Exchange
<1>3. Since(i)
  BY <1>1 DEF Since
<1>4. Exchanging(i)
  BY <1>3 DEF Exchange
<1>5. OfServed(i)'
  BY <1>1, <1>4 DEF Exchanging, OfServed
<1>6. NoApology => NoApology'
  BY <1>2 DEF NoApology
<1>7. i > 0 => Fresh(i)'
  <2> SUFFICES ASSUME i > 0 PROVE Fresh(i)'
    OBVIOUS
  <2>1. Fresh(i)
    BY <1>4 DEF Exchanging
  <2>2. WholeAt(i + 1)'
    BY <1>1, <2>1 DEF Fresh, WholeAt
  <2>3. locked' = 0
    BY <1>1, <2>1 DEF Fresh
  <2>4. \A j \in 1 .. Len(toServer') : toServer'[j].type \in {"click", "apology"} => toServer'[j].window # serving
    BY <1>2, <2>1 DEF Fresh
  <2> QED
    BY <2>2, <2>3, <2>4 DEF Fresh
<1>8. CASE locked' = locked /\ ~ (Apology(serving, m) /\ m.action = locked)
  <2>1. locked' = 0 => NoApology' /\ \A j \in 1 .. Len(toClient') : j > i => ~Rejects(toClient'[j])
    BY <1>1, <1>4, <1>6, <1>8 DEF Exchanging
  <2>2. RejectionComes => RejectionComes'
    BY <1>1, <1>6, <1>8 DEF RejectionComes, WholeAt
  <2>3. ASSUME ApologyComes PROVE ApologyComes'
    <3>1. PICK j \in 1 .. Len(toServer) :
            /\ Apology(serving, toServer[j]) /\ toServer[j].action = locked
            /\ \A k \in 1 .. Len(toServer) : Apology(serving, toServer[k]) => k = j
      BY <2>3 DEF ApologyComes
    <3>2. j # 1
      BY <1>8, <3>1 DEF m
    <3>3. j - 1 \in 1 .. Len(toServer') /\ (j - 1) + 1 = j
      BY <1>2, <3>2
    <3>4. toServer'[j - 1] = toServer[j]
      BY <1>2, <3>3
    <3>5. \A k \in 1 .. Len(toServer') : Apology(serving, toServer'[k]) => k = j - 1
      <4>1. \A k \in 1 .. Len(toServer') : k + 1 = j => k = j - 1
        BY <3>3
      <4> QED
        BY <1>2, <3>1, <4>1
    <3>6. NoReject'
      BY <1>1, <2>3 DEF ApologyComes, NoReject
    <3> QED
      BY <1>8, <3>1, <3>3, <3>4, <3>5, <3>6 DEF ApologyComes
  <2>4. locked' # 0 => RejectionComes' \/ ApologyComes'
    BY <1>4, <1>8, <2>2, <2>3 DEF Exchanging
  <2> QED
    BY <1>5, <1>7, <2>1, <2>4 DEF Exchanging
<1>9. CASE locked' = 0 /\ Apology(serving, m) /\ m.action = locked
  <2>1. ~NoApology
    BY <1>2, <1>9 DEF NoApology, m
  <2>2. ApologyComes
    BY <1>4, <2>1 DEF Exchanging, RejectionComes
  <2>3. PICK j \in 1 .. Len(toServer) : \A k \in 1 .. Len(toServer) : Apology(serving, toServer[k]) => k = j
    BY <2>2 DEF ApologyComes
  <2>4. j = 1
    BY <1>2, <1>9, <2>3 DEF m
  <2>5. \A k \in 1 .. Len(toServer') : k + 1 # 1
    OBVIOUS
  <2>6. NoApology'
    BY <1>2, <2>3, <2>4, <2>5 DEF NoApology
  <2>7. \A k \in 1 .. Len(toClient') : ~Rejects(toClient'[k])
    BY <1>1, <2>2 DEF ApologyComes, NoReject
  <2> QED
    BY <1>5, <1>7, <1>9, <2>6, <2>7 DEF Exchanging
<1>10. \/ locked' = locked /\ ~ (Apology(serving, m) /\ m.action = locked)
       \/ locked' = 0 /\ Apology(serving, m) /\ m.action = locked
  BY <1>1 DEF Apology
<1> QED
  BY <1>8, <1>9, <1>10

\* A window that opens is new, and is sent whole.
LEMMA ExchangeOpens ==
  ASSUME WindowTypes, Numbers, Exchange, ServerOpens
  PROVE  Exchange'
<1> DEFINE w == serving'
<1>0. /\ toServer \in Seq(ToServer(action, uses)) /\ Len(toServer) \in Nat
      /\ toClient \in Seq(ToClient(action)) /\ Len(toClient) \in Nat
      /\ open \in Nat /\ serving \in Nat /\ uses \in Nat /\ action \in Nat
      /\ \A i \in 1 .. Len(toClient) : toClient[i] \in ToClient(action)
      /\ \A i \in 1 .. Len(toServer) : toServer[i] \in ToServer(action, uses)
  BY TypesAre
<1>1. /\ toServer # <<>> /\ toServer' = Tail(toServer) /\ toServer[1].type = "use"
      /\ serving' = toServer[1].window /\ locked' = 0 /\ open' = open
  BY OpensStep
<1>2. PICK news \in Seq(ToClient(action)), k \in {0, 1} :
        /\ toClient' = toClient \o news /\ Len(news) = k + 3
        /\ k = 1 => news[1].type = "close" /\ news[1].window = serving
        /\ news[k + 1].type = "open" /\ news[k + 1].window = serving'
        /\ news[k + 2].type = "items" /\ news[k + 2].window = serving' /\ news[k + 2].slots = held'.slots
        /\ news[k + 3].type = "cursor" /\ news[k + 3].item = held'.cursor
  BY OpensStep
<1>3. /\ Len(toServer) = Len(toServer') + 1 /\ Len(toServer') \in Nat /\ 1 \in 1 .. Len(toServer)
      /\ \A j \in 1 .. Len(toServer') : toServer'[j] = toServer[j + 1] /\ j + 1 \in 1 .. Len(toServer)
  BY <1>0, <1>1, TailIs
<1>4. /\ open < w /\ \A j \in 1 .. Len(toServer) : toServer[j].type # "use" => toServer[j].window < w
      /\ \A j \in 1 .. Len(toClient) : toClient[j].type # "cursor" => toClient[j].window < w
  BY <1>1, <1>3 DEF Numbers
<1>5. w \in Nat
  <2>1. toServer[1] \in ToServer(action, uses)
    BY <1>0, <1>3
  <2> QED
    BY <1>0, <1>1, <2>1, MessageIs
<1>51. /\ \A j \in 1 .. Len(toServer) : toServer[j].window \in Nat
       /\ \A j \in 1 .. Len(toClient) : toClient[j].type # "cursor" => toClient[j].window \in Nat
  BY <1>0, MessageIs, PacketIs
<1>6. \A j \in 1 .. Len(toClient') :
        \/ j \in 1 .. Len(toClient) /\ toClient'[j] = toClient[j]
        \/ j \notin 1 .. Len(toClient) /\ j - Len(toClient) \in 1 .. Len(news) /\ toClient'[j] = news[j - Len(toClient)]
  BY <1>0, <1>2, ConcatParts
<1>61. /\ Len(news) \in Nat /\ Len(toClient') = Len(toClient) + Len(news)
       /\ \A j \in 1 .. Len(toClient) : toClient'[j] = toClient[j]
       /\ \A j \in 1 .. Len(news) : toClient'[Len(toClient) + j] = news[j]
  BY <1>0, <1>2, ConcatIs
<1>7. PICK n \in Nat : n = Len(toClient)
  BY <1>0
<1>8. \A j \in 1 .. Len(news) : j = k + 1 \/ j = k + 2 \/ j = k + 3 \/ (k = 1 /\ j = 1)
  BY <1>2
<1> SUFFICES ASSUME serving' # 0, NEW i \in 0 .. Len(toClient'), Since(i)' PROVE Exchanging(i)'
  BY DEF Exchange
<1>9. i = n + k + 1
  <2>1. i # 0
    BY <1>0, <1>1, <1>4, <1>5 DEF Since
  <2>2. i \in 1 .. Len(toClient') /\ toClient'[i].type = "open" /\ toClient'[i].window = w
    BY <2>1 DEF Since
  <2>3. CASE i \in 1 .. Len(toClient) /\ toClient'[i] = toClient[i]
    <3>1. toClient[i].window < w /\ toClient[i].window = w /\ toClient[i].window \in Nat
      BY <1>4, <1>51, <2>2, <2>3
    <3> QED
      BY <1>5, <3>1
  <2>4. CASE i - Len(toClient) \in 1 .. Len(news) /\ toClient'[i] = news[i - Len(toClient)]
    <3>1. i - n = k + 1
      BY <1>2, <1>7, <1>8, <2>2, <2>4
    <3> QED
      BY <3>1
  <2> QED
    BY <1>6, <2>2, <2>3, <2>4
<1>10. \A j \in 1 .. Len(toClient') : j > i => j - n = k + 2 \/ j - n = k + 3
  <2> SUFFICES ASSUME NEW j \in 1 .. Len(toClient'), j > i PROVE j - n = k + 2 \/ j - n = k + 3
    OBVIOUS
  <2> QED
    BY <1>2, <1>61, <1>7, <1>9
<1>11. \A j \in 1 .. Len(toClient') : j > i => toClient'[j] = news[k + 2] \/ toClient'[j] = news[k + 3]
  <2> SUFFICES ASSUME NEW j \in 1 .. Len(toClient'), j > i
               PROVE  toClient'[j] = news[k + 2] \/ toClient'[j] = news[k + 3]
    OBVIOUS
  <2>1. toClient'[j] = news[j - n]
    BY <1>6, <1>7, <1>9
  <2> QED
    BY <1>10, <2>1
<1>12. OfServed(i)'
  BY <1>2, <1>11 DEF OfServed
<1>13. WholeAt(i + 1)'
  <2>1. k + 2 \in 1 .. Len(news) /\ k + 3 \in 1 .. Len(news)
    BY <1>2
  <2>2. toClient'[n + (k + 2)] = news[k + 2] /\ toClient'[n + (k + 3)] = news[k + 3]
    BY <1>61, <1>7, <2>1
  <2>3. i + 1 = n + (k + 2) /\ (i + 1) + 1 = n + (k + 3)
        /\ i + 1 \in 1 .. Len(toClient') /\ (i + 1) + 1 \in 1 .. Len(toClient')
    BY <1>2, <1>61, <1>7, <1>9
  <2>4. toClient'[i + 1] = news[k + 2] /\ toClient'[(i + 1) + 1] = news[k + 3]
    BY <2>2, <2>3
  <2> QED
    BY <1>2, <2>3, <2>4 DEF WholeAt
<1>14. \A j \in 1 .. Len(toServer') : toServer'[j].type \in {"click", "apology"} => toServer'[j].window # w
  <2> SUFFICES ASSUME NEW j \in 1 .. Len(toServer'), toServer'[j].type \in {"click", "apology"}
               PROVE  toServer'[j].window # w
    OBVIOUS
  <2>1. j + 1 \in 1 .. Len(toServer) /\ toServer'[j] = toServer[j + 1]
    BY <1>3
  <2>2. toServer[j + 1].window < w /\ toServer[j + 1].window \in Nat
    BY <1>4, <1>51, <2>1
  <2> QED
    BY <1>5, <2>1, <2>2
<1>15. Fresh(i)'
  BY <1>1, <1>13, <1>14 DEF Fresh
<1>16. NoApology'
  BY <1>14 DEF NoApology, Apology
<1>17. \A j \in 1 .. Len(toClient') : j > i => ~Rejects(toClient'[j])
  BY <1>2, <1>11 DEF Rejects
<1> QED
  BY <1>1, <1>12, <1>15, <1>16, <1>17 DEF Exchanging

\* A slot that the server changes is of the window served.
LEMMA ExchangeChanges ==
  ASSUME WindowTypes, Exchange, UNCHANGED <<open, serving, locked, toServer>>,
         NEW news \in Seq(ToClient(action)), toClient' = toClient \o news, Len(news) = 1,
         news[1].type = "slot", news[1].window = serving
  PROVE  Exchange'
<1>0. toClient \in Seq(ToClient(action)) /\ Len(toClient) \in Nat
  BY TypesAre
<1>1. \A j \in 1 .. Len(toClient') :
        \/ j \in 1 .. Len(toClient) /\ toClient'[j] = toClient[j]
        \/ toClient'[j].type = "slot" /\ toClient'[j].window = serving
  <2>1. \A j \in 1 .. Len(news) : j = 1
    OBVIOUS
  <2> QED
    BY <1>0, <2>1, ConcatParts
<1>2. /\ Len(toClient') = Len(toClient) + 1 /\ Len(toClient') \in Nat
      /\ \A j \in 1 .. Len(toClient) : toClient'[j] = toClient[j] /\ j \in 1 .. Len(toClient')
  <2>1. /\ Len(toClient \o news) = Len(toClient) + Len(news)
        /\ \A j \in 1 .. Len(toClient) : (toClient \o news)[j] = toClient[j]
    BY <1>0, ConcatIs
  <2> QED
    BY <1>0, <2>1
<1> SUFFICES ASSUME serving # 0, NEW i \in 0 .. Len(toClient'), Since(i)' PROVE Exchanging(i)'
  BY DEF Exchange
<1>3. Since(i) /\ i \in 0 .. Len(toClient)
  BY <1>0, <1>1 DEF Since
<1>4. Exchanging(i)
  BY <1>3 DEF Exchange
<1>5. OfServed(i)'
  BY <1>1, <1>4 DEF Exchanging, OfServed
<1>6. \A j : WholeAt(j) => WholeAt(j)'
  BY <1>2 DEF WholeAt
<1>7. i > 0 => Fresh(i)'
  BY <1>4, <1>6 DEF Exchanging, Fresh
<1>8. \A j \in 1 .. Len(toClient') : Rejects(toClient'[j]) => j \in 1 .. Len(toClient) /\ Rejects(toClient[j])
  BY <1>1 DEF Rejects
<1>9. NoApology => NoApology'
  BY DEF NoApology
<1>10. RejectionComes => RejectionComes'
  <2> SUFFICES ASSUME RejectionComes PROVE RejectionComes'
    OBVIOUS
  <2>1. PICK j \in 1 .. Len(toClient) :
          /\ Rejects(toClient[j]) /\ toClient[j].action = locked /\ WholeAt(j + 1)
          /\ \A l \in 1 .. Len(toClient) : Rejects(toClient[l]) => l = j
    BY DEF RejectionComes
  <2>2. j \in 1 .. Len(toClient') /\ toClient'[j] = toClient[j] /\ WholeAt(j + 1)'
    BY <1>2, <1>6, <2>1
  <2> QED
    BY <1>8, <1>9, <2>1, <2>2 DEF RejectionComes
<1>11. ApologyComes => ApologyComes'
  BY <1>8 DEF ApologyComes, NoReject
<1>12. locked' = 0 => NoApology' /\ \A j \in 1 .. Len(toClient') : j > i => ~Rejects(toClient'[j])
  BY <1>4, <1>8, <1>9 DEF Exchanging
<1> QED
  BY <1>4, <1>5, <1>7, <1>10, <1>11, <1>12 DEF Exchanging

LEMMA ExchangeNext == WindowTypes /\ Numbers /\ Exchange /\ [WindowNext]_windowVars => Exchange'
<1> SUFFICES ASSUME WindowTypes, Numbers, Exchange, [WindowNext]_windowVars PROVE Exchange'
  OBVIOUS
<1>1. ASSUME UNCHANGED <<open, serving, locked, toServer, toClient>> PROVE Exchange'
  <2>1. \A i : Since(i)' => Since(i)
    BY <1>1 DEF Since
  <2>2. \A i : WholeAt(i) => WholeAt(i)'
    BY <1>1 DEF WholeAt
  <2>3. NoApology = NoApology' /\ NoReject = NoReject'
    BY <1>1 DEF NoApology, NoReject
  <2>4. RejectionComes => RejectionComes'
    BY <1>1, <2>2, <2>3 DEF RejectionComes
  <2>5. ApologyComes => ApologyComes'
    BY <1>1, <2>3 DEF ApologyComes
  <2>6. \A i : Fresh(i) => Fresh(i)'
    BY <1>1, <2>2 DEF Fresh
  <2>7. \A i : OfServed(i) => OfServed(i)'
    BY <1>1 DEF OfServed
  <2> QED
    BY <1>1, <2>1, <2>3, <2>4, <2>5, <2>6, <2>7 DEF Exchange, Exchanging
<1>2. ASSUME NEW click \in ClicksOn(Layout), Clicks(click), UNCHANGED <<serving, locked>> PROVE Exchange'
  <2>1. PICK m : toServer' = Append(toServer, m) /\ m.type = "click" /\ m.window = open
                 /\ open' = open /\ toClient' = toClient
    BY <1>2, ClickSent
  <2> QED
    BY <1>2, <2>1, ExchangeSends
<1>3. ASSUME UNCHANGED <<serving, locked, toClient>>, open' \in {0, open},
             NEW type \in {"close", "use"}, NEW w, toServer' = Append(toServer, [type |-> type, window |-> w])
      PROVE  Exchange'
  <2>1. PICK x : x = [type |-> type, window |-> w]
    OBVIOUS
  <2>2. x.type = type
    BY <2>1
  <2>3. toServer' = Append(toServer, x) /\ x.type # "apology" /\ x.type # "click"
    BY <1>3, <2>1, <2>2
  <2> QED
    BY <1>3, <2>3, ExchangeSends
<1>4. CASE Player \/ ClickOfDrag
  <2>1. CASE (\E click \in ClicksOn(Layout) : Clicks(click)) /\ UNCHANGED <<serving, held, locked, uses>>
    BY <1>2, <2>1
  <2>2. CASE UNCHANGED <<open, view, serving, held, locked, toServer, toClient, uses, sent, apart>>
    BY <1>1, <2>2
  <2>3. CASE /\ open' = 0 /\ toServer' = Append(toServer, [type |-> "close", window |-> open])
             /\ UNCHANGED <<serving, held, locked, toClient, uses, sent, apart>>
    BY <1>3, <2>3
  <2>4. CASE /\ uses' = uses + 1 /\ toServer' = Append(toServer, [type |-> "use", window |-> uses'])
             /\ UNCHANGED <<open, view, serving, held, locked, toClient, sent, apart>>
    <3>1. PICK w : w = uses'
      OBVIOUS
    <3> QED
      BY <1>3, <2>4, <3>1
  <2> QED
    BY <1>4, <2>1, <2>2, <2>3, <2>4, PlayerSteps
<1>5. CASE Packet
  BY <1>5, ExchangeReads
<1>6. CASE ServerHears
  BY <1>6, ExchangeRuns, ExchangeHears, ExchangeOpens DEF ServerHears
<1>7. CASE ServerCloses
  BY <1>7, ClosesStep DEF Exchange
<1>8. ASSUME NEW slot \in DeclaredSlots, NEW item \in Changes, ServerChanges(slot, item) PROVE Exchange'
  <2>1. UNCHANGED <<open, view, serving, locked, toServer, uses, apart>>
    BY <1>8, ChangesStep
  <2>2. PICK news \in Seq(ToClient(action)) :
          /\ toClient' = toClient \o news /\ Len(news) = 1
          /\ news[1].type = "slot" /\ news[1].window = serving /\ news[1].slot = slot /\ news[1].item = item
    BY <1>8, ChangesStep
  <2> QED
    BY <2>1, <2>2, ExchangeChanges
<1>9. CASE UNCHANGED windowVars
  BY <1>1, <1>9 DEF windowVars, client, server
<1> QED
  BY <1>4, <1>5, <1>6, <1>7, <1>8, <1>9 DEF WindowNext, ServerActs

-----------------------------------------------------------------------------
(* The ends run ahead go on agreeing.                                       *)

LEMMA TypesAfter ==
  ASSUME WindowTypes, WindowTypes', action <= action', uses <= uses'
  PROVE  \E a \in Nat, u \in Nat :
           /\ toServer \in Seq(ToServer(a, u)) /\ toServer' \in Seq(ToServer(a, u))
           /\ toClient \in Seq(ToClient(a)) /\ toClient' \in Seq(ToClient(a))
           /\ Len(toServer) \in Nat /\ Len(toServer') \in Nat /\ Len(toClient) \in Nat /\ Len(toClient') \in Nat
           /\ action <= a /\ uses <= u
<1>1. /\ action \in Nat /\ uses \in Nat /\ toServer \in Seq(ToServer(action, uses))
      /\ toClient \in Seq(ToClient(action))
  BY TypesAre
<1>2. PICK a, u : a = action' /\ u = uses'
  OBVIOUS
<1>3. /\ a \in Nat /\ u \in Nat /\ toServer' \in Seq(ToServer(a, u)) /\ toClient' \in Seq(ToClient(a))
  BY <1>2, SizesAre DEF WindowTypes, WindowTypeOK
<1>4. toServer \in Seq(ToServer(a, u)) /\ toClient \in Seq(ToClient(a))
  BY <1>1, <1>2, <1>3, PacketsStay
<1>5. Len(toServer) \in Nat /\ Len(toServer') \in Nat /\ Len(toClient) \in Nat /\ Len(toClient') \in Nat
  BY <1>3, <1>4
<1> QED
  BY <1>2, <1>3, <1>4, <1>5

\* One message more is heard.
OneMore(S, p, q) ==
  p \in Seq(S) /\ q \in Seq(S) /\ Len(q) = Len(p) + 1 /\ \A i \in 1 .. Len(p) : q[i] = p[i]
HearsMore(x, g, w, p, q, b) ==
  /\ HeardThrough(x, w, q, b) /\ \A i \in 0 .. Len(p) : x[i] = g[i]
  /\ g[Len(p)] \in Boxed /\ x[Len(p) + 1] = Hear(w, g[Len(p)], q[Len(p) + 1])

LEMMA HeardMore ==
  ASSUME NEW a \in Nat, NEW u \in Nat, NEW p, NEW q, OneMore(ToServer(a, u), p, q),
         NEW w, NEW b, NEW g, HeardThrough(g, w, p, b)
  PROVE  \E x : HearsMore(x, g, w, p, q, b)
<1>1. /\ p \in Seq(ToServer(a, u)) /\ q \in Seq(ToServer(a, u)) /\ Len(q) = Len(p) + 1
      /\ \A i \in 1 .. Len(p) : q[i] = p[i]
  BY DEF OneMore
<1>2. Len(p) \in Nat /\ Len(p) <= Len(q) /\ Len(q) \in Nat
  BY <1>1
<1>3. PICK x : HeardThrough(x, w, q, b) /\ SameUpTo(Len(p), g, x)
  <2>1. Continues(ToServer(a, u), p, q)
    BY <1>1, <1>2 DEF Continues
  <2> QED
    BY <2>1, HeardOn
<1>4. Len(p) + 1 \in 1 .. Len(q) /\ (Len(p) + 1) - 1 = Len(p) /\ Len(p) \in 0 .. Len(p)
  BY <1>1, <1>2
<1>5. \A i \in 1 .. Len(q) : x[i] = Hear(w, x[i - 1], q[i])
  BY <1>1, <1>3, HeardAt
<1>6. \A i \in 0 .. Len(p) : g[i] \in Boxed
  BY <1>1, HeardAt
<1> QED
  BY <1>3, <1>4, <1>5, <1>6 DEF HearsMore, SameUpTo

\* The session sends nothing that will be run: what it comes to show is what it
\* came to show before.
LEMMA EndsQuiet ==
  ASSUME WindowTypes, WindowTypes', action <= action', uses <= uses',
         NEW f, NEW g, Leads(f, g), UNCHANGED <<serving, held, locked, sent>>,
         NEW h, ReadThrough(h, toClient', [open |-> open', view |-> view']),
         h[Len(toClient')].open = serving => h[Len(toClient')] = f[Len(toClient)],
         toServer' = toServer \/ \E m : /\ ~Runs(serving, g[Len(toServer)], m)
                                      /\ toServer' = Append(toServer, m)
  PROVE  \E x : Leads(h, x)'
<1>0. PICK a \in Nat, u \in Nat :
        /\ toServer \in Seq(ToServer(a, u)) /\ toServer' \in Seq(ToServer(a, u))
        /\ toClient \in Seq(ToClient(a)) /\ toClient' \in Seq(ToClient(a))
        /\ Len(toServer) \in Nat /\ Len(toServer') \in Nat /\ Len(toClient) \in Nat /\ Len(toClient') \in Nat
  BY TypesAfter
<1> DEFINE n == Len(toServer)
<1>01. PICK b : b = [held |-> held, locked |-> locked]
  OBVIOUS
<1>1. HeardThrough(g, serving, toServer, b) /\ Ahead(f, g)
  BY <1>01 DEF Leads
<1>2. /\ \A i \in 0 .. n : g[i] \in Boxed
      /\ \A i \in 1 .. n : g[i - 1] \in Boxed /\ toServer[i] \in ToServer(a, u)
  BY <1>0, <1>1, HeardAt
<1>3. PICK x : /\ HeardThrough(x, serving, toServer', b) /\ x[Len(toServer')].held = g[n].held
               /\ \A i \in 1 .. Len(toServer') : Runs(serving, x[i - 1], toServer'[i]) => i \in 1 .. n
               /\ \A i \in 1 .. n : /\ i \in 1 .. Len(toServer') /\ toServer'[i] = toServer[i]
                                    /\ x[i - 1] = g[i - 1]
  <2>1. CASE toServer' = toServer
    BY <1>1, <2>1
  <2>2. ASSUME NEW m, ~Runs(serving, g[n], m), toServer' = Append(toServer, m)
        PROVE  \E x : /\ HeardThrough(x, serving, toServer', b) /\ x[Len(toServer')].held = g[n].held
                      /\ \A i \in 1 .. Len(toServer') : Runs(serving, x[i - 1], toServer'[i]) => i \in 1 .. n
                      /\ \A i \in 1 .. n : /\ i \in 1 .. Len(toServer') /\ toServer'[i] = toServer[i]
                                           /\ x[i - 1] = g[i - 1]
    <3>1. /\ Len(toServer') = n + 1 /\ toServer'[n + 1] = m /\ \A i \in 1 .. n : toServer'[i] = toServer[i]
      BY <1>0, <2>2, AppendIs
    <3>2. PICK x : HearsMore(x, g, serving, toServer, toServer', b)
      <4>1. OneMore(ToServer(a, u), toServer, toServer')
        BY <1>0, <3>1 DEF OneMore
      <4> QED
        BY <1>1, <4>1, HeardMore
    <3>3. /\ HeardThrough(x, serving, toServer', b) /\ \A i \in 0 .. n : x[i] = g[i]
          /\ x[n + 1] = Hear(serving, g[n], m) /\ g[n] \in Boxed /\ m \in ToServer(a, u)
      <4>1. n + 1 \in 1 .. Len(toServer')
        BY <1>0, <3>1
      <4> QED
        BY <1>0, <3>1, <3>2, <4>1 DEF HearsMore
    <3>5. x[n + 1].held = g[n].held
      <4> HIDE DEF n
      <4> QED
        BY <2>2, <3>3, HearIs
    <3>6. \A i \in 1 .. Len(toServer') : Runs(serving, x[i - 1], toServer'[i]) => i \in 1 .. n
      <4> SUFFICES ASSUME NEW i \in 1 .. Len(toServer'), i \notin 1 .. n PROVE ~Runs(serving, x[i - 1], toServer'[i])
        OBVIOUS
      <4>1. i = n + 1
        BY <1>0, <3>1
      <4> QED
        BY <1>0, <2>2, <3>1, <3>3, <4>1
    <3>7. \A i \in 1 .. n : i \in 1 .. Len(toServer') /\ i - 1 \in 0 .. n
      BY <1>0, <3>1
    <3> QED
      BY <3>1, <3>3, <3>5, <3>6, <3>7
  <2> QED
    BY <2>1, <2>2
<1>4. ReadThrough(h, toClient, [open |-> open, view |-> view])'
  OBVIOUS
<1>5. HeardThrough(x, serving, toServer, [held |-> held, locked |-> locked])'
  BY <1>01, <1>3
<1>6. Ahead(h, x)'
  <2> SUFFICES ASSUME h[Len(toClient')].open = serving,
                      \A i \in 1 .. Len(toServer') : Runs(serving, x[i - 1], toServer'[i]) => ~Crossed(toServer[i])'
               PROVE  /\ AgreeOn(DeclaredSlots, h[Len(toClient')].view, x[Len(toServer')].held)
                      /\ \A i \in 1 .. Len(toServer') :
                           Runs(serving, x[i - 1], toServer'[i]) => Predicted(x[i - 1].held, toServer'[i])
    BY DEF Ahead
  <2>1. f[Len(toClient)] = h[Len(toClient')] /\ f[Len(toClient)].open = serving
    OBVIOUS
  <2>2. \A i \in 1 .. n : Runs(serving, g[i - 1], toServer[i]) => ~Crossed(toServer[i])
    BY <1>3 DEF Crossed
  <2>3. /\ AgreeOn(DeclaredSlots, f[Len(toClient)].view, g[n].held)
        /\ \A i \in 1 .. n : Runs(serving, g[i - 1], toServer[i]) => Predicted(g[i - 1].held, toServer[i])
    BY <1>1, <2>1, <2>2 DEF Ahead
  <2> QED
    BY <1>3, <2>1, <2>3
<1> QED
  BY <1>4, <1>5, <1>6 DEF Leads

\* The session sends no click.
LEMMA EndsSends ==
  ASSUME WindowTypes, WindowTypes', action <= action', uses <= uses',
         NEW f, NEW g, Leads(f, g), UNCHANGED <<serving, held, locked, sent>>,
         NEW h, ReadThrough(h, toClient', [open |-> open', view |-> view']),
         h[Len(toClient')].open = serving => h[Len(toClient')] = f[Len(toClient)],
         toServer' = toServer \/ \E m : m.type # "click" /\ toServer' = Append(toServer, m)
  PROVE  \E x : Leads(h, x)'
<1>1. toServer' = toServer \/ \E m : /\ ~Runs(serving, g[Len(toServer)], m)
                                    /\ toServer' = Append(toServer, m)
  BY DEF Runs
<1> QED
  BY <1>1, EndsQuiet

\* A packet that notes nothing does what it does on the way.
LEMMA ReadsAre ==
  ASSUME WindowTypes, Packet, apart' = {}
  PROVE  apart = {} /\ [open |-> open', view |-> view'] = Read([open |-> open, view |-> view], toClient[1])
<1> DEFINE m == toClient[1]
           v == [open |-> open, view |-> view]
<1>1. /\ toClient # <<>> /\ m \in ToClient(action) /\ action \in Nat /\ m = Head(toClient)
      /\ view \in Boxes(Declared) /\ open \in Nat /\ v \in Ends
  BY PacketSteps, TypesAre, QueuesAre, EndsAre
<1>2. v.open = open /\ v.view = view
  OBVIOUS
<1>3. Declared \in Nat /\ DeclaredSlots = 1 .. Declared /\ DOMAIN view.slots = 1 .. Declared
  BY <1>1, SizesAre, BoxIs
<1>4. ~view.drag.open => \A c : c = [slots |-> c.slots, cursor |-> c.cursor, drag |-> view.drag] => ResetDrag(c) = c
  <2>1. ~view.drag.open => view.drag = NoDrag
    BY <1>1, BoxIs
  <2> QED
    BY <2>1 DEF ResetDrag
<1> HIDE DEF v
<1>5. CASE m.type = "open"
  <2>1. OpenWindow
    BY <1>5, PacketSteps
  <2>2. open' = m.window /\ view' = [NoContainer EXCEPT !.cursor = view.cursor] /\ apart' = apart
    BY <1>1, <2>1 DEF OpenWindow, history
  <2>3. Read(v, m) = [open |-> m.window, view |-> [NoContainer EXCEPT !.cursor = v.view.cursor]]
    BY <1>5 DEF Read
  <2> QED
    BY <1>2, <2>2, <2>3 DEF v
<1>6. CASE m.type = "slot"
  <2>1. SetSlot
    BY <1>6, PacketSteps
  <2>2. m.slot \in 1 .. Declared /\ m.item \in StacksOrEmpty
    BY <1>1, <1>6, PacketIs
  <2>3. open' = open /\ view' = IF m.window = open THEN [view EXCEPT !.slots[m.slot] = m.item] ELSE view
    BY <1>1, <1>3, <2>1, <2>2 DEF SetSlot, Carried
  <2>4. apart = {}
    BY <2>1 DEF SetSlot, Notes
  <2>5. Read(v, m) = [open |-> v.open,
                      view |-> IF m.window = v.open THEN [v.view EXCEPT !.slots[m.slot] = m.item] ELSE v.view]
    BY <1>1, <1>6, ReadIs
  <2> QED
    BY <1>2, <2>3, <2>4, <2>5 DEF v
<1>7. CASE m.type = "cursor"
  <2>1. SetCursor
    BY <1>7, PacketSteps
  <2>2. open' = open /\ view' = [view EXCEPT !.cursor = m.item]
    BY <1>1, <2>1 DEF SetCursor
  <2>3. apart = {} /\ ~view.drag.open
    BY <2>1 DEF SetCursor, Notes
  <2>4. Read(v, m) = [open |-> v.open, view |-> ResetDrag([v.view EXCEPT !.cursor = m.item])]
    BY <1>1, <1>7, ReadIs
  <2>5. ResetDrag(view') = view'
    <3>1. view' = [slots |-> view'.slots, cursor |-> view'.cursor, drag |-> view.drag]
      <4>1. view = [slots |-> view.slots, cursor |-> view.cursor, drag |-> view.drag]
        BY <1>1, BoxIs
      <4> QED
        BY <2>2, <4>1
    <3> QED
      BY <1>4, <2>3, <3>1
  <2> QED
    BY <1>2, <2>2, <2>3, <2>4, <2>5 DEF v
<1>8. CASE m.type = "items"
  <2>1. WindowItems
    BY <1>8, PacketSteps
  <2> DEFINE c == IF m.window = open THEN [view EXCEPT !.slots = [s \in DeclaredSlots |-> m.slots[s]]] ELSE view
  <2>2. open' = open /\ view' = c
    BY <1>1, <1>3, <2>1 DEF WindowItems
  <2>3. apart = {} /\ ~view.drag.open
    BY <2>1 DEF WindowItems, Notes
  <2>4. Read(v, m) = [open |-> v.open,
                      view |-> ResetDrag(IF m.window = v.open
                                         THEN [v.view EXCEPT !.slots = [s \in DeclaredSlots |-> m.slots[s]]]
                                         ELSE v.view)]
    BY <1>1, <1>8, ReadIs
  <2>41. Read(v, m) = [open |-> open, view |-> ResetDrag(c)]
    BY <1>2, <2>4 DEF v
  <2>5. ResetDrag(c) = c
    <3>1. c = [slots |-> c.slots, cursor |-> c.cursor, drag |-> view.drag]
      <4>1. view = [slots |-> view.slots, cursor |-> view.cursor, drag |-> view.drag]
        BY <1>1, BoxIs
      <4> QED
        BY <4>1
    <3> HIDE DEF c
    <3> QED
      BY <1>4, <2>3, <3>1
  <2> HIDE DEF c
  <2> QED
    BY <2>2, <2>3, <2>41, <2>5 DEF v
<1>9. CASE m.type = "confirm"
  <2>1. ConfirmTransaction
    BY <1>9, PacketSteps
  <2>2. UNCHANGED <<open, view, apart>>
    BY <2>1 DEF ConfirmTransaction, client, history
  <2>3. Read(v, m) = v
    BY <1>9 DEF Read
  <2> QED
    BY <2>2, <2>3 DEF v
<1>10. CASE m.type = "close"
  <2>1. WindowClosed
    BY <1>10, PacketSteps
  <2>2. apart' = apart /\ (m.window = open => open' = 0 /\ view' = NoContainer)
        /\ (m.window # open => open' = open /\ view' = view)
    BY <1>1, <2>1 DEF WindowClosed, Shut, history
  <2>3. Read(v, m) = IF m.window = v.open THEN [open |-> 0, view |-> NoContainer] ELSE v
    BY <1>10 DEF Read
  <2> QED
    BY <1>2, <2>2, <2>3 DEF v
<1> QED
  BY <1>1, <1>5, <1>6, <1>7, <1>8, <1>9, <1>10, PacketIs DEF v

LEMMA PacketKeeps == Packet => action' = action
BY DEF Packet, OpenWindow, SetSlot, SetCursor, WindowItems, ConfirmTransaction, WindowClosed, client

LEMMA EndsReads ==
  ASSUME WindowTypes, WindowTypes', EndsAgree, Packet
  PROVE  EndsAgree'
<1>1. /\ toClient # <<>> /\ toClient' = Tail(toClient) /\ UNCHANGED <<serving, held, locked, uses, sent>>
      /\ action' = action /\ action \in Nat /\ uses \in Nat /\ toClient \in Seq(ToClient(action))
  BY PacketSteps, PacketKeeps, TypesAre
<1> SUFFICES ASSUME apart' = {}, serving # 0 PROVE \E h, x : Leads(h, x)'
  BY <1>1 DEF EndsAgree
<1> DEFINE v == [open |-> open, view |-> view]
<1>2. apart = {} /\ [open |-> open', view |-> view'] = Read(v, toClient[1])
  BY ReadsAre
<1>3. PICK f, g : Leads(f, g)
  BY <1>2 DEF EndsAgree
<1>4. ReadThrough(f, toClient, v)
  BY <1>3 DEF Leads
<1> HIDE DEF v
<1>5. PICK h : ReadThrough(h, Tail(toClient), Read(v, toClient[1])) /\ h[Len(Tail(toClient))] = f[Len(toClient)]
  BY <1>1, <1>4, ReadTail
<1>6. ReadThrough(h, toClient', [open |-> open', view |-> view']) /\ h[Len(toClient')] = f[Len(toClient)]
  BY <1>1, <1>2, <1>5
<1>7. toServer' = toServer \/ \E m : m.type # "click" /\ toServer' = Append(toServer, m)
  <2>1. PICK x : x = [type |-> "apology", window |-> toClient[1].window, action |-> toClient[1].action]
    OBVIOUS
  <2>2. x.type # "click"
    BY <2>1
  <2> QED
    BY <2>1, <2>2, PacketSteps
<1>8. action <= action' /\ uses <= uses'
  BY <1>1
<1> QED
  BY <1>1, <1>3, <1>6, <1>7, <1>8, EndsSends

\* A session that does not hold the window served comes to what is sent with it.
LEMMA EndsSame ==
  ASSUME WindowTypes, Exchange, serving # 0,
         NEW v \in Ends, v.open # serving, NEW h, ReadThrough(h, toClient, v), h[Len(toClient)].open = serving,
         NEW u, NEW f, ReadThrough(f, toClient, u)
  PROVE  h[Len(toClient)] = f[Len(toClient)]
<1> DEFINE n == Len(toClient)
<1>1. action \in Nat /\ toClient \in Seq(ToClient(action)) /\ n \in Nat /\ serving \in Nat
  BY TypesAre
<1>2. PICK i \in 1 .. n : toClient[i].type = "open" /\ toClient[i].window = serving
  <2>1. serving # v.open /\ n \in 0 .. n
    BY <1>1
  <2>2. \A k \in 0 .. n : h[k].open = serving =>
          \E i \in 1 .. k : toClient[i].type = "open" /\ toClient[i].window = serving
    <3>1. Opened(h, toClient, serving)
      BY <1>1, <2>1, OpenedBy
    <3> QED
      BY <3>1 DEF Opened
  <2> QED
    BY <2>1, <2>2
<1>3. i \in 0 .. n /\ Since(i) /\ i > 0
  BY <1>1, <1>2 DEF Since
<1>4. Fresh(i)
  BY <1>3 DEF Exchange, Exchanging
<1>5. /\ i + 1 \in 1 .. n /\ (i + 1) + 1 <= n /\ (i + 1) - 1 = i
      /\ toClient[i + 1].type = "items" /\ toClient[i + 1].window = serving /\ toClient[(i + 1) + 1].type = "cursor"
  BY <1>1, <1>4 DEF Fresh, WholeAt
<1>6. /\ f[i - 1] \in Ends /\ f[i] = Read(f[i - 1], toClient[i])
      /\ h[i - 1] \in Ends /\ h[i] = Read(h[i - 1], toClient[i]) /\ toClient[i] \in ToClient(action)
  BY <1>1, ReadAt
<1>7. f[i].open = serving /\ h[i].open = serving
  BY <1>1, <1>2, <1>6, ReadOpens
<1> HIDE DEF n
<1> QED
  BY <1>1, <1>5, <1>7, Overwritten DEF n

LEMMA SeedsAre ==
  ASSUME WindowTypes
  PROVE  [open |-> open, view |-> view] \in Ends /\ [held |-> held, locked |-> locked] \in Boxed
BY TypesAre, EndsAre, BoxedAre

LEMMA EndsInit == WindowInit => Exchange /\ ReadsBehind /\ EndsAgree
BY DEF WindowInit, Exchange, ReadsBehind, EndsAgree

\* The session does no more than close its window or use a block.
LEMMA EndsPlayer ==
  ASSUME WindowTypes, WindowTypes', Exchange, EndsAgree, action <= action', uses <= uses',
         UNCHANGED <<serving, held, locked, toClient, sent, apart>>,
         open' = 0 \/ UNCHANGED <<open, view>>,
         toServer' = toServer \/ \E m : m.type # "click" /\ toServer' = Append(toServer, m)
  PROVE  EndsAgree'
<1> SUFFICES ASSUME apart = {}, serving # 0 PROVE \E h, x : Leads(h, x)'
  BY DEF EndsAgree
<1>1. PICK f, g : Leads(f, g)
  BY DEF EndsAgree
<1>2. ReadThrough(f, toClient, [open |-> open, view |-> view])
  BY <1>1 DEF Leads
<1>3. PICK h : /\ ReadThrough(h, toClient', [open |-> open', view |-> view'])
               /\ h[Len(toClient')].open = serving => h[Len(toClient')] = f[Len(toClient)]
  <2>1. CASE UNCHANGED <<open, view>>
    BY <1>2, <2>1
  <2>2. CASE open' = 0
    <3>0. PICK v : v = [open |-> open', view |-> view']
      OBVIOUS
    <3>1. v \in Ends /\ v.open = 0
      <4>1. view' \in Boxes(Declared)
        BY DEF WindowTypes
      <4> QED
        BY <2>2, <3>0, <4>1, EndsAre
    <3>2. action \in Nat /\ toClient \in Seq(ToClient(action))
      BY TypesAre
    <3>3. PICK h : ReadThrough(h, toClient, v)
      BY <3>1, <3>2, ReadExists
    <3>4. h[Len(toClient)].open = serving => h[Len(toClient)] = f[Len(toClient)]
      BY <1>2, <3>1, <3>3, EndsSame
    <3> QED
      BY <3>0, <3>3, <3>4
  <2> QED
    BY <2>1, <2>2
<1> QED
  BY <1>1, <1>3, EndsSends

\* The server hears the message at the front, and the session comes to what it
\* came to before.
LEMMA EndsTakes ==
  ASSUME WindowTypes, NEW f, NEW g, Leads(f, g), UNCHANGED <<serving, sent>>,
         toServer # <<>>, toServer' = Tail(toServer),
         [held |-> held', locked |-> locked'] = Hear(serving, [held |-> held, locked |-> locked], toServer[1]),
         Runs(serving, [held |-> held, locked |-> locked], toServer[1]) => ~Crossed(toServer[1]),
         NEW h, ReadThrough(h, toClient', [open |-> open', view |-> view']),
         h[Len(toClient')] = f[Len(toClient)]
  PROVE  \E x : Leads(h, x)'
<1>01. PICK b : b = [held |-> held, locked |-> locked]
  OBVIOUS
<1>02. PICK r : r = Tail(toServer)
  OBVIOUS
<1>0. HeardThrough(g, serving, toServer, b) /\ Ahead(f, g)
  BY <1>01 DEF Leads
<1>1. toServer \in Seq(ToServer(action, uses)) /\ action \in Nat /\ uses \in Nat
  BY TypesAre
<1>2. PICK x : x = [i \in 0 .. Len(r) |-> g[i + 1]]
  OBVIOUS
<1>3. /\ HeardThrough(x, serving, r, Hear(serving, b, toServer[1]))
      /\ Len(toServer) = Len(r) + 1 /\ \A i \in 1 .. Len(r) : r[i] = toServer[i + 1]
  BY <1>0, <1>02, <1>1, <1>2, HeardTail
<1>4. Len(r) \in Nat /\ Len(toServer) \in Nat
  BY <1>1, <1>02, TailIs
<1>5. HeardThrough(x, serving, toServer, [held |-> held, locked |-> locked])'
  BY <1>01, <1>02, <1>3
<1>6. g[0] = b
  BY <1>0, <1>1, HeardAt
<1>7. /\ x[Len(r)] = g[Len(toServer)]
      /\ \A i \in 1 .. Len(r) : /\ i + 1 \in 1 .. Len(toServer) /\ r[i] = toServer[i + 1]
                                /\ (i + 1) - 1 = i /\ x[i - 1] = g[i]
  <2>1. Len(r) \in 0 .. Len(r) /\ \A i \in 1 .. Len(r) : i - 1 \in 0 .. Len(r) /\ (i - 1) + 1 = i
    BY <1>4
  <2> QED
    BY <1>2, <1>3, <1>4, <2>1
<1>8. \A j \in 1 .. Len(toServer) : j = 1 \/ \E i \in 1 .. Len(r) : j = i + 1
  <2> SUFFICES ASSUME NEW j \in 1 .. Len(toServer), j # 1 PROVE j - 1 \in 1 .. Len(r) /\ j = (j - 1) + 1
    OBVIOUS
  <2> QED
    BY <1>3, <1>4
<1>9. Ahead(h, x)'
  <2> SUFFICES ASSUME h[Len(toClient')].open = serving,
                      \A i \in 1 .. Len(r) : Runs(serving, x[i - 1], r[i]) => ~Crossed(r[i])'
               PROVE  /\ AgreeOn(DeclaredSlots, h[Len(toClient')].view, x[Len(r)].held)
                      /\ \A i \in 1 .. Len(r) : Runs(serving, x[i - 1], r[i]) => Predicted(x[i - 1].held, r[i])
    BY <1>02 DEF Ahead
  <2>1. \A i \in 1 .. Len(r) : Runs(serving, g[i], toServer[i + 1]) => ~Crossed(toServer[i + 1])
    <3> SUFFICES ASSUME NEW i \in 1 .. Len(r), Runs(serving, g[i], toServer[i + 1])
                 PROVE  ~Crossed(toServer[i + 1])
      OBVIOUS
    <3>1. PICK m : m = toServer[i + 1]
      OBVIOUS
    <3>2. r[i] = m /\ x[i - 1] = g[i]
      BY <1>7, <3>1
    <3>3. ~Crossed(r[i])'
      BY <3>1, <3>2
    <3> QED
      BY <3>1, <3>2, <3>3 DEF Crossed
  <2>2. \A j \in 1 .. Len(toServer) : Runs(serving, g[j - 1], toServer[j]) => ~Crossed(toServer[j])
    <3> SUFFICES ASSUME NEW j \in 1 .. Len(toServer), Runs(serving, g[j - 1], toServer[j])
                 PROVE  ~Crossed(toServer[j])
      OBVIOUS
    <3>1. CASE j = 1
      BY <1>01, <1>6, <3>1
    <3>2. ASSUME NEW i \in 1 .. Len(r), j = i + 1 PROVE ~Crossed(toServer[j])
      BY <1>7, <2>1, <3>2
    <3> QED
      BY <1>8, <3>1, <3>2
  <2>3. /\ AgreeOn(DeclaredSlots, f[Len(toClient)].view, g[Len(toServer)].held)
        /\ \A j \in 1 .. Len(toServer) : Runs(serving, g[j - 1], toServer[j]) => Predicted(g[j - 1].held, toServer[j])
    BY <1>0, <2>2 DEF Ahead
  <2>4. \A i \in 1 .. Len(r) : Runs(serving, x[i - 1], r[i]) => Predicted(x[i - 1].held, r[i])
    <3> SUFFICES ASSUME NEW i \in 1 .. Len(r), Runs(serving, x[i - 1], r[i]) PROVE Predicted(x[i - 1].held, r[i])
      OBVIOUS
    <3>1. PICK j \in 1 .. Len(toServer) : j = i + 1 /\ j - 1 = i /\ r[i] = toServer[j] /\ x[i - 1] = g[j - 1]
      BY <1>7
    <3> QED
      BY <2>3, <3>1
  <2> QED
    BY <1>7, <2>3, <2>4
<1> QED
  BY <1>5, <1>9 DEF Leads

LEMMA EndsHears ==
  ASSUME WindowTypes, EndsAgree, ServerIgnoresClick \/ ServerUnlocks \/ ServerHearsClose
  PROVE  EndsAgree'
<1> DEFINE m == toServer[1]
<1>1. /\ toServer # <<>> /\ toServer' = Tail(toServer) /\ m \in ToServer(action, uses)
      /\ UNCHANGED <<open, view, uses, sent, apart, toClient>>
      /\ \/ /\ m.type = "click" /\ (m.window # serving \/ locked # 0)
            /\ UNCHANGED <<serving, held, locked>>
         \/ /\ m.type = "apology"
            /\ locked' = IF m.window = serving /\ m.action = locked THEN 0 ELSE locked
            /\ UNCHANGED <<serving, held>>
         \/ m.type = "close" /\ serving' = 0
  BY HearsSteps
<1> SUFFICES ASSUME apart = {}, serving' # 0 PROVE \E h, x : Leads(h, x)'
  BY <1>1 DEF EndsAgree
<1>2. serving' = serving
  BY <1>1
<1>3. PICK f, g : Leads(f, g)
  BY <1>2 DEF EndsAgree
<1>4. PICK b : b = [held |-> held, locked |-> locked]
  OBVIOUS
<1>5. b \in Boxed /\ b.held = held /\ b.locked = locked /\ action \in Nat /\ uses \in Nat
  BY <1>4, SeedsAre, TypesAre
<1>6. ~Runs(serving, b, m)
  BY <1>1, <1>2, <1>5 DEF Runs
<1>7. [held |-> held', locked |-> locked'] = Hear(serving, b, m)
  <2> DEFINE after == IF m.type = "apology" /\ m.window = serving /\ m.action = b.locked THEN 0 ELSE b.locked
  <2>1. PICK c : c = Hear(serving, b, m)
    OBVIOUS
  <2>2. c \in Boxed /\ c.held = b.held /\ c.locked = after
    BY <1>1, <1>5, <1>6, <2>1, HearIs
  <2>3. c = [held |-> c.held, locked |-> c.locked]
    BY <2>2, BoxedAre
  <2>4. held' = held /\ locked' = after
    BY <1>1, <1>2, <1>5
  <2> HIDE DEF after
  <2> QED
    BY <1>5, <2>1, <2>2, <2>3, <2>4
<1>8. ReadThrough(f, toClient', [open |-> open', view |-> view'])
  BY <1>1, <1>3 DEF Leads
<1> QED
  BY <1>1, <1>2, <1>3, <1>4, <1>6, <1>7, <1>8, EndsTakes

\* One packet more is read.
ReadsMore(h, f, p, q, v) ==
  /\ ReadThrough(h, q, v) /\ \A i \in 0 .. Len(p) : h[i] = f[i]
  /\ f[Len(p)] \in Ends /\ h[Len(p) + 1] = Read(f[Len(p)], q[Len(p) + 1])

LEMMA ReadMore ==
  ASSUME NEW a \in Nat, NEW p, NEW q, OneMore(ToClient(a), p, q), NEW v, NEW f, ReadThrough(f, p, v)
  PROVE  \E h : ReadsMore(h, f, p, q, v)
<1>1. /\ p \in Seq(ToClient(a)) /\ q \in Seq(ToClient(a)) /\ Len(q) = Len(p) + 1
      /\ \A i \in 1 .. Len(p) : q[i] = p[i]
  BY DEF OneMore
<1>2. Len(p) \in Nat /\ Len(p) <= Len(q) /\ Len(q) \in Nat
  BY <1>1
<1>3. PICK h : ReadThrough(h, q, v) /\ SameUpTo(Len(p), f, h)
  <2>1. Continues(ToClient(a), p, q)
    BY <1>1, <1>2 DEF Continues
  <2> QED
    BY <2>1, ReadOn
<1>4. Len(p) + 1 \in 1 .. Len(q) /\ (Len(p) + 1) - 1 = Len(p) /\ Len(p) \in 0 .. Len(p)
  BY <1>1, <1>2
<1>5. \A i \in 1 .. Len(q) : h[i] = Read(h[i - 1], q[i])
  BY <1>1, <1>3, ReadAt
<1>6. \A i \in 0 .. Len(p) : f[i] \in Ends
  BY <1>1, ReadAt
<1> QED
  BY <1>3, <1>4, <1>5, <1>6 DEF ReadsMore, SameUpTo

LEMMA OneIs ==
  ASSUME NEW S, NEW q \in Seq(S), NEW r \in Seq(S)
  PROVE  Len(r) = 1 => OneMore(S, q, q \o r) /\ (q \o r)[Len(q) + 1] = r[1] /\ r[1] \in S
<1>1. /\ Len(q \o r) = Len(q) + Len(r) /\ Len(q) \in Nat
      /\ \A i \in 1 .. Len(q) : (q \o r)[i] = q[i]
      /\ \A i \in 1 .. Len(r) : (q \o r)[Len(q) + i] = r[i]
  BY ConcatIs
<1> SUFFICES ASSUME Len(r) = 1 PROVE OneMore(S, q, q \o r) /\ (q \o r)[Len(q) + 1] = r[1] /\ r[1] \in S
  OBVIOUS
<1>2. 1 \in 1 .. Len(r)
  OBVIOUS
<1>3. r[1] \in S
  <2>1. r \in [1 .. Len(r) -> S]
    OBVIOUS
  <2> QED
    BY <1>2, <2>1
<1>4. q \o r \in Seq(S)
  BY QueuesAre
<1> QED
  BY <1>1, <1>2, <1>3, <1>4 DEF OneMore

\* The server sends one packet more.
LEMMA OneSent ==
  ASSUME WindowTypes, NEW news \in Seq(ToClient(action)), Len(news) = 1, toClient' = toClient \o news
  PROVE  /\ OneMore(ToClient(action), toClient, toClient') /\ toClient'[Len(toClient) + 1] = news[1]
         /\ Len(toClient') = Len(toClient) + 1 /\ news[1] \in ToClient(action)
<1>1. toClient \in Seq(ToClient(action))
  BY TypesAre
<1>2. /\ OneMore(ToClient(action), toClient, toClient \o news) /\ (toClient \o news)[Len(toClient) + 1] = news[1]
      /\ news[1] \in ToClient(action)
  BY <1>1, OneIs
<1> QED
  BY <1>2 DEF OneMore

\* The session comes to hold the window served at some packet on its way.
LEMMA ComesSince ==
  ASSUME WindowTypes, Exchange, serving # 0, NEW f, ReadThrough(f, toClient, [open |-> open, view |-> view]),
         f[Len(toClient)].open = serving
  PROVE  \E i \in 0 .. Len(toClient) : Since(i) /\ Exchanging(i)
<1>1. PICK v : v = [open |-> open, view |-> view]
  OBVIOUS
<1>2. v \in Ends /\ v.open = open /\ ReadThrough(f, toClient, v)
  BY <1>1, SeedsAre
<1>3. action \in Nat /\ toClient \in Seq(ToClient(action)) /\ Len(toClient) \in Nat
  BY TypesAre
<1>4. \E i \in 0 .. Len(toClient) : Since(i)
  <2>1. CASE open = serving
    <3>1. 0 \in 0 .. Len(toClient) /\ Since(0)
      BY <1>3, <2>1 DEF Since
    <3> QED
      BY <3>1
  <2>2. CASE open # serving
    <3>1. Opened(f, toClient, serving)
      BY <1>2, <1>3, <2>2, OpenedBy
    <3>2. Len(toClient) \in 0 .. Len(toClient)
      BY <1>3
    <3>3. PICK i \in 1 .. Len(toClient) : toClient[i].type = "open" /\ toClient[i].window = serving
      BY <3>1, <3>2 DEF Opened
    <3>4. i \in 0 .. Len(toClient) /\ Since(i)
      BY <1>3, <3>3 DEF Since
    <3> QED
      BY <3>4
  <2> QED
    BY <2>1, <2>2
<1> QED
  BY <1>4 DEF Exchange

LEMMA PickupEndsDrag ==
  ASSUME NEW n \in Nat, NEW c \in Boxes(n), NEW k \in ClicksOn(n), k.mode = "pickup"
  PROVE  SlotClick(c, k).drag = NoDrag
<1>1. CASE c.drag.open
  <2>1. SlotClick(c, k) = [c EXCEPT !.drag = NoDrag]
    BY <1>1 DEF SlotClick
  <2> QED
    BY <2>1, BoxIs
<1>2. CASE ~c.drag.open
  <2>1. SlotClick(c, k) = IF k.slot = NoSlot THEN Throw(c, k.button) ELSE Pickup(c, k.slot, k.button)
    BY <1>2 DEF SlotClick
  <2>2. c.drag = NoDrag
    BY <1>2, BoxIs
  <2>3. Throw(c, k.button).drag = c.drag
    BY BoxIs DEF Throw
  <2>4. k.slot # NoSlot => Pickup(c, k.slot, k.button).drag = c.drag
    BY ClickIs, PickupTrades DEF Trade
  <2> QED
    BY <2>1, <2>2, <2>3, <2>4
<1> QED
  BY <1>1, <1>2

\* A click accepted: the session comes to what it came to before.
LEMMA EndsAccepts ==
  ASSUME WindowTypes, EndsAgree, ServerRunsClick, apart' = {}, serving # 0,
         Carrier(held, toServer[1].click) = toServer[1].echo
  PROVE  \E h, x : Leads(h, x)'
<1> DEFINE m == toServer[1]
<1>1. /\ toServer # <<>> /\ toServer' = Tail(toServer) /\ m \in ToServer(action, uses)
      /\ m.type = "click" /\ m.window = serving /\ locked = 0
      /\ held' = SlotClick(held, m.click) /\ UNCHANGED <<open, view, serving, uses, sent>> /\ locked' = 0
      /\ apart' = apart \cup (IF Crossed(m) THEN {"crossed"} ELSE {})
      /\ \E news \in Seq(ToClient(action)) :
           /\ toClient' = toClient \o news /\ Len(news) = 1
           /\ news[1].type = "confirm" /\ news[1].window = serving /\ news[1].accepted
  BY RunsStep
<1>2. apart = {} /\ ~Crossed(m)
  <2> HIDE DEF m
  <2> QED
    BY <1>1
<1>3. PICK f, g : Leads(f, g)
  BY <1>2 DEF EndsAgree
<1>4. PICK v : v = [open |-> open, view |-> view]
  OBVIOUS
<1>5. ReadThrough(f, toClient, v) /\ action \in Nat /\ uses \in Nat
  BY <1>3, <1>4, TypesAre DEF Leads
<1>6. PICK news \in Seq(ToClient(action)) :
           /\ toClient' = toClient \o news /\ Len(news) = 1
           /\ news[1].type = "confirm" /\ news[1].window = serving /\ news[1].accepted
  BY <1>1
<1>7. /\ OneMore(ToClient(action), toClient, toClient') /\ toClient'[Len(toClient) + 1] = news[1]
      /\ Len(toClient') = Len(toClient) + 1 /\ news[1] \in ToClient(action)
  BY <1>6, OneSent
<1>8. PICK h : ReadsMore(h, f, toClient, toClient', v)
  BY <1>5, <1>7, ReadMore
<1>9. ReadThrough(h, toClient', [open |-> open', view |-> view']) /\ h[Len(toClient')] = f[Len(toClient)]
  <2>1. h[Len(toClient) + 1] = Read(f[Len(toClient)], news[1]) /\ f[Len(toClient)] \in Ends
    BY <1>7, <1>8 DEF ReadsMore
  <2>2. Read(f[Len(toClient)], news[1]) = f[Len(toClient)]
    BY <1>5, <1>6, <1>7, <2>1, ReadIs
  <2> QED
    BY <1>1, <1>4, <1>7, <1>8, <2>1, <2>2 DEF ReadsMore
<1>10. PICK b : b = [held |-> held, locked |-> locked]
  OBVIOUS
<1>11. [held |-> held', locked |-> locked'] = Hear(serving, b, m)
  <2>1. b \in Boxed /\ b.held = held /\ b.locked = locked
    BY <1>10, SeedsAre
  <2>2. Runs(serving, b, m)
    BY <1>1, <2>1 DEF Runs
  <2>3. Hear(serving, b, m) = [held |-> SlotClick(b.held, m.click), locked |-> b.locked]
    BY <1>1, <1>5, <2>1, <2>2, HearIs
  <2> QED
    BY <1>1, <2>1, <2>3
<1> QED
  BY <1>1, <1>2, <1>3, <1>9, <1>10, <1>11, EndsTakes

\* A click rejected: the window whole is on its way, and until it is
\* acknowledged no click is heard.
LEMMA EndsRejects ==
  ASSUME WindowTypes, WindowTypes', Exchange, ReadsBehind, ServerRunsClick, serving # 0,
         Carrier(held, toServer[1].click) # toServer[1].echo
  PROVE  \E h, x : Leads(h, x)'
<1> DEFINE m == toServer[1]
           n == Len(toClient)
<1>1. /\ toServer # <<>> /\ toServer' = Tail(toServer) /\ m \in ToServer(action, uses)
      /\ m.type = "click" /\ m.window = serving /\ locked = 0 /\ action' = action
      /\ held' = SlotClick(held, m.click) /\ UNCHANGED <<open, view, serving, uses, sent>> /\ locked' = m.action
      /\ \E news \in Seq(ToClient(action)) :
           /\ toClient' = toClient \o news /\ Len(news) = 3
           /\ news[1].type = "confirm" /\ news[1].window = serving /\ ~news[1].accepted
           /\ news[1].action = locked'
           /\ news[2].type = "items" /\ news[2].window = serving /\ news[2].slots = held'.slots
           /\ news[3].type = "cursor" /\ news[3].item = held'.cursor
  BY RunsStep DEF ServerRunsClick, client
<1>2. /\ action \in Nat /\ uses \in Nat /\ held \in Boxes(Layout) /\ toClient \in Seq(ToClient(action)) /\ n \in Nat
      /\ toServer \in Seq(ToServer(action, uses)) /\ Declared \in Nat /\ Layout \in Nat /\ Declared <= Layout
      /\ DeclaredSlots = 1 .. Declared /\ serving \in Nat
  BY TypesAre, SizesAre
<1>3. held'.drag = NoDrag
  <2>1. m.click \in ClicksOn(Layout)
    BY <1>1, <1>2, MessageIs
  <2>2. m.click.mode = "pickup"
    <3>1. 1 \in 1 .. Len(toServer)
      BY <1>1, <1>2
    <3>2. m.echo # Empty => m.click.mode = "pickup"
      BY <1>1, <3>1 DEF ReadsBehind
    <3> QED
      BY <3>2 DEF Carrier
  <2> QED
    BY <1>1, <1>2, <2>1, <2>2, PickupEndsDrag
<1>4. PICK v : v = [open |-> open, view |-> view]
  OBVIOUS
<1>41. v \in Ends
  BY <1>4, SeedsAre
<1>5. PICK f : ReadThrough(f, toClient, v)
  BY <1>2, <1>41, ReadExists
<1>6. PICK c, l : c = held' /\ l = locked'
  OBVIOUS
<1>61. c \in Boxes(Layout) /\ l \in Nat /\ l # 0 /\ c.drag = NoDrag
  <2>1. m.action \in 1 .. action
    BY <1>1, <1>2, MessageIs
  <2> QED
    BY <1>1, <1>2, <1>3, <1>6, <2>1 DEF WindowTypes
<1>7. PICK b : b = [held |-> c, locked |-> l]
  OBVIOUS
<1>8. b \in Boxed /\ b.held = c /\ b.locked = l
  BY <1>61, <1>7, BoxedAre
<1>9. PICK r : r = Tail(toServer)
  OBVIOUS
<1>10. /\ r \in Seq(ToServer(action, uses)) /\ Len(r) \in Nat
       /\ \A i \in 1 .. Len(r) : r[i] = toServer[i + 1] /\ i + 1 \in 1 .. Len(toServer)
  BY <1>1, <1>2, <1>9, TailIs, QueuesAre
<1>11. PICK x : HeardThrough(x, serving, r, b)
  BY <1>2, <1>8, <1>10, HeardExists
<1>12. HeardThrough(x, serving, toServer, [held |-> held, locked |-> locked])'
  BY <1>1, <1>6, <1>7, <1>9, <1>11
<1>13. PICK q : q = toClient'
  OBVIOUS
<1>14. PICK news \in Seq(ToClient(action)) :
           /\ toClient' = toClient \o news /\ Len(news) = 3
           /\ news[1].type = "confirm" /\ news[1].window = serving /\ ~news[1].accepted
           /\ news[1].action = locked'
           /\ news[2].type = "items" /\ news[2].window = serving /\ news[2].slots = held'.slots
           /\ news[3].type = "cursor" /\ news[3].item = held'.cursor
  BY <1>1
<1>15. /\ Len(toClient \o news) = n + Len(news)
       /\ \A i \in 1 .. n : (toClient \o news)[i] = toClient[i]
       /\ \A i \in 1 .. Len(news) : (toClient \o news)[n + i] = news[i]
       /\ toClient \o news \in Seq(ToClient(action))
  BY <1>2, ConcatIs, QueuesAre
<1>16. /\ q \in Seq(ToClient(action)) /\ Len(q) = n + 3 /\ \A i \in 1 .. n : q[i] = toClient[i]
       /\ q[n + 1] = news[1] /\ q[n + 2] = news[2] /\ q[n + 3] = news[3]
  <2>1. 1 \in 1 .. Len(news) /\ 2 \in 1 .. Len(news) /\ 3 \in 1 .. Len(news)
    BY <1>14
  <2>2. q = toClient \o news /\ Len(news) = 3
    BY <1>13, <1>14
  <2> HIDE DEF n
  <2> QED
    BY <1>15, <2>1, <2>2
<1> HIDE DEF n
<1>17. PICK h : ReadThrough(h, q, v) /\ SameUpTo(n, f, h)
  <2>1. Continues(ToClient(action), toClient, q)
    <3>1. toClient \in Seq(ToClient(action)) /\ n \in Nat /\ n = Len(toClient)
      BY <1>2 DEF n
    <3>2. q \in Seq(ToClient(action)) /\ Len(q) = n + 3 /\ \A i \in 1 .. n : q[i] = toClient[i]
      BY <1>16
    <3>3. n <= n + 3
      BY <3>1
    <3> QED
      BY <3>1, <3>2, <3>3 DEF Continues
  <2> QED
    BY <1>2, <1>5, <2>1, ReadOn DEF n
<1>18. ReadThrough(h, toClient, [open |-> open, view |-> view])'
  BY <1>1, <1>4, <1>13, <1>17
<1>19. /\ h[n] = f[n] /\ h[n] \in Ends /\ h[n + 1] \in Ends /\ h[n + 2] \in Ends
       /\ q[n + 1] \in ToClient(action) /\ q[n + 2] \in ToClient(action) /\ q[n + 3] \in ToClient(action)
       /\ h[n + 1] = Read(h[n], q[n + 1]) /\ h[n + 2] = Read(h[n + 1], q[n + 2])
       /\ h[n + 3] = Read(h[n + 2], q[n + 3])
  <2>1. /\ n \in 0 .. n /\ n + 1 \in 1 .. Len(q) /\ n + 2 \in 1 .. Len(q) /\ n + 3 \in 1 .. Len(q)
        /\ (n + 1) - 1 = n /\ (n + 2) - 1 = n + 1 /\ (n + 3) - 1 = n + 2
    BY <1>2, <1>16 DEF n
  <2>2. \A i \in 1 .. Len(q) : h[i - 1] \in Ends /\ q[i] \in ToClient(action) /\ h[i] = Read(h[i - 1], q[i])
    <3>1. q \in Seq(ToClient(action)) /\ action \in Nat /\ ReadThrough(h, q, v)
      BY <1>2, <1>16, <1>17
    <3> QED
      BY <3>1, ReadAt
  <2> QED
    BY <1>17, <2>1, <2>2 DEF SameUpTo
<1>20. h[n + 3].open = h[n].open
  <2>1. q[n + 1].type = "confirm" /\ q[n + 2].type = "items" /\ q[n + 3].type = "cursor"
    BY <1>14, <1>16
  <2>2. h[n + 1].open = h[n].open
    BY <1>2, <1>19, <2>1, ReadOpens
  <2>3. h[n + 2].open = h[n + 1].open
    BY <1>2, <1>19, <2>1, ReadOpens
  <2>4. h[n + 3].open = h[n + 2].open
    BY <1>2, <1>19, <2>1, ReadOpens
  <2> QED
    BY <2>2, <2>3, <2>4
<1>21. Ahead(h, x)'
  <2> SUFFICES ASSUME h[Len(q)].open = serving
               PROVE  /\ AgreeOn(DeclaredSlots, h[Len(q)].view, x[Len(r)].held)
                      /\ \A i \in 1 .. Len(r) : ~Runs(serving, x[i - 1], r[i])
    BY <1>1, <1>9, <1>13 DEF Ahead
  <2>1. h[n].open = serving /\ f[n].open = serving
    BY <1>16, <1>19, <1>20
  <2>2. NoApology
    <3>1. PICK i \in 0 .. Len(toClient) : Since(i) /\ Exchanging(i)
      BY <1>4, <1>5, <2>1, ComesSince DEF n
    <3> QED
      BY <1>1, <3>1 DEF Exchanging
  <2>3. \A i \in 1 .. Len(r) : ~ (r[i].type = "apology" /\ r[i].window = serving)
    BY <1>10, <2>2 DEF NoApology, Apology
  <2>4. (\A k \in 0 .. Len(r) : x[k] = b) /\ \A i \in 1 .. Len(r) : ~Runs(serving, x[i - 1], r[i])
    <3>1. r \in Seq(ToServer(action, uses)) /\ action \in Nat /\ uses \in Nat /\ b.locked # 0
      BY <1>2, <1>8, <1>61, <1>10
    <3> QED
      BY <1>11, <2>3, <3>1, StaysDeaf
  <2>5. x[Len(r)].held = c
    BY <1>8, <1>10, <2>4
  <2>6. h[n + 1] = h[n]
    <3>1. q[n + 1].type = "confirm"
      BY <1>14, <1>16
    <3> QED
      BY <1>2, <1>19, <3>1, ReadIs
  <2>7. PICK slots : slots = [s \in DeclaredSlots |-> q[n + 2].slots[s]]
    OBVIOUS
  <2>8. h[n + 2] = [open |-> h[n + 1].open,
                    view |-> [slots |-> slots, cursor |-> h[n + 1].view.cursor, drag |-> NoDrag]]
    <3>1. q[n + 2].type = "items" /\ q[n + 2].window = h[n + 1].open
      BY <1>14, <1>16, <2>1, <2>6
    <3> QED
      BY <1>2, <1>19, <2>7, <3>1, ReadItems
  <2>9. h[n + 3] = [open |-> h[n + 2].open,
                    view |-> [slots |-> h[n + 2].view.slots, cursor |-> q[n + 3].item, drag |-> NoDrag]]
    BY <1>2, <1>14, <1>16, <1>19, ReadCursor
  <2>10. h[n + 3].view = [slots |-> slots, cursor |-> c.cursor, drag |-> NoDrag]
    BY <1>6, <1>14, <1>16, <2>8, <2>9
  <2>11. \A s \in DeclaredSlots : slots[s] = c.slots[s]
    BY <1>6, <1>14, <1>16, <2>7
  <2> QED
    BY <1>16, <1>61, <2>4, <2>5, <2>10, <2>11 DEF AgreeOn
<1> QED
  BY <1>12, <1>18, <1>21 DEF Leads

LEMMA EndsRuns ==
  ASSUME WindowTypes, WindowTypes', Exchange, ReadsBehind, EndsAgree, ServerRunsClick
  PROVE  EndsAgree'
<1>1. serving' = serving
  BY RunsStep
<1> SUFFICES ASSUME apart' = {}, serving # 0 PROVE \E h, x : Leads(h, x)'
  BY <1>1 DEF EndsAgree
<1> QED
  BY EndsAccepts, EndsRejects

\* A window opened: it is on its way whole, and no click of it is.
LEMMA EndsOpens ==
  ASSUME WindowTypes, WindowTypes', Numbers, ServerOpens
  PROVE  EndsAgree'
<1> DEFINE m == toServer[1]
           n == Len(toClient)
<1>1. /\ toServer # <<>> /\ toServer' = Tail(toServer) /\ m \in ToServer(action, uses) /\ m.type = "use"
      /\ serving' = m.window /\ held' = Dropped(held) /\ locked' = 0
      /\ UNCHANGED <<open, view, uses, sent, apart>>
  BY OpensStep
<1>2. /\ action \in Nat /\ uses \in Nat /\ held \in Boxes(Layout) /\ toClient \in Seq(ToClient(action)) /\ n \in Nat
      /\ toServer \in Seq(ToServer(action, uses)) /\ Declared \in Nat /\ Layout \in Nat /\ Declared <= Layout
      /\ DeclaredSlots = 1 .. Declared
  BY TypesAre, SizesAre
<1>3. PICK w, c : w = serving' /\ c = held'
  OBVIOUS
<1>4. c \in Boxes(Layout) /\ c.drag = NoDrag
  BY <1>1, <1>2, <1>3 DEF WindowTypes, Dropped
<1>5. PICK v : v = [open |-> open, view |-> view]
  OBVIOUS
<1>6. v \in Ends
  BY <1>5, SeedsAre
<1>7. PICK b : b = [held |-> c, locked |-> 0]
  OBVIOUS
<1>8. b \in Boxed /\ b.held = c /\ b.locked = 0
  BY <1>4, <1>7, BoxedAre
<1>9. PICK r : r = Tail(toServer)
  OBVIOUS
<1>10. /\ r \in Seq(ToServer(action, uses)) /\ Len(r) \in Nat
       /\ \A i \in 1 .. Len(r) : r[i] = toServer[i + 1] /\ i + 1 \in 1 .. Len(toServer)
  BY <1>1, <1>2, <1>9, TailIs, QueuesAre
<1>11. PICK x : HeardThrough(x, w, r, b)
  BY <1>2, <1>8, <1>10, HeardExists
<1>12. HeardThrough(x, serving, toServer, [held |-> held, locked |-> locked])'
  BY <1>1, <1>3, <1>7, <1>9, <1>11
<1>13. \A i \in 1 .. Len(r) : r[i].type \in {"click", "apology"} => r[i].window # w
  <2>1. 1 \in 1 .. Len(toServer)
    BY <1>1, <1>2
  <2>2. \A j \in 1 .. Len(toServer) : toServer[j].type # "use" => toServer[j].window < w
    BY <1>1, <1>3, <2>1 DEF Numbers
  <2>3. \A j \in 1 .. Len(toServer) : toServer[j].window \in Nat
    <3>1. \A j \in 1 .. Len(toServer) : toServer[j] \in ToServer(action, uses)
      BY TypesAre
    <3> QED
      BY <1>2, <3>1, MessageIs
  <2> QED
    BY <1>10, <2>2, <2>3
<1>14. /\ \A k \in 0 .. Len(r) : x[k] = b
       /\ \A i \in 1 .. Len(r) : ~Runs(w, x[i - 1], r[i])
  <2>1. \A j \in 1 .. Len(r) : ~ (r[j].type = "apology" /\ r[j].window = w)
    BY <1>13
  <2>2. \A j \in 1 .. Len(r) : ~ (r[j].type = "click" /\ r[j].window = w)
    BY <1>13
  <2> QED
    BY <1>2, <1>8, <1>10, <1>11, <2>1, <2>2, StaysDeaf
<1>15. x[Len(r)].held = c
  BY <1>8, <1>10, <1>14
<1>16. PICK news \in Seq(ToClient(action)), k \in {0, 1} :
              /\ toClient' = toClient \o news /\ Len(news) = k + 3
              /\ k = 1 => news[1].type = "close" /\ news[1].window = serving
              /\ news[k + 1].type = "open" /\ news[k + 1].window = serving'
              /\ news[k + 2].type = "items" /\ news[k + 2].window = serving' /\ news[k + 2].slots = held'.slots
              /\ news[k + 3].type = "cursor" /\ news[k + 3].item = held'.cursor
  BY OpensStep
<1>17. PICK q : q = toClient'
  OBVIOUS
<1>18. /\ Len(toClient \o news) = n + Len(news)
       /\ \A i \in 1 .. Len(news) : (toClient \o news)[n + i] = news[i]
       /\ toClient \o news \in Seq(ToClient(action))
  BY <1>2, ConcatIs, QueuesAre
<1>19. PICK j : j = n + k + 1
  OBVIOUS
<1>20. /\ q \in Seq(ToClient(action)) /\ j \in Nat /\ j > 0 /\ Len(q) = j + 2
       /\ q[j] = news[k + 1] /\ q[j + 1] = news[k + 2] /\ q[j + 2] = news[k + 3]
  <2>1. k + 1 \in 1 .. Len(news) /\ k + 2 \in 1 .. Len(news) /\ k + 3 \in 1 .. Len(news)
    BY <1>16
  <2>2. q = toClient \o news /\ Len(news) = k + 3
    BY <1>16, <1>17
  <2>3. n + (k + 1) = j /\ n + (k + 2) = j + 1 /\ n + (k + 3) = j + 2 /\ j \in Nat /\ j > 0
    BY <1>2, <1>19
  <2> HIDE DEF n
  <2> QED
    BY <1>18, <2>1, <2>2, <2>3
<1> HIDE DEF n
<1>21. PICK h : ReadThrough(h, q, v)
  BY <1>2, <1>6, <1>20, ReadExists
<1>22. ReadThrough(h, toClient, [open |-> open, view |-> view])'
  BY <1>1, <1>5, <1>17, <1>21
<1>23. /\ h[j - 1] \in Ends /\ h[j] \in Ends /\ h[j + 1] \in Ends
       /\ q[j] \in ToClient(action) /\ q[j + 1] \in ToClient(action) /\ q[j + 2] \in ToClient(action)
       /\ h[j] = Read(h[j - 1], q[j]) /\ h[j + 1] = Read(h[j], q[j + 1]) /\ h[j + 2] = Read(h[j + 1], q[j + 2])
  <2>1. /\ j \in 1 .. Len(q) /\ j + 1 \in 1 .. Len(q) /\ j + 2 \in 1 .. Len(q)
        /\ (j + 1) - 1 = j /\ (j + 2) - 1 = j + 1
    BY <1>20
  <2>2. \A i \in 1 .. Len(q) : h[i - 1] \in Ends /\ q[i] \in ToClient(action) /\ h[i] = Read(h[i - 1], q[i])
    <3>1. q \in Seq(ToClient(action)) /\ action \in Nat /\ ReadThrough(h, q, v)
      BY <1>2, <1>20, <1>21
    <3> QED
      BY <3>1, ReadAt
  <2> QED
    BY <2>1, <2>2
<1>24. q[j].type = "open" /\ q[j].window = w
       /\ q[j + 1].type = "items" /\ q[j + 1].window = w /\ q[j + 1].slots = c.slots
       /\ q[j + 2].type = "cursor" /\ q[j + 2].item = c.cursor
  BY <1>3, <1>16, <1>20
<1>25. h[j].open = w
  BY <1>2, <1>23, <1>24, ReadOpens
<1>26. PICK slots : slots = [s \in DeclaredSlots |-> q[j + 1].slots[s]]
  OBVIOUS
<1>27. h[j + 1] = [open |-> h[j].open,
                   view |-> [slots |-> slots, cursor |-> h[j].view.cursor, drag |-> NoDrag]]
  BY <1>2, <1>23, <1>24, <1>25, <1>26, ReadItems
<1>28. h[j + 2] = [open |-> h[j + 1].open,
                   view |-> [slots |-> h[j + 1].view.slots, cursor |-> q[j + 2].item, drag |-> NoDrag]]
  BY <1>2, <1>23, <1>24, ReadCursor
<1>29. h[Len(q)].view = [slots |-> slots, cursor |-> c.cursor, drag |-> NoDrag]
  BY <1>20, <1>24, <1>27, <1>28
<1>30. \A s \in DeclaredSlots : slots[s] = c.slots[s]
  BY <1>24, <1>26
<1>31. Ahead(h, x)'
  <2>1. AgreeOn(DeclaredSlots, h[Len(q)].view, x[Len(r)].held)
    BY <1>4, <1>15, <1>29, <1>30 DEF AgreeOn
  <2> QED
    BY <1>1, <1>3, <1>9, <1>14, <1>17, <2>1 DEF Ahead
<1> QED
  BY <1>12, <1>22, <1>31 DEF Leads, EndsAgree

\* Two containers that differ in one slot, which holds the item in the second.
Beside(slot, item, c, d) == AgreeOn(LayoutSlots \ {slot}, c, d) /\ d.slots[slot] = item

\* A click that does not touch the slot runs on both alike.
LEMMA BesideClick ==
  ASSUME NEW a \in Nat, NEW u \in Nat, NEW m \in ToServer(a, u), m.type = "click",
         NEW slot \in DeclaredSlots, slot \notin m.touches, NEW item,
         NEW c \in Boxes(Layout), NEW d \in Boxes(Layout), Beside(slot, item, c, d), Predicted(c, m)
  PROVE  Beside(slot, item, SlotClick(c, m.click), SlotClick(d, m.click)) /\ Predicted(d, m)
<1>1. Layout \in Nat /\ Declared \in Nat /\ Declared <= Layout /\ DeclaredSlots = 1 .. Declared /\ LayoutSlots = 1 .. Layout
  BY SizesAre
<1>2. PICK T : T = LayoutSlots \ {slot}
  OBVIOUS
<1>3. T \in SUBSET ((1 .. Layout) \cap (1 .. Layout)) /\ slot \in 1 .. Layout /\ slot \notin T
  BY <1>1, <1>2
<1>4. m.click \in ClicksOn(Layout) /\ m.touches \subseteq T
  <2>1. m.click \in ClicksOn(Layout) /\ m.touches \in SUBSET DeclaredSlots
    BY MessageIs
  <2> QED
    BY <1>1, <1>2, <2>1
<1>5. AgreeOn(T, c, d) /\ AgreeOn(T, d, c)
  BY <1>2 DEF Beside, AgreeOn
<1>6. c.drag.over \subseteq T /\ d.drag.over = c.drag.over /\ m.click.slot \in T \cup {NoSlot}
  BY <1>4, <1>5 DEF Predicted, AgreeOn
<1>7. AgreeOn(T, SlotClick(c, m.click), SlotClick(d, m.click)) /\ Carrier(c, m.click) = Carrier(d, m.click)
  BY <1>1, <1>3, <1>4, <1>5, <1>6, ClickAgrees
<1>8. \A i \in 1 .. Layout : i \notin T => SlotClick(d, m.click).slots[i] = d.slots[i]
  BY <1>1, <1>3, <1>4, <1>5, <1>6, ClickAgrees
<1> QED
  BY <1>2, <1>3, <1>6, <1>7, <1>8 DEF Beside, Predicted

LEMMA SameLocks ==
  ASSUME NEW a \in Nat, NEW u \in Nat, NEW q \in Seq(ToServer(a, u)), NEW w,
         NEW b, NEW g, HeardThrough(g, w, q, b), NEW d, NEW x, HeardThrough(x, w, q, d), d.locked = b.locked
  PROVE  /\ \A i \in 0 .. Len(q) : x[i].locked = g[i].locked
         /\ \A i \in 1 .. Len(q) : Runs(w, x[i - 1], q[i]) <=> Runs(w, g[i - 1], q[i])
<1>1. /\ Len(q) \in Nat /\ g[0] = b
      /\ \A i \in 1 .. Len(q) : g[i - 1] \in Boxed /\ q[i] \in ToServer(a, u) /\ g[i] = Hear(w, g[i - 1], q[i])
  BY HeardAt
<1>2. /\ x[0] = d
      /\ \A i \in 1 .. Len(q) : x[i - 1] \in Boxed /\ x[i] = Hear(w, x[i - 1], q[i])
  BY HeardAt
<1> DEFINE S == {i \in Nat : i <= Len(q) => x[i].locked = g[i].locked}
<1>3. 0 \in S
  BY <1>1, <1>2
<1>4. ASSUME NEW i \in Nat, i \in S PROVE i + 1 \in S
  <2>1. SUFFICES ASSUME i + 1 <= Len(q) PROVE x[i + 1].locked = g[i + 1].locked
    OBVIOUS
  <2>2. i + 1 \in 1 .. Len(q) /\ (i + 1) - 1 = i /\ i <= Len(q)
    BY <1>1, <2>1
  <2>3. PICK e, k, m : e = g[i] /\ k = x[i] /\ m = q[i + 1]
    OBVIOUS
  <2>4. /\ e \in Boxed /\ k \in Boxed /\ m \in ToServer(a, u)
        /\ g[i + 1] = Hear(w, e, m) /\ x[i + 1] = Hear(w, k, m) /\ k.locked = e.locked
    BY <1>1, <1>2, <1>4, <2>2, <2>3
  <2>5. Hear(w, e, m).locked = Hear(w, k, m).locked
    BY <2>4, HearLocks
  <2> QED
    BY <2>4, <2>5
<1> HIDE DEF S
<1>5. Nat \subseteq S
  BY <1>3, <1>4, Induct
<1>6. \A i \in 0 .. Len(q) : x[i].locked = g[i].locked
  BY <1>1, <1>5 DEF S
<1>7. \A i \in 1 .. Len(q) : x[i - 1].locked = g[i - 1].locked
  <2>1. \A i \in 1 .. Len(q) : i - 1 \in 0 .. Len(q)
    BY <1>1
  <2> QED
    BY <1>6, <2>1
<1> QED
  BY <1>6, <1>7 DEF Runs

\* No click run touches the slot, and each was predicted on what it is run on.
Misses(slot, g, w, q) ==
  \A i \in 1 .. Len(q) : Runs(w, g[i - 1], q[i]) => slot \notin q[i].touches /\ Predicted(g[i - 1].held, q[i])
Foreseen(x, w, q) == \A i \in 1 .. Len(q) : Runs(w, x[i - 1], q[i]) => Predicted(x[i - 1].held, q[i])

\* Clicks that do not touch the slot are run beside each other to the end.
LEMMA BesideHeard ==
  ASSUME NEW a \in Nat, NEW u \in Nat, NEW q \in Seq(ToServer(a, u)), NEW w,
         NEW b, NEW g, HeardThrough(g, w, q, b), NEW d, NEW x, HeardThrough(x, w, q, d), d.locked = b.locked,
         NEW slot \in DeclaredSlots, NEW item, Beside(slot, item, b.held, d.held),
         Misses(slot, g, w, q)
  PROVE  Beside(slot, item, g[Len(q)].held, x[Len(q)].held) /\ Foreseen(x, w, q)
<1>1. /\ Len(q) \in Nat /\ g[0] = b
      /\ \A i \in 1 .. Len(q) : g[i - 1] \in Boxed /\ q[i] \in ToServer(a, u) /\ g[i] = Hear(w, g[i - 1], q[i])
  BY HeardAt
<1>2. /\ x[0] = d
      /\ \A i \in 1 .. Len(q) : x[i - 1] \in Boxed /\ x[i] = Hear(w, x[i - 1], q[i])
  BY HeardAt
<1>3. \A i \in 1 .. Len(q) : Runs(w, x[i - 1], q[i]) <=> Runs(w, g[i - 1], q[i])
  BY SameLocks
<1>4. ASSUME NEW i \in 1 .. Len(q), Beside(slot, item, g[i - 1].held, x[i - 1].held)
      PROVE  /\ Beside(slot, item, g[i].held, x[i].held)
             /\ Runs(w, x[i - 1], q[i]) => Predicted(x[i - 1].held, q[i])
  <2>1. PICK e, k, m : e = g[i - 1] /\ k = x[i - 1] /\ m = q[i]
    OBVIOUS
  <2>2. /\ e \in Boxed /\ k \in Boxed /\ m \in ToServer(a, u) /\ g[i] = Hear(w, e, m) /\ x[i] = Hear(w, k, m)
        /\ Beside(slot, item, e.held, k.held) /\ (Runs(w, k, m) <=> Runs(w, e, m))
        /\ (Runs(w, e, m) => slot \notin m.touches /\ Predicted(e.held, m))
    BY <1>1, <1>2, <1>3, <1>4, <2>1 DEF Misses
  <2>3. e.held \in Boxes(Layout) /\ k.held \in Boxes(Layout)
    BY <2>2, BoxedAre
  <2>4. CASE Runs(w, e, m)
    <3>1. m.type = "click"
      BY <2>4 DEF Runs
    <3>2. Beside(slot, item, SlotClick(e.held, m.click), SlotClick(k.held, m.click)) /\ Predicted(k.held, m)
      BY <2>2, <2>3, <2>4, <3>1, BesideClick
    <3>3. Hear(w, e, m).held = SlotClick(e.held, m.click) /\ Hear(w, k, m).held = SlotClick(k.held, m.click)
      BY <2>2, <2>4, HearIs
    <3> QED
      BY <2>1, <2>2, <3>2, <3>3
  <2>5. CASE ~Runs(w, e, m)
    <3>1. Hear(w, e, m).held = e.held /\ Hear(w, k, m).held = k.held
      BY <2>2, <2>5, HearIs
    <3> QED
      BY <2>1, <2>2, <2>5, <3>1
  <2> QED
    BY <2>4, <2>5
<1> DEFINE S == {i \in Nat : i <= Len(q) => Beside(slot, item, g[i].held, x[i].held)}
<1>5. 0 \in S
  BY <1>1, <1>2
<1>6. ASSUME NEW i \in Nat, i \in S PROVE i + 1 \in S
  <2>1. SUFFICES ASSUME i + 1 <= Len(q) PROVE Beside(slot, item, g[i + 1].held, x[i + 1].held)
    OBVIOUS
  <2>2. i + 1 \in 1 .. Len(q) /\ (i + 1) - 1 = i /\ i <= Len(q)
    BY <1>1, <2>1
  <2> QED
    BY <1>4, <1>6, <2>2
<1> HIDE DEF S
<1>7. Nat \subseteq S
  BY <1>5, <1>6, Induct
<1>8. \A i \in 0 .. Len(q) : Beside(slot, item, g[i].held, x[i].held)
  BY <1>1, <1>7 DEF S
<1>9. /\ Len(q) \in 0 .. Len(q)
      /\ \A i \in 1 .. Len(q) : i - 1 \in 0 .. Len(q)
  BY <1>1
<1>10. \A i \in 1 .. Len(q) : Beside(slot, item, g[i - 1].held, x[i - 1].held)
  BY <1>8, <1>9
<1> QED
  BY <1>4, <1>8, <1>9, <1>10 DEF Foreseen

\* A slot the server changes: the clicks that touch it have crossed, the others
\* run as they would have.
LEMMA EndsChanges ==
  ASSUME WindowTypes, WindowTypes', ReadsBehind, EndsAgree,
         NEW slot \in DeclaredSlots, NEW item \in Changes, ServerChanges(slot, item)
  PROVE  EndsAgree'
<1>1. /\ serving # 0 /\ item \in StacksOrEmpty /\ slot \in 1 .. Layout /\ slot \in 1 .. Declared
      /\ held' = [held EXCEPT !.slots[slot] = item] /\ sent' = [sent EXCEPT ![slot] = @ + 1]
      /\ UNCHANGED <<open, view, serving, locked, toServer, uses, apart>>
      /\ \E news \in Seq(ToClient(action)) :
           /\ toClient' = toClient \o news /\ Len(news) = 1
           /\ news[1].type = "slot" /\ news[1].window = serving /\ news[1].slot = slot /\ news[1].item = item
  BY ChangesStep
<1> SUFFICES ASSUME apart = {} PROVE \E h, x : Leads(h, x)'
  BY <1>1 DEF EndsAgree
<1>2. PICK f, g : Leads(f, g)
  BY <1>1 DEF EndsAgree
<1>3. PICK v : v = [open |-> open, view |-> view]
  OBVIOUS
<1>4. PICK b : b = [held |-> held, locked |-> locked]
  OBVIOUS
<1>5. ReadThrough(f, toClient, v) /\ HeardThrough(g, serving, toServer, b) /\ Ahead(f, g)
  BY <1>2, <1>3, <1>4 DEF Leads
<1>6. /\ action \in Nat /\ uses \in Nat /\ held \in Boxes(Layout) /\ toClient \in Seq(ToClient(action))
      /\ toServer \in Seq(ToServer(action, uses)) /\ Declared \in Nat /\ Layout \in Nat /\ Declared <= Layout
      /\ DeclaredSlots = 1 .. Declared /\ LayoutSlots = 1 .. Layout /\ Len(toServer) \in Nat /\ locked \in Nat
  BY TypesAre, SizesAre
<1>7. PICK c : c = held'
  OBVIOUS
<1>8. c \in Boxes(Layout) /\ Beside(slot, item, held, c)
  <2>1. c = [held EXCEPT !.slots[slot] = item] /\ held = [slots |-> held.slots, cursor |-> held.cursor, drag |-> held.drag]
    BY <1>1, <1>6, <1>7, BoxIs
  <2>2. DOMAIN held.slots = 1 .. Layout
    BY <1>6, BoxIs
  <2>3. c.slots[slot] = item /\ c.cursor = held.cursor /\ c.drag = held.drag
        /\ \A s \in LayoutSlots \ {slot} : c.slots[s] = held.slots[s]
    BY <1>1, <1>6, <2>1, <2>2
  <2> QED
    BY <1>7, <2>3 DEF Beside, AgreeOn, WindowTypes
<1>9. PICK d : d = [held |-> c, locked |-> locked]
  OBVIOUS
<1>10. b \in Boxed /\ d \in Boxed /\ d.locked = b.locked /\ Beside(slot, item, b.held, d.held)
  BY <1>4, <1>6, <1>8, <1>9, BoxedAre
<1>11. PICK x : HeardThrough(x, serving, toServer, d)
  BY <1>6, <1>10, HeardExists
<1>12. HeardThrough(x, serving, toServer, [held |-> held, locked |-> locked])'
  BY <1>1, <1>7, <1>9, <1>11
<1>13. PICK news \in Seq(ToClient(action)) :
           /\ toClient' = toClient \o news /\ Len(news) = 1
           /\ news[1].type = "slot" /\ news[1].window = serving /\ news[1].slot = slot /\ news[1].item = item
  BY <1>1
<1>14. /\ OneMore(ToClient(action), toClient, toClient') /\ toClient'[Len(toClient) + 1] = news[1]
       /\ Len(toClient') = Len(toClient) + 1 /\ news[1] \in ToClient(action)
  BY <1>13, OneSent
<1>15. PICK h : ReadsMore(h, f, toClient, toClient', v)
  BY <1>5, <1>6, <1>14, ReadMore
<1>16. ReadThrough(h, toClient, [open |-> open, view |-> view])'
  BY <1>1, <1>3, <1>15 DEF ReadsMore
<1>17. PICK e, k : e = f[Len(toClient)] /\ k = h[Len(toClient')]
  OBVIOUS
<1>18. e \in Ends /\ k = Read(e, news[1])
  BY <1>14, <1>15, <1>17 DEF ReadsMore
<1>19. k = [open |-> e.open,
            view |-> [slots |-> IF serving = e.open THEN [e.view.slots EXCEPT ![slot] = item] ELSE e.view.slots,
                      cursor |-> e.view.cursor, drag |-> e.view.drag]]
  BY <1>6, <1>13, <1>14, <1>18, ReadSlot
<1>20. \A i \in 1 .. Len(toServer) : Runs(serving, x[i - 1], toServer[i]) <=> Runs(serving, g[i - 1], toServer[i])
  BY <1>5, <1>6, <1>10, <1>11, SameLocks
<1>21. ASSUME NEW i \in 1 .. Len(toServer), toServer[i].type = "click", ~Crossed(toServer[i])'
       PROVE  slot \notin toServer[i].touches /\ ~Crossed(toServer[i])
  <2>1. PICK m : m = toServer[i]
    OBVIOUS
  <2>2. m \in ToServer(action, uses) /\ m.touches \in SUBSET DeclaredSlots /\ m.read \in [DeclaredSlots -> Int]
    <3>1. m \in ToServer(action, uses)
      BY <2>1, TypesAre
    <3> QED
      BY <1>6, <1>21, <2>1, <3>1, MessageIs
  <2>3. \A s \in m.touches : sent'[s] = m.read[s]
    BY <1>1, <1>21, <2>1 DEF Crossed
  <2>4. m.read[slot] <= sent[slot] /\ m.read[slot] \in Int /\ sent[slot] \in Nat
    BY <1>21, <2>1, <2>2, TypesAre DEF ReadsBehind
  <2>5. sent'[slot] = sent[slot] + 1 /\ \A s \in DeclaredSlots \ {slot} : sent'[s] = sent[s]
    <3>1. DOMAIN sent = DeclaredSlots
      BY DEF WindowTypes, WindowTypeOK
    <3> QED
      BY <1>1, <3>1
  <2>6. slot \notin m.touches
    BY <2>3, <2>4, <2>5
  <2>7. \A s \in m.touches : sent[s] = m.read[s]
    BY <2>2, <2>3, <2>5, <2>6
  <2> QED
    BY <2>1, <2>6, <2>7 DEF Crossed
<1>22. Ahead(h, x)'
  <2> SUFFICES ASSUME k.open = serving,
                      \A i \in 1 .. Len(toServer) : Runs(serving, x[i - 1], toServer[i]) => ~Crossed(toServer[i])'
               PROVE  /\ AgreeOn(DeclaredSlots, k.view, x[Len(toServer)].held)
                      /\ \A i \in 1 .. Len(toServer) :
                           Runs(serving, x[i - 1], toServer[i]) => Predicted(x[i - 1].held, toServer[i])
    BY <1>1, <1>17 DEF Ahead
  <2>1. e.open = serving
    BY <1>19
  <2>2. \A i \in 1 .. Len(toServer) : Runs(serving, g[i - 1], toServer[i]) =>
          slot \notin toServer[i].touches /\ ~Crossed(toServer[i])
    BY <1>20, <1>21 DEF Runs
  <2>3. /\ AgreeOn(DeclaredSlots, e.view, g[Len(toServer)].held)
        /\ \A i \in 1 .. Len(toServer) : Runs(serving, g[i - 1], toServer[i]) => Predicted(g[i - 1].held, toServer[i])
    BY <1>5, <1>17, <2>1, <2>2 DEF Ahead
  <2>31. Misses(slot, g, serving, toServer)
    BY <2>2, <2>3 DEF Misses
  <2>4. Beside(slot, item, g[Len(toServer)].held, x[Len(toServer)].held) /\ Foreseen(x, serving, toServer)
    BY <1>5, <1>6, <1>10, <1>11, <2>31, BesideHeard
  <2>5. PICK y, z : y = g[Len(toServer)].held /\ z = x[Len(toServer)].held
    OBVIOUS
  <2>6. DOMAIN e.view.slots = DeclaredSlots
    BY <1>6, <1>18, EndsAre, BoxIs
  <2>7. k.view.cursor = e.view.cursor /\ k.view.drag = e.view.drag /\ k.view.slots = [e.view.slots EXCEPT ![slot] = item]
    BY <1>19, <2>1
  <2>8. AgreeOn(DeclaredSlots, k.view, z)
    <3>1. AgreeOn(DeclaredSlots, e.view, y) /\ Beside(slot, item, y, z)
      BY <2>3, <2>4, <2>5
    <3>2. \A s \in DeclaredSlots : s \in LayoutSlots
      BY <1>6
    <3>3. z.cursor = k.view.cursor /\ z.drag = k.view.drag
      BY <2>7, <3>1 DEF AgreeOn, Beside
    <3>4. \A s \in DeclaredSlots : z.slots[s] = k.view.slots[s]
      <4> SUFFICES ASSUME NEW s \in DeclaredSlots PROVE z.slots[s] = k.view.slots[s]
        OBVIOUS
      <4>1. CASE s = slot
        BY <2>6, <2>7, <3>1, <4>1 DEF Beside
      <4>2. CASE s # slot
        BY <2>6, <2>7, <3>1, <3>2, <4>2 DEF Beside, AgreeOn
      <4> QED
        BY <4>1, <4>2
    <3> QED
      BY <3>3, <3>4 DEF AgreeOn
  <2> QED
    BY <2>4, <2>5, <2>8 DEF Foreseen
<1> QED
  BY <1>12, <1>16, <1>22 DEF Leads

LEMMA OpenHeld ==
  ASSUME NEW a \in Nat, NEW q \in Seq(ToClient(a)), NEW v, NEW f, ReadThrough(f, q, v),
         \A j \in 1 .. Len(q) : q[j].type \notin {"open", "close"}
  PROVE  \A j \in 0 .. Len(q) : f[j].open = v.open
<1>1. Len(q) \in Nat /\ f[0] = v
  BY ReadAt
<1>2. PICK i : i = 0
  OBVIOUS
<1>3. i \in 0 .. Len(q) /\ \A j \in 1 .. Len(q) : j > i => q[j].type \notin {"open", "close"}
  BY <1>1, <1>2
<1>4. \A j \in i .. Len(q) : f[j].open = f[i].open
  BY <1>3, OpenKept
<1> QED
  BY <1>1, <1>2, <1>4

\* While no click is heard a rejection is still to be read, and the window whole
\* behind it.
LEMMA DeafEnds ==
  ASSUME WindowTypes, Exchange, serving # 0, open = serving,
         NEW g, HeardThrough(g, serving, toServer, [held |-> held, locked |-> locked]), g[Len(toServer)].locked # 0,
         NEW v, v.open = serving, NEW f, ReadThrough(f, toClient, v),
         NEW u, u.open = serving, NEW h, ReadThrough(h, toClient, u)
  PROVE  h[Len(toClient)] = f[Len(toClient)]
<1>1. /\ action \in Nat /\ uses \in Nat /\ toClient \in Seq(ToClient(action)) /\ Len(toClient) \in Nat
      /\ toServer \in Seq(ToServer(action, uses)) /\ Len(toServer) \in Nat /\ serving \in Nat
  BY TypesAre
<1>2. PICK b : b = [held |-> held, locked |-> locked]
  OBVIOUS
<1>3. HeardThrough(g, serving, toServer, b) /\ b.locked = locked /\ g[0] = b
  <2>1. HeardThrough(g, serving, toServer, b)
    BY <1>2
  <2> QED
    BY <1>1, <1>2, <2>1, HeardAt
<1>4. locked # 0
  <2>1. SUFFICES ASSUME locked = 0 PROVE FALSE
    OBVIOUS
  <2>2. 0 \in 0 .. Len(toServer) /\ Len(toServer) \in 0 .. Len(toServer) /\ g[0].locked = 0
    BY <1>1, <1>3, <2>1
  <2>3. \A j \in 0 .. Len(toServer) : g[j].locked = 0
    BY <1>1, <1>3, <2>2, StaysUnlocked
  <2> QED
    BY <2>2, <2>3
<1>5. Exchanging(0)
  <2>1. 0 \in 0 .. Len(toClient) /\ Since(0)
    BY <1>1 DEF Since
  <2> QED
    BY <2>1 DEF Exchange
<1>6. ~ApologyComes
  <2>1. SUFFICES ASSUME ApologyComes PROVE FALSE
    OBVIOUS
  <2>2. PICK j \in 1 .. Len(toServer) :
          toServer[j].type = "apology" /\ toServer[j].window = serving /\ toServer[j].action = b.locked
    BY <1>3, <2>1 DEF ApologyComes, Apology
  <2>3. g[Len(toServer)].locked = 0
    BY <1>1, <1>3, <2>2, Acknowledged
  <2> QED
    BY <2>3
<1>7. PICK j \in 1 .. Len(toClient) : WholeAt(j + 1)
  BY <1>4, <1>5, <1>6 DEF Exchanging, RejectionComes
<1>8. /\ j + 1 \in 1 .. Len(toClient) /\ (j + 1) + 1 <= Len(toClient) /\ (j + 1) - 1 = j
      /\ toClient[j + 1].type = "items" /\ toClient[j + 1].window = serving /\ toClient[(j + 1) + 1].type = "cursor"
      /\ j \in 0 .. Len(toClient) /\ 0 \in 0 .. Len(toClient)
  BY <1>1, <1>7 DEF WholeAt
<1>9. \A k \in 1 .. Len(toClient) : toClient[k].type \notin {"open", "close"}
  BY <1>1, <1>5 DEF Exchanging, OfServed
<1>10. f[j].open = serving /\ h[j].open = serving
  <2>1. \A k \in 0 .. Len(toClient) : f[k].open = v.open
    BY <1>1, <1>9, OpenHeld
  <2>2. \A k \in 0 .. Len(toClient) : h[k].open = u.open
    BY <1>1, <1>9, OpenHeld
  <2> QED
    BY <1>8, <2>1, <2>2
<1> QED
  BY <1>1, <1>8, <1>10, Overwritten

SlotsCome == \A j \in 1 .. Len(toClient) : toClient[j].type \in {"slot", "confirm"}
NoneComes(T) == \A s \in T, j \in 1 .. Len(toClient) : ~ (toClient[j].type = "slot" /\ toClient[j].slot = s)

\* While clicks are heard nothing but slots is still to be read: a resync would
\* be one that is cut.
LEMMA LiveQueue ==
  ASSUME WindowTypes, Exchange, serving # 0, open = serving, ~InResync,
         NEW g, HeardThrough(g, serving, toServer, [held |-> held, locked |-> locked]), g[Len(toServer)].locked = 0
  PROVE  SlotsCome
<1>1. /\ action \in Nat /\ uses \in Nat /\ toClient \in Seq(ToClient(action)) /\ Len(toClient) \in Nat
      /\ toServer \in Seq(ToServer(action, uses)) /\ Len(toServer) \in Nat /\ serving \in Nat /\ locked \in Nat
      /\ \A i \in 1 .. Len(toClient) : toClient[i] \in ToClient(action)
  BY TypesAre
<1>2. PICK b : b = [held |-> held, locked |-> locked]
  OBVIOUS
<1>3. HeardThrough(g, serving, toServer, b) /\ b.locked = locked
  BY <1>2
<1>5. Exchanging(0)
  <2>1. 0 \in 0 .. Len(toClient) /\ Since(0)
    BY <1>1 DEF Since
  <2> QED
    BY <2>1 DEF Exchange
<1>6. NoReject
  <2>1. CASE locked = 0
    BY <1>1, <1>5, <2>1 DEF Exchanging, NoReject
  <2>2. CASE locked # 0
    <3>1. ~RejectionComes
      <4>1. SUFFICES ASSUME RejectionComes PROVE FALSE
        OBVIOUS
      <4>2. \A j \in 1 .. Len(toServer) : ~ (toServer[j].type = "apology" /\ toServer[j].window = serving)
        BY <4>1 DEF RejectionComes, NoApology, Apology
      <4>3. \A k \in 0 .. Len(toServer) : g[k] = b
        BY <1>1, <1>3, <2>2, <4>2, StaysDeaf
      <4>4. g[Len(toServer)] = b
        BY <1>1, <4>3
      <4> QED
        BY <1>3, <2>2, <4>4
    <3> QED
      BY <1>5, <2>2, <3>1 DEF Exchanging, ApologyComes
  <2> QED
    BY <2>1, <2>2
<1>7. \A j \in 1 .. Len(toClient) : ~Begins(toClient[j]) /\ toClient[j].type # "close"
  BY <1>1, <1>5, <1>6 DEF Exchanging, OfServed, NoReject, Rejects, Begins
<1>8. ASSUME NEW i \in 1 .. Len(toClient), toClient[i].type \in {"items", "cursor"} PROVE FALSE
  <2>1. i \in DOMAIN toClient
    BY <1>1
  <2>2. \A j \in 1 .. i : ~Begins(toClient[j])
    BY <1>1, <1>7
  <2> QED
    BY <1>8, <2>1, <2>2 DEF InResync
<1> SUFFICES ASSUME NEW j \in 1 .. Len(toClient) PROVE toClient[j].type \in {"slot", "confirm"}
  BY DEF SlotsCome
<1>9. toClient[j].type \in {"open", "slot", "cursor", "items", "confirm", "close"}
  BY <1>1, PacketIs
<1>10. toClient[j].type # "open"
  BY <1>7 DEF Begins
<1> QED
  BY <1>7, <1>8, <1>9, <1>10

\* What no packet names is shown at the end as at first.
LEMMA EndUnmoved ==
  ASSUME WindowTypes, SlotsCome, NEW T \in SUBSET (1 .. Declared), NoneComes(T),
         NEW v, NEW f, ReadThrough(f, toClient, v)
  PROVE  AgreeOn(T, f[Len(toClient)].view, v.view)
<1>1. /\ action \in Nat /\ toClient \in Seq(ToClient(action)) /\ Len(toClient) \in Nat
  BY TypesAre
<1>2. \A j \in 1 .. Len(toClient) : toClient[j].type \in {"slot", "confirm"}
  BY DEF SlotsCome
<1>3. \A k \in 0 .. Len(toClient) :
           /\ f[k].open = v.open /\ f[k].view.cursor = v.view.cursor /\ f[k].view.drag = v.view.drag
           /\ \A s \in 1 .. Declared : (\A j \in 1 .. Len(toClient) : toClient[j].type = "slot" => toClient[j].slot # s)
                => f[k].view.slots[s] = v.view.slots[s]
  BY <1>1, <1>2, OnlySlots
<1>4. Len(toClient) \in 0 .. Len(toClient)
  BY <1>1
<1>5. \A s \in T : s \in 1 .. Declared /\ \A j \in 1 .. Len(toClient) : toClient[j].type = "slot" => toClient[j].slot # s
  BY DEF NoneComes
<1>6. \A s \in T : f[Len(toClient)].view.slots[s] = v.view.slots[s]
  BY <1>3, <1>4, <1>5
<1> QED
  BY <1>3, <1>4, <1>6 DEF AgreeOn

\* A click of slots none of which is still to be read: what the session comes to
\* is what the server comes to.
LEMMA LiveClick ==
  ASSUME WindowTypes, NEW click \in ClicksOn(Layout), click.slot \in DeclaredSlots \cup {NoSlot},
         NEW T, T = view.drag.over \cup ({click.slot} \cap DeclaredSlots),
         NEW f, ReadThrough(f, toClient, [open |-> open, view |-> view]),
         NEW h, ReadThrough(h, toClient, [open |-> open, view |-> SlotClick(view, click)]),
         SlotsCome, NoneComes(T),
         NEW c \in Boxes(Layout), AgreeOn(DeclaredSlots, f[Len(toClient)].view, c)
  PROVE  /\ AgreeOn(DeclaredSlots, h[Len(toClient)].view, SlotClick(c, click))
         /\ Carrier(c, click) = Carrier(view, click) /\ c.drag = view.drag
<1> DEFINE n == Len(toClient)
<1>1. /\ action \in Nat /\ toClient \in Seq(ToClient(action)) /\ n \in Nat /\ view \in Boxes(Declared) /\ open \in Nat
      /\ Declared \in Nat /\ Layout \in Nat /\ Declared <= Layout /\ DeclaredSlots = 1 .. Declared
  BY TypesAre, SizesAre
<1>2. click \in ClicksOn(Declared)
  <2>1. click \in [mode : Modes, slot : 0 .. Layout, button : Buttons, share : Shares]
        /\ (click.mode \in {"cover", "drop"} => click.slot # NoSlot)
    BY DEF ClicksOn
  <2>2. click.slot \in 0 .. Declared
    BY <1>1 DEF NoSlot
  <2> QED
    BY <2>1, <2>2 DEF ClicksOn
<1>3. PICK k : k = SlotClick(view, click)
  OBVIOUS
<1>4. k \in Boxes(Declared) /\ SlotClick(c, click) \in Boxes(Layout)
  BY <1>1, <1>2, <1>3, SlotClickIs
<1>5. PICK v : v = [open |-> open, view |-> view]
  OBVIOUS
<1>6. PICK u : u = [open |-> open, view |-> k]
  OBVIOUS
<1>7. /\ v \in Ends /\ u \in Ends /\ ReadThrough(f, toClient, v) /\ ReadThrough(h, toClient, u)
      /\ v.open = open /\ v.view = view /\ u.open = open /\ u.view = k
  BY <1>1, <1>3, <1>4, <1>5, <1>6, EndsAre
<1>8. T \subseteq 1 .. Declared /\ view.drag.over \subseteq T /\ click.slot \in T \cup {NoSlot}
  BY <1>1, BoxIs
<1>9. T \in SUBSET ((1 .. Declared) \cap (1 .. Layout)) /\ T \in SUBSET ((1 .. Layout) \cap (1 .. Declared))
  BY <1>1, <1>8
<1>10. AgreeOn(T, f[n].view, view) /\ AgreeOn(T, h[n].view, k)
  BY <1>7, <1>8, EndUnmoved
<1>11. /\ f[n].view.cursor = view.cursor /\ f[n].view.drag = view.drag
       /\ \A s \in T : f[n].view.slots[s] = view.slots[s]
       /\ h[n].view.cursor = k.cursor /\ h[n].view.drag = k.drag
       /\ \A s \in T : h[n].view.slots[s] = k.slots[s]
  BY <1>10 DEF AgreeOn
<1>12. AgreeOn(T, view, c) /\ AgreeOn(T, c, view)
  BY <1>1, <1>8, <1>11 DEF AgreeOn
<1>13. /\ AgreeOn(T, k, SlotClick(c, click)) /\ Carrier(view, click) = Carrier(c, click)
       /\ \A i \in 1 .. Declared : i \notin T => k.slots[i] = view.slots[i]
  BY <1>1, <1>2, <1>3, <1>8, <1>9, <1>12, ClickAgrees
<1>14. \A i \in 1 .. Layout : i \notin T => SlotClick(c, click).slots[i] = c.slots[i]
  <2>1. c.drag.over \subseteq T
    BY <1>8, <1>12 DEF AgreeOn
  <2>2. AgreeOn(T, c, view) /\ T \in SUBSET ((1 .. Layout) \cap (1 .. Declared)) /\ click.slot \in T \cup {NoSlot}
        /\ Layout \in Nat /\ Declared \in Nat /\ view \in Boxes(Declared)
    BY <1>1, <1>8, <1>9, <1>12
  <2> QED
    BY <2>1, <2>2, ClickAgrees
<1>15. ASSUME NEW s \in DeclaredSlots PROVE h[n].view.slots[s] = SlotClick(c, click).slots[s]
  <2>1. CASE s \in T
    BY <1>11, <1>13, <2>1 DEF AgreeOn
  <2>2. CASE s \notin T
    <3>1. u.view.slots[s] = v.view.slots[s] /\ s \in 1 .. Declared /\ s \in 1 .. Layout
      BY <1>1, <1>7, <1>13, <2>2
    <3>2. h[n].view.slots[s] = f[n].view.slots[s]
      BY <1>1, <1>7, <3>1, SameSlots DEF SlotsCome
    <3>3. f[n].view.slots[s] = c.slots[s]
      BY DEF AgreeOn
    <3> QED
      BY <1>14, <2>2, <3>1, <3>2, <3>3
  <2> QED
    BY <2>1, <2>2
<1>16. h[n].view.cursor = SlotClick(c, click).cursor /\ h[n].view.drag = SlotClick(c, click).drag
  BY <1>11, <1>13 DEF AgreeOn
<1> QED
  BY <1>12, <1>13, <1>15, <1>16 DEF AgreeOn

\* A click that will be heard was predicted on what the server will run it on,
\* or has crossed.
LEMMA EndsLive ==
  ASSUME WindowTypes, WindowTypes', UndercutNoted, Exchange, NEW click \in ClicksOn(Layout), Clicks(click),
         UNCHANGED <<serving, held, locked, uses>>, apart' = {}, serving # 0, open = serving,
         NEW f, NEW g, Leads(f, g), g[Len(toServer)].locked = 0
  PROVE  \E h, x : Leads(h, x)'
<1>1. PICK m : /\ toServer' = Append(toServer, m)
               /\ m.type = "click" /\ m.window = open /\ m.click = click /\ m.echo = Echo(view, click)
               /\ m.touches = view.drag.over \cup ({click.slot} \cap DeclaredSlots)
               /\ m.read = [s \in DeclaredSlots |-> sent[s] - Unread(s)]
               /\ open' = open /\ toClient' = toClient /\ sent' = sent /\ view' = PredictClick(view, click)
  BY ClickSent
<1>2. apart = {} /\ ~InResync /\ click.slot \notin LayoutSlots \ DeclaredSlots /\ action' = action + 1
  BY DEF Clicks
<1>3. /\ action \in Nat /\ uses \in Nat /\ toClient \in Seq(ToClient(action)) /\ Len(toClient) \in Nat
      /\ view \in Boxes(Declared) /\ open \in Nat /\ Len(toServer) \in Nat /\ held \in Boxes(Layout)
      /\ Declared \in Nat /\ Layout \in Nat /\ Declared <= Layout
      /\ DeclaredSlots = 1 .. Declared /\ LayoutSlots = 1 .. Layout
      /\ \A s \in DeclaredSlots : sent[s] \in Nat
  BY TypesAre, SizesAre
<1>4. click.slot \in DeclaredSlots \cup {NoSlot}
  <2>1. click.slot \in 0 .. Layout
    BY <1>3, ClickIs
  <2> QED
    BY <1>2, <1>3, <2>1 DEF NoSlot
<1>5. view' = SlotClick(view, click) /\ m.echo = Carrier(view, click)
  <2>1. click \in ClicksOn(Declared)
    <3>1. click \in [mode : Modes, slot : 0 .. Layout, button : Buttons, share : Shares]
          /\ (click.mode \in {"cover", "drop"} => click.slot # NoSlot)
      BY DEF ClicksOn
    <3>2. click.slot \in 0 .. Declared
      BY <1>3, <1>4 DEF NoSlot
    <3> QED
      BY <3>1, <3>2 DEF ClicksOn
  <2>2. ~Undercut(view)
    BY <1>2 DEF UndercutNoted
  <2> QED
    BY <1>1, <1>3, <2>1, <2>2, PredictionIsTheClick
<1>6. PICK b : b = [held |-> held, locked |-> locked]
  OBVIOUS
<1>7. /\ HeardThrough(g, serving, toServer, b) /\ Ahead(f, g)
      /\ ReadThrough(f, toClient, [open |-> open, view |-> view])
      /\ HeardThrough(g, serving, toServer, [held |-> held, locked |-> locked])
  BY <1>6 DEF Leads
<1>8. PICK a \in Nat, u \in Nat :
        toServer \in Seq(ToServer(a, u)) /\ toServer' \in Seq(ToServer(a, u)) /\ Len(toServer') \in Nat
  <2>1. action <= action' /\ uses <= uses'
    BY <1>2, <1>3
  <2> QED
    BY <2>1, TypesAfter
<1>80. PICK n : n = Len(toServer)
  OBVIOUS
<1>9. Len(toServer') = n + 1 /\ toServer'[n + 1] = m /\ \A i \in 1 .. n : toServer'[i] = toServer[i]
  BY <1>1, <1>8, <1>80, AppendIs
<1>10. PICK x : HearsMore(x, g, serving, toServer, toServer', b)
  <2>1. OneMore(ToServer(a, u), toServer, toServer')
    BY <1>8, <1>80, <1>9 DEF OneMore
  <2> QED
    BY <1>7, <1>8, <2>1, HeardMore
<1>11. /\ HeardThrough(x, serving, toServer', b) /\ \A i \in 0 .. n : x[i] = g[i]
       /\ x[n + 1] = Hear(serving, g[n], m) /\ g[n] \in Boxed /\ m \in ToServer(a, u)
  <2>1. n + 1 \in 1 .. Len(toServer')
    BY <1>8, <1>80, <1>9
  <2> QED
    BY <1>8, <1>80, <1>9, <1>10, <2>1 DEF HearsMore
<1>12. PICK c : c = g[n].held
  OBVIOUS
<1>13. c \in Boxes(Layout) /\ Runs(serving, g[n], m) /\ x[n + 1].held = SlotClick(c, click)
  <2>1. Runs(serving, g[n], m)
    BY <1>1, <1>80 DEF Runs
  <2>2. Hear(serving, g[n], m) = [held |-> SlotClick(g[n].held, m.click), locked |-> g[n].locked]
    BY <1>8, <1>11, <2>1, HearIs
  <2> QED
    BY <1>1, <1>11, <1>12, <2>1, <2>2, BoxedAre
<1>14. SlotsCome
  BY <1>2, <1>7, LiveQueue
<1>15. [open |-> open, view |-> SlotClick(view, click)] \in Ends
  <2>1. view' \in Boxes(Declared)
    BY DEF WindowTypes
  <2> QED
    BY <1>3, <1>5, <2>1, EndsAre
<1>16. PICK h : ReadThrough(h, toClient, [open |-> open, view |-> SlotClick(view, click)])
  BY <1>3, <1>15, ReadExists
<1>17. ReadThrough(h, toClient, [open |-> open, view |-> view])'
  BY <1>1, <1>5, <1>16
<1>18. HeardThrough(x, serving, toServer, [held |-> held, locked |-> locked])'
  BY <1>6, <1>11
<1>19. f[Len(toClient)].open = serving
  <2>1. PICK v : v = [open |-> open, view |-> view]
    OBVIOUS
  <2>2. v.open = open /\ ReadThrough(f, toClient, v)
    BY <1>7, <2>1
  <2>3. \A j \in 1 .. Len(toClient) : toClient[j].type \notin {"open", "close"}
    BY <1>14 DEF SlotsCome
  <2>4. \A j \in 0 .. Len(toClient) : f[j].open = v.open
    BY <1>3, <2>2, <2>3, OpenHeld
  <2> QED
    BY <1>3, <2>2, <2>4
<1>20. \A i \in 1 .. n + 1 : i \in 1 .. n \/ i = n + 1
  BY <1>3, <1>80
<1>201. /\ \A i \in 1 .. n : /\ i \in 1 .. n + 1 /\ toServer'[i] = toServer[i] /\ x[i - 1] = g[i - 1]
        /\ n + 1 \in 1 .. n + 1 /\ (n + 1) - 1 = n /\ x[n] = g[n]
  <2>1. n \in Nat /\ n \in 0 .. n /\ \A i \in 1 .. n : i - 1 \in 0 .. n
    BY <1>3, <1>80
  <2> QED
    BY <1>9, <1>11, <2>1
<1>21. Ahead(h, x)'
  <2> SUFFICES ASSUME \A i \in 1 .. n + 1 : Runs(serving, x[i - 1], toServer'[i]) => ~Crossed(toServer[i])'
               PROVE  /\ AgreeOn(DeclaredSlots, h[Len(toClient)].view, x[n + 1].held)
                      /\ \A i \in 1 .. n + 1 :
                           Runs(serving, x[i - 1], toServer'[i]) => Predicted(x[i - 1].held, toServer'[i])
    BY <1>1, <1>9 DEF Ahead
  <2>1. \A i \in 1 .. n : Runs(serving, g[i - 1], toServer[i]) => ~Crossed(toServer[i])
    <3> SUFFICES ASSUME NEW i \in 1 .. n, Runs(serving, g[i - 1], toServer[i]) PROVE ~Crossed(toServer[i])
      OBVIOUS
    <3>1. i \in 1 .. n + 1 /\ toServer'[i] = toServer[i] /\ x[i - 1] = g[i - 1]
      BY <1>201
    <3>2. ~Crossed(toServer[i])'
      BY <3>1
    <3> QED
      BY <1>1, <3>1, <3>2 DEF Crossed
  <2>2. /\ AgreeOn(DeclaredSlots, f[Len(toClient)].view, c)
        /\ \A i \in 1 .. n : Runs(serving, g[i - 1], toServer[i]) => Predicted(g[i - 1].held, toServer[i])
    BY <1>7, <1>12, <1>80, <1>19, <2>1 DEF Ahead
  <2>3. \A s \in m.touches : sent[s] = m.read[s]
    <3>1. PICK l : l = n + 1
      OBVIOUS
    <3>2. l \in 1 .. n + 1 /\ toServer'[l] = m /\ x[l - 1] = g[n]
      BY <1>9, <1>201, <3>1
    <3>3. ~Crossed(toServer[l])'
      BY <1>13, <3>2
    <3> QED
      BY <1>1, <3>2, <3>3 DEF Crossed
  <2>4. NoneComes(m.touches)
    <3> SUFFICES ASSUME NEW s \in m.touches
                 PROVE  \A j \in 1 .. Len(toClient) : ~ (toClient[j].type = "slot" /\ toClient[j].slot = s)
      BY DEF NoneComes
    <3>1. s \in DeclaredSlots
      BY <1>1, <1>3, BoxIs
    <3>2. m.read[s] = sent[s] - Unread(s) /\ sent[s] = m.read[s] /\ sent[s] \in Nat
      BY <1>1, <1>3, <2>3, <3>1
    <3>3. Unread(s) \in Nat
      BY UnreadIs
    <3>4. Unread(s) = 0
      BY <3>2, <3>3
    <3> QED
      BY <3>4, NoneUnread
  <2>5. PICK T : T = m.touches
    OBVIOUS
  <2>6. /\ AgreeOn(DeclaredSlots, h[Len(toClient)].view, SlotClick(c, click))
        /\ Carrier(c, click) = Carrier(view, click) /\ c.drag = view.drag
    <3>1. T = view.drag.over \cup ({click.slot} \cap DeclaredSlots)
      BY <1>1, <2>5
    <3>2. NoneComes(T)
      BY <2>4, <2>5
    <3> QED
      BY <1>4, <1>7, <1>13, <1>14, <1>16, <2>2, <3>1, <3>2, LiveClick
  <2>7. Predicted(c, m)
    <3>1. m.click.slot \in m.touches \cup {NoSlot}
      BY <1>1, <1>4
    <3> QED
      BY <1>1, <1>5, <2>6, <3>1 DEF Predicted
  <2>8. ASSUME NEW i \in 1 .. n + 1, Runs(serving, x[i - 1], toServer'[i])
        PROVE  Predicted(x[i - 1].held, toServer'[i])
    <3>1. CASE i \in 1 .. n
      BY <1>201, <2>2, <2>8, <3>1
    <3>2. CASE i = n + 1
      BY <1>9, <1>12, <1>201, <2>7, <3>2
    <3> QED
      BY <1>20, <3>1, <3>2
  <2> QED
    BY <1>13, <2>6, <2>8
<1> QED
  BY <1>17, <1>18, <1>21 DEF Leads

LEMMA EndsClicks ==
  ASSUME WindowTypes, WindowTypes', UndercutNoted, Exchange, EndsAgree,
         NEW click \in ClicksOn(Layout), Clicks(click), UNCHANGED <<serving, held, locked, uses>>
  PROVE  EndsAgree'
<1> SUFFICES ASSUME apart' = {}, serving # 0 PROVE \E h, x : Leads(h, x)'
  BY DEF EndsAgree
<1>1. apart = {} /\ action' = action + 1
  BY DEF Clicks
<1>2. PICK f, g : Leads(f, g)
  BY <1>1 DEF EndsAgree
<1>3. CASE open = serving /\ g[Len(toServer)].locked = 0
  BY <1>2, <1>3, EndsLive
<1>4. CASE ~ (open = serving /\ g[Len(toServer)].locked = 0)
  <2>1. PICK m : /\ toServer' = Append(toServer, m) /\ m.type = "click" /\ m.window = open
                 /\ open' = open /\ toClient' = toClient /\ sent' = sent
    BY ClickSent
  <2>2. PICK v : v = [open |-> open', view |-> view']
    OBVIOUS
  <2>3. PICK u : u = [open |-> open, view |-> view]
    OBVIOUS
  <2>4. /\ action \in Nat /\ uses \in Nat /\ open \in Nat /\ toClient \in Seq(ToClient(action))
    BY TypesAre
  <2>5. v \in Ends /\ v.open = open /\ u.open = open
    <3>1. view' \in Boxes(Declared)
      BY DEF WindowTypes
    <3> QED
      BY <2>1, <2>2, <2>3, <2>4, <3>1, EndsAre
  <2>6. PICK h : ReadThrough(h, toClient, v)
    BY <2>4, <2>5, ReadExists
  <2>7. ReadThrough(f, toClient, u) /\ HeardThrough(g, serving, toServer, [held |-> held, locked |-> locked])
    BY <1>2, <2>3 DEF Leads
  <2>8. h[Len(toClient)].open = serving => h[Len(toClient)] = f[Len(toClient)]
    <3>1. CASE open # serving
      BY <2>5, <2>6, <2>7, <3>1, EndsSame
    <3>2. CASE open = serving
      BY <1>4, <2>5, <2>6, <2>7, <3>2, DeafEnds
    <3> QED
      BY <3>1, <3>2
  <2>9. ~Runs(serving, g[Len(toServer)], m)
    BY <1>4, <2>1 DEF Runs
  <2>10. ReadThrough(h, toClient', [open |-> open', view |-> view'])
    BY <2>1, <2>2, <2>6
  <2>11. action <= action' /\ uses <= uses'
    BY <1>1, <2>4
  <2> QED
    BY <1>2, <2>1, <2>8, <2>9, <2>10, <2>11, EndsQuiet
<1> QED
  BY <1>3, <1>4

LEMMA PlayerCounts == Player \/ ClickOfDrag => action' \in {action, action + 1}
BY DEF Player, ClickSingle, LetGoOfDrag, CloseWindow, UseBlock, ClickOfDrag, Clicks, client

LEMMA EndsNext ==
  /\ WindowTypes /\ WindowTypes' /\ UndercutNoted /\ Numbers /\ Exchange /\ ReadsBehind /\ EndsAgree
  /\ [WindowNext]_windowVars
  => EndsAgree'
<1> SUFFICES ASSUME WindowTypes, WindowTypes', UndercutNoted, Numbers, Exchange, ReadsBehind, EndsAgree,
                    [WindowNext]_windowVars
             PROVE  EndsAgree'
  OBVIOUS
<1>1. CASE Player \/ ClickOfDrag
  <2>1. action <= action' /\ action \in Nat /\ uses \in Nat
    BY <1>1, PlayerCounts, TypesAre
  <2>2. ASSUME NEW click \in ClicksOn(Layout), Clicks(click), UNCHANGED <<serving, held, locked, uses>>
        PROVE  EndsAgree'
    BY <2>2, EndsClicks
  <2>3. CASE UNCHANGED <<open, view, serving, held, locked, toServer, toClient, uses, sent, apart>>
    BY <2>1, <2>3, EndsPlayer
  <2>4. CASE /\ open' = 0 /\ toServer' = Append(toServer, [type |-> "close", window |-> open])
             /\ UNCHANGED <<serving, held, locked, toClient, uses, sent, apart>>
    <3>1. PICK m : m = [type |-> "close", window |-> open]
      OBVIOUS
    <3>2. m.type # "click" /\ toServer' = Append(toServer, m)
      BY <2>4, <3>1
    <3>3. \E x : x.type # "click" /\ toServer' = Append(toServer, x)
      BY <3>2
    <3> QED
      BY <2>1, <2>4, <3>3, EndsPlayer
  <2>5. CASE /\ uses' = uses + 1 /\ toServer' = Append(toServer, [type |-> "use", window |-> uses'])
             /\ UNCHANGED <<open, view, serving, held, locked, toClient, sent, apart>>
    <3>1. PICK m : m = [type |-> "use", window |-> uses']
      OBVIOUS
    <3>2. m.type # "click" /\ toServer' = Append(toServer, m)
      BY <2>5, <3>1
    <3>3. \E x : x.type # "click" /\ toServer' = Append(toServer, x)
      BY <3>2
    <3>4. uses <= uses'
      BY <2>1, <2>5
    <3> QED
      BY <2>1, <2>5, <3>3, <3>4, EndsPlayer
  <2> QED
    BY <1>1, <2>2, <2>3, <2>4, <2>5, PlayerSteps
<1>2. CASE Packet
  BY <1>2, EndsReads
<1>3. CASE ServerRunsClick
  BY <1>3, EndsRuns
<1>4. CASE ServerIgnoresClick \/ ServerUnlocks \/ ServerHearsClose
  BY <1>4, EndsHears
<1>5. CASE ServerOpens
  BY <1>5, EndsOpens
<1>6. CASE ServerCloses
  <2>1. serving' = 0
    BY <1>6, ClosesStep
  <2> QED
    BY <2>1 DEF EndsAgree
<1>7. ASSUME NEW slot \in DeclaredSlots, NEW item \in Changes, ServerChanges(slot, item) PROVE EndsAgree'
  BY <1>7, EndsChanges
<1>8. CASE UNCHANGED windowVars
  <2>1. /\ UNCHANGED <<open, view, action, serving, held, locked, toServer, toClient, uses, sent, apart>>
    BY <1>8 DEF windowVars, client, server, bounds, history
  <2>2. action <= action' /\ uses <= uses'
    BY <2>1, TypesAre
  <2> QED
    BY <2>1, <2>2, EndsPlayer
<1> QED
  BY <1>1, <1>2, <1>3, <1>4, <1>5, <1>6, <1>7, <1>8 DEF WindowNext, ServerHears, ServerActs

\* With nothing on its way the ends are where they come to.
LEMMA EndsSettle ==
  ASSUME WindowTypes, EndsAgree
  PROVE  SettledAgrees
<1> SUFFICES ASSUME Settled, apart = {} PROVE Agreed
  BY DEF SettledAgrees
<1>1. /\ toServer = <<>> /\ toClient = <<>> /\ open = serving /\ serving # 0 /\ Len(toServer) = 0 /\ Len(toClient) = 0
  BY DEF Settled
<1>2. PICK f, g : Leads(f, g)
  BY <1>1 DEF EndsAgree
<1>3. f[0] = [open |-> open, view |-> view] /\ g[0] = [held |-> held, locked |-> locked]
  BY <1>2 DEF Leads, ReadThrough, HeardThrough
<1>4. f[0].open = serving /\ \A i \in 1 .. Len(toServer) : FALSE
  BY <1>1, <1>3
<1>5. AgreeOn(DeclaredSlots, f[0].view, g[0].held)
  BY <1>1, <1>2, <1>4 DEF Leads, Ahead
<1> QED
  BY <1>3, <1>5 DEF AgreeOn, Agreed

\* Once nothing is on its way the window shows what the server holds, for every
\* number of slots, every items and stack size, and however clicks, rejections,
\* resyncs, changes and closes crossed.
THEOREM WindowsSettle == WindowSpec => []SettledAgrees
<1> DEFINE Inv == /\ WindowTypes /\ UndercutNoted /\ Numbers /\ Exchange /\ ReadsBehind /\ EndsAgree
<1>1. WindowInit => Inv
  BY InitTypes, InitNoted, NumbersInit, EndsInit
<1>2. WindowTypes' /\ Inv /\ [WindowNext]_windowVars => Inv'
  BY NextNoted, NumbersNext, ExchangeNext, BehindNext, EndsNext
<1>3. Inv => SettledAgrees
  BY EndsSettle
<1>4. WindowSpec => []WindowTypes
  BY WindowsTypeCorrect, PTL
<1> HIDE DEF Inv
<1> QED
  BY <1>1, <1>2, <1>3, <1>4, PTL DEF WindowSpec
=============================================================================
