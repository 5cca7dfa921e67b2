------------------------------- MODULE Roster -------------------------------
(***************************************************************************)
(* Who is who: the player list and the scoreboard a session keeps from the *)
(* server's packets (crates/oxide-game/src/session.rs, scoreboard.rs,      *)
(* entity_view.rs) and the copies the window draws the tab list and the    *)
(* sidebar from (crates/oxide-client/src/main.rs, view.rs).                *)
(*                                                                         *)
(* A packet that leaves a table as it was reports nothing; any other       *)
(* reports the whole table, and the window replaces its copy when it       *)
(* drains the channel.  The window's copies are the application's: joining *)
(* another server leaves them as they are.                                 *)
(*                                                                         *)
(* A player's record is its display name alone, one of Looks; gamemode and *)
(* latency are written by the same rules.  A score is there or is not.     *)
(* The server is external: it shows and scores objectives it has created,  *)
(* and sends what it likes of teams and players.                           *)
(***************************************************************************)
EXTENDS Integers, Sequences, SequencesExt

CONSTANTS Players,     \* account names: the list's players, the board's entries
          Looks,       \* display names
          Objectives, Teams,
          Slots,       \* display slots
          Nothing,
          MaxSessions, \* bound: servers joined
          MaxPackets   \* bound: packets of each session

ASSUME NothingAssumption ==
  Nothing \notin Players \cup Looks \cup Objectives \cup Teams
ASSUME BoundsAssumption == MaxSessions \in Nat \ {0} /\ MaxPackets \in Nat

VARIABLES
  linked,  \* whether the window holds a session
  joined,  \* the sessions opened so far
  list,    \* the session's player list: player -> display name, or Nothing
  board,   \* the session's scoreboard
  text,    \* the session's header and footer, as one of Looks, or Nothing
  channel, \* the events on their way to the window
  window,  \* the window's copies: TabState's and the board
  told,    \* history: the tables this session has reported
  packets  \* the packets of this session

tables == <<list, board, text>>
vars == <<linked, joined, list, board, text, channel, window, told, packets>>
-----------------------------------------------------------------------------
NoList  == [p \in Players |-> Nothing]

\* Scoreboard: the scores are entry -> the objectives it has a score in, and a
\* membership is held twice, in the team (players) and by entry (member_of).
NoBoard ==
  [objectives |-> {}, scores |-> [p \in Players |-> {}],
   display |-> [s \in Slots |-> Nothing],
   teams |-> {}, players |-> [t \in Teams |-> {}],
   member_of |-> [p \in Players |-> Nothing]]

EventKinds == {"list", "board", "text"}

Event(kind, table) == [kind |-> kind, table |-> table]

Init ==
  /\ linked = FALSE /\ joined = 0
  /\ list = NoList /\ board = NoBoard /\ text = Nothing
  /\ channel = <<>> /\ told = {} /\ packets = 0
  /\ window = [list |-> NoList, board |-> NoBoard, text |-> Nothing]
-----------------------------------------------------------------------------
(* scoreboard.rs: each mutator as a function of the board.                 *)

SetObjective(b, o) == [b EXCEPT !.objectives = @ \cup {o}]

\* MUTANT of RemoveObjective: only the list's slot is cleared.
RemoveObjectiveOneSlot(b, o) ==
  LET first == CHOOSE s \in Slots : \A u \in Slots : s <= u
  IN  [b EXCEPT !.objectives = @ \ {o},
                !.display[first] = IF @ = o THEN Nothing ELSE @,
                !.scores = [p \in Players |-> @[p] \ {o}]]

RemoveObjective(b, o) ==
  [b EXCEPT !.objectives = @ \ {o},
            !.display = [s \in Slots |-> IF @[s] = o THEN Nothing ELSE @[s]],
            !.scores = [p \in Players |-> @[p] \ {o}]]

SetScore(b, p, o)    == [b EXCEPT !.scores[p] = @ \cup {o}]
RemoveScore(b, p, o) == [b EXCEPT !.scores[p] = @ \ {o}]
RemoveScores(b, p)   == [b EXCEPT !.scores[p] = {}]
SetDisplay(b, s, o)  == [b EXCEPT !.display[s] = o]

\* A team that is there keeps its players.
SetTeam(b, t) == [b EXCEPT !.teams = @ \cup {t}]

\* MUTANT of AddTeamPlayers: a player who moves stays in the team they leave.
AddTeamPlayersTwice(b, t, moved) ==
  IF t \notin b.teams THEN b
  ELSE [b EXCEPT !.member_of = [p \in Players |-> IF p \in moved THEN t ELSE @[p]],
                 !.players[t] = @ \cup moved]

AddTeamPlayers(b, t, moved) ==
  IF t \notin b.teams THEN b
  ELSE [b EXCEPT !.member_of = [p \in Players |-> IF p \in moved THEN t ELSE @[p]],
                 !.players = [u \in Teams |->
                     IF u = t THEN @[u] \cup moved
                     ELSE {p \in @[u] : p \notin moved \/ b.member_of[p] # u}]]

\* A player of another team is not touched.
RemoveTeamPlayers(b, t, named) ==
  LET gone == {p \in named : b.member_of[p] = t}
  IN  [b EXCEPT !.member_of = [p \in Players |-> IF p \in gone THEN Nothing ELSE @[p]],
                !.players[t] = @ \ gone]

RemoveTeam(b, t) ==
  [b EXCEPT !.teams = @ \ {t}, !.players[t] = {},
            !.member_of = [p \in Players |-> IF @[p] = t THEN Nothing ELSE @[p]]]

\* The Teams packet's create: the registration starts over.
CreateTeam(b, t, named) == AddTeamPlayers(SetTeam(RemoveTeam(b, t), t), t, named)

\* Its update rewrites the info block of the team, which may be new.
UpdateTeam(b, t) == SetTeam(b, t)
-----------------------------------------------------------------------------
(* The session: one handler writes the tables and reports those it changed.*)

\* report_list_change, report_board_change and the pair's own comparison.
ListReport(now)  == IF now = list THEN <<>> ELSE <<Event("list", now)>>
BoardReport(now) == IF now = board THEN <<>> ELSE <<Event("board", now)>>
TextReport(now)  == IF now = text THEN <<>> ELSE <<Event("text", now)>>

Reports(events) ==
  /\ channel' = channel \o events
  /\ told' = told \cup {events[i].kind : i \in DOMAIN events}

Handles ==
  /\ linked /\ packets < MaxPackets
  /\ packets' = packets + 1
  /\ UNCHANGED <<linked, joined, window>>

ListBecomes(now) ==
  /\ Handles /\ list' = now /\ Reports(ListReport(now))
  /\ UNCHANGED <<board, text>>

BoardBecomes(now) ==
  /\ Handles /\ board' = now /\ Reports(BoardReport(now))
  /\ UNCHANGED <<list, text>>

\* Player List Item: an add replaces the record, an update reaches a record
\* that is there, a remove drops it.
PlayerAdd(p, look)    == ListBecomes([list EXCEPT ![p] = look])
PlayerUpdate(p, look) == ListBecomes([list EXCEPT ![p] = IF @ = Nothing THEN Nothing ELSE look])
PlayerRemove(p)       == ListBecomes([list EXCEPT ![p] = Nothing])

ScoreboardObjective ==
  \E o \in Objectives : \/ BoardBecomes(SetObjective(board, o))
                        \/ BoardBecomes(RemoveObjective(board, o))

ScoreboardScore ==
  \E p \in Players :
      \/ \E o \in board.objectives : \/ BoardBecomes(SetScore(board, p, o))
                                     \/ BoardBecomes(RemoveScore(board, p, o))
      \/ BoardBecomes(RemoveScores(board, p))

ScoreboardDisplay ==
  \E s \in Slots, o \in board.objectives \cup {Nothing} : BoardBecomes(SetDisplay(board, s, o))

ScoreboardTeam ==
  \E t \in Teams :
      \/ BoardBecomes(UpdateTeam(board, t))
      \/ BoardBecomes(RemoveTeam(board, t))
      \/ \E named \in SUBSET Players : \/ BoardBecomes(CreateTeam(board, t, named))
                                       \/ BoardBecomes(AddTeamPlayers(board, t, named))
                                       \/ BoardBecomes(RemoveTeamPlayers(board, t, named))

TabHeaderFooter(now) ==
  /\ Handles /\ text' = now /\ Reports(TextReport(now))
  /\ UNCHANGED <<list, board>>

\* Join Game, the first or another: both tables start over; the text does not.
JoinGame ==
  /\ Handles
  /\ list' = NoList /\ board' = NoBoard /\ UNCHANGED text
  /\ Reports(ListReport(NoList) \o BoardReport(NoBoard))

\* MUTANT of RespawnElsewhere: the emptied list is not reported.
RespawnElsewhereSilent ==
  /\ Handles /\ list' = NoList /\ Reports(<<>>)
  /\ UNCHANGED <<board, text>>

\* Respawn into another dimension: the list goes, the board stays.
RespawnElsewhere == ListBecomes(NoList)
-----------------------------------------------------------------------------
(* The window.                                                             *)

\* TabState::observe and the board's mirror: an event replaces the table of its
\* kind, so a drain leaves the last one reported or, without one, the copy held.
LastOf(events, kind) == SelectLastInSeq(events, LAMBDA event : event.kind = kind)

Observed(events, kind, held) ==
  IF LastOf(events, kind) = 0 THEN held ELSE events[LastOf(events, kind)].table

Drained ==
  [list |-> Observed(channel, "list", window.list),
   board |-> Observed(channel, "board", window.board),
   text |-> Observed(channel, "text", window.text)]

\* One frame's drain.
Frame ==
  /\ linked /\ channel # <<>>
  /\ window' = Drained
  /\ channel' = <<>>
  /\ UNCHANGED <<linked, joined, tables, told, packets>>

\* join_game: a session with tables of its own.
JoinServer ==
  /\ ~linked /\ joined < MaxSessions
  /\ linked' = TRUE /\ joined' = joined + 1
  /\ list' = NoList /\ board' = NoBoard /\ text' = Nothing
  /\ channel' = <<>> /\ told' = {} /\ packets' = 0
  /\ UNCHANGED window

\* The session ends or the player leaves it: with the link its receiver and
\* what is on the channel are dropped, at an end after a last drain.
SessionOver ==
  /\ linked
  /\ linked' = FALSE /\ channel' = <<>>
  /\ \/ UNCHANGED window
     \/ window' = Drained
  /\ UNCHANGED <<joined, tables, told, packets>>
-----------------------------------------------------------------------------
Next ==
  \/ \E p \in Players : PlayerRemove(p)
  \/ \E p \in Players, look \in Looks : PlayerAdd(p, look) \/ PlayerUpdate(p, look)
  \/ ScoreboardObjective \/ ScoreboardScore \/ ScoreboardDisplay \/ ScoreboardTeam
  \/ \E now \in Looks : TabHeaderFooter(now)
  \/ JoinGame \/ RespawnElsewhere
  \/ Frame \/ JoinServer \/ SessionOver

Spec == Init /\ [][Next]_vars
-----------------------------------------------------------------------------
(* Properties.                                                             *)

Lists  == [Players -> Looks \cup {Nothing}]
Boards == [objectives : SUBSET Objectives, scores : [Players -> SUBSET Objectives],
           display : [Slots -> Objectives \cup {Nothing}],
           teams : SUBSET Teams, players : [Teams -> SUBSET Players],
           member_of : [Players -> Teams \cup {Nothing}]]
Texts  == Looks \cup {Nothing}

Events == [kind : {"list"}, table : Lists] \cup [kind : {"board"}, table : Boards]
            \cup [kind : {"text"}, table : Texts]

TypeOK ==
  /\ linked \in BOOLEAN /\ joined \in 0 .. MaxSessions /\ packets \in 0 .. MaxPackets
  /\ list \in Lists /\ board \in Boards /\ text \in Texts
  /\ channel \in Seq(Events)
  /\ window \in [list : Lists, board : Boards, text : Texts]
  /\ told \subseteq EventKinds

\* The two records of a membership name each other: a team's players are the
\* entries whose team it is, whatever came in what order ("kept consistent
\* with Team::players", scoreboard.rs).
MembershipAgrees(b) ==
  \A t \in Teams : b.players[t] = {p \in Players : b.member_of[p] = t}

\* Nothing names what is gone: an entry's team is there, a slot shows and a
\* score counts in an objective that is there.
NothingDangles(b) ==
  /\ \A p \in Players : b.member_of[p] \in b.teams \cup {Nothing} /\ b.scores[p] \subseteq b.objectives
  /\ \A s \in Slots : b.display[s] \in b.objectives \cup {Nothing}

\* The scoreboard of a session, and the one the window draws, are consistent
\* after any sequence of the server's packets: no entry drawn with the prefix of
\* a team that is gone, no sidebar of an objective that is gone.
Consistent(b) == MembershipAgrees(b) /\ NothingDangles(b)

BoardConsistent == \A b \in {board, window.board} : Consistent(b)

\* The session's scoreboard does what the packets say: with the team's players
\* for the membership, it implements the board that holds each fact once.
Told ==
  INSTANCE Scoreboard WITH
    Entries <- Players,
    objectives <- board.objectives,
    scored <- UNION {{p} \X board.scores[p] : p \in Players},
    display <- board.display,
    teams <- board.teams,
    team <- [p \in Players |->
               IF \E t \in Teams : p \in board.players[t]
               THEN CHOOSE t \in Teams : p \in board.players[t] ELSE Nothing]

BoardHolds == Told!Spec

\* What the window draws once it has drained what is on its way: of each table
\* this session has reported, or of any in the first session, the session's own.
\* A table that was changed without a report, or reported before it was whole,
\* would be drawn wrong until it changes again.
Follows(kind) == joined = 1 \/ kind \in told

CopiesFollow ==
  linked => /\ Follows("list") => Drained.list = list
            /\ Follows("board") => Drained.board = board
            /\ Follows("text") => Drained.text = text

\* Not so in the code: what the window draws of another session's tables, until
\* this one reports its own.  Nothing resets TabState or the board's mirror when a
\* session ends or another is joined, and a first Join Game "held neither and
\* reports nothing" (session.rs), so the sidebar and the tab list of the server
\* that was left are drawn on the next.
TablesOfThisSession ==
  linked => Drained.list = list /\ Drained.board = board /\ Drained.text = text
=============================================================================
