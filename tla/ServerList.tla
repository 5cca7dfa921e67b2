------------------------------ MODULE ServerList ------------------------------
(***************************************************************************)
(* The multiplayer screen: the list of servers, its file, and the pings of *)
(* its rows (crates/oxide-client/src/screens/multiplayer.rs).              *)
(*                                                                         *)
(* One thread pings the servers of a refresh in order and sends each       *)
(* result with the index of its row; a frame applies what has come.  A new *)
(* refresh drops the channel of the old one, and with it whatever its      *)
(* thread still sends.  Buttons and their places, names, icons, what a row *)
(* draws of an answer and the addresses that do not parse are left out.    *)
(***************************************************************************)
EXTENDS Integers, Sequences, SequencesExt

CONSTANTS Servers,     \* the addresses the player may enter
          StoredLists  \* the lists the file may hold at first

ASSUME StoredAssumption == StoredLists \subseteq Seq(Servers)

VARIABLES
  screen,  \* the screen: the list, the rows, the selection, the sub-screen
  pinging, \* the thread of the last refresh, and its channel
  servers  \* the file of the list

listVars == <<screen, pinging, servers>>

List == [kind |-> "list"]

\* No screen stands.  "rows" are what the rows show: a server's answer or
\* failure, or that they are pinging; "shifted" that a delete has moved rows
\* the running refresh was asked for (history).
NoScreen ==
  [open |-> FALSE, entries |-> <<>>, rows |-> <<>>, selected |-> {}, sub |-> List,
   shifted |-> FALSE]

NoPings == [targets |-> <<>>, sent |-> 0, results |-> <<>>]

ListInit ==
  /\ screen = NoScreen /\ pinging = NoPings
  /\ servers \in StoredLists

Rows == DOMAIN screen.entries

\* Every row starts over, and one thread pings them all.
Refreshed(s) ==
  /\ screen' = [s EXCEPT !.rows = [i \in DOMAIN s.entries |-> "pinging"], !.shifted = FALSE]
  /\ pinging' = [NoPings EXCEPT !.targets = s.entries]

Closed == screen' = NoScreen /\ pinging' = NoPings /\ UNCHANGED servers

\* The list is saved, or the failure logged.
SaveQuietly(entries) == servers' \in {servers, entries}
-----------------------------------------------------------------------------
OpenMultiplayer ==
  /\ ~screen.open
  /\ Refreshed([NoScreen EXCEPT !.open = TRUE, !.entries = servers])
  /\ UNCHANGED servers

Refresh ==
  /\ screen.open /\ screen.sub = List
  /\ Refreshed(screen)
  /\ UNCHANGED servers

\* A press on a row.
Select(i) ==
  /\ screen.open /\ screen.sub = List
  /\ screen' = [screen EXCEPT !.selected = {i}]
  /\ UNCHANGED <<pinging, servers>>

Selected == IF screen.selected = {} THEN 1 ELSE CHOOSE i \in screen.selected : TRUE

\* An arrow key moves the selection, off the list at its ends.
Arrow(step) ==
  /\ screen.open /\ screen.sub = List
  /\ screen' = [screen EXCEPT !.selected = {Selected + step} \cap Rows]
  /\ UNCHANGED <<pinging, servers>>

SwapRows(list, i, j) == [list EXCEPT ![i] = list[j], ![j] = list[i]]

\* Mutant of Move: the rows and the thread stay as they are.
MoveKeepsPings(step) ==
  /\ screen.open /\ screen.sub = List
  /\ {Selected, Selected + step} \subseteq Rows
  /\ LET moved == SwapRows(screen.entries, Selected, Selected + step)
     IN  /\ SaveQuietly(moved)
         /\ screen' = [screen EXCEPT !.entries = moved, !.selected = {Selected + step}]
         /\ UNCHANGED pinging

\* Shift and an arrow key move the selected server.
Move(step) ==
  /\ screen.open /\ screen.sub = List
  /\ {Selected, Selected + step} \subseteq Rows
  /\ LET moved == SwapRows(screen.entries, Selected, Selected + step)
     IN  /\ SaveQuietly(moved)
         /\ Refreshed([screen EXCEPT !.entries = moved, !.selected = {Selected + step}])

\* A button opens a sub-screen; two of them name the selected row.
OpenSub(kind) ==
  /\ screen.open /\ screen.sub = List
  /\ \/ kind \in {"add", "direct"}
        /\ screen' = [screen EXCEPT !.sub = [kind |-> kind]]
     \/ kind \in {"edit", "delete"} /\ screen.selected # {}
        /\ screen' = [screen EXCEPT !.sub = [kind |-> kind, row |-> Selected]]
  /\ UNCHANGED <<pinging, servers>>

\* The form is confirmed.
ConfirmForm(server) ==
  /\ screen.sub.kind \in {"add", "edit"}
  /\ LET entries == IF screen.sub.kind = "add" THEN Append(screen.entries, server)
                    ELSE [screen.entries EXCEPT ![screen.sub.row] = server]
     IN  /\ SaveQuietly(entries)
         /\ Refreshed([screen EXCEPT !.entries = entries, !.selected = {}, !.sub = List])

\* Mutant of ConfirmDelete: the selection stays.
DeleteKeepsSelected ==
  /\ screen.sub.kind = "delete"
  /\ SaveQuietly(RemoveAt(screen.entries, screen.sub.row))
  /\ screen' = [screen EXCEPT !.entries = RemoveAt(@, screen.sub.row),
                  !.rows = RemoveAt(@, screen.sub.row), !.sub = List, !.shifted = TRUE]
  /\ UNCHANGED pinging

\* The delete is confirmed: the row goes, and the refresh runs on.
ConfirmDelete ==
  /\ screen.sub.kind = "delete"
  /\ SaveQuietly(RemoveAt(screen.entries, screen.sub.row))
  /\ screen' = [screen EXCEPT !.entries = RemoveAt(@, screen.sub.row),
                  !.rows = RemoveAt(@, screen.sub.row), !.sub = List,
                  !.selected = {}, !.shifted = TRUE]
  /\ UNCHANGED pinging

Cancel ==
  /\ screen.sub # List
  /\ screen' = [screen EXCEPT !.sub = List]
  /\ UNCHANGED <<pinging, servers>>
-----------------------------------------------------------------------------
\* The thread answers for its next server.
Ping ==
  /\ pinging.sent < Len(pinging.targets)
  /\ pinging' = [pinging EXCEPT !.sent = @ + 1,
       !.results = Append(@, [index |-> pinging.sent + 1,
                              server |-> pinging.targets[pinging.sent + 1]])]
  /\ UNCHANGED <<screen, servers>>

\* The last result that names a row by its index, if there is one.
LastOf(results, i) == SelectLastInSeq(results, LAMBDA result : result.index = i)

\* The results go to the rows of their indices; those of no row are dropped.
ApplyPings(rows, results) ==
  [i \in DOMAIN rows |->
     IF LastOf(results, i) = 0 THEN rows[i] ELSE results[LastOf(results, i)].server]

\* Mutant of PumpPings: nothing is applied under a form.
PumpOverList ==
  /\ IF screen.open /\ screen.sub = List
     THEN /\ screen' = [screen EXCEPT !.rows = ApplyPings(@, pinging.results)]
          /\ pinging' = [pinging EXCEPT !.results = <<>>]
     ELSE UNCHANGED <<screen, pinging>>
  /\ UNCHANGED servers

\* A frame applies what has come.
PumpPings ==
  /\ IF screen.open
     THEN /\ screen' = [screen EXCEPT !.rows = ApplyPings(@, pinging.results)]
          /\ pinging' = [pinging EXCEPT !.results = <<>>]
     ELSE UNCHANGED <<screen, pinging>>
  /\ UNCHANGED servers
-----------------------------------------------------------------------------
(* Properties.                                                             *)

\* What names a row by its index names one that is there: the code indexes
\* the list with the selection and the sub-screen's row.
RowsExist ==
  /\ Len(screen.rows) = Len(screen.entries)
  /\ screen.selected \subseteq Rows
  /\ screen.sub.kind \in {"edit", "delete"} => screen.sub.row \in Rows

\* A row shows the answer of its own server, or that it is pinging.
RowShowsItsServer == \A i \in Rows : screen.rows[i] \in {"pinging", screen.entries[i]}

\* Through adds, edits, moves and refreshes with answers on their way, a row
\* never shows the answer of another server; a delete, which leaves the
\* running refresh its old indices, is the exception.
AnswersFindTheirRow == ~screen.shifted => RowShowsItsServer

StillPinging(i) == i \in Rows /\ screen.rows[i] = "pinging"

\* The rows fill in as the pings answer; no row is left pinging.
RowsFillIn == \A i \in 1 .. 2 : StillPinging(i) ~> ~StillPinging(i)

\* Through adds, edits, moves and refreshes they do: what a delete shifts is
\* again the exception.
PingsSettle == \A i \in 1 .. 2 : StillPinging(i) ~> ~StillPinging(i) \/ screen.shifted
=============================================================================
