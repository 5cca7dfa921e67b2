---------------------------- MODULE ClientProofs ----------------------------
(***************************************************************************)
(* The client outside the game for any lists, players and budgets: the     *)
(* indices of the server list name rows that are there, a row shows the    *)
(* answer of its own server, and the skins that are filed are those of the *)
(* last report.                                                            *)
(***************************************************************************)
EXTENDS Client, TLAPS, WellFoundedInduction

-----------------------------------------------------------------------------
(* The last of a sequence that has to do with something.                   *)

\* Induction over the numbers, for a set.
LEMMA Induct ==
  ASSUME NEW S, 0 \in S, \A n \in Nat : n \in S => n + 1 \in S
  PROVE  Nat \subseteq S
<1> DEFINE U == Nat \ S
           R == OpToRel(<, Nat)
<1>1. SUFFICES ASSUME NEW n \in U PROVE FALSE
  OBVIOUS
<1>2. \A x, y \in Nat : <<y, x>> \in R <=> y < x
  BY DEF OpToRel
<1>3. IsWellFoundedOn(R, Nat)
  BY NatLessThanWellFounded
<1> HIDE DEF R
<1>4. PICK m \in U : \A k \in U : ~ (<<k, m>> \in R)
  BY <1>3, WFMin
<1>5. \A k \in Nat : k < m => k \in S
  BY <1>2, <1>4
<1>6. m # 0 => m - 1 \in Nat /\ m - 1 < m /\ m = (m - 1) + 1
  OBVIOUS
<1> QED
  BY <1>5, <1>6

\* A set of indices that is not empty has its largest.
LEMMA MaxOfSome ==
  ASSUME NEW n \in Nat, NEW T \in SUBSET (1 .. n), T # {}
  PROVE  Max(T) \in T /\ \A i \in T : i <= Max(T)
<1> DEFINE S == {k \in Nat : \A i \in T : k <= n => i < n - k + 1}
<1>1. 0 \in S
  BY DEF S
<1>2. PICK k \in Nat : k \in S /\ k + 1 \notin S
  <2>1. n + 1 \notin S \/ n \notin S
    <3>1. PICK i \in T : i \in 1 .. n
      OBVIOUS
    <3> QED
      BY <3>1
  <2>2. ~ (Nat \subseteq S)
    BY <2>1
  <2> HIDE DEF S
  <2> QED
    BY <1>1, <2>2, Induct
<1>3. PICK m \in T : k + 1 <= n /\ ~ (m < n - (k + 1) + 1)
  BY <1>2
<1>4. \A i \in T : i <= m
  <2>1. \A i \in T : i \in 1 .. n /\ i < n - k + 1
    BY <1>2, <1>3
  <2>2. m \in 1 .. n
    OBVIOUS
  <2> QED
    BY <1>3, <2>1, <2>2
<1> QED
  BY <1>4 DEF Max

LEMMA Replaced ==
  ASSUME NEW S, NEW list \in Seq(S), NEW i, NEW x \in S
  PROVE  [list EXCEPT ![i] = x] \in Seq(S) /\ DOMAIN [list EXCEPT ![i] = x] = DOMAIN list
<1>1. PICK n \in Nat : n = Len(list)
  OBVIOUS
<1>2. list \in [1 .. n -> S]
  BY <1>1
<1>3. PICK e : e = [list EXCEPT ![i] = x]
  OBVIOUS
<1>4. e \in [1 .. n -> S] /\ DOMAIN e = DOMAIN list
  BY <1>2, <1>3
<1>5. e \in Seq(S)
  BY <1>4
<1> QED
  BY <1>3, <1>4, <1>5

LEMMA Concat ==
  ASSUME NEW S, NEW a \in Seq(S), NEW b \in Seq(S)
  PROVE  a \o b \in Seq(S) /\ Len(a \o b) = Len(a) + Len(b)
<1>1. a \o b \in Seq(S)
  OBVIOUS
<1>2. Len(a \o b) = Len(a) + Len(b)
  OBVIOUS
<1> QED
  BY <1>1, <1>2

LEMMA Appended ==
  ASSUME NEW S, NEW list \in Seq(S), NEW x \in S
  PROVE  /\ Append(list, x) \in Seq(S)
         /\ Len(Append(list, x)) = Len(list) + 1
         /\ \A k \in DOMAIN Append(list, x) :
              Append(list, x)[k] = x \/ (k \in DOMAIN list /\ Append(list, x)[k] = list[k])
<1>1. Append(list, x) \in Seq(S)
         /\ Len(Append(list, x)) = Len(list) + 1
  OBVIOUS
<1>2. ASSUME NEW k \in 1 .. Len(list) + 1, k # Len(list) + 1
      PROVE  k \in DOMAIN list /\ Append(list, x)[k] = list[k]
  BY <1>2
<1>3. Append(list, x)[Len(list) + 1] = x
  OBVIOUS
<1>4. DOMAIN Append(list, x) = 1 .. Len(list) + 1
  OBVIOUS
<1>5. ASSUME NEW k \in DOMAIN Append(list, x)
      PROVE  Append(list, x)[k] = x \/ (k \in DOMAIN list /\ Append(list, x)[k] = list[k])
  <2>1. CASE k = Len(list) + 1
    BY <1>3, <2>1
  <2>2. CASE k # Len(list) + 1
    BY <1>2, <1>4, <1>5, <2>2
  <2> QED
    BY <2>1, <2>2
<1> QED
  BY <1>1, <1>5

-----------------------------------------------------------------------------
(* The server list.                                                        *)

RowStates == Servers \cup {"pinging"}
Subs == {List} \cup [kind : {"add", "direct"}] \cup [kind : {"edit", "delete"}, row : Nat]
Results == [index : Nat, server : Servers]

ScreenSet ==
  [open : BOOLEAN, entries : Seq(Servers), rows : Seq(RowStates), selected : SUBSET Nat,
   sub : Subs, shifted : BOOLEAN]
Pings == [targets : Seq(Servers), sent : Nat, results : Seq(Results)]

\* What names a row of s names one that is there.
Indexed(s) ==
  /\ s \in ScreenSet
  /\ s.selected \subseteq DOMAIN s.entries
  /\ s.sub.kind \in {"edit", "delete"} => s.sub.row \in DOMAIN s.entries

\* The results of the refresh g are of its targets.
OfTargets(g) ==
  /\ g \in Pings /\ g.sent <= Len(g.targets)
  /\ \A k \in DOMAIN g.results :
       /\ g.results[k].index \in DOMAIN g.targets
       /\ g.results[k].server = g.targets[g.results[k].index]

\* The screen s and the refresh g that runs for it: but for a delete, the
\* refresh is of the list as it stands.
ListSound(s, g) ==
  /\ Indexed(s) /\ OfTargets(g)
  /\ Len(s.rows) = Len(s.entries)
  /\ ~s.open => s = NoScreen
  /\ ~s.shifted =>
       g.targets = s.entries /\ \A i \in DOMAIN s.entries : s.rows[i] \in {"pinging", s.entries[i]}

ListInv == ListSound(screen, pinging) /\ servers \in Seq(Servers)

LEMMA ListInvShows == ListInv => RowsExist /\ AnswersFindTheirRow
BY DEF ListInv, ListSound, Indexed, RowsExist, AnswersFindTheirRow, RowShowsItsServer, Rows

LEMMA NoScreenSound == ListSound(NoScreen, NoPings)
<1>1. <<>> \in Seq(Servers) /\ <<>> \in Seq(RowStates) /\ <<>> \in Seq(Results)
  OBVIOUS
<1>2. Len(<<>>) = 0 /\ DOMAIN <<>> = {}
  OBVIOUS
<1>3. Indexed(NoScreen)
  BY <1>1 DEF Indexed, NoScreen, ScreenSet, Subs, List
<1>4. OfTargets(NoPings)
  BY <1>1, <1>2 DEF OfTargets, NoPings, Pings
<1> QED
  BY <1>2, <1>3, <1>4 DEF ListSound, NoScreen, NoPings

\* A refresh starts every row over.
LEMMA RefreshedSound ==
  ASSUME NEW s, Indexed(s), s.open, Refreshed(s)
  PROVE  ListSound(screen', pinging')
<1>1. PICK t : t = screen'
  OBVIOUS
<1>2. PICK g : g = pinging'
  OBVIOUS
<1>3. PICK list \in Seq(Servers) : list = s.entries
  BY DEF Indexed, ScreenSet
<1>4. PICK rows : rows = [i \in DOMAIN list |-> "pinging"]
  OBVIOUS
<1>5. rows \in Seq(RowStates) /\ Len(rows) = Len(list) /\ \A i \in DOMAIN list : rows[i] = "pinging"
  BY <1>4 DEF RowStates
<1>6. t = [s EXCEPT !.rows = rows, !.shifted = FALSE]
  BY <1>1, <1>3, <1>4 DEF Refreshed
<1>7. g = [targets |-> list, sent |-> 0, results |-> <<>>]
  BY <1>2, <1>3 DEF Refreshed, NoPings
<1>8. Indexed(t) /\ t.rows = rows /\ t.entries = list /\ t.open
  BY <1>3, <1>5, <1>6 DEF Indexed, ScreenSet
<1>9. OfTargets(g)
  <2>1. <<>> \in Seq(Results) /\ DOMAIN <<>> = {} /\ 0 <= Len(list)
    OBVIOUS
  <2> QED
    BY <1>7, <2>1 DEF OfTargets, Pings
<1> QED
  BY <1>1, <1>2, <1>5, <1>7, <1>8, <1>9 DEF ListSound

\* A step that leaves the rows, the list and the refresh.
LEMMA SameRows ==
  ASSUME NEW s, NEW t, NEW g, ListSound(s, g), Indexed(t), s.open, t.open,
         t.entries = s.entries, t.rows = s.rows, t.shifted = s.shifted
  PROVE  ListSound(t, g)
BY DEF ListSound

LEMMA OpenIndexed ==
  ASSUME NEW s, NEW g, ListSound(s, g), s.open \/ s.sub # List \/ s.selected # {}
  PROVE  Indexed(s) /\ s.open
BY DEF ListSound, NoScreen, List

LEMMA OpenMultiplayerStep == ASSUME ListInv, OpenMultiplayer PROVE ListInv'
<1>1. PICK s : s = [NoScreen EXCEPT !.open = TRUE, !.entries = servers]
  OBVIOUS
<1>2. <<>> \in Seq(RowStates) /\ servers \in Seq(Servers)
  BY DEF ListInv
<1>3. Indexed(s) /\ s.open
  BY <1>1, <1>2 DEF Indexed, NoScreen, ScreenSet, Subs, List
<1> QED
  BY <1>1, <1>2, <1>3, RefreshedSound DEF OpenMultiplayer, ListInv

LEMMA RefreshStep == ASSUME ListInv, Refresh PROVE ListInv'
<1>1. Indexed(screen) /\ screen.open
  BY OpenIndexed DEF ListInv, Refresh
<1> QED
  BY <1>1, RefreshedSound DEF Refresh, ListInv

LEMMA SelectStep == ASSUME ListInv, NEW i \in Rows, Select(i) PROVE ListInv'
<1>1. PICK s : s = screen
  OBVIOUS
<1>2. Indexed(s) /\ s.open /\ i \in DOMAIN s.entries
  BY <1>1, OpenIndexed DEF ListInv, Select, Rows
<1>3. i \in Nat
  BY <1>2 DEF Indexed, ScreenSet
<1>4. PICK t : t = [s EXCEPT !.selected = {i}]
  OBVIOUS
<1>5. Indexed(t) /\ t.open /\ t.entries = s.entries /\ t.rows = s.rows /\ t.shifted = s.shifted
  BY <1>2, <1>3, <1>4 DEF Indexed, ScreenSet
<1> QED
  BY <1>1, <1>2, <1>4, <1>5, SameRows DEF ListInv, Select

LEMMA ArrowStep == ASSUME ListInv, NEW step, Arrow(step) PROVE ListInv'
<1>1. PICK s : s = screen
  OBVIOUS
<1>2. Indexed(s) /\ s.open
  BY <1>1, OpenIndexed DEF ListInv, Arrow
<1>3. PICK rest : rest = {Selected + step} \cap Rows
  OBVIOUS
<1>4. rest \subseteq DOMAIN s.entries /\ DOMAIN s.entries \subseteq Nat
  BY <1>1, <1>2, <1>3 DEF Rows, Indexed, ScreenSet
<1>5. PICK t : t = [s EXCEPT !.selected = rest]
  OBVIOUS
<1>6. Indexed(t) /\ t.open /\ t.entries = s.entries /\ t.rows = s.rows /\ t.shifted = s.shifted
  BY <1>2, <1>4, <1>5 DEF Indexed, ScreenSet
<1> QED
  BY <1>1, <1>2, <1>3, <1>5, <1>6, SameRows DEF ListInv, Arrow

LEMMA CancelStep == ASSUME ListInv, Cancel PROVE ListInv'
<1>1. PICK s : s = screen
  OBVIOUS
<1>2. Indexed(s) /\ s.open
  BY <1>1, OpenIndexed DEF ListInv, Cancel
<1>3. PICK t : t = [s EXCEPT !.sub = List]
  OBVIOUS
<1>4. Indexed(t) /\ t.open /\ t.entries = s.entries /\ t.rows = s.rows /\ t.shifted = s.shifted
  BY <1>2, <1>3 DEF Indexed, ScreenSet, Subs, List
<1> QED
  BY <1>1, <1>2, <1>3, <1>4, SameRows DEF ListInv, Cancel

LEMMA SelectedIs == ASSUME screen.selected # {} PROVE Selected \in screen.selected
BY DEF Selected

LEMMA OpenSubStep ==
  ASSUME ListInv, NEW kind \in {"add", "edit", "delete", "direct"}, OpenSub(kind)
  PROVE  ListInv'
<1>1. PICK s : s = screen
  OBVIOUS
<1>2. Indexed(s) /\ s.open
  BY <1>1, OpenIndexed DEF ListInv, OpenSub
<1>3. PICK sub : screen' = [s EXCEPT !.sub = sub]
                 /\ \/ kind \in {"add", "direct"} /\ sub = [kind |-> kind]
                    \/ /\ kind \in {"edit", "delete"} /\ s.selected # {}
                       /\ sub = [kind |-> kind, row |-> Selected]
  BY <1>1 DEF OpenSub
<1>4. sub \in Subs /\ (sub.kind \in {"edit", "delete"} => sub.row \in DOMAIN s.entries)
  <2>1. CASE kind \in {"add", "direct"}
    BY <1>3, <2>1 DEF Subs
  <2>2. CASE kind \in {"edit", "delete"}
    <3>1. PICK r : r = Selected
      OBVIOUS
    <3>2. r \in s.selected
      BY <1>1, <1>3, <2>2, <3>1, SelectedIs
    <3>3. r \in Nat /\ r \in DOMAIN s.entries
      BY <1>2, <3>2 DEF Indexed, ScreenSet
    <3> QED
      BY <1>3, <2>2, <3>1, <3>3 DEF Subs
  <2> QED
    BY <2>1, <2>2
<1>5. PICK t : t = [s EXCEPT !.sub = sub]
  OBVIOUS
<1>6. Indexed(t) /\ t.open /\ t.entries = s.entries /\ t.rows = s.rows /\ t.shifted = s.shifted
  BY <1>2, <1>4, <1>5 DEF Indexed, ScreenSet
<1> QED
  BY <1>1, <1>2, <1>3, <1>5, <1>6, SameRows DEF ListInv, OpenSub

\* A list that is saved, or not.
LEMMA Saved ==
  ASSUME ListInv, NEW list \in Seq(Servers), SaveQuietly(list)
  PROVE  servers' \in Seq(Servers)
BY DEF ListInv, SaveQuietly

LEMMA MoveStep == ASSUME ListInv, NEW step, Move(step) PROVE ListInv'
<1>1. PICK s : s = screen
  OBVIOUS
<1>2. Indexed(s) /\ s.open /\ s.sub = List
  BY <1>1, OpenIndexed DEF ListInv, Move
<1>3. PICK i, j : i = Selected /\ j = Selected + step
  OBVIOUS
<1>4. i \in DOMAIN s.entries /\ j \in DOMAIN s.entries
  BY <1>1, <1>3 DEF Move, Rows
<1>5. PICK list \in Seq(Servers) : list = s.entries
  BY <1>2 DEF Indexed, ScreenSet
<1>6. PICK moved : moved = SwapRows(list, i, j)
  OBVIOUS
<1>7. moved \in Seq(Servers) /\ DOMAIN moved = DOMAIN list /\ j \in Nat
  <2>1. list[i] \in Servers /\ list[j] \in Servers /\ j \in Nat
    BY <1>4, <1>5
  <2>2. PICK half : half = [list EXCEPT ![i] = list[j]]
    OBVIOUS
  <2>3. half \in Seq(Servers) /\ DOMAIN half = DOMAIN list
    BY <2>1, <2>2, Replaced
  <2>4. moved = [half EXCEPT ![j] = list[i]]
    BY <1>6, <2>2 DEF SwapRows
  <2>5. moved \in Seq(Servers) /\ DOMAIN moved = DOMAIN half
    BY <2>1, <2>3, <2>4, Replaced
  <2> QED
    BY <2>1, <2>3, <2>5
<1>8. PICK t : t = [s EXCEPT !.entries = moved, !.selected = {j}]
  OBVIOUS
<1>9. Indexed(t) /\ t.open
  BY <1>2, <1>4, <1>5, <1>7, <1>8 DEF Indexed, ScreenSet, List
<1>10. SaveQuietly(moved) /\ Refreshed(t)
  BY <1>1, <1>3, <1>5, <1>6, <1>8 DEF Move
<1> QED
  BY <1>7, <1>9, <1>10, RefreshedSound, Saved DEF ListInv

LEMMA ConfirmFormStep == ASSUME ListInv, NEW server \in Servers, ConfirmForm(server) PROVE ListInv'
<1>1. PICK s : s = screen
  OBVIOUS
<1>2. Indexed(s) /\ s.open /\ s.sub.kind \in {"add", "edit"}
  BY <1>1, OpenIndexed DEF ListInv, ConfirmForm, List
<1>3. PICK list \in Seq(Servers) : list = s.entries
  BY <1>2 DEF Indexed, ScreenSet
<1>4. PICK edited : edited = IF s.sub.kind = "add" THEN Append(list, server)
                             ELSE [list EXCEPT ![s.sub.row] = server]
  OBVIOUS
<1>5. edited \in Seq(Servers)
  <2>1. Append(list, server) \in Seq(Servers)
    OBVIOUS
  <2>2. ASSUME NEW r PROVE [list EXCEPT ![r] = server] \in Seq(Servers)
    BY Replaced
  <2> QED
    BY <1>4, <2>1, <2>2
<1>6. PICK t : t = [s EXCEPT !.entries = edited, !.selected = {}, !.sub = List]
  OBVIOUS
<1>7. Indexed(t) /\ t.open
  BY <1>2, <1>5, <1>6 DEF Indexed, ScreenSet, Subs, List
<1>8. SaveQuietly(edited) /\ Refreshed(t)
  BY <1>1, <1>3, <1>4, <1>6 DEF ConfirmForm
<1> QED
  BY <1>5, <1>7, <1>8, RefreshedSound, Saved DEF ListInv

LEMMA Removed ==
  ASSUME NEW S, NEW list \in Seq(S), NEW r \in DOMAIN list
  PROVE  RemoveAt(list, r) \in Seq(S) /\ Len(RemoveAt(list, r)) = Len(list) - 1
<1>1. r \in 1 .. Len(list) /\ Len(list) \in Nat
  OBVIOUS
<1>2. PICK a, b : a = SubSeq(list, 1, r - 1) /\ b = SubSeq(list, r + 1, Len(list))
  OBVIOUS
<1>3. a \in Seq(S) /\ Len(a) = r - 1
  BY <1>1, <1>2
<1>4. b \in Seq(S) /\ Len(b) = Len(list) - r
  BY <1>1, <1>2
<1>5. a \o b \in Seq(S) /\ Len(a \o b) = Len(a) + Len(b)
  BY <1>3, <1>4, Concat
<1>6. RemoveAt(list, r) = a \o b
  BY <1>2 DEF RemoveAt
<1>7. Len(a) + Len(b) = Len(list) - 1
  BY <1>1, <1>3, <1>4
<1> QED
  BY <1>5, <1>6, <1>7

LEMMA ConfirmDeleteStep == ASSUME ListInv, ConfirmDelete PROVE ListInv'
<1>1. PICK s, g : s = screen /\ g = pinging
  OBVIOUS
<1>2. Indexed(s) /\ s.open /\ s.sub.kind = "delete" /\ ListSound(s, g)
  BY <1>1, OpenIndexed DEF ListInv, ConfirmDelete, List
<1>3. PICK list \in Seq(Servers) : list = s.entries
  BY <1>2 DEF Indexed, ScreenSet
<1>4. PICK rows \in Seq(RowStates) : rows = s.rows /\ Len(rows) = Len(list)
  BY <1>2, <1>3 DEF ListSound, Indexed, ScreenSet
<1>5. PICK r \in DOMAIN list : r = s.sub.row
  BY <1>2, <1>3 DEF Indexed
<1>6. r \in DOMAIN rows
  BY <1>4
<1>7. PICK list2, rows2 : list2 = RemoveAt(list, r) /\ rows2 = RemoveAt(rows, r)
  OBVIOUS
<1>8. list2 \in Seq(Servers) /\ rows2 \in Seq(RowStates) /\ Len(list2) = Len(rows2)
  BY <1>4, <1>6, <1>7, Removed
<1>9. PICK t : t = [s EXCEPT !.entries = list2, !.rows = rows2, !.sub = List,
                             !.selected = {}, !.shifted = TRUE]
  OBVIOUS
<1>10. Indexed(t) /\ t.open /\ t.entries = list2 /\ t.rows = rows2 /\ t.shifted
  BY <1>2, <1>8, <1>9 DEF Indexed, ScreenSet, Subs, List
<1>11. ListSound(t, g)
  BY <1>2, <1>8, <1>10 DEF ListSound
<1>12. screen' = t /\ pinging' = g /\ SaveQuietly(list2)
  BY <1>1, <1>3, <1>4, <1>5, <1>7, <1>9 DEF ConfirmDelete
<1> QED
  BY <1>8, <1>11, <1>12, Saved DEF ListInv

LEMMA PingStep == ASSUME ListInv, Ping PROVE ListInv'
<1>1. PICK s, g : s = screen /\ g = pinging
  OBVIOUS
<1>2. ListSound(s, g) /\ OfTargets(g) /\ g \in Pings
  BY <1>1 DEF ListInv, ListSound, OfTargets
<1>3. PICK n \in Nat : n = g.sent
  BY <1>2 DEF Pings
<1>4. PICK targets \in Seq(Servers) : targets = g.targets /\ n < Len(targets)
  BY <1>1, <1>2, <1>3 DEF Ping, Pings
<1>5. PICK results \in Seq(Results) : results = g.results
  BY <1>2 DEF Pings
<1>6. n + 1 \in DOMAIN targets /\ n + 1 \in Nat /\ targets[n + 1] \in Servers
  BY <1>4
<1>7. PICK r : r = [index |-> n + 1, server |-> targets[n + 1]]
  OBVIOUS
<1>8. r \in Results /\ r.index \in DOMAIN targets /\ r.server = targets[r.index]
  BY <1>6, <1>7 DEF Results
<1>9. PICK more : more = Append(results, r)
  OBVIOUS
<1>10. /\ more \in Seq(Results)
       /\ \A k \in DOMAIN more : more[k] = r \/ (k \in DOMAIN results /\ more[k] = results[k])
  BY <1>8, <1>9, Appended
<1>11. PICK h : h = [g EXCEPT !.sent = n + 1, !.results = more]
  OBVIOUS
<1>12. h \in Pings /\ h.sent = n + 1 /\ h.results = more /\ h.targets = targets
  BY <1>2, <1>4, <1>6, <1>10, <1>11 DEF Pings
<1>13. OfTargets(h)
  <2>1. ASSUME NEW k \in DOMAIN more
        PROVE  more[k].index \in DOMAIN targets /\ more[k].server = targets[more[k].index]
    BY <1>2, <1>4, <1>5, <1>8, <1>10 DEF OfTargets
  <2>2. n + 1 <= Len(targets)
    BY <1>4
  <2> QED
    BY <1>12, <2>1, <2>2 DEF OfTargets
<1>14. ListSound(s, h)
  BY <1>2, <1>4, <1>12, <1>13 DEF ListSound
<1>15. screen' = s /\ pinging' = h /\ servers' = servers
  BY <1>1, <1>3, <1>4, <1>5, <1>7, <1>9, <1>11 DEF Ping
<1> QED
  BY <1>14, <1>15 DEF ListInv

\* The last result for a row, if there is one.
LEMMA LastOfIs ==
  ASSUME NEW results \in Seq(Results), NEW i
  PROVE  LastOf(results, i) # 0 =>
           LastOf(results, i) \in DOMAIN results /\ results[LastOf(results, i)].index = i
<1>1. PICK n \in Nat : n = Len(results) /\ DOMAIN results = 1 .. n
  OBVIOUS
<1>2. PICK T : T = {k \in 1 .. n : results[k].index = i}
  OBVIOUS
<1>3. LastOf(results, i) = IF T # {} THEN Max(T) ELSE 0
  BY <1>1, <1>2 DEF LastOf, SelectLastInSeq
<1>4. T \in SUBSET (1 .. n)
  BY <1>2
<1>5. T # {} => Max(T) \in T
  BY <1>4, MaxOfSome
<1> QED
  BY <1>1, <1>2, <1>3, <1>5

LEMMA PumpPingsStep == ASSUME ListInv, PumpPings PROVE ListInv'
<1>1. PICK s, g : s = screen /\ g = pinging
  OBVIOUS
<1>2. ListSound(s, g) /\ OfTargets(g) /\ g \in Pings /\ servers' = servers
  BY <1>1 DEF ListInv, ListSound, OfTargets, PumpPings
<1>3. CASE ~ s.open
  BY <1>1, <1>2, <1>3 DEF PumpPings, ListInv
<1>4. CASE s.open
  <2>1. Indexed(s)
    BY <1>2 DEF ListSound
  <2>2. PICK rows \in Seq(RowStates) : rows = s.rows
    BY <2>1 DEF Indexed, ScreenSet
  <2>3. PICK results \in Seq(Results) : results = g.results
    BY <1>2 DEF Pings
  <2>4. PICK applied : applied = ApplyPings(rows, results)
    OBVIOUS
  <2>5. applied = [i \in DOMAIN rows |->
           IF LastOf(results, i) = 0 THEN rows[i] ELSE results[LastOf(results, i)].server]
    BY <2>4 DEF ApplyPings
  <2>6. ASSUME NEW i \in DOMAIN rows
        PROVE  \/ applied[i] = rows[i]
               \/ /\ applied[i] \in Servers
                  /\ i \in DOMAIN g.targets /\ applied[i] = g.targets[i]
    <3>1. CASE LastOf(results, i) = 0
      BY <2>5, <3>1
    <3>2. CASE LastOf(results, i) # 0
      <4>1. PICK k \in DOMAIN results : k = LastOf(results, i) /\ results[k].index = i
        BY <3>2, LastOfIs
      <4>2. applied[i] = results[k].server
        BY <2>5, <3>2, <4>1
      <4>3. results[k] \in Results
        BY <4>1
      <4>4. i \in DOMAIN g.targets /\ results[k].server = g.targets[i]
        BY <1>2, <2>3, <4>1 DEF OfTargets
      <4> QED
        BY <4>2, <4>3, <4>4 DEF Results
    <3> QED
      BY <3>1, <3>2
  <2>7. applied \in Seq(RowStates) /\ Len(applied) = Len(rows)
    <3>1. PICK n \in Nat : n = Len(rows) /\ DOMAIN rows = 1 .. n
      OBVIOUS
    <3>2. \A i \in 1 .. n : rows[i] \in RowStates
      BY <3>1
    <3>3. DOMAIN applied = 1 .. n /\ \A i \in 1 .. n : applied[i] \in RowStates
      BY <2>5, <2>6, <3>1, <3>2 DEF RowStates
    <3>4. applied \in [1 .. n -> RowStates]
      <4>1. applied = [i \in 1 .. n |-> applied[i]]
        BY <2>5, <3>1
      <4> QED
        BY <3>3, <4>1
    <3> QED
      BY <3>1, <3>4
  <2>8. PICK t : t = [s EXCEPT !.rows = applied]
    OBVIOUS
  <2>9. PICK h : h = [g EXCEPT !.results = <<>>]
    OBVIOUS
  <2>10. screen' = t /\ pinging' = h
    BY <1>1, <1>4, <2>2, <2>3, <2>4, <2>8, <2>9 DEF PumpPings
  <2>11. /\ Indexed(t) /\ t.open /\ t.entries = s.entries /\ t.rows = applied
         /\ t.shifted = s.shifted
    BY <1>4, <2>1, <2>7, <2>8 DEF Indexed, ScreenSet
  <2>12. OfTargets(h) /\ h.targets = g.targets
    <3>1. <<>> \in Seq(Results) /\ DOMAIN <<>> = {}
      OBVIOUS
    <3> QED
      BY <1>2, <2>9, <3>1 DEF OfTargets, Pings
  <2>13. ListSound(t, h)
    <3>1. DOMAIN rows = DOMAIN s.entries /\ Len(applied) = Len(s.entries)
      <4>1. s.entries \in Seq(Servers) /\ Len(rows) = Len(s.entries)
        BY <1>2, <2>1, <2>2 DEF ListSound, Indexed, ScreenSet
      <4> QED
        BY <2>7, <4>1
    <3>2. ASSUME ~ s.shifted, NEW i \in DOMAIN s.entries
          PROVE  applied[i] \in {"pinging", s.entries[i]}
      <4>1. g.targets = s.entries /\ rows[i] \in {"pinging", s.entries[i]}
        BY <1>2, <2>2, <3>2 DEF ListSound
      <4> QED
        BY <2>6, <3>1, <4>1
    <3>3. ~ s.shifted => g.targets = s.entries
      BY <1>2 DEF ListSound
    <3> QED
      BY <2>11, <2>12, <3>1, <3>2, <3>3 DEF ListSound
  <2> QED
    BY <1>2, <2>10, <2>13 DEF ListInv
<1> QED
  BY <1>3, <1>4

LEMMA ClosedStep == ASSUME ListInv, Closed PROVE ListInv'
BY NoScreenSound DEF ListInv, Closed

LEMMA ListStays == ASSUME ListInv, UNCHANGED listVars PROVE ListInv'
BY DEF ListInv, listVars, ListSound, Indexed, OfTargets

LEMMA ListInitHolds == ListInit => ListInv
BY NoScreenSound, StoredAssumption DEF ListInit, ListInv

-----------------------------------------------------------------------------
(* The skins.                                                              *)

Values == Properties \cup {Plain, "profile"}
Asks == [player : Listed, property : Values]
Updates == [player : Listed \cup {Me}, of : Values, got : BOOLEAN]
Shown == [of : Values, got : BOOLEAN]

\* Besides its property's, the own player's skin may be the profile's.
Own(p) == IF p = Me /\ HasAccount THEN {"profile"} ELSE {}

SkinsType ==
  /\ reported \in [Listed -> Values]
  /\ worker \in [requests : Seq(Asks), seen : [Listed -> SUBSET Values], updates : Seq(Updates)]
  /\ own \in [out : BOOLEAN, updates : Seq(Updates)]
  /\ skins \in [Listed -> Shown]

\* The requests for p that wait, and what the last of them is of.
Asked(p, requests) == {i \in DOMAIN requests : requests[i].player = p}

Due(p, requests, x) ==
  \E i \in Asked(p, requests) :
    requests[i].property = x /\ \A j \in Asked(p, requests) : j <= i

\* The entry x of p is the last the worker has seen, or the last it will see.
Answered(p, requests, seen, x) ==
  IF Asked(p, requests) = {} THEN seen = {x} ELSE Due(p, requests, x)

\* What the worker has seen of p is what will stand once the updates are
\* filed, unless the own skin does.
SeenStands(p, seen, filed, updates) ==
  \A x \in seen : seen = {x} /\ File(filed, updates)[p].of \in {x} \cup Own(p)

OwnFetch(f) ==
  /\ f.out => HasAccount
  /\ f.updates # <<>> =>
       HasAccount /\ f.updates = <<[player |-> Me, of |-> "profile", got |-> TRUE]>>

SkinsInv ==
  /\ SkinsType
  /\ OwnFetch(own)
  /\ \A p \in Listed :
       /\ SeenStands(p, worker.seen[p], skins, worker.updates)
       /\ reported[p] # Plain =>
            Answered(p, worker.requests, worker.seen[p], reported[p])

LEMMA EmptySeqs == <<>> \in Seq(Asks) /\ <<>> \in Seq(Updates) /\ DOMAIN <<>> = {}
OBVIOUS

LEMMA LatestIs ==
  ASSUME NEW updates \in Seq(Updates), NEW p
  PROVE  \/ Latest(updates, p) = 0 /\ \A k \in DOMAIN updates : updates[k].player # p
         \/ /\ Latest(updates, p) \in DOMAIN updates
            /\ updates[Latest(updates, p)].player = p
            /\ \A k \in DOMAIN updates : updates[k].player = p => k <= Latest(updates, p)
<1>1. PICK n \in Nat : n = Len(updates) /\ DOMAIN updates = 1 .. n
  OBVIOUS
<1>2. PICK T : T = {k \in 1 .. n : updates[k].player = p}
  OBVIOUS
<1>3. Latest(updates, p) = IF T # {} THEN Max(T) ELSE 0
  BY <1>1, <1>2 DEF Latest, SelectLastInSeq
<1>4. T \in SUBSET (1 .. n)
  BY <1>2
<1>5. T # {} => Max(T) \in T /\ \A k \in T : k <= Max(T)
  BY <1>4, MaxOfSome
<1>6. CASE T = {}
  BY <1>1, <1>2, <1>3, <1>6
<1>7. CASE T # {}
  BY <1>1, <1>2, <1>3, <1>5, <1>7
<1> QED
  BY <1>6, <1>7

LEMMA FileEmpty == ASSUME NEW filed, NEW p \in Listed PROVE File(filed, <<>>)[p] = filed[p]
<1>1. <<>> \in Seq(Updates) /\ DOMAIN <<>> = {}
  BY EmptySeqs
<1>2. Latest(<<>>, p) = 0
  BY <1>1, LatestIs
<1> QED
  BY <1>2 DEF File

\* One more update of a player is its last.
LEMMA FileAppend ==
  ASSUME NEW updates \in Seq(Updates), NEW u \in Updates, NEW filed, NEW p \in Listed
  PROVE  File(filed, Append(updates, u))[p].of =
           IF u.player = p THEN u.of ELSE File(filed, updates)[p].of
<1>1. PICK n \in Nat : n = Len(updates) + 1
  OBVIOUS
<1>2. PICK more : more = Append(updates, u)
  OBVIOUS
<1>3. /\ more \in Seq(Updates)
      /\ DOMAIN more = 1 .. n /\ DOMAIN updates = 1 .. n - 1
      /\ more[n] = u
      /\ \A k \in DOMAIN updates : more[k] = updates[k]
  BY <1>1, <1>2
<1>4. PICK last, now : last = Latest(updates, p) /\ now = Latest(more, p)
  OBVIOUS
<1>5. \/ last = 0 /\ \A k \in DOMAIN updates : updates[k].player # p
      \/ /\ last \in DOMAIN updates /\ updates[last].player = p
         /\ \A k \in DOMAIN updates : updates[k].player = p => k <= last
  BY <1>4, LatestIs
<1>6. \/ now = 0 /\ \A k \in DOMAIN more : more[k].player # p
      \/ /\ now \in DOMAIN more /\ more[now].player = p
         /\ \A k \in DOMAIN more : more[k].player = p => k <= now
  BY <1>3, <1>4, LatestIs
<1>7. File(filed, more)[p].of = IF now = 0 THEN filed[p].of ELSE more[now].of
  BY <1>4 DEF File
<1>8. File(filed, updates)[p].of = IF last = 0 THEN filed[p].of ELSE updates[last].of
  BY <1>4 DEF File
<1>9. CASE u.player = p
  <2>1. now = n /\ n # 0
    <3>1. n \in DOMAIN more /\ more[n].player = p
      <4>1. Len(updates) \in Nat
        OBVIOUS
      <4> QED
        BY <1>1, <1>3, <1>9, <4>1
    <3>2. now \in 1 .. n /\ n <= now
      BY <1>3, <1>6, <3>1
    <3> QED
      BY <3>2
  <2> QED
    BY <1>2, <1>3, <1>7, <1>9, <2>1
<1>10. CASE u.player # p
  <2>1. now = last
    BY <1>3, <1>5, <1>6, <1>10
  <2>2. last # 0 => last \in DOMAIN updates
    BY <1>5
  <2> QED
    BY <1>2, <1>3, <1>7, <1>8, <1>10, <2>1, <2>2
<1> QED
  BY <1>9, <1>10

LEMMA FileType ==
  ASSUME NEW filed \in [Listed -> Shown], NEW updates \in Seq(Updates)
  PROVE  File(filed, updates) \in [Listed -> Shown]
<1>1. ASSUME NEW p \in Listed
      PROVE  (IF Latest(updates, p) = 0 THEN filed[p]
              ELSE [of |-> updates[Latest(updates, p)].of,
                    got |-> updates[Latest(updates, p)].got]) \in Shown
  <2>1. CASE Latest(updates, p) = 0
    BY <2>1
  <2>2. CASE Latest(updates, p) # 0
    <3>1. PICK k \in DOMAIN updates : k = Latest(updates, p)
      BY <2>2, LatestIs
    <3>2. updates[k] \in Updates
      OBVIOUS
    <3> QED
      BY <2>2, <3>1, <3>2 DEF Updates, Shown
  <2> QED
    BY <2>1, <2>2
<1> QED
  BY <1>1 DEF File

\* The requests of a report, player by player.
Ask(asked, entries, p) ==
  IF entries[p] = Plain THEN asked
  ELSE Append(asked, [player |-> p, property |-> entries[p]])

IsAsking(f, entries) ==
  f = [n \in 0 .. Len(Players) |-> IF n = 0 THEN <<>> ELSE Ask(f[n - 1], entries, Players[n])]

LEMMA AskingExists ==
  ASSUME NEW entries
  PROVE  \E f : IsAsking(f, entries) /\ Requests(entries) = f[Len(Players)]
<1> DEFINE Upto(f, k) ==
             f = [n \in 0 .. k |-> IF n = 0 THEN <<>> ELSE Ask(f[n - 1], entries, Players[n])]
           S == {k \in Nat : \E f : Upto(f, k)}
<1>1. 0 \in S
  <2> DEFINE f == [n \in 0 .. 0 |-> <<>>]
  <2>1. f = [n \in 0 .. 0 |-> IF n = 0 THEN <<>> ELSE Ask(f[n - 1], entries, Players[n])]
    OBVIOUS
  <2> QED
    BY <2>1
<1>2. ASSUME NEW k \in Nat, k \in S PROVE k + 1 \in S
  <2>1. PICK f : Upto(f, k)
    BY <1>2
  <2> DEFINE last == Ask(f[k], entries, Players[k + 1])
             g == [n \in 0 .. k + 1 |-> IF n = k + 1 THEN last ELSE f[n]]
  <2>2. ASSUME NEW n \in 0 .. k + 1
        PROVE  g[n] = IF n = 0 THEN <<>> ELSE Ask(g[n - 1], entries, Players[n])
    <3>1. CASE n = k + 1
      <4>1. n # 0 /\ n - 1 = k /\ k \in 0 .. k + 1 /\ k # k + 1
        BY <3>1
      <4>2. g[n] = last /\ g[k] = f[k]
        BY <3>1, <4>1
      <4> QED
        BY <3>1, <4>1, <4>2
    <3>2. CASE n = 0
      <4>1. n # k + 1 /\ n \in 0 .. k
        BY <3>2
      <4>2. f[n] = <<>>
        BY <2>1, <3>2, <4>1
      <4> QED
        BY <3>2, <4>1, <4>2
    <3>3. CASE n # 0 /\ n # k + 1
      <4>1. n \in 0 .. k /\ n - 1 \in 0 .. k + 1 /\ n - 1 # k + 1
        BY <3>3
      <4>2. g[n] = f[n] /\ g[n - 1] = f[n - 1]
        BY <3>3, <4>1
      <4>3. f[n] = Ask(f[n - 1], entries, Players[n])
        BY <2>1, <3>3, <4>1
      <4> QED
        BY <3>3, <4>2, <4>3
    <3> QED
      BY <3>1, <3>2, <3>3
  <2>3. g = [n \in 0 .. k + 1 |-> g[n]]
    OBVIOUS
  <2> HIDE DEF g
  <2>4. Upto(g, k + 1)
    BY <2>2, <2>3
  <2> HIDE DEF Upto
  <2>5. k + 1 \in Nat
    OBVIOUS
  <2> QED
    BY <2>4, <2>5
<1>3. Len(Players) \in S
  <2>1. Nat \subseteq S
    <3> HIDE DEF S
    <3> QED
      BY <1>1, <1>2, Induct
  <2>2. Len(Players) \in Nat
    BY PlayersAssumption
  <2> QED
    BY <2>1, <2>2
<1>4. \E f : IsAsking(f, entries)
  BY <1>3 DEF IsAsking
<1>5. PICK f : f = CHOOSE g : IsAsking(g, entries)
  OBVIOUS
<1>6. Requests(entries) = f[Len(Players)]
  BY <1>5 DEF Requests, IsAsking, Ask
<1> QED
  BY <1>4, <1>5, <1>6

\* What the first n players' requests are.
AskedFirst(requests, entries, n) ==
  /\ requests \in Seq(Asks)
  /\ \A i \in DOMAIN requests : requests[i].property = entries[requests[i].player]
  /\ \A k \in 1 .. n : entries[Players[k]] # Plain =>
       \E i \in DOMAIN requests : requests[i].player = Players[k]

LEMMA AskOneMore ==
  ASSUME NEW requests, NEW entries \in [Listed -> Values], NEW n \in Nat,
         n + 1 \in 1 .. Len(Players), AskedFirst(requests, entries, n)
  PROVE  AskedFirst(Ask(requests, entries, Players[n + 1]), entries, n + 1)
<1>1. PICK p \in Listed : p = Players[n + 1]
  BY PlayersAssumption DEF Listed
<1>2. \A k \in 1 .. n + 1 : k \in 1 .. n \/ k = n + 1
  OBVIOUS
<1>3. CASE entries[p] = Plain
  BY <1>1, <1>2, <1>3 DEF AskedFirst, Ask
<1>4. CASE entries[p] # Plain
  <2>1. PICK r : r = [player |-> p, property |-> entries[p]]
    OBVIOUS
  <2>2. r \in Asks /\ r.player = p /\ r.property = entries[r.player]
    BY <2>1 DEF Asks
  <2>3. PICK more : more = Append(requests, r)
    OBVIOUS
  <2>4. requests \in Seq(Asks)
    BY DEF AskedFirst
  <2>5. /\ more \in Seq(Asks) /\ Len(more) = Len(requests) + 1
        /\ \A k \in DOMAIN more : more[k] = r \/ (k \in DOMAIN requests /\ more[k] = requests[k])
    BY <2>2, <2>3, <2>4, Appended
  <2>6. /\ \A k \in DOMAIN requests : k \in DOMAIN more /\ more[k] = requests[k]
        /\ \E k \in DOMAIN more : more[k] = r
    BY <2>3, <2>4
  <2>7. \A i \in DOMAIN more : more[i].property = entries[more[i].player]
    BY <2>2, <2>5 DEF AskedFirst
  <2>8. ASSUME NEW k \in 1 .. n + 1, entries[Players[k]] # Plain
        PROVE  \E i \in DOMAIN more : more[i].player = Players[k]
    <3>1. CASE k = n + 1
      BY <1>1, <2>2, <2>6, <3>1
    <3>2. CASE k \in 1 .. n
      BY <2>6, <2>8, <3>2 DEF AskedFirst
    <3> QED
      BY <1>2, <3>1, <3>2
  <2>9. Ask(requests, entries, Players[n + 1]) = more
    BY <1>1, <1>4, <2>1, <2>3 DEF Ask
  <2> QED
    BY <2>5, <2>7, <2>8, <2>9 DEF AskedFirst
<1> QED
  BY <1>3, <1>4

\* A report asks for every player whose entry carries a property, and for
\* that property.
LEMMA RequestsAre ==
  ASSUME NEW entries \in [Listed -> Values]
  PROVE  /\ Requests(entries) \in Seq(Asks)
         /\ \A i \in DOMAIN Requests(entries) :
              Requests(entries)[i].property = entries[Requests(entries)[i].player]
         /\ \A p \in Listed : entries[p] # Plain =>
              \E i \in DOMAIN Requests(entries) : Requests(entries)[i].player = p
<1>1. PICK f : IsAsking(f, entries) /\ Requests(entries) = f[Len(Players)]
  BY AskingExists
<1>2. PICK N \in Nat : N = Len(Players)
  BY PlayersAssumption
<1>3. /\ f[0] = <<>>
      /\ \A n \in Nat : n + 1 <= N => f[n + 1] = Ask(f[n], entries, Players[n + 1])
  <2>1. 0 \in 0 .. N
    OBVIOUS
  <2>2. ASSUME NEW n \in Nat, n + 1 <= N
        PROVE  f[n + 1] = Ask(f[n], entries, Players[n + 1])
    <3>1. n + 1 \in 0 .. N /\ n + 1 # 0 /\ (n + 1) - 1 = n
      BY <2>2
    <3> QED
      BY <1>1, <1>2, <3>1 DEF IsAsking
  <2> QED
    BY <1>1, <1>2, <2>1, <2>2 DEF IsAsking
<1> DEFINE S == {n \in Nat : n <= N => AskedFirst(f[n], entries, n)}
<1>4. 0 \in S
  <2>1. <<>> \in Seq(Asks) /\ DOMAIN <<>> = {} /\ \A k \in 1 .. 0 : FALSE
    BY EmptySeqs
  <2> QED
    BY <1>3, <2>1 DEF AskedFirst
<1>5. ASSUME NEW n \in Nat, n \in S PROVE n + 1 \in S
  <2>1. SUFFICES ASSUME n + 1 <= N PROVE AskedFirst(f[n + 1], entries, n + 1)
    OBVIOUS
  <2>2. AskedFirst(f[n], entries, n) /\ n + 1 \in 1 .. Len(Players)
    BY <1>2, <1>5, <2>1
  <2> QED
    BY <1>3, <2>1, <2>2, AskOneMore
<1> HIDE DEF S
<1>6. Nat \subseteq S
  BY <1>4, <1>5, Induct
<1>7. AskedFirst(f[N], entries, N)
  BY <1>6 DEF S
<1>8. \A p \in Listed : \E k \in 1 .. N : Players[k] = p
  BY <1>2, PlayersAssumption DEF Listed, ToSet
<1> QED
  BY <1>1, <1>2, <1>7, <1>8 DEF AskedFirst

\* Once the first request is taken, what it was of has been seen.
LEMMA AnsweredTail ==
  ASSUME NEW requests \in Seq(Asks), requests # <<>>, NEW p, NEW seen, NEW x,
         Answered(p, requests, seen, x)
  PROVE  Answered(p, Tail(requests),
                  IF Head(requests).player = p THEN {Head(requests).property} ELSE seen, x)
<1>1. PICK n \in Nat : n = Len(requests) /\ n >= 1
  OBVIOUS
<1>2. PICK rest, first : rest = Tail(requests) /\ first = Head(requests)
  OBVIOUS
<1>3. /\ DOMAIN requests = 1 .. n /\ DOMAIN rest = 1 .. n - 1
      /\ requests[1] = first
      /\ \A i \in 1 .. n - 1 : rest[i] = requests[i + 1]
  BY <1>1, <1>2
<1>4. PICK U, V : U = Asked(p, requests) /\ V = Asked(p, rest)
  OBVIOUS
<1>5. /\ U \subseteq 1 .. n /\ V \subseteq 1 .. n - 1
      /\ \A i \in 1 .. n : i \in U <=> requests[i].player = p
      /\ \A i \in 1 .. n - 1 : i \in V <=> requests[i + 1].player = p
  BY <1>3, <1>4 DEF Asked
<1>6. /\ \A i \in V : i + 1 \in U
      /\ \A j \in U : j # 1 => j - 1 \in V
      /\ 1 \in U <=> first.player = p
  <2>1. \A i \in 1 .. n - 1 : i + 1 \in 1 .. n
    BY <1>1
  <2>2. \A j \in 1 .. n : j # 1 => j - 1 \in 1 .. n - 1 /\ (j - 1) + 1 = j
    BY <1>1
  <2>3. 1 \in 1 .. n
    BY <1>1
  <2> QED
    BY <1>3, <1>5, <2>1, <2>2, <2>3
<1>7. PICK now : now = IF first.player = p THEN {first.property} ELSE seen
  OBVIOUS
<1>8. CASE V = {}
  <2>1. CASE U = {}
    <3>1. seen = {x} /\ first.player # p
      BY <1>4, <1>6, <2>1 DEF Answered
    <3> QED
      BY <1>2, <1>4, <1>7, <1>8, <3>1 DEF Answered
  <2>2. CASE U # {}
    <3>1. U = {1} /\ first.player = p
      BY <1>6, <1>8, <2>2
    <3>2. requests[1].property = x
      BY <1>4, <2>2, <3>1 DEF Answered, Due
    <3> QED
      BY <1>2, <1>3, <1>4, <1>8, <3>1, <3>2 DEF Answered
  <2> QED
    BY <2>1, <2>2
<1>9. CASE V # {}
  <2>1. PICK i \in U : requests[i].property = x /\ \A j \in U : j <= i
    BY <1>4, <1>6, <1>9 DEF Answered, Due
  <2>2. i # 1
    <3>1. PICK j \in V : j \in 1 .. n - 1
      BY <1>5, <1>9
    <3> QED
      BY <1>6, <2>1, <3>1
  <2>3. i - 1 \in V /\ i \in 1 .. n
    BY <1>5, <1>6, <2>2
  <2>4. rest[i - 1].property = x
    BY <1>3, <1>5, <2>1, <2>3
  <2>5. \A j \in V : j <= i - 1
    BY <1>5, <1>6, <2>1, <2>3
  <2>6. Due(p, rest, x)
    BY <1>4, <2>3, <2>4, <2>5 DEF Due
  <2> QED
    BY <1>2, <1>4, <1>9, <2>6 DEF Answered
<1> QED
  BY <1>8, <1>9

\* What is asked last is due.
LEMMA AnsweredConcat ==
  ASSUME NEW a \in Seq(Asks), NEW b \in Seq(Asks), NEW p, NEW x, NEW seen,
         Asked(p, b) # {}, \A i \in Asked(p, b) : b[i].property = x
  PROVE  Answered(p, a \o b, seen, x)
<1>1. PICK m, n \in Nat : m = Len(a) /\ n = Len(b)
  OBVIOUS
<1>2. PICK all : all = a \o b
  OBVIOUS
<1>3. /\ DOMAIN all = 1 .. m + n /\ DOMAIN b = 1 .. n
      /\ \A i \in 1 .. n : all[m + i] = b[i]
      /\ \A i \in 1 .. m + n : i > m => all[i] = b[i - m]
  <2>1. all \in Seq(Asks) /\ Len(all) = m + n
    BY <1>1, <1>2
  <2>2. \A i \in 1 .. n : all[m + i] = b[i]
    BY <1>1, <1>2
  <2>3. \A i \in 1 .. m + n : i > m => all[i] = b[i - m]
    BY <1>1, <1>2
  <2> QED
    BY <1>1, <2>1, <2>2, <2>3
<1>4. PICK T : T = Asked(p, b)
  OBVIOUS
<1>5. T \in SUBSET (1 .. n) /\ T # {}
  BY <1>3, <1>4 DEF Asked
<1>6. PICK k \in T : \A i \in T : i <= k
  BY <1>5, MaxOfSome
<1>7. k \in 1 .. n /\ b[k].player = p /\ b[k].property = x
  BY <1>4, <1>5 DEF Asked
<1>8. PICK h : h = m + k
  OBVIOUS
<1>9. h \in 1 .. m + n /\ all[h] = b[k]
  BY <1>3, <1>7, <1>8
<1>10. ASSUME NEW j \in Asked(p, all) PROVE j <= h
  <2>1. j \in 1 .. m + n /\ all[j].player = p
    BY <1>3 DEF Asked
  <2>2. CASE j <= m
    BY <1>7, <1>8, <2>1, <2>2
  <2>3. CASE j > m
    <3>1. j - m \in 1 .. n /\ b[j - m].player = p
      BY <1>3, <2>1, <2>3
    <3>2. j - m \in T
      BY <1>3, <1>4, <3>1 DEF Asked
    <3> QED
      BY <1>6, <1>7, <1>8, <2>1, <3>2
  <2> QED
    BY <2>1, <2>2, <2>3
<1>11. h \in Asked(p, all) /\ all[h].property = x
  BY <1>3, <1>7, <1>9 DEF Asked
<1>12. Due(p, all, x)
  BY <1>10, <1>11 DEF Due
<1> QED
  BY <1>2, <1>11, <1>12 DEF Answered

-----------------------------------------------------------------------------
(* Each step of the skins.                                                 *)

LEMMA Beginnings ==
  /\ [p \in Listed |-> Plain] \in [Listed -> Values]
  /\ [p \in Listed |-> Default] \in [Listed -> Shown]
  /\ NewWorker \in [requests : Seq(Asks), seen : [Listed -> SUBSET Values], updates : Seq(Updates)]
  /\ NoFetch \in [out : BOOLEAN, updates : Seq(Updates)]
<1>1. Plain \in Values /\ Default \in Shown
  BY DEF Values, Shown, Default
<1>2. <<>> \in Seq(Asks) /\ <<>> \in Seq(Updates)
  BY EmptySeqs
<1> QED
  BY <1>1, <1>2 DEF NewWorker, NoFetch

LEMMA StartWorkerStep == ASSUME SkinsInv, StartWorker PROVE SkinsInv'
<1>1. SkinsType'
  BY Beginnings DEF SkinsInv, SkinsType, StartWorker
<1>2. ASSUME NEW p \in Listed
      PROVE  worker'.seen[p] = {} /\ reported'[p] = Plain
  BY DEF StartWorker, NewWorker
<1>3. OwnFetch(own')
  BY DEF SkinsInv, StartWorker
<1> QED
  BY <1>1, <1>2, <1>3 DEF SkinsInv, SeenStands, Answered, Due

LEMMA NothingFiled ==
  ASSUME reported' = [p \in Listed |-> Plain], worker' = NewWorker, own' = NoFetch,
         skins' = [p \in Listed |-> Default]
  PROVE  SkinsInv'
<1>1. SkinsType'
  BY Beginnings DEF SkinsType
<1>2. ASSUME NEW p \in Listed
      PROVE  worker'.seen[p] = {} /\ reported'[p] = Plain
  BY DEF NewWorker
<1>3. OwnFetch(own')
  BY DEF OwnFetch, NoFetch
<1> QED
  BY <1>1, <1>2, <1>3 DEF SkinsInv, SeenStands, Answered, Due

LEMMA SkinsGoneStep == ASSUME SkinsGone PROVE SkinsInv'
BY NothingFiled DEF SkinsGone

LEMMA SkinsInitHolds == SkinsInit => SkinsInv
<1>1. SUFFICES ASSUME SkinsInit PROVE SkinsInv
  OBVIOUS
<1>2. SkinsType
  BY <1>1, Beginnings DEF SkinsType, SkinsInit
<1>3. ASSUME NEW p \in Listed
      PROVE  worker.seen[p] = {} /\ reported[p] = Plain
  BY <1>1 DEF NewWorker, SkinsInit
<1>4. OwnFetch(own)
  BY <1>1 DEF OwnFetch, NoFetch, SkinsInit
<1> QED
  BY <1>2, <1>3, <1>4 DEF SkinsInv, SeenStands, Answered, Due

LEMMA SkinsStayStep == ASSUME SkinsInv, UNCHANGED skinVars PROVE SkinsInv'
BY DEF SkinsInv, skinVars, SkinsType

\* A step of the own fetch alone.
LEMMA OwnAlone ==
  ASSUME SkinsInv, own' \in [out : BOOLEAN, updates : Seq(Updates)], OwnFetch(own'),
         UNCHANGED <<reported, worker, skins>>
  PROVE  SkinsInv'
BY DEF SkinsInv, SkinsType

LEMMA StartOwnFetchStep == ASSUME SkinsInv, StartOwnFetch PROVE SkinsInv'
<1>1. CASE HasAccount
  <2>1. PICK f : f = [NoFetch EXCEPT !.out = TRUE]
    OBVIOUS
  <2>2. f \in [out : BOOLEAN, updates : Seq(Updates)] /\ OwnFetch(f)
    BY <1>1, <2>1, EmptySeqs DEF NoFetch, OwnFetch
  <2> QED
    BY <1>1, <2>1, <2>2, OwnAlone DEF StartOwnFetch
<1>2. CASE ~ HasAccount
  BY <1>2, SkinsStayStep DEF StartOwnFetch, skinVars
<1> QED
  BY <1>1, <1>2

LEMMA FetchOwnStep == ASSUME SkinsInv, FetchOwn PROVE SkinsInv'
<1>1. HasAccount
  BY DEF SkinsInv, OwnFetch, FetchOwn
<1>2. PICK u : u = [player |-> Me, of |-> "profile", got |-> TRUE]
  OBVIOUS
<1>3. u \in Updates /\ <<u>> \in Seq(Updates)
  <2>1. u \in Updates
    BY <1>2 DEF Updates, Values
  <2> QED
    BY <2>1
<1>4. own' = NoFetch \/ own' = [out |-> FALSE, updates |-> <<u>>]
  BY <1>2 DEF FetchOwn
<1>5. own' \in [out : BOOLEAN, updates : Seq(Updates)] /\ OwnFetch(own')
  <2>1. CASE own' = NoFetch
    BY <2>1, Beginnings DEF OwnFetch, NoFetch
  <2>2. CASE own' = [out |-> FALSE, updates |-> <<u>>]
    <3>1. own' \in [out : BOOLEAN, updates : Seq(Updates)]
      BY <1>3, <2>2
    <3>2. own'.out = FALSE /\ own'.updates = <<u>>
      BY <2>2
    <3> QED
      BY <1>1, <1>2, <3>1, <3>2 DEF OwnFetch
  <2> QED
    BY <1>4, <2>1, <2>2
<1> QED
  BY <1>5, OwnAlone DEF FetchOwn

LEMMA ReportStep ==
  ASSUME SkinsInv, NEW p \in Listed, NEW property \in Properties \cup {Plain}, Report(p, property)
  PROVE  SkinsInv'
<1>1. PICK w : w = worker
  OBVIOUS
<1>2. PICK now : now = [reported EXCEPT ![p] = property]
  OBVIOUS
<1>3. now \in [Listed -> Values] /\ reported' = now
  BY <1>2 DEF SkinsInv, SkinsType, Report, Values
<1>4. PICK more : more = Requests(now)
  OBVIOUS
<1>5. /\ more \in Seq(Asks)
      /\ \A i \in DOMAIN more : more[i].property = now[more[i].player]
      /\ \A q \in Listed : now[q] # Plain => \E i \in DOMAIN more : more[i].player = q
  BY <1>3, <1>4, RequestsAre
<1>6. w \in [requests : Seq(Asks), seen : [Listed -> SUBSET Values], updates : Seq(Updates)]
  BY <1>1 DEF SkinsInv, SkinsType
<1>7. PICK waiting \in Seq(Asks) : waiting = w.requests
  BY <1>6
<1>8. PICK all : all = waiting \o more
  OBVIOUS
<1>9. all \in Seq(Asks)
  BY <1>5, <1>8, Concat
<1>10. worker' = [w EXCEPT !.requests = all]
  <2>1. Requests(reported') = more
    BY <1>3, <1>4
  <2> QED
    BY <1>1, <1>7, <1>8, <2>1 DEF Report
<1>11. /\ worker'.seen = w.seen /\ worker'.updates = w.updates /\ worker'.requests = all
       /\ worker' \in [requests : Seq(Asks), seen : [Listed -> SUBSET Values],
                       updates : Seq(Updates)]
  BY <1>6, <1>9, <1>10
<1>12. ASSUME NEW q \in Listed, now[q] # Plain
       PROVE  Answered(q, all, w.seen[q], now[q])
  <2>1. Asked(q, more) # {} /\ \A i \in Asked(q, more) : more[i].property = now[q]
    BY <1>5, <1>12 DEF Asked
  <2> QED
    BY <1>5, <1>8, <2>1, AnsweredConcat
<1>13. SkinsType'
  BY <1>3, <1>11 DEF SkinsInv, SkinsType, Report
<1>14. skins' = skins /\ own' = own
  BY DEF Report
<1>15. ASSUME NEW q \in Listed
       PROVE  SeenStands(q, worker'.seen[q], skins', worker'.updates)
  BY <1>1, <1>11, <1>14 DEF SkinsInv
<1> QED
  BY <1>3, <1>11, <1>12, <1>13, <1>14, <1>15 DEF SkinsInv

LEMMA WorkStep == ASSUME SkinsInv, Work PROVE SkinsInv'
<1>1. PICK w, s : w = worker /\ s = skins
  OBVIOUS
<1>2. w \in [requests : Seq(Asks), seen : [Listed -> SUBSET Values], updates : Seq(Updates)]
  BY <1>1 DEF SkinsInv, SkinsType
<1>3. PICK requests \in Seq(Asks), updates \in Seq(Updates), seen \in [Listed -> SUBSET Values] :
        requests = w.requests /\ updates = w.updates /\ seen = w.seen
  BY <1>2
<1>4. requests # <<>>
  BY <1>1, <1>3 DEF Work
<1>5. PICK r, rest : r = Head(requests) /\ rest = Tail(requests)
  OBVIOUS
<1>6. r \in Asks /\ rest \in Seq(Asks)
  BY <1>4, <1>5
<1>7. PICK p \in Listed, y \in Values : p = r.player /\ y = r.property
  BY <1>6 DEF Asks
<1>8. PICK now : now = [seen EXCEPT ![p] = {y}]
  OBVIOUS
<1>9. /\ now \in [Listed -> SUBSET Values]
      /\ \A q \in Listed : now[q] = IF p = q THEN {y} ELSE seen[q]
  BY <1>8
<1>10. \/ /\ y \in seen[p]
          /\ worker' = [w EXCEPT !.requests = rest, !.seen = now]
       \/ \E got \in BOOLEAN :
            worker' = [w EXCEPT !.requests = rest, !.seen = now,
                         !.updates = Append(updates, [player |-> p, of |-> y, got |-> got])]
  <2>1. PICK taken : taken = [w EXCEPT !.requests = rest, !.seen = now]
    OBVIOUS
  <2>2. taken = [w EXCEPT !.requests = Tail(@), !.seen[p] = Remember(r)]
    BY <1>2, <1>3, <1>5, <1>7, <1>8, <2>1 DEF Remember
  <2>3. taken.updates = updates
    BY <1>2, <1>3, <2>1
  <2>4. \/ y \in seen[p] /\ worker' = taken
        \/ \E got \in BOOLEAN :
             worker' = [taken EXCEPT !.updates =
                          Append(@, [player |-> p, of |-> y, got |-> got])]
    BY <1>1, <1>3, <1>5, <1>7, <2>2 DEF Work
  <2> QED
    BY <1>2, <2>1, <2>3, <2>4
<1>11. ASSUME NEW q \in Listed, reported[q] # Plain
       PROVE  Answered(q, rest, now[q], reported[q])
  <2>1. Answered(q, requests, seen[q], reported[q])
    BY <1>1, <1>3, <1>11 DEF SkinsInv
  <2>2. Answered(q, Tail(requests),
                 IF Head(requests).player = q THEN {Head(requests).property} ELSE seen[q],
                 reported[q])
    BY <1>4, <2>1, AnsweredTail
  <2> QED
    BY <1>5, <1>7, <1>9, <2>2
<1>12. \A q \in Listed : SeenStands(q, seen[q], s, updates)
  BY <1>1, <1>3 DEF SkinsInv
<1>13. PICK us : us = worker'.updates
  OBVIOUS
<1>14. /\ worker'.requests = rest /\ worker'.seen = now
       /\ us \in Seq(Updates)
       /\ worker' \in [requests : Seq(Asks), seen : [Listed -> SUBSET Values],
                       updates : Seq(Updates)]
       /\ \A q \in Listed : SeenStands(q, now[q], s, us)
  <2>1. CASE y \in seen[p] /\ worker' = [w EXCEPT !.requests = rest, !.seen = now]
    <3>1. us = updates
      BY <1>2, <1>3, <1>13, <2>1
    <3>2. seen[p] = {y}
      BY <1>12, <2>1 DEF SeenStands
    <3>3. \A q \in Listed : now[q] = seen[q]
      BY <1>9, <3>2
    <3> QED
      BY <1>2, <1>6, <1>9, <1>12, <2>1, <3>1, <3>3
  <2>2. CASE \E got \in BOOLEAN :
            worker' = [w EXCEPT !.requests = rest, !.seen = now,
                         !.updates = Append(updates, [player |-> p, of |-> y, got |-> got])]
    <3>1. PICK u \in Updates : /\ u.player = p /\ u.of = y
                               /\ worker' = [w EXCEPT !.requests = rest, !.seen = now,
                                               !.updates = Append(updates, u)]
      BY <2>2 DEF Updates
    <3>2. us = Append(updates, u) /\ us \in Seq(Updates)
      BY <1>2, <1>13, <3>1
    <3>3. ASSUME NEW q \in Listed
          PROVE  File(s, us)[q].of = IF p = q THEN y ELSE File(s, updates)[q].of
      BY <3>1, <3>2, FileAppend
    <3>4. \A q \in Listed : SeenStands(q, now[q], s, us)
      BY <1>9, <1>12, <3>3 DEF SeenStands
    <3> QED
      BY <1>2, <1>6, <1>9, <3>1, <3>2, <3>4
  <2> QED
    BY <1>10, <2>1, <2>2
<1>15. reported' = reported /\ own' = own /\ skins' = s
  BY <1>1 DEF Work
<1>16. SkinsType' /\ OwnFetch(own')
  BY <1>1, <1>14, <1>15 DEF SkinsInv, SkinsType
<1> QED
  BY <1>11, <1>13, <1>14, <1>15, <1>16 DEF SkinsInv

LEMMA DrainSkinsStep == ASSUME SkinsInv, DrainSkins PROVE SkinsInv'
<1>1. PICK w, f, s : w = worker /\ f = own /\ s = skins
  OBVIOUS
<1>2. /\ w \in [requests : Seq(Asks), seen : [Listed -> SUBSET Values], updates : Seq(Updates)]
      /\ f \in [out : BOOLEAN, updates : Seq(Updates)] /\ OwnFetch(f)
      /\ s \in [Listed -> Shown]
  BY <1>1 DEF SkinsInv, SkinsType
<1>3. PICK us, vs \in Seq(Updates) : us = w.updates /\ vs = f.updates
  BY <1>2
<1>4. PICK all : all = us \o vs
  OBVIOUS
<1>5. all \in Seq(Updates)
  BY <1>4, Concat
<1>6. PICK filed : filed = File(s, all)
  OBVIOUS
<1>7. filed \in [Listed -> Shown]
  BY <1>2, <1>5, <1>6, FileType
<1>8. ASSUME NEW p \in Listed
      PROVE  filed[p].of = File(s, us)[p].of \/ filed[p].of \in Own(p)
  <2>1. CASE vs = <<>>
    BY <1>3, <1>4, <1>6, <2>1
  <2>2. CASE vs # <<>>
    <3>1. PICK u : u = [player |-> Me, of |-> "profile", got |-> TRUE]
      OBVIOUS
    <3>2. HasAccount /\ vs = <<u>>
      BY <1>2, <1>3, <2>2, <3>1 DEF OwnFetch
    <3>3. u \in Updates
      BY <3>1 DEF Updates, Values
    <3>4. all = Append(us, u)
      BY <1>4, <3>2
    <3>5. filed[p].of = IF u.player = p THEN u.of ELSE File(s, us)[p].of
      BY <1>6, <3>3, <3>4, FileAppend
    <3> QED
      BY <3>1, <3>2, <3>5 DEF Own
  <2> QED
    BY <2>1, <2>2
<1>9. /\ worker' = [w EXCEPT !.updates = <<>>] /\ own' = [f EXCEPT !.updates = <<>>]
      /\ skins' = filed /\ reported' = reported
  BY <1>1, <1>3, <1>4, <1>6 DEF DrainSkins
<1>10. /\ worker'.requests = w.requests /\ worker'.seen = w.seen /\ worker'.updates = <<>>
       /\ worker' \in [requests : Seq(Asks), seen : [Listed -> SUBSET Values],
                       updates : Seq(Updates)]
       /\ own' \in [out : BOOLEAN, updates : Seq(Updates)] /\ OwnFetch(own')
  BY <1>2, <1>9, EmptySeqs DEF OwnFetch
<1>11. ASSUME NEW p \in Listed PROVE SeenStands(p, w.seen[p], filed, <<>>)
  <2>1. File(filed, <<>>)[p].of = filed[p].of
    BY FileEmpty
  <2>2. SeenStands(p, w.seen[p], s, us)
    BY <1>1, <1>3 DEF SkinsInv
  <2> QED
    BY <1>8, <2>1, <2>2 DEF SeenStands
<1>12. SkinsType'
  BY <1>7, <1>9, <1>10 DEF SkinsInv, SkinsType
<1>13. ASSUME NEW p \in Listed, reported[p] # Plain
       PROVE  Answered(p, w.requests, w.seen[p], reported[p])
  BY <1>1, <1>13 DEF SkinsInv
<1> QED
  BY <1>9, <1>10, <1>11, <1>12, <1>13 DEF SkinsInv

-----------------------------------------------------------------------------
(* The client.                                                             *)

ClientInv == ListInv /\ SkinsInv

\* What ends a run leaves no screen and nothing of the skins.
LEMMA GoneStep == ASSUME ClientInv, Closed, SkinsGone PROVE ClientInv'
BY ClosedStep, SkinsGoneStep DEF ClientInv

LEMMA ClientStep == ASSUME ClientInv, [Next]_vars PROVE ClientInv'
<1> USE DEF ClientInv
<1>1. CASE \E flag \in BOOLEAN : Start(flag)
  BY <1>1, ListStays, SkinsStayStep DEF Start
<1>2. CASE Stop
  BY <1>2, GoneStep DEF Stop
<1>3. CASE Frame
  <2>1. \/ DrainSkins /\ PumpPings
        \/ Closed /\ SkinsGone
    BY <1>3 DEF Frame, Continues
  <2> QED
    BY <2>1, DrainSkinsStep, PumpPingsStep, GoneStep
<1>4. CASE \E ofView \in BOOLEAN : Slides(ofView) \/ Toggles(ofView)
  <2>1. PICK ofView \in BOOLEAN : Slides(ofView) \/ Toggles(ofView)
    BY <1>4
  <2>2. \/ UNCHANGED listVars /\ UNCHANGED skinVars
        \/ Closed /\ SkinsGone
    BY <2>1 DEF Slides, Toggles, Continues, ScreenStays, SkinsStay
  <2> QED
    BY <2>2, ListStays, SkinsStayStep, GoneStep
<1>5. CASE OpensList
  BY <1>5, OpenMultiplayerStep, SkinsStayStep DEF OpensList
<1>6. CASE ClosesList
  BY <1>6, ClosedStep, SkinsStayStep DEF ClosesList
<1>7. CASE OnList
  <2>1. UNCHANGED skinVars
    BY <1>7 DEF OnList
  <2>2. \/ \E i \in Rows : Select(i)
        \/ \E step \in {-1, 1} : Arrow(step)
        \/ \E kind \in {"add", "edit", "delete", "direct"} : OpenSub(kind)
        \/ Cancel
    BY <1>7 DEF OnList
  <2>3. ListInv'
    BY <2>2, SelectStep, ArrowStep, OpenSubStep, CancelStep
  <2> QED
    BY <2>1, <2>3, SkinsStayStep
<1>8. CASE EditsList
  <2>1. UNCHANGED skinVars
    BY <1>8 DEF EditsList
  <2>2. \/ Refresh
        \/ \E step \in {-1, 1} : Move(step)
        \/ \E server \in Servers : ConfirmForm(server)
        \/ ConfirmDelete
    BY <1>8 DEF EditsList
  <2>3. ListInv'
    BY <2>2, RefreshStep, MoveStep, ConfirmFormStep, ConfirmDeleteStep
  <2> QED
    BY <2>1, <2>3, SkinsStayStep
<1>9. CASE DirectClosed
  <2>1. \/ Cancel /\ UNCHANGED skinVars
        \/ Closed /\ SkinsGone
    BY <1>9 DEF DirectClosed, Continues, SkinsStay
  <2> QED
    BY <2>1, CancelStep, SkinsStayStep, GoneStep
<1>10. CASE Join
  <2>1. \/ Closed /\ StartWorker
        \/ Closed /\ SkinsGone
        \/ UNCHANGED listVars /\ UNCHANGED skinVars
        \/ Cancel /\ UNCHANGED skinVars
    BY <1>10 DEF Join, Continues, ScreenStays, SkinsStay
  <2> QED
    BY <2>1, ClosedStep, StartWorkerStep, GoneStep, ListStays, CancelStep, SkinsStayStep
<1>11. CASE LoggedIn
  BY <1>11, ListStays, StartOwnFetchStep DEF LoggedIn
<1>12. CASE ListChanges
  BY <1>12, ListStays, ReportStep DEF ListChanges
<1>13. CASE Leave
  BY <1>13, ListStays, SkinsStayStep DEF Leave
<1>14. CASE DebounceEnds
  BY <1>14, ListStays, SkinsStayStep DEF DebounceEnds
<1>15. CASE Answers
  BY <1>15, PingStep, SkinsStayStep DEF Answers
<1>16. CASE Fetches
  BY <1>16, ListStays, WorkStep, FetchOwnStep DEF Fetches
<1>17. CASE UNCHANGED vars
  BY <1>17, ListStays, SkinsStayStep DEF vars
<1> QED
  BY <1>1, <1>2, <1>3, <1>4, <1>5, <1>6, <1>7, <1>8, <1>9, <1>10, <1>11, <1>12, <1>13,
     <1>14, <1>15, <1>16, <1>17 DEF Next

LEMMA ClientInvShows == ClientInv => SkinsSettle
<1>1. SUFFICES ASSUME ClientInv, Quiet, NEW p \in Listed, reported[p] # Plain
               PROVE  skins[p].of \in {reported[p]} \cup Own(p)
  BY DEF SkinsSettle, Own
<1>2. worker.requests = <<>> /\ worker.updates = <<>>
  BY <1>1 DEF Quiet
<1>3. Asked(p, worker.requests) = {}
  BY <1>2, EmptySeqs DEF Asked
<1>4. worker.seen[p] = {reported[p]}
  BY <1>1, <1>3 DEF ClientInv, SkinsInv, Answered
<1>5. File(skins, worker.updates)[p].of \in {reported[p]} \cup Own(p)
  BY <1>1, <1>4 DEF ClientInv, SkinsInv, SeenStands
<1> QED
  BY <1>2, <1>5, FileEmpty

\* The list, its pings and the skins stay in step with what is still on its
\* way, in every state of the client.
THEOREM Invariance == Spec => []ClientInv
<1>1. Init => ClientInv
  BY ListInitHolds, SkinsInitHolds DEF Init, ClientInv
<1>2. ClientInv /\ [Next]_vars => ClientInv'
  BY ClientStep
<1> QED
  BY <1>1, <1>2, PTL DEF Spec

\* The selection and the sub-screen's row index the list, whatever is added,
\* edited, moved, deleted or refreshed under them.
THEOREM RowsDoExist == Spec => []RowsExist
<1>1. ClientInv => RowsExist
  BY ListInvShows DEF ClientInv
<1> QED
  BY <1>1, Invariance, PTL

\* A row shows the answer of its own server, through every refresh whose
\* answers are on their way.
THEOREM AnswersFindRows == Spec => []AnswersFindTheirRow
<1>1. ClientInv => AnswersFindTheirRow
  BY ListInvShows DEF ClientInv
<1> QED
  BY <1>1, Invariance, PTL

\* The skin that is filed is that of the last report's property, or the own
\* profile's, once nothing is on its way.
THEOREM SkinsDoSettle == Spec => []SkinsSettle
<1>1. ClientInv => SkinsSettle
  BY ClientInvShows
<1> QED
  BY <1>1, Invariance, PTL
=============================================================================
