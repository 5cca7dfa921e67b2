------------------------------ MODULE Windows ------------------------------
(***************************************************************************)
(* The window a server has opened (crates/oxide-game/src/windows.rs and    *)
(* the session's window arms), clicked by a player and changed by the      *)
(* server at the same time.                                                *)
(*                                                                         *)
(* The session runs each click on its own copy before the packet goes out, *)
(* with the clicked stack as an echo.  The server runs the click on its    *)
(* copy: when the echo is what its own click answered it accepts, and      *)
(* sends no slots; otherwise it rejects, sends the window whole, and hears *)
(* no click until the rejection is acknowledged.                           *)
(*                                                                         *)
(* The server is external: the container is SlotClick's, the exchange is   *)
(* the one the session's arms are written against.                         *)
(***************************************************************************)
EXTENDS SlotClick, Functions

CONSTANTS Layout,      \* the slots of a window: its own, then the player's
          Declared,    \* the slots Open Window counts
          Reach,       \* the slots the player clicks
          Chest,       \* what the slots hold at first
          Changes,     \* the stacks the server may put in a slot
          MaxGestures, \* bound: clicks and drags of the player
          MaxUses,     \* bound: windows opened
          MaxChanges   \* bound: slots the server changes, windows it closes

LayoutSlots == 1 .. Layout
DeclaredSlots == 1 .. Declared

ASSUME WindowsAssumption ==
  /\ Declared \in Nat \ {0} /\ Layout \in Nat /\ Declared <= Layout
  /\ Reach \subseteq LayoutSlots
  /\ Chest \in [LayoutSlots -> StacksOrEmpty] /\ Changes \subseteq StacksOrEmpty
  /\ MaxGestures \in Nat /\ MaxUses \in Nat /\ MaxChanges \in Nat

VARIABLES
  \* the session
  open,      \* the window held, 0 when none is
  view,      \* its slots, the cursor and the drag
  action,    \* the number of the last click
  batch,     \* the clicks of a drag the screen has sent and the session not yet read
  \* the server
  serving,   \* the window the player has open there, 0 when none is
  held,      \* its slots, the cursor and the drag there
  locked,    \* the rejected click that is not acknowledged, 0 when none is
  \* the connection
  toServer, toClient,
  \* the bounds
  gestures, uses, changes,
  \* a history
  sent,      \* how often the server has sent each slot by itself
  apart      \* what has happened that the prediction does not cover

client == <<open, view, action, batch>>
server == <<serving, held, locked>>
bounds == <<gestures, uses, changes>>
history == <<sent, apart>>
windowVars == <<client, server, toServer, toClient, bounds, history>>

-----------------------------------------------------------------------------
(* The prediction *)

\* The slot is one the state carries.
Carried(c, slot) == slot \in DOMAIN c.slots

NoContainer == [slots |-> [s \in DeclaredSlots |-> Empty], cursor |-> Empty, drag |-> NoDrag]
ResetDrag(c) == [c EXCEPT !.drag = NoDrag]

PredictThrow(c, button) ==
  IF button = "right" /\ c.cursor.count > 1 THEN [c EXCEPT !.cursor = Less(@, 1)]
                                            ELSE [c EXCEPT !.cursor = Empty]

\* MUTANT of Moves: the half taken is rounded down.
MovesHalfDown(stack, cursor, button) ==
  IF button = "right" /\ cursor = Empty THEN -(stack.count \div 2)
  ELSE CASE stack = Empty -> IF button = "left" THEN cursor.count ELSE Least(1, cursor.count)
         [] stack # Empty /\ cursor = Empty -> -stack.count
         [] stack # Empty /\ cursor # Empty ->
              Least(IF button = "left" THEN cursor.count ELSE 1, MaxStack - stack.count)

\* What a pickup moves from the cursor to the slot; a negative number lifts.
Moves(stack, cursor, button) ==
  CASE stack = Empty -> IF button = "left" THEN cursor.count ELSE Least(1, cursor.count)
    [] stack # Empty /\ cursor = Empty ->
         IF button = "left" THEN -stack.count ELSE -((stack.count + 1) \div 2)
    [] stack # Empty /\ cursor # Empty ->
         Least(IF button = "left" THEN cursor.count ELSE 1, MaxStack - stack.count)

PredictPickup(c, slot, button) ==
  LET stack == c.slots[slot]
      n == Moves(stack, c.cursor, button)
      kind == IF stack = Empty THEN c.cursor.kind ELSE stack.kind
  IN  IF Empty \notin {stack, c.cursor} /\ stack.kind # c.cursor.kind
      THEN [c EXCEPT !.slots[slot] = c.cursor, !.cursor = stack]
      ELSE [c EXCEPT !.slots[slot] = Of(kind, stack.count + n), !.cursor = Of(kind, c.cursor.count - n)]

PredictDrop(c, slot, button) ==
  IF c.cursor # Empty \/ c.slots[slot] = Empty THEN c
  ELSE [c EXCEPT !.slots[slot] = IF button = "right" \/ @.count <= 1 THEN Empty ELSE Less(@, 1)]

\* MUTANT of FinishDrag: the shares are given out and the cursor keeps them.
FinishDragUncharged(c) ==
  IF c.cursor.count < Cardinality(c.drag.over) THEN c
  ELSE [c EXCEPT !.slots = [s \in DOMAIN c.slots |->
          IF s \in c.drag.over THEN Of(c.cursor.kind, ComputeStackSize(c.drag, c.cursor, c.slots[s]))
                               ELSE c.slots[s]]]

\* The covered slots take their shares, whatever they hold by now.
FinishDrag(c) ==
  IF c.cursor.count < Cardinality(c.drag.over) THEN c
  ELSE [c EXCEPT !.slots = [s \in DOMAIN c.slots |->
                              IF s \in c.drag.over
                              THEN Of(c.cursor.kind, ComputeStackSize(c.drag, c.cursor, c.slots[s]))
                              ELSE c.slots[s]],
                 !.cursor = Less(@, Total(Added(c, c.drag.over)))]

PredictDrag(c, click) ==
  IF c.cursor = Empty \/ c.drag.open # (click.mode # "begin") THEN ResetDrag(c)
  ELSE CASE click.mode = "begin" -> [c EXCEPT !.drag = BeginDrag(click.share)]
         [] click.mode = "cover" ->
              IF /\ Carried(c, click.slot)
                 /\ CanAddItemToSlot(c.slots[click.slot], c.cursor)
                 /\ c.cursor.count > Cardinality(c.drag.over)
              THEN [c EXCEPT !.drag.over = @ \cup {click.slot}] ELSE c
         [] click.mode = "finish" ->
              ResetDrag(IF c.drag.over = {} THEN c ELSE FinishDrag(c))

PredictClick(c, click) ==
  CASE click.mode \in {"begin", "cover", "finish"} -> PredictDrag(c, click)
    [] click.mode \in {"pickup", "drop"} ->
         IF c.drag.open THEN ResetDrag(c)
         ELSE IF click.mode = "pickup" /\ click.slot = NoSlot THEN PredictThrow(c, click.button)
         ELSE IF ~Carried(c, click.slot) THEN c
         ELSE IF click.mode = "pickup" THEN PredictPickup(c, click.slot, click.button)
                                       ELSE PredictDrop(c, click.slot, click.button)

Echo(c, click) ==
  IF click.mode = "pickup" /\ ~c.drag.open /\ Carried(c, click.slot) THEN c.slots[click.slot] ELSE Empty

-----------------------------------------------------------------------------
(* The gestures of the player and the clicks they send *)

Buttons == {"left", "right"}
Click(mode, slot, button, share) == [mode |-> mode, slot |-> slot, button |-> button, share |-> share]

SingleClicks ==
  {Click("pickup", s, b, "split") : s \in Reach \cup {NoSlot}, b \in Buttons}
    \cup {Click("drop", s, b, "split") : s \in Reach, b \in Buttons}

\* The drag goes out whole when the button is let go, its slots in the order
\* they were covered in.
DragClicks(covers, share) ==
  LET click(mode, slot) == Click(mode, slot, "left", share)
  IN  <<click("begin", NoSlot)>> \o [i \in DOMAIN covers |-> click("cover", covers[i])]
        \o <<click("finish", NoSlot)>>

WindowInit ==
  /\ open = 0 /\ view = NoContainer /\ action = 0 /\ batch = <<>>
  /\ serving = 0 /\ held = [slots |-> Chest, cursor |-> Empty, drag |-> NoDrag] /\ locked = 0
  /\ toServer = <<>> /\ toClient = <<>>
  /\ gestures = 0 /\ uses = 0 /\ changes = 0
  /\ sent = [s \in DeclaredSlots |-> 0] /\ apart = {}

\* A resync is cut: its rejection, or the Open Window, is read, its slots are not.
Begins(m) == m.type = "open" \/ (m.type = "confirm" /\ ~m.accepted)
InResync ==
  \E i \in DOMAIN toClient :
    toClient[i].type \in {"items", "cursor"} /\ \A j \in 1 .. i : ~Begins(toClient[j])

\* The Set Slots of a slot that are on their way.
Unread(slot) ==
  Cardinality({i \in DOMAIN toClient : toClient[i].type = "slot" /\ toClient[i].slot = slot})

\* One click on the window held: predicted, numbered and sent.
Clicks(click) ==
  /\ view' = PredictClick(view, click)
  /\ action' = action + 1
  /\ toServer' = Append(toServer, [type |-> "click", window |-> open, click |-> click,
                                   action |-> action', echo |-> Echo(view, click),
                                   touches |-> view.drag.over \cup ({click.slot} \cap DeclaredSlots),
                                   read |-> [s \in DeclaredSlots |-> sent[s] - Unread(s)]])
  /\ apart' = apart \cup (IF InResync THEN {"resync"} ELSE {})
                    \cup (IF click.slot \in LayoutSlots \ DeclaredSlots THEN {"beyond"} ELSE {})
  /\ UNCHANGED <<open, toClient, sent>>

ClickSingle ==
  /\ open # 0 /\ batch = <<>> /\ gestures < MaxGestures
  /\ \E click \in SingleClicks : Clicks(click)
  /\ gestures' = gestures + 1
  /\ UNCHANGED <<batch, server, uses, changes>>

LetGoOfDrag ==
  /\ open # 0 /\ batch = <<>> /\ gestures < MaxGestures /\ view.cursor # Empty
  /\ \E n \in 1 .. Cardinality(Reach), share \in Shares :
       \E covers \in Injection(1 .. n, Reach) :
         batch' = [i \in DOMAIN DragClicks(covers, share) |->
                     [window |-> open, click |-> DragClicks(covers, share)[i]]]
  /\ gestures' = gestures + 1
  /\ UNCHANGED <<open, view, action, server, toServer, toClient, uses, changes, history>>

\* A click on a window that is no longer held runs nothing and sends nothing.
ClickOfDrag ==
  /\ batch # <<>> /\ batch' = Tail(batch)
  /\ \/ Head(batch).window = open /\ Clicks(Head(batch).click)
     \/ Head(batch).window # open /\ UNCHANGED <<open, view, action, toServer, toClient, history>>
  /\ UNCHANGED <<server, bounds>>

\* The window leaves the state, and the carried stack with it.
Shut == open' = 0 /\ view' = NoContainer

CloseWindow ==
  /\ open # 0 /\ batch = <<>>
  /\ Shut
  /\ toServer' = Append(toServer, [type |-> "close", window |-> open])
  /\ UNCHANGED <<action, batch, server, toClient, bounds, history>>

UseBlock ==
  /\ batch = <<>> /\ uses < MaxUses /\ uses' = uses + 1
  /\ toServer' = Append(toServer, [type |-> "use", window |-> uses'])
  /\ UNCHANGED <<client, server, toClient, gestures, changes, history>>

-----------------------------------------------------------------------------
(* The packets the session reads *)

Reads(type) == toClient # <<>> /\ Head(toClient).type = type /\ toClient' = Tail(toClient)

\* A resync falls between the clicks of a drag, or a covered slot no longer
\* takes the stack that is dragged over it.
Undercut(c) == c.drag.open /\ \E s \in c.drag.over : ~CanAddItemToSlot(c.slots[s], c.cursor)
Notes(cut) == apart' = apart \cup (IF Undercut(view') THEN {"undercut"} ELSE {})
                              \cup (IF cut /\ view.drag.open THEN {"cut"} ELSE {})

OpenWindow ==
  /\ Reads("open")
  /\ open' = Head(toClient).window
  /\ view' = [NoContainer EXCEPT !.cursor = view.cursor]
  /\ UNCHANGED <<action, batch, server, toServer, bounds, history>>

SetSlot ==
  /\ Reads("slot")
  /\ LET m == Head(toClient)
     IN  view' = IF m.window = open /\ Carried(view, m.slot)
                 THEN [view EXCEPT !.slots[m.slot] = m.item] ELSE view
  /\ Notes(FALSE)
  /\ UNCHANGED <<open, action, batch, server, toServer, bounds, sent>>

SetCursor ==
  /\ Reads("cursor")
  /\ view' = [view EXCEPT !.cursor = Head(toClient).item]
  /\ Notes(TRUE)
  /\ UNCHANGED <<open, action, batch, server, toServer, bounds, sent>>

WindowItems ==
  /\ Reads("items")
  /\ LET m == Head(toClient)
     IN  view' = IF m.window = open
                 THEN [view EXCEPT !.slots = [s \in DOMAIN view.slots |-> m.slots[s]]] ELSE view
  /\ Notes(TRUE)
  /\ UNCHANGED <<open, action, batch, server, toServer, bounds, sent>>

\* MUTANT of ConfirmTransaction: the answer carries the number of the last
\* click.
ConfirmTransactionLatest ==
  /\ Reads("confirm")
  /\ LET m == Head(toClient)
     IN  toServer' = IF ~m.accepted /\ m.window = open
                     THEN Append(toServer, [type |-> "apology", window |-> m.window, action |-> action])
                     ELSE toServer
  /\ UNCHANGED <<client, server, bounds, history>>

\* A rejection of a window that is held is acknowledged.
ConfirmTransaction ==
  /\ Reads("confirm")
  /\ LET m == Head(toClient)
     IN  toServer' = IF ~m.accepted /\ m.window = open
                     THEN Append(toServer, [type |-> "apology", window |-> m.window, action |-> m.action])
                     ELSE toServer
  /\ UNCHANGED <<client, server, bounds, history>>

WindowClosed ==
  /\ Reads("close")
  /\ IF Head(toClient).window = open THEN Shut ELSE UNCHANGED <<open, view>>
  /\ UNCHANGED <<action, batch, server, toServer, bounds, history>>

-----------------------------------------------------------------------------
(* The server *)

Hears(type) == toServer # <<>> /\ Head(toServer).type = type /\ toServer' = Tail(toServer)
Sends(messages) == toClient' = toClient \o messages

Whole(window, c) == <<[type |-> "items", window |-> window, slots |-> c.slots],
                      [type |-> "cursor", item |-> c.cursor]>>

\* The container's screen is gone there: what it carried is thrown.
Dropped(c) == [c EXCEPT !.cursor = Empty, !.drag = NoDrag]

\* A change of a slot the click touches crossed the click on its way.
Crossed(m) == \E s \in m.touches : sent[s] # m.read[s]

ServerRunsClick ==
  /\ Hears("click")
  /\ LET m == Head(toServer)
         accepted == Carrier(held, m.click) = m.echo
         confirm == [type |-> "confirm", window |-> m.window, action |-> m.action, accepted |-> accepted]
     IN  /\ m.window = serving /\ locked = 0
         /\ held' = SlotClick(held, m.click)
         /\ locked' = IF accepted THEN 0 ELSE m.action
         /\ Sends(<<confirm>> \o (IF accepted THEN <<>> ELSE Whole(serving, held')))
         /\ apart' = apart \cup (IF accepted /\ Crossed(m) THEN {"crossed"} ELSE {})
  /\ UNCHANGED <<client, serving, bounds, sent>>

ServerIgnoresClick ==
  /\ Hears("click")
  /\ Head(toServer).window # serving \/ locked # 0
  /\ UNCHANGED <<client, server, toClient, bounds, history>>

ServerUnlocks ==
  /\ Hears("apology")
  /\ locked' = IF Head(toServer).window = serving /\ Head(toServer).action = locked THEN 0 ELSE locked
  /\ UNCHANGED <<client, serving, held, toClient, bounds, history>>

\* Whatever window is open is closed.
ServerHearsClose ==
  /\ Hears("close")
  /\ serving' = 0 /\ held' = Dropped(held) /\ locked' = 0
  /\ UNCHANGED <<client, toClient, bounds, history>>

\* A fresh window for every use, numbered as it, in place of one that is still
\* open.
ServerOpens ==
  /\ Hears("use")
  /\ serving' = Head(toServer).window
  /\ held' = Dropped(held) /\ locked' = 0
  /\ Sends((IF serving = 0 THEN <<>> ELSE <<[type |-> "close", window |-> serving]>>)
             \o <<[type |-> "open", window |-> serving']>> \o Whole(serving', held'))
  /\ UNCHANGED <<client, bounds, history>>

ServerChanges(slot, item) ==
  /\ serving # 0 /\ changes < MaxChanges /\ changes' = changes + 1
  /\ held' = [held EXCEPT !.slots[slot] = item]
  /\ sent' = [sent EXCEPT ![slot] = @ + 1]
  /\ Sends(<<[type |-> "slot", window |-> serving, slot |-> slot, item |-> item]>>)
  /\ UNCHANGED <<client, serving, locked, toServer, gestures, uses, apart>>

ServerCloses ==
  /\ serving # 0 /\ changes < MaxChanges /\ changes' = changes + 1
  /\ serving' = 0 /\ held' = Dropped(held) /\ locked' = 0
  /\ Sends(<<[type |-> "close", window |-> serving]>>)
  /\ UNCHANGED <<client, toServer, gestures, uses, history>>

-----------------------------------------------------------------------------
Player == ClickSingle \/ LetGoOfDrag \/ CloseWindow \/ UseBlock
Packet == OpenWindow \/ SetSlot \/ SetCursor \/ WindowItems \/ ConfirmTransaction \/ WindowClosed
ServerHears == ServerRunsClick \/ ServerIgnoresClick \/ ServerUnlocks \/ ServerHearsClose \/ ServerOpens
ServerActs == ServerCloses \/ \E slot \in DeclaredSlots, item \in Changes : ServerChanges(slot, item)

WindowNext == Player \/ ClickOfDrag \/ Packet \/ ServerHears \/ ServerActs

\* The session reads its inputs and its packets, the server what it is sent.
WindowSpec ==
  /\ WindowInit /\ [][WindowNext]_windowVars
  /\ WF_windowVars(ClickOfDrag) /\ WF_windowVars(Packet) /\ WF_windowVars(ServerHears)

WindowTypeOK ==
  /\ open \in 0 .. MaxUses /\ serving \in 0 .. MaxUses
  /\ view \in Containers(DeclaredSlots) /\ held \in Containers(LayoutSlots)
  /\ action \in Nat /\ locked \in 0 .. action
  /\ gestures \in 0 .. MaxGestures /\ uses \in 0 .. MaxUses /\ changes \in 0 .. MaxChanges
  /\ sent \in [DeclaredSlots -> 0 .. MaxChanges]
  /\ apart \subseteq {"resync", "beyond", "cut", "undercut", "crossed"}

-----------------------------------------------------------------------------
(* Properties *)

Settled == toServer = <<>> /\ toClient = <<>> /\ batch = <<>> /\ open # 0 /\ open = serving
Agreed == view.cursor = held.cursor /\ \A s \in DeclaredSlots : view.slots[s] = held.slots[s]

\* Once nothing is on its way the window shows what the server holds, however
\* clicks, rejections, resyncs, changes and closes crossed: the prediction is
\* the server's own click, a click that met other slots than it was predicted
\* on is rejected, and its resync puts right everything predicted since.  The
\* exceptions are what the exchange itself cannot see.
SettledAgrees == Settled /\ apart = {} => Agreed

\* A click moves items or throws them; it never makes one.
Items(c, kind) ==
  LET count(stack) == IF stack.kind = kind THEN stack.count ELSE 0
  IN  count(c.cursor) + Total([s \in DOMAIN c.slots |-> count(c.slots[s])])
ClicksCreateNothing ==
  [][action' # action /\ "undercut" \notin apart =>
       \A kind \in Kinds : Items(view', kind) <= Items(view, kind)]_windowVars

\* A server that has rejected a click hears clicks again: the rejection is
\* acknowledged with its own number, or its window is gone.
LockLifts == locked # 0 ~> locked = 0

\* "The session keeps the mutation until the server's resync overwrites it":
\* a click on any slot of the window's layout settles in agreement.
EverySlotSettles == Settled /\ apart \subseteq {"beyond"} => Agreed

\* "The slot must take the dragged stack": a drag over a slot that has come to
\* hold something else settles in agreement.
DragsSettle == Settled /\ apart \subseteq {"undercut"} => Agreed
=============================================================================
