----------------------------- MODULE SlotClick -----------------------------
(***************************************************************************)
(* The slot clicks of a container (crates/oxide-game/src/container.rs), as *)
(* operators on a container: its slots, the stack the cursor carries, and  *)
(* the drag that is open, if any.                                          *)
(*                                                                         *)
(* container.rs ports the game's own click machine; the creative screen    *)
(* runs the port, and it is also what the server at the other end of a     *)
(* window runs.  The creative screen's bound on the slots a drag may cover *)
(* is left out: a window's slots all take one.                             *)
(***************************************************************************)
EXTENDS Integers, Sequences, FiniteSets

CONSTANTS Kinds,    \* the items: id, damage and tag together
          MaxStack  \* the largest stack (64 in the code)

ASSUME MaxStackAssumption == MaxStack \in Nat \ {0}

NoSlot == 0    \* the slot of a click outside every slot (-999 on the wire)
Nobody == "nothing"
Stacks == [kind : Kinds, count : 1 .. MaxStack]
Empty == [kind |-> Nobody, count |-> 0]
StacksOrEmpty == Stacks \cup {Empty}

Least(a, b) == IF a < b THEN a ELSE b

\* The sum of what the slots count.
Total(counts) ==
  LET sum[n \in 0 .. Len(counts)] == IF n = 0 THEN 0 ELSE sum[n - 1] + counts[n]
  IN  sum[Len(counts)]

\* A stack of some items, or the empty slot when none are left.
Of(kind, count) == IF count > 0 THEN [kind |-> kind, count |-> count] ELSE Empty
Less(stack, n) == Of(stack.kind, stack.count - n)

\* The drag: the slots covered so far and the share each takes, while open.
Shares == {"split", "single"}
NoDrag == [open |-> FALSE, share |-> "split", over |-> {}]
BeginDrag(share) == [open |-> TRUE, share |-> share, over |-> {}]

Containers(slots) ==
  [slots  : [slots -> StacksOrEmpty],
   cursor : StacksOrEmpty,
   drag   : [open : BOOLEAN, share : Shares, over : SUBSET slots]]

\* The slots an empty cursor, a stack of the same item below the cap, or
\* nothing keeps a dragged stack out of.
CanAddItemToSlot(held, stack) ==
  held = Empty \/ (held.kind = stack.kind /\ held.count <= MaxStack)

\* What one slot holds when the drag ends.
ComputeStackSize(drag, cursor, held) ==
  LET base == IF drag.share = "split" THEN cursor.count \div Cardinality(drag.over) ELSE 1
  IN  Least(base + held.count, MaxStack)

Begin(c, share) ==
  [c EXCEPT !.drag = IF c.cursor # Empty /\ ~c.drag.open THEN BeginDrag(share) ELSE NoDrag]

Cover(c, slot) ==
  IF c.cursor = Empty \/ ~c.drag.open THEN [c EXCEPT !.drag = NoDrag]
  ELSE IF /\ CanAddItemToSlot(c.slots[slot], c.cursor)
          /\ c.cursor.count > Cardinality(c.drag.over)
       THEN [c EXCEPT !.drag.over = @ \cup {slot}]
       ELSE c

\* What the drag adds to each of some slots.
Added(c, slots) ==
  [s \in DOMAIN c.slots |->
     IF s \in slots THEN ComputeStackSize(c.drag, c.cursor, c.slots[s]) - c.slots[s].count ELSE 0]

\* Each covered slot that still takes the stack is filled; the cursor keeps
\* the rest.
Finish(c) ==
  LET takes == {s \in c.drag.over : /\ CanAddItemToSlot(c.slots[s], c.cursor)
                                    /\ c.cursor.count >= Cardinality(c.drag.over)}
  IN  IF c.cursor = Empty \/ ~c.drag.open \/ c.drag.over = {} THEN [c EXCEPT !.drag = NoDrag]
      ELSE [slots  |-> [s \in DOMAIN c.slots |->
                          IF s \in takes
                          THEN Of(c.cursor.kind, ComputeStackSize(c.drag, c.cursor, c.slots[s]))
                          ELSE c.slots[s]],
            cursor |-> Less(c.cursor, Total(Added(c, takes))),
            drag   |-> NoDrag]

\* The pickup and place: take a stack, put one down, merge, or trade places.
Pickup(c, slot, button) ==
  LET held == c.slots[slot]
      wanted(n, half) == IF button = "left" THEN n ELSE half
  IN  IF held = Empty THEN
        LET put == Least(wanted(c.cursor.count, 1), c.cursor.count)
        IN  [c EXCEPT !.slots[slot] = Of(c.cursor.kind, put), !.cursor = Less(@, put)]
      ELSE IF c.cursor = Empty THEN
        LET take == wanted(held.count, (held.count + 1) \div 2)
        IN  [c EXCEPT !.slots[slot] = Less(@, take), !.cursor = Of(held.kind, take)]
      ELSE IF held.kind = c.cursor.kind THEN
        LET put == Least(wanted(c.cursor.count, 1), MaxStack - held.count)
        IN  [c EXCEPT !.slots[slot].count = @ + put, !.cursor = Less(@, put)]
      ELSE [c EXCEPT !.slots[slot] = c.cursor, !.cursor = held]

\* The drop, with nothing on the cursor: one item, or the whole stack.
Drop(c, slot, button) ==
  IF c.cursor # Empty \/ c.slots[slot] = Empty THEN c
  ELSE [c EXCEPT !.slots[slot] = IF button = "left" THEN Less(@, 1) ELSE Empty]

\* The carried stack thrown outside every slot.
Throw(c, button) ==
  IF c.cursor = Empty THEN c
  ELSE [c EXCEPT !.cursor = IF button = "left" THEN Empty ELSE Less(@, 1)]

\* One click; another mode's click with a drag open only ends the drag.
SlotClick(c, click) ==
  CASE click.mode = "begin" -> Begin(c, click.share)
    [] click.mode = "cover" -> Cover(c, click.slot)
    [] click.mode = "finish" -> Finish(c)
    [] click.mode \in {"pickup", "drop"} /\ c.drag.open -> [c EXCEPT !.drag = NoDrag]
    [] click.mode = "pickup" /\ ~c.drag.open ->
         IF click.slot = NoSlot THEN Throw(c, click.button)
                                ELSE Pickup(c, click.slot, click.button)
    [] click.mode = "drop" /\ ~c.drag.open -> Drop(c, click.slot, click.button)

\* The stack a click answers: what the clicked slot held before a pickup.
Carrier(c, click) ==
  IF click.mode = "pickup" /\ ~c.drag.open /\ click.slot # NoSlot
  THEN c.slots[click.slot] ELSE Empty
=============================================================================
