-------------------------------- MODULE Stack --------------------------------
(***************************************************************************)
(* The stack of dg_stack.c, with both ends open: a ring that doubles when  *)
(* it is full.  realloc() keeps the elements at their places, so a ring    *)
(* that wraps is torn apart by its growth: the elements of its second part *)
(* are not where the new capacity puts them.  The field tail is never      *)
(* used.                                                                   *)
(***************************************************************************)
EXTENDS Integers, Sequences

CONSTANTS
  Values,
  Caps,           \* the capacities given to stack_init()
  MaxCap,         \* bound of the model: a larger ring is never allocated
  Junk

VARIABLES
  s,              \* [size, capacity, head, data]; no data at capacity 0
  content         \* history: what was pushed and not popped, bottom first,
                  \* Junk for what a growth has put out of reach

vars == <<s, content>>

Blank(cap) ==
  [size |-> 0, capacity |-> cap, head |-> 0, data |-> [i \in 0 .. cap - 1 |-> Junk]]

Emptied(cap) == s' = Blank(cap) /\ content' = <<>>

\* the ring with room for one more; realloc() may fail
Grown ==
  [s EXCEPT !.capacity = 2 * @,
            !.data = [i \in 0 .. 2 * s.capacity - 1 |-> IF i < s.capacity THEN s.data[i] ELSE Junk]]
Roomy == IF s.size >= s.capacity THEN Grown ELSE s
CanPush == s.capacity > 0 /\ Roomy.capacity <= MaxCap

\* What a growth leaves of the elements: those up to the end of the old ring.
Left ==
  IF s.size < s.capacity THEN content
  ELSE [i \in DOMAIN content |-> IF i <= s.capacity - s.head THEN content[i] ELSE Junk]
-----------------------------------------------------------------------------
Init == s = Blank(0) /\ content = <<>>

stack_init == \E cap \in Caps : Emptied(cap)
stack_free == Emptied(0)
stack_clear ==
  /\ s' = [s EXCEPT !.size = 0, !.head = 0]
  /\ content' = <<>>

push_back(v) ==
  /\ CanPush
  /\ s' = [Roomy EXCEPT !.data[(s.head + s.size) % Roomy.capacity] = v, !.size = @ + 1]
  /\ content' = Append(Left, v)

\* Mutation of push_front: the head wraps at the capacity before the growth.
push_front_OldCapacity(v) ==
  LET head == IF s.head = 0 THEN s.capacity - 1 ELSE s.head - 1 IN
  /\ CanPush
  /\ s' = [Roomy EXCEPT !.head = head, !.data[head] = v, !.size = @ + 1]
  /\ content' = <<v>> \o Left

push_front(v) ==
  LET head == IF s.head = 0 THEN Roomy.capacity - 1 ELSE s.head - 1 IN
  /\ CanPush
  /\ s' = [Roomy EXCEPT !.head = head, !.data[head] = v, !.size = @ + 1]
  /\ content' = <<v>> \o Left

pop_back ==
  /\ s.size > 0
  /\ s' = [s EXCEPT !.size = @ - 1]
  /\ content' = SubSeq(content, 1, Len(content) - 1)

pop_front ==
  /\ s.size > 0
  /\ s' = [s EXCEPT !.size = @ - 1, !.head = (@ + 1) % s.capacity]
  /\ content' = Tail(content)

Next ==
  \/ stack_init \/ stack_free \/ stack_clear \/ pop_back \/ pop_front
  \/ \E v \in Values : push_back(v) \/ push_front(v)

Spec == Init /\ [][Next]_vars
-----------------------------------------------------------------------------
(* The pops and stack_peek() find what was pushed and not popped, at both  *)
(* ends and through growth; of a ring that wraps when it grows, what lies  *)
(* before its end.                                                         *)
HoldsContent ==
  /\ s.size = Len(content)
  /\ \A i \in DOMAIN content : content[i] \in {Junk, s.data[(s.head + i - 1) % s.capacity]}
=============================================================================
