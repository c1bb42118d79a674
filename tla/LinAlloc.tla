------------------------------ MODULE LinAlloc ------------------------------
(***************************************************************************)
(* The linear allocator of dg_linalloc.c: hunks one after the other in one *)
(* block, released together.  linalloc_hunk_alloc() adds the end of the    *)
(* new hunk to the position (l. 67), so the position doubles and is soon   *)
(* beyond the capacity.                                                    *)
(***************************************************************************)
EXTENDS Integers, FiniteSets

CONSTANTS
  FlagSets,       \* sets of flags out of "auto" (resize) and "less"
  Caps, Sizes,    \* the capacities and the hunks that are asked for
  MaxCap,         \* bound of the model: no block is larger
  MaxHunks,       \* bound of the model: no more hunks between two resets
  Fails           \* whether realloc() may fail

VARIABLES
  a,              \* [flags, capacity, position, memory], memory 0 for NULL
  hunks           \* history: [start, size, memory] of those handed out since
                  \* the last reset, with the memory of the block at that time

Init ==
  /\ a \in [flags : FlagSets, capacity : {0}, position : {0}, memory : {0}]
  /\ hunks = {}
-----------------------------------------------------------------------------
\* What linalloc_init() may make of x, and whether it returns true; a failing
\* realloc() loses the block.
Inits(x, cap) ==
  LET sized == [x EXCEPT !.capacity = cap]
      grows == cap > x.capacity /\ ("less" \in x.flags => x.capacity > 0)
  IN IF grows
       THEN {[to |-> [sized EXCEPT !.memory = cap], ok |-> TRUE]} \cup
            (IF Fails THEN {[to |-> [sized EXCEPT !.memory = 0], ok |-> FALSE]} ELSE {})
       ELSE {[to |-> IF "less" \in x.flags THEN sized ELSE x, ok |-> TRUE]}

init(cap) == (\E r \in Inits(a, cap) : a' = r.to) /\ UNCHANGED hunks

\* Mutation of hand_out: the position is not moved.
hand_out_Stay(x, size) ==
  /\ a' = x
  /\ hunks' = hunks \cup {[start |-> x.position, size |-> size,
                           memory |-> x.memory]}

hand_out(x, size) ==
  /\ a' = [x EXCEPT !.position = @ + (@ + size)]
  /\ hunks' = hunks \cup {[start |-> x.position, size |-> size,
                           memory |-> x.memory]}

\* the block grows first, if it may
extend(size) ==
  LET cap == a.capacity + size + size \div 2 IN
  /\ "auto" \in a.flags /\ cap <= MaxCap
  /\ \E r \in Inits(a, cap) :
       IF r.ok THEN hand_out(r.to, size) ELSE a' = r.to /\ UNCHANGED hunks

hunk_alloc(size) ==
  /\ Cardinality(hunks) < MaxHunks
  /\ \/ a.position + size < a.capacity /\ hand_out(a, size)
     \/ a.position + size >= a.capacity /\ extend(size)

reset == a' = [a EXCEPT !.position = 0] /\ hunks' = {}

\* linalloc_deinit() keeps the capacity.
deinit == a' = [a EXCEPT !.position = 0, !.memory = 0] /\ hunks' = {}

Next ==
  \/ \E cap \in Caps : init(cap)
  \/ \E size \in Sizes : hunk_alloc(size)
  \/ reset \/ deinit

Spec == Init /\ [][Next]_<<a, hunks>>
-----------------------------------------------------------------------------
(* Two hunks that are handed out between two resets share no byte.         *)
HunksApart ==
  \A g, h \in hunks : g = h \/ g.start + g.size <= h.start \/ h.start + h.size <= g.start

(* "pointer to allocated memory or NULL on failure" (dg_linalloc.h:101):   *)
(* a hunk handed out from a block lies in it.                              *)
HunksInside == \A h \in hunks : h.memory # 0 => h.start + h.size <= h.memory
=============================================================================
