---------------------------- MODULE HandleAlloc ----------------------------
(***************************************************************************)
(* The handle allocator of dglib/src/dg_handle.c: a table of slots with a  *)
(* generation counter each, odd while the slot is in use.  A handle is an  *)
(* index with the generation it was issued for.                            *)
(*                                                                         *)
(* Callers keep every handle they ever received and may pass any of them   *)
(* to ha_free_handle(), also one they have freed before.  GenSize is the   *)
(* number of values of a generation counter, 2^32 in the code; turns       *)
(* counts without wrapping how often the counter of a slot has moved.      *)
(***************************************************************************)
EXTENDS Integers, FiniteSets

CONSTANTS
  nhandles,   \* pha->nhandles
  GenSize,    \* the number of values of a generation counter, and of an index
  MaxTurns    \* bound of the model: how often the counter of a slot may move

ASSUME HandleAssumption ==
  /\ nhandles \in Nat /\ nhandles < GenSize
  /\ GenSize \in Nat \ {0} /\ GenSize % 2 = 0
  /\ MaxTurns \in Nat

VARIABLES
  pgenerations,
  turns,   \* history: moves of each counter
  held,    \* history: handles ha_alloc_handle() gave that are not freed yet
  freed    \* history: handles that were held and then freed

vars == <<pgenerations, turns, held, freed>>

Indices == 0 .. nhandles - 1
Generations == 0 .. GenSize - 1
Handles == [index : Indices, gen : Generations]

\* ha_get_handle_by_index()
Handle(i) == [index |-> i, gen |-> pgenerations[i]]
Busy(i) == pgenerations[i] % 2 = 1

\* ha_is_valid_handle()
is_valid_handle(h) == h.index < nhandles /\ pgenerations[h.index] = h.gen

\* pgenerations[i]++
Turn(i) ==
  /\ turns[i] < MaxTurns
  /\ pgenerations' = [pgenerations EXCEPT ![i] = (@ + 1) % GenSize]
  /\ turns' = [turns EXCEPT ![i] = @ + 1]
-----------------------------------------------------------------------------
(* ha_init() or ha_init_static() on zeroed memory *)
Init ==
  /\ pgenerations = [i \in Indices |-> 0]
  /\ turns = [i \in Indices |-> 0]
  /\ held = {}
  /\ freed = {}

\* Mutation of alloc_handle: the handle is made before the generation is
\* incremented.
alloc_handle_OldGen(i) ==
  /\ ~Busy(i)
  /\ \A j \in Indices : j < i => Busy(j)
  /\ Turn(i)
  /\ held' = held \cup {Handle(i)}
  /\ UNCHANGED freed

\* ha_alloc_handle() takes the first slot with an even generation.
alloc_handle(i) ==
  /\ ~Busy(i)
  /\ \A j \in Indices : j < i => Busy(j)
  /\ Turn(i)
  /\ held' = held \cup {[index |-> i, gen |-> pgenerations'[i]]}
  /\ UNCHANGED freed

\* Mutations of free_handle: the handle is not validated, or the generation
\* goes back to what it was before the allocation.
free_handle_Unchecked(h) ==
  /\ Turn(h.index)
  /\ held' = held \ {h}
  /\ freed' = freed \cup (held \cap {h})

free_handle_Rewind(h) ==
  /\ is_valid_handle(h)
  /\ turns[h.index] < MaxTurns
  /\ pgenerations' = [pgenerations EXCEPT ![h.index] = @ - 1]
  /\ turns' = [turns EXCEPT ![h.index] = @ + 1]
  /\ held' = held \ {h}
  /\ freed' = freed \cup (held \cap {h})

\* ha_free_handle(); a handle that is not valid changes nothing.
free_handle(h) ==
  /\ is_valid_handle(h)
  /\ Turn(h.index)
  /\ held' = held \ {h}
  /\ freed' = freed \cup (held \cap {h})

\* Callers free handles that ha_alloc_handle() gave them.
Next ==
  \/ \E i \in Indices : alloc_handle(i)
  \/ \E h \in held \cup freed : free_handle(h)

Spec == Init /\ [][Next]_vars
-----------------------------------------------------------------------------
(* ha_get_first_handle(), which ignores is_free_only.                      *)

Invalid == [index |-> GenSize - 1, gen |-> GenSize - 1]   \* DG_INVALID_HANDLE
BusyFrom(start) == {i \in Indices : i >= start /\ Busy(i)}
First(S) == CHOOSE i \in S : \A j \in S : i <= j

get_first_handle(start) ==
  IF BusyFrom(start) = {} THEN Invalid ELSE Handle(First(BusyFrom(start)))

(* ha_get_next_handle(), as <<its result, what it leaves in *pdst>>.  It    *)
(* starts at the index it is given, not after it, and leaves the index one *)
(* past the slot whose generation it has read.                             *)

\* Mutation of get_next_handle: the search begins after the index it is given.
get_next_handle_After(h) ==
  IF h.gen % 2 = 0 THEN <<FALSE, h>>
  ELSE IF BusyFrom(h.index + 1) = {} THEN <<FALSE, Invalid>>
  ELSE LET i == First(BusyFrom(h.index + 1))
       IN <<TRUE, [index |-> i + 1, gen |-> pgenerations[i]]>>

get_next_handle(h) ==
  IF h.gen % 2 = 0 THEN <<FALSE, h>>
  ELSE IF BusyFrom(h.index) = {} THEN <<FALSE, Invalid>>
  ELSE LET i == First(BusyFrom(h.index))
       IN <<TRUE, [index |-> i + 1, gen |-> pgenerations[i]]>>

\* The calls of ha_get_next_handle() in a loop that begins with
\* ha_get_first_handle(&ha, 0, false), and the handles such a loop looks up,
\* as fsi_search_path_by_id() does (dg_filesystem.c:34-44).
Iteration[n \in 1 .. nhandles + 1] ==
  get_next_handle(IF n = 1 THEN get_first_handle(0) ELSE Iteration[n - 1][2])

Visited(k) == IF k = 1 THEN get_first_handle(0) ELSE Iteration[k - 1][2]
-----------------------------------------------------------------------------
TypeOK ==
  /\ pgenerations \in [Indices -> Generations]
  /\ turns \in [Indices -> 0 .. MaxTurns]
  /\ held \subseteq Handles
  /\ freed \subseteq Handles

(* A handle stays valid until the caller who was given it frees it,        *)
(* whatever stale handles other callers free, and no two callers are given *)
(* the same slot.                                                          *)
HeldAreValid ==
  /\ \A h \in held : is_valid_handle(h) /\ Busy(h.index)
  /\ \A g, h \in held : g.index = h.index => g = h

(* "generation counter to avoid stale handles" (dg_handle.h:12): a freed   *)
(* handle is rejected, so freeing it twice changes nothing.                *)
StaleAreRejected == \A h \in freed : ~is_valid_handle(h)

(* A slot is in use exactly when a caller holds its handle: none is leaked.*)
BusyAreHeld == \A i \in Indices : Busy(i) <=> Handle(i) \in held

(* The inductive invariant.  Until a counter wraps it counts the moves of  *)
(* its slot, and a freed handle carries a smaller number.                  *)
GenerationInv ==
  /\ TypeOK
  /\ \A i \in Indices : pgenerations[i] = turns[i]
  /\ HeldAreValid
  /\ \A h \in freed : h.gen < pgenerations[h.index]
  /\ BusyAreHeld

(* A loop that looks up the first handle and then each that                *)
(* ha_get_next_handle() leaves in *pdst makes as many calls that return    *)
(* true as there are slots in use, looks up no index twice, and what it    *)
(* looks up and finds valid is in use.  While no handle has been freed it  *)
(* looks up the handle of every slot in use, as "updated to the next       *)
(* handle" says (dg_handle.h:163).  After that it does not: the generation *)
(* is that of the slot before the index.                                   *)
EnumeratesBusy ==
  LET n == Cardinality(BusyFrom(0)) IN
  /\ \A k \in 1 .. n : Iteration[k][1] /\ Visited(k + 1).index > Visited(k).index
  /\ ~Iteration[n + 1][1]
  /\ \A k \in 1 .. n + 1 : is_valid_handle(Visited(k)) => Busy(Visited(k).index)
  /\ freed = {} => \A i \in Indices : Busy(i) => \E k \in 1 .. n : Visited(k) = Handle(i)
=============================================================================
