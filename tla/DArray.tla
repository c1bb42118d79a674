------------------------------- MODULE DArray -------------------------------
(***************************************************************************)
(* The dynamic array of dg_darray.c.  `content` remembers what a caller    *)
(* expects of an array by dg_darray.h; it is Lost from a call on that does *)
(* something else or reaches outside of the array's memory.  A Lost array  *)
(* is only reset: nothing can be said of what other calls do to it.        *)
(***************************************************************************)
EXTENDS Integers, Sequences, FiniteSets

CONSTANTS
  Arrays, Values,
  MaxCap,         \* bound of the model: no call asks for more elements
  Reserve,        \* the reserve of every array, at least 1
  SizeMod,        \* size_t wraps here
  Junk,           \* an element that nobody wrote, or whatever it was before
  Lost, None

VARIABLES
  arr,            \* [capacity, size, pdata], pdata None or a function
  content         \* history: the elements, Junk where they are unspecified

Reset == [capacity |-> 0, size |-> 0, pdata |-> None]
Allocated(x) == IF x.pdata = None THEN 0 ELSE Cardinality(DOMAIN x.pdata)

\* realloc()
Resized(x, n) ==
  [x EXCEPT !.capacity = n,
            !.pdata = [i \in 0 .. n - 1 |-> IF i < Allocated(x) THEN x.pdata[i] ELSE Junk]]

Fits(x, n) == x.pdata # None /\ n <= x.capacity
NewCap(x, n) == IF n > x.capacity THEN n + Reserve ELSE x.capacity

\* try_ensure_capacity() where there is memory
ensured(x, n) == IF Fits(x, n) THEN x ELSE Resized(x, NewCap(x, n))

\* x with the elements from..from + n - 1 moved to `to`: memmove()
Moved(x, to, from, n) ==
  [x EXCEPT !.pdata = [i \in DOMAIN @ |-> IF i \in to .. to + n - 1 THEN @[i - to + from] ELSE @[i]]]

Put(x, i, v) == [x EXCEPT !.pdata = [j \in DOMAIN @ |-> IF j = i THEN v ELSE @[j]]]
-----------------------------------------------------------------------------
Sound(a) == content[a] # Lost

\* What is left of c when a call that trusts the capacity of x reaches for n
\* elements.
Within(x, n, c) == IF n <= Allocated(x) THEN c ELSE Lost

\* What lies beyond the size is unspecified too.
Trimmed(x) ==
  IF x.pdata = None THEN x
  ELSE [x EXCEPT !.pdata = [i \in DOMAIN @ |-> IF i < x.size THEN @[i] ELSE Junk]]

Becomes(a, x, c) ==
  arr' = [arr EXCEPT ![a] = Trimmed(x)] /\ content' = [content EXCEPT ![a] = c]

Init ==
  /\ arr \in [Arrays -> {[Reset EXCEPT !.capacity = 1]}]    \* darray_init_default()
  /\ content = [a \in Arrays |-> <<>>]

\* When realloc() fails in try_ensure_capacity() the call that needed it returns,
\* but the capacity has been raised: the memory is less from now on, until the
\* array grows again.
GrowFails(a) ==
  \E n \in 1 .. MaxCap :
    /\ Sound(a) /\ ~Fits(arr[a], n)
    /\ Becomes(a, [arr[a] EXCEPT !.capacity = NewCap(arr[a], n)], content[a])

\* c with n elements, new ones unspecified
Sized(c, n) == [i \in 1 .. n |-> IF i <= Len(c) THEN c[i] ELSE Junk]

\* darray_resize() only compares with the capacity, whatever memory there is.
resize(a) ==
  \E n \in 0 .. MaxCap :
    LET x == IF n > arr[a].capacity THEN ensured(arr[a], n) ELSE arr[a] IN
    /\ Sound(a)
    /\ Becomes(a, [x EXCEPT !.size = n], Within(x, n, Sized(content[a], n)))

\* darray_add_back() and darray_add_back_multiple()
add_back(a) ==
  \E n \in arr[a].size + 1 .. MaxCap :
    LET x == ensured(arr[a], n) IN
    /\ Sound(a)
    /\ Becomes(a, [x EXCEPT !.size = n], Within(x, n, Sized(content[a], n)))

\* darray_realloc(), and darray_shrink_to_fit() with n = size, which shrinks nothing
realloc(a) ==
  \E n \in 1 .. MaxCap : Sound(a) /\ Becomes(a, ensured(arr[a], n), content[a])

push_back(a, v) ==
  LET n == arr[a].size  x == ensured(arr[a], n + 1) IN
  /\ Sound(a) /\ n < MaxCap
  /\ Becomes(a, [Put(x, n, v) EXCEPT !.size = n + 1], Within(x, n + 1, Append(content[a], v)))

push_front(a, v) ==
  LET n == arr[a].size  x == ensured(arr[a], n + 1) IN
  /\ Sound(a) /\ n < MaxCap
  /\ Becomes(a, [Put(Moved(x, 1, 0, n), 0, v) EXCEPT !.size = n + 1],
             Within(x, n + 1, <<v>> \o content[a]))

pop_back(a) ==
  /\ Sound(a) /\ arr[a].size > 0
  /\ Becomes(a, [arr[a] EXCEPT !.size = @ - 1], SubSeq(content[a], 1, Len(content[a]) - 1))

pop_front(a) ==
  LET n == arr[a].size IN
  /\ Sound(a) /\ n > 0
  /\ Becomes(a, [Moved(arr[a], 0, 1, n - 1) EXCEPT !.size = n - 1], Tail(content[a]))

\* "Remove elements from index to end" (dg_darray.h:116) is what the last index
\* does; of any other, one element is overwritten by the next one, and the last
\* one goes.
remove_from(a) ==
  \E i \in 0 .. arr[a].size - 1 :
    LET n == arr[a].size  more == i + 1 < n IN
    /\ Sound(a)
    /\ Becomes(a, [(IF more THEN Moved(arr[a], i, i + 1, 1) ELSE arr[a]) EXCEPT !.size = n - 1],
               IF more THEN Lost ELSE SubSeq(content[a], 1, i))

\* darray_remove_from_fast() of an index returns early unless the array is
\* empty; then it counts down from 0.
remove_from_fast(a) ==
  /\ Sound(a) /\ arr[a].pdata # None
  /\ LET n == arr[a].size IN
     Becomes(a, [arr[a] EXCEPT !.size = IF n > 0 THEN n ELSE (n - 1) % SizeMod], Lost)

insert_from(a, b) ==
  \E from \in 0 .. arr[b].size, n \in 1 .. MaxCap :
    LET s == arr[a].size  x == ensured(arr[a], s + n) IN
    /\ Sound(a) /\ Sound(b)
    /\ from + n <= arr[b].size /\ s + n <= MaxCap
    /\ Becomes(a, [x EXCEPT !.size = s + n,
                            !.pdata = [i \in DOMAIN x.pdata |->
                              IF i \in s .. s + n - 1 THEN arr[b].pdata[i - s + from]
                              ELSE x.pdata[i]]],
               Within(x, s + n, content[a] \o SubSeq(content[b], from + 1, from + n)))

\* darray_shift(): asserts keep it inside the size and the capacity.
shift(a) ==
  \E from, to \in 0 .. MaxCap - 1, n \in 1 .. MaxCap :
    /\ Sound(a) /\ from + n <= arr[a].size /\ to + n <= arr[a].capacity
    /\ Becomes(a, Moved(arr[a], to, from, n),
               Within(arr[a], to + n,
                      [i \in DOMAIN content[a] |->
                         IF i \in to + 1 .. to + n THEN content[a][i - to + from]
                         ELSE content[a][i]]))

clear(a) == Sound(a) /\ Becomes(a, [arr[a] EXCEPT !.size = 0], <<>>)

\* darray_free() keeps the size, whose elements are gone.
free(a) ==
  /\ Sound(a)
  /\ Becomes(a, [arr[a] EXCEPT !.pdata = None], IF arr[a].size = 0 THEN <<>> ELSE Lost)

reset(a) == Becomes(a, Reset, <<>>)

\* darray_copy() of an array without capacity does nothing, others are copied for
\* their whole capacity; when malloc() fails dst has a size without memory.
copy(dst, src) ==
  LET x == arr[src] IN
  /\ dst # src /\ Sound(src)
  /\ IF x.capacity = 0
     THEN Becomes(dst, arr[dst], IF content[dst] = <<>> THEN <<>> ELSE Lost)
     ELSE \/ Becomes(dst, x, Within(x, x.capacity, content[src]))
          \/ Becomes(dst, [x EXCEPT !.pdata = None], IF x.size = 0 THEN <<>> ELSE Lost)

move(dst, src) ==
  /\ dst # src /\ Sound(src)
  /\ arr' = [arr EXCEPT ![dst] = arr[src], ![src] = Reset]
  /\ content' = [content EXCEPT ![dst] = content[src], ![src] = <<>>]

Step(a) ==
  \/ GrowFails(a) \/ resize(a) \/ add_back(a) \/ realloc(a) \/ pop_back(a) \/ pop_front(a)
  \/ remove_from(a) \/ remove_from_fast(a) \/ shift(a)
  \/ clear(a) \/ free(a) \/ reset(a)
  \/ \E v \in Values : push_back(a, v) \/ push_front(a, v)
  \/ \E b \in Arrays : insert_from(a, b) \/ copy(a, b) \/ move(a, b)

Next == \E a \in Arrays : Step(a)

Spec == Init /\ [][Next]_<<arr, content>>
-----------------------------------------------------------------------------
(* An array holds what was put into it, in order, in memory that it has,   *)
(* also after a call that found no memory to grow, until a call does not   *)
(* what dg_darray.h says or reaches outside.                               *)
HoldsContent ==
  \A a \in Arrays : Sound(a) =>
    LET x == arr[a] IN
    /\ x.size = Len(content[a]) /\ x.size <= Allocated(x) /\ Allocated(x) <= x.capacity
    /\ \A i \in DOMAIN content[a] : content[a][i] \in {Junk, x.pdata[i - 1]}
=============================================================================
