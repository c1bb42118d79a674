------------------------------ MODULE RingQueue ------------------------------
(***************************************************************************)
(* The queue dg_queue_t of dg_queue.c (4-114), for one thread: a ring that *)
(* is allocated by queue_alloc() or, for a queue from the macro            *)
(* queue_init(), by the first element.  queue_free() keeps the count: the  *)
(* queue then is as long as before, of elements that are anything (Junk).  *)
(***************************************************************************)
EXTENDS Integers, Sequences

CONSTANTS Values, Capacity, Junk, None

VARIABLES
  q,              \* [head, tail, count, pdata]; pdata None or a function
  content         \* history: what was added and not yet taken, front first

Block == [i \in 0 .. Capacity - 1 |-> Junk]
Down(i) == (i + Capacity - 1) % Capacity
Up(i) == (i + 1) % Capacity
-----------------------------------------------------------------------------
Init ==
  /\ q = [head |-> 0, tail |-> 0, count |-> 0, pdata |-> None]
  /\ content = <<>>

queue_alloc ==
  /\ q' = [head |-> 0, tail |-> 0, count |-> 0, pdata |-> Block]
  /\ content' = <<>>

\* queue_free(), and queue_alloc() without memory, keep the count.
queue_free ==
  /\ q' = [q EXCEPT !.pdata = None]
  /\ content' = [i \in DOMAIN content |-> Junk]

\* queue_allocate_if_needed(): the memory of the ring
Ring == IF q.pdata = None THEN Block ELSE q.pdata

add_back(v) ==
  /\ q.count < Capacity
  /\ q' = [q EXCEPT !.pdata = [Ring EXCEPT ![q.tail] = v],
                    !.tail = Up(q.tail), !.count = @ + 1]
  /\ content' = Append(content, v)

add_front(v) ==
  /\ q.count < Capacity
  /\ q' = [q EXCEPT !.pdata = [Ring EXCEPT ![Down(q.head)] = v],
                    !.head = Down(q.head), !.count = @ + 1]
  /\ content' = <<v>> \o content

get_back ==
  /\ q.count > 0 /\ q.pdata # None
  /\ q' = [q EXCEPT !.tail = Down(@), !.count = @ - 1]
  /\ content' = SubSeq(content, 1, Len(content) - 1)

get_front ==
  /\ q.count > 0 /\ q.pdata # None
  /\ q' = [q EXCEPT !.head = Up(@), !.count = @ - 1]
  /\ content' = Tail(content)

Next ==
  \/ queue_alloc \/ queue_free \/ get_back \/ get_front
  \/ \E v \in Values : add_back(v) \/ add_front(v)

Spec == Init /\ [][Next]_<<q, content>>
-----------------------------------------------------------------------------
(* The elements between head and tail are those added and not taken, in    *)
(* order, wherever the ring wraps: so the elements that the gets return    *)
(* pointers to.                                                            *)
HoldsContent ==
  /\ q.count = Len(content) /\ q.tail = (q.head + q.count) % Capacity
  /\ q.pdata # None =>
       \A i \in DOMAIN content : q.pdata[(q.head + i - 1) % Capacity] = content[i]
=============================================================================
