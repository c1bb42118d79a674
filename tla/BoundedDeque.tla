---------------------------- MODULE BoundedDeque ----------------------------
(***************************************************************************)
(* A double-ended queue of bounded length, each operation one step: what   *)
(* the interlocked queue of dg_queue.h promises to callers that do not     *)
(* look inside.  A thread that has taken an element keeps it until it      *)
(* drops it.                                                               *)
(***************************************************************************)
EXTENDS Integers, Sequences

CONSTANTS
  Threads,    (* the threads that take elements      *)
  Values,     (* the elements                        *)
  Capacity,   (* the length of the longest queue     *)
  None        (* what a thread has that has dropped  *)

VARIABLES
  dq,         (* the queue, from front to back       *)
  out         (* what each thread has taken          *)

Init == dq = <<>> /\ out = [t \in Threads |-> None]

PushBack(v) == Len(dq) < Capacity /\ dq' = Append(dq, v) /\ UNCHANGED out
PushFront(v) == Len(dq) < Capacity /\ dq' = <<v>> \o dq /\ UNCHANGED out

PopBack(t) ==
  /\ dq # <<>>
  /\ out' = [out EXCEPT ![t] = dq[Len(dq)]]
  /\ dq' = SubSeq(dq, 1, Len(dq) - 1)

PopFront(t) ==
  /\ dq # <<>>
  /\ out' = [out EXCEPT ![t] = Head(dq)]
  /\ dq' = Tail(dq)

Drop(t) == out' = [out EXCEPT ![t] = None] /\ UNCHANGED dq

Next ==
  \/ \E v \in Values : PushBack(v) \/ PushFront(v)
  \/ \E t \in Threads : PopBack(t) \/ PopFront(t) \/ Drop(t)

Spec == Init /\ [][Next]_<<dq, out>>
=============================================================================
