----------------------------- MODULE ItemStore -----------------------------
(***************************************************************************)
(* What a bounded queue shared by threads promises, stripped of slots,     *)
(* positions and locks.  Every accepted item gets an identity of its own.  *)
(* It is stored once, it leaves at most once, its value does not change    *)
(* on the way, and no more than Capacity items are stored at a time.  No   *)
(* order is promised: dg_queue.c hands out positions before it knows       *)
(* whether a call succeeds, so calls that overlap may complete in any      *)
(* order.                                                                  *)
(***************************************************************************)
EXTENDS Integers, FiniteSets

CONSTANTS
  Ids,       (* identities of items                              *)
  Values,    (* what callers store                               *)
  Capacity   (* the number of items the store holds at most      *)

VARIABLES
  put,       (* <<id, value>> of every item accepted so far      *)
  got        (* <<id, value>> of every item handed out so far    *)

vars == <<put, got>>

Stored == put \ got

Init == put = {} /\ got = {}

Put(id, v) ==
  /\ \A x \in put : x[1] # id
  /\ Cardinality(Stored) < Capacity
  /\ put' = put \cup {<<id, v>>}
  /\ UNCHANGED got

Take(x) ==
  /\ x \in Stored
  /\ got' = got \cup {x}
  /\ UNCHANGED put

\* The owner destroys the store and creates it again.
Recreate ==
  /\ put' = {}
  /\ got' = {}

Next ==
  \/ \E id \in Ids, v \in Values : Put(id, v)
  \/ \E x \in put : Take(x)
  \/ Recreate

Spec == Init /\ [][Next]_vars
=============================================================================
