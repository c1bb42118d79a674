------------------------------ MODULE MemPool ------------------------------
(***************************************************************************)
(* The block pool of dglib_static/src/dg_mempool.c: the indices of the     *)
(* free blocks travel through the lock-free queue of MpmcQueue, which      *)
(* mempool_init() has filled.  mempool_alloc() is one get_front, and       *)
(* mempool_free() one add_back whose result it ignores.                    *)
(*                                                                         *)
(* A thread frees a block it holds, and only once, so the checks of the    *)
(* address, the magic number and the index in mempool_free() succeed; the  *)
(* header they read is not modelled, and a block is its index.             *)
(***************************************************************************)
EXTENDS Integers, FiniteSets

CONSTANTS
  Threads,
  Capacity,   \* psrc->poolsize, also the capacity of psrc->fqueue
  WordSize,   \* the number of values of a size_t
  MaxPos,     \* bound of the model: positions drawn on each side
  NoThread

VARIABLES
  enqueue_pos, dequeue_pos, seq, pdata, pc, pos, elem, put, got,   \* psrc->fqueue
  owner,      \* the thread that holds each block
  lost        \* history: freed blocks the queue has refused

fqueue == <<enqueue_pos, dequeue_pos, seq, pdata, pc, pos, elem, put, got>>
vars == <<enqueue_pos, dequeue_pos, seq, pdata, pc, pos, elem, put, got, owner, lost>>

Blocks == 0 .. Capacity - 1

Q == INSTANCE MpmcQueue WITH Values <- Blocks

\* The positions of the blocks that mempool_init() stores are counted.
ASSUME MemPoolAssumption ==
  /\ NoThread \notin Threads
  /\ Q!MpmcAssumption
  /\ Capacity <= MaxPos
-----------------------------------------------------------------------------
(* mempool_init(): the queue holds every index, in order. *)
Init ==
  /\ enqueue_pos = Capacity
  /\ dequeue_pos = 0
  /\ seq = [b \in Blocks |-> b + 1]
  /\ pdata = [b \in Blocks |-> b]
  /\ pc = [t \in Threads |-> "idle"]
  /\ pos = [t \in Threads |-> 0]
  /\ elem = [t \in Threads |-> 0]
  /\ put = {<<b, b>> : b \in Blocks}
  /\ got = {}
  /\ owner = [b \in Blocks |-> NoThread]
  /\ lost = {}

(* mempool_alloc() *)
Alloc(t) ==
  /\ Q!GetTicket(t)
  /\ UNCHANGED <<owner, lost>>

AllocFails(t) ==
  /\ Q!GetEmpty(t)
  /\ UNCHANGED <<owner, lost>>

AllocReturns(t) ==
  /\ Q!GetRelease(t)
  /\ owner' = [owner EXCEPT ![elem[t]] = t]
  /\ UNCHANGED lost

(* mempool_free() *)
Free(t, b) ==
  /\ owner[b] = t
  /\ Q!AddTicket(t, b)
  /\ owner' = [owner EXCEPT ![b] = NoThread]
  /\ UNCHANGED lost

\* add_back fails, and mempool_free() returns 1 all the same.
FreeDrops(t) ==
  /\ Q!AddFull(t)
  /\ lost' = lost \cup {elem[t]}
  /\ UNCHANGED owner

FreeReturns(t) ==
  /\ Q!AddPublish(t)
  /\ UNCHANGED <<owner, lost>>

Inside(t) ==
  /\ Q!GetReady(t) \/ Q!GetCopy(t) \/ Q!AddReady(t) \/ Q!AddCopy(t)
  /\ UNCHANGED <<owner, lost>>

Next ==
  \E t \in Threads :
    \/ Alloc(t) \/ AllocFails(t) \/ AllocReturns(t)
    \/ FreeDrops(t) \/ FreeReturns(t) \/ Inside(t)
    \/ \E b \in Blocks : Free(t, b)

Spec == Init /\ [][Next]_vars

\* Mutation of num_free: the two positions are swapped.
num_free_Swapped ==
  LET qcount == (dequeue_pos - enqueue_pos) % WordSize
  IN IF qcount > Capacity THEN Capacity ELSE qcount

(* mempool_get_num_free(): a difference of two size_t, clamped.            *)
num_free ==
  LET qcount == (enqueue_pos - dequeue_pos) % WordSize
  IN IF qcount > Capacity THEN Capacity ELSE qcount

(* mempool_get_num_allocated() *)
num_allocated == Capacity - num_free
-----------------------------------------------------------------------------
Held == {b \in Blocks : owner[b] # NoThread}
Stored(b) == {x \in put \ got : x[2] = b}
InFree(b) == {t \in Threads : pc[t] \in Q!Adding /\ elem[t] = b}
Quiet == \A t \in Threads : pc[t] = "idle"

TypeOK ==
  /\ Q!TypeOK
  /\ owner \in [Blocks -> Threads \cup {NoThread}]
  /\ lost \subseteq Blocks

(* Every block is in exactly one place: held by one thread, on its way     *)
(* through one mempool_free(), once in the queue of free indices, or       *)
(* dropped.  So no block is ever handed to two callers.                    *)
OnePlace ==
  /\ TypeOK
  /\ \A b \in Blocks :
       Cardinality({b} \cap Held) + Cardinality(InFree(b))
         + Cardinality(Stored(b)) + Cardinality({b} \cap lost) = 1

(* As long as no mempool_alloc() has failed and no mempool_free() has      *)
(* dropped its block, a pool at rest counts its blocks right.              *)
CountsRight ==
  Quiet /\ Cardinality(got) = dequeue_pos /\ lost = {} =>
    num_allocated = Cardinality(Held)

(* dg_mempool.h:41 "The queue stores indices of FREE blocks.": at rest a   *)
(* block no thread holds is in the queue, whatever the threads did before. *)
FreeBlocksStored == Quiet => \A b \in Blocks \ Held : Stored(b) # {}
=============================================================================
