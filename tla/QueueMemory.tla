---------------------------- MODULE QueueMemory ----------------------------
(***************************************************************************)
(* What a memory pool (dg_mempool.c 10-55) and an interlocked queue        *)
(* (dg_queue.c 217-262) obtain when they start, each of which may fail,    *)
(* and what their ends give back.  A client ends what it has started,      *)
(* also when the start has failed, before it starts it again.              *)
(***************************************************************************)
EXTENDS Naturals

CONSTANTS Null, Junk  \* Junk: a field nobody has written

VARIABLES
  ptr,    \* what each field holds: an object ("own"), one that has been freed
          \* ("gone"), Null or Junk
  live,   \* how many objects exist that were made for each field
  stage   \* "off", "on", or "failed", of the pool and of the queue

QueueFields == {"fqueue.seq", "fqueue.pdata"}
PoolFields == {"pdata"} \cup QueueFields
MtFields == {"q.pdata", "head_mtx", "tail_mtx", "slots_sem", "items_sem"}
Fields == PoolFields \cup MtFields

\* The fields of F are written; those of own get an object.
Set(F, own, other) == [f \in Fields |-> IF f \in own THEN "own" ELSE IF f \in F THEN other ELSE ptr[f]]
More(own) == [f \in Fields |-> IF f \in own THEN live[f] + 1 ELSE live[f]]
Less(F) == [f \in Fields |-> IF f \in F /\ ptr[f] = "own" THEN live[f] - 1 ELSE live[f]]

Init ==
  /\ ptr = [f \in Fields |-> Junk]
  /\ live = [f \in Fields |-> 0]
  /\ stage = [pool |-> "off", mt |-> "off"]

Go(part, from, to) == stage[part] = from /\ stage' = [stage EXCEPT ![part] = to]
-----------------------------------------------------------------------------
\* poolsize is no power of two: the fields of the queue stay as they were.
init_refused ==
  /\ Go("pool", "off", "failed")
  /\ \E own \in SUBSET {"pdata"} : ptr' = Set({"pdata"}, own, Null) /\ live' = More(own)

\* mpmc_queue_alloc() frees what it has got, and the pointers stay.
init_no_queue ==
  /\ Go("pool", "off", "failed")
  /\ \E own \in SUBSET PoolFields :
       /\ ~ QueueFields \subseteq own
       /\ ptr' = [f \in Fields |-> IF f \in own \cap QueueFields THEN "gone"
                                   ELSE Set(PoolFields, own, Null)[f]]
       /\ live' = More(own \cap {"pdata"})

\* There is no memory for the blocks, and mpmc_queue_free() has been called.
init_no_blocks ==
  /\ Go("pool", "off", "failed")
  /\ ptr' = Set(PoolFields, {}, Null)
  /\ UNCHANGED live

mempool_init ==
  /\ Go("pool", "off", "on")
  /\ ptr' = Set(PoolFields, PoolFields, Null) /\ live' = More(PoolFields)

\* The queue is freed when its second pointer is not NULL, be it one that has
\* been freed or never been set.  What free() does then is undefined: here the
\* program goes on, or it is over.
mempool_deinit ==
  /\ Go("pool", "on", "off") \/ Go("pool", "failed", "off")
  /\ \E F \in {{"pdata"}, PoolFields} :
       /\ ptr["fqueue.pdata"] \in {"own", "gone"} => F = PoolFields
       /\ ptr["fqueue.pdata"] = Null => F = {"pdata"}
       /\ ptr' = Set(F, {}, Null) /\ live' = Less(F)
-----------------------------------------------------------------------------
\* Whatever fails, the queue has its fields; tp_init() leaves it like that.
mtqueue_alloc ==
  /\ \E own \in SUBSET MtFields :
       /\ Go("mt", "off", IF own = MtFields THEN "on" ELSE "failed")
       /\ ptr' = Set(MtFields, own, Null) /\ live' = More(own)

mtqueue_free ==
  /\ Go("mt", "on", "off") \/ Go("mt", "failed", "off")
  /\ ptr' = Set(MtFields, {}, Null) /\ live' = Less(MtFields)

Next ==
  \/ init_refused \/ init_no_queue \/ init_no_blocks \/ mempool_init \/ mempool_deinit
  \/ mtqueue_alloc \/ mtqueue_free

Spec == Init /\ [][Next]_<<ptr, live, stage>>
-----------------------------------------------------------------------------
(* Wherever a start has failed, an object exists as long as its field      *)
(* leads to it, once, and an end leaves none; and a pool that is on has    *)
(* all of its objects.  This says nothing of a field that leads to no      *)
(* object, which mempool_deinit() may free again.                          *)
GivenBack ==
  /\ \A f \in Fields : live[f] = IF ptr[f] = "own" THEN 1 ELSE 0
  /\ stage.pool = "on" => \A f \in PoolFields : ptr[f] = "own"
  /\ stage.pool = "off" => \A f \in PoolFields : ptr[f] # "own"
  /\ stage.mt = "on" => \A f \in MtFields : ptr[f] = "own"
  /\ stage.mt = "off" => \A f \in MtFields : ptr[f] # "own"
=============================================================================
