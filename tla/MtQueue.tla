------------------------------ MODULE MtQueue ------------------------------
(***************************************************************************)
(* The interlocked queue dg_mtqueue_t of dglib_static/src/dg_queue.c: a    *)
(* ring of Capacity slots with a mutex for each end, the semaphore         *)
(* slots_sem that counts free slots and items_sem that counts elements.    *)
(*                                                                         *)
(* An operation waits for its semaphore, locks its end, copies the element *)
(* and moves the index, unlocks, and posts the other semaphore.  The       *)
(* statements between lock and unlock are one step: head is only touched   *)
(* under head_mtx, tail only under tail_mtx, except for the read of tail   *)
(* after the unlock in mtqueue_get_back(), which is a step of its own.     *)
(* The get operations return a pointer into the ring; reading the element  *)
(* through it is the caller's step.                                        *)
(***************************************************************************)
EXTENDS Integers, Sequences, FiniteSets

CONSTANTS
  Threads,   (* the threads that call the queue                           *)
  Values,    (* the elements; each is added at most once                  *)
  Capacity,  (* q->capacity                                               *)
  NoThread,  (* the owner of an unlocked mutex                            *)
  Empty      (* content of a slot that calloc has cleared                 *)

ASSUME MtQueueAssumption ==
  /\ Capacity \in Nat \ {0}
  /\ NoThread \notin Threads
  /\ Empty \notin Values

VARIABLES
  pdata, head, tail, count,                   \* the ring
  head_mtx, tail_mtx, slots_sem, items_sem,   \* what guards it
  pc,      \* where each thread stands in its call
  op,      \* the operation it runs
  arg,     \* the element it adds
  ptr,     \* the slot the pointer it got refers to
  taken,   \* history: the element its get removed from the queue
  unused   \* the elements nobody has added yet

ring == <<pdata, head, tail, count>>
sems == <<slots_sem, items_sem>>
mutexes == <<head_mtx, tail_mtx>>
locals == <<op, arg, ptr, taken>>
vars == <<pdata, head, tail, count, head_mtx, tail_mtx, slots_sem, items_sem,
          pc, op, arg, ptr, taken, unused>>

Slots == 0 .. Capacity - 1

Blocking == {"add_back", "add_front"}
Trying == {"try_add_back", "try_add_front"}
Adding == Blocking \cup Trying
Getting == {"get_back", "get_front"}
AtFront == {"add_front", "try_add_front", "get_front"}

Goto(t, from, to) == pc[t] = from /\ pc' = [pc EXCEPT ![t] = to]

\* (i + 1) % capacity and (i + capacity - 1) % capacity

After(i) == (i + 1) % Capacity
Before(i) == (i + Capacity - 1) % Capacity
-----------------------------------------------------------------------------
(* mtqueue_alloc() succeeded *)
Init ==
  /\ pdata = [i \in Slots |-> Empty]
  /\ head = 0
  /\ tail = 0
  /\ count = 0
  /\ head_mtx = NoThread
  /\ tail_mtx = NoThread
  /\ slots_sem = Capacity
  /\ items_sem = 0
  /\ pc = [t \in Threads |-> "idle"]
  /\ op = [t \in Threads |-> "get_front"]
  /\ arg = [t \in Threads |-> Empty]
  /\ ptr = [t \in Threads |-> 0]
  /\ taken = [t \in Threads |-> Empty]
  /\ unused = Values

Add(t, o, v) ==
  /\ pc[t] \in {"idle", "refused"}
  /\ pc' = [pc EXCEPT ![t] = "wait"]
  /\ op' = [op EXCEPT ![t] = o]
  /\ arg' = [arg EXCEPT ![t] = v]
  /\ unused' = unused \ {v}
  /\ UNCHANGED <<ring, mutexes, sems, ptr, taken>>

Get(t, o) ==
  /\ pc[t] \in {"idle", "refused"}
  /\ pc' = [pc EXCEPT ![t] = "wait"]
  /\ op' = [op EXCEPT ![t] = o]
  /\ UNCHANGED <<ring, mutexes, sems, arg, ptr, taken, unused>>

\* semaphore_wait(), or semaphore_trywait() that succeeds
Wait(t) ==
  /\ Goto(t, "wait", "lock")
  /\ IF op[t] \in Adding
     THEN slots_sem > 0 /\ slots_sem' = slots_sem - 1 /\ UNCHANGED items_sem
     ELSE items_sem > 0 /\ items_sem' = items_sem - 1 /\ UNCHANGED slots_sem
  /\ UNCHANGED <<ring, mutexes, locals, unused>>

\* semaphore_trywait() fails: the element is not added.
\* Mutation of Refuse: the last permit is kept back.
RefuseEarly(t) ==
  /\ Goto(t, "wait", "refused")
  /\ op[t] \in Trying
  /\ slots_sem <= 1
  /\ unused' = unused \cup {arg[t]}
  /\ arg' = [arg EXCEPT ![t] = Empty]
  /\ UNCHANGED <<ring, mutexes, sems, op, ptr, taken>>

Refuse(t) ==
  /\ Goto(t, "wait", "refused")
  /\ op[t] \in Trying
  /\ slots_sem = 0
  /\ unused' = unused \cup {arg[t]}
  /\ arg' = [arg EXCEPT ![t] = Empty]
  /\ UNCHANGED <<ring, mutexes, sems, op, ptr, taken>>

\* Mutation of Lock: the mutex is not waited for.
LockUnchecked(t) ==
  /\ Goto(t, "lock", "work")
  /\ IF op[t] \in AtFront
     THEN head_mtx' = t /\ UNCHANGED tail_mtx
     ELSE tail_mtx' = t /\ UNCHANGED head_mtx
  /\ UNCHANGED <<ring, sems, locals, unused>>

Lock(t) ==
  /\ Goto(t, "lock", "work")
  /\ IF op[t] \in AtFront
     THEN head_mtx = NoThread /\ head_mtx' = t /\ UNCHANGED tail_mtx
     ELSE tail_mtx = NoThread /\ tail_mtx' = t /\ UNCHANGED head_mtx
  /\ UNCHANGED <<ring, sems, locals, unused>>

(* The statements under the lock. *)
AddBack(t) ==
  /\ Goto(t, "work", "unlock")
  /\ op[t] \in Adding \ AtFront
  /\ pdata' = [pdata EXCEPT ![tail] = arg[t]]
  /\ tail' = After(tail)
  /\ count' = count + 1
  /\ UNCHANGED <<head, mutexes, sems, locals, unused>>

\* Mutation of AddFront: the element is copied before head moves.
AddFrontCopyFirst(t) ==
  /\ Goto(t, "work", "unlock")
  /\ op[t] \in Adding \cap AtFront
  /\ head' = Before(head)
  /\ pdata' = [pdata EXCEPT ![head] = arg[t]]
  /\ count' = count + 1
  /\ UNCHANGED <<tail, mutexes, sems, locals, unused>>

AddFront(t) ==
  /\ Goto(t, "work", "unlock")
  /\ op[t] \in Adding \cap AtFront
  /\ head' = Before(head)
  /\ pdata' = [pdata EXCEPT ![Before(head)] = arg[t]]
  /\ count' = count + 1
  /\ UNCHANGED <<tail, mutexes, sems, locals, unused>>

GetBack(t) ==
  /\ Goto(t, "work", "unlock")
  /\ op[t] = "get_back"
  /\ tail' = Before(tail)
  /\ count' = count - 1
  /\ taken' = [taken EXCEPT ![t] = pdata[Before(tail)]]
  /\ UNCHANGED <<pdata, head, mutexes, sems, op, arg, ptr, unused>>

GetFront(t) ==
  /\ Goto(t, "work", "unlock")
  /\ op[t] = "get_front"
  /\ ptr' = [ptr EXCEPT ![t] = head]
  /\ head' = After(head)
  /\ count' = count - 1
  /\ taken' = [taken EXCEPT ![t] = pdata[head]]
  /\ UNCHANGED <<pdata, tail, mutexes, sems, op, arg, unused>>

Unlock(t) ==
  /\ Goto(t, "unlock", "post")
  /\ IF op[t] \in AtFront
     THEN head_mtx' = NoThread /\ UNCHANGED tail_mtx
     ELSE tail_mtx' = NoThread /\ UNCHANGED head_mtx
  /\ UNCHANGED <<ring, sems, locals, unused>>

\* Mutation of PostItem: the post is missing.
PostItemMissing(t) ==
  /\ Goto(t, "post", "idle")
  /\ op[t] \in Adding
  /\ arg' = [arg EXCEPT ![t] = Empty]
  /\ UNCHANGED <<ring, mutexes, sems, op, ptr, taken, unused>>

\* semaphore_post(), the last statement of an add
PostItem(t) ==
  /\ Goto(t, "post", "idle")
  /\ op[t] \in Adding
  /\ items_sem' = items_sem + 1
  /\ arg' = [arg EXCEPT ![t] = Empty]
  /\ UNCHANGED <<ring, mutexes, slots_sem, op, ptr, taken, unused>>

\* Mutation of PostSlot: a get posts the semaphore it has waited for.
PostSlotSwapped(t) ==
  /\ Goto(t, "post", IF op[t] = "get_back" THEN "return" ELSE "use")
  /\ op[t] \in Getting
  /\ items_sem' = items_sem + 1
  /\ UNCHANGED <<ring, mutexes, slots_sem, locals, unused>>

\* After its semaphore_post() get_front returns the pointer it has computed;
\* get_back has yet to compute it.
PostSlot(t) ==
  /\ Goto(t, "post", IF op[t] = "get_back" THEN "return" ELSE "use")
  /\ op[t] \in Getting
  /\ slots_sem' = slots_sem + 1
  /\ UNCHANGED <<ring, mutexes, items_sem, locals, unused>>

\* return (q->pdata + q->tail * q->elemsize), with no lock held
ReturnBack(t) ==
  /\ Goto(t, "return", "use")
  /\ ptr' = [ptr EXCEPT ![t] = tail]
  /\ UNCHANGED <<ring, mutexes, sems, op, arg, taken, unused>>

\* The caller reads the element it was given.
Use(t) ==
  /\ Goto(t, "use", "idle")
  /\ ptr' = [ptr EXCEPT ![t] = 0]
  /\ taken' = [taken EXCEPT ![t] = Empty]
  /\ UNCHANGED <<ring, mutexes, sems, op, arg, unused>>

Step(t) ==
  \/ Wait(t) \/ Refuse(t) \/ Lock(t) \/ Unlock(t)
  \/ PostItem(t) \/ PostSlot(t)
  \/ AddBack(t) \/ AddFront(t) \/ GetBack(t) \/ GetFront(t)
  \/ ReturnBack(t) \/ Use(t)

Call(t) ==
  \/ \E o \in Adding, v \in unused : Add(t, o, v)
  \/ \E o \in Getting : Get(t, o)

Next == \E t \in Threads : Call(t) \/ Step(t)

Spec == Init /\ [][Next]_vars
-----------------------------------------------------------------------------
AddersAt(stages) == {t \in Threads : op[t] \in Adding /\ pc[t] \in stages}
GettersAt(stages) == {t \in Threads : op[t] \in Getting /\ pc[t] \in stages}

\* The elements in the queue, from front to back.
Contents == [i \in 1 .. count |-> pdata[(head + i - 1) % Capacity]]
Occupied == {(head + i) % Capacity : i \in 0 .. count - 1}

\* The slot an add is about to write.
Target(t) == IF op[t] \in AtFront THEN Before(head) ELSE tail

TypeOK ==
  /\ pdata \in [Slots -> Values \cup {Empty}]
  /\ head \in Slots /\ tail \in Slots
  /\ count \in 0 .. Capacity
  /\ head_mtx \in Threads \cup {NoThread}
  /\ tail_mtx \in Threads \cup {NoThread}
  /\ slots_sem \in 0 .. Capacity
  /\ items_sem \in 0 .. Capacity
  /\ pc \in [Threads -> {"idle", "refused", "wait", "lock", "work", "unlock",
                         "post", "return", "use"}]
  /\ op \in [Threads -> Adding \cup Getting]
  /\ arg \in [Threads -> Values \cup {Empty}]
  /\ ptr \in [Threads -> Slots]
  /\ taken \in [Threads -> Values \cup {Empty}]
  /\ unused \subseteq Values

(* Every permit is somewhere: in a semaphore, or held by a call under way, *)
(* so neither semaphore_post() can exceed the maximum of its semaphore,    *)
(* and the count agrees with what the semaphores have let through.         *)
PermitsBalance ==
  LET reserved == {"lock", "work", "unlock", "post"}
  IN /\ TypeOK
     /\ slots_sem + items_sem + Cardinality(AddersAt(reserved))
          + Cardinality(GettersAt(reserved)) = Capacity
     /\ count = items_sem + Cardinality(AddersAt({"unlock", "post"}))
                  + Cardinality(GettersAt({"lock", "work"}))

(* The two ends never collide though they have different mutexes: an add   *)
(* never writes the slot of a stored element, and an add_back and an       *)
(* add_front that copy at the same time write different slots.             *)
EndsApart ==
  \A t \in Threads : pc[t] = "work" /\ op[t] \in Adding =>
    /\ Target(t) \notin Occupied
    /\ \A u \in Threads \ {t} :
         pc[u] = "work" /\ op[u] \in Adding => Target(u) # Target(t)

(* Seen from outside the ring with its two mutexes and two semaphores is a *)
(* bounded deque whose operations are single steps, and a get takes the    *)
(* element at its end, whatever the other threads do at the same time.     *)
Deque == INSTANCE BoundedDeque WITH dq <- Contents, out <- taken, None <- Empty
DequeSpec == Deque!Spec

(* mtqueue_try_add_back() and mtqueue_try_add_front() refuse only when     *)
(* every slot holds an element or belongs to another call under way.       *)
RefusedOnlyWhenFull ==
  [][\A t \in Threads : Refuse(t) =>
       count + Cardinality(AddersAt({"lock", "work"}))
         + Cardinality(GettersAt({"unlock", "post"})) >= Capacity]_vars
=============================================================================
