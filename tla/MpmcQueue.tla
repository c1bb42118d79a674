----------------------------- MODULE MpmcQueue -----------------------------
(***************************************************************************)
(* The lock-free queue dg_mtqueue_mpmc_t of dglib_static/src/dg_queue.c,   *)
(* run by any number of threads.  One action is one access to shared       *)
(* memory: the fetch_add that draws a position, the load that inspects the *)
(* sequence number of the slot, the copy of the element, and the store     *)
(* that publishes or releases the slot.  dg_atomic.c makes each of the     *)
(* atomic accesses a full barrier, so interleaving them is faithful.       *)
(*                                                                         *)
(* put and got are history: the items whose add_back reached its publish,  *)
(* and those whose get_front reached its release, each under the position  *)
(* it was drawn for.                                                       *)
(***************************************************************************)
EXTENDS Integers, FiniteSets

CONSTANTS
  Threads,   (* the threads that call the queue                           *)
  Values,    (* the elements they store                                   *)
  Capacity,  (* q->capacity                                               *)
  WordSize,  (* the number of values of a size_t                          *)
  MaxPos     (* bound of the model: positions drawn on each side          *)

\* is_power_of_two(): the test mpmc_queue_alloc() makes of the capacity.
is_power_of_two(x) == \E k \in 0 .. x : x = 2^k

ASSUME MpmcAssumption ==
  /\ Capacity \in Nat \ {0}
  /\ is_power_of_two(Capacity)
  /\ MaxPos \in Nat
  /\ WordSize \in Nat \ {0}
  /\ MaxPos + Capacity < WordSize

VARIABLES
  enqueue_pos, dequeue_pos, seq, pdata,   \* the fields of the queue
  pc,        \* where each thread stands in its call
  pos,       \* its local variable pos
  elem,      \* the element it adds, or the one it has read
  put, got   \* history

queue == <<enqueue_pos, dequeue_pos, seq, pdata>>
locals == <<pos, elem>>
history == <<put, got>>
vars == <<enqueue_pos, dequeue_pos, seq, pdata, pc, pos, elem, put, got>>

Slots == 0 .. Capacity - 1

\* pos & q->mask, the mask being capacity - 1 for a power of two
Slot(p) == p % Capacity

Adding == {"add_check", "add_copy", "add_publish"}
Getting == {"get_check", "get_copy", "get_release"}

Goto(t, from, to) == pc[t] = from /\ pc' = [pc EXCEPT ![t] = to]
-----------------------------------------------------------------------------
(* mpmc_queue_alloc() succeeded *)
Init ==
  /\ enqueue_pos = 0
  /\ dequeue_pos = 0
  /\ seq = [i \in Slots |-> i]
  /\ pdata \in [Slots -> Values]           \* malloc leaves the slots as they are
  /\ pc = [t \in Threads |-> "idle"]
  /\ pos = [t \in Threads |-> 0]
  /\ elem \in [Threads -> Values]
  /\ put = {}
  /\ got = {}

(* mpmc_queue_add_back() *)
\* Mutation of AddTicket: a load and a store in place of the fetch_add.
AddTicketLoadStore(t, v) ==
  /\ enqueue_pos < MaxPos
  /\ Goto(t, "idle", "add_check")
  /\ pos' = [pos EXCEPT ![t] = enqueue_pos]
  /\ elem' = [elem EXCEPT ![t] = v]
  /\ enqueue_pos' \in {enqueue_pos, enqueue_pos + 1}
  /\ UNCHANGED <<dequeue_pos, seq, pdata, history>>

AddTicket(t, v) ==
  /\ enqueue_pos < MaxPos
  /\ Goto(t, "idle", "add_check")
  /\ pos' = [pos EXCEPT ![t] = enqueue_pos]
  /\ elem' = [elem EXCEPT ![t] = v]
  /\ enqueue_pos' = enqueue_pos + 1
  /\ UNCHANGED <<dequeue_pos, seq, pdata, history>>

\* Mutation of AddReady: the slot is used without a look at seq.
AddReadyUnchecked(t) ==
  /\ Goto(t, "add_check", "add_copy")
  /\ UNCHANGED <<queue, locals, history>>

AddReady(t) ==
  /\ Goto(t, "add_check", "add_copy")
  /\ seq[Slot(pos[t])] = pos[t]
  /\ UNCHANGED <<queue, locals, history>>

\* The call returns false; the position it drew is not given back.
AddFull(t) ==
  /\ Goto(t, "add_check", "idle")
  /\ seq[Slot(pos[t])] < pos[t]
  /\ UNCHANGED <<queue, locals, history>>

AddCopy(t) ==
  /\ Goto(t, "add_copy", "add_publish")
  /\ pdata' = [pdata EXCEPT ![Slot(pos[t])] = elem[t]]
  /\ UNCHANGED <<enqueue_pos, dequeue_pos, seq, locals, history>>

AddPublish(t) ==
  /\ Goto(t, "add_publish", "idle")
  /\ seq' = [seq EXCEPT ![Slot(pos[t])] = pos[t] + 1]
  /\ put' = put \cup {<<pos[t], elem[t]>>}
  /\ UNCHANGED <<enqueue_pos, dequeue_pos, pdata, locals, got>>

(* mpmc_queue_get_front() *)
GetTicket(t) ==
  /\ dequeue_pos < MaxPos
  /\ Goto(t, "idle", "get_check")
  /\ pos' = [pos EXCEPT ![t] = dequeue_pos]
  /\ dequeue_pos' = dequeue_pos + 1
  /\ UNCHANGED <<enqueue_pos, seq, pdata, elem, history>>

\* Mutation of GetReady: the number is compared with pos, not with pos + 1.
GetReadyEarly(t) ==
  /\ Goto(t, "get_check", "get_copy")
  /\ seq[Slot(pos[t])] >= pos[t]
  /\ UNCHANGED <<queue, locals, history>>

GetReady(t) ==
  /\ Goto(t, "get_check", "get_copy")
  /\ seq[Slot(pos[t])] = pos[t] + 1
  /\ UNCHANGED <<queue, locals, history>>

\* The call returns false; the position it drew is not given back.
GetEmpty(t) ==
  /\ Goto(t, "get_check", "idle")
  /\ seq[Slot(pos[t])] < pos[t] + 1
  /\ UNCHANGED <<queue, locals, history>>

GetCopy(t) ==
  /\ Goto(t, "get_copy", "get_release")
  /\ elem' = [elem EXCEPT ![t] = pdata[Slot(pos[t])]]
  /\ UNCHANGED <<queue, pos, history>>

\* Mutation of GetRelease: the slot is released for a position that is one
\* too far.
GetReleaseTooFar(t) ==
  /\ Goto(t, "get_release", "idle")
  /\ seq' = [seq EXCEPT ![Slot(pos[t])] = pos[t] + Capacity + 1]
  /\ got' = got \cup {<<pos[t], elem[t]>>}
  /\ UNCHANGED <<enqueue_pos, dequeue_pos, pdata, locals, put>>

GetRelease(t) ==
  /\ Goto(t, "get_release", "idle")
  /\ seq' = [seq EXCEPT ![Slot(pos[t])] = pos[t] + Capacity]
  /\ got' = got \cup {<<pos[t], elem[t]>>}
  /\ UNCHANGED <<enqueue_pos, dequeue_pos, pdata, locals, put>>

\* mpmc_queue_free() and mpmc_queue_alloc() again, by the owner of the queue,
\* when no thread is inside a call.
Recreate ==
  /\ \A t \in Threads : pc[t] = "idle"
  /\ enqueue_pos' = 0
  /\ dequeue_pos' = 0
  /\ seq' = [i \in Slots |-> i]
  /\ put' = {}
  /\ got' = {}
  /\ UNCHANGED <<pdata, pc, locals>>

Step(t) ==
  \/ AddReady(t) \/ AddFull(t) \/ AddCopy(t) \/ AddPublish(t)
  \/ GetReady(t) \/ GetEmpty(t) \/ GetCopy(t) \/ GetRelease(t)

Call(t) == GetTicket(t) \/ \E v \in Values : AddTicket(t, v)

Next == Recreate \/ \E t \in Threads : Call(t) \/ Step(t)

Spec == Init /\ [][Next]_vars

\* A thread inside a call keeps running; nobody has to call.
FairSpec == Spec /\ \A t \in Threads : WF_vars(Step(t))

\* mpmc_queue_is_empty() and mpmc_queue_is_full(): comparisons of size_t.
is_empty == enqueue_pos = dequeue_pos

\* Mutation of is_full: > in place of >=.
is_full_OffByOne == (enqueue_pos - dequeue_pos) % WordSize > Capacity

is_full == (enqueue_pos - dequeue_pos) % WordSize >= Capacity
-----------------------------------------------------------------------------
Tickets(S) == {x[1] : x \in S}
Stored == put \ got
Quiet == \A t \in Threads : pc[t] = "idle"
Touching(t) == pc[t] \in {"add_copy", "add_publish", "get_copy", "get_release"}

TypeOK ==
  /\ enqueue_pos \in 0 .. MaxPos
  /\ dequeue_pos \in 0 .. MaxPos
  /\ seq \in [Slots -> Nat]
  /\ pdata \in [Slots -> Values]
  /\ pc \in [Threads -> {"idle"} \cup Adding \cup Getting]
  /\ pos \in [Threads -> 0 .. MaxPos]
  /\ elem \in [Threads -> Values]
  /\ put \subseteq (0 .. MaxPos) \X Values
  /\ got \subseteq (0 .. MaxPos) \X Values

(* Two threads are never between the check and the final store on the same *)
(* slot: the memcpy of one never overlaps a memcpy of the other.           *)
SlotExclusive ==
  \A t, u \in Threads :
    Touching(t) /\ Touching(u) /\ t # u => Slot(pos[t]) # Slot(pos[u])

(* The branch "otherwise spin" of both loops is never taken: a thread      *)
(* that checks its slot finds the number it waits for, or a smaller one.   *)
NeverSpins ==
  \A t \in Threads :
    /\ pc[t] = "add_check" => seq[Slot(pos[t])] <= pos[t]
    /\ pc[t] = "get_check" => seq[Slot(pos[t])] <= pos[t] + 1

(* Nothing is invented, duplicated or torn: whatever a get_front hands out *)
(* was stored by the add_back that drew the same position, and one         *)
(* position is published at most once.                                     *)
DeliveredAsPut ==
  /\ got \subseteq put
  /\ \A x, y \in put : x[1] = y[1] => x = y

(* No more elements are published and not yet released than there are      *)
(* slots, so the queue is bounded as its header says.                      *)
Bounded == Cardinality(Stored) <= Capacity

(* With no call under way and no call that ever failed, the two size       *)
(* queries say what the queue holds.                                       *)
SizeQueriesAgree ==
  Quiet /\ enqueue_pos = Cardinality(put) /\ dequeue_pos = Cardinality(got)
    => /\ is_empty <=> Stored = {}
       /\ is_full <=> Cardinality(Stored) = Capacity

(* Every call returns: no thread waits for another one inside the queue.   *)
CallsReturn == \A t \in Threads : pc[t] # "idle" ~> pc[t] = "idle"

(* The queue implements the store of ItemStore: publishing stores an item, *)
(* releasing a slot takes it.                                              *)
Store == INSTANCE ItemStore WITH Ids <- 0 .. MaxPos
StoreSpec == Store!Spec
-----------------------------------------------------------------------------
(***************************************************************************)
(* The inductive invariant behind the properties above.  seq[i] is a       *)
(* baton: it never runs past the smallest position that still has to use   *)
(* slot i, on either side, and the call it names is the only one that may  *)
(* touch the slot.                                                         *)
(***************************************************************************)
Positions == 0 .. MaxPos

SameSide(t, u) ==
  \/ pc[t] \in Adding /\ pc[u] \in Adding
  \/ pc[t] \in Getting /\ pc[u] \in Getting

\* Calls under way on one side hold different positions, all drawn already.
TicketsDrawn ==
  \A t \in Threads :
    /\ pc[t] \in Adding => pos[t] < enqueue_pos
    /\ pc[t] \in Getting => pos[t] < dequeue_pos
    /\ \A u \in Threads \ {t} : SameSide(t, u) => pos[t] # pos[u]

\* What the check found still holds when the slot is used.
Turn ==
  \A t \in Threads :
    /\ pc[t] \in {"add_copy", "add_publish"} => seq[Slot(pos[t])] = pos[t]
    /\ pc[t] \in {"get_copy", "get_release"} => seq[Slot(pos[t])] = pos[t] + 1

\* No slot is ahead of a position that has not been drawn.
Ahead ==
  \A p \in Positions :
    /\ p >= enqueue_pos => seq[Slot(p)] <= p
    /\ p >= dequeue_pos => seq[Slot(p)] <= p + 1

\* The history only holds positions whose call has ended.
HistoryDrawn ==
  /\ \A x \in put : x[1] < enqueue_pos
  /\ \A x \in got : x[1] < dequeue_pos
  /\ \A t \in Threads :
       /\ pc[t] \in Adding => \A x \in put : x[1] # pos[t]
       /\ pc[t] \in Getting => \A x \in got : x[1] # pos[t]

\* A slot that says it is published holds the element of that position.
Content ==
  /\ \A p \in Positions : seq[Slot(p)] = p + 1 => <<p, pdata[Slot(p)]>> \in put
  /\ \A x \in put \ got : seq[Slot(x[1])] = x[1] + 1
  /\ \A t \in Threads :
       /\ pc[t] = "add_publish" => pdata[Slot(pos[t])] = elem[t]
       /\ pc[t] = "get_release" => <<pos[t], elem[t]>> \in put

SlotInv == TypeOK /\ TicketsDrawn /\ Turn /\ NeverSpins /\ Ahead

ItemInv == SlotInv /\ HistoryDrawn /\ Content /\ DeliveredAsPut
=============================================================================
