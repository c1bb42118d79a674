-------------------------- MODULE MpmcQueueProofs --------------------------
(***************************************************************************)
(* Proofs about MpmcQueue for every set of threads and values, and every   *)
(* power of two above one as Capacity.  SlotInv and ItemInv are inductive; *)
(* the theorems at the end follow from them.                               *)
(***************************************************************************)
EXTENDS MpmcQueue, FiniteSetTheorems, TLAPS

LEMMA SlotInSlots ==
  ASSUME NEW p \in Nat
  PROVE  Slot(p) \in Slots
BY MpmcAssumption DEF Slot, Slots

LEMMA SameSlot ==
  ASSUME NEW p \in Nat, NEW q \in Nat, Slot(p) = Slot(q), p < q
  PROVE  p + Capacity <= q
<1> DEFINE a == p \div Capacity
           b == q \div Capacity
           r == p % Capacity
<1>1. /\ a \in Int /\ b \in Int /\ r \in Int
      /\ Capacity \in Nat /\ Capacity > 0
  BY MpmcAssumption
<1>2. /\ p = Capacity * a + r
      /\ q = Capacity * b + r
  BY MpmcAssumption DEF Slot
<1>3. b > a
  <2> SUFFICES ASSUME b <= a PROVE FALSE
    BY <1>1
  <2>1. Capacity * b <= Capacity * a
    BY <1>1
  <2> QED
    BY <2>1, <1>1, <1>2
<1>4. Capacity * b >= Capacity * (a + 1)
  BY <1>1, <1>3
<1>5. Capacity * (a + 1) = Capacity * a + Capacity
  BY <1>1
<1> QED
  BY <1>1, <1>2, <1>4, <1>5

LEMMA SlotAtMost ==
  ASSUME NEW p \in Nat
  PROVE  Slot(p) <= p
BY MpmcAssumption DEF Slot

LEMMA SlotInvInit == Init => SlotInv
<1> SUFFICES ASSUME Init PROVE SlotInv
  OBVIOUS
<1> USE DEF Init
<1>1. TypeOK
  BY MpmcAssumption DEF TypeOK, Adding, Getting, Slots
<1>2. TicketsDrawn /\ Turn /\ NeverSpins
  BY DEF TicketsDrawn, SameSide, Turn, NeverSpins, Adding, Getting
<1>3. Ahead
  BY SlotInSlots, SlotAtMost, MpmcAssumption DEF Ahead, Positions, Slots
<1> QED
  BY <1>1, <1>2, <1>3 DEF SlotInv

LEMMA SlotInvNext ==
  ASSUME Capacity > 1, SlotInv, [Next]_vars
  PROVE  SlotInv'
<1> USE MpmcAssumption DEF SlotInv, TypeOK, Positions
<1>1. ASSUME NEW t \in Threads, NEW v \in Values, AddTicket(t, v)
      PROVE  SlotInv'
  <2> USE <1>1 DEF AddTicket, Goto, history
  <2>1. TypeOK'
    BY DEF Adding
  <2>2. TicketsDrawn'
    BY DEF TicketsDrawn, SameSide, Adding, Getting
  <2>3. Turn'
    BY DEF Turn
  <2>4. NeverSpins'
    BY DEF NeverSpins, Ahead
  <2>5. Ahead'
    BY DEF Ahead
  <2> QED
    BY <2>1, <2>2, <2>3, <2>4, <2>5
<1>2. ASSUME NEW t \in Threads, AddReady(t)
      PROVE  SlotInv'
  <2> USE <1>2 DEF AddReady, Goto, history, queue, locals
  <2>1. TypeOK'
    BY DEF Adding, Getting
  <2>2. TicketsDrawn'
    BY DEF TicketsDrawn, SameSide, Adding, Getting
  <2>3. Turn' /\ NeverSpins' /\ Ahead'
    BY DEF Turn, NeverSpins, Ahead
  <2> QED
    BY <2>1, <2>2, <2>3
<1>3. ASSUME NEW t \in Threads, AddFull(t)
      PROVE  SlotInv'
  <2> USE <1>3 DEF AddFull, Goto, history, queue, locals
  <2>1. TypeOK'
    BY DEF Adding, Getting
  <2>2. TicketsDrawn'
    BY DEF TicketsDrawn, SameSide, Adding, Getting
  <2>3. Turn' /\ NeverSpins' /\ Ahead'
    BY DEF Turn, NeverSpins, Ahead
  <2> QED
    BY <2>1, <2>2, <2>3
<1>4. ASSUME NEW t \in Threads, AddCopy(t)
      PROVE  SlotInv'
  <2> USE <1>4 DEF AddCopy, Goto, history, locals
  <2>1. TypeOK'
    BY SlotInSlots DEF Adding, Getting
  <2>2. TicketsDrawn'
    BY DEF TicketsDrawn, SameSide, Adding, Getting
  <2>3. Turn' /\ NeverSpins' /\ Ahead'
    BY DEF Turn, NeverSpins, Ahead
  <2> QED
    BY <2>1, <2>2, <2>3
<1>5. ASSUME NEW t \in Threads, AddPublish(t)
      PROVE  SlotInv'
  <2> USE <1>5 DEF AddPublish, Goto, locals
  <2>0. /\ pos[t] \in Nat /\ pos[t] < enqueue_pos
        /\ seq[Slot(pos[t])] = pos[t]
        /\ Slot(pos[t]) \in Slots
    BY SlotInSlots DEF Turn, TicketsDrawn, Adding
  <2>1. TypeOK'
    BY <2>0 DEF Adding
  <2>2. TicketsDrawn'
    BY DEF TicketsDrawn, SameSide, Adding, Getting
  <2>3. Turn'
    <3> SUFFICES ASSUME NEW u \in Threads, u # t, Slot(pos[u]) = Slot(pos[t]),
                        pc[u] \in {"add_copy", "add_publish", "get_copy", "get_release"}
                 PROVE  FALSE
      BY <2>0 DEF Turn
    <3>1. pc[u] \notin {"add_copy", "add_publish"}
      BY <2>0 DEF Turn, TicketsDrawn, SameSide, Adding
    <3>2. pos[t] = pos[u] + 1
      BY <2>0, <3>1 DEF Turn
    <3> QED
      BY <2>0, <3>2, SameSlot
  <2>4. NeverSpins'
    <3> SUFFICES ASSUME NEW u \in Threads, u # t, Slot(pos[u]) = Slot(pos[t]),
                        pc[u] \in {"add_check", "get_check"}
                 PROVE  NeverSpins!(u)'
      BY <2>0 DEF NeverSpins
    <3>1. CASE pc[u] = "add_check"
      BY <2>0, <3>1, SameSlot DEF NeverSpins, TicketsDrawn, SameSide, Adding
    <3>2. CASE pc[u] = "get_check"
      BY <2>0, <3>2, SameSlot DEF NeverSpins
    <3> QED
      BY <3>1, <3>2
  <2>5. Ahead'
    BY <2>0, SameSlot DEF Ahead
  <2> QED
    BY <2>1, <2>2, <2>3, <2>4, <2>5
<1>6. ASSUME NEW t \in Threads, GetTicket(t)
      PROVE  SlotInv'
  <2> USE <1>6 DEF GetTicket, Goto, history
  <2>1. TypeOK'
    BY DEF Getting
  <2>2. TicketsDrawn'
    BY DEF TicketsDrawn, SameSide, Adding, Getting
  <2>3. Turn' /\ NeverSpins' /\ Ahead'
    BY DEF Turn, NeverSpins, Ahead
  <2> QED
    BY <2>1, <2>2, <2>3
<1>7. ASSUME NEW t \in Threads, GetReady(t)
      PROVE  SlotInv'
  <2> USE <1>7 DEF GetReady, Goto, history, queue, locals
  <2>1. TypeOK'
    BY DEF Adding, Getting
  <2>2. TicketsDrawn'
    BY DEF TicketsDrawn, SameSide, Adding, Getting
  <2>3. Turn' /\ NeverSpins' /\ Ahead'
    BY DEF Turn, NeverSpins, Ahead
  <2> QED
    BY <2>1, <2>2, <2>3
<1>8. ASSUME NEW t \in Threads, GetEmpty(t)
      PROVE  SlotInv'
  <2> USE <1>8 DEF GetEmpty, Goto, history, queue, locals
  <2>1. TypeOK'
    BY DEF Adding, Getting
  <2>2. TicketsDrawn'
    BY DEF TicketsDrawn, SameSide, Adding, Getting
  <2>3. Turn' /\ NeverSpins' /\ Ahead'
    BY DEF Turn, NeverSpins, Ahead
  <2> QED
    BY <2>1, <2>2, <2>3
<1>9. ASSUME NEW t \in Threads, GetCopy(t)
      PROVE  SlotInv'
  <2> USE <1>9 DEF GetCopy, Goto, history, queue
  <2>1. TypeOK'
    BY SlotInSlots DEF Adding, Getting
  <2>2. TicketsDrawn'
    BY DEF TicketsDrawn, SameSide, Adding, Getting
  <2>3. Turn' /\ NeverSpins' /\ Ahead'
    BY DEF Turn, NeverSpins, Ahead
  <2> QED
    BY <2>1, <2>2, <2>3
<1>10. ASSUME NEW t \in Threads, GetRelease(t)
      PROVE  SlotInv'
  <2> USE <1>10 DEF GetRelease, Goto, locals
  <2>0. /\ pos[t] \in Nat /\ pos[t] < dequeue_pos
        /\ seq[Slot(pos[t])] = pos[t] + 1
        /\ Slot(pos[t]) \in Slots
    BY SlotInSlots DEF Turn, TicketsDrawn, Getting
  <2>1. TypeOK'
    BY <2>0 DEF Getting
  <2>2. TicketsDrawn'
    BY DEF TicketsDrawn, SameSide, Adding, Getting
  <2>3. Turn'
    <3> SUFFICES ASSUME NEW u \in Threads, u # t, Slot(pos[u]) = Slot(pos[t]),
                        pc[u] \in {"add_copy", "add_publish", "get_copy", "get_release"}
                 PROVE  FALSE
      BY <2>0 DEF Turn
    <3>1. pc[u] \notin {"get_copy", "get_release"}
      BY <2>0 DEF Turn, TicketsDrawn, SameSide, Getting
    <3>2. pos[u] = pos[t] + 1
      BY <2>0, <3>1 DEF Turn
    <3> QED
      BY <2>0, <3>2, SameSlot
  <2>4. NeverSpins'
    <3> SUFFICES ASSUME NEW u \in Threads, u # t, Slot(pos[u]) = Slot(pos[t]),
                        pc[u] \in {"add_check", "get_check"}
                 PROVE  NeverSpins!(u)'
      BY <2>0 DEF NeverSpins
    <3>1. CASE pc[u] = "add_check"
      BY <2>0, <3>1, SameSlot DEF NeverSpins
    <3>2. CASE pc[u] = "get_check"
      <4>1. pos[t] <= pos[u] /\ pos[t] # pos[u]
        BY <2>0, <3>2 DEF NeverSpins, TicketsDrawn, SameSide, Getting
      <4> QED
        BY <2>0, <3>2, <4>1, SameSlot
    <3> QED
      BY <3>1, <3>2
  <2>5. Ahead'
    BY <2>0, SameSlot DEF Ahead
  <2> QED
    BY <2>1, <2>2, <2>3, <2>4, <2>5
<1>11. CASE Recreate
  <2> USE <1>11 DEF Recreate, locals
  <2>1. TypeOK'
    BY DEF Slots
  <2>2. TicketsDrawn' /\ Turn' /\ NeverSpins'
    BY DEF TicketsDrawn, SameSide, Turn, NeverSpins, Adding, Getting
  <2>3. ASSUME NEW p \in Nat
        PROVE  seq'[Slot(p)] \in Nat /\ seq'[Slot(p)] <= p
    <3>1. Slot(p) \in Slots /\ Slot(p) <= p
      BY SlotInSlots, SlotAtMost
    <3>2. seq'[Slot(p)] = Slot(p)
      BY <3>1
    <3> QED
      BY <3>1, <3>2 DEF Slots
  <2>4. Ahead'
    BY <2>3 DEF Ahead
  <2> QED
    BY <2>1, <2>2, <2>4
<1>12. CASE UNCHANGED vars
  BY <1>12 DEF vars, TicketsDrawn, SameSide, Turn, NeverSpins, Ahead
<1> QED
  BY <1>1, <1>2, <1>3, <1>4, <1>5, <1>6, <1>7, <1>8, <1>9, <1>10, <1>11, <1>12
  DEF Next, Call, Step

(* The fields of the queue and the threads' locals keep their types, and   *)
(* the calls stay within the positions drawn.                              *)
THEOREM TypeCorrect ==
  ASSUME Capacity > 1
  PROVE  Spec => []TypeOK
<1>1. SlotInv => TypeOK
  BY DEF SlotInv
<1> QED
  BY SlotInvInit, SlotInvNext, <1>1, PTL DEF Spec

(* mpmc_queue_add_back() and mpmc_queue_get_front(): no thread ever enters *)
(* the branch "otherwise spin", whatever the number of threads.            *)
THEOREM SpinFree ==
  ASSUME Capacity > 1
  PROVE  Spec => []NeverSpins
<1>1. SlotInv => NeverSpins
  BY DEF SlotInv
<1> QED
  BY SlotInvInit, SlotInvNext, <1>1, PTL DEF Spec

(* The memcpy calls of mpmc_queue_add_back() and mpmc_queue_get_front()    *)
(* never overlap on one slot, for every number of threads and every        *)
(* capacity above one.                                                     *)
THEOREM CopiesAreExclusive ==
  ASSUME Capacity > 1
  PROVE  Spec => []SlotExclusive
<1>1. SlotInv => SlotExclusive
  <2> SUFFICES ASSUME SlotInv, NEW t \in Threads, NEW u \in Threads, t # u,
                      Touching(t), Touching(u), Slot(pos[t]) = Slot(pos[u])
               PROVE  FALSE
    BY DEF SlotExclusive
  <2>1. pos[t] \in Nat /\ pos[u] \in Nat
    BY MpmcAssumption DEF SlotInv, TypeOK
  <2>2. pos[t] # pos[u] => pos[t] = pos[u] + 1 \/ pos[u] = pos[t] + 1
    BY <2>1 DEF SlotInv, Turn, Touching
  <2>3. pos[t] # pos[u]
    BY <2>1 DEF SlotInv, Turn, Touching, TicketsDrawn, SameSide, Adding, Getting
  <2> QED
    BY <2>1, <2>2, <2>3, SameSlot, MpmcAssumption
<1> QED
  BY SlotInvInit, SlotInvNext, <1>1, PTL DEF Spec

-----------------------------------------------------------------------------
(* The elements: what is published, what is handed out, what a slot holds. *)

LEMMA ItemInvInit == Init => ItemInv
<1> SUFFICES ASSUME Init PROVE ItemInv
  OBVIOUS
<1>1. SlotInv
  BY SlotInvInit
<1>2. HistoryDrawn /\ DeliveredAsPut
  BY DEF Init, HistoryDrawn, DeliveredAsPut
<1>3. Content
  <2>1. ASSUME NEW p \in Positions
        PROVE  seq[Slot(p)] # p + 1
    <3>1. p \in Nat /\ Slot(p) \in Slots /\ Slot(p) <= p
      BY SlotInSlots, SlotAtMost, MpmcAssumption DEF Positions
    <3>2. seq[Slot(p)] = Slot(p)
      BY <3>1 DEF Init
    <3> QED
      BY <3>1, <3>2 DEF Slots
  <2> QED
    BY <2>1 DEF Init, Content
<1> QED
  BY <1>1, <1>2, <1>3 DEF ItemInv

LEMMA ItemInvNext ==
  ASSUME Capacity > 1, ItemInv, [Next]_vars
  PROVE  ItemInv'
<1>0. SlotInv'
  BY SlotInvNext DEF ItemInv
<1> SUFFICES HistoryDrawn' /\ Content' /\ DeliveredAsPut'
  BY <1>0 DEF ItemInv
<1> USE MpmcAssumption DEF ItemInv, SlotInv, TypeOK, Positions
<1>1. ASSUME NEW t \in Threads, NEW v \in Values, AddTicket(t, v)
      PROVE  HistoryDrawn' /\ Content' /\ DeliveredAsPut'
  <2> USE <1>1 DEF AddTicket, Goto, history
  <2>1. HistoryDrawn'
    BY DEF HistoryDrawn, Adding, Getting
  <2>2. Content'
    BY DEF Content
  <2>3. DeliveredAsPut'
    BY DEF DeliveredAsPut
  <2> QED
    BY <2>1, <2>2, <2>3
<1>2. ASSUME NEW t \in Threads, AddReady(t)
      PROVE  HistoryDrawn' /\ Content' /\ DeliveredAsPut'
  <2> USE <1>2 DEF AddReady, Goto, history, queue, locals
  <2>1. HistoryDrawn'
    BY DEF HistoryDrawn, Adding, Getting
  <2>2. Content'
    BY DEF Content
  <2>3. DeliveredAsPut'
    BY DEF DeliveredAsPut
  <2> QED
    BY <2>1, <2>2, <2>3
<1>3. ASSUME NEW t \in Threads, AddFull(t)
      PROVE  HistoryDrawn' /\ Content' /\ DeliveredAsPut'
  <2> USE <1>3 DEF AddFull, Goto, history, queue, locals
  <2>1. HistoryDrawn'
    BY DEF HistoryDrawn, Adding, Getting
  <2>2. Content'
    BY DEF Content
  <2>3. DeliveredAsPut'
    BY DEF DeliveredAsPut
  <2> QED
    BY <2>1, <2>2, <2>3
<1>4. ASSUME NEW t \in Threads, AddCopy(t)
      PROVE  HistoryDrawn' /\ Content' /\ DeliveredAsPut'
  <2> USE <1>4 DEF AddCopy, Goto, history, locals
  <2>0. /\ pos[t] \in Nat
        /\ seq[Slot(pos[t])] = pos[t]
        /\ Slot(pos[t]) \in Slots
    BY SlotInSlots DEF Turn
  <2>1. HistoryDrawn'
    BY DEF HistoryDrawn, Adding, Getting
  <2>2. Content'
    <3>1. ASSUME NEW p \in Positions, seq[Slot(p)] = p + 1
          PROVE  Slot(p) # Slot(pos[t])
      BY <2>0, <3>1, SameSlot
    <3>2. \A p \in Positions : seq[Slot(p)] = p + 1 => <<p, pdata'[Slot(p)]>> \in put
      BY <3>1, <2>0 DEF Content
    <3>3. ASSUME NEW u \in Threads, u # t, pc[u] = "add_publish"
          PROVE  Slot(pos[u]) # Slot(pos[t])
      BY <2>0, <3>3 DEF Turn, TicketsDrawn, SameSide, Adding
    <3>4. ASSUME NEW u \in Threads, pc'[u] = "add_publish"
          PROVE  pdata'[Slot(pos[u])] = elem[u]
      <4>1. CASE u = t
        BY <2>0, <4>1
      <4>2. CASE u # t
        <5>1. pc[u] = "add_publish" /\ Slot(pos[u]) \in Slots
          BY <3>4, <4>2, SlotInSlots
        <5> QED
          BY <2>0, <3>3, <4>2, <5>1 DEF Content
      <4> QED
        BY <4>1, <4>2
    <3> QED
      BY <3>2, <3>4 DEF Content
  <2>3. DeliveredAsPut'
    BY DEF DeliveredAsPut
  <2> QED
    BY <2>1, <2>2, <2>3
<1>5. ASSUME NEW t \in Threads, AddPublish(t)
      PROVE  HistoryDrawn' /\ Content' /\ DeliveredAsPut'
  <2> USE <1>5 DEF AddPublish, Goto, locals
  <2>0. /\ pos[t] \in Nat /\ pos[t] < enqueue_pos
        /\ seq[Slot(pos[t])] = pos[t]
        /\ Slot(pos[t]) \in Slots
    BY SlotInSlots DEF Turn, TicketsDrawn, Adding
  <2>1. HistoryDrawn'
    BY <2>0 DEF HistoryDrawn, TicketsDrawn, SameSide, Adding, Getting
  <2>2. Content'
    <3>1. ASSUME NEW p \in Positions, seq'[Slot(p)] = p + 1
          PROVE  <<p, pdata[Slot(p)]>> \in put'
      <4>1. CASE Slot(p) = Slot(pos[t])
        <5>1. p = pos[t]
          BY <2>0, <3>1, <4>1
        <5>2. pdata[Slot(pos[t])] = elem[t]
          BY DEF Content
        <5> QED
          BY <5>1, <5>2
      <4>2. CASE Slot(p) # Slot(pos[t])
        <5>1. Slot(p) \in Slots /\ seq[Slot(p)] = p + 1
          BY <2>0, <3>1, <4>2, SlotInSlots
        <5> QED
          BY <5>1 DEF Content
      <4> QED
        BY <4>1, <4>2
    <3>2. ASSUME NEW x \in put, x \notin got
          PROVE  x[1] \in Nat /\ Slot(x[1]) # Slot(pos[t])
      <4>1. x[1] \in Nat /\ seq[Slot(x[1])] = x[1] + 1
        BY <3>2 DEF Content
      <4> QED
        BY <2>0, <4>1, SameSlot
    <3>3. \A x \in put' \ got' : seq'[Slot(x[1])] = x[1] + 1
      BY <2>0, <3>2 DEF Content
    <3> QED
      BY <3>1, <3>3 DEF Content
  <2>3. DeliveredAsPut'
    BY DEF DeliveredAsPut, HistoryDrawn, Adding
  <2> QED
    BY <2>1, <2>2, <2>3
<1>6. ASSUME NEW t \in Threads, GetTicket(t)
      PROVE  HistoryDrawn' /\ Content' /\ DeliveredAsPut'
  <2> USE <1>6 DEF GetTicket, Goto, history
  <2>1. HistoryDrawn'
    BY DEF HistoryDrawn, Adding, Getting
  <2>2. Content'
    BY DEF Content
  <2>3. DeliveredAsPut'
    BY DEF DeliveredAsPut
  <2> QED
    BY <2>1, <2>2, <2>3
<1>7. ASSUME NEW t \in Threads, GetReady(t)
      PROVE  HistoryDrawn' /\ Content' /\ DeliveredAsPut'
  <2> USE <1>7 DEF GetReady, Goto, history, queue, locals
  <2>1. HistoryDrawn'
    BY DEF HistoryDrawn, Adding, Getting
  <2>2. Content'
    BY DEF Content
  <2>3. DeliveredAsPut'
    BY DEF DeliveredAsPut
  <2> QED
    BY <2>1, <2>2, <2>3
<1>8. ASSUME NEW t \in Threads, GetEmpty(t)
      PROVE  HistoryDrawn' /\ Content' /\ DeliveredAsPut'
  <2> USE <1>8 DEF GetEmpty, Goto, history, queue, locals
  <2>1. HistoryDrawn'
    BY DEF HistoryDrawn, Adding, Getting
  <2>2. Content'
    BY DEF Content
  <2>3. DeliveredAsPut'
    BY DEF DeliveredAsPut
  <2> QED
    BY <2>1, <2>2, <2>3
<1>9. ASSUME NEW t \in Threads, GetCopy(t)
      PROVE  HistoryDrawn' /\ Content' /\ DeliveredAsPut'
  <2> USE <1>9 DEF GetCopy, Goto, history, queue
  <2>0. pos[t] \in Positions /\ seq[Slot(pos[t])] = pos[t] + 1
    BY DEF Turn
  <2>1. HistoryDrawn'
    BY DEF HistoryDrawn, Adding, Getting
  <2>2. Content'
    BY <2>0 DEF Content
  <2>3. DeliveredAsPut'
    BY DEF DeliveredAsPut
  <2> QED
    BY <2>1, <2>2, <2>3
<1>10. ASSUME NEW t \in Threads, GetRelease(t)
       PROVE  HistoryDrawn' /\ Content' /\ DeliveredAsPut'
  <2> USE <1>10 DEF GetRelease, Goto, locals
  <2>0. /\ pos[t] \in Nat /\ pos[t] < dequeue_pos
        /\ seq[Slot(pos[t])] = pos[t] + 1
        /\ Slot(pos[t]) \in Slots
        /\ <<pos[t], elem[t]>> \in put
    BY SlotInSlots DEF Turn, TicketsDrawn, Getting, Content
  <2>1. HistoryDrawn'
    BY <2>0 DEF HistoryDrawn, TicketsDrawn, SameSide, Adding, Getting
  <2>2. Content'
    <3>1. ASSUME NEW p \in Positions, seq'[Slot(p)] = p + 1
          PROVE  Slot(p) # Slot(pos[t])
      BY <2>0, <3>1, SameSlot
    <3>2. \A p \in Positions : seq'[Slot(p)] = p + 1 => <<p, pdata[Slot(p)]>> \in put
      BY <2>0, <3>1 DEF Content
    <3>3. ASSUME NEW x \in put \ got'
          PROVE  seq'[Slot(x[1])] = x[1] + 1
      <4>1. x[1] \in Nat /\ seq[Slot(x[1])] = x[1] + 1
        BY DEF Content
      <4>2. x[1] # pos[t]
        BY <2>0 DEF DeliveredAsPut
      <4>3. Slot(x[1]) # Slot(pos[t])
        BY <2>0, <4>1, <4>2
      <4> QED
        BY <2>0, <4>1, <4>3
    <3> QED
      BY <3>2, <3>3 DEF Content
  <2>3. DeliveredAsPut'
    BY <2>0 DEF DeliveredAsPut
  <2> QED
    BY <2>1, <2>2, <2>3
<1>11. CASE Recreate
  <2> USE <1>11 DEF Recreate, locals
  <2>1. HistoryDrawn' /\ DeliveredAsPut'
    BY DEF HistoryDrawn, DeliveredAsPut, Adding, Getting
  <2>2. ASSUME NEW p \in Positions
        PROVE  seq'[Slot(p)] # p + 1
    <3>1. p \in Nat /\ Slot(p) \in Slots /\ Slot(p) <= p
      BY SlotInSlots, SlotAtMost
    <3>2. seq'[Slot(p)] = Slot(p)
      BY <3>1
    <3> QED
      BY <3>1, <3>2 DEF Slots
  <2>3. Content'
    BY <2>2 DEF Content
  <2> QED
    BY <2>1, <2>3
<1>12. CASE UNCHANGED vars
  BY <1>12 DEF vars, HistoryDrawn, Content, DeliveredAsPut
<1> QED
  BY <1>1, <1>2, <1>3, <1>4, <1>5, <1>6, <1>7, <1>8, <1>9, <1>10, <1>11, <1>12
  DEF Next, Call, Step

(* The inductive invariant of the queue: the batons of the slots, the      *)
(* positions of the calls under way, and the elements, all together.       *)
THEOREM ItemsInvariant ==
  ASSUME Capacity > 1
  PROVE  Spec => []ItemInv
BY ItemInvInit, ItemInvNext, PTL DEF Spec

(* mpmc_queue_get_front() hands out exactly what one mpmc_queue_add_back() *)
(* stored under the same position, and never twice.                        *)
THEOREM DeliveryIsExact ==
  ASSUME Capacity > 1
  PROVE  Spec => []DeliveredAsPut
<1>1. ItemInv => DeliveredAsPut
  BY DEF ItemInv
<1> QED
  BY ItemInvInit, ItemInvNext, <1>1, PTL DEF Spec

-----------------------------------------------------------------------------
(* The bound on what is stored, and the refinement of ItemStore.           *)

LEMMA SlotCount == IsFiniteSet(Slots) /\ Cardinality(Slots) = Capacity
<1>1. /\ 0 \in Int /\ Capacity - 1 \in Int /\ Capacity > 0
  BY MpmcAssumption
<1>2. /\ IsFiniteSet(0 .. Capacity - 1)
      /\ Cardinality(0 .. Capacity - 1)
           = IF 0 > Capacity - 1 THEN 0 ELSE Capacity - 1 - 0 + 1
  BY <1>1, FS_Interval
<1> QED
  BY <1>1, <1>2, MpmcAssumption DEF Slots

\* Stored elements sit in different slots.
LEMMA Occupancy ==
  ASSUME ItemInv, NEW T \in SUBSET Slots, \A x \in Stored : Slot(x[1]) \in T
  PROVE  /\ IsFiniteSet(Stored)
         /\ Cardinality(Stored) <= Cardinality(T)
<1> DEFINE f == [x \in Stored |-> Slot(x[1])]
<1>1. IsFiniteSet(T)
  BY SlotCount, FS_Subset
<1>2. ASSUME NEW x \in Stored, NEW y \in Stored, Slot(x[1]) = Slot(y[1])
      PROVE  x = y
  <2>1. /\ x \in put /\ y \in put
        /\ x[1] \in Nat /\ y[1] \in Nat
    BY MpmcAssumption DEF Stored, ItemInv, SlotInv, TypeOK
  <2>2. x[1] + 1 = y[1] + 1
    BY <1>2 DEF ItemInv, Content, Stored
  <2> QED
    BY <2>1, <2>2 DEF ItemInv, DeliveredAsPut
<1>3. f \in Injection(Stored, T)
  BY <1>2 DEF Injection, IsInjective
<1> QED
  BY <1>1, <1>3, FS_Injection

(* "Lock-free bounded": the queue never stores more than capacity elements.*)
THEOREM QueueIsBounded ==
  ASSUME Capacity > 1
  PROVE  Spec => []Bounded
<1>1. ItemInv => Bounded
  <2> SUFFICES ASSUME ItemInv PROVE Bounded
    OBVIOUS
  <2>1. \A x \in Stored : Slot(x[1]) \in Slots
    BY SlotInSlots, MpmcAssumption DEF Stored, ItemInv, SlotInv, TypeOK
  <2> QED
    BY <2>1, Occupancy, SlotCount DEF Bounded
<1> QED
  BY ItemInvInit, ItemInvNext, <1>1, PTL DEF Spec

\* What was ever published is finite: one element for a position.
LEMMA HistoryFinite ==
  ASSUME ItemInv
  PROVE  /\ IsFiniteSet(put) /\ IsFiniteSet(got)
         /\ Cardinality(put) \in Nat /\ Cardinality(got) \in Nat
         /\ Cardinality(Stored) = Cardinality(put) - Cardinality(got)
<1> DEFINE f == [x \in put |-> x[1]]
<1>1. f \in Injection(put, Positions)
  BY DEF Injection, IsInjective, ItemInv, SlotInv, TypeOK, DeliveredAsPut, Positions
<1>2. IsFiniteSet(Positions)
  <2>1. 0 \in Int /\ MaxPos \in Int
    BY MpmcAssumption
  <2> QED
    BY <2>1, FS_Interval DEF Positions
<1>3. IsFiniteSet(put)
  BY <1>1, <1>2, FS_Injection
<1>4. got \in SUBSET put /\ put \cap got = got
  BY DEF ItemInv, DeliveredAsPut
<1>5. IsFiniteSet(got)
  BY <1>3, <1>4, FS_Subset
<1>6. Cardinality(Stored) = Cardinality(put) - Cardinality(put \cap got)
  BY <1>3, FS_Difference DEF Stored
<1> QED
  BY <1>3, <1>4, <1>5, <1>6, FS_CardinalityType

(* mpmc_queue_is_empty() and mpmc_queue_is_full(): as long as no call has  *)
(* failed, the difference of the two positions, taken with the wrap of a   *)
(* size_t, is the number of elements stored, so both answers are right.    *)
THEOREM SizeQueriesAreRight ==
  ASSUME Capacity > 1
  PROVE  Spec => []SizeQueriesAgree
<1>1. ItemInv => SizeQueriesAgree
  <2> SUFFICES ASSUME ItemInv,
                      enqueue_pos = Cardinality(put),
                      dequeue_pos = Cardinality(got)
               PROVE  /\ is_empty <=> Stored = {}
                      /\ is_full <=> Cardinality(Stored) = Capacity
    BY DEF SizeQueriesAgree
  <2>1. /\ enqueue_pos \in Nat /\ dequeue_pos \in Nat
        /\ Cardinality(Stored) = enqueue_pos - dequeue_pos
    BY HistoryFinite
  <2>2. \A x \in Stored : Slot(x[1]) \in Slots
    BY SlotInSlots, MpmcAssumption DEF Stored, ItemInv, SlotInv, TypeOK
  <2>3. /\ IsFiniteSet(Stored)
        /\ Cardinality(Stored) <= Capacity
    BY <2>2, Occupancy, SlotCount
  <2>4. Cardinality(Stored) \in Nat /\ (Cardinality(Stored) = 0 <=> Stored = {})
    BY <2>3, FS_CardinalityType, FS_EmptySet
  <2>5. (enqueue_pos - dequeue_pos) % WordSize = enqueue_pos - dequeue_pos
    BY <2>1, <2>3, <2>4, MpmcAssumption
  <2>6. is_empty <=> Stored = {}
    BY <2>1, <2>4 DEF is_empty
  <2>7. is_full <=> Cardinality(Stored) = Capacity
    BY <2>1, <2>3, <2>4, <2>5, MpmcAssumption DEF is_full
  <2> QED
    BY <2>6, <2>7
<1> QED
  BY ItemInvInit, ItemInvNext, <1>1, PTL DEF Spec

LEMMA RefinesStep ==
  ASSUME Capacity > 1, ItemInv, [Next]_vars
  PROVE  [Store!Next]_(Store!vars)
<1> USE DEF Store!vars
<1>1. ASSUME NEW t \in Threads, AddPublish(t)
      PROVE  Store!Next
  <2> DEFINE T == Slots \ {Slot(pos[t])}
  <2>0. /\ pos[t] \in 0 .. MaxPos /\ pos[t] \in Nat
        /\ elem[t] \in Values
        /\ seq[Slot(pos[t])] = pos[t]
        /\ Slot(pos[t]) \in Slots
    BY <1>1, SlotInSlots, MpmcAssumption
    DEF AddPublish, Goto, ItemInv, SlotInv, TypeOK, Turn
  <2>1. \A x \in put : x[1] # pos[t]
    BY <1>1 DEF AddPublish, Goto, ItemInv, HistoryDrawn, Adding
  <2>2. ASSUME NEW x \in Stored
        PROVE  Slot(x[1]) \in T
    <3>1. x[1] \in Nat /\ Slot(x[1]) \in Slots /\ seq[Slot(x[1])] = x[1] + 1
      BY SlotInSlots, MpmcAssumption DEF Stored, ItemInv, SlotInv, TypeOK, Content
    <3> QED
      BY <2>0, <3>1, SameSlot, MpmcAssumption
  <2>3. Cardinality(T) = Capacity - 1
    BY <2>0, SlotCount, FS_RemoveElement
  <2>4. IsFiniteSet(Stored) /\ Cardinality(Stored) <= Capacity - 1
    BY <2>2, <2>3, Occupancy
  <2>5. Store!Cardinality(Store!Stored) < Capacity
    <3>1. Store!Cardinality(Store!Stored) = Cardinality(Stored)
      BY DEF Store!Cardinality, Cardinality, Store!Stored, Stored
    <3> QED
      BY <3>1, <2>4, FS_CardinalityType, MpmcAssumption
  <2>6. put' = put \cup {<<pos[t], elem[t]>>} /\ got' = got
    BY <1>1 DEF AddPublish
  <2>7. Store!Put(pos[t], elem[t])
    BY <2>1, <2>5, <2>6 DEF Store!Put
  <2> QED
    BY <2>0, <2>7 DEF Store!Next
<1>2. ASSUME NEW t \in Threads, GetRelease(t)
      PROVE  Store!Next
  <2> DEFINE x == <<pos[t], elem[t]>>
  <2>1. x \in put
    BY <1>2 DEF GetRelease, Goto, ItemInv, Content
  <2>2. x \notin got
    BY <1>2 DEF GetRelease, Goto, ItemInv, HistoryDrawn, Getting
  <2>3. got' = got \cup {x} /\ put' = put
    BY <1>2 DEF GetRelease
  <2>4. Store!Take(x)
    BY <2>1, <2>2, <2>3 DEF Store!Take, Store!Stored
  <2> QED
    BY <2>1, <2>4 DEF Store!Next
<1>3. ASSUME NEW t \in Threads,
             \/ AddReady(t) \/ AddFull(t) \/ AddCopy(t)
             \/ GetReady(t) \/ GetEmpty(t) \/ GetCopy(t) \/ Call(t)
      PROVE  UNCHANGED <<put, got>>
  BY <1>3 DEF AddReady, AddFull, AddCopy, GetReady, GetEmpty, GetCopy, Call,
              AddTicket, GetTicket, history
<1>4. CASE Recreate
  BY <1>4 DEF Recreate, Store!Next, Store!Recreate
<1>5. CASE UNCHANGED vars
  BY <1>5 DEF vars
<1> QED
  BY <1>1, <1>2, <1>3, <1>4, <1>5 DEF Next, Step

(* Published and released elements of the queue behave like the items of   *)
(* ItemStore: stored once, bounded in number, taken at most once.          *)
THEOREM ImplementsItemStore ==
  ASSUME Capacity > 1
  PROVE  Spec => StoreSpec
<1>1. Init => Store!Init
  BY DEF Init, Store!Init
<1> QED
  BY ItemInvInit, ItemInvNext, RefinesStep, <1>1, PTL
  DEF Spec, StoreSpec, Store!Spec
=============================================================================
