--------------------------- MODULE MemPoolProofs ---------------------------
(***************************************************************************)
(* Proofs about MemPool.  What the lock-free queue keeps for its callers,  *)
(* ItemInv of MpmcQueueProofs, holds of the pool's queue too, which starts *)
(* full; with it Places, OnePlace without counting, is inductive.          *)
(***************************************************************************)
EXTENDS MemPool, FiniteSetTheorems, TLAPS

QP == INSTANCE MpmcQueueProofs WITH Values <- Blocks

\* Where block b is.
Owned(b) == owner[b] # NoThread
Freed(b) == \E t \in Threads : pc[t] \in Q!Adding /\ elem[t] = b
Queued(b) == \E x \in put \ got : x[2] = b

Places ==
  /\ \A b \in Blocks :
       /\ Owned(b) \/ Freed(b) \/ Queued(b) \/ b \in lost
       /\ Owned(b) => ~Freed(b) /\ ~Queued(b) /\ b \notin lost
       /\ Freed(b) => ~Queued(b) /\ b \notin lost
       /\ Queued(b) => b \notin lost
  /\ \A t, u \in Threads :
       pc[t] \in Q!Adding /\ pc[u] \in Q!Adding /\ elem[t] = elem[u] => t = u
  /\ \A x, y \in put \ got : x[2] = y[2] => x = y

IInv == TypeOK /\ QP!ItemInv /\ Places

LEMMA QueueAssumption == QP!MpmcAssumption
BY MemPoolAssumption DEF Q!MpmcAssumption, QP!MpmcAssumption, Q!is_power_of_two, QP!is_power_of_two

LEMMA Numbers ==
  ASSUME Capacity > 1
  PROVE  /\ Capacity \in Nat /\ Capacity > 1 /\ MaxPos \in Nat /\ Capacity <= MaxPos
         /\ \A b \in Blocks : b \in Nat /\ b < Capacity /\ b \in 0 .. MaxPos
         /\ \A b \in Blocks : QP!Slot(b) = b
         /\ \A p \in Nat : QP!Slot(p) \in Blocks /\ QP!Slot(p) <= p
<1>1. /\ Capacity \in Nat /\ Capacity > 1 /\ MaxPos \in Nat /\ Capacity <= MaxPos
      /\ QP!MpmcAssumption
  BY QueueAssumption, MemPoolAssumption DEF QP!MpmcAssumption
<1>2. \A b \in Blocks : b \in Nat /\ b < Capacity /\ b \in 0 .. MaxPos
  BY <1>1 DEF Blocks
<1>3. \A p \in Nat : QP!Slot(p) \in QP!Slots /\ QP!Slot(p) <= p
  BY <1>1, QP!SlotInSlots, QP!SlotAtMost DEF QP!MpmcAssumption
<1>4. ASSUME NEW b \in Blocks PROVE QP!Slot(b) = b
  <2>1. b \in Nat /\ b < Capacity
    BY <1>2
  <2> QED
    BY <1>1, <2>1 DEF QP!Slot
<1> QED
  BY <1>1, <1>2, <1>3, <1>4 DEF QP!Slots, Blocks

(* mempool_init() leaves the queue as the calls that filled it did.        *)
LEMMA InitQueue ==
  ASSUME Capacity > 1, Init
  PROVE  QP!ItemInv
<1> USE DEF Init
<1>1. /\ Capacity \in Nat /\ Capacity > 1 /\ MaxPos \in Nat /\ Capacity <= MaxPos
      /\ \A b \in Blocks : b \in Nat /\ b < Capacity /\ b \in 0 .. MaxPos
      /\ \A b \in Blocks : QP!Slot(b) = b
      /\ \A p \in Nat : QP!Slot(p) \in Blocks /\ QP!Slot(p) <= p
  BY Numbers
<1>2. QP!TypeOK
  <2>1. put \subseteq (0 .. MaxPos) \X Blocks /\ got \subseteq (0 .. MaxPos) \X Blocks
    BY <1>1
  <2>2. /\ seq \in [QP!Slots -> Nat] /\ pdata \in [QP!Slots -> Blocks]
        /\ elem \in [Threads -> Blocks]
    BY <1>1 DEF QP!Slots, Blocks
  <2> QED
    BY <1>1, <2>1, <2>2 DEF QP!TypeOK, QP!Adding, QP!Getting
<1>3. QP!TicketsDrawn /\ QP!Turn /\ QP!NeverSpins
  BY DEF QP!TicketsDrawn, QP!SameSide, QP!Turn, QP!NeverSpins, QP!Adding, QP!Getting
<1>4. QP!Ahead
  <2> SUFFICES ASSUME NEW p \in QP!Positions
               PROVE  /\ p >= enqueue_pos => seq[QP!Slot(p)] <= p
                      /\ p >= dequeue_pos => seq[QP!Slot(p)] <= p + 1
    BY DEF QP!Ahead
  <2>1. p \in Nat /\ QP!Slot(p) \in Blocks /\ QP!Slot(p) <= p /\ QP!Slot(p) < Capacity
        /\ QP!Slot(p) \in Nat
    BY <1>1 DEF QP!Positions
  <2>2. seq[QP!Slot(p)] = QP!Slot(p) + 1
    BY <2>1
  <2> QED
    BY <1>1, <2>1, <2>2
<1>5. QP!HistoryDrawn /\ QP!DeliveredAsPut
  BY <1>1 DEF QP!HistoryDrawn, QP!DeliveredAsPut, QP!Adding, QP!Getting
<1>6. QP!Content
  <2>1. ASSUME NEW p \in QP!Positions, seq[QP!Slot(p)] = p + 1
        PROVE  <<p, pdata[QP!Slot(p)]>> \in put
    <3>1. p \in Nat /\ QP!Slot(p) \in Blocks /\ QP!Slot(p) \in Nat
      BY <1>1 DEF QP!Positions
    <3>2. QP!Slot(p) = p
      BY <2>1, <3>1
    <3> QED
      BY <3>1, <3>2
  <2>2. \A x \in put \ got : seq[QP!Slot(x[1])] = x[1] + 1
    BY <1>1
  <2> QED
    BY <2>1, <2>2 DEF QP!Content
<1> QED
  BY <1>2, <1>3, <1>4, <1>5, <1>6 DEF QP!ItemInv, QP!SlotInv

LEMMA InitPlaces ==
  ASSUME Capacity > 1, Init
  PROVE  TypeOK /\ Places
<1> USE DEF Init
<1>1. /\ Capacity \in Nat /\ Capacity > 1
      /\ QP!TypeOK
  BY Numbers, InitQueue DEF QP!ItemInv, QP!SlotInv
<1>2. TypeOK
  BY <1>1 DEF TypeOK, Q!TypeOK, QP!TypeOK, Q!Slots, QP!Slots, Q!Adding, QP!Adding,
              Q!Getting, QP!Getting
<1>3. \A b \in Blocks : ~Owned(b) /\ ~Freed(b) /\ b \notin lost
  BY DEF Owned, Freed, Q!Adding
<1>4. \A b \in Blocks : <<b, b>> \in put \ got /\ <<b, b>>[2] = b
  OBVIOUS
<1>5. \A b \in Blocks : Queued(b)
  BY <1>4 DEF Queued
<1>6. \A x, y \in put \ got : x[2] = y[2] => x = y
  OBVIOUS
<1>7. \A t \in Threads : pc[t] \notin Q!Adding
  BY DEF Q!Adding
<1> QED
  BY <1>2, <1>3, <1>5, <1>6, <1>7 DEF Places

(* Every step of the pool is one of its queue, or leaves the queue alone.  *)
LEMMA StepInQueue ==
  ASSUME Next
  PROVE  QP!Next
<1> PICK t \in Threads :
      \/ Alloc(t) \/ AllocFails(t) \/ AllocReturns(t)
      \/ FreeDrops(t) \/ FreeReturns(t) \/ Inside(t)
      \/ \E b \in Blocks : Free(t, b)
  BY DEF Next
<1> USE DEF Q!Goto, QP!Goto, Q!queue, QP!queue, Q!locals, QP!locals, Q!history, QP!history,
            Q!Slot, QP!Slot
<1>1. CASE Alloc(t)
  <2>1. QP!GetTicket(t)
    BY <1>1 DEF Alloc, Q!GetTicket, QP!GetTicket
  <2> QED
    BY <2>1 DEF QP!Next, QP!Call
<1>2. CASE AllocFails(t)
  <2>1. QP!GetEmpty(t)
    BY <1>2 DEF AllocFails, Q!GetEmpty, QP!GetEmpty
  <2> QED
    BY <2>1 DEF QP!Next, QP!Step
<1>3. CASE AllocReturns(t)
  <2>1. QP!GetRelease(t)
    BY <1>3 DEF AllocReturns, Q!GetRelease, QP!GetRelease
  <2> QED
    BY <2>1 DEF QP!Next, QP!Step
<1>4. CASE FreeDrops(t)
  <2>1. QP!AddFull(t)
    BY <1>4 DEF FreeDrops, Q!AddFull, QP!AddFull
  <2> QED
    BY <2>1 DEF QP!Next, QP!Step
<1>5. CASE FreeReturns(t)
  <2>1. QP!AddPublish(t)
    BY <1>5 DEF FreeReturns, Q!AddPublish, QP!AddPublish
  <2> QED
    BY <2>1 DEF QP!Next, QP!Step
<1>6. CASE Inside(t)
  <2>1. QP!GetReady(t) \/ QP!GetCopy(t) \/ QP!AddReady(t) \/ QP!AddCopy(t)
    BY <1>6 DEF Inside, Q!GetReady, QP!GetReady, Q!GetCopy, QP!GetCopy,
                Q!AddReady, QP!AddReady, Q!AddCopy, QP!AddCopy
  <2> QED
    BY <2>1 DEF QP!Next, QP!Step
<1>7. CASE \E b \in Blocks : Free(t, b)
  <2>1. PICK b \in Blocks : QP!AddTicket(t, b)
    BY <1>7 DEF Free, Q!AddTicket, QP!AddTicket
  <2> QED
    BY <2>1 DEF QP!Next, QP!Call
<1> QED
  BY <1>1, <1>2, <1>3, <1>4, <1>5, <1>6, <1>7

LEMMA QueueKept ==
  ASSUME Capacity > 1, QP!ItemInv, [Next]_vars
  PROVE  QP!ItemInv'
<1>1. [QP!Next]_(QP!vars)
  BY StepInQueue DEF vars, QP!vars
<1> QED
  BY <1>1, QueueAssumption, QP!ItemInvNext DEF QP!MpmcAssumption

(* The block that a step speaks of moves, the others stay where they are.  *)
LEMMA PlacesKept ==
  ASSUME Capacity > 1, IInv, [Next]_vars
  PROVE  Places'
<1>1. /\ TypeOK /\ Places
      /\ elem \in [Threads -> Blocks] /\ owner \in [Blocks -> Threads \cup {NoThread}]
      /\ pc \in [Threads -> {"idle"} \cup Q!Adding \cup Q!Getting]
  BY DEF IInv, TypeOK, Q!TypeOK
<1> USE DEF Q!Goto, Q!queue, Q!locals, Q!history, Q!Adding, Q!Getting
<1>2. ASSUME NEW t \in Threads, Alloc(t) \/ AllocFails(t) \/ Inside(t)
      PROVE  Places'
  <2>1. UNCHANGED <<owner, lost, put, got>>
    BY <1>2 DEF Alloc, AllocFails, Inside, Q!GetTicket, Q!GetEmpty, Q!GetReady, Q!GetCopy,
                Q!AddReady, Q!AddCopy
  <2>2. \A u \in Threads : /\ (pc'[u] \in Q!Adding) = (pc[u] \in Q!Adding)
                           /\ pc[u] \in Q!Adding => elem'[u] = elem[u]
    BY <1>1, <1>2 DEF Alloc, AllocFails, Inside, Q!GetTicket, Q!GetEmpty, Q!GetReady,
                      Q!GetCopy, Q!AddReady, Q!AddCopy
  <2> QED
    BY <1>1, <2>1, <2>2 DEF Places, Owned, Freed, Queued
<1>3. ASSUME NEW t \in Threads, AllocReturns(t)
      PROVE  Places'
  <2> DEFINE x == <<pos[t], elem[t]>>
  <2>1. /\ pc[t] = "get_release" /\ pc' = [pc EXCEPT ![t] = "idle"]
        /\ got' = got \cup {x} /\ UNCHANGED <<put, elem, lost>>
        /\ owner' = [owner EXCEPT ![elem[t]] = t]
    BY <1>3 DEF AllocReturns, Q!GetRelease
  <2>2. x \in put \ got /\ x[2] = elem[t]
    BY <2>1 DEF IInv, QP!ItemInv, QP!Content, QP!HistoryDrawn, QP!Getting
  <2>3. Queued(elem[t]) /\ elem[t] \in Blocks /\ t # NoThread
    BY <1>1, <2>2, MemPoolAssumption DEF Queued
  <2>4. put' \ got' = (put \ got) \ {x}
    BY <2>1
  <2>5. \A u \in Threads : (pc'[u] \in Q!Adding) = (pc[u] \in Q!Adding)
    BY <1>1, <2>1
  <2>6. \A b \in Blocks : Freed(b)' = Freed(b)
    BY <2>1, <2>5 DEF Freed
  <2>7. \A b \in Blocks : Queued(b)' = (Queued(b) /\ b # elem[t])
    BY <1>1, <2>2, <2>4 DEF Queued, Places
  <2>8. \A b \in Blocks : Owned(b)' = (Owned(b) \/ b = elem[t])
    BY <1>1, <2>1, <2>3 DEF Owned
  <2> QED
    BY <1>1, <2>1, <2>3, <2>4, <2>5, <2>6, <2>7, <2>8 DEF Places
<1>4. ASSUME NEW t \in Threads, NEW c \in Blocks, Free(t, c)
      PROVE  Places'
  <2>1. /\ pc[t] = "idle" /\ pc' = [pc EXCEPT ![t] = "add_check"]
        /\ elem' = [elem EXCEPT ![t] = c] /\ UNCHANGED <<put, got, lost>>
        /\ owner[c] = t /\ owner' = [owner EXCEPT ![c] = NoThread]
    BY <1>4 DEF Free, Q!AddTicket
  <2>2. Owned(c)
    BY <2>1, MemPoolAssumption DEF Owned
  <2>3. \A u \in Threads : /\ (pc'[u] \in Q!Adding) = (pc[u] \in Q!Adding \/ u = t)
                           /\ elem'[u] = IF u = t THEN c ELSE elem[u]
    BY <1>1, <2>1
  <2>4. \A b \in Blocks : Freed(b)' = (Freed(b) \/ b = c)
    BY <2>1, <2>3 DEF Freed
  <2>5. \A b \in Blocks : Owned(b)' = (Owned(b) /\ b # c)
    BY <1>1, <2>1 DEF Owned
  <2>6. \A b \in Blocks : Queued(b)' = Queued(b)
    BY <2>1 DEF Queued
  <2>7. ~Freed(c)
    BY <1>1, <2>2 DEF Places
  <2>8. \A u \in Threads : pc[u] \in Q!Adding => elem[u] # c
    BY <2>7 DEF Freed
  <2>9. \A u, v \in Threads :
          pc'[u] \in Q!Adding /\ pc'[v] \in Q!Adding /\ elem'[u] = elem'[v] => u = v
    BY <1>1, <2>3, <2>8 DEF Places
  <2> QED
    BY <1>1, <2>1, <2>2, <2>4, <2>5, <2>6, <2>7, <2>9 DEF Places
<1>5. ASSUME NEW t \in Threads, FreeDrops(t) \/ FreeReturns(t)
      PROVE  Places'
  <2> DEFINE x == <<pos[t], elem[t]>>
  <2>1. /\ pc[t] \in Q!Adding /\ pc' = [pc EXCEPT ![t] = "idle"]
        /\ UNCHANGED <<elem, got, owner>>
        /\ \/ put' = put /\ lost' = lost \cup {elem[t]}
           \/ put' = put \cup {x} /\ lost' = lost /\ x \notin got
    <3>1. CASE FreeDrops(t)
      BY <3>1 DEF FreeDrops, Q!AddFull
    <3>2. CASE FreeReturns(t)
      <4>1. pc[t] = "add_publish"
        BY <3>2 DEF FreeReturns, Q!AddPublish
      <4>2. x \notin put
        BY <4>1 DEF IInv, QP!ItemInv, QP!HistoryDrawn, QP!Adding
      <4>3. x \notin got
        BY <4>2 DEF IInv, QP!ItemInv, QP!DeliveredAsPut
      <4> QED
        BY <3>2, <4>1, <4>3 DEF FreeReturns, Q!AddPublish
    <3> QED
      BY <1>5, <3>1, <3>2
  <2>2. Freed(elem[t]) /\ elem[t] \in Blocks
    BY <1>1, <2>1 DEF Freed
  <2>3. \A u \in Threads : (pc'[u] \in Q!Adding) = (pc[u] \in Q!Adding /\ u # t)
    BY <1>1, <2>1
  <2>4. \A b \in Blocks : Freed(b)' <=> Freed(b) /\ b # elem[t]
    <3>1. \A u \in Threads \ {t} : pc[u] \in Q!Adding => elem[u] # elem[t]
      BY <1>1, <2>1 DEF Places
    <3> SUFFICES ASSUME NEW b \in Blocks
                 PROVE  (\E u \in Threads : pc'[u] \in Q!Adding /\ elem'[u] = b)
                          <=> (\E u \in Threads : pc[u] \in Q!Adding /\ elem[u] = b) /\ b # elem[t]
      BY DEF Freed
    <3> QED
      BY <2>1, <2>3, <3>1
  <2>5. \A b \in Blocks : Owned(b)' = Owned(b)
    BY <2>1 DEF Owned
  <2>6. CASE put' = put /\ lost' = lost \cup {elem[t]}
    <3>1. \A b \in Blocks : Queued(b)' = Queued(b)
      BY <2>1, <2>6 DEF Queued
    <3> QED
      BY <1>1, <2>1, <2>2, <2>3, <2>4, <2>5, <2>6, <3>1 DEF Places
  <2>7. CASE put' = put \cup {x} /\ lost' = lost /\ x \notin got
    <3>1. put' \ got' = (put \ got) \cup {x} /\ x[2] = elem[t]
      BY <2>1, <2>7
    <3>2. \A b \in Blocks : Queued(b)' <=> Queued(b) \/ b = elem[t]
      <4> SUFFICES ASSUME NEW b \in Blocks
                   PROVE  (\E y \in put' \ got' : y[2] = b)
                            <=> (\E y \in put \ got : y[2] = b) \/ b = elem[t]
        BY DEF Queued
      <4> QED
        BY <3>1
    <3>3. ~Queued(elem[t])
      BY <1>1, <2>2 DEF Places
    <3>4. \A y \in put \ got : y[2] # x[2]
      BY <3>1, <3>3 DEF Queued
    <3>5. \A y, z \in put' \ got' : y[2] = z[2] => y = z
      BY <1>1, <3>1, <3>4 DEF Places
    <3> QED
      BY <1>1, <2>1, <2>2, <2>3, <2>4, <2>5, <2>7, <3>2, <3>3, <3>5 DEF Places
  <2> QED
    BY <2>1, <2>6, <2>7
<1>6. CASE UNCHANGED vars
  BY <1>1, <1>6 DEF vars, Places, Owned, Freed, Queued
<1> QED
  BY <1>2, <1>3, <1>4, <1>5, <1>6 DEF Next

LEMMA TypeKept ==
  ASSUME IInv, QP!ItemInv', [Next]_vars
  PROVE  TypeOK'
<1>1. Q!TypeOK'
  BY DEF QP!ItemInv, QP!SlotInv, Q!TypeOK, QP!TypeOK, Q!Slots, QP!Slots, Q!Adding, QP!Adding,
         Q!Getting, QP!Getting
<1>2. /\ elem \in [Threads -> Blocks] /\ owner \in [Blocks -> Threads \cup {NoThread}]
      /\ lost \subseteq Blocks
  BY DEF IInv, TypeOK, Q!TypeOK
<1>3. owner' \in [Blocks -> Threads \cup {NoThread}] /\ lost' \subseteq Blocks
  BY <1>2 DEF Next, vars, Alloc, AllocFails, AllocReturns, Free, FreeDrops, FreeReturns, Inside
<1> QED
  BY <1>1, <1>3 DEF TypeOK

LEMMA IInvInit == Capacity > 1 /\ Init => IInv
BY InitQueue, InitPlaces DEF IInv

LEMMA IInvNext ==
  ASSUME Capacity > 1, IInv, [Next]_vars
  PROVE  IInv'
BY QueueKept, PlacesKept, TypeKept DEF IInv

LEMMA OneOrNone ==
  ASSUME NEW S, NEW e
  PROVE  /\ S = {} => Cardinality(S) = 0
         /\ e \in S /\ (\A y \in S : y = e) => Cardinality(S) = 1
<1>1. Cardinality({}) = 0
  BY FS_EmptySet
<1>2. ASSUME e \in S, \A y \in S : y = e
      PROVE  Cardinality(S) = 1
  <2>1. S = {e}
    BY <1>2
  <2> QED
    BY <2>1, FS_Singleton
<1> QED
  BY <1>1, <1>2

(* One of the four sets of OnePlace has one element, the others have none. *)
LEMMA CountedOnce ==
  ASSUME IInv, NEW b \in Blocks
  PROVE  Cardinality({b} \cap Held) + Cardinality(InFree(b))
           + Cardinality(Stored(b)) + Cardinality({b} \cap lost) = 1
<1>1. Places
  BY DEF IInv
<1>2. Owned(b) <=> b \in Held
  BY DEF Owned, Held
<1>3. /\ Owned(b) => Cardinality({b} \cap Held) = 1
      /\ ~Owned(b) => Cardinality({b} \cap Held) = 0
  BY <1>2, OneOrNone
<1>4. /\ b \in lost => Cardinality({b} \cap lost) = 1
      /\ b \notin lost => Cardinality({b} \cap lost) = 0
  BY OneOrNone
<1>5. /\ Freed(b) => Cardinality(InFree(b)) = 1
      /\ ~Freed(b) => Cardinality(InFree(b)) = 0
  <2>1. ASSUME Freed(b) PROVE Cardinality(InFree(b)) = 1
    <3>1. PICK t \in Threads : pc[t] \in Q!Adding /\ elem[t] = b
      BY <2>1 DEF Freed
    <3>2. t \in InFree(b) /\ \A u \in InFree(b) : u = t
      BY <1>1, <3>1 DEF InFree, Places
    <3> QED
      BY <3>2, OneOrNone
  <2>2. ~Freed(b) => InFree(b) = {}
    BY DEF Freed, InFree
  <2> QED
    BY <2>1, <2>2, OneOrNone
<1>6. /\ Queued(b) => Cardinality(Stored(b)) = 1
      /\ ~Queued(b) => Cardinality(Stored(b)) = 0
  <2>1. ASSUME Queued(b) PROVE Cardinality(Stored(b)) = 1
    <3>1. PICK x \in put \ got : x[2] = b
      BY <2>1 DEF Queued
    <3>2. x \in Stored(b) /\ \A y \in Stored(b) : y = x
      BY <1>1, <3>1 DEF Stored, Places
    <3> QED
      BY <3>2, OneOrNone
  <2>2. ~Queued(b) => Stored(b) = {}
    BY DEF Queued, Stored
  <2> QED
    BY <2>1, <2>2, OneOrNone
<1>7. /\ Owned(b) \/ Freed(b) \/ Queued(b) \/ b \in lost
      /\ Owned(b) => ~Freed(b) /\ ~Queued(b) /\ b \notin lost
      /\ Freed(b) => ~Queued(b) /\ b \notin lost
      /\ Queued(b) => b \notin lost
  BY <1>1 DEF Places
<1>8. CASE Owned(b)
  BY <1>3, <1>4, <1>5, <1>6, <1>7, <1>8
<1>9. CASE Freed(b)
  BY <1>3, <1>4, <1>5, <1>6, <1>7, <1>9
<1>10. CASE Queued(b)
  BY <1>3, <1>4, <1>5, <1>6, <1>7, <1>10
<1>11. CASE b \in lost
  BY <1>3, <1>4, <1>5, <1>6, <1>7, <1>11
<1> QED
  BY <1>7, <1>8, <1>9, <1>10, <1>11

(* mempool_alloc() and mempool_free() by any number of threads: no block   *)
(* has two owners, whatever the size of the pool and the order of the      *)
(* accesses to its queue.                                                  *)
THEOREM NoBlockTwice ==
  ASSUME Capacity > 1
  PROVE  Spec => []OnePlace
<1>1. IInv => OnePlace
  BY CountedOnce DEF IInv, OnePlace
<1> QED
  BY IInvInit, IInvNext, <1>1, PTL DEF Spec

-----------------------------------------------------------------------------
(* The two counts of the pool.                                             *)

\* As long as no block was dropped, a position drawn for a mempool_free() is
\* that of a call under way, or of a block that was published.
DrawnKept ==
  lost = {} =>
    \A p \in 0 .. enqueue_pos - 1 :
      \/ \E x \in put : x[1] = p
      \/ \E t \in Threads : pc[t] \in Q!Adding /\ pos[t] = p

LEMMA DrawnKeptInit == Capacity > 1 /\ Init => DrawnKept
<1> SUFFICES ASSUME Capacity > 1, Init, NEW p \in 0 .. enqueue_pos - 1
             PROVE  \E x \in put : x[1] = p
  BY DEF DrawnKept
<1>1. p \in Blocks
  BY DEF Init, Blocks
<1>2. <<p, p>> \in put
  BY <1>1 DEF Init
<1> QED
  BY <1>2

LEMMA DrawnKeptNext ==
  ASSUME Capacity > 1, IInv, DrawnKept, [Next]_vars
  PROVE  DrawnKept'
<1> SUFFICES ASSUME lost' = {}, NEW p \in 0 .. enqueue_pos' - 1
             PROVE  \/ \E x \in put' : x[1] = p
                    \/ \E t \in Threads : pc'[t] \in Q!Adding /\ pos'[t] = p
  BY DEF DrawnKept
<1>1. /\ pos \in [Threads -> 0 .. MaxPos] /\ elem \in [Threads -> Blocks]
      /\ pc \in [Threads -> {"idle"} \cup Q!Adding \cup Q!Getting]
      /\ enqueue_pos \in Nat /\ MaxPos \in Nat
  BY Numbers DEF IInv, TypeOK, Q!TypeOK
<1>2. lost = {}
  BY DEF Next, vars, Alloc, AllocFails, AllocReturns, Free, FreeDrops, FreeReturns, Inside
<1> USE DEF Q!Goto, Q!queue, Q!locals, Q!history, Q!Adding, Q!Getting
<1>3. ASSUME NEW t \in Threads,
             Alloc(t) \/ AllocFails(t) \/ AllocReturns(t) \/ Inside(t)
      PROVE  \/ \E x \in put' : x[1] = p
             \/ \E u \in Threads : pc'[u] \in Q!Adding /\ pos'[u] = p
  <2>1. enqueue_pos' = enqueue_pos /\ put' = put
    BY <1>3 DEF Alloc, AllocFails, AllocReturns, Inside, Q!GetTicket, Q!GetEmpty,
                Q!GetRelease, Q!GetReady, Q!GetCopy, Q!AddReady, Q!AddCopy
  <2>2. \A u \in Threads : pc[u] \in Q!Adding => pc'[u] \in Q!Adding /\ pos'[u] = pos[u]
    BY <1>1, <1>3 DEF Alloc, AllocFails, AllocReturns, Inside, Q!GetTicket, Q!GetEmpty,
                      Q!GetRelease, Q!GetReady, Q!GetCopy, Q!AddReady, Q!AddCopy
  <2> QED
    BY <1>2, <2>1, <2>2 DEF DrawnKept
<1>4. ASSUME NEW t \in Threads, NEW b \in Blocks, Free(t, b)
      PROVE  \/ \E x \in put' : x[1] = p
             \/ \E u \in Threads : pc'[u] \in Q!Adding /\ pos'[u] = p
  <2>1. /\ enqueue_pos' = enqueue_pos + 1 /\ put' = put /\ pc[t] = "idle"
        /\ pc' = [pc EXCEPT ![t] = "add_check"]
        /\ pos' = [pos EXCEPT ![t] = enqueue_pos]
    BY <1>4 DEF Free, Q!AddTicket
  <2>2. pc'[t] \in Q!Adding /\ pos'[t] = enqueue_pos
    BY <1>1, <2>1
  <2>3. \A u \in Threads : pc[u] \in Q!Adding => pc'[u] \in Q!Adding /\ pos'[u] = pos[u]
    BY <1>1, <2>1
  <2>4. p = enqueue_pos \/ p \in 0 .. enqueue_pos - 1
    BY <1>1, <2>1
  <2> QED
    BY <1>2, <2>1, <2>2, <2>3, <2>4 DEF DrawnKept
<1>5. ASSUME NEW t \in Threads, FreeDrops(t)
      PROVE  FALSE
  BY <1>5 DEF FreeDrops
<1>6. ASSUME NEW t \in Threads, FreeReturns(t)
      PROVE  \/ \E x \in put' : x[1] = p
             \/ \E u \in Threads : pc'[u] \in Q!Adding /\ pos'[u] = p
  <2>1. /\ enqueue_pos' = enqueue_pos /\ pos' = pos
        /\ pc' = [pc EXCEPT ![t] = "idle"]
        /\ put' = put \cup {<<pos[t], elem[t]>>}
    BY <1>6 DEF FreeReturns, Q!AddPublish
  <2>2. \E x \in put' : x[1] = pos[t]
    <3>1. <<pos[t], elem[t]>> \in put' /\ <<pos[t], elem[t]>>[1] = pos[t]
      BY <2>1
    <3> QED
      BY <3>1
  <2>3. \A u \in Threads \ {t} : pc'[u] = pc[u]
    BY <1>1, <2>1
  <2> QED
    BY <1>2, <2>1, <2>2, <2>3 DEF DrawnKept
<1>7. CASE UNCHANGED vars
  BY <1>2, <1>7 DEF vars, DrawnKept
<1> QED
  BY <1>3, <1>4, <1>5, <1>6, <1>7 DEF Next

\* At rest, with no block dropped, every position drawn was published.
LEMMA AllPublished ==
  ASSUME Capacity > 1, IInv, DrawnKept, Quiet, lost = {}
  PROVE  /\ IsFiniteSet(put)
         /\ Cardinality(put) = enqueue_pos
<1> DEFINE P == 0 .. enqueue_pos - 1
           f == [x \in put |-> x[1]]
<1>1. enqueue_pos \in Nat
  BY Numbers DEF IInv, TypeOK, Q!TypeOK
<1>2. IsFiniteSet(P) /\ Cardinality(P) = enqueue_pos
  <2> DEFINE e == enqueue_pos - 1
  <2>1. 0 \in Int /\ e \in Int
    BY <1>1
  <2> HIDE DEF e
  <2>2. IsFiniteSet(0 .. e) /\ Cardinality(0 .. e) = IF 0 > e THEN 0 ELSE e - 0 + 1
    BY <2>1, FS_Interval
  <2> QED
    BY <1>1, <2>2 DEF e
<1>3. \A x \in put : x[1] \in P
  BY <1>1, Numbers DEF IInv, QP!ItemInv, QP!HistoryDrawn, QP!SlotInv, QP!TypeOK
<1>4. f \in Injection(put, P)
  BY <1>3 DEF Injection, IsInjective, IInv, QP!ItemInv, QP!DeliveredAsPut
<1>5. f \in Surjection(put, P)
  BY <1>3 DEF Surjection, DrawnKept, Quiet, Q!Adding
<1> QED
  BY <1>2, <1>4, <1>5, FS_Injection

(* A block that no thread holds and none is freeing is once in the queue.  *)
LEMMA StoredAreFree ==
  ASSUME IInv, Quiet, lost = {}, IsFiniteSet(put)
  PROVE  Cardinality(put \ got) = Cardinality(Blocks) - Cardinality(Held)
<1> DEFINE F == Blocks \ Held
           f == [x \in put \ got |-> x[2]]
<1>1. \A b \in Blocks : b \in Held <=> ~Queued(b)
  BY DEF IInv, Places, Owned, Freed, Held, Quiet, Q!Adding
<1>2. \A x \in put \ got : x[2] \in F
  BY <1>1 DEF IInv, TypeOK, Q!TypeOK, Queued
<1>3. f \in Injection(put \ got, F)
  BY <1>2 DEF Injection, IsInjective, IInv, Places
<1>4. f \in Surjection(put \ got, F)
  BY <1>1, <1>2 DEF Surjection, Queued
<1>5. IsFiniteSet(Blocks)
  <2> DEFINE e == Capacity - 1
  <2>1. 0 \in Int /\ e \in Int
    BY MemPoolAssumption DEF Q!MpmcAssumption
  <2> HIDE DEF e
  <2> QED
    BY <2>1, FS_Interval DEF e, Blocks
<1>6. IsFiniteSet(F) /\ Cardinality(F) = Cardinality(Blocks) - Cardinality(Blocks \cap Held)
  BY <1>5, FS_Difference
<1>7. Blocks \cap Held = Held
  BY DEF Held
<1> QED
  BY <1>3, <1>4, <1>6, <1>7, FS_Injection

(* mempool_get_num_free() and mempool_get_num_allocated(): with no call    *)
(* under way and none that failed, the difference of the two positions is  *)
(* the number of free blocks, so the pool counts right however its threads *)
(* used it.                                                                *)
THEOREM PoolCounts ==
  ASSUME Capacity > 1
  PROVE  Spec => []CountsRight
<1>1. IInv /\ DrawnKept => CountsRight
  <2> SUFFICES ASSUME IInv, DrawnKept, Quiet, Cardinality(got) = dequeue_pos, lost = {}
               PROVE  num_allocated = Cardinality(Held)
    BY DEF CountsRight
  <2>1. IsFiniteSet(put) /\ Cardinality(put) = enqueue_pos
    BY AllPublished
  <2>2. enqueue_pos \in Nat /\ dequeue_pos \in Nat /\ Capacity \in Nat /\ Capacity < WordSize
        /\ WordSize \in Nat
    BY Numbers, MemPoolAssumption DEF IInv, TypeOK, Q!TypeOK, Q!MpmcAssumption
  <2>3. Cardinality(put \ got) = enqueue_pos - dequeue_pos
    <3>1. put \cap got = got
      BY DEF IInv, QP!ItemInv, QP!DeliveredAsPut
    <3>2. Cardinality(put \ got) = Cardinality(put) - Cardinality(put \cap got)
      BY <2>1, FS_Difference
    <3> QED
      BY <2>1, <3>1, <3>2
  <2>4. Cardinality(put \ got) \in Nat
    BY <2>1, FS_Difference, FS_CardinalityType
  <2>5. Cardinality(put \ got) = Cardinality(Blocks) - Cardinality(Held)
    BY <2>1, StoredAreFree
  <2>6. Cardinality(Blocks) = Capacity /\ IsFiniteSet(Blocks)
    <3> DEFINE e == Capacity - 1
    <3>1. 0 \in Int /\ e \in Int /\ e >= 0
      BY Numbers
    <3> HIDE DEF e
    <3>2. IsFiniteSet(0 .. e) /\ Cardinality(0 .. e) = IF 0 > e THEN 0 ELSE e - 0 + 1
      BY <3>1, FS_Interval
    <3> QED
      BY <2>2, <3>1, <3>2 DEF e, Blocks
  <2>7. Cardinality(Held) \in Nat
    <3>1. Held \in SUBSET Blocks
      BY DEF Held
    <3> QED
      BY <2>6, <3>1, FS_Subset, FS_CardinalityType
  <2>8. (enqueue_pos - dequeue_pos) % WordSize = enqueue_pos - dequeue_pos
    BY <2>2, <2>3, <2>4, <2>5, <2>6, <2>7
  <2> QED
    BY <2>2, <2>3, <2>4, <2>5, <2>6, <2>7, <2>8 DEF num_allocated, num_free
<1>2. Capacity > 1 /\ Init => IInv /\ DrawnKept
  BY IInvInit, DrawnKeptInit
<1>3. IInv /\ DrawnKept /\ [Next]_vars => (IInv /\ DrawnKept)'
  BY IInvNext, DrawnKeptNext
<1> QED
  BY <1>1, <1>2, <1>3, PTL DEF Spec
=============================================================================
