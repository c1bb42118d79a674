--------------------------- MODULE MtQueueProofs ---------------------------
(***************************************************************************)
(* Proofs about MtQueue for every finite set of threads, every set of      *)
(* values and every capacity.  PermitsBalance is inductive; together with  *)
(* Exclusive and TailTold it keeps the two ends apart.                     *)
(***************************************************************************)
EXTENDS MtQueue, FiniteSetTheorems, SequenceTheorems, TLAPS

\* The calls that hold a permit, and those whose permit and count differ:
\* adds that have counted and not posted, gets that have not counted yet.
HeldAdds == AddersAt({"lock", "work", "unlock", "post"})
HeldGets == GettersAt({"lock", "work", "unlock", "post"})
CountedAdds == AddersAt({"unlock", "post"})
OwingGets == GettersAt({"lock", "work"})

Balance ==
  /\ slots_sem + items_sem + Cardinality(HeldAdds) + Cardinality(HeldGets) = Capacity
  /\ count = items_sem + Cardinality(CountedAdds) + Cardinality(OwingGets)

\* Who is between lock and unlock owns the mutex of its end.
Exclusive ==
  \A t \in Threads : pc[t] \in {"work", "unlock"} =>
    IF op[t] \in AtFront THEN head_mtx = t ELSE tail_mtx = t

\* The back is where head and count say, though the three are changed by
\* threads that hold different mutexes.
TailTold == tail = (head + count) % Capacity

\* An add under way has its element.
Carries ==
  \A t \in Threads :
    op[t] \in Adding /\ pc[t] \in {"wait", "lock", "work", "unlock", "post"} => arg[t] \in Values

IInv == PermitsBalance /\ Exclusive /\ TailTold /\ Carries

LEMMA Unfold == PermitsBalance <=> TypeOK /\ Balance
BY DEF PermitsBalance, Balance, HeldAdds, HeldGets, CountedAdds, OwingGets

LEMMA OneMoves ==
  ASSUME IsFiniteSet(Threads), NEW S \in SUBSET Threads, NEW t \in Threads
  PROVE  /\ Cardinality(S) \in Nat
         /\ t \notin S => Cardinality(S \cup {t}) = Cardinality(S) + 1
         /\ t \in S => Cardinality(S \ {t}) = Cardinality(S) - 1
<1>1. IsFiniteSet(S)
  BY FS_Subset
<1> QED
  BY <1>1, FS_CardinalityType, FS_AddElement, FS_RemoveElement

(* What the balance says of the semaphores and of the count.               *)
LEMMA BalanceBounds ==
  ASSUME IsFiniteSet(Threads),
         NEW slots \in Nat, NEW items \in Nat,
         NEW A \in SUBSET Threads, NEW G \in SUBSET Threads,
         NEW a \in SUBSET A, NEW g \in SUBSET G,
         slots + items + Cardinality(A) + Cardinality(G) = Capacity
  PROVE  /\ slots \in 0 .. Capacity
         /\ items \in 0 .. Capacity
         /\ items + Cardinality(a) + Cardinality(g) \in 0 .. Capacity
<1>1. /\ IsFiniteSet(A) /\ IsFiniteSet(G)
      /\ IsFiniteSet(a) /\ IsFiniteSet(g)
  BY FS_Subset
<1>2. /\ Cardinality(A) \in Nat /\ Cardinality(G) \in Nat
      /\ Cardinality(a) \in Nat /\ Cardinality(g) \in Nat
  BY <1>1, FS_CardinalityType
<1>3. Cardinality(a) <= Cardinality(A) /\ Cardinality(g) <= Cardinality(G)
  BY <1>1, FS_Subset
<1> QED
  BY <1>2, <1>3, MtQueueAssumption

LEMMA Around ==
  ASSUME NEW i \in Nat, i < Capacity + Capacity
  PROVE  i % Capacity = IF i < Capacity THEN i ELSE i - Capacity
<1> DEFINE a == i \div Capacity
           r == i % Capacity
<1>1. /\ a \in Int /\ r \in 0 .. Capacity - 1
      /\ Capacity \in Nat /\ Capacity > 0
      /\ i = Capacity * a + r
  BY MtQueueAssumption
<1>2. a = 0 \/ a = 1
  <2>1. ASSUME a >= 2 PROVE FALSE
    <3>1. Capacity * a >= Capacity * 2
      BY <1>1, <2>1
    <3> QED
      BY <1>1, <3>1
  <2>2. ASSUME a <= -1 PROVE FALSE
    <3>1. Capacity * a <= Capacity * (-1)
      BY <1>1, <2>2
    <3> QED
      BY <1>1, <3>1
  <2> QED
    BY <1>1, <2>1, <2>2
<1>3. CASE a = 0
  BY <1>1, <1>3
<1>4. CASE a = 1
  BY <1>1, <1>4
<1> QED
  BY <1>2, <1>3, <1>4

LEMMA Past ==
  \A i \in Slots, n \in 0 .. Capacity :
    (i + n) % Capacity = IF i + n < Capacity THEN i + n ELSE i + n - Capacity
<1> SUFFICES ASSUME NEW i \in Slots, NEW n \in 0 .. Capacity
             PROVE  (i + n) % Capacity = IF i + n < Capacity THEN i + n ELSE i + n - Capacity
  OBVIOUS
<1>1. /\ Capacity \in Nat /\ i \in Int /\ 0 <= i /\ i < Capacity
      /\ n \in Int /\ 0 <= n /\ n <= Capacity
  BY MtQueueAssumption DEF Slots
<1>2. i + n \in Nat /\ i + n < Capacity + Capacity
  BY <1>1
<1> QED
  BY <1>1, <1>2, Around

LEMMA Neighbours ==
  ASSUME NEW i \in Slots
  PROVE  /\ After(i) = IF i = Capacity - 1 THEN 0 ELSE i + 1
         /\ Before(i) = IF i = 0 THEN Capacity - 1 ELSE i - 1
         /\ After(i) \in Slots /\ Before(i) \in Slots
BY Around, MtQueueAssumption DEF Slots, After, Before
-----------------------------------------------------------------------------
sets == <<HeldAdds, HeldGets, CountedAdds, OwingGets>>

(* How the calls that hold permits change with each step.                  *)
LEMMA SetsMove ==
  ASSUME TypeOK, NEW t \in Threads
  PROVE  /\ Wait(t) /\ op[t] \in Adding =>
              /\ t \notin HeldAdds /\ HeldAdds' = HeldAdds \cup {t}
              /\ UNCHANGED <<HeldGets, CountedAdds, OwingGets>>
         /\ Wait(t) /\ op[t] \in Getting =>
              /\ t \notin HeldGets /\ HeldGets' = HeldGets \cup {t}
              /\ t \notin OwingGets /\ OwingGets' = OwingGets \cup {t}
              /\ UNCHANGED <<HeldAdds, CountedAdds>>
         /\ AddBack(t) \/ AddFront(t) =>
              /\ t \notin CountedAdds /\ CountedAdds' = CountedAdds \cup {t}
              /\ UNCHANGED <<HeldAdds, HeldGets, OwingGets>>
         /\ GetBack(t) \/ GetFront(t) =>
              /\ t \in OwingGets /\ OwingGets' = OwingGets \ {t}
              /\ UNCHANGED <<HeldAdds, HeldGets, CountedAdds>>
         /\ PostItem(t) =>
              /\ t \in HeldAdds /\ HeldAdds' = HeldAdds \ {t}
              /\ t \in CountedAdds /\ CountedAdds' = CountedAdds \ {t}
              /\ UNCHANGED <<HeldGets, OwingGets>>
         /\ PostSlot(t) =>
              /\ t \in HeldGets /\ HeldGets' = HeldGets \ {t}
              /\ UNCHANGED <<HeldAdds, CountedAdds, OwingGets>>
<1> USE DEF TypeOK, HeldAdds, HeldGets, CountedAdds, OwingGets, AddersAt, GettersAt,
            Adding, Getting, Blocking, Trying, AtFront, Goto, locals, ring
<1>1. ASSUME Wait(t), op[t] \in Adding
      PROVE  /\ t \notin HeldAdds /\ HeldAdds' = HeldAdds \cup {t}
             /\ UNCHANGED <<HeldGets, CountedAdds, OwingGets>>
  BY <1>1 DEF Wait
<1>2. ASSUME Wait(t), op[t] \in Getting
      PROVE  /\ t \notin HeldGets /\ HeldGets' = HeldGets \cup {t}
             /\ t \notin OwingGets /\ OwingGets' = OwingGets \cup {t}
             /\ UNCHANGED <<HeldAdds, CountedAdds>>
  BY <1>2 DEF Wait
<1>3. ASSUME AddBack(t) \/ AddFront(t)
      PROVE  /\ t \notin CountedAdds /\ CountedAdds' = CountedAdds \cup {t}
             /\ UNCHANGED <<HeldAdds, HeldGets, OwingGets>>
  BY <1>3 DEF AddBack, AddFront
<1>4. ASSUME GetBack(t) \/ GetFront(t)
      PROVE  /\ t \in OwingGets /\ OwingGets' = OwingGets \ {t}
             /\ UNCHANGED <<HeldAdds, HeldGets, CountedAdds>>
  BY <1>4 DEF GetBack, GetFront
<1>5. ASSUME PostItem(t)
      PROVE  /\ t \in HeldAdds /\ HeldAdds' = HeldAdds \ {t}
             /\ t \in CountedAdds /\ CountedAdds' = CountedAdds \ {t}
             /\ UNCHANGED <<HeldGets, OwingGets>>
  BY <1>5 DEF PostItem
<1>6. ASSUME PostSlot(t)
      PROVE  /\ t \in HeldGets /\ HeldGets' = HeldGets \ {t}
             /\ UNCHANGED <<HeldAdds, CountedAdds, OwingGets>>
  BY <1>6 DEF PostSlot
<1> QED
  BY <1>1, <1>2, <1>3, <1>4, <1>5, <1>6

(* The other steps leave them alone.                                       *)
LEMMA SetsStay ==
  ASSUME TypeOK, NEW t \in Threads,
         Call(t) \/ Refuse(t) \/ Lock(t) \/ Unlock(t) \/ ReturnBack(t) \/ Use(t)
  PROVE  UNCHANGED <<sets, slots_sem, items_sem, count>>
<1> USE DEF TypeOK, HeldAdds, HeldGets, CountedAdds, OwingGets, AddersAt, GettersAt, sets,
            Adding, Getting, Blocking, Trying, Goto, locals, ring, sems
<1>1. CASE \E o \in Adding, v \in unused : Add(t, o, v)
  BY <1>1 DEF Add
<1>2. CASE \E o \in Getting : Get(t, o)
  BY <1>2 DEF Get
<1>3. CASE Refuse(t)
  BY <1>3 DEF Refuse
<1>4. CASE Lock(t)
  BY <1>4 DEF Lock
<1>5. CASE Unlock(t)
  BY <1>5 DEF Unlock
<1>6. CASE ReturnBack(t)
  BY <1>6 DEF ReturnBack
<1>7. CASE Use(t)
  BY <1>7 DEF Use
<1> QED
  BY <1>1, <1>2, <1>3, <1>4, <1>5, <1>6, <1>7 DEF Call
-----------------------------------------------------------------------------
LEMMA SetsInThreads ==
  /\ HeldAdds \in SUBSET Threads /\ HeldGets \in SUBSET Threads
  /\ CountedAdds \in SUBSET HeldAdds /\ OwingGets \in SUBSET HeldGets
BY DEF HeldAdds, HeldGets, CountedAdds, OwingGets, AddersAt, GettersAt

LEMMA SetsInThreadsNext ==
  /\ HeldAdds' \in SUBSET Threads /\ HeldGets' \in SUBSET Threads
  /\ CountedAdds' \in SUBSET HeldAdds' /\ OwingGets' \in SUBSET HeldGets'
BY DEF HeldAdds, HeldGets, CountedAdds, OwingGets, AddersAt, GettersAt

\* The four cardinalities are natural numbers.
LEMMA Sizes ==
  ASSUME IsFiniteSet(Threads)
  PROVE  /\ Cardinality(HeldAdds) \in Nat /\ Cardinality(HeldGets) \in Nat
         /\ Cardinality(CountedAdds) \in Nat /\ Cardinality(OwingGets) \in Nat
<1>1. /\ CountedAdds \in SUBSET Threads /\ OwingGets \in SUBSET Threads
      /\ HeldAdds \in SUBSET Threads /\ HeldGets \in SUBSET Threads
  BY SetsInThreads
<1> QED
  BY <1>1, FS_Subset, FS_CardinalityType

(* What a step gives to a semaphore it takes from the calls under way, or  *)
(* the other way round.                                                    *)
LEMMA BalanceNext ==
  ASSUME IsFiniteSet(Threads), TypeOK, Balance, NEW t \in Threads, Call(t) \/ Step(t)
  PROVE  Balance' /\ slots_sem' \in Nat /\ items_sem' \in Nat
<1>1. /\ slots_sem \in Nat /\ items_sem \in Nat /\ count \in Nat
      /\ Capacity \in Nat
  BY MtQueueAssumption DEF TypeOK
<1>2. /\ CountedAdds \in SUBSET Threads /\ OwingGets \in SUBSET Threads
      /\ HeldAdds \in SUBSET Threads /\ HeldGets \in SUBSET Threads
  BY SetsInThreads
<1>3. op[t] \in Adding \/ op[t] \in Getting
  BY DEF TypeOK
<1>4. CASE Wait(t) /\ op[t] \in Adding
  <2>1. slots_sem > 0 /\ slots_sem' = slots_sem - 1 /\ UNCHANGED <<items_sem, count>>
    BY <1>4 DEF Wait, ring
  <2>2. /\ Cardinality(HeldAdds') = Cardinality(HeldAdds) + 1
        /\ UNCHANGED <<HeldGets, CountedAdds, OwingGets>>
    BY <1>2, <1>4, SetsMove, OneMoves
  <2> QED
    BY <1>1, <2>1, <2>2, Sizes DEF Balance
<1>5. CASE Wait(t) /\ op[t] \in Getting
  <2>1. items_sem > 0 /\ items_sem' = items_sem - 1 /\ UNCHANGED <<slots_sem, count>>
    BY <1>5 DEF Wait, ring, Adding, Getting, Blocking, Trying
  <2>2. /\ Cardinality(HeldGets') = Cardinality(HeldGets) + 1
        /\ Cardinality(OwingGets') = Cardinality(OwingGets) + 1
        /\ UNCHANGED <<HeldAdds, CountedAdds>>
    BY <1>2, <1>5, SetsMove, OneMoves
  <2> QED
    BY <1>1, <2>1, <2>2, Sizes DEF Balance
<1>6. CASE AddBack(t) \/ AddFront(t)
  <2>1. count' = count + 1 /\ UNCHANGED sems
    BY <1>6 DEF AddBack, AddFront
  <2>2. /\ Cardinality(CountedAdds') = Cardinality(CountedAdds) + 1
        /\ UNCHANGED <<HeldAdds, HeldGets, OwingGets>>
    BY <1>2, <1>6, SetsMove, OneMoves
  <2> QED
    BY <1>1, <2>1, <2>2, Sizes DEF Balance, sems
<1>7. CASE GetBack(t) \/ GetFront(t)
  <2>1. count' = count - 1 /\ UNCHANGED sems
    BY <1>7 DEF GetBack, GetFront
  <2>2. /\ Cardinality(OwingGets') = Cardinality(OwingGets) - 1
        /\ UNCHANGED <<HeldAdds, HeldGets, CountedAdds>>
    BY <1>2, <1>7, SetsMove, OneMoves
  <2> QED
    BY <1>1, <2>1, <2>2, Sizes DEF Balance, sems
<1>8. CASE PostItem(t)
  <2>1. items_sem' = items_sem + 1 /\ UNCHANGED <<slots_sem, count>>
    BY <1>8 DEF PostItem, ring
  <2>2. /\ Cardinality(HeldAdds') = Cardinality(HeldAdds) - 1
        /\ Cardinality(CountedAdds') = Cardinality(CountedAdds) - 1
        /\ UNCHANGED <<HeldGets, OwingGets>>
    BY <1>2, <1>8, SetsMove, OneMoves
  <2> QED
    BY <1>1, <2>1, <2>2, Sizes DEF Balance
<1>9. CASE PostSlot(t)
  <2>1. slots_sem' = slots_sem + 1 /\ UNCHANGED <<items_sem, count>>
    BY <1>9 DEF PostSlot, ring
  <2>2. /\ Cardinality(HeldGets') = Cardinality(HeldGets) - 1
        /\ UNCHANGED <<HeldAdds, CountedAdds, OwingGets>>
    BY <1>2, <1>9, SetsMove, OneMoves
  <2> QED
    BY <1>1, <2>1, <2>2, Sizes DEF Balance
<1>10. CASE Call(t) \/ Refuse(t) \/ Lock(t) \/ Unlock(t) \/ ReturnBack(t) \/ Use(t)
  BY <1>1, <1>10, SetsStay DEF Balance, sets
<1> QED
  BY <1>3, <1>4, <1>5, <1>6, <1>7, <1>8, <1>9, <1>10 DEF Step

(* The bounds of the type invariant follow from the balance.               *)
LEMMA TypeNext ==
  ASSUME IsFiniteSet(Threads), TypeOK, Balance, Carries, NEW t \in Threads, Call(t) \/ Step(t)
  PROVE  TypeOK'
<1>1. /\ slots_sem' \in 0 .. Capacity /\ items_sem' \in 0 .. Capacity
      /\ count' \in 0 .. Capacity
  <2>1. Balance' /\ slots_sem' \in Nat /\ items_sem' \in Nat
    BY BalanceNext
  <2>2. /\ slots_sem' + items_sem' + Cardinality(HeldAdds') + Cardinality(HeldGets') = Capacity
        /\ count' = items_sem' + Cardinality(CountedAdds') + Cardinality(OwingGets')
    BY <2>1 DEF Balance
  <2> QED
    BY <2>1, <2>2, SetsInThreadsNext, BalanceBounds
<1>2. /\ \A i \in Slots : After(i) \in Slots /\ Before(i) \in Slots
      /\ 0 \in Slots
  BY Neighbours, MtQueueAssumption DEF Slots
<1> USE DEF TypeOK, Goto, locals, ring, mutexes
<1>3. CASE \E o \in Adding, v \in unused : Add(t, o, v)
  BY <1>1, <1>3 DEF Add
<1>4. CASE \E o \in Getting : Get(t, o)
  BY <1>1, <1>4 DEF Get
<1>5. CASE Wait(t) \/ Lock(t) \/ Unlock(t) \/ PostSlot(t)
  BY <1>1, <1>5 DEF Wait, Lock, Unlock, PostSlot
<1>6. CASE Refuse(t)
  <2>1. arg[t] \in Values
    BY <1>6 DEF Refuse, Carries, Adding
  <2> QED
    BY <1>1, <1>6, <2>1 DEF Refuse
<1>7. CASE AddBack(t) \/ AddFront(t)
  BY <1>1, <1>2, <1>7 DEF AddBack, AddFront
<1>8. CASE GetBack(t) \/ GetFront(t)
  BY <1>1, <1>2, <1>8 DEF GetBack, GetFront
<1>9. CASE PostItem(t) \/ ReturnBack(t) \/ Use(t)
  BY <1>1, <1>2, <1>9 DEF PostItem, ReturnBack, Use
<1> QED
  BY <1>3, <1>4, <1>5, <1>6, <1>7, <1>8, <1>9 DEF Call, Step

LEMMA CarriesNext ==
  ASSUME TypeOK, Carries, NEW t \in Threads, Call(t) \/ Step(t)
  PROVE  Carries'
<1> USE DEF TypeOK, Carries, Goto, locals, Adding, Getting, Blocking, Trying
<1>1. CASE Call(t)
  BY <1>1 DEF Call, Add, Get
<1>2. CASE Wait(t) \/ Lock(t) \/ Unlock(t) \/ Refuse(t)
  BY <1>2 DEF Wait, Lock, Unlock, Refuse
<1>3. CASE AddBack(t) \/ AddFront(t) \/ GetBack(t) \/ GetFront(t)
  BY <1>3 DEF AddBack, AddFront, GetBack, GetFront
<1>4. CASE PostItem(t) \/ PostSlot(t) \/ ReturnBack(t) \/ Use(t)
  BY <1>4 DEF PostItem, PostSlot, ReturnBack, Use
<1> QED
  BY <1>1, <1>2, <1>3, <1>4 DEF Step

LEMMA ExclusiveNext ==
  ASSUME TypeOK, Exclusive, NEW t \in Threads, Call(t) \/ Step(t)
  PROVE  Exclusive'
<1> USE MtQueueAssumption DEF TypeOK, Exclusive, Goto, locals, mutexes
<1>1. CASE Call(t)
  BY <1>1 DEF Call, Add, Get
<1>2. CASE Wait(t) \/ Refuse(t)
  BY <1>2 DEF Wait, Refuse
<1>3. CASE Lock(t)
  BY <1>3 DEF Lock
<1>4. CASE Unlock(t)
  BY <1>4 DEF Unlock
<1>5. CASE AddBack(t) \/ AddFront(t) \/ GetBack(t) \/ GetFront(t)
  BY <1>5 DEF AddBack, AddFront, GetBack, GetFront
<1>6. CASE PostItem(t) \/ PostSlot(t) \/ ReturnBack(t) \/ Use(t)
  BY <1>6 DEF PostItem, PostSlot, ReturnBack, Use
<1> QED
  BY <1>1, <1>2, <1>3, <1>4, <1>5, <1>6 DEF Step

(* Each operation moves its index and the count together.  An add has a    *)
(* free slot before it counts and a get an element: the bounds of count    *)
(* before and after the step.                                              *)
LEMMA TailNext ==
  ASSUME TypeOK, TypeOK', TailTold, NEW t \in Threads, Call(t) \/ Step(t)
  PROVE  TailTold'
<1>1. /\ head \in Slots /\ tail \in Slots /\ count \in 0 .. Capacity
      /\ head' \in Slots /\ tail' \in Slots /\ count' \in 0 .. Capacity
      /\ Capacity \in Nat /\ Capacity > 0
  BY MtQueueAssumption DEF TypeOK
<1>2. tail = IF head + count < Capacity THEN head + count ELSE head + count - Capacity
  BY <1>1, Past DEF TailTold
<1>3. SUFFICES tail' = IF head' + count' < Capacity THEN head' + count'
                                                  ELSE head' + count' - Capacity
  BY <1>1, Past DEF TailTold
<1>4. CASE AddBack(t)
  BY <1>1, <1>2, <1>4, Neighbours DEF AddBack, Slots
<1>5. CASE AddFront(t)
  BY <1>1, <1>2, <1>5, Neighbours DEF AddFront, Slots
<1>6. CASE GetBack(t)
  BY <1>1, <1>2, <1>6, Neighbours DEF GetBack, Slots
<1>7. CASE GetFront(t)
  <2>1. head' = (IF head = Capacity - 1 THEN 0 ELSE head + 1)
    BY <1>1, <1>7, Neighbours DEF GetFront
  <2>2. tail' = tail /\ count' = count - 1
    BY <1>7 DEF GetFront
  <2> QED
    BY <1>1, <1>2, <2>1, <2>2 DEF Slots
<1>8. CASE UNCHANGED ring
  BY <1>2, <1>8 DEF ring
<1> QED
  BY <1>4, <1>5, <1>6, <1>7, <1>8 DEF Call, Step, Add, Get, Wait, Refuse, Lock, Unlock,
     PostItem, PostSlot, ReturnBack, Use
-----------------------------------------------------------------------------
(* An add at work has taken a slot that its end has not counted.           *)
LEMMA RoomTaken ==
  ASSUME IsFiniteSet(Threads), TypeOK, Balance,
         NEW t \in Threads, pc[t] = "work", op[t] \in Adding
  PROVE  count + 1 <= Capacity
<1>1. /\ slots_sem \in Nat /\ items_sem \in Nat /\ count \in Nat
      /\ Capacity \in Nat
  BY MtQueueAssumption DEF TypeOK
<1>2. /\ CountedAdds \in SUBSET Threads /\ CountedAdds \cup {t} \in SUBSET HeldAdds
      /\ OwingGets \in SUBSET HeldGets /\ t \notin CountedAdds
      /\ HeldAdds \in SUBSET Threads /\ HeldGets \in SUBSET Threads
  BY DEF HeldAdds, HeldGets, CountedAdds, OwingGets, AddersAt, GettersAt
<1>3. IsFiniteSet(HeldAdds) /\ IsFiniteSet(HeldGets)
  BY <1>2, FS_Subset
<1>4. /\ Cardinality(CountedAdds) + 1 <= Cardinality(HeldAdds)
      /\ Cardinality(OwingGets) <= Cardinality(HeldGets)
  <2>1. Cardinality(CountedAdds \cup {t}) = Cardinality(CountedAdds) + 1
    BY <1>2, OneMoves
  <2> QED
    BY <1>2, <1>3, <2>1, FS_Subset
<1> QED
  BY <1>1, <1>4, Sizes DEF Balance

(* Two adds at work have taken two.                                        *)
LEMMA RoomForTwo ==
  ASSUME IsFiniteSet(Threads), TypeOK, Balance,
         NEW t \in Threads, pc[t] = "work", op[t] \in Adding,
         NEW u \in Threads \ {t}, pc[u] = "work", op[u] \in Adding
  PROVE  count + 2 <= Capacity
<1>1. /\ slots_sem \in Nat /\ items_sem \in Nat /\ count \in Nat
      /\ Capacity \in Nat
  BY MtQueueAssumption DEF TypeOK
<1>2. /\ CountedAdds \in SUBSET Threads /\ CountedAdds \cup {t} \in SUBSET Threads
      /\ (CountedAdds \cup {t}) \cup {u} \in SUBSET HeldAdds
      /\ OwingGets \in SUBSET HeldGets /\ t \notin CountedAdds /\ u \notin CountedAdds \cup {t}
      /\ HeldAdds \in SUBSET Threads /\ HeldGets \in SUBSET Threads
  BY DEF HeldAdds, HeldGets, CountedAdds, OwingGets, AddersAt, GettersAt
<1>3. IsFiniteSet(HeldAdds) /\ IsFiniteSet(HeldGets)
  BY <1>2, FS_Subset
<1>4. /\ Cardinality(CountedAdds) + 2 <= Cardinality(HeldAdds)
      /\ Cardinality(OwingGets) <= Cardinality(HeldGets)
  <2>1. Cardinality(CountedAdds \cup {t}) = Cardinality(CountedAdds) + 1
    BY <1>2, OneMoves
  <2>2. Cardinality((CountedAdds \cup {t}) \cup {u}) = Cardinality(CountedAdds \cup {t}) + 1
    BY <1>2, OneMoves
  <2> QED
    BY <1>2, <1>3, <2>1, <2>2, FS_Subset, Sizes
<1> QED
  BY <1>1, <1>4, Sizes DEF Balance
(* What keeps the ends apart: the mutexes, between adds at the same end,   *)
(* and the permits, between the ends.                                      *)
LEMMA ApartHolds ==
  ASSUME IsFiniteSet(Threads), IInv
  PROVE  EndsApart
<1> SUFFICES ASSUME NEW t \in Threads, pc[t] = "work", op[t] \in Adding
             PROVE  /\ Target(t) \notin Occupied
                    /\ \A u \in Threads \ {t} :
                         pc[u] = "work" /\ op[u] \in Adding => Target(u) # Target(t)
  BY DEF EndsApart
<1>1. TypeOK /\ Balance /\ Exclusive /\ TailTold
  BY Unfold DEF IInv
<1>2. /\ head \in Slots /\ tail \in Slots /\ count \in 0 .. Capacity
      /\ Capacity \in Nat /\ Capacity > 0
  BY <1>1, MtQueueAssumption DEF TypeOK
<1>3. /\ tail = IF head + count < Capacity THEN head + count ELSE head + count - Capacity
      /\ Before(head) = IF head = 0 THEN Capacity - 1 ELSE head - 1
  BY <1>1, <1>2, Past, Neighbours DEF TailTold
<1>4. Target(t) \notin Occupied
  <2> SUFFICES ASSUME NEW i \in 0 .. count - 1, Target(t) = (head + i) % Capacity
               PROVE  FALSE
    BY DEF Occupied
  <2>1. count + 1 <= Capacity
    BY <1>1, RoomTaken
  <2>2. i \in Int /\ 0 <= i /\ i < count /\ i \in 0 .. Capacity
    BY <1>2
  <2>3. (head + i) % Capacity = IF head + i < Capacity THEN head + i ELSE head + i - Capacity
    BY <1>2, <2>2, Past
  <2>4. Target(t) = tail \/ Target(t) = Before(head)
    BY DEF Target
  <2> QED
    BY <1>2, <1>3, <2>1, <2>2, <2>3, <2>4 DEF Slots
<1>5. ASSUME NEW u \in Threads \ {t}, pc[u] = "work", op[u] \in Adding
      PROVE  Target(u) # Target(t)
  <2>1. (op[t] \in AtFront) # (op[u] \in AtFront)
    BY <1>1, <1>5 DEF Exclusive
  <2>2. count + 2 <= Capacity
    BY <1>1, <1>5, RoomForTwo
  <2>3. tail # Before(head)
    BY <1>2, <1>3, <2>2 DEF Slots
  <2> QED
    BY <2>1, <2>3 DEF Target
<1> QED
  BY <1>4, <1>5
-----------------------------------------------------------------------------
LEMMA InitHolds == Init => IInv
<1> SUFFICES ASSUME Init PROVE IInv
  OBVIOUS
<1>1. TypeOK
  BY MtQueueAssumption DEF Init, TypeOK, Slots, Adding, Getting
<1>2. HeldAdds = {} /\ HeldGets = {} /\ CountedAdds = {} /\ OwingGets = {}
  BY DEF Init, HeldAdds, HeldGets, CountedAdds, OwingGets, AddersAt, GettersAt
<1>3. Balance
  BY <1>2, FS_EmptySet, MtQueueAssumption DEF Init, Balance
<1>4. TailTold
  BY Past, MtQueueAssumption DEF Init, TailTold, Slots
<1> QED
  BY <1>1, <1>3, <1>4, Unfold DEF IInv, Init, Exclusive, Carries

LEMMA NextKeeps ==
  ASSUME IsFiniteSet(Threads), IInv, [Next]_vars
  PROVE  IInv'
<1>1. TypeOK /\ Balance /\ Exclusive /\ TailTold /\ Carries
  BY Unfold DEF IInv
<1>2. CASE Next
  <2>1. PICK t \in Threads : Call(t) \/ Step(t)
    BY <1>2 DEF Next
  <2>2. TypeOK' /\ Balance'
    BY <1>1, <2>1, TypeNext, BalanceNext
  <2>3. Exclusive' /\ TailTold' /\ Carries'
    BY <1>1, <2>1, <2>2, ExclusiveNext, TailNext, CarriesNext
  <2>4. PermitsBalance'
    BY <2>2 DEF PermitsBalance, Balance, HeldAdds, HeldGets, CountedAdds, OwingGets
  <2> QED
    BY <2>3, <2>4 DEF IInv
<1>3. CASE UNCHANGED vars
  BY <1>3 DEF IInv, vars, PermitsBalance, TypeOK, Exclusive, TailTold, Carries, AddersAt, GettersAt
<1> QED
  BY <1>2, <1>3

(* mtqueue_add_back() to mtqueue_get_front(): no semaphore_post() exceeds  *)
(* the maximum of its semaphore and the count agrees with the permits,     *)
(* whatever the number of threads and slots and the order of the calls.    *)
THEOREM Balanced ==
  ASSUME IsFiniteSet(Threads)
  PROVE  Spec => []PermitsBalance
<1>1. IInv => PermitsBalance
  BY DEF IInv
<1> QED
  BY InitHolds, NextKeeps, <1>1, PTL DEF Spec

(* The same operations at the two ends, which lock different mutexes,      *)
(* never write a slot that holds an element or that another add writes.    *)
THEOREM EndsStayApart ==
  ASSUME IsFiniteSet(Threads)
  PROVE  Spec => []EndsApart
<1>1. IInv => EndsApart
  BY ApartHolds
<1> QED
  BY InitHolds, NextKeeps, <1>1, PTL DEF Spec
-----------------------------------------------------------------------------
(* A refusal finds no permit in slots_sem; the balance says where the      *)
(* others are.                                                             *)
LEMMA RefusalFindsNoRoom ==
  ASSUME IsFiniteSet(Threads), IInv, NEW t \in Threads, Refuse(t)
  PROVE  count + Cardinality(AddersAt({"lock", "work"}))
           + Cardinality(GettersAt({"unlock", "post"})) >= Capacity
<1> DEFINE early == AddersAt({"lock", "work"})
           late == GettersAt({"unlock", "post"})
<1>1. /\ slots_sem = 0 /\ items_sem \in Nat /\ count \in Nat /\ Capacity \in Nat
      /\ TypeOK /\ Balance
  BY Unfold, MtQueueAssumption DEF Refuse, IInv, TypeOK
<1>2. /\ early \in SUBSET Threads /\ late \in SUBSET Threads
      /\ CountedAdds \in SUBSET Threads /\ OwingGets \in SUBSET Threads
      /\ early \cap CountedAdds = {} /\ late \cap OwingGets = {}
      /\ HeldAdds = early \cup CountedAdds /\ HeldGets = late \cup OwingGets
  BY DEF HeldAdds, HeldGets, CountedAdds, OwingGets, AddersAt, GettersAt
<1>3. /\ IsFiniteSet(early) /\ IsFiniteSet(late)
      /\ IsFiniteSet(CountedAdds) /\ IsFiniteSet(OwingGets)
  BY <1>2, FS_Subset
<1>4. /\ Cardinality(early) \in Nat /\ Cardinality(late) \in Nat
  BY <1>3, FS_CardinalityType
<1>5. /\ Cardinality(HeldAdds) = Cardinality(early) + Cardinality(CountedAdds)
      /\ Cardinality(HeldGets) = Cardinality(late) + Cardinality(OwingGets)
  <2>1. /\ Cardinality(early \cup CountedAdds)
             = Cardinality(early) + Cardinality(CountedAdds) - Cardinality({})
        /\ Cardinality(late \cup OwingGets)
             = Cardinality(late) + Cardinality(OwingGets) - Cardinality({})
    BY <1>2, <1>3, FS_Union
  <2> QED
    BY <1>2, <1>4, <2>1, FS_EmptySet, Sizes
<1> QED
  BY <1>1, <1>4, <1>5, Sizes DEF Balance

(* mtqueue_try_add_back() and mtqueue_try_add_front() return false only    *)
(* when every slot is an element's or a call's, for every capacity.        *)
THEOREM RefusalsJustified ==
  ASSUME IsFiniteSet(Threads)
  PROVE  Spec => RefusedOnlyWhenFull
<1>1. IInv /\ [Next]_vars =>
        [\A t \in Threads : Refuse(t) =>
           count + Cardinality(AddersAt({"lock", "work"}))
             + Cardinality(GettersAt({"unlock", "post"})) >= Capacity]_vars
  BY RefusalFindsNoRoom
<1> QED
  BY InitHolds, NextKeeps, <1>1, PTL DEF Spec, RefusedOnlyWhenFull
-----------------------------------------------------------------------------
Elements == Values \cup {Empty}

LEMMA FunctionIsSequence ==
  ASSUME NEW S, NEW n \in Nat, NEW f \in [1 .. n -> S]
  PROVE  f \in Seq(S) /\ Len(f) = n
<1>1. f \in Seq(S)
  BY SeqDef
<1>2. 1 .. Len(f) = 1 .. n /\ Len(f) \in Nat
  BY <1>1, LenProperties
<1> QED
  BY <1>1, <1>2

(* Where the i-th element of a ring that begins at h is.                   *)
LEMMA Place ==
  \A h \in Slots, i \in 1 .. Capacity :
    /\ (h + i - 1) % Capacity = IF h + i - 1 < Capacity THEN h + i - 1
                                ELSE h + i - 1 - Capacity
    /\ (h + i - 1) % Capacity \in Slots
<1> SUFFICES ASSUME NEW h \in Slots, NEW i \in 1 .. Capacity
             PROVE  /\ (h + i - 1) % Capacity = IF h + i - 1 < Capacity THEN h + i - 1
                                                ELSE h + i - 1 - Capacity
                    /\ (h + i - 1) % Capacity \in Slots
  OBVIOUS
<1>1. /\ Capacity \in Nat /\ h \in Int /\ 0 <= h /\ h < Capacity
      /\ i \in Int /\ 1 <= i /\ i <= Capacity
  BY MtQueueAssumption DEF Slots
<1>2. h + i - 1 \in Nat /\ h + i - 1 < Capacity + Capacity
  BY <1>1
<1>3. (h + i - 1) % Capacity = IF h + i - 1 < Capacity THEN h + i - 1
                               ELSE h + i - 1 - Capacity
  BY <1>1, <1>2, Around
<1> QED
  BY <1>1, <1>2, <1>3 DEF Slots

LEMMA RingIsSequence ==
  ASSUME NEW p \in [Slots -> Elements], NEW h \in Slots, NEW c \in 0 .. Capacity
  PROVE  LET f == [i \in 1 .. c |-> p[(h + i - 1) % Capacity]]
         IN  f \in Seq(Elements) /\ Len(f) = c
<1> DEFINE f == [i \in 1 .. c |-> p[(h + i - 1) % Capacity]]
<1>1. c \in Nat /\ \A i \in 1 .. c : i \in 1 .. Capacity
  BY MtQueueAssumption
<1>2. f \in [1 .. c -> Elements]
  BY <1>1, Place
<1> QED
  BY <1>1, <1>2, FunctionIsSequence

LEMMA ContentsIs ==
  ASSUME TypeOK
  PROVE  /\ Contents \in Seq(Elements) /\ Len(Contents) = count
         /\ \A i \in 1 .. count : Contents[i] = pdata[(head + i - 1) % Capacity]
<1>1. pdata \in [Slots -> Elements] /\ head \in Slots /\ count \in 0 .. Capacity
  BY DEF TypeOK, Elements
<1> QED
  BY <1>1, RingIsSequence DEF Contents

LEMMA ContentsIsNext ==
  ASSUME TypeOK'
  PROVE  /\ Contents' \in Seq(Elements) /\ Len(Contents') = count'
         /\ \A i \in 1 .. count' : Contents'[i] = pdata'[(head' + i - 1) % Capacity]
<1>1. pdata' \in [Slots -> Elements] /\ head' \in Slots /\ count' \in 0 .. Capacity
  BY DEF TypeOK, Elements
<1> QED
  BY <1>1, RingIsSequence DEF Contents

\* What is known where an operation works on the ring.
Ready ==
  /\ TypeOK /\ TypeOK'
  /\ head \in Slots /\ head' \in Slots /\ tail \in Slots
  /\ count \in 0 .. Capacity /\ count' \in 0 .. Capacity
  /\ Capacity \in Nat /\ Capacity > 0
  /\ tail = IF head + count < Capacity THEN head + count ELSE head + count - Capacity

LEMMA AddBackIsPushBack ==
  ASSUME Ready, EndsApart, Carries, NEW t \in Threads, AddBack(t)
  PROVE  Deque!PushBack(arg[t]) /\ arg[t] \in Values
<1>1. /\ pc[t] = "work" /\ op[t] \in Adding /\ op[t] \notin AtFront /\ head' = head
      /\ count' = count + 1 /\ taken' = taken
      /\ pdata' = [pdata EXCEPT ![tail] = arg[t]]
  BY DEF AddBack, Goto, locals
<1>2. arg[t] \in Values /\ arg[t] \in Elements
  BY <1>1 DEF Carries, Elements
<1>3. tail \notin Occupied /\ count < Capacity
  BY <1>1 DEF EndsApart, Target, Ready
<1>4. ASSUME NEW i \in 1 .. count' PROVE Contents'[i] = Append(Contents, arg[t])[i]
  <2>1. i \in 1 .. Capacity /\ (head + i - 1) % Capacity \in Slots
    BY Place DEF Ready
  <2>2. Contents'[i] = pdata'[(head + i - 1) % Capacity]
    BY <1>1, ContentsIsNext DEF Ready
  <2>3. CASE i \in 1 .. count
    <3>1. (head + i - 1) % Capacity \in Occupied
      <4>1. i - 1 \in 0 .. count - 1 /\ head + (i - 1) = head + i - 1
        BY <2>3 DEF Ready, Slots
      <4> QED
        BY <4>1 DEF Occupied
    <3>2. pdata'[(head + i - 1) % Capacity] = pdata[(head + i - 1) % Capacity]
      BY <1>1, <1>3, <2>1, <3>1 DEF Ready, TypeOK
    <3> QED
      BY <1>2, <2>2, <2>3, <3>2, ContentsIs, AppendProperties DEF Ready
  <2>4. CASE i = count + 1
    <3>1. (head + i - 1) % Capacity = tail
      BY <2>1, <2>4, Place DEF Ready, Slots
    <3>2. pdata'[tail] = arg[t]
      BY <1>1 DEF Ready, TypeOK
    <3> QED
      BY <1>2, <2>2, <2>4, <3>1, <3>2, ContentsIs, AppendProperties DEF Ready
  <2>5. i \in 1 .. count \/ i = count + 1
    <3>1. count \in Int /\ i \in 1 .. count + 1
      BY <1>1 DEF Ready
    <3> QED
      BY <3>1
  <2> QED
    BY <2>3, <2>4, <2>5
<1>5. Contents' = Append(Contents, arg[t])
  <2>1. /\ Append(Contents, arg[t]) \in Seq(Elements) /\ Len(Append(Contents, arg[t])) = count + 1
        /\ Contents' \in Seq(Elements) /\ Len(Contents') = count + 1
    BY <1>1, <1>2, ContentsIs, ContentsIsNext, AppendProperties DEF Ready
  <2> QED
    BY <1>1, <1>4, <2>1, SeqEqual
<1> QED
  BY <1>1, <1>2, <1>3, <1>5, ContentsIs DEF Deque!PushBack, Ready

LEMMA AddFrontIsPushFront ==
  ASSUME Ready, EndsApart, Carries, NEW t \in Threads, AddFront(t)
  PROVE  Deque!PushFront(arg[t]) /\ arg[t] \in Values
<1> DEFINE front == <<arg[t]>>
<1>1. /\ pc[t] = "work" /\ op[t] \in Adding /\ op[t] \in AtFront /\ head' = Before(head)
      /\ count' = count + 1 /\ taken' = taken
      /\ pdata' = [pdata EXCEPT ![Before(head)] = arg[t]]
  BY DEF AddFront, Goto, locals
<1>2. arg[t] \in Values /\ arg[t] \in Elements
  BY <1>1 DEF Carries, Elements
<1>3. Before(head) \notin Occupied /\ count < Capacity
  BY <1>1 DEF EndsApart, Target, Ready
<1>4. Before(head) = (IF head = 0 THEN Capacity - 1 ELSE head - 1) /\ Before(head) \in Slots
  BY Neighbours DEF Ready
<1>5. front \in Seq(Elements) /\ Len(front) = 1 /\ front[1] = arg[t]
  BY <1>2
<1>6. /\ front \o Contents \in Seq(Elements) /\ Len(front \o Contents) = count + 1
      /\ \A i \in 1 .. count + 1 : (front \o Contents)[i] = IF i = 1 THEN arg[t] ELSE Contents[i - 1]
  <2>1. /\ front \o Contents \in Seq(Elements) /\ Len(front \o Contents) = 1 + count
        /\ \A i \in 1 .. 1 + count :
             (front \o Contents)[i] = IF i <= 1 THEN front[i] ELSE Contents[i - 1]
    BY <1>5, ContentsIs, ConcatProperties DEF Ready
  <2> QED
    BY <1>5, <2>1 DEF Ready
<1>7. ASSUME NEW i \in 1 .. count + 1 PROVE Contents'[i] = (front \o Contents)[i]
  <2>1. i \in 1 .. Capacity /\ (head' + i - 1) % Capacity \in Slots
    BY <1>1, <1>3, Place DEF Ready
  <2>2. Contents'[i] = pdata'[(head' + i - 1) % Capacity]
    BY <1>1, ContentsIsNext DEF Ready
  <2>3. CASE i = 1
    <3>1. (head' + i - 1) % Capacity = Before(head)
      <4>1. (head' + i - 1) % Capacity = IF head' + i - 1 < Capacity THEN head' + i - 1
                                         ELSE head' + i - 1 - Capacity
        BY <2>1, Place DEF Ready
      <4>2. /\ head' = Before(head) /\ head' \in Int /\ 0 <= head' /\ head' < Capacity
            /\ Capacity \in Int
        BY <1>1, <1>4 DEF Ready, Slots
      <4> QED
        BY <2>3, <4>1, <4>2
    <3> QED
      BY <1>1, <1>4, <1>6, <2>2, <2>3, <3>1 DEF Ready, TypeOK
  <2>4. CASE i # 1
    <3>1. i - 1 \in 1 .. count /\ i - 1 \in 1 .. Capacity
      BY <2>1, <2>4 DEF Ready
    <3>2. (head' + i - 1) % Capacity = (head + (i - 1) - 1) % Capacity
      <4>1. (head' + i - 1) % Capacity = IF head' + i - 1 < Capacity THEN head' + i - 1
                                         ELSE head' + i - 1 - Capacity
        BY <2>1, Place DEF Ready
      <4>2. (head + (i - 1) - 1) % Capacity = IF head + (i - 1) - 1 < Capacity
                                              THEN head + (i - 1) - 1
                                              ELSE head + (i - 1) - 1 - Capacity
        BY <3>1, Place DEF Ready
      <4>3. /\ head' = (IF head = 0 THEN Capacity - 1 ELSE head - 1)
            /\ head \in Int /\ 0 <= head /\ head < Capacity /\ Capacity \in Int
            /\ i \in Int /\ 2 <= i /\ i <= Capacity
        BY <1>1, <1>4, <2>1, <3>1 DEF Ready, Slots
      <4> QED
        BY <4>1, <4>2, <4>3
    <3>3. (head' + i - 1) % Capacity \in Occupied
      <4>1. i - 2 \in 0 .. count - 1 /\ head + (i - 1) - 1 = head + (i - 2)
        BY <3>1 DEF Ready, Slots
      <4> QED
        BY <3>2, <4>1 DEF Occupied
    <3>4. pdata'[(head' + i - 1) % Capacity] = pdata[(head' + i - 1) % Capacity]
      BY <1>1, <1>3, <2>1, <3>3 DEF Ready, TypeOK
    <3>5. Contents[i - 1] = pdata[(head + (i - 1) - 1) % Capacity]
      BY <3>1, ContentsIs DEF Ready
    <3> QED
      BY <1>6, <2>2, <2>4, <3>2, <3>4, <3>5
  <2> QED
    BY <2>3, <2>4
<1>8. Contents' = front \o Contents
  <2>1. Contents' \in Seq(Elements) /\ Len(Contents') = count + 1
    BY <1>1, ContentsIsNext DEF Ready
  <2> QED
    BY <1>6, <1>7, <2>1, SeqEqual
<1> QED
  BY <1>1, <1>2, <1>3, <1>8, ContentsIs DEF Deque!PushFront, Ready

(* A get at work owes the count what it has taken from items_sem.          *)
LEMMA ElementOwed ==
  ASSUME IsFiniteSet(Threads), TypeOK, Balance,
         NEW t \in Threads, pc[t] = "work", op[t] \in Getting
  PROVE  count >= 1
<1>1. items_sem \in Nat
  BY DEF TypeOK
<1>2. t \in OwingGets /\ OwingGets \in SUBSET Threads
  BY DEF OwingGets, GettersAt
<1>3. OwingGets \ {t} \in SUBSET Threads /\ t \notin OwingGets \ {t}
      /\ (OwingGets \ {t}) \cup {t} = OwingGets
  BY <1>2
<1>4. /\ Cardinality(OwingGets \ {t}) \in Nat
      /\ Cardinality(OwingGets) = Cardinality(OwingGets \ {t}) + 1
  BY <1>3, OneMoves
<1> QED
  BY <1>1, <1>4, Sizes DEF Balance

LEMMA GetBackIsPopBack ==
  ASSUME Ready, count >= 1, NEW t \in Threads, GetBack(t)
  PROVE  Deque!PopBack(t)
<1>1. /\ head' = head /\ count' = count - 1 /\ pdata' = pdata
      /\ taken' = [taken EXCEPT ![t] = pdata[Before(tail)]]
  BY DEF GetBack
<1>2. Len(Contents) \in 1 .. Capacity /\ Len(Contents) = count
  BY ContentsIs DEF Ready
<1>3. Contents # <<>> /\ Contents[Len(Contents)] = pdata[Before(tail)]
  <2>1. (head + count - 1) % Capacity = Before(tail)
    <3>1. (head + count - 1) % Capacity = IF head + count - 1 < Capacity THEN head + count - 1
                                          ELSE head + count - 1 - Capacity
      BY <1>2, Place DEF Ready
    <3>2. Before(tail) = IF tail = 0 THEN Capacity - 1 ELSE tail - 1
      BY Neighbours DEF Ready
    <3>3. /\ tail = IF head + count < Capacity THEN head + count ELSE head + count - Capacity
          /\ head \in Int /\ 0 <= head /\ head < Capacity /\ Capacity \in Int
          /\ count \in Int /\ 1 <= count /\ count <= Capacity
      BY DEF Ready, Slots
    <3> QED
      BY <3>1, <3>2, <3>3
  <2> QED
    BY <1>2, <2>1, ContentsIs DEF Ready
<1>4. Contents' = SubSeq(Contents, 1, Len(Contents) - 1)
  <2>1. /\ SubSeq(Contents, 1, count - 1) \in Seq(Elements)
        /\ Len(SubSeq(Contents, 1, count - 1)) = count - 1
        /\ \A i \in 1 .. count - 1 : SubSeq(Contents, 1, count - 1)[i] = Contents[i]
    <3>1. /\ 1 \in Int /\ count - 1 \in Int
          /\ \A i \in 1 .. count - 1 : Contents[i] \in Elements
      BY <1>2, ContentsIs, ElementOfSeq DEF Ready
    <3> QED
      BY <1>2, <3>1, SubSeqProperties
  <2>2. Contents' \in Seq(Elements) /\ Len(Contents') = count - 1
    BY <1>1, ContentsIsNext DEF Ready
  <2>3. ASSUME NEW i \in 1 .. count - 1 PROVE Contents'[i] = Contents[i]
    <3>1. i \in 1 .. count /\ i \in 1 .. count'
      BY <1>1, <1>2
    <3>2. Contents'[i] = pdata'[(head' + i - 1) % Capacity]
      BY <3>1, ContentsIsNext DEF Ready
    <3>3. Contents[i] = pdata[(head + i - 1) % Capacity]
      BY <3>1, ContentsIs DEF Ready
    <3> QED
      BY <1>1, <3>2, <3>3
  <2> QED
    BY <1>2, <2>1, <2>2, <2>3, SeqEqual
<1> QED
  BY <1>1, <1>3, <1>4 DEF Deque!PopBack

LEMMA GetFrontIsPopFront ==
  ASSUME Ready, count >= 1, NEW t \in Threads, GetFront(t)
  PROVE  Deque!PopFront(t)
<1>1. /\ head' = After(head) /\ count' = count - 1 /\ pdata' = pdata
      /\ taken' = [taken EXCEPT ![t] = pdata[head]]
  BY DEF GetFront
<1>2. Len(Contents) \in 1 .. Capacity /\ Len(Contents) = count
  BY ContentsIs DEF Ready
<1>3. Contents # <<>> /\ Head(Contents) = pdata[head]
  <2>1. 1 \in 1 .. count /\ 1 \in 1 .. Capacity
    <3>1. Capacity \in Int /\ count \in Int /\ 1 <= count /\ count <= Capacity
      BY <1>2 DEF Ready
    <3> QED
      BY <3>1
  <2>2. (head + 1 - 1) % Capacity = IF head + 1 - 1 < Capacity THEN head + 1 - 1
                                    ELSE head + 1 - 1 - Capacity
    BY <2>1, Place DEF Ready
  <2>3. head \in Int /\ head < Capacity /\ Capacity \in Int
    BY DEF Ready, Slots
  <2>4. (head + 1 - 1) % Capacity = head
    BY <2>2, <2>3
  <2>5. Contents[1] = pdata[(head + 1 - 1) % Capacity]
    BY <2>1, ContentsIs DEF Ready
  <2>6. Contents \in Seq(Elements) /\ Contents # <<>>
    BY <1>2, ContentsIs, EmptySeq DEF Ready
  <2> QED
    BY <2>4, <2>5, <2>6
<1>4. Contents' = Tail(Contents)
  <2>1. /\ Tail(Contents) \in Seq(Elements) /\ Len(Tail(Contents)) = count - 1
        /\ \A i \in 1 .. count - 1 : Tail(Contents)[i] = Contents[i + 1]
    BY <1>2, <1>3, ContentsIs, HeadTailProperties DEF Ready
  <2>2. Contents' \in Seq(Elements) /\ Len(Contents') = count - 1
    BY <1>1, ContentsIsNext DEF Ready
  <2>3. ASSUME NEW i \in 1 .. count - 1 PROVE Contents'[i] = Contents[i + 1]
    <3>1. /\ head' = (IF head = Capacity - 1 THEN 0 ELSE head + 1)
          /\ head \in Int /\ 0 <= head /\ head < Capacity /\ Capacity \in Int
          /\ i \in Int /\ 1 <= i /\ i < count /\ count \in Int /\ count <= Capacity
      BY <1>1, Neighbours DEF Ready, Slots
    <3>2. (head' + i - 1) % Capacity = IF head' + i - 1 < Capacity THEN head' + i - 1
                                       ELSE head' + i - 1 - Capacity
      BY <3>1, Place DEF Ready
    <3>3. (head + (i + 1) - 1) % Capacity = IF head + (i + 1) - 1 < Capacity
                                            THEN head + (i + 1) - 1
                                            ELSE head + (i + 1) - 1 - Capacity
      BY <3>1, Place DEF Ready
    <3>4. (head' + i - 1) % Capacity = (head + (i + 1) - 1) % Capacity
      BY <3>1, <3>2, <3>3
    <3>5. i \in 1 .. count' /\ i + 1 \in 1 .. count
      BY <1>1, <3>1
    <3>6. Contents'[i] = pdata'[(head' + i - 1) % Capacity]
      BY <3>5, ContentsIsNext DEF Ready
    <3>7. Contents[i + 1] = pdata[(head + (i + 1) - 1) % Capacity]
      BY <3>5, ContentsIs DEF Ready
    <3> QED
      BY <1>1, <3>4, <3>6, <3>7
  <2> QED
    BY <1>2, <2>1, <2>2, <2>3, SeqEqual
<1> QED
  BY <1>1, <1>3, <1>4 DEF Deque!PopFront

LEMMA StepRefines ==
  ASSUME IsFiniteSet(Threads), IInv, IInv', [Next]_vars
  PROVE  [Deque!Next]_<<Contents, taken>>
<1>1. /\ TypeOK /\ Balance /\ TailTold /\ Carries /\ EndsApart /\ TypeOK'
  BY Unfold, ApartHolds DEF IInv, PermitsBalance
<1>2. Ready
  <2>1. /\ head \in Slots /\ head' \in Slots /\ tail \in Slots
        /\ count \in 0 .. Capacity /\ count' \in 0 .. Capacity
        /\ Capacity \in Nat /\ Capacity > 0
    BY <1>1, MtQueueAssumption DEF TypeOK
  <2>2. tail = IF head + count < Capacity THEN head + count ELSE head + count - Capacity
    BY <1>1, <2>1, Past DEF TailTold
  <2> QED
    BY <1>1, <2>1, <2>2 DEF Ready
<1>3. ASSUME NEW t \in Threads, AddBack(t) \/ AddFront(t)
      PROVE  Deque!Next
  <2>1. \E v \in Values : Deque!PushBack(v) \/ Deque!PushFront(v)
    BY <1>1, <1>2, <1>3, AddBackIsPushBack, AddFrontIsPushFront
  <2> QED
    BY <2>1 DEF Deque!Next
<1>4. ASSUME NEW t \in Threads, GetBack(t) \/ GetFront(t)
      PROVE  Deque!Next
  <2>1. pc[t] = "work" /\ op[t] \in Getting
    BY <1>4 DEF GetBack, GetFront, Goto, Getting
  <2>2. count >= 1
    BY <1>1, <2>1, ElementOwed
  <2>3. Deque!PopBack(t) \/ Deque!PopFront(t)
    BY <1>2, <1>4, <2>2, GetBackIsPopBack, GetFrontIsPopFront
  <2> QED
    BY <2>3 DEF Deque!Next
<1>5. ASSUME NEW t \in Threads, Use(t)
      PROVE  Deque!Next
  <2>1. Deque!Drop(t)
    BY <1>5 DEF Use, Deque!Drop, Contents, ring
  <2> QED
    BY <2>1 DEF Deque!Next
<1>6. ASSUME NEW t \in Threads,
             \/ Call(t) \/ Wait(t) \/ Refuse(t) \/ Lock(t) \/ Unlock(t)
             \/ PostItem(t) \/ PostSlot(t) \/ ReturnBack(t)
      PROVE  UNCHANGED <<Contents, taken>>
  BY <1>6 DEF Call, Add, Get, Wait, Refuse, Lock, Unlock, PostItem, PostSlot, ReturnBack,
              Contents, ring, locals
<1>7. CASE UNCHANGED vars
  BY <1>7 DEF vars, Contents
<1> QED
  BY <1>3, <1>4, <1>5, <1>6, <1>7 DEF Next, Step

(* Every operation of the interlocked queue, from its semaphore_wait() to  *)
(* its semaphore_post(), is for its callers one step of a bounded deque,   *)
(* for every number of threads and every capacity.                         *)
THEOREM ImplementsDeque ==
  ASSUME IsFiniteSet(Threads)
  PROVE  Spec => DequeSpec
<1>1. Init => Deque!Init
  <2> SUFFICES ASSUME Init PROVE Deque!Init
    OBVIOUS
  <2>1. TypeOK /\ count = 0
    BY InitHolds DEF Init, IInv, PermitsBalance
  <2>2. Contents \in Seq(Elements) /\ Len(Contents) = 0
    BY <2>1, ContentsIs
  <2> QED
    BY <2>2, EmptySeq DEF Init, Deque!Init
<1>2. IInv /\ IInv' /\ [Next]_vars => [Deque!Next]_<<Contents, taken>>
  BY StepRefines
<1> QED
  BY InitHolds, NextKeeps, <1>1, <1>2, PTL DEF Spec, DequeSpec, Deque!Spec
=============================================================================
