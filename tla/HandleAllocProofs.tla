------------------------- MODULE HandleAllocProofs -------------------------
(***************************************************************************)
(* Proofs about HandleAlloc for every number of handles and every width of *)
(* the generation counter, as long as no counter wraps (MaxTurns is below  *)
(* GenSize).                                                               *)
(***************************************************************************)
EXTENDS HandleAlloc, FiniteSetTheorems, WellFoundedInduction, TLAPS

NoWrap == MaxTurns < GenSize

LEMMA TurnMoves ==
  ASSUME NoWrap, GenerationInv, NEW i \in Indices, Turn(i)
  PROVE  /\ pgenerations' = [pgenerations EXCEPT ![i] = @ + 1]
         /\ pgenerations[i] \in Nat /\ pgenerations[i] + 1 \in Generations
         /\ turns' \in [Indices -> 0 .. MaxTurns]
         /\ \A j \in Indices : pgenerations'[j] = turns'[j]
<1>1. /\ turns[i] \in 0 .. MaxTurns /\ turns[i] < MaxTurns
      /\ pgenerations[i] = turns[i]
  BY DEF GenerationInv, TypeOK, Turn
<1>2. /\ pgenerations[i] \in Nat /\ pgenerations[i] + 1 \in Generations
      /\ (pgenerations[i] + 1) % GenSize = pgenerations[i] + 1
  BY <1>1, HandleAssumption DEF NoWrap, Generations
<1>3. pgenerations' = [pgenerations EXCEPT ![i] = @ + 1]
  BY <1>2 DEF Turn
<1>4. turns' \in [Indices -> 0 .. MaxTurns]
  BY <1>1, HandleAssumption DEF Turn, GenerationInv, TypeOK
<1>5. \A j \in Indices : pgenerations'[j] = turns'[j]
  BY <1>3, <1>1 DEF Turn, GenerationInv, TypeOK
<1> QED
  BY <1>2, <1>3, <1>4, <1>5

LEMMA GenerationInit == Init => GenerationInv
<1> SUFFICES ASSUME Init PROVE GenerationInv
  OBVIOUS
<1>1. TypeOK
  BY HandleAssumption DEF Init, TypeOK, Generations
<1>2. \A i \in Indices : pgenerations[i] = 0 /\ turns[i] = 0
  BY DEF Init
<1>3. BusyAreHeld
  BY <1>2 DEF Init, BusyAreHeld, Busy
<1> QED
  BY <1>1, <1>2, <1>3 DEF Init, GenerationInv, HeldAreValid

LEMMA GenerationNext ==
  ASSUME NoWrap, GenerationInv, [Next]_vars
  PROVE  GenerationInv'
<1>1. ASSUME NEW i \in Indices, alloc_handle(i)
      PROVE  GenerationInv'
  <2> DEFINE h == [index |-> i, gen |-> pgenerations[i] + 1]
  <2>1. /\ pgenerations' = [pgenerations EXCEPT ![i] = @ + 1]
        /\ pgenerations[i] \in Nat /\ pgenerations[i] + 1 \in Generations
        /\ turns' \in [Indices -> 0 .. MaxTurns]
        /\ \A j \in Indices : pgenerations'[j] = turns'[j]
    BY <1>1, TurnMoves DEF alloc_handle
  <2>2. pgenerations \in [Indices -> Generations]
    BY DEF GenerationInv, TypeOK
  <2>3. pgenerations'[i] = pgenerations[i] + 1
    BY <2>1, <2>2
  <2>4. /\ held' = held \cup {h} /\ freed' = freed
        /\ ~Busy(i)
    BY <1>1, <2>3 DEF alloc_handle
  <2>5. TypeOK'
    BY <2>1, <2>2, <2>4 DEF GenerationInv, TypeOK, Handles
  <2>6. \A g \in held : g.index # i /\ g.index \in Indices
    BY <2>4 DEF GenerationInv, HeldAreValid, TypeOK, Handles
  <2>7. Busy(i)'
    BY <2>1, <2>3, <2>4 DEF Busy
  <2>8. HeldAreValid'
    <3>1. ASSUME NEW g \in held'
          PROVE  is_valid_handle(g)' /\ Busy(g.index)'
      <4>1. CASE g = h
        BY <4>1, <2>3, <2>7, HandleAssumption DEF is_valid_handle, Indices
      <4>2. CASE g \in held
        BY <4>2, <2>1, <2>2, <2>6
        DEF GenerationInv, HeldAreValid, is_valid_handle, Busy
      <4> QED
        BY <4>1, <4>2, <2>4
    <3>2. \A f, g \in held' : f.index = g.index => f = g
      BY <2>4, <2>6 DEF GenerationInv, HeldAreValid
    <3> QED
      BY <3>1, <3>2 DEF HeldAreValid
  <2>9. \A g \in freed' : g.gen < pgenerations'[g.index]
    <3> SUFFICES ASSUME NEW g \in freed
                 PROVE  g.gen < pgenerations'[g.index]
      BY <2>4
    <3>1. g.index \in Indices /\ g.gen \in Int /\ g.gen < pgenerations[g.index]
      BY HandleAssumption DEF GenerationInv, TypeOK, Handles, Generations
    <3> QED
      BY <2>1, <2>2, <3>1
  <2>10. BusyAreHeld'
    <3> SUFFICES ASSUME NEW j \in Indices
                 PROVE  Busy(j)' <=> Handle(j)' \in held'
      BY DEF BusyAreHeld
    <3>1. CASE j = i
      BY <3>1, <2>3, <2>4, <2>7 DEF Handle
    <3>2. CASE j # i
      <4>1. pgenerations'[j] = pgenerations[j] /\ Handle(j)' # h
        BY <3>2, <2>1, <2>2 DEF Handle
      <4>2. Busy(j)' = Busy(j) /\ Handle(j)' = Handle(j)
        BY <4>1 DEF Busy, Handle
      <4> QED
        BY <4>1, <4>2, <2>4 DEF GenerationInv, BusyAreHeld
    <3> QED
      BY <3>1, <3>2
  <2> QED
    BY <2>1, <2>5, <2>8, <2>9, <2>10 DEF GenerationInv
<1>2. ASSUME NEW h \in held \cup freed, free_handle(h)
      PROVE  GenerationInv'
  <2> DEFINE i == h.index
  <2>1. /\ h \in held /\ i \in Indices
        /\ pgenerations[i] = h.gen /\ Busy(i)
    <3>1. h.index \in Indices /\ h.gen \in Nat /\ pgenerations[h.index] \in Nat
      BY HandleAssumption DEF GenerationInv, TypeOK, Handles, Generations
    <3>2. h.gen = pgenerations[h.index]
      BY <1>2 DEF free_handle, is_valid_handle
    <3>3. h \notin freed
      BY <3>1, <3>2 DEF GenerationInv
    <3> QED
      BY <3>1, <3>2, <3>3, <1>2 DEF GenerationInv, HeldAreValid
  <2>2. /\ pgenerations' = [pgenerations EXCEPT ![i] = @ + 1]
        /\ pgenerations[i] \in Nat /\ pgenerations[i] + 1 \in Generations
        /\ turns' \in [Indices -> 0 .. MaxTurns]
        /\ \A j \in Indices : pgenerations'[j] = turns'[j]
    BY <1>2, <2>1, TurnMoves DEF free_handle
  <2>3. pgenerations \in [Indices -> Generations]
    BY DEF GenerationInv, TypeOK
  <2>4. /\ held' = held \ {h} /\ freed' = freed \cup {h}
        /\ pgenerations'[i] = pgenerations[i] + 1
    BY <1>2, <2>1, <2>2, <2>3 DEF free_handle
  <2>5. TypeOK'
    BY <2>1, <2>2, <2>3, <2>4 DEF GenerationInv, TypeOK, Handles
  <2>6. \A g \in held' : g.index # i /\ g.index \in Indices
    BY <2>1, <2>4 DEF GenerationInv, HeldAreValid, TypeOK, Handles
  <2>7. ~Busy(i)'
    BY <2>1, <2>2, <2>4 DEF Busy
  <2>8. HeldAreValid'
    <3>1. \A g \in held' : is_valid_handle(g)' /\ Busy(g.index)'
      BY <2>2, <2>3, <2>4, <2>6 DEF GenerationInv, HeldAreValid, is_valid_handle, Busy
    <3> QED
      BY <2>4, <3>1 DEF GenerationInv, HeldAreValid
  <2>9. \A g \in freed' : g.gen < pgenerations'[g.index]
    <3> SUFFICES ASSUME NEW g \in freed \cup {h}
                 PROVE  g.gen < pgenerations'[g.index]
      BY <2>4
    <3>1. g.index \in Indices /\ g.gen \in Int
          /\ pgenerations[g.index] \in Int /\ g.gen <= pgenerations[g.index]
      BY <2>1, HandleAssumption DEF GenerationInv, TypeOK, Handles, Generations
    <3>2. CASE g.index = i
      BY <3>1, <3>2, <2>4
    <3>3. CASE g.index # i
      <4>1. g \in freed
        BY <3>3
      <4> QED
        BY <4>1, <3>1, <3>3, <2>2, <2>3 DEF GenerationInv
    <3> QED
      BY <3>2, <3>3
  <2>10. BusyAreHeld'
    <3> SUFFICES ASSUME NEW j \in Indices
                 PROVE  Busy(j)' <=> Handle(j)' \in held'
      BY DEF BusyAreHeld
    <3>1. CASE j = i
      BY <3>1, <2>6, <2>7 DEF Handle
    <3>2. CASE j # i
      <4>1. pgenerations'[j] = pgenerations[j] /\ Handle(j)' # h
        BY <3>2, <2>2, <2>3 DEF Handle
      <4>2. Busy(j)' = Busy(j) /\ Handle(j)' = Handle(j)
        BY <4>1 DEF Busy, Handle
      <4> QED
        BY <4>1, <4>2, <2>4 DEF GenerationInv, BusyAreHeld
    <3> QED
      BY <3>1, <3>2
  <2> QED
    BY <2>2, <2>5, <2>8, <2>9, <2>10 DEF GenerationInv
<1>3. CASE UNCHANGED vars
  BY <1>3 DEF vars, GenerationInv, TypeOK, HeldAreValid, BusyAreHeld, Busy, Handle,
              is_valid_handle
<1> QED
  BY <1>1, <1>2, <1>3 DEF Next

(* ha_alloc_handle() and ha_free_handle(): each generation counter counts  *)
(* the turns of its slot, every caller's handle is the current one of its  *)
(* slot, and a freed one is older: the invariant behind the next three.    *)
THEOREM Generation ==
  ASSUME NoWrap
  PROVE  Spec => []GenerationInv
BY GenerationInit, GenerationNext, PTL DEF Spec

(* ha_alloc_handle(): a handle stays valid for the caller it was given to, *)
(* and no slot is given twice.                                             *)
THEOREM HeldStayValid ==
  ASSUME NoWrap
  PROVE  Spec => []HeldAreValid
<1>1. GenerationInv => HeldAreValid
  BY DEF GenerationInv
<1> QED
  BY Generation, <1>1, PTL

(* ha_is_valid_handle() and ha_free_handle(): a handle that was freed is   *)
(* refused ever after.                                                     *)
THEOREM StaleRefused ==
  ASSUME NoWrap
  PROVE  Spec => []StaleAreRejected
<1>1. GenerationInv => StaleAreRejected
  BY HandleAssumption
  DEF GenerationInv, TypeOK, Handles, Generations, StaleAreRejected, is_valid_handle
<1> QED
  BY Generation, <1>1, PTL

(* ha_alloc_handle() and ha_free_handle(): the slots in use are those some *)
(* caller holds, so no slot leaks.                                         *)
THEOREM NoSlotLeaks ==
  ASSUME NoWrap
  PROVE  Spec => []BusyAreHeld
<1>1. GenerationInv => BusyAreHeld
  BY DEF GenerationInv
<1> QED
  BY Generation, <1>1, PTL
-----------------------------------------------------------------------------
(* A set of numbers that has 0, and with each number the next, has all.    *)
LEMMA Least ==
  ASSUME NEW S, S \subseteq Nat, S # {}
  PROVE  \E x \in S : \A y \in S : x <= y
<1> DEFINE less == OpToRel(<, Nat)
<1>1. \A x, y \in Nat : x < y => <<x, y>> \in less
  BY DEF OpToRel
<1>2. PICK x \in S : \A y \in S : ~(<<y, x>> \in less)
  <2>1. IsWellFoundedOn(less, Nat)
    BY NatLessThanWellFounded
  <2> HIDE DEF less
  <2> QED
    BY <2>1, WFMin
<1> HIDE DEF less
<1>3. \A y \in S : ~ (y < x)
  BY <1>1, <1>2
<1>4. \A y \in S : y \in Nat /\ x \in Nat
  OBVIOUS
<1> QED
  BY <1>2, <1>3, <1>4

LEMMA SetInduction ==
  ASSUME NEW S, 0 \in S, \A n \in Nat : n \in S => n + 1 \in S
  PROVE  Nat \subseteq S
<1> DEFINE Missing == Nat \ S
<1> SUFFICES ASSUME Missing # {} PROVE FALSE
  OBVIOUS
<1>1. PICK x \in Missing : \A y \in Missing : x <= y
  <2>1. Missing \subseteq Nat
    OBVIOUS
  <2> HIDE DEF Missing
  <2> QED
    BY <2>1, Least
<1>2. x # 0
  OBVIOUS
<1>3. x - 1 \in Nat /\ x - 1 \notin Missing
  BY <1>1, <1>2
<1>4. (x - 1) + 1 \in S
  BY <1>3
<1> QED
  BY <1>1, <1>4

(* A loop of ha_get_next_handle() calls                                    *)

Call(n, f) == get_next_handle(IF n = 1 THEN get_first_handle(0) ELSE f[n - 1][2])

\* f is the function that Iteration is defined by, up to N.
Iterates(f, N) == f = [n \in 1 .. N |-> Call(n, f)]

LEMMA IterationExists ==
  ASSUME NEW N \in Nat
  PROVE  \E f : Iterates(f, N)
<1> DEFINE S == {n \in Nat : \E f : Iterates(f, n)}
<1>1. 0 \in S
  <2> DEFINE none == [n \in 1 .. 0 |-> 0]
  <2>1. Iterates(none, 0)
    BY DEF Iterates
  <2> QED
    BY <2>1
<1>2. ASSUME NEW n \in Nat, n \in S PROVE n + 1 \in S
  <2>1. PICK f : Iterates(f, n)
    BY <1>2
  <2> DEFINE longer == [k \in 1 .. n + 1 |-> Call(k, f)]
  <2>2. \A k \in 1 .. n : longer[k] = f[k]
    BY <2>1 DEF Iterates
  <2>3. \A k \in 1 .. n + 1 : Call(k, f) = Call(k, longer)
    <3> HIDE DEF longer
    <3>1. \A k \in 1 .. n + 1 : k # 1 => k - 1 \in 1 .. n
      OBVIOUS
    <3> QED
      BY <2>2, <3>1 DEF Call
  <2>4. Iterates(longer, n + 1)
    BY <2>3 DEF Iterates
  <2> QED
    BY <2>4
<1>3. Nat \subseteq S
  <2> HIDE DEF S
  <2> QED
    BY <1>1, <1>2, SetInduction
<1> QED
  BY <1>3

LEMMA IterationIs ==
  \A n \in 1 .. nhandles + 1 : Iteration[n] = Call(n, Iteration)
<1>1. \E f : Iterates(f, nhandles + 1)
  BY IterationExists, HandleAssumption
<1>2. Iteration = CHOOSE f : Iterates(f, nhandles + 1)
  BY DEF Iteration, Iterates, Call
<1>3. Iterates(Iteration, nhandles + 1)
  BY <1>1, <1>2
<1> QED
  BY <1>3 DEF Iterates

LEMMA FirstIs ==
  ASSUME NEW S, S \subseteq Indices, S # {}
  PROVE  First(S) \in S /\ \A j \in S : First(S) <= j
<1>1. S \subseteq Nat
  BY HandleAssumption DEF Indices
<1> QED
  BY <1>1, Least DEF First

\* The slots in use up to i
BusyTo(i) == {j \in BusyFrom(0) : j <= i}

\* A call of ha_get_next_handle() that has found slot i, the k-th in use
Found(c, i, k) ==
  /\ c = <<TRUE, [index |-> i + 1, gen |-> pgenerations[i]]>>
  /\ i \in BusyFrom(0)
  /\ Cardinality(BusyTo(i)) = k

LEMMA BusyAre ==
  /\ IsFiniteSet(BusyFrom(0))
  /\ \A i : BusyTo(i) \subseteq BusyFrom(0) /\ IsFiniteSet(BusyTo(i))
  /\ \A i \in BusyFrom(0) : i \in Indices /\ i \in Nat /\ Busy(i)
  /\ \A s \in Nat : BusyFrom(s) = {i \in BusyFrom(0) : i >= s}
  /\ Cardinality(BusyFrom(0)) \in 0 .. nhandles
<1>1. IsFiniteSet(Indices) /\ Cardinality(Indices) = nhandles
  BY FS_Interval, HandleAssumption DEF Indices
<1>2. BusyFrom(0) \subseteq Indices
  BY DEF BusyFrom
<1>3. IsFiniteSet(BusyFrom(0)) /\ Cardinality(BusyFrom(0)) <= nhandles
  BY <1>1, <1>2, FS_Subset
<1>4. Cardinality(BusyFrom(0)) \in Nat
  BY <1>3, FS_CardinalityType
<1>5. \A i : BusyTo(i) \subseteq BusyFrom(0)
  BY DEF BusyTo
<1>6. \A i : IsFiniteSet(BusyTo(i))
  BY <1>3, <1>5, FS_Subset
<1>7. \A i \in BusyFrom(0) : i \in Indices /\ i \in Nat /\ Busy(i)
  BY HandleAssumption DEF BusyFrom, Indices
<1>8. \A s \in Nat : BusyFrom(s) = {i \in BusyFrom(0) : i >= s}
  <2>1. \A i \in Indices : i \in Nat
    BY HandleAssumption DEF Indices
  <2> QED
    BY <2>1 DEF BusyFrom
<1> QED
  BY <1>3, <1>4, <1>5, <1>6, <1>7, <1>8, HandleAssumption

(* The first slot from s on that is in use is the next one that a call     *)
(* finds.                                                                  *)
LEMMA FindsNext ==
  ASSUME NEW s \in Nat, BusyFrom(s) # {},
         NEW h, h.index = s, h.gen % 2 # 0
  PROVE  /\ First(BusyFrom(s)) \in BusyFrom(0) /\ First(BusyFrom(s)) >= s
         /\ \A j \in BusyFrom(0) : j >= s => First(BusyFrom(s)) <= j
         /\ get_next_handle(h) =
              <<TRUE, [index |-> First(BusyFrom(s)) + 1,
                       gen |-> pgenerations[First(BusyFrom(s))]]>>
<1>1. BusyFrom(s) = {i \in BusyFrom(0) : i >= s} /\ BusyFrom(s) \subseteq Indices
  BY BusyAre DEF BusyFrom
<1>2. First(BusyFrom(s)) \in BusyFrom(s) /\ \A j \in BusyFrom(s) : First(BusyFrom(s)) <= j
  BY <1>1, FirstIs
<1>3. get_next_handle(h) = <<TRUE, [index |-> First(BusyFrom(s)) + 1,
                                    gen |-> pgenerations[First(BusyFrom(s))]]>>
  BY DEF get_next_handle
<1> QED
  BY <1>1, <1>2, <1>3

(* The first call finds the first slot in use, and each one that follows   *)
(* the next.                                                               *)
LEMMA FirstFound ==
  ASSUME TypeOK, BusyFrom(0) # {}
  PROVE  \E i : Found(Iteration[1], i, 1)
<1> DEFINE f == First(BusyFrom(0))  h == Handle(f)
<1>1. f \in BusyFrom(0) /\ \A j \in BusyFrom(0) : f <= j
  BY FirstIs DEF BusyFrom
<1>2. f \in Nat /\ Busy(f)
  BY <1>1, BusyAre
<1>3. Iteration[1] = get_next_handle(h)
  <2>1. 1 \in 1 .. nhandles + 1
    BY HandleAssumption
  <2> QED
    BY <2>1, IterationIs DEF Call, get_first_handle
<1> HIDE DEF f
<1>4. h.index = f /\ h.gen % 2 # 0
  BY <1>2 DEF Handle, Busy
<1>5. f \in BusyFrom(f)
  BY <1>1, <1>2, BusyAre
<1> DEFINE g == First(BusyFrom(f))
<1> HIDE DEF h
<1>6. /\ g \in BusyFrom(0) /\ g >= f
      /\ \A j \in BusyFrom(0) : j >= f => g <= j
      /\ get_next_handle(h) = <<TRUE, [index |-> g + 1, gen |-> pgenerations[g]]>>
  BY <1>2, <1>4, <1>5, FindsNext
<1> HIDE DEF g
<1>7. g = f
  BY <1>1, <1>2, <1>6, BusyAre
<1>8. BusyTo(f) = {f}
  <2>1. \A j \in BusyFrom(0) : j <= f <=> j = f
    BY <1>1, <1>2, BusyAre
  <2> QED
    BY <1>1, <2>1 DEF BusyTo
<1>9. Cardinality(BusyTo(f)) = 1
  BY <1>8, FS_Singleton
<1> QED
  BY <1>1, <1>3, <1>6, <1>7, <1>9 DEF Found

LEMMA NextFound ==
  ASSUME NEW k \in Nat, k > 0, NEW i, Found(Iteration[k], i, k),
         k < Cardinality(BusyFrom(0))
  PROVE  \E j : Found(Iteration[k + 1], j, k + 1) /\ j > i
<1> DEFINE h == [index |-> i + 1, gen |-> pgenerations[i]]
           j == First(BusyFrom(i + 1))
<1>1. i \in BusyFrom(0) /\ i \in Nat /\ Busy(i)
  BY BusyAre DEF Found
<1>2. Iteration[k + 1] = get_next_handle(h)
  <2>1. k + 1 \in 1 .. nhandles + 1 /\ k + 1 # 1 /\ (k + 1) - 1 = k
    BY BusyAre, HandleAssumption
  <2>2. Iteration[k][2] = h
    BY DEF Found
  <2> QED
    BY <2>1, <2>2, IterationIs DEF Call
<1>3. BusyFrom(i + 1) # {}
  <2> SUFFICES ASSUME BusyFrom(i + 1) = {} PROVE FALSE
    OBVIOUS
  <2>1. \A l \in BusyFrom(0) : l <= i
    <3>1. i + 1 \in Nat
      BY <1>1
    <3>2. \A l \in BusyFrom(0) : l \in Nat /\ ~ (l >= i + 1)
      BY <3>1, BusyAre
    <3> QED
      BY <1>1, <3>2
  <2>2. BusyTo(i) = BusyFrom(0)
    BY <2>1 DEF BusyTo
  <2> QED
    BY <2>2 DEF Found
<1>4. h.index = i + 1 /\ h.gen % 2 # 0 /\ i + 1 \in Nat
  BY <1>1 DEF Busy
<1> HIDE DEF h
<1>5. /\ j \in BusyFrom(0) /\ j >= i + 1
      /\ \A l \in BusyFrom(0) : l >= i + 1 => j <= l
      /\ get_next_handle(h) = <<TRUE, [index |-> j + 1, gen |-> pgenerations[j]]>>
  BY <1>3, <1>4, FindsNext
<1> HIDE DEF j
<1>6. j \in Nat /\ j > i
  BY <1>1, <1>5, BusyAre
<1>7. BusyTo(j) = BusyTo(i) \cup {j} /\ j \notin BusyTo(i)
  <2>1. \A l \in BusyFrom(0) : l <= j <=> l <= i \/ l = j
    <3> TAKE l \in BusyFrom(0)
    <3>1. l \in Nat /\ (l >= i + 1 => j <= l)
      BY <1>5, BusyAre
    <3> QED
      BY <1>1, <1>6, <3>1
  <2>2. ~ (j <= i)
    BY <1>1, <1>6
  <2> QED
    BY <1>1, <1>5, <2>1, <2>2 DEF BusyTo
<1>8. Cardinality(BusyTo(j)) = k + 1
  BY <1>7, BusyAre, FS_AddElement DEF Found
<1> QED
  BY <1>2, <1>5, <1>6, <1>8 DEF Found

LEMMA AllFound ==
  ASSUME TypeOK, NEW k \in 1 .. Cardinality(BusyFrom(0))
  PROVE  \E i : Found(Iteration[k], i, k)
<1> DEFINE n == Cardinality(BusyFrom(0))
           S == {d \in Nat : d < n => \E i : Found(Iteration[d + 1], i, d + 1)}
<1>1. n \in Nat
  BY BusyAre, HandleAssumption
<1>2. 0 \in S
  <2>1. n > 0 => BusyFrom(0) # {}
    BY FS_EmptySet
  <2>2. 0 + 1 = 1
    OBVIOUS
  <2> HIDE DEF n
  <2>3. 0 < n => \E i : Found(Iteration[1], i, 1)
    BY <1>1, <2>1, FirstFound
  <2> QED
    BY <2>2, <2>3
<1>3. ASSUME NEW d \in Nat, d \in S PROVE d + 1 \in S
  <2> SUFFICES ASSUME d + 1 < n
               PROVE  \E i : Found(Iteration[d + 1 + 1], i, d + 1 + 1)
    OBVIOUS
  <2>1. d < n /\ d + 1 \in Nat /\ d + 1 > 0
    BY <1>1
  <2>2. PICK i : Found(Iteration[d + 1], i, d + 1)
    BY <1>3, <2>1
  <2> QED
    BY <2>1, <2>2, NextFound
<1>4. Nat \subseteq S
  <2> HIDE DEF S
  <2> QED
    BY <1>2, <1>3, SetInduction
<1>5. k - 1 \in Nat /\ k - 1 < n /\ (k - 1) + 1 = k
  BY <1>1
<1> HIDE DEF n
<1>6. k - 1 \in S
  BY <1>4, <1>5
<1>7. \E i : Found(Iteration[(k - 1) + 1], i, (k - 1) + 1)
  BY <1>5, <1>6
<1> QED
  BY <1>5, <1>7

LEMMA LastCall ==
  ASSUME TypeOK
  PROVE  ~Iteration[Cardinality(BusyFrom(0)) + 1][1]
<1> DEFINE n == Cardinality(BusyFrom(0))
<1>1. n \in 0 .. nhandles /\ nhandles \in Nat
  BY BusyAre, HandleAssumption
<1>2. Iteration[n + 1] = Call(n + 1, Iteration)
  BY <1>1, IterationIs
<1>3. CASE n = 0
  <2>1. BusyFrom(0) = {}
    BY <1>3, BusyAre, FS_EmptySet
  <2>2. BusyFrom(GenSize - 1) = {}
    BY <2>1, BusyAre, HandleAssumption
  <2>3. Call(1, Iteration) = get_next_handle(Invalid)
    BY <2>1 DEF Call, get_first_handle
  <2>4. get_next_handle(Invalid)[1] = FALSE
    BY <2>2 DEF get_next_handle, Invalid
  <2>5. n + 1 = 1
    BY <1>3
  <2> QED
    BY <1>2, <2>3, <2>4, <2>5
<1>4. CASE n # 0
  <2>1. n \in 1 .. n /\ n > 0
    BY <1>1, <1>4
  <2>2. PICK i : Found(Iteration[n], i, n)
    BY <2>1, AllFound
  <2>3. i \in BusyFrom(0) /\ i \in Nat
    BY <2>2, BusyAre DEF Found
  <2>4. BusyTo(i) = BusyFrom(0)
    <3>1. BusyTo(i) \subseteq BusyFrom(0) /\ Cardinality(BusyTo(i)) = Cardinality(BusyFrom(0))
      BY <2>2, BusyAre DEF Found
    <3> QED
      BY <3>1, BusyAre, FS_Subset
  <2>5. BusyFrom(i + 1) = {}
    <3>1. \A l \in BusyFrom(0) : l \in Nat /\ l <= i
      BY <2>4, BusyAre DEF BusyTo
    <3>2. \A l \in BusyFrom(0) : ~ (l >= i + 1)
      BY <2>3, <3>1
    <3>3. i + 1 \in Nat
      BY <2>3
    <3>4. BusyFrom(i + 1) = {l \in BusyFrom(0) : l >= i + 1}
      BY <3>3, BusyAre
    <3> QED
      BY <3>2, <3>4
  <2>6. Iteration[n][2] = [index |-> i + 1, gen |-> pgenerations[i]]
    BY <2>2 DEF Found
  <2>7. Call(n + 1, Iteration) = get_next_handle([index |-> i + 1, gen |-> pgenerations[i]])
    <3>1. n + 1 # 1 /\ (n + 1) - 1 = n
      BY <1>1, <1>4
    <3> HIDE DEF n
    <3> QED
      BY <2>6, <3>1 DEF Call
  <2> DEFINE h == [index |-> i + 1, gen |-> pgenerations[i]]
  <2>8. h.index = i + 1
    OBVIOUS
  <2>9. ~get_next_handle(h)[1]
    <3> HIDE DEF h
    <3> QED
      BY <2>5, <2>8 DEF get_next_handle
  <2> QED
    BY <1>2, <2>7, <2>9
<1> QED
  BY <1>3, <1>4

(* The handles that are looked up, besides the first.                      *)
LEMMA VisitedIs ==
  ASSUME TypeOK, NEW k \in 1 .. Cardinality(BusyFrom(0))
  PROVE  \E i \in BusyFrom(0) : /\ Found(Iteration[k], i, k)
                                /\ Visited(k + 1) = [index |-> i + 1, gen |-> pgenerations[i]]
                                /\ Visited(k + 1).index > Visited(k).index
<1> DEFINE n == Cardinality(BusyFrom(0))
<1>1. n \in Nat /\ k \in Nat /\ k + 1 # 1 /\ (k + 1) - 1 = k
  BY BusyAre, HandleAssumption
<1>2. PICK i : Found(Iteration[k], i, k)
  BY AllFound
<1>3. i \in BusyFrom(0) /\ i \in Nat
  BY <1>2, BusyAre DEF Found
<1>4. Visited(k + 1) = [index |-> i + 1, gen |-> pgenerations[i]]
  BY <1>1, <1>2 DEF Visited, Found
<1>5. CASE k = 1
  <2>1. First(BusyFrom(0)) <= i /\ First(BusyFrom(0)) \in Nat
    BY <1>3, FirstIs, BusyAre DEF BusyFrom
  <2>2. Visited(k).index = First(BusyFrom(0))
    BY <1>3, <1>5 DEF Visited, get_first_handle, Handle
  <2>3. Visited(k + 1).index > Visited(k).index
    BY <1>3, <1>4, <2>1, <2>2
  <2> QED
    BY <1>2, <1>3, <1>4, <2>3
<1>6. CASE k # 1
  <2>1. k - 1 \in 1 .. n /\ k - 1 \in Nat /\ k - 1 > 0 /\ k - 1 < n /\ (k - 1) + 1 = k
    BY <1>1, <1>6
  <2>2. PICK j : Found(Iteration[k - 1], j, k - 1)
    BY <2>1, AllFound
  <2>3. PICK l : Found(Iteration[(k - 1) + 1], l, (k - 1) + 1) /\ l > j
    BY <2>1, <2>2, NextFound
  <2>4. j \in Nat /\ l \in Nat /\ l > j
    BY <2>2, <2>3, BusyAre DEF Found
  <2>5. Visited(k) = [index |-> j + 1, gen |-> pgenerations[j]]
    BY <1>6, <2>2 DEF Visited, Found
  <2>6. Iteration[k][2].index = l + 1 /\ Iteration[k][2].index = i + 1
    BY <1>2, <2>1, <2>3 DEF Found
  <2>7. Visited(k + 1).index > Visited(k).index
    BY <1>3, <1>4, <2>4, <2>5, <2>6
  <2> QED
    BY <1>2, <1>3, <1>4, <2>7
<1> QED
  BY <1>5, <1>6

\* Before the first handle is freed the slots in use are the first ones.
NoneFreed ==
  freed = {} => \A i \in Indices :
    /\ pgenerations[i] \in {0, 1}
    /\ Busy(i) => \A j \in Indices : j < i => Busy(j)

LEMMA NoneFreedNext ==
  ASSUME NoWrap, GenerationInv, NoneFreed, [Next]_vars
  PROVE  NoneFreed'
<1>1. ASSUME NEW i \in Indices, alloc_handle(i) PROVE NoneFreed'
  <2> SUFFICES ASSUME freed' = {}, NEW l \in Indices
               PROVE  /\ pgenerations'[l] \in {0, 1}
                      /\ Busy(l)' => \A j \in Indices : j < l => Busy(j)'
    BY DEF NoneFreed
  <2>1. freed = {} /\ ~Busy(i) /\ \A j \in Indices : j < i => Busy(j)
    BY <1>1 DEF alloc_handle
  <2>2. \A j \in Indices : /\ pgenerations[j] \in {0, 1}
                           /\ Busy(j) => \A m \in Indices : m < j => Busy(m)
    BY <2>1 DEF NoneFreed
  <2>3. pgenerations[i] = 0
    BY <2>1, <2>2 DEF Busy
  <2>4. \A j \in Indices : pgenerations'[j] = IF j = i THEN 1 ELSE pgenerations[j]
    BY <1>1, <2>3, TurnMoves DEF alloc_handle, GenerationInv, TypeOK
  <2>5. \A j \in Indices : Busy(j)' <=> (j = i \/ Busy(j))
    BY <2>4 DEF Busy
  <2>6. \A j \in Indices : j \in Nat
    BY HandleAssumption DEF Indices
  <2>7. pgenerations'[l] \in {0, 1}
    BY <2>2, <2>4
  <2>8. ASSUME Busy(l)', NEW j \in Indices, j < l PROVE Busy(j)'
    <3>1. CASE l = i
      BY <2>1, <2>5, <2>8, <3>1
    <3>2. CASE l # i
      BY <2>2, <2>5, <2>8, <3>2
    <3> QED
      BY <3>1, <3>2
  <2> QED
    BY <2>7, <2>8
<1>2. ASSUME NEW h \in held \cup freed, free_handle(h) PROVE NoneFreed'
  <2> SUFFICES ASSUME freed' = {} PROVE FALSE
    BY DEF NoneFreed
  <2>1. h \in held
    BY <1>2 DEF free_handle
  <2>2. h \in freed'
    BY <1>2, <2>1 DEF free_handle
  <2> QED
    BY <2>2
<1>3. CASE UNCHANGED vars
  BY <1>3 DEF vars, NoneFreed, Busy
<1> QED
  BY <1>1, <1>2, <1>3 DEF Next

(* The k-th slot in use is then that of index k - 1.                       *)
LEMMA MeetsAll ==
  ASSUME TypeOK, NoneFreed, freed = {}, NEW i \in Indices, Busy(i)
  PROVE  \E k \in 1 .. Cardinality(BusyFrom(0)) : Visited(k) = Handle(i)
<1> DEFINE n == Cardinality(BusyFrom(0))
<1>1. i \in Nat /\ nhandles \in Nat /\ i < nhandles /\ n \in Nat
  BY BusyAre, HandleAssumption DEF Indices
<1>2. \A j \in 0 .. i : j \in Indices /\ Busy(j) /\ j \in BusyFrom(0) /\ pgenerations[j] = 1
  <2>1. \A j \in 0 .. i : j \in Indices /\ j \in Nat /\ (j < i \/ j = i)
    BY <1>1 DEF Indices
  <2>2. \A j \in 0 .. i : Busy(j) /\ pgenerations[j] \in {0, 1}
    BY <2>1 DEF NoneFreed
  <2>3. \A j \in 0 .. i : pgenerations[j] = 1
    BY <2>2 DEF Busy
  <2> QED
    BY <2>1, <2>2, <2>3 DEF BusyFrom
<1>3. ASSUME NEW j \in 0 .. i PROVE Cardinality(BusyTo(j)) = j + 1
  <2>1. BusyTo(j) = 0 .. j
    <3>1. \A l \in 0 .. j : l \in BusyFrom(0) /\ l <= j
      BY <1>1, <1>2
    <3>2. \A l \in BusyFrom(0) : l \in Nat
      BY BusyAre
    <3> QED
      BY <3>1, <3>2 DEF BusyTo
  <2>2. Cardinality(0 .. j) = j + 1
    BY <1>1, FS_Interval
  <2> QED
    BY <2>1, <2>2
<1>4. i + 1 <= n
  <2>1. Cardinality(BusyTo(i)) <= n
    BY BusyAre, FS_Subset
  <2>2. i \in 0 .. i
    BY <1>1
  <2> HIDE DEF n
  <2> QED
    BY <1>3, <2>1, <2>2
<1>5. CASE i = 0
  <2>1. First(BusyFrom(0)) = 0
    <3>1. 0 \in BusyFrom(0)
      BY <1>1, <1>2
    <3>2. First(BusyFrom(0)) \in BusyFrom(0) /\ First(BusyFrom(0)) <= 0
      BY <3>1, FirstIs DEF BusyFrom
    <3> QED
      BY <3>2, BusyAre
  <2>2. BusyFrom(0) # {}
    BY <1>1, <1>2
  <2>3. Visited(1) = Handle(i)
    BY <1>5, <2>1, <2>2 DEF Visited, get_first_handle
  <2>4. 1 \in 1 .. n
    BY <1>1, <1>4
  <2> QED
    BY <2>3, <2>4
<1>6. CASE i # 0
  <2>1. i \in 1 .. n /\ i + 1 \in 1 .. n
    BY <1>1, <1>4, <1>6
  <2>2. PICK j \in BusyFrom(0) : /\ Found(Iteration[i], j, i)
                                 /\ Visited(i + 1) = [index |-> j + 1, gen |-> pgenerations[j]]
    BY <2>1, VisitedIs
  <2>3. j \in Nat /\ Cardinality(BusyTo(j)) = i
    BY <2>2, BusyAre DEF Found
  <2>4. j \in 0 .. i
    <3>1. CASE j > i
      <4>1. BusyTo(i) \subseteq BusyTo(j)
        <5>1. \A l \in BusyFrom(0) : l \in Nat /\ (l <= i => l <= j)
          BY <1>1, <2>3, <3>1, BusyAre
        <5> QED
          BY <5>1 DEF BusyTo
      <4>2. Cardinality(BusyTo(i)) <= Cardinality(BusyTo(j)) /\ i \in 0 .. i
        BY <1>1, <4>1, BusyAre, FS_Subset
      <4>3. i + 1 <= i
        BY <1>3, <2>3, <4>2
      <4> QED
        BY <1>1, <4>3
    <3> QED
      BY <1>1, <2>3, <3>1
  <2>5. j + 1 = i
    BY <1>3, <2>3, <2>4
  <2>6. Visited(i + 1) = [index |-> i, gen |-> 1] /\ i \in 0 .. i
    BY <1>1, <1>2, <2>2, <2>4, <2>5
  <2>7. Visited(i + 1) = Handle(i)
    BY <1>2, <2>6 DEF Handle
  <2> QED
    BY <2>1, <2>7
<1> QED
  BY <1>5, <1>6

LEMMA LoopEnumerates == TypeOK /\ NoneFreed => EnumeratesBusy
<1> SUFFICES ASSUME TypeOK, NoneFreed PROVE EnumeratesBusy
  OBVIOUS
<1> DEFINE n == Cardinality(BusyFrom(0))
<1>1. n \in Nat
  BY BusyAre, HandleAssumption
<1>2. ASSUME NEW k \in 1 .. n
      PROVE  Iteration[k][1] /\ Visited(k + 1).index > Visited(k).index
  <2>1. PICK i : Found(Iteration[k], i, k)
    BY AllFound
  <2>2. Iteration[k][1]
    BY <2>1 DEF Found
  <2>3. Visited(k + 1).index > Visited(k).index
    BY VisitedIs
  <2> QED
    BY <2>2, <2>3
<1>3. ~Iteration[n + 1][1]
  BY LastCall
<1>4. ASSUME NEW k \in 1 .. n + 1, is_valid_handle(Visited(k)) PROVE Busy(Visited(k).index)
  <2>1. Visited(k).gen % 2 = 1
    <3>1. CASE k = 1
      <4>1. CASE BusyFrom(0) = {}
        <5>1. Visited(k).index = GenSize - 1
          BY <3>1, <4>1 DEF Visited, get_first_handle, Invalid
        <5>2. ~(GenSize - 1 < nhandles)
          BY HandleAssumption
        <5> QED
          BY <1>4, <5>1, <5>2 DEF is_valid_handle
      <4>2. CASE BusyFrom(0) # {}
        <5>1. First(BusyFrom(0)) \in BusyFrom(0)
          BY <4>2, FirstIs DEF BusyFrom
        <5>2. Visited(k).gen = pgenerations[First(BusyFrom(0))]
          BY <3>1, <4>2 DEF Visited, get_first_handle, Handle
        <5> QED
          BY <5>1, <5>2, BusyAre DEF Busy
      <4> QED
        BY <4>1, <4>2
    <3>2. CASE k # 1
      <4>1. k - 1 \in 1 .. n /\ (k - 1) + 1 = k
        BY <1>1, <3>2
      <4>2. PICK i \in BusyFrom(0) :
              Visited((k - 1) + 1) = [index |-> i + 1, gen |-> pgenerations[i]]
        BY <4>1, VisitedIs
      <4> QED
        BY <4>1, <4>2, BusyAre DEF Busy
    <3> QED
      BY <3>1, <3>2
  <2> QED
    BY <1>4, <2>1 DEF is_valid_handle, Busy
<1>5. ASSUME freed = {}, NEW i \in Indices, Busy(i)
      PROVE  \E k \in 1 .. n : Visited(k) = Handle(i)
  <2> HIDE DEF NoneFreed
  <2> QED
    BY <1>5, MeetsAll
<1> QED
  BY <1>2, <1>3, <1>4, <1>5 DEF EnumeratesBusy

(* A loop of ha_get_first_handle() and ha_get_next_handle(), for every     *)
(* number of handles: it ends after as many calls as slots are in use,     *)
(* looks up nothing that is not in use and nothing twice, and all that is, *)
(* until the first handle is freed.                                        *)
THEOREM LoopMeetsBusy ==
  ASSUME NoWrap
  PROVE  Spec => []EnumeratesBusy
<1> DEFINE I == GenerationInv /\ NoneFreed
<1>1. Init => I
  BY GenerationInit DEF Init, NoneFreed, Busy
<1>2. I /\ [Next]_vars => I'
  BY GenerationNext, NoneFreedNext
<1>3. I => EnumeratesBusy
  BY LoopEnumerates DEF GenerationInv
<1> QED
  BY <1>1, <1>2, <1>3, PTL DEF Spec
=============================================================================
