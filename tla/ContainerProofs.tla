-------------------------- MODULE ContainerProofs --------------------------
(***************************************************************************)
(* Proofs about the containers of MCSequences, for every size of theirs:   *)
(* one section a container, and the theorems at the end.                   *)
(***************************************************************************)
EXTENDS MCSequences, FiniteSetTheorems, SequenceTheorems, WellFoundedInduction, TLAPS

(* A set of numbers that has 0, and with each number the next, has all.    *)
LEMMA Least ==
  ASSUME NEW S, S \subseteq Nat, S # {}
  PROVE  \E x \in S : \A y \in S : x <= y
<1> DEFINE less == OpToRel(<, Nat)
<1>1. \A x, y \in Nat : x < y => <<x, y>> \in less
  BY DEF OpToRel
<1>2. PICK x \in S : \A y \in S : ~(<<y, x>> \in less)
  <2>1. IsWellFoundedOn(less, Nat)
    BY NatLessThanWellFounded, ZenonT(30)
  <2> HIDE DEF less
  <2> QED
    BY <2>1, WFMin
<1> HIDE DEF less
<1>3. \A y \in S : ~ (y < x)
  BY <1>1, <1>2
<1>4. \A y \in S : y \in Nat /\ x \in Nat
  OBVIOUS
<1> QED
  BY <1>2, <1>3, <1>4

LEMMA SetInduction ==
  ASSUME NEW S, 0 \in S, \A n \in Nat : n \in S => n + 1 \in S
  PROVE  Nat \subseteq S
<1> DEFINE Missing == Nat \ S
<1> SUFFICES ASSUME Missing # {} PROVE FALSE
  OBVIOUS
<1>1. PICK x \in Missing : \A y \in Missing : x <= y
  <2>1. Missing \subseteq Nat
    OBVIOUS
  <2> HIDE DEF Missing
  <2> QED
    BY <2>1, Least
<1>2. x # 0
  OBVIOUS
<1>3. x - 1 \in Nat /\ x - 1 \notin Missing
  BY <1>1, <1>2
<1>4. (x - 1) + 1 \in S
  BY <1>3
<1> QED
  BY <1>1, <1>4

(***************************************************************************)
(* The linear allocator.  The hunks end before the position.               *)
(***************************************************************************)

ArenaType == [flags : FlagSets, capacity : Nat, position : Nat, memory : Nat]

ArenaInv ==
  /\ Arena!HunksApart
  /\ arena \in ArenaType
  /\ \A h \in hunks : h.start \in Nat /\ h.size \in Nat /\ h.start + h.size <= arena.position

LEMMA ArenaStarts == Arena!Init => ArenaInv
  BY DEF Arena!Init, ArenaInv, ArenaType, Arena!HunksApart

(* linalloc_init() does not move the position.                             *)
LEMMA InitsPlace ==
  ASSUME arena \in ArenaType, NEW cap \in Nat, NEW r \in Arena!Inits(arena, cap)
  PROVE  r.to \in ArenaType /\ r.to.position = arena.position
<1> DEFINE sized == [arena EXCEPT !.capacity = cap]
<1>1. sized \in ArenaType /\ sized.position = arena.position
  BY DEF ArenaType
<1>2. [sized EXCEPT !.memory = cap] \in ArenaType /\ [sized EXCEPT !.memory = 0] \in ArenaType
  BY <1>1 DEF ArenaType
<1>3. [sized EXCEPT !.memory = cap].position = arena.position
      /\ [sized EXCEPT !.memory = 0].position = arena.position
  BY <1>1 DEF ArenaType
<1> DEFINE both == [sized EXCEPT !.memory = cap]
           lost == [sized EXCEPT !.memory = 0]
           grows == cap > arena.capacity /\ ("less" \in arena.flags => arena.capacity > 0)
<1>4. r.to \in {both, lost, sized, arena}
  <2>1. CASE grows
    <3>1. r \in {[to |-> both, ok |-> TRUE]} \cup
                 (IF Fails THEN {[to |-> lost, ok |-> FALSE]} ELSE {})
      BY <2>1 DEF Arena!Inits
    <3> HIDE DEF both, lost, sized, grows
    <3> QED
      BY <3>1
  <2>2. CASE ~ grows
    <3>1. r \in {[to |-> IF "less" \in arena.flags THEN sized ELSE arena, ok |-> TRUE]}
      BY <2>2 DEF Arena!Inits
    <3> HIDE DEF sized
    <3> QED
      BY <3>1
  <2> QED
    BY <2>1, <2>2
<1> HIDE DEF sized
<1> QED
  BY <1>1, <1>2, <1>3, <1>4

LEMMA HandOutKeeps ==
  ASSUME ArenaInv, NEW x \in ArenaType, x.position = arena.position, NEW size \in Sizes,
         Arena!hand_out(x, size)
  PROVE  ArenaInv'
<1> DEFINE p == x.position + (x.position + size)
<1>1. p \in Nat /\ size \in Nat /\ arena' = [x EXCEPT !.position = p]
  BY SequencesAssumption DEF Arena!hand_out, ArenaType
<1>2. arena' \in ArenaType /\ arena'.position = p
  <2> HIDE DEF p
  <2> QED
    BY <1>1 DEF ArenaType
<1>3. hunks' = hunks \cup {[start |-> x.position, size |-> size, memory |-> x.memory]}
  BY DEF Arena!hand_out
<1>4. x.position \in Nat /\ p >= x.position + size
  BY <1>1 DEF ArenaType
<1> HIDE DEF p
<1> QED
  BY <1>1, <1>2, <1>3, <1>4 DEF ArenaInv, Arena!HunksApart

LEMMA ArenaKeeps ==
  ASSUME ArenaInv, [Arena!Next]_arenaVars
  PROVE  ArenaInv'
<1>1. CASE UNCHANGED arenaVars
  BY <1>1 DEF arenaVars, ArenaInv, Arena!HunksApart
<1>2. ASSUME NEW cap \in BlockCaps, Arena!init(cap)
      PROVE  ArenaInv'
  <2>1. cap \in Nat
    BY SequencesAssumption
  <2> QED
    BY <1>2, <2>1, InitsPlace DEF Arena!init, ArenaInv, Arena!HunksApart
<1>3. ASSUME NEW size \in Sizes, Arena!hunk_alloc(size)
      PROVE  ArenaInv'
  <2>1. CASE Arena!hand_out(arena, size)
    BY <2>1, HandOutKeeps DEF ArenaInv
  <2>2. CASE Arena!extend(size)
    <3> DEFINE cap == arena.capacity + size + size \div 2
    <3>1. PICK r \in Arena!Inits(arena, cap) :
            IF r.ok THEN Arena!hand_out(r.to, size) ELSE arena' = r.to /\ UNCHANGED hunks
      BY <2>2 DEF Arena!extend
    <3>2. cap \in Nat
      <4>1. size \in Nat /\ arena.capacity \in Nat
        BY SequencesAssumption DEF ArenaInv, ArenaType
      <4>2. size \div 2 \in Nat
        BY <4>1
      <4> QED
        BY <4>1, <4>2
    <3>3. r.to \in ArenaType /\ r.to.position = arena.position
      BY <3>2, InitsPlace DEF ArenaInv
    <3>4. CASE r.ok
      BY <3>1, <3>3, <3>4, HandOutKeeps
    <3>5. CASE ~ r.ok
      BY <3>1, <3>3, <3>5 DEF ArenaInv, Arena!HunksApart
    <3> QED
      BY <3>4, <3>5
  <2> QED
    BY <1>3, <2>1, <2>2 DEF Arena!hunk_alloc
<1>4. CASE Arena!reset \/ Arena!deinit
  <2>1. hunks' = {}
    BY <1>4 DEF Arena!reset, Arena!deinit
  <2> DEFINE back == [arena EXCEPT !.position = 0]
  <2>2. back \in ArenaType
    BY DEF ArenaInv, ArenaType
  <2>3. arena' = back \/ arena' = [back EXCEPT !.memory = 0]
    BY <1>4 DEF Arena!reset, Arena!deinit
  <2>4. arena' \in ArenaType
    <3> HIDE DEF back
    <3> QED
      BY <2>2, <2>3 DEF ArenaType
  <2> QED
    BY <2>1, <2>4 DEF ArenaInv, Arena!HunksApart
<1> QED
  BY <1>1, <1>2, <1>3, <1>4 DEF Arena!Next
-----------------------------------------------------------------------------
(***************************************************************************)
(* What queues and pools obtain.  A pool that has failed to start has no   *)
(* part of its queue, so its end may leave the fields of the queue alone.  *)
(***************************************************************************)

MemoryInv ==
  /\ Memory!GivenBack
  /\ stage.pool = "failed" => \A f \in Memory!QueueFields : ptr[f] # "own"
  /\ ptr \in [Memory!Fields -> {"own", "gone", None, Junk}]
  /\ live \in [Memory!Fields -> Nat]
  /\ stage \in [{"pool", "mt"} -> {"off", "on", "failed"}]

LEMMA MemoryStarts == Memory!Init => MemoryInv
<1> USE DEF Memory!Init, MemoryInv, Memory!GivenBack, Memory!Fields, Memory!PoolFields, Memory!QueueFields, Memory!MtFields
<1> QED
  BY SequencesAssumption

LEMMA PoolKeeps ==
  ASSUME MemoryInv,
         Memory!init_refused \/ Memory!init_no_queue \/ Memory!init_no_blocks \/ Memory!mempool_init
           \/ Memory!mempool_deinit
  PROVE  MemoryInv'
<1> USE SequencesAssumption DEF MemoryInv, Memory!GivenBack, Memory!Fields, Memory!PoolFields, Memory!QueueFields, Memory!MtFields,
      Memory!Set, Memory!More, Memory!Less, Memory!Go
<1>1. CASE Memory!init_refused
  BY <1>1 DEF Memory!init_refused
<1>2. CASE Memory!init_no_queue
  BY <1>2 DEF Memory!init_no_queue
<1>3. CASE Memory!init_no_blocks
  BY <1>3 DEF Memory!init_no_blocks
<1>4. CASE Memory!mempool_init
  BY <1>4 DEF Memory!mempool_init
<1>5. CASE Memory!mempool_deinit
  <2>1. Memory!Go("pool", "on", "off") \/ Memory!Go("pool", "failed", "off")
    BY <1>5 DEF Memory!mempool_deinit
  <2>2. PICK F \in {{"pdata"}, Memory!PoolFields} :
          /\ ptr["fqueue.pdata"] = "own" => F = Memory!PoolFields
          /\ ptr' = Memory!Set(F, {}, None) /\ live' = Memory!Less(F)
    BY <1>5 DEF Memory!mempool_deinit
  <2>3. CASE F = {"pdata"}
    BY <2>1, <2>2, <2>3
  <2>4. CASE F = Memory!PoolFields
    BY <2>1, <2>2, <2>4
  <2> QED
    BY <2>2, <2>3, <2>4
<1> QED
  BY <1>1, <1>2, <1>3, <1>4, <1>5

LEMMA MtKeeps ==
  ASSUME MemoryInv, Memory!mtqueue_alloc \/ Memory!mtqueue_free
  PROVE  MemoryInv'
<1> USE SequencesAssumption DEF MemoryInv, Memory!GivenBack, Memory!Fields, Memory!PoolFields, Memory!QueueFields, Memory!MtFields,
      Memory!Set, Memory!More, Memory!Less, Memory!Go
<1>1. CASE Memory!mtqueue_alloc
  BY <1>1 DEF Memory!mtqueue_alloc
<1>2. CASE Memory!mtqueue_free
  BY <1>2 DEF Memory!mtqueue_free
<1> QED
  BY <1>1, <1>2

LEMMA MemoryKeeps ==
  ASSUME MemoryInv, [Memory!Next]_memoryVars
  PROVE  MemoryInv'
<1>1. CASE UNCHANGED memoryVars
  BY <1>1 DEF memoryVars, MemoryInv, Memory!GivenBack
<1> QED
  BY <1>1, PoolKeeps, MtKeeps DEF Memory!Next
-----------------------------------------------------------------------------
(***************************************************************************)
(* The bit vector.  It has as many cells as it says, once it has memory.   *)
(***************************************************************************)

BitsInv ==
  /\ ncells \in Nat
  /\ pbits # None /\ ncells > 0 => pbits \in [0 .. ncells - 1 -> SUBSET Nat]
  /\ \A bit \in Nat : Bits!InRange(bit) => (Bits!dbitvec_get(bit) <=> bit \in ones)

(* A bit is known by its cell and its place in the cell.                   *)
LEMMA CellAndPlace ==
  ASSUME NEW m \in Nat, NEW n \in Nat,
         m \div BitsPerCell = n \div BitsPerCell, m % BitsPerCell = n % BitsPerCell
  PROVE  m = n
<1>1. BitsPerCell \in Int /\ BitsPerCell > 0
  BY SequencesAssumption
<1>2. ~ (m < n)
  BY <1>1
<1>3. ~ (n < m)
  BY <1>1
<1> QED
  BY <1>2, <1>3

LEMMA CellsAreNumbers ==
  \A n \in Nat : n \div BitsPerCell \in Nat /\ n % BitsPerCell \in Nat
BY SequencesAssumption

LEMMA BitsStart == Bits!Init => BitsInv
<1> SUFFICES ASSUME Bits!Init PROVE BitsInv
  OBVIOUS
<1>1. ncells = 0 /\ pbits = None
  BY DEF Bits!Init
<1>2. \A bit \in Nat : ~Bits!InRange(bit)
  BY <1>1 DEF Bits!InRange
<1> QED
  BY <1>1, <1>2 DEF BitsInv

LEMMA BitsHold == BitsInv => Bits!HoldsBits
<1>1. \A bit \in Bits!Bits : bit \in Nat
  BY DEF Bits!Bits
<1> QED
  BY <1>1 DEF BitsInv, Bits!HoldsBits

LEMMA BitsKeep ==
  ASSUME BitsInv, [Bits!Next]_bitVars
  PROVE  BitsInv'
<1> USE DEF Bits!InRange, Bits!dbitvec_get
<1>1. CASE UNCHANGED bitVars
  BY <1>1 DEF bitVars, BitsInv
<1>2. ASSUME NEW size \in BitSizes, Bits!dbitvec_init(size)
      PROVE  BitsInv'
  <2> DEFINE n == Bits!Cells(size)
  <2>1. n \in Nat
    <3>1. size + BitsPerCell - 1 \in Nat
      BY SequencesAssumption
    <3> QED
      BY <3>1, CellsAreNumbers DEF Bits!Cells
  <2>2. /\ ncells' = n /\ ones' = {}
        /\ n = 0 \/ (n > 0 /\ pbits' \in {None, [c \in 0 .. n - 1 |-> {}]})
    BY <1>2 DEF Bits!dbitvec_init
  <2> HIDE DEF n
  <2>3. CASE n = 0 \/ pbits' = None
    BY <2>1, <2>2, <2>3, CellsAreNumbers DEF BitsInv
  <2>4. CASE n > 0 /\ pbits' = [c \in 0 .. n - 1 |-> {}]
    <3>1. pbits' \in [0 .. n - 1 -> SUBSET Nat]
      BY <2>4
    <3>2. ASSUME NEW d \in Nat, d \div BitsPerCell < n
          PROVE  d % BitsPerCell \notin pbits'[d \div BitsPerCell]
      <4>1. d \div BitsPerCell \in 0 .. n - 1
        BY <2>1, <3>2, CellsAreNumbers
      <4> QED
        BY <2>4, <4>1
    <3> QED
      BY <2>1, <2>2, <3>1, <3>2 DEF BitsInv
  <2> QED
    BY <2>1, <2>2, <2>3, <2>4
<1>3. CASE Bits!dbitvec_deinit
  BY <1>3 DEF BitsInv, Bits!dbitvec_deinit
<1>4. ASSUME NEW bit \in Bits!Bits, NEW value \in {0, 1, 2}, Bits!dbitvec_set(bit, value)
      PROVE  BitsInv'
  <2> DEFINE c == bit \div BitsPerCell
             b == bit % BitsPerCell
  <2>1. bit \in Nat /\ c \in Nat /\ b \in Nat
    BY CellsAreNumbers DEF Bits!Bits
  <2>2. /\ pbits # None /\ c < ncells /\ ncells' = ncells
        /\ pbits' = [pbits EXCEPT ![c] = IF value # 0 THEN @ \cup {b} ELSE @ \ {b}]
        /\ ones' = IF value # 0 THEN ones \cup {bit} ELSE ones \ {bit}
    BY <1>4 DEF Bits!dbitvec_set
  <2>3. ncells \in Nat /\ pbits \in [0 .. ncells - 1 -> SUBSET Nat] /\ c \in 0 .. ncells - 1
    BY <2>1, <2>2 DEF BitsInv
  <2>4. pbits' \in [0 .. ncells - 1 -> SUBSET Nat]
    <3>1. pbits[c] \in SUBSET Nat
      BY <2>3
    <3>2. PICK new \in SUBSET Nat : pbits' = [pbits EXCEPT ![c] = new]
      BY <2>1, <2>2, <3>1
    <3> HIDE DEF c
    <3> QED
      BY <2>3, <3>2
  <2>5. ASSUME NEW d \in Nat, d \div BitsPerCell < ncells
        PROVE  d % BitsPerCell \in pbits'[d \div BitsPerCell] <=> d \in ones'
    <3>1. d \div BitsPerCell \in 0 .. ncells - 1 /\ d % BitsPerCell \in Nat
      BY <2>3, <2>5, CellsAreNumbers
    <3>2. d % BitsPerCell \in pbits[d \div BitsPerCell] <=> d \in ones
      BY <2>2, <2>5 DEF BitsInv
    <3>3. d # bit => d \div BitsPerCell # c \/ d % BitsPerCell # b
      BY <2>1, CellAndPlace
    <3> QED
      BY <2>1, <2>2, <2>3, <3>1, <3>2, <3>3
  <2> QED
    BY <2>2, <2>3, <2>4, <2>5 DEF BitsInv
<1> QED
  BY <1>1, <1>2, <1>3, <1>4 DEF Bits!Next
-----------------------------------------------------------------------------
(***************************************************************************)
(* Rings: N places of p from h on, around the end, hold the sequence c.    *)
(* The queue and the stack are both rings.                                 *)
(***************************************************************************)

Place(h, i, N) == (h + i - 1) % N
Holds(p, h, N, c) == \A i \in DOMAIN c : p[Place(h, i, N)] = c[i]

LEMMA Around ==
  ASSUME NEW N \in Nat \ {0}, NEW i \in Nat, i < N + N
  PROVE  i % N = IF i < N THEN i ELSE i - N
<1> DEFINE a == i \div N
           r == i % N
<1>1. a \in Int /\ r \in 0 .. N - 1 /\ i = N * a + r /\ N \in Nat /\ N > 0
  OBVIOUS
<1>2. a = 0 \/ a = 1
  <2>1. ASSUME a >= 2 PROVE FALSE
    <3>1. N * a >= N * 2
      BY <1>1, <2>1
    <3> QED
      BY <1>1, <3>1
  <2>2. ASSUME a <= -1 PROVE FALSE
    <3>1. N * a <= N * (-1)
      BY <1>1, <2>2
    <3> QED
      BY <1>1, <3>1
  <2> QED
    BY <1>1, <2>1, <2>2
<1>3. CASE a = 0
  BY <1>1, <1>3
<1>4. CASE a = 1
  BY <1>1, <1>4
<1> QED
  BY <1>2, <1>3, <1>4

LEMMA PlaceOf ==
  ASSUME NEW N \in Nat \ {0}, NEW h \in 0 .. N - 1
  PROVE  \A i \in 1 .. N + 1 :
           /\ Place(h, i, N) = IF h + i - 1 < N THEN h + i - 1 ELSE h + i - 1 - N
           /\ Place(h, i, N) \in 0 .. N - 1
<1> TAKE i \in 1 .. N + 1
<1> DEFINE j == h + i - 1
<1>1. j \in Nat /\ j < N + N
  OBVIOUS
<1>2. j % N = IF j < N THEN j ELSE j - N
  <2> HIDE DEF j
  <2> QED
    BY <1>1, Around
<1>3. Place(h, i, N) = IF h + i - 1 < N THEN h + i - 1 ELSE h + i - 1 - N
  BY <1>2 DEF Place
<1> QED
  BY <1>3

LEMMA PutBack ==
  ASSUME NEW N \in Nat \ {0}, NEW V, NEW p \in [0 .. N - 1 -> V], NEW h \in 0 .. N - 1,
         NEW c \in Seq(V), Len(c) < N, Holds(p, h, N, c), NEW v \in V
  PROVE  Holds([p EXCEPT ![(h + Len(c)) % N] = v], h, N, Append(c, v))
<1>0. \A i \in 1 .. N + 1 :
        /\ Place(h, i, N) = IF h + i - 1 < N THEN h + i - 1 ELSE h + i - 1 - N
        /\ Place(h, i, N) \in 0 .. N - 1
  BY PlaceOf
<1> DEFINE e == (h + Len(c)) % N
<1>1. Len(c) \in Nat /\ DOMAIN c = 1 .. Len(c) /\ e = Place(h, Len(c) + 1, N)
  BY DEF Place
<1>2. /\ DOMAIN Append(c, v) = 1 .. Len(c) + 1 /\ Append(c, v)[Len(c) + 1] = v
      /\ \A i \in 1 .. Len(c) : Append(c, v)[i] = c[i]
  BY <1>1
<1> HIDE DEF e
<1> SUFFICES ASSUME NEW i \in 1 .. Len(c) + 1
             PROVE  [p EXCEPT ![e] = v][Place(h, i, N)] = Append(c, v)[i]
  BY <1>2 DEF Holds, e
<1>3. i \in 1 .. N /\ Place(h, i, N) \in 0 .. N - 1 /\ e \in 0 .. N - 1
  BY <1>1, <1>0
<1>4. CASE i = Len(c) + 1
  BY <1>1, <1>2, <1>3, <1>4
<1>5. CASE i # Len(c) + 1
  <2>1. i \in 1 .. Len(c)
    BY <1>1, <1>5
  <2>2. Place(h, i, N) # e
    <3>1. PICK k \in 1 .. N + 1 : k = Len(c) + 1
      BY <1>1
    <3>2. e = IF h + k - 1 < N THEN h + k - 1 ELSE h + k - 1 - N
      BY <1>0, <1>1, <3>1
    <3>3. Place(h, i, N) = IF h + i - 1 < N THEN h + i - 1 ELSE h + i - 1 - N
      BY <1>0, <1>3
    <3>4. i \in Int /\ k \in Int /\ N \in Int /\ h \in Int /\ i >= 1 /\ i < k /\ k <= N
      BY <1>1, <2>1, <3>1
    <3> QED
      BY ONLY <3>2, <3>3, <3>4
  <2>3. p[Place(h, i, N)] = c[i]
    BY <1>1, <2>1 DEF Holds
  <2> QED
    BY <1>2, <1>3, <2>1, <2>2, <2>3
<1> QED
  BY <1>4, <1>5

LEMMA PutFront ==
  ASSUME NEW N \in Nat \ {0}, NEW V, NEW p \in [0 .. N - 1 -> V], NEW h \in 0 .. N - 1,
         NEW c \in Seq(V), Len(c) < N, Holds(p, h, N, c), NEW v \in V,
         NEW g, g = IF h = 0 THEN N - 1 ELSE h - 1
  PROVE  Holds([p EXCEPT ![g] = v], g, N, <<v>> \o c)
<1>1. Len(c) \in Nat /\ DOMAIN c = 1 .. Len(c) /\ g \in 0 .. N - 1
  OBVIOUS
<1>h. \A i \in 1 .. N + 1 :
        /\ Place(h, i, N) = IF h + i - 1 < N THEN h + i - 1 ELSE h + i - 1 - N
        /\ Place(h, i, N) \in 0 .. N - 1
  BY PlaceOf
<1>g. \A i \in 1 .. N + 1 :
        /\ Place(g, i, N) = IF g + i - 1 < N THEN g + i - 1 ELSE g + i - 1 - N
        /\ Place(g, i, N) \in 0 .. N - 1
  BY <1>1, PlaceOf
<1>2. /\ DOMAIN (<<v>> \o c) = 1 .. Len(c) + 1 /\ (<<v>> \o c)[1] = v
      /\ \A i \in 2 .. Len(c) + 1 : (<<v>> \o c)[i] = c[i - 1]
  BY <1>1
<1> SUFFICES ASSUME NEW i \in 1 .. Len(c) + 1
             PROVE  [p EXCEPT ![g] = v][Place(g, i, N)] = (<<v>> \o c)[i]
  BY <1>2 DEF Holds
<1>3. i \in 1 .. N /\ Place(g, i, N) \in 0 .. N - 1
  BY <1>1, <1>g, <1>h
<1>4. CASE i = 1
  <2>1. Place(g, i, N) = g
    BY <1>1, <1>3, <1>4, <1>g, <1>h
  <2> QED
    BY <1>1, <1>2, <1>4, <2>1
<1>5. CASE i # 1
  <2>1. i - 1 \in 1 .. Len(c) /\ i - 1 \in 1 .. N /\ i \in 2 .. Len(c) + 1
    BY <1>1, <1>5
  <2>0. PICK k \in 1 .. N + 1 : k = i - 1
    BY <1>1, <2>1
  <2>p. Place(g, i, N) = IF g + i - 1 < N THEN g + i - 1 ELSE g + i - 1 - N
    BY <1>1, <1>3, <1>g
  <2>q. Place(h, k, N) = IF h + k - 1 < N THEN h + k - 1 ELSE h + k - 1 - N
    BY <1>h
  <2>r. /\ i \in Int /\ i > 1 /\ i <= N /\ N \in Int /\ h \in Int /\ 0 <= h /\ h < N
        /\ g = IF h = 0 THEN N - 1 ELSE h - 1
    BY <1>1, <1>3, <2>1
  <2>2. Place(g, i, N) = Place(h, i - 1, N)
    <3>1. Place(g, i, N) = Place(h, k, N)
      BY ONLY <2>0, <2>p, <2>q, <2>r
    <3> QED
      BY <2>0, <3>1
  <2>3. Place(g, i, N) # g
    BY ONLY <2>p, <2>r
  <2>4. p[Place(h, i - 1, N)] = c[i - 1]
    BY <1>1, <2>1 DEF Holds
  <2> QED
    BY <1>1, <1>2, <1>3, <2>1, <2>2, <2>3, <2>4
<1> QED
  BY <1>4, <1>5

LEMMA DropBack ==
  ASSUME NEW N \in Nat \ {0}, NEW V, NEW p, NEW h, NEW c \in Seq(V), Len(c) > 0, Holds(p, h, N, c)
  PROVE  /\ Holds(p, h, N, SubSeq(c, 1, Len(c) - 1))
         /\ SubSeq(c, 1, Len(c) - 1) \in Seq(V) /\ Len(SubSeq(c, 1, Len(c) - 1)) = Len(c) - 1
<1>1. Len(c) \in Nat /\ DOMAIN c = 1 .. Len(c)
  OBVIOUS
<1>2. /\ SubSeq(c, 1, Len(c) - 1) \in Seq(V) /\ Len(SubSeq(c, 1, Len(c) - 1)) = Len(c) - 1
      /\ DOMAIN SubSeq(c, 1, Len(c) - 1) = 1 .. Len(c) - 1
      /\ \A i \in 1 .. Len(c) - 1 : SubSeq(c, 1, Len(c) - 1)[i] = c[i]
  BY <1>1
<1> QED
  BY <1>1, <1>2 DEF Holds

LEMMA DropFront ==
  ASSUME NEW N \in Nat \ {0}, NEW V, NEW p, NEW h \in 0 .. N - 1, NEW c \in Seq(V),
         Len(c) > 0, Len(c) <= N, Holds(p, h, N, c)
  PROVE  /\ Holds(p, (h + 1) % N, N, Tail(c)) /\ (h + 1) % N \in 0 .. N - 1
         /\ Tail(c) \in Seq(V) /\ Len(Tail(c)) = Len(c) - 1
<1> DEFINE g == (h + 1) % N
<1>h. \A i \in 1 .. N + 1 :
        /\ Place(h, i, N) = IF h + i - 1 < N THEN h + i - 1 ELSE h + i - 1 - N
        /\ Place(h, i, N) \in 0 .. N - 1
  BY PlaceOf
<1>1. Len(c) \in Nat /\ DOMAIN c = 1 .. Len(c)
  OBVIOUS
<1>2. g = Place(h, 2, N)
  BY DEF Place
<1>3. g = (IF h + 1 < N THEN h + 1 ELSE h + 1 - N) /\ g \in 0 .. N - 1
  BY <1>2, <1>h
<1> HIDE DEF g
<1>g. \A i \in 1 .. N + 1 :
        /\ Place(g, i, N) = IF g + i - 1 < N THEN g + i - 1 ELSE g + i - 1 - N
        /\ Place(g, i, N) \in 0 .. N - 1
  BY <1>3, PlaceOf
<1>4. /\ Tail(c) \in Seq(V) /\ Len(Tail(c)) = Len(c) - 1 /\ DOMAIN Tail(c) = 1 .. Len(c) - 1
      /\ \A i \in 1 .. Len(c) - 1 : Tail(c)[i] = c[i + 1]
  BY <1>1
<1>5. ASSUME NEW i \in 1 .. Len(c) - 1
      PROVE  p[Place(g, i, N)] = Tail(c)[i]
  <2>1. i \in 1 .. N /\ i + 1 \in 1 .. N /\ i + 1 \in 1 .. Len(c)
    BY <1>1
  <2>2. Place(g, i, N) = IF g + i - 1 < N THEN g + i - 1 ELSE g + i - 1 - N
    BY <1>3, <2>1, <1>g, <1>h
  <2>3. Place(h, i + 1, N) = IF h + (i + 1) - 1 < N THEN h + (i + 1) - 1 ELSE h + (i + 1) - 1 - N
    <3>1. PICK k \in 1 .. N + 1 : k = i + 1
      BY <2>1
    <3>2. Place(h, k, N) = IF h + k - 1 < N THEN h + k - 1 ELSE h + k - 1 - N
      BY <1>h
    <3> QED
      BY <3>1, <3>2
  <2>4. Place(g, i, N) = Place(h, i + 1, N)
    BY <1>3, <2>1, <2>2, <2>3
  <2>5. p[Place(h, i + 1, N)] = c[i + 1]
    BY <1>1, <2>1 DEF Holds
  <2> QED
    BY <1>4, <2>4, <2>5
<1> QED
  BY <1>3, <1>4, <1>5 DEF Holds, g
-----------------------------------------------------------------------------
(***************************************************************************)
(* The queue.  One without memory has only elements that are anything: it  *)
(* is empty, or it was freed and kept its count.                           *)
(***************************************************************************)

Elements == Values \cup {Junk}
Blocks == [0 .. RingSize - 1 -> Elements]

RingInv ==
  /\ ring \in [head : 0 .. RingSize - 1, tail : 0 .. RingSize - 1, count : 0 .. RingSize,
              pdata : Blocks \cup {None}]
  /\ ringContent \in Seq(Elements)
  /\ ring.count = Len(ringContent) /\ ring.tail = (ring.head + ring.count) % RingSize
  /\ Holds(Ring!Ring, ring.head, RingSize, ringContent)

LEMMA NoneIsNoBlock == None \notin Blocks /\ RingSize \in Nat \ {0}
<1>1. RingSize \in 1 .. RingSize + MaxElems + Reserve /\ RingSize \in Nat \ {0}
  BY SequencesAssumption
<1> QED
  BY <1>1, SequencesAssumption DEF Blocks, Elements

LEMMA RingHasMemory == RingInv => Ring!Ring \in Blocks
BY DEF RingInv, Ring!Ring, Ring!Block, Blocks, Elements

LEMMA RingHolds == RingInv => Ring!HoldsContent
<1> SUFFICES ASSUME RingInv PROVE Ring!HoldsContent
  OBVIOUS
<1>1. Holds(Ring!Ring, ring.head, RingSize, ringContent)
  BY DEF RingInv
<1>2. ring.pdata # None => Holds(ring.pdata, ring.head, RingSize, ringContent)
  BY <1>1 DEF Ring!Ring
<1> QED
  BY <1>2 DEF RingInv, Ring!HoldsContent, Holds, Place

LEMMA RingStarts == Ring!Init => RingInv
<1> SUFFICES ASSUME Ring!Init PROVE RingInv
  OBVIOUS
<1>1. ring = [head |-> 0, tail |-> 0, count |-> 0, pdata |-> None] /\ ringContent = <<>>
  BY DEF Ring!Init
<1>2. 0 % RingSize = 0 /\ RingSize \in Nat \ {0}
  BY NoneIsNoBlock
<1> QED
  BY <1>1, <1>2 DEF RingInv, Holds

(* Where the ring begins and ends, when one element comes or goes.         *)
LEMMA RingMoves ==
  ASSUME NEW h \in 0 .. RingSize - 1, NEW n \in 0 .. RingSize,
         NEW t, t = (h + n) % RingSize
  PROVE  /\ t \in 0 .. RingSize - 1
         /\ Ring!Up(t) \in 0 .. RingSize - 1 /\ Ring!Down(t) \in 0 .. RingSize - 1
         /\ Ring!Down(h) = IF h = 0 THEN RingSize - 1 ELSE h - 1
         /\ Ring!Up(h) \in 0 .. RingSize - 1
         /\ n < RingSize => Ring!Up(t) = (h + (n + 1)) % RingSize
                          /\ t = (Ring!Down(h) + (n + 1)) % RingSize
         /\ n > 0 => Ring!Down(t) = (h + (n - 1)) % RingSize
                   /\ t = (Ring!Up(h) + (n - 1)) % RingSize
<1> DEFINE N == RingSize
<1>1. N \in Int /\ N > 0 /\ h \in Int /\ 0 <= h /\ h < N /\ n \in Int /\ 0 <= n /\ n <= N
  BY NoneIsNoBlock
<1>2. \A j \in Nat : j < N + N => j % N = IF j < N THEN j ELSE j - N
  BY NoneIsNoBlock, Around
<1> HIDE DEF N
<1>3. ASSUME NEW j \in Int, 0 <= j, j < N + N
      PROVE  j % N = IF j < N THEN j ELSE j - N
  <2>1. j \in Nat
    BY <1>3
  <2> QED
    BY <1>2, <1>3, <2>1
<1>4. t = IF h + n < N THEN h + n ELSE h + n - N
  <2>1. PICK j \in Int : j = h + n
    BY <1>1
  <2> QED
    BY <1>1, <1>3, <2>1 DEF N
<1>5. t \in Int /\ 0 <= t /\ t < N
  BY ONLY <1>1, <1>4
<1>6. ASSUME NEW i \in Int, 0 <= i, i < N
      PROVE  /\ Ring!Up(i) = IF i = N - 1 THEN 0 ELSE i + 1
             /\ Ring!Down(i) = IF i = 0 THEN N - 1 ELSE i - 1
  <2>1. PICK j \in Int : j = i + 1
    BY <1>6
  <2>2. PICK k \in Int : k = i + N - 1
    BY <1>1, <1>6
  <2>3. j % N = (IF j < N THEN j ELSE j - N) /\ k % N = IF k < N THEN k ELSE k - N
    BY <1>1, <1>3, <1>6, <2>1, <2>2
  <2>4. Ring!Up(i) = j % N /\ Ring!Down(i) = k % N
    BY <2>1, <2>2 DEF Ring!Up, Ring!Down, N
  <2> QED
    BY <1>1, <1>6, <2>1, <2>2, <2>3, <2>4
<1>7. /\ Ring!Up(t) = (IF t = N - 1 THEN 0 ELSE t + 1) /\ Ring!Down(t) = (IF t = 0 THEN N - 1 ELSE t - 1)
      /\ Ring!Up(h) = (IF h = N - 1 THEN 0 ELSE h + 1) /\ Ring!Down(h) = (IF h = 0 THEN N - 1 ELSE h - 1)
  BY <1>1, <1>5, <1>6
<1>8. ASSUME n < N
      PROVE  Ring!Up(t) = (h + (n + 1)) % N /\ t = (Ring!Down(h) + (n + 1)) % N
  <2>1. PICK j \in Int : j = h + (n + 1)
    BY <1>1
  <2>2. PICK k \in Int : k = Ring!Down(h) + (n + 1)
    BY <1>1, <1>7
  <2>3. j % N = (IF j < N THEN j ELSE j - N) /\ k % N = IF k < N THEN k ELSE k - N
    BY <1>1, <1>3, <1>7, <1>8, <2>1, <2>2
  <2>4. Ring!Up(t) = j % N /\ t = k % N
    BY ONLY <1>1, <1>4, <1>5, <1>7, <1>8, <2>1, <2>2, <2>3
  <2> QED
    BY <2>1, <2>2, <2>4
<1>9. ASSUME n > 0
      PROVE  Ring!Down(t) = (h + (n - 1)) % N /\ t = (Ring!Up(h) + (n - 1)) % N
  <2>1. PICK j \in Int : j = h + (n - 1)
    BY <1>1
  <2>2. PICK k \in Int : k = Ring!Up(h) + (n - 1)
    BY <1>1, <1>7
  <2>3. j % N = (IF j < N THEN j ELSE j - N) /\ k % N = IF k < N THEN k ELSE k - N
    BY <1>1, <1>3, <1>7, <1>9, <2>1, <2>2
  <2>4. Ring!Down(t) = j % N /\ t = k % N
    BY ONLY <1>1, <1>4, <1>5, <1>7, <1>9, <2>1, <2>2, <2>3
  <2> QED
    BY <2>1, <2>2, <2>4
<1>10. Ring!Up(t) \in 0 .. N - 1 /\ Ring!Down(t) \in 0 .. N - 1 /\ Ring!Up(h) \in 0 .. N - 1 /\ t \in 0 .. N - 1
  BY <1>1, <1>5, <1>7
<1> QED
  BY <1>7, <1>8, <1>9, <1>10 DEF N

(* It is enough to say what becomes of each field.                         *)
LEMMA RingSteps ==
  ASSUME NEW h \in 0 .. RingSize - 1, NEW t, NEW n \in 0 .. RingSize, NEW p \in Blocks,
         ring' = [head |-> h, tail |-> t, count |-> n, pdata |-> p],
         ringContent' \in Seq(Elements), n = Len(ringContent'), t = (h + n) % RingSize,
         Holds(p, h, RingSize, ringContent')
  PROVE  RingInv'
<1>1. t \in 0 .. RingSize - 1
  BY RingMoves
<1>2. ring'.pdata = p /\ p # None
  BY NoneIsNoBlock
<1>3. Ring!Ring' = p
  BY <1>2 DEF Ring!Ring
<1> QED
  BY <1>1, <1>3 DEF RingInv

LEMMA RingAdds ==
  ASSUME RingInv, NEW v \in Values, Ring!add_back(v) \/ Ring!add_front(v)
  PROVE  RingInv'
<1> DEFINE h == ring.head
           t == ring.tail
           n == ring.count
           N == RingSize
           p == Ring!Ring
           c == ringContent
<1>1. /\ N \in Nat \ {0} /\ h \in 0 .. N - 1 /\ n \in 0 .. N /\ n < N /\ n + 1 \in 0 .. N
      /\ t = (h + n) % N /\ n = Len(c) /\ c \in Seq(Elements) /\ v \in Elements
      /\ p \in [0 .. N - 1 -> Elements] /\ Holds(p, h, N, c)
  BY NoneIsNoBlock, RingHasMemory DEF RingInv, Ring!add_back, Ring!add_front, Elements, Blocks
<1>2. /\ t \in 0 .. N - 1 /\ Ring!Up(t) = (h + (n + 1)) % N /\ t = (Ring!Down(h) + (n + 1)) % N
      /\ Ring!Down(h) = (IF h = 0 THEN N - 1 ELSE h - 1) /\ Ring!Down(h) \in 0 .. N - 1
  <2> HIDE DEF h, n, p, c, t
  <2>1. h \in 0 .. RingSize - 1 /\ n \in 0 .. RingSize /\ t = (h + n) % RingSize
    BY <1>1
  <2>2. /\ t \in 0 .. RingSize - 1
        /\ n < RingSize => Ring!Up(t) = (h + (n + 1)) % RingSize
                         /\ t = (Ring!Down(h) + (n + 1)) % RingSize
        /\ Ring!Down(h) = IF h = 0 THEN RingSize - 1 ELSE h - 1
    BY <2>1, RingMoves
  <2> QED
    BY <1>1, <2>2
<1>3. CASE Ring!add_back(v)
  <2> DEFINE q == [p EXCEPT ![t] = v]
  <2>1. ring' = [head |-> h, tail |-> Ring!Up(t), count |-> n + 1, pdata |-> q] /\ c' = Append(c, v)
    BY <1>3 DEF Ring!add_back, RingInv
  <2>2. q \in [0 .. N - 1 -> Elements]
    <3> HIDE DEF p, t
    <3> QED
      BY <1>1
  <2>3. Holds(q, h, N, Append(c, v)) /\ Append(c, v) \in Seq(Elements) /\ Len(Append(c, v)) = n + 1
    <3> HIDE DEF h, n, p, c, t
    <3>1. Holds([p EXCEPT ![(h + Len(c)) % N] = v], h, N, Append(c, v))
      BY <1>1, PutBack
    <3> QED
      BY <1>1, <3>1
  <2> HIDE DEF h, n, p, t, q
  <2> QED
    BY <1>1, <1>2, <2>1, <2>2, <2>3, RingSteps DEF Blocks
<1>4. CASE Ring!add_front(v)
  <2> DEFINE g == Ring!Down(h)
             q == [p EXCEPT ![g] = v]
  <2>1. ring' = [head |-> g, tail |-> t, count |-> n + 1, pdata |-> q] /\ c' = <<v>> \o c
    BY <1>4 DEF Ring!add_front, RingInv
  <2> HIDE DEF g
  <2>2. q \in [0 .. N - 1 -> Elements]
    <3> HIDE DEF p, t
    <3> QED
      BY <1>1
  <2>3. Holds(q, g, N, <<v>> \o c) /\ <<v>> \o c \in Seq(Elements) /\ Len(<<v>> \o c) = n + 1
    <3> HIDE DEF h, n, p, c, t
    <3>1. Holds(q, g, N, <<v>> \o c)
      BY <1>1, <1>2, PutFront DEF g
    <3> QED
      BY <1>1, <3>1
  <2>4. g \in 0 .. N - 1 /\ t = (g + (n + 1)) % N
    BY <1>2 DEF g
  <2> HIDE DEF h, n, p, t, q
  <2> QED
    BY <1>1, <2>1, <2>2, <2>3, <2>4, RingSteps DEF Blocks
<1> QED
  BY <1>3, <1>4

LEMMA RingGets ==
  ASSUME RingInv, Ring!get_back \/ Ring!get_front
  PROVE  RingInv'
<1> DEFINE h == ring.head
           t == ring.tail
           n == ring.count
           N == RingSize
           p == ring.pdata
           c == ringContent
<1>1. /\ N \in Nat \ {0} /\ h \in 0 .. N - 1 /\ n \in 0 .. N /\ n > 0 /\ n - 1 \in 0 .. N
      /\ t = (h + n) % N /\ n = Len(c) /\ c \in Seq(Elements)
      /\ p \in [0 .. N - 1 -> Elements] /\ Holds(p, h, N, c)
  BY NoneIsNoBlock DEF RingInv, Ring!get_back, Ring!get_front, Blocks, Ring!Ring
<1>2. Ring!Down(t) = (h + (n - 1)) % N /\ t = (Ring!Up(h) + (n - 1)) % N
  <2> HIDE DEF h, n, p, c, t
  <2>1. h \in 0 .. RingSize - 1 /\ n \in 0 .. RingSize /\ t = (h + n) % RingSize
    BY <1>1
  <2>2. n > 0 => Ring!Down(t) = (h + (n - 1)) % RingSize
              /\ t = (Ring!Up(h) + (n - 1)) % RingSize
    BY <2>1, RingMoves
  <2> QED
    BY <1>1, <2>2
<1>3. CASE Ring!get_back
  <2> DEFINE d == SubSeq(c, 1, Len(c) - 1)
  <2>1. ring' = [head |-> h, tail |-> Ring!Down(t), count |-> n - 1, pdata |-> p] /\ c' = d
    BY <1>3 DEF Ring!get_back, RingInv
  <2>2. Holds(p, h, N, d) /\ d \in Seq(Elements) /\ Len(d) = n - 1
    <3> HIDE DEF h, n, p, c
    <3> QED
      BY <1>1, DropBack
  <2> HIDE DEF h, n, p, t, d
  <2> QED
    BY <1>1, <1>2, <2>1, <2>2, RingSteps DEF Blocks
<1>4. CASE Ring!get_front
  <2> DEFINE g == Ring!Up(h)
             d == Tail(c)
  <2>1. ring' = [head |-> g, tail |-> t, count |-> n - 1, pdata |-> p] /\ c' = d
    BY <1>4 DEF Ring!get_front, RingInv
  <2>2. Holds(p, g, N, d) /\ d \in Seq(Elements) /\ Len(d) = n - 1 /\ g \in 0 .. N - 1
    <3>1. g = (h + 1) % N
      BY DEF Ring!Up
    <3> HIDE DEF h, n, p, c, g
    <3> QED
      BY <1>1, <3>1, DropFront
  <2>3. t = (g + (n - 1)) % N
    BY <1>2
  <2> HIDE DEF h, n, p, t, d, g
  <2> QED
    BY <1>1, <2>1, <2>2, <2>3, RingSteps DEF Blocks
<1> QED
  BY <1>3, <1>4

LEMMA RingKeeps ==
  ASSUME RingInv, [Ring!Next]_ringVars
  PROVE  RingInv'
<1>1. CASE UNCHANGED ringVars
  BY <1>1 DEF ringVars, RingInv, Ring!Ring
<1>2. CASE Ring!queue_alloc
  <2>1. Ring!Block \in Blocks
    BY DEF Ring!Block, Blocks, Elements
  <2>2. ring' = [head |-> 0, tail |-> 0, count |-> 0, pdata |-> Ring!Block] /\ ringContent' = <<>>
    BY <1>2 DEF Ring!queue_alloc
  <2>3. (0 + 0) % RingSize = 0 /\ 0 \in 0 .. RingSize - 1 /\ 0 \in 0 .. RingSize
    BY NoneIsNoBlock
  <2>4. Holds(Ring!Block, 0, RingSize, ringContent')
    BY <2>2 DEF Holds
  <2> HIDE DEF Holds
  <2> QED
    BY <2>1, <2>2, <2>3, <2>4, RingSteps
<1>3. CASE Ring!queue_free
  <2> DEFINE c == ringContent
             d == [i \in DOMAIN c |-> Junk]
  <2>1. /\ ring' = [ring EXCEPT !.pdata = None] /\ ringContent' = d
        /\ c \in Seq(Elements)
    BY <1>3 DEF Ring!queue_free, RingInv
  <2>2. d \in Seq(Elements) /\ Len(d) = Len(c) /\ DOMAIN d = 1 .. Len(c)
    BY <2>1 DEF Elements
  <2>3. Ring!Ring' = Ring!Block
    BY <2>1 DEF Ring!Ring, RingInv
  <2>4. Holds(Ring!Block, ring.head, RingSize, d)
    <3> SUFFICES ASSUME NEW i \in 1 .. Len(c)
                 PROVE  Ring!Block[Place(ring.head, i, RingSize)] = d[i]
      BY <2>2 DEF Holds
    <3>1. ring.head \in 0 .. RingSize - 1 /\ i \in 1 .. RingSize + 1
      BY NoneIsNoBlock DEF RingInv
    <3>2. Place(ring.head, i, RingSize) \in 0 .. RingSize - 1
      BY <3>1, NoneIsNoBlock, PlaceOf
    <3>3. i \in DOMAIN c
      BY <2>1
    <3> QED
      BY <3>2, <3>3 DEF Ring!Block
  <2>5. /\ ring' \in [head : 0 .. RingSize - 1, tail : 0 .. RingSize - 1, count : 0 .. RingSize,
                      pdata : Blocks \cup {None}]
        /\ ring'.head = ring.head /\ ring'.tail = ring.tail /\ ring'.count = ring.count
    BY <2>1 DEF RingInv
  <2> QED
    BY <2>1, <2>2, <2>3, <2>4, <2>5 DEF RingInv
<1> QED
  BY <1>1, <1>2, <1>3, RingAdds, RingGets DEF Ring!Next
-----------------------------------------------------------------------------
(***************************************************************************)
(* The stack.  It is a ring of as many places as it has capacity; what was *)
(* put in is there, but for what its growth has torn off (see Holds).      *)
(***************************************************************************)

StackIs(n, k, h, p) == stack = [size |-> n, capacity |-> k, head |-> h, data |-> p]

\* c is e where it is specified
Agrees(c, e) ==
  e \in Seq(Elements) /\ Len(e) = Len(c) /\ \A i \in 1 .. Len(c) : c[i] \in {Junk, e[i]}

\* n elements in k places of p from h on
Fits(n, k, h, p, c) ==
  /\ n \in Nat /\ k \in Nat /\ n <= k
  /\ h \in Nat /\ (k > 0 => h < k)
  /\ p \in [0 .. k - 1 -> Elements]
  /\ c \in Seq(Elements) /\ n = Len(c)
  /\ \E e : Holds(p, h, k, e) /\ Agrees(c, e)

StackInv ==
  /\ StackIs(stack.size, stack.capacity, stack.head, stack.data)
  /\ Fits(stack.size, stack.capacity, stack.head, stack.data, stackContent)

LEMMA StackHolds == StackInv => Stack!HoldsContent
<1> SUFFICES ASSUME StackInv PROVE Stack!HoldsContent
  OBVIOUS
<1> DEFINE c == stackContent
           P(i) == stack.data[(stack.head + i - 1) % stack.capacity]
<1>1. PICK e : Holds(stack.data, stack.head, stack.capacity, e) /\ Agrees(c, e)
  BY DEF StackInv, Fits
<1>2. c \in Seq(Elements) /\ stack.size = Len(c)
  BY DEF StackInv, Fits
<1>3. ASSUME NEW i \in DOMAIN c
      PROVE  c[i] \in {Junk, P(i)}
  <2>1. i \in 1 .. Len(c) /\ i \in DOMAIN e
    BY <1>1, <1>2 DEF Agrees
  <2>2. P(i) = e[i]
    BY <1>1, <2>1 DEF Holds, Place
  <2> HIDE DEF P
  <2> QED
    BY <1>1, <2>1, <2>2 DEF Agrees
<1> QED
  BY <1>2, <1>3 DEF Stack!HoldsContent

LEMMA StackSteps ==
  ASSUME NEW n, NEW k, NEW h, NEW p,
         stack' = [size |-> n, capacity |-> k, head |-> h, data |-> p],
         Fits(n, k, h, p, stackContent')
  PROVE  StackInv'
BY DEF StackInv, StackIs

LEMMA EmptyFits ==
  ASSUME NEW k \in Nat, NEW p \in [0 .. k - 1 -> Elements]
  PROVE  Fits(0, k, 0, p, <<>>)
<1>1. Holds(p, 0, k, <<>>) /\ Agrees(<<>>, <<>>)
  BY DEF Holds, Agrees
<1> QED
  BY <1>1 DEF Fits

LEMMA Blank ==
  ASSUME NEW k \in Nat, stack' = Stack!Blank(k), stackContent' = <<>>
  PROVE  StackInv'
<1> DEFINE p == [i \in 0 .. k - 1 |-> Junk]
<1>1. p \in [0 .. k - 1 -> Elements]
  BY DEF Elements
<1>2. stack' = [size |-> 0, capacity |-> k, head |-> 0, data |-> p]
  BY DEF Stack!Blank
<1> HIDE DEF p
<1>3. Fits(0, k, 0, p, stackContent')
  BY <1>1, EmptyFits
<1> QED
  BY <1>2, <1>3, StackSteps

(* The ring with room: growth keeps the elements up to its end.            *)
LEMMA Room ==
  ASSUME StackInv, Stack!CanPush
  PROVE  \E k \in Nat \ {0} : \E p \in [0 .. k - 1 -> Elements] : \E e :
           /\ Stack!Roomy = [size |-> stack.size, capacity |-> k, head |-> stack.head, data |-> p]
           /\ stack.size < k /\ stack.head \in 0 .. k - 1
           /\ Stack!Left \in Seq(Elements) /\ Len(Stack!Left) = stack.size
           /\ Holds(p, stack.head, k, e) /\ Agrees(Stack!Left, e)
<1> DEFINE n == stack.size
           k == stack.capacity
           h == stack.head
           p == stack.data
           c == stackContent
<1>1. /\ n \in Nat /\ k \in Nat /\ n <= k /\ h \in Nat /\ (k > 0 => h < k)
      /\ p \in [0 .. k - 1 -> Elements] /\ c \in Seq(Elements) /\ n = Len(c)
      /\ stack = [size |-> n, capacity |-> k, head |-> h, data |-> p]
  BY DEF StackInv, StackIs, Fits
<1>2. PICK e : Holds(p, h, k, e) /\ Agrees(c, e)
  BY DEF StackInv, Fits
<1>3. k > 0
  BY DEF Stack!CanPush
<1>4. CASE n < k
  <2>1. Stack!Roomy = stack /\ Stack!Left = c
    BY <1>1, <1>4 DEF Stack!Roomy, Stack!Left
  <2>2. k \in Nat \ {0} /\ h \in 0 .. k - 1
    BY <1>1, <1>3
  <2> HIDE DEF n, k, h, p, c
  <2> QED
    BY <1>1, <1>2, <1>4, <2>1, <2>2 DEF n, k, h, p, c
<1>5. CASE n >= k
  <2> DEFINE m == 2 * k
             q == [i \in 0 .. m - 1 |-> IF i < k THEN p[i] ELSE Junk]
             d == [i \in DOMAIN c |-> IF i <= k - h THEN c[i] ELSE Junk]
             f == [i \in 1 .. k |-> q[Place(h, i, m)]]
  <2>1. Stack!Roomy = [size |-> n, capacity |-> m, head |-> h, data |-> q]
    <3>1. Stack!Roomy = [stack EXCEPT !.capacity = 2 * @, !.data = q]
      BY <1>5 DEF Stack!Roomy, Stack!Grown
    <3> HIDE DEF q
    <3> QED
      BY <1>1, <3>1
  <2>2. Stack!Left = d
    BY <1>1, <1>5 DEF Stack!Left
  <2> HIDE DEF n, k, h, p, c
  <2>3. m \in Nat \ {0} /\ n < m /\ h \in 0 .. m - 1 /\ h \in 0 .. k - 1 /\ n = k /\ k \in Nat \ {0}
    BY <1>1, <1>3, <1>5
  <2>4. q \in [0 .. m - 1 -> Elements]
    BY <1>1, <2>3 DEF Elements
  <2>5. d \in Seq(Elements) /\ Len(d) = k /\ DOMAIN c = 1 .. k
    <3>1. DOMAIN c = 1 .. k /\ Junk \in Elements /\ \A i \in 1 .. k : c[i] \in Elements
      BY <1>1, <2>3 DEF Elements
    <3>2. d = [i \in 1 .. k |-> IF i <= k - h THEN c[i] ELSE Junk]
      BY <3>1
    <3>3. [i \in 1 .. k |-> IF i <= k - h THEN c[i] ELSE Junk] \in Seq(Elements)
      BY <2>3, <3>1
    <3>4. Len([i \in 1 .. k |-> IF i <= k - h THEN c[i] ELSE Junk]) = k
      BY <2>3
    <3> QED
      BY <3>1, <3>2, <3>3, <3>4
  <2>6. ASSUME NEW i \in 1 .. k
        PROVE  /\ Place(h, i, m) = h + i - 1 /\ Place(h, i, m) \in 0 .. m - 1
               /\ i <= k - h => Place(h, i, k) = h + i - 1 /\ h + i - 1 < k
    <3>1. i \in 1 .. m + 1 /\ i \in 1 .. k + 1 /\ h + i - 1 < m
      BY <1>1, <2>3
    <3>2. Place(h, i, k) = IF h + i - 1 < k THEN h + i - 1 ELSE h + i - 1 - k
      BY <2>3, <3>1, PlaceOf
    <3>3. Place(h, i, m) = IF h + i - 1 < m THEN h + i - 1 ELSE h + i - 1 - m
      <4> HIDE DEF m
      <4> QED
        BY <2>3, <3>1, PlaceOf
    <3> QED
      BY <1>1, <2>3, <3>1, <3>2, <3>3
  <2>7. f \in Seq(Elements) /\ Len(f) = k /\ DOMAIN f = 1 .. k
    <3>1. \A i \in 1 .. k : q[Place(h, i, m)] \in Elements
      <4> HIDE DEF m, q
      <4> QED
        BY <2>4, <2>6
    <3> HIDE DEF m, q
    <3> QED
      BY <2>3, <3>1
  <2>8. ASSUME NEW i \in 1 .. k
        PROVE  d[i] \in {Junk, f[i]}
    <3>1. CASE i <= k - h
      <4>1. d[i] = c[i] /\ c[i] \in {Junk, e[i]} /\ i \in DOMAIN e
        <5>1. Len(c) = k /\ e \in Seq(Elements) /\ Len(e) = k
          BY <1>1, <1>2, <2>3 DEF Agrees
        <5> QED
          BY <1>2, <2>5, <3>1, <5>1 DEF Agrees
      <4>2. e[i] = p[h + i - 1]
        BY <1>2, <2>6, <3>1, <4>1 DEF Holds
      <4>3. f[i] = q[h + i - 1] /\ h + i - 1 \in 0 .. m - 1 /\ h + i - 1 < k
        <5> HIDE DEF q, m
        <5> QED
          BY <2>6, <3>1
      <4>4. q[h + i - 1] = p[h + i - 1]
        BY <4>3
      <4> HIDE DEF d, f, q, m
      <4> QED
        BY <4>1, <4>2, <4>3, <4>4
    <3>2. CASE ~(i <= k - h)
      BY <2>5, <3>2
    <3> QED
      BY <3>1, <3>2
  <2>9. Holds(q, h, m, f)
    <3> HIDE DEF q, m
    <3> QED
      BY <2>7 DEF Holds
  <2> HIDE DEF m, q, d, f
  <2>10. Agrees(d, f)
    BY <2>5, <2>7, <2>8 DEF Agrees
  <2>11. Stack!Left \in Seq(Elements) /\ Len(Stack!Left) = n /\ Agrees(Stack!Left, f)
    BY <2>2, <2>3, <2>5, <2>10
  <2> HIDE DEF Stack!Left
  <2> QED
    BY <2>1, <2>3, <2>4, <2>9, <2>11 DEF n, k, h, p, c
<1> QED
  BY <1>1, <1>4, <1>5

LEMMA AgreesAppended ==
  ASSUME NEW c \in Seq(Elements), NEW e, Agrees(c, e), NEW v \in Elements
  PROVE  Agrees(Append(c, v), Append(e, v)) /\ Agrees(<<v>> \o c, <<v>> \o e)
<1>1. e \in Seq(Elements) /\ Len(e) = Len(c) /\ Len(c) \in Nat
  BY DEF Agrees
<1>2. /\ Append(e, v) \in Seq(Elements) /\ Len(Append(e, v)) = Len(c) + 1 /\ Len(Append(c, v)) = Len(c) + 1
      /\ \A i \in 1 .. Len(c) + 1 : /\ Append(c, v)[i] = IF i = Len(c) + 1 THEN v ELSE c[i]
                                    /\ Append(e, v)[i] = IF i = Len(c) + 1 THEN v ELSE e[i]
  BY <1>1
<1>3. <<v>> \in Seq(Elements) /\ Len(<<v>>) = 1 /\ <<v>>[1] = v
  OBVIOUS
<1>4. /\ <<v>> \o e \in Seq(Elements) /\ Len(<<v>> \o e) = 1 + Len(c)
      /\ \A i \in 1 .. 1 + Len(c) : (<<v>> \o e)[i] = IF i <= 1 THEN <<v>>[i] ELSE e[i - 1]
  BY <1>1, <1>3, ConcatProperties
<1>5. /\ Len(<<v>> \o c) = 1 + Len(c)
      /\ \A i \in 1 .. 1 + Len(c) : (<<v>> \o c)[i] = IF i <= 1 THEN <<v>>[i] ELSE c[i - 1]
  BY <1>1, <1>3, ConcatProperties
<1>6. ASSUME NEW i \in 1 .. Len(c) + 1
      PROVE  Append(c, v)[i] \in {Junk, Append(e, v)[i]}
  BY <1>1, <1>2 DEF Agrees
<1>7. ASSUME NEW i \in 1 .. 1 + Len(c)
      PROVE  (<<v>> \o c)[i] \in {Junk, (<<v>> \o e)[i]}
  <2>1. CASE i = 1
    BY <1>1, <1>4, <1>5, <2>1
  <2>2. CASE i # 1
    <3>1. i - 1 \in 1 .. Len(c) /\ ~(i <= 1)
      BY <1>1, <2>2
    <3>2. (<<v>> \o c)[i] = c[i - 1] /\ (<<v>> \o e)[i] = e[i - 1]
      BY <1>4, <1>5, <3>1
    <3> QED
      BY <3>1, <3>2 DEF Agrees
  <2> QED
    BY <2>1, <2>2
<1>8. Agrees(Append(c, v), Append(e, v))
  BY <1>2, <1>6 DEF Agrees
<1>9. Agrees(<<v>> \o c, <<v>> \o e)
  BY <1>4, <1>5, <1>7 DEF Agrees
<1> QED
  BY <1>8, <1>9

LEMMA StackPushes ==
  ASSUME StackInv, NEW v \in Values, Stack!push_back(v) \/ Stack!push_front(v)
  PROVE  StackInv'
<1> DEFINE n == stack.size
           h == stack.head
           c == Stack!Left
<1>0. PICK k \in Nat \ {0} : \E p \in [0 .. k - 1 -> Elements] : \E e :
        /\ Stack!Roomy = [size |-> n, capacity |-> k, head |-> h, data |-> p]
        /\ n < k /\ h \in 0 .. k - 1
        /\ c \in Seq(Elements) /\ Len(c) = n
        /\ Holds(p, h, k, e) /\ Agrees(c, e)
  BY Room DEF Stack!push_back, Stack!push_front
<1>p. PICK p \in [0 .. k - 1 -> Elements] : \E e :
        /\ Stack!Roomy = [size |-> n, capacity |-> k, head |-> h, data |-> p]
        /\ n < k /\ h \in 0 .. k - 1
        /\ c \in Seq(Elements) /\ Len(c) = n
        /\ Holds(p, h, k, e) /\ Agrees(c, e)
  BY <1>0
<1>1. PICK e :
        /\ Stack!Roomy = [size |-> n, capacity |-> k, head |-> h, data |-> p]
        /\ n < k /\ h \in 0 .. k - 1
        /\ c \in Seq(Elements) /\ Len(c) = n
        /\ Holds(p, h, k, e) /\ Agrees(c, e)
  BY <1>p
<1>2. n \in Nat /\ v \in Elements /\ e \in Seq(Elements) /\ Len(e) = n
  BY <1>1 DEF StackInv, Fits, Elements, Agrees
<1>3. CASE Stack!push_back(v)
  <2> DEFINE a == (h + n) % k
             q == [p EXCEPT ![a] = v]
             d == Append(c, v)
  <2>1. stack' = [size |-> n + 1, capacity |-> k, head |-> h, data |-> q] /\ stackContent' = d
    BY <1>1, <1>3 DEF Stack!push_back
  <2> HIDE DEF n, h, c
  <2>2. q \in [0 .. k - 1 -> Elements]
    <3> HIDE DEF a
    <3> QED
      BY <1>2
  <2>3. Holds(q, h, k, Append(e, v)) /\ Agrees(d, Append(e, v))
    BY <1>1, <1>2, PutBack, AgreesAppended
  <2>4. d \in Seq(Elements) /\ Len(d) = n + 1
    BY <1>1, <1>2
  <2>5. Fits(n + 1, k, h, q, d)
    <3> HIDE DEF q, d
    <3> QED
      BY <1>1, <1>2, <2>2, <2>3, <2>4 DEF Fits
  <2> HIDE DEF q, d
  <2> QED
    BY <2>1, <2>5, StackSteps
<1>4. CASE Stack!push_front(v)
  <2> DEFINE g == IF h = 0 THEN k - 1 ELSE h - 1
             q == [p EXCEPT ![g] = v]
             d == <<v>> \o c
  <2>1. stack' = [size |-> n + 1, capacity |-> k, head |-> g, data |-> q] /\ stackContent' = d
    BY <1>1, <1>4 DEF Stack!push_front
  <2> HIDE DEF n, h, c
  <2>2. q \in [0 .. k - 1 -> Elements] /\ g \in 0 .. k - 1
    <3>1. g \in 0 .. k - 1
      BY <1>1
    <3> HIDE DEF g
    <3> QED
      BY <1>2, <3>1
  <2>3. Holds(q, g, k, <<v>> \o e) /\ Agrees(d, <<v>> \o e)
    BY <1>1, <1>2, PutFront, AgreesAppended
  <2>4. d \in Seq(Elements) /\ Len(d) = n + 1
    BY <1>1, <1>2
  <2>5. Fits(n + 1, k, g, q, d)
    <3> HIDE DEF q, d, g
    <3> QED
      BY <1>1, <1>2, <2>2, <2>3, <2>4 DEF Fits
  <2> HIDE DEF q, d, g
  <2> QED
    BY <2>1, <2>5, StackSteps
<1> QED
  BY <1>3, <1>4

LEMMA StackPops ==
  ASSUME StackInv, Stack!pop_back \/ Stack!pop_front
  PROVE  StackInv'
<1> DEFINE n == stack.size
           k == stack.capacity
           h == stack.head
           p == stack.data
           c == stackContent
<1>1. /\ n \in Nat /\ n > 0 /\ k \in Nat \ {0} /\ n <= k /\ h \in 0 .. k - 1
      /\ p \in [0 .. k - 1 -> Elements] /\ c \in Seq(Elements) /\ n = Len(c)
      /\ stack = [size |-> n, capacity |-> k, head |-> h, data |-> p]
  BY DEF StackInv, StackIs, Fits, Stack!pop_back, Stack!pop_front
<1>2. PICK e : Holds(p, h, k, e) /\ Agrees(c, e)
  BY DEF StackInv, Fits
<1>3. e \in Seq(Elements) /\ Len(e) = n /\ \A i \in 1 .. n : c[i] \in {Junk, e[i]}
  BY <1>1, <1>2 DEF Agrees
<1>4. CASE Stack!pop_back
  <2> DEFINE d == SubSeq(c, 1, Len(c) - 1)
             f == SubSeq(e, 1, Len(e) - 1)
  <2>1. stack' = [size |-> n - 1, capacity |-> k, head |-> h, data |-> p] /\ c' = d
    BY <1>1, <1>4 DEF Stack!pop_back
  <2> HIDE DEF n, h, k, p, c
  <2>2. d \in Seq(Elements) /\ Len(d) = n - 1 /\ \A i \in 1 .. n - 1 : d[i] = c[i]
    BY <1>1
  <2>3. f \in Seq(Elements) /\ Len(f) = n - 1 /\ \A i \in 1 .. n - 1 : f[i] = e[i]
    BY <1>1, <1>3
  <2>4. Holds(p, h, k, f)
    BY <1>1, <1>2, <1>3, DropBack
  <2> HIDE DEF d, f
  <2>5. Agrees(d, f)
    BY <1>1, <1>3, <2>2, <2>3 DEF Agrees
  <2>6. Fits(n - 1, k, h, p, d)
    BY <1>1, <2>2, <2>4, <2>5 DEF Fits
  <2> QED
    BY <2>1, <2>6, StackSteps DEF c
<1>5. CASE Stack!pop_front
  <2> DEFINE d == Tail(c)
             f == Tail(e)
             g == (h + 1) % k
  <2>1. stack' = [size |-> n - 1, capacity |-> k, head |-> g, data |-> p] /\ c' = d
    BY <1>1, <1>5 DEF Stack!pop_front
  <2> HIDE DEF n, h, k, p, c
  <2>2. d \in Seq(Elements) /\ Len(d) = n - 1 /\ \A i \in 1 .. n - 1 : d[i] = c[i + 1]
    BY <1>1
  <2>3. f \in Seq(Elements) /\ Len(f) = n - 1 /\ \A i \in 1 .. n - 1 : f[i] = e[i + 1]
    BY <1>1, <1>3
  <2>4. Holds(p, g, k, f) /\ g \in 0 .. k - 1
    BY <1>1, <1>2, <1>3, DropFront
  <2> HIDE DEF d, f, g
  <2>5. \A i \in 1 .. n - 1 : i + 1 \in 1 .. n
    BY <1>1
  <2>6. Agrees(d, f)
    BY <1>3, <2>2, <2>3, <2>5 DEF Agrees
  <2>7. Fits(n - 1, k, g, p, d)
    BY <1>1, <2>2, <2>4, <2>6 DEF Fits
  <2> QED
    BY <2>1, <2>7, StackSteps DEF c
<1> QED
  BY <1>4, <1>5

LEMMA StackStarts == Stack!Init => StackInv
<1> SUFFICES ASSUME Stack!Init PROVE StackInv
  OBVIOUS
<1> DEFINE p == [i \in 0 .. 0 - 1 |-> Junk]
<1>1. p \in [0 .. 0 - 1 -> Elements]
  BY DEF Elements
<1>2. stack = [size |-> 0, capacity |-> 0, head |-> 0, data |-> p] /\ stackContent = <<>>
  BY DEF Stack!Init, Stack!Blank
<1> HIDE DEF p
<1>3. Fits(0, 0, 0, p, <<>>)
  BY <1>1, EmptyFits
<1> QED
  BY <1>2, <1>3 DEF StackInv, StackIs

LEMMA StackKeeps ==
  ASSUME StackInv, [Stack!Next]_stackVars
  PROVE  StackInv'
<1>1. CASE UNCHANGED stackVars
  BY <1>1 DEF stackVars, StackInv, StackIs
<1>2. CASE Stack!stack_init \/ Stack!stack_free
  <2>1. PICK k \in Nat : stack' = Stack!Blank(k) /\ stackContent' = <<>>
    BY <1>2, SequencesAssumption DEF Stack!stack_init, Stack!stack_free, Stack!Emptied
  <2> QED
    BY <2>1, Blank
<1>3. CASE Stack!stack_clear
  <2> DEFINE k == stack.capacity
             p == stack.data
  <2>1. k \in Nat /\ p \in [0 .. k - 1 -> Elements]
    BY DEF StackInv, Fits
  <2>2. stack' = [size |-> 0, capacity |-> k, head |-> 0, data |-> p] /\ stackContent' = <<>>
    BY <1>3 DEF Stack!stack_clear, StackInv, StackIs
  <2> HIDE DEF k, p
  <2>3. Fits(0, k, 0, p, stackContent')
    BY <2>1, <2>2, EmptyFits
  <2> QED
    BY <2>2, <2>3, StackSteps
<1> QED
  BY <1>1, <1>2, <1>3, StackPushes, StackPops DEF Stack!Next
-----------------------------------------------------------------------------
(***************************************************************************)
(* The list.  As long as no node was linked outside of its ends, each node *)
(* of the list leads to its neighbours in both directions.                 *)
(***************************************************************************)

Links == [plast : Nodes \cup {None}, pnext : Nodes \cup {None}]

NodesTyped ==
  /\ DOMAIN node \subseteq Nodes /\ node \in [DOMAIN node -> Links]
  /\ pbegin \in Nodes \cup {None} /\ pend \in Nodes \cup {None}

\* The nodes of c are different, and linked as they follow each other.
Distinct(c) == \A i, j \in DOMAIN c : c[i] = c[j] => i = j
Linked(f, c) ==
  \A i \in DOMAIN c :
    /\ f[c[i]].pnext = IF i < Len(c) THEN c[i + 1] ELSE None
    /\ f[c[i]].plast = IF i > 1 THEN c[i - 1] ELSE None
Ends(b, e, c) ==
  /\ b = IF c = <<>> THEN None ELSE c[1]
  /\ e = IF c = <<>> THEN None ELSE c[Len(c)]

ListInv ==
  /\ NodesTyped
  /\ ~ outside => /\ listContent \in Seq(DOMAIN node)
                  /\ Distinct(listContent)
                  /\ Linked(node, listContent)
                  /\ Ends(pbegin, pend, listContent)

LEMMA NoneIsNoNode == None \notin Nodes
BY SequencesAssumption

Backward(c) == [i \in 1 .. Len(c) |-> c[Len(c) - i + 1]]

LEMMA ListHolds == ListInv => List!HoldsContent
<1> SUFFICES ASSUME ListInv, ~ outside
             PROVE  /\ List!Walk(pbegin, "pnext", listContent)
                    /\ List!Walk(pend, "plast", Backward(listContent))
  BY DEF List!HoldsContent, Backward
<1> DEFINE c == listContent
<1>1. /\ c \in Seq(DOMAIN node) /\ Linked(node, c) /\ Ends(pbegin, pend, c)
      /\ Len(c) \in Nat /\ DOMAIN c = 1 .. Len(c)
  BY DEF ListInv
<1>2. List!Walk(pbegin, "pnext", c)
  BY <1>1 DEF List!Walk, Linked, Ends
<1>3. List!Walk(pend, "plast", Backward(c))
  <2> DEFINE r == Backward(c)
  <2>1. /\ r \in Seq(DOMAIN node) /\ Len(r) = Len(c) /\ DOMAIN r = 1 .. Len(c)
        /\ \A i \in 1 .. Len(c) : r[i] = c[Len(c) - i + 1]
    BY <1>1 DEF Backward
  <2> HIDE DEF c, r
  <2>2. pend = IF r = <<>> THEN None ELSE r[1]
    BY <1>1, <2>1 DEF Ends
  <2>3. ASSUME NEW i \in 1 .. Len(c)
        PROVE  node[r[i]].plast = IF i < Len(r) THEN r[i + 1] ELSE None
    <3>1. PICK j \in 1 .. Len(c) : j = Len(c) - i + 1
      BY <1>1, SMTT(20)
    <3>2. node[c[j]].plast = IF j > 1 THEN c[j - 1] ELSE None
      BY <1>1 DEF Linked
    <3>3. i < Len(r) => r[i + 1] = c[j - 1]
      BY <1>1, <2>1, <3>1
    <3> QED
      BY <1>1, <2>1, <3>1, <3>2, <3>3
  <2> QED
    BY <2>1, <2>2, <2>3 DEF List!Walk, r
<1> QED
  BY <1>2, <1>3

LEMMA ListStarts == List!Init => ListInv
<1> SUFFICES ASSUME List!Init PROVE ListInv
  OBVIOUS
<1>1. pbegin = None /\ pend = None /\ node = <<>> /\ listContent = <<>>
  BY DEF List!Init
<1>2. DOMAIN node = {} /\ node \in [{} -> Links]
  BY <1>1
<1> QED
  BY <1>1, <1>2 DEF ListInv, NodesTyped, Distinct, Linked, Ends

(* What a new node n between l and x changes.                              *)
LinkedIn(n, l, x) ==
  /\ DOMAIN node' = DOMAIN node \cup {n} /\ node' \in [DOMAIN node' -> Links]
  /\ node'[n].plast = l /\ node'[n].pnext = x
  /\ \A m \in DOMAIN node : m # n =>
       /\ node'[m].pnext = IF m = l THEN n ELSE node[m].pnext
       /\ node'[m].plast = IF m = x THEN n ELSE node[m].plast

IsNew(f, n, l, x) ==
  /\ f \in [DOMAIN node \cup {n} -> Links]
  /\ f[n] = [plast |-> l, pnext |-> x]
  /\ \A m \in DOMAIN node : m # n => f[m] = node[m]

LEMMA AllocIs ==
  ASSUME NodesTyped, NEW n \in Nodes, NEW l \in Nodes \cup {None}, NEW x \in Nodes \cup {None}
  PROVE  IsNew(List!Alloc(n, l, x), n, l, x)
BY DEF NodesTyped, List!Alloc, Links, IsNew

WithNext(f, m, n) == [f EXCEPT ![m].pnext = n]
WithLast(f, m, n) == [f EXCEPT ![m].plast = n]

LEMMA Relinked ==
  ASSUME NEW D, NEW f \in [D -> Links], NEW m, NEW n \in Nodes
  PROVE  /\ WithNext(f, m, n) \in [D -> Links]
         /\ WithLast(f, m, n) \in [D -> Links]
         /\ \A d \in D :
              /\ WithNext(f, m, n)[d].pnext = IF d = m THEN n ELSE f[d].pnext
              /\ WithNext(f, m, n)[d].plast = f[d].plast
              /\ WithLast(f, m, n)[d].plast = IF d = m THEN n ELSE f[d].plast
              /\ WithLast(f, m, n)[d].pnext = f[d].pnext
<1> USE DEF WithNext, WithLast
<1>1. ASSUME NEW d \in D
      PROVE  /\ [f[d] EXCEPT !.pnext = n] \in Links /\ [f[d] EXCEPT !.plast = n] \in Links
             /\ [f[d] EXCEPT !.pnext = n].pnext = n /\ [f[d] EXCEPT !.pnext = n].plast = f[d].plast
             /\ [f[d] EXCEPT !.plast = n].plast = n /\ [f[d] EXCEPT !.plast = n].pnext = f[d].pnext
  <2>1. f[d] \in Links
    OBVIOUS
  <2> QED
    BY <2>1 DEF Links
<1>2. ASSUME NEW d \in D
      PROVE  /\ WithNext(f, m, n)[d] = IF d = m THEN [f[d] EXCEPT !.pnext = n] ELSE f[d]
             /\ WithLast(f, m, n)[d] = IF d = m THEN [f[d] EXCEPT !.plast = n] ELSE f[d]
  OBVIOUS
<1>3. WithNext(f, m, n) \in [D -> Links]
  BY <1>1, <1>2
<1>4. WithLast(f, m, n) \in [D -> Links]
  BY <1>1, <1>2
<1> QED
  BY <1>1, <1>2, <1>3, <1>4

LEMMA Inserted ==
  ASSUME NodesTyped, NEW n \in Nodes, n \notin DOMAIN node,
         NEW c \in Seq(DOMAIN node), Distinct(c), Linked(node, c),
         NEW j \in 1 .. Len(c) + 1,
         NEW l, l = IF j > 1 THEN c[j - 1] ELSE None,
         NEW x, x = IF j <= Len(c) THEN c[j] ELSE None,
         LinkedIn(n, l, x),
         NEW d, d \in Seq(DOMAIN node'), Len(d) = Len(c) + 1,
         \A i \in 1 .. Len(c) + 1 : d[i] = IF i < j THEN c[i] ELSE IF i = j THEN n ELSE c[i - 1]
  PROVE  Distinct(d) /\ Linked(node', d)
<1> DEFINE N == Len(c)
<1>1. /\ N \in Nat /\ DOMAIN c = 1 .. N /\ DOMAIN d = 1 .. N + 1 /\ Len(d) = N + 1
      /\ j \in 1 .. N + 1
      /\ \A i \in 1 .. N : c[i] \in DOMAIN node /\ c[i] # n /\ c[i] # None
  BY NoneIsNoNode DEF NodesTyped
<1>2. /\ \A i \in 1 .. N + 1 : i < j => d[i] = c[i]
      /\ d[j] = n
      /\ \A i \in 1 .. N + 1 : i > j => d[i] = c[i - 1]
  BY <1>1
<1>3. Distinct(d)
  <2> SUFFICES ASSUME NEW a \in 1 .. N + 1, NEW b \in 1 .. N + 1, d[a] = d[b], a # b
               PROVE  FALSE
    BY <1>1 DEF Distinct
  <2>1. a # j /\ b # j
    BY <1>1, <1>2
  <2>2. PICK s \in 1 .. N : d[a] = c[s] /\ s = IF a < j THEN a ELSE a - 1
    BY <1>1, <1>2, <2>1
  <2>3. PICK t \in 1 .. N : d[b] = c[t] /\ t = IF b < j THEN b ELSE b - 1
    BY <1>1, <1>2, <2>1
  <2>4. s = t
    BY <1>1, <2>2, <2>3 DEF Distinct
  <2> QED
    BY <1>1, <2>1, <2>2, <2>3, <2>4
<1>4. ASSUME NEW i \in 1 .. N
      PROVE  /\ c[i] = l <=> i = j - 1
             /\ c[i] = x <=> i = j
             /\ node'[c[i]].pnext = IF i = j - 1 THEN n ELSE IF i < N THEN c[i + 1] ELSE None
             /\ node'[c[i]].plast = IF i = j THEN n ELSE IF i > 1 THEN c[i - 1] ELSE None
  <2>1. c[i] = l <=> i = j - 1
    BY <1>1 DEF Distinct
  <2>2. c[i] = x <=> i = j
    BY <1>1, SMTT(20) DEF Distinct
  <2>3. /\ node[c[i]].pnext = IF i < N THEN c[i + 1] ELSE None
        /\ node[c[i]].plast = IF i > 1 THEN c[i - 1] ELSE None
    BY <1>1 DEF Linked
  <2>4. /\ node'[c[i]].pnext = IF c[i] = l THEN n ELSE node[c[i]].pnext
        /\ node'[c[i]].plast = IF c[i] = x THEN n ELSE node[c[i]].plast
    BY <1>1 DEF LinkedIn
  <2> QED
    BY <2>1, <2>2, <2>3, <2>4
<1>5. node'[n].plast = l /\ node'[n].pnext = x
  BY DEF LinkedIn
<1> SUFFICES ASSUME NEW i \in 1 .. N + 1
             PROVE  /\ node'[d[i]].pnext = IF i < N + 1 THEN d[i + 1] ELSE None
                    /\ node'[d[i]].plast = IF i > 1 THEN d[i - 1] ELSE None
  BY <1>1, <1>3 DEF Linked
<1>6. CASE i = j
  <2>1. i < N + 1 => x = d[i + 1]
    BY <1>1, <1>2, <1>6
  <2>2. i > 1 => l = d[i - 1]
    BY <1>1, <1>2, <1>6
  <2> QED
    BY <1>1, <1>2, <1>5, <1>6, <2>1, <2>2
<1>7. CASE i < j
  <2>1. i \in 1 .. N /\ d[i] = c[i]
    BY <1>1, <1>2, <1>7
  <2>2. i < N + 1 /\ d[i + 1] = IF i = j - 1 THEN n ELSE c[i + 1]
    BY <1>1, <1>2, <1>7
  <2>3. i > 1 => d[i - 1] = c[i - 1]
    BY <1>1, <1>2, <1>7
  <2>4. i # j - 1 => i < N
    BY <1>1, <1>7
  <2> QED
    BY <1>4, <1>7, <2>1, <2>2, <2>3, <2>4
<1>8. CASE i > j
  <2>1. PICK k \in 1 .. N : k = i - 1 /\ d[i] = c[k]
    BY <1>1, <1>2, <1>8
  <2>2. i < N + 1 => k < N /\ d[i + 1] = c[k + 1]
    BY <1>1, <1>2, <1>8, <2>1
  <2>3. i > 1 /\ d[i - 1] = IF k = j THEN n ELSE c[k - 1]
    BY <1>1, <1>2, <1>8, <2>1
  <2>4. k # j - 1 /\ (i < N + 1 <=> k < N) /\ (k # j => k > 1)
    BY <1>1, <1>8, <2>1
  <2> QED
    BY <1>4, <2>1, <2>2, <2>3, <2>4
<1> QED
  BY <1>1, <1>6, <1>7, <1>8

LEMMA BackLinks ==
  ASSUME NodesTyped, NEW n \in Nodes, List!add_back(n)
  PROVE  NodesTyped' /\ n \notin DOMAIN node /\ (pend # n => LinkedIn(n, pend, None))
<1> DEFINE new == List!Alloc(n, pend, None)
<1>0. None \in Nodes \cup {None} /\ pend \in Nodes \cup {None}
  BY DEF NodesTyped
<1>1. /\ new \in [DOMAIN node \cup {n} -> Links] /\ new[n] = [plast |-> pend, pnext |-> None]
      /\ \A m \in DOMAIN node : m # n => new[m] = node[m]
  <2>1. IsNew(new, n, pend, None)
    BY <1>0, AllocIs
  <2> HIDE DEF new
  <2> QED
    BY <2>1 DEF IsNew
<1>2. /\ n \notin DOMAIN node /\ node' = IF pend = None THEN new ELSE WithNext(new, pend, n)
      /\ pbegin' = (IF pend = None THEN n ELSE pbegin) /\ pend' = n
  BY DEF List!add_back, List!Free, WithNext
<1> HIDE DEF new
<1>3. CASE pend = None
  BY <1>1, <1>2, <1>3, NoneIsNoNode DEF NodesTyped, LinkedIn
<1>4. CASE pend # None
  <2>1. /\ node' \in [DOMAIN node \cup {n} -> Links]
        /\ \A m \in DOMAIN node \cup {n} : /\ node'[m].pnext = IF m = pend THEN n ELSE new[m].pnext
                                         /\ node'[m].plast = new[m].plast
    BY <1>1, <1>2, <1>4, Relinked
  <2>2. DOMAIN node' = DOMAIN node \cup {n}
    BY <2>1
  <2> QED
    BY <1>1, <1>2, <1>4, <2>1, <2>2, NoneIsNoNode DEF NodesTyped, LinkedIn
<1> QED
  BY <1>3, <1>4

LEMMA FrontLinks ==
  ASSUME NodesTyped, NEW n \in Nodes, List!add_front(n)
  PROVE  NodesTyped' /\ n \notin DOMAIN node /\ (pbegin # n => LinkedIn(n, None, pbegin))
<1> DEFINE new == List!Alloc(n, None, pbegin)
<1>0. None \in Nodes \cup {None} /\ pbegin \in Nodes \cup {None}
  BY DEF NodesTyped
<1>1. /\ new \in [DOMAIN node \cup {n} -> Links] /\ new[n] = [plast |-> None, pnext |-> pbegin]
      /\ \A m \in DOMAIN node : m # n => new[m] = node[m]
  <2>1. IsNew(new, n, None, pbegin)
    BY <1>0, AllocIs
  <2> HIDE DEF new
  <2> QED
    BY <2>1 DEF IsNew
<1>2. /\ n \notin DOMAIN node /\ node' = IF pbegin = None THEN new ELSE WithLast(new, pbegin, n)
      /\ pend' = (IF pbegin = None THEN n ELSE pend) /\ pbegin' = n
  BY DEF List!add_front, List!Free, WithLast
<1> HIDE DEF new
<1>3. CASE pbegin = None
  BY <1>1, <1>2, <1>3, NoneIsNoNode DEF NodesTyped, LinkedIn
<1>4. CASE pbegin # None
  <2>1. /\ node' \in [DOMAIN node \cup {n} -> Links]
        /\ \A m \in DOMAIN node \cup {n} : /\ node'[m].plast = IF m = pbegin THEN n ELSE new[m].plast
                                         /\ node'[m].pnext = new[m].pnext
    BY <1>1, <1>2, <1>4, Relinked
  <2>2. DOMAIN node' = DOMAIN node \cup {n}
    BY <2>1
  <2> QED
    BY <1>1, <1>2, <1>4, <2>1, <2>2, NoneIsNoNode DEF NodesTyped, LinkedIn
<1> QED
  BY <1>3, <1>4

LEMMA BetweenLinks ==
  ASSUME NodesTyped, NEW n \in Nodes, n \notin DOMAIN node,
         NEW l \in Nodes \cup {None}, NEW x \in Nodes \cup {None},
         node' = List!Between(n, l, x), UNCHANGED <<pbegin, pend>>
  PROVE  NodesTyped' /\ (l # n /\ x # n => LinkedIn(n, l, x))
<1> DEFINE new == List!Alloc(n, l, x)
           from == IF l = None THEN new ELSE WithNext(new, l, n)
           D == DOMAIN node \cup {n}
<1>1. /\ new \in [D -> Links] /\ new[n] = [plast |-> l, pnext |-> x]
      /\ \A m \in DOMAIN node : m # n => new[m] = node[m]
  <2>1. IsNew(new, n, l, x)
    BY AllocIs
  <2> HIDE DEF new
  <2> QED
    BY <2>1 DEF IsNew
<1>2. node' = IF x = None THEN from ELSE WithLast(from, x, n)
  BY DEF List!Between, WithNext, WithLast
<1> HIDE DEF new
<1>3. /\ from \in [D -> Links]
      /\ \A m \in D : /\ from[m].pnext = IF l # None /\ m = l THEN n ELSE new[m].pnext
                      /\ from[m].plast = new[m].plast
  <2>1. CASE l = None
    BY <1>1, <2>1
  <2>2. CASE l # None
    BY <1>1, <2>2, Relinked
  <2> QED
    BY <2>1, <2>2
<1> HIDE DEF from
<1>4. /\ node' \in [D -> Links]
      /\ \A m \in D : /\ node'[m].plast = IF x # None /\ m = x THEN n ELSE from[m].plast
                      /\ node'[m].pnext = from[m].pnext
  <2>1. CASE x = None
    BY <1>2, <1>3, <2>1
  <2>2. CASE x # None
    BY <1>2, <1>3, <2>2, Relinked
  <2> QED
    BY <2>1, <2>2
<1>5. DOMAIN node' = D
  BY <1>4
<1> QED
  BY <1>1, <1>3, <1>4, <1>5, NoneIsNoNode DEF NodesTyped, LinkedIn

LEMMA ListAdds ==
  ASSUME ListInv, NEW n \in Nodes, List!add_back(n) \/ List!add_front(n)
  PROVE  ListInv'
<1> DEFINE c == listContent
           N == Len(c)
<1>1. NodesTyped /\ NodesTyped' /\ n \notin DOMAIN node /\ outside' = outside
  BY BackLinks, FrontLinks DEF ListInv, List!add_back, List!add_front
<1> SUFFICES ASSUME ~ outside
             PROVE  /\ c' \in Seq(DOMAIN node') /\ Distinct(c') /\ Linked(node', c') /\ Ends(pbegin', pend', c')
  BY <1>1 DEF ListInv
<1>2. /\ c \in Seq(DOMAIN node) /\ Distinct(c) /\ Linked(node, c) /\ Ends(pbegin, pend, c)
      /\ N \in Nat /\ DOMAIN c = 1 .. N
      /\ \A i \in 1 .. N : c[i] \in DOMAIN node /\ c[i] # n /\ c[i] # None
      /\ c = <<>> <=> N = 0
  BY <1>1, NoneIsNoNode DEF ListInv, NodesTyped
<1>3. n # None /\ pbegin # n /\ pend # n
  BY <1>2, NoneIsNoNode DEF Ends
<1>4. CASE List!add_back(n)
  <2>1. LinkedIn(n, pend, None)
    BY <1>1, <1>3, <1>4, BackLinks
  <2>2. c' = Append(c, n) /\ pend' = n /\ pbegin' = IF pend = None THEN n ELSE pbegin
    BY <1>4 DEF List!add_back
  <2> HIDE DEF c
  <2>3. DOMAIN node' = DOMAIN node \cup {n}
    BY <2>1 DEF LinkedIn
  <2>4. /\ c' \in Seq(DOMAIN node') /\ Len(c') = N + 1
        /\ \A i \in 1 .. N : c'[i] = c[i] /\ c'[N + 1] = n
    BY <1>2, <2>2, <2>3
  <2>5. c'[N + 1] = n
    BY <1>2, <2>2
  <2>6. /\ N + 1 \in 1 .. N + 1
        /\ pend = IF N + 1 > 1 THEN c[(N + 1) - 1] ELSE None
        /\ None = IF N + 1 <= N THEN c[N + 1] ELSE None
        /\ \A i \in 1 .. N + 1 : c'[i] = IF i < N + 1 THEN c[i] ELSE IF i = N + 1 THEN n ELSE c[i - 1]
    BY <1>2, <2>4, <2>5 DEF Ends
  <2>7. Distinct(c') /\ Linked(node', c')
    BY <1>1, <1>2, <2>1, <2>4, <2>6, Inserted
  <2>8. Ends(pbegin', pend', c')
    BY <1>2, <1>3, <2>2, <2>4, <2>5 DEF Ends
  <2> QED
    BY <2>4, <2>7, <2>8 DEF c
<1>5. CASE List!add_front(n)
  <2>1. LinkedIn(n, None, pbegin)
    BY <1>1, <1>3, <1>5, FrontLinks
  <2>2. c' = <<n>> \o c /\ pbegin' = n /\ pend' = IF pbegin = None THEN n ELSE pend
    BY <1>5 DEF List!add_front
  <2> HIDE DEF c
  <2>3. DOMAIN node' = DOMAIN node \cup {n}
    BY <2>1 DEF LinkedIn
  <2>4. /\ c' \in Seq(DOMAIN node') /\ Len(c') = N + 1
        /\ \A i \in 2 .. N + 1 : c'[i] = c[i - 1]
    <3>1. <<n>> \in Seq(DOMAIN node') /\ c \in Seq(DOMAIN node')
      BY <1>2, <2>3
    <3> QED
      BY <1>2, <2>2, <3>1
  <2>5. c'[1] = n
    BY <1>2, <2>2
  <2>6. /\ 1 \in 1 .. N + 1
        /\ None = IF 1 > 1 THEN c[1 - 1] ELSE None
        /\ pbegin = IF 1 <= N THEN c[1] ELSE None
        /\ \A i \in 1 .. N + 1 : c'[i] = IF i < 1 THEN c[i] ELSE IF i = 1 THEN n ELSE c[i - 1]
    BY <1>2, <2>4, <2>5 DEF Ends
  <2>7. Distinct(c') /\ Linked(node', c')
    BY <1>1, <1>2, <2>1, <2>4, <2>6, Inserted, SMTT(20)
  <2>8. Ends(pbegin', pend', c')
    BY <1>2, <1>3, <2>2, <2>4, <2>5 DEF Ends
  <2> QED
    BY <2>4, <2>7, <2>8 DEF c
<1> QED
  BY <1>4, <1>5

\* c with n in the place j
Placed(c, j, n) == SubSeq(c, 1, j - 1) \o <<n>> \o SubSeq(c, j, Len(c))

LEMMA ListInserts ==
  ASSUME ListInv, NEW n \in Nodes, NEW k \in DOMAIN listContent,
         List!insert_before(k, n) \/ List!insert_after(k, n)
  PROVE  ListInv'
<1> DEFINE c == listContent
           N == Len(c)
<1>1. /\ NodesTyped /\ n \notin DOMAIN node /\ n # None
      /\ c \in Seq(DOMAIN node) /\ Distinct(c) /\ Linked(node, c) /\ Ends(pbegin, pend, c)
      /\ N \in Nat /\ DOMAIN c = 1 .. N /\ UNCHANGED <<pbegin, pend>>
      /\ \A i \in 1 .. N : c[i] \in DOMAIN node /\ c[i] \in Nodes /\ c[i] # n /\ c[i] # None
  BY NoneIsNoNode DEF ListInv, NodesTyped, List!insert_before, List!insert_after, List!Free
<1>2. ASSUME NEW j \in 2 .. N, node' = List!Between(n, c[j - 1], c[j]), c' = Placed(c, j, n)
      PROVE  ListInv'
  <2> HIDE DEF c
  <2>1. c[j - 1] \in Nodes /\ c[j] \in Nodes /\ c[j - 1] # n /\ c[j] # n /\ j \in 1 .. N + 1
    BY <1>1
  <2>2. NodesTyped' /\ LinkedIn(n, c[j - 1], c[j])
    BY <1>1, <1>2, <2>1, BetweenLinks
  <2>3. DOMAIN node' = DOMAIN node \cup {n}
    BY <2>2 DEF LinkedIn
  <2>4. /\ c' \in Seq(DOMAIN node') /\ Len(c') = N + 1
        /\ \A i \in 1 .. N + 1 : c'[i] = IF i < j THEN c[i] ELSE IF i = j THEN n ELSE c[i - 1]
    <3> DEFINE a == SubSeq(c, 1, j - 1)
               b == SubSeq(c, j, N)
    <3>1. /\ a \in Seq(DOMAIN node') /\ Len(a) = j - 1 /\ \A i \in 1 .. j - 1 : a[i] = c[i]
      BY <1>1, <2>1, <2>3
    <3>2. /\ b \in Seq(DOMAIN node') /\ Len(b) = N - j + 1
          /\ \A i \in 1 .. N - j + 1 : b[i] = c[j + i - 1]
      BY <1>1, <2>1, <2>3
    <3>3. c' = a \o <<n>> \o b /\ <<n>> \in Seq(DOMAIN node') /\ Len(<<n>>) = 1 /\ <<n>>[1] = n
      BY <1>2, <2>3 DEF Placed
    <3> HIDE DEF a, b
    <3> DEFINE e == a \o <<n>>
    <3>4. e \in Seq(DOMAIN node') /\ Len(e) = j /\ e[j] = n /\ \A i \in 1 .. j - 1 : e[i] = c[i]
      BY <1>1, <2>1, <3>1, <3>3
    <3>5. c' = e \o b
      BY <3>3
    <3> HIDE DEF e
    <3>6. c' \in Seq(DOMAIN node') /\ Len(c') = N + 1
      <4>1. e \o b \in Seq(DOMAIN node') /\ Len(e \o b) = Len(e) + Len(b)
        BY ConcatProperties, <3>2, <3>4
      <4> QED
        BY <1>1, <2>1, <3>2, <3>4, <3>5, <4>1
    <3>7. ASSUME NEW i \in 1 .. N + 1
          PROVE  c'[i] = IF i < j THEN c[i] ELSE IF i = j THEN n ELSE c[i - 1]
      <4>1. CASE i <= j
        <5>1. c'[i] = e[i]
          BY <1>1, <2>1, <3>2, <3>4, <3>5, <4>1
        <5> QED
          BY <3>4, <4>1, <5>1
      <4>2. CASE i > j
        <5>1. c'[i] = b[i - j]
          BY <1>1, <2>1, <3>2, <3>4, <3>5, <4>2
        <5>2. b[i - j] = c[i - 1]
          <6>1. PICK h \in 1 .. N - j + 1 : h = i - j
            BY <1>1, <2>1, <4>2
          <6>2. b[h] = c[j + h - 1] /\ j + h - 1 = i - 1
            BY <1>1, <2>1, <3>2, <6>1
          <6> QED
            BY <6>1, <6>2
        <5> QED
          BY <4>2, <5>1, <5>2
      <4> QED
        BY <1>1, <2>1, <4>1, <4>2
    <3> QED
      BY <3>6, <3>7
  <2>5. Distinct(c') /\ Linked(node', c')
    <3>1. /\ c[j - 1] = (IF j > 1 THEN c[j - 1] ELSE None)
          /\ c[j] = IF j <= N THEN c[j] ELSE None
      BY <1>1
    <3> QED
      BY <1>1, <2>1, <2>2, <2>4, <3>1, Inserted, ZenonT(30)
  <2>6. Ends(pbegin', pend', c')
    BY <1>1, <2>1, <2>4 DEF Ends
  <2> QED
    BY <2>2, <2>4, <2>5, <2>6 DEF ListInv, c
<1>3. \A i \in 1 .. N : /\ node[c[i]].pnext = (IF i < N THEN c[i + 1] ELSE None)
                        /\ node[c[i]].plast = IF i > 1 THEN c[i - 1] ELSE None
  BY <1>1 DEF Linked
<1>6. c # <<>> /\ N >= 1 /\ k \in 1 .. N
  BY <1>1
<1>4. CASE List!insert_before(k, n)
  <2>1. CASE k = 1
    <3>1. outside'
      BY <1>1, <1>4, <1>6, <2>1 DEF List!insert_before, Ends
    <3>2. node' = List!Between(n, None, c[1]) /\ c[1] \in Nodes /\ None \in Nodes \cup {None}
      BY <1>1, <1>3, <1>4, <2>1 DEF List!insert_before
    <3>3. NodesTyped'
      <4> HIDE DEF c
      <4> QED
        BY <1>1, <3>2, BetweenLinks
    <3> QED
      BY <3>1, <3>3 DEF ListInv
  <2>2. CASE k # 1
    <3>1. k \in 2 .. N
      BY <1>1, <2>2
    <3>2. node' = List!Between(n, c[k - 1], c[k]) /\ c' = Placed(c, k, n)
      <4>1. c' = Placed(c, k, n) /\ node' = List!Between(n, node[c[k]].plast, c[k])
        BY <1>4 DEF List!insert_before, Placed
      <4>2. node[c[k]].plast = c[k - 1]
        BY <1>3, <3>1
      <4> QED
        BY <4>1, <4>2
    <3> QED
      BY <1>2, <3>1, <3>2
  <2> QED
    BY <2>1, <2>2
<1>5. CASE List!insert_after(k, n)
  <2>1. CASE k = N
    <3>1. outside'
      BY <1>1, <1>5, <1>6, <2>1 DEF List!insert_after, Ends
    <3>2. node' = List!Between(n, c[k], None) /\ c[k] \in Nodes /\ None \in Nodes \cup {None}
      BY <1>1, <1>3, <1>5, <2>1 DEF List!insert_after
    <3>3. NodesTyped'
      <4> HIDE DEF c
      <4> QED
        BY <1>1, <3>2, BetweenLinks
    <3> QED
      BY <3>1, <3>3 DEF ListInv
  <2>2. CASE k # N
    <3>1. k + 1 \in 2 .. N /\ (k + 1) - 1 = k
      BY <1>1, <2>2
    <3>2. node' = List!Between(n, c[(k + 1) - 1], c[k + 1]) /\ c' = Placed(c, k + 1, n)
      <4>1. node' = List!Between(n, c[k], c[k + 1])
        BY <1>1, <1>3, <1>5, <3>1 DEF List!insert_after
      <4> QED
        BY <1>5, <3>1, <4>1 DEF List!insert_after, Placed
    <3> QED
      BY <1>2, <3>1, <3>2
  <2> QED
    BY <2>1, <2>2
<1> QED
  BY <1>4, <1>5

LEMMA ListKeeps ==
  ASSUME ListInv, [List!Next]_listVars
  PROVE  ListInv'
<1>1. CASE UNCHANGED listVars
  BY <1>1 DEF listVars, ListInv, NodesTyped
<1>2. CASE List!list_free
  <2>1. /\ node' = [n \in DOMAIN node \ List!Met |-> node[n]] /\ pbegin' = None /\ pend' = None
        /\ listContent' = <<>> /\ outside' = FALSE
    BY <1>2 DEF List!list_free
  <2>2. NodesTyped'
    BY <2>1 DEF ListInv, NodesTyped
  <2>3. /\ listContent' \in Seq(DOMAIN node') /\ Distinct(listContent') /\ Linked(node', listContent')
        /\ Ends(pbegin', pend', listContent')
    BY <2>1 DEF Distinct, Linked, Ends
  <2> QED
    BY <2>2, <2>3 DEF ListInv
<1>3. ASSUME NEW n \in Nodes, NEW k \in DOMAIN listContent, List!insert_before(k, n) \/ List!insert_after(k, n)
      PROVE  ListInv'
  BY <1>3, ListInserts
<1>4. ASSUME NEW n \in Nodes, List!add_back(n) \/ List!add_front(n)
      PROVE  ListInv'
  BY <1>4, ListAdds
<1> QED
  BY <1>1, <1>2, <1>3, <1>4 DEF List!Next
-----------------------------------------------------------------------------
(***************************************************************************)
(* The arrays.  One that is not Lost has no elements, or memory for them,  *)
(* which may be less than its capacity after a growth that failed.         *)
(***************************************************************************)

Most == MaxElems + Reserve
Memories(k) == [0 .. k - 1 -> Elements]

\* x has memory of k places at q, no more than its capacity, and n elements
HasPlaces(x, k, n, q) ==
  /\ x = [capacity |-> x.capacity, size |-> n, pdata |-> q]
  /\ x.capacity \in 0 .. Most /\ k \in 1 .. Most /\ k <= x.capacity /\ q \in Memories(k)

\* which are c
Kept(x, k, p, c) ==
  HasPlaces(x, k, Len(c), p) /\ Len(c) <= k /\ \A i \in 1 .. Len(c) : c[i] \in {Junk, p[i - 1]}

Good(x, c) ==
  /\ x = [capacity |-> x.capacity, size |-> Len(c), pdata |-> x.pdata]
  /\ x.capacity \in 0 .. Most /\ c \in Seq(Elements)
  /\ x.pdata = None => Len(c) = 0
  /\ x.pdata # None => \E k : Kept(x, k, x.pdata, c)

ArraysInv ==
  /\ arrays = [a \in ArrayNames |-> arrays[a]] /\ arrayContent = [a \in ArrayNames |-> arrayContent[a]]
  /\ \A a \in ArrayNames : Arrays!Sound(a) => Good(arrays[a], arrayContent[a])

LEMMA NoneIsNoMemory ==
  /\ Most \in Nat /\ MaxElems \in Nat /\ Reserve \in Nat /\ Reserve > 0 /\ MaxElems < Most
  /\ \A k \in 1 .. Most : None \notin Memories(k)
<1>1. MaxElems \in Nat /\ Reserve \in Nat \ {0} /\ RingSize \in Nat
  BY SequencesAssumption
<1>2. Most \in Nat /\ MaxElems < Most /\ \A k \in 1 .. Most : k \in 1 .. RingSize + MaxElems + Reserve
  BY <1>1 DEF Most
<1>3. ASSUME NEW k \in 1 .. Most
      PROVE  None \notin Memories(k)
  <2>1. k \in 1 .. RingSize + MaxElems + Reserve
    BY <1>2
  <2> QED
    BY <2>1, SequencesAssumption DEF Memories, Elements
<1> QED
  BY <1>1, <1>2, <1>3

LEMMA AllocatedIs ==
  ASSUME NEW k \in 1 .. Most, NEW x, x.pdata \in Memories(k)
  PROVE  Arrays!Allocated(x) = k
<1>1. x.pdata # None /\ DOMAIN x.pdata = 0 .. k - 1 /\ k \in Nat
  <2>1. k \in Nat /\ None \notin Memories(k)
    BY NoneIsNoMemory
  <2>2. DOMAIN x.pdata = 0 .. k - 1
    BY DEF Memories
  <2> QED
    BY <2>1, <2>2
<1>2. Cardinality(0 .. k - 1) = k
  <2>1. 0 \in Int /\ k - 1 \in Int /\ (k - 1) - 0 + 1 = k /\ ~(0 > k - 1)
    BY <1>1
  <2>2. Cardinality(0 .. k - 1) = IF 0 > k - 1 THEN 0 ELSE (k - 1) - 0 + 1
    BY <2>1, FS_Interval
  <2> QED
    BY <2>1, <2>2
<1>3. Cardinality(DOMAIN x.pdata) = k
  BY <1>1, <1>2
<1>4. Arrays!Allocated(x) = Cardinality(DOMAIN x.pdata)
  BY <1>1 DEF Arrays!Allocated, Arrays!Cardinality, Cardinality
<1> QED
  BY <1>3, <1>4

LEMMA ArraysHold == ArraysInv => Arrays!HoldsContent
<1> SUFFICES ASSUME ArraysInv, NEW a \in ArrayNames, Arrays!Sound(a)
             PROVE  /\ arrays[a].size = Len(arrayContent[a])
                    /\ arrays[a].size <= Arrays!Allocated(arrays[a])
                    /\ Arrays!Allocated(arrays[a]) <= arrays[a].capacity
                    /\ \A i \in DOMAIN arrayContent[a] : arrayContent[a][i] \in {Junk, arrays[a].pdata[i - 1]}
  BY DEF Arrays!HoldsContent
<1> DEFINE x == arrays[a]
           c == arrayContent[a]
<1>1. Good(x, c)
  BY DEF ArraysInv
<1> HIDE DEF x, c
<1>2. x.size = Len(c) /\ x.capacity \in 0 .. Most /\ c \in Seq(Elements) /\ DOMAIN c = 1 .. Len(c)
  <2>1. x.size = Len(c) /\ x.capacity \in 0 .. Most /\ c \in Seq(Elements)
    BY <1>1 DEF Good
  <2> QED
    BY <2>1
<1>3. CASE x.pdata = None
  <2>1. Arrays!Allocated(x) = 0 /\ Len(c) = 0
    BY <1>1, <1>3 DEF Good, Arrays!Allocated
  <2> QED
    BY <1>2, <2>1 DEF x, c
<1>4. CASE x.pdata # None
  <2>1. PICK k : Kept(x, k, x.pdata, c)
    BY <1>1, <1>4 DEF Good
  <2>2. Arrays!Allocated(x) = k
    BY <2>1, AllocatedIs DEF Kept, HasPlaces
  <2> QED
    BY <1>2, <2>1, <2>2 DEF Kept, HasPlaces, x, c
<1> QED
  BY <1>3, <1>4

(* An array without memory, and one with.                                  *)
LEMMA EmptyIsGood ==
  ASSUME NEW x, NEW k \in 0 .. Most, x = [capacity |-> k, size |-> 0, pdata |-> None]
  PROVE  Good(x, <<>>)
<1>1. x.capacity = k /\ x.pdata = None /\ Len(<<>>) = 0 /\ <<>> \in Seq(Elements)
  OBVIOUS
<1> QED
  BY <1>1 DEF Good

LEMMA KeptIsGood ==
  ASSUME NEW x, NEW k, NEW p, NEW c \in Seq(Elements), Kept(x, k, p, c)
  PROVE  Good(x, c)
<1>1. /\ x = [capacity |-> x.capacity, size |-> Len(c), pdata |-> p]
      /\ x.capacity \in 0 .. Most /\ k \in 1 .. Most /\ p \in Memories(k)
  BY DEF Kept, HasPlaces
<1>2. x.pdata = p /\ p # None
  BY <1>1, NoneIsNoMemory
<1> QED
  BY <1>1, <1>2 DEF Good

LEMMA ResetIsGood == Good(Arrays!Reset, <<>>) /\ Good([Arrays!Reset EXCEPT !.capacity = 1], <<>>)
<1>1. 0 \in 0 .. Most /\ 1 \in 0 .. Most
  BY NoneIsNoMemory
<1>2. Good(Arrays!Reset, <<>>)
  BY <1>1, EmptyIsGood DEF Arrays!Reset
<1>3. [Arrays!Reset EXCEPT !.capacity = 1] = [capacity |-> 1, size |-> 0, pdata |-> None]
  BY DEF Arrays!Reset
<1> QED
  BY <1>1, <1>2, <1>3, EmptyIsGood

LEMMA ArraysStart == Arrays!Init => ArraysInv
<1> SUFFICES ASSUME Arrays!Init PROVE ArraysInv
  OBVIOUS
<1>1. /\ arrays \in [ArrayNames -> {[Arrays!Reset EXCEPT !.capacity = 1]}]
      /\ arrayContent = [a \in ArrayNames |-> <<>>]
  BY DEF Arrays!Init
<1>2. ASSUME NEW a \in ArrayNames
      PROVE  arrays[a] = [Arrays!Reset EXCEPT !.capacity = 1] /\ arrayContent[a] = <<>>
  BY <1>1
<1>3. arrays = [a \in ArrayNames |-> arrays[a]] /\ arrayContent = [a \in ArrayNames |-> arrayContent[a]]
  BY <1>1
<1> QED
  BY <1>2, <1>3, ResetIsGood DEF ArraysInv

(* A change of the size, and of the memory.                                *)
LEMMA SizedPlaces ==
  ASSUME NEW x, NEW k, NEW m, NEW q, HasPlaces(x, k, m, q), NEW n
  PROVE  HasPlaces([x EXCEPT !.size = n], k, n, q)
<1> DEFINE K == x.capacity
           y == [x EXCEPT !.size = n]
<1>1. x = [capacity |-> K, size |-> m, pdata |-> q]
  BY DEF HasPlaces
<1>2. K \in 0 .. Most /\ k \in 1 .. Most /\ k <= K /\ q \in Memories(k)
  BY DEF HasPlaces
<1> HIDE DEF K
<1>3. y = [capacity |-> K, size |-> n, pdata |-> q]
  BY <1>1
<1> HIDE DEF y
<1>4. y.capacity = K
  BY <1>3
<1>5. HasPlaces(y, k, n, q)
  BY <1>2, <1>3, <1>4 DEF HasPlaces
<1> QED
  BY <1>5 DEF y

LEMMA DataPlaces ==
  ASSUME NEW x, NEW k, NEW n, NEW q, HasPlaces(x, k, n, q), NEW r \in Memories(k)
  PROVE  HasPlaces([x EXCEPT !.pdata = r], k, n, r)
<1> DEFINE K == x.capacity
           y == [x EXCEPT !.pdata = r]
<1>1. x = [capacity |-> K, size |-> n, pdata |-> q]
  BY DEF HasPlaces
<1>2. K \in 0 .. Most /\ k \in 1 .. Most /\ k <= K
  BY DEF HasPlaces
<1> HIDE DEF K
<1>3. y = [capacity |-> K, size |-> n, pdata |-> r]
  BY <1>1
<1> HIDE DEF y
<1>4. y.capacity = K
  BY <1>3
<1>5. HasPlaces(y, k, n, r)
  BY <1>2, <1>3, <1>4 DEF HasPlaces
<1> QED
  BY <1>5 DEF y

(* What lies beyond the size does not matter.                              *)
LEMMA TrimmedIsGood ==
  ASSUME NEW x, NEW c, Good(x, c)
  PROVE  Good(Arrays!Trimmed(x), c)
<1>1. CASE x.pdata = None
  BY <1>1 DEF Arrays!Trimmed
<1>2. CASE x.pdata # None
  <2> DEFINE n == x.size
             p == x.pdata
             q == [i \in DOMAIN p |-> IF i < n THEN p[i] ELSE Junk]
  <2>1. PICK k : Kept(x, k, p, c)
    BY <1>2 DEF Good
  <2>2. Arrays!Trimmed(x) = [x EXCEPT !.pdata = q]
    BY <1>2 DEF Arrays!Trimmed
  <2>3. /\ c \in Seq(Elements) /\ n = Len(c) /\ n <= k /\ k \in 1 .. Most /\ p \in Memories(k)
        /\ HasPlaces(x, k, n, p) /\ \A i \in 1 .. Len(c) : c[i] \in {Junk, p[i - 1]}
    <3>1. c \in Seq(Elements) /\ n = Len(c)
      BY DEF Good
    <3>2. HasPlaces(x, k, Len(c), p) /\ Len(c) <= k /\ \A i \in 1 .. Len(c) : c[i] \in {Junk, p[i - 1]}
      BY <2>1 DEF Kept
    <3>3. k \in 1 .. Most /\ p \in Memories(k)
      BY <3>2 DEF HasPlaces
    <3> QED
      BY <3>1, <3>2, <3>3
  <2> HIDE DEF n, p
  <2>4. DOMAIN p = 0 .. k - 1 /\ q \in Memories(k)
    BY <2>3 DEF Memories, Elements
  <2>5. \A i \in 1 .. Len(c) : c[i] \in {Junk, q[i - 1]}
    BY <2>3, <2>4, NoneIsNoMemory
  <2> HIDE DEF q
  <2>6. HasPlaces(Arrays!Trimmed(x), k, n, q)
    BY <2>2, <2>3, <2>4, DataPlaces
  <2>7. Kept(Arrays!Trimmed(x), k, q, c)
    BY <2>3, <2>5, <2>6 DEF Kept
  <2> QED
    BY <2>3, <2>7, KeptIsGood
<1> QED
  BY <1>1, <1>2

LEMMA BecomesGood ==
  ASSUME ArraysInv, NEW a \in ArrayNames, NEW x, NEW c, Arrays!Becomes(a, x, c), c = Lost \/ Good(x, c)
  PROVE  ArraysInv'
<1> DEFINE y == Arrays!Trimmed(x)
<1>1. c = Lost \/ Good(y, c)
  BY TrimmedIsGood
<1>2. arrays' = [arrays EXCEPT ![a] = y] /\ arrayContent' = [arrayContent EXCEPT ![a] = c]
  BY DEF Arrays!Becomes
<1> HIDE DEF y
<1>3. /\ arrays' = [b \in ArrayNames |-> IF b = a THEN y ELSE arrays[b]]
      /\ arrayContent' = [b \in ArrayNames |-> IF b = a THEN c ELSE arrayContent[b]]
  BY <1>2 DEF ArraysInv
<1>4. ASSUME NEW b \in ArrayNames, Arrays!Sound(b)'
      PROVE  Good(arrays[b], arrayContent[b])'
  <2>1. CASE b = a
    <3>1. arrays'[b] = y /\ arrayContent'[b] = c
      BY <1>3, <2>1
    <3>2. Good(y, c)
      BY <1>1, <1>4, <3>1 DEF Arrays!Sound
    <3> QED
      BY <3>1, <3>2
  <2>2. CASE b # a
    <3>1. arrays'[b] = arrays[b] /\ arrayContent'[b] = arrayContent[b]
      BY <1>3, <2>2
    <3>2. Good(arrays[b], arrayContent[b])
      BY <1>4, <3>1 DEF ArraysInv, Arrays!Sound
    <3> QED
      BY <3>1, <3>2
  <2> QED
    BY <2>1, <2>2
<1>5. /\ arrays' = [b \in ArrayNames |-> arrays'[b]]
      /\ arrayContent' = [b \in ArrayNames |-> arrayContent'[b]]
  BY <1>3
<1> QED
  BY <1>4, <1>5 DEF ArraysInv

(* The forms in which the actions use it.                                  *)
LEMMA BecomesEmpty ==
  ASSUME ArraysInv, NEW a \in ArrayNames, NEW x, NEW k \in 0 .. Most,
         x = [capacity |-> k, size |-> 0, pdata |-> None], Arrays!Becomes(a, x, <<>>)
  PROVE  ArraysInv'
BY EmptyIsGood, BecomesGood

LEMMA BecomesKept ==
  ASSUME ArraysInv, NEW a \in ArrayNames, NEW x, NEW c \in Seq(Elements), Arrays!Becomes(a, x, c),
         NEW k, NEW p, Kept(x, k, p, c)
  PROVE  ArraysInv'
BY KeptIsGood, BecomesGood

\* with the size changed last,
LEMMA BecomesHeld ==
  ASSUME ArraysInv, NEW a \in ArrayNames, NEW x, NEW k, NEW m, NEW q, HasPlaces(x, k, m, q),
         NEW c \in Seq(Elements), Len(c) <= k,
         \A i \in 1 .. Len(c) : c[i] \in {Junk, q[i - 1]},
         Arrays!Becomes(a, [x EXCEPT !.size = Len(c)], c)
  PROVE  ArraysInv'
<1> DEFINE y == [x EXCEPT !.size = Len(c)]
<1>1. HasPlaces(y, k, Len(c), q)
  BY SizedPlaces
<1> HIDE DEF y
<1>2. Kept(y, k, q, c)
  BY <1>1 DEF Kept
<1>3. Arrays!Becomes(a, y, c)
  BY DEF y
<1> QED
  BY <1>2, <1>3, BecomesKept

\* and one that reaches for n elements of y.
LEMMA WithinIs ==
  ASSUME NEW y, NEW k, NEW m, NEW q, HasPlaces(y, k, m, q), NEW n, NEW c
  PROVE  Arrays!Within(y, n, c) = IF n <= k THEN c ELSE Lost
<1>1. k \in 1 .. Most /\ y.pdata \in Memories(k)
  <2> DEFINE K == y.capacity
  <2>1. y = [capacity |-> K, size |-> m, pdata |-> q] /\ k \in 1 .. Most /\ q \in Memories(k)
    BY DEF HasPlaces
  <2> HIDE DEF K
  <2> QED
    BY <2>1
<1>2. Arrays!Allocated(y) = k
  BY <1>1, AllocatedIs
<1> QED
  BY <1>2 DEF Arrays!Within

LEMMA BecomesWithin ==
  ASSUME ArraysInv, NEW a \in ArrayNames, NEW x, NEW c, NEW n,
         NEW y, NEW k, NEW l, NEW p, HasPlaces(y, k, l, p),
         Arrays!Becomes(a, [x EXCEPT !.size = Len(c)], Arrays!Within(y, n, c)),
         n <= k => /\ c \in Seq(Elements) /\ Len(c) <= k
                   /\ \E m, q : /\ HasPlaces(x, k, m, q)
                                /\ \A i \in 1 .. Len(c) : c[i] \in {Junk, q[i - 1]}
  PROVE  ArraysInv'
<1>1. Arrays!Within(y, n, c) = IF n <= k THEN c ELSE Lost
  BY WithinIs
<1>2. CASE n <= k
  <2>1. PICK m, q : HasPlaces(x, k, m, q) /\ \A i \in 1 .. Len(c) : c[i] \in {Junk, q[i - 1]}
    BY <1>2
  <2>2. Arrays!Becomes(a, [x EXCEPT !.size = Len(c)], c)
    BY <1>1, <1>2
  <2> QED
    BY <1>2, <2>1, <2>2, BecomesHeld
<1>3. CASE ~(n <= k)
  <2>1. Arrays!Becomes(a, [x EXCEPT !.size = Len(c)], Lost)
    BY <1>1, <1>3
  <2> QED
    BY <2>1, BecomesGood
<1> QED
  BY <1>2, <1>3

(* What an array holds that is as it should be.                            *)
LEMMA SoundIs ==
  ASSUME ArraysInv, NEW a \in ArrayNames, Arrays!Sound(a)
  PROVE  /\ Good(arrays[a], arrayContent[a])
         /\ arrayContent[a] \in Seq(Elements) /\ arrays[a].size = Len(arrayContent[a])
         /\ Len(arrayContent[a]) \in Nat
<1> DEFINE x == arrays[a]
           c == arrayContent[a]
<1>1. Good(x, c)
  BY DEF ArraysInv
<1> HIDE DEF x, c
<1>2. c \in Seq(Elements) /\ x.size = Len(c)
  BY <1>1 DEF Good
<1> QED
  BY <1>1, <1>2 DEF x, c

(* And when it holds something or has memory.                              *)
LEMMA MemoryIs ==
  ASSUME NEW x, NEW c, Good(x, c), x.pdata # None \/ x.size > 0
  PROVE  /\ x.pdata # None
         /\ \E k : /\ Kept(x, k, x.pdata, c) /\ HasPlaces(x, k, Len(c), x.pdata) /\ k \in Nat
                   /\ Len(c) <= k /\ k <= x.capacity /\ x.capacity \in Nat
                   /\ \A i \in 1 .. Len(c) : c[i] \in {Junk, x.pdata[i - 1]}
<1>1. x.pdata # None
  <2>1. x.pdata = None => Len(c) = 0 /\ x.size = Len(c)
    BY DEF Good
  <2> QED
    BY <2>1
<1>2. PICK k : Kept(x, k, x.pdata, c)
  BY <1>1 DEF Good
<1>3. HasPlaces(x, k, Len(c), x.pdata) /\ Len(c) <= k /\ \A i \in 1 .. Len(c) : c[i] \in {Junk, x.pdata[i - 1]}
  BY <1>2 DEF Kept
<1>4. k \in Nat /\ k <= x.capacity /\ x.capacity \in Nat
  BY <1>3, NoneIsNoMemory DEF HasPlaces
<1> QED
  BY <1>1, <1>2, <1>3, <1>4

LEMMA EnsuredIs ==
  ASSUME NEW x, NEW c, Good(x, c), NEW n \in 1 .. MaxElems
  PROVE  \E k, q : /\ Kept(Arrays!ensured(x, n), k, q, c)
                   /\ HasPlaces(Arrays!ensured(x, n), k, Len(c), q) /\ k \in Nat /\ Len(c) <= k
                   /\ \A i \in 1 .. Len(c) : c[i] \in {Junk, q[i - 1]}
<1>1. CASE Arrays!Fits(x, n)
  <2>1. x.pdata # None /\ Arrays!ensured(x, n) = x
    BY <1>1 DEF Arrays!Fits, Arrays!ensured
  <2> QED
    BY <2>1, MemoryIs
<1>2. CASE ~Arrays!Fits(x, n)
  <2> DEFINE K == Arrays!NewCap(x, n)
             p == x.pdata
             A == Arrays!Allocated(x)
             q == [i \in 0 .. K - 1 |-> IF i < A THEN p[i] ELSE Junk]
  <2>1. /\ x = [capacity |-> x.capacity, size |-> Len(c), pdata |-> p]
        /\ x.capacity \in 0 .. Most /\ c \in Seq(Elements) /\ Len(c) \in Nat
    <3>1. /\ x = [capacity |-> x.capacity, size |-> Len(c), pdata |-> p]
          /\ x.capacity \in 0 .. Most /\ c \in Seq(Elements)
      BY DEF Good
    <3> QED
      BY <3>1
  <2>2. /\ MaxElems \in Nat /\ Reserve \in Nat /\ Reserve > 0 /\ Most = MaxElems + Reserve /\ n \in Nat
    BY NoneIsNoMemory DEF Most
  <2>3. K \in 1 .. Most /\ x.capacity <= K
    BY <2>1, <2>2 DEF Arrays!NewCap
  <2>4. /\ A \in 0 .. x.capacity /\ Len(c) <= A /\ \A i \in 0 .. A - 1 : p[i] \in Elements
        /\ \A i \in 1 .. Len(c) : c[i] \in {Junk, p[i - 1]}
    <3>1. CASE p = None
      <4>1. A = 0 /\ Len(c) = 0
        BY <3>1 DEF Arrays!Allocated, Good
      <4> QED
        BY <2>1, <4>1
    <3>2. CASE p # None
      <4>1. PICK k : /\ HasPlaces(x, k, Len(c), p) /\ k \in Nat /\ Len(c) <= k /\ k <= x.capacity
                     /\ \A i \in 1 .. Len(c) : c[i] \in {Junk, p[i - 1]}
        BY <3>2, MemoryIs
      <4>2. k \in 1 .. Most /\ p \in Memories(k)
        BY <4>1 DEF HasPlaces
      <4>3. A = k
        BY <4>2, AllocatedIs
      <4> QED
        BY <2>1, <4>1, <4>2, <4>3 DEF Memories
    <3> QED
      BY <3>1, <3>2
  <2>5. Arrays!ensured(x, n) = [x EXCEPT !.capacity = K, !.pdata = q]
    BY <1>2 DEF Arrays!ensured, Arrays!Resized
  <2> HIDE DEF K, A, p
  <2>6. q \in Memories(K)
    BY <2>3, <2>4 DEF Memories, Elements
  <2>7. \A i \in 1 .. Len(c) : c[i] \in {Junk, q[i - 1]}
    <3> SUFFICES ASSUME NEW i \in 1 .. Len(c) PROVE c[i] \in {Junk, q[i - 1]}
      OBVIOUS
    <3>1. i - 1 \in 0 .. K - 1 /\ i - 1 < A
      BY <2>1, <2>3, <2>4
    <3>2. q[i - 1] = p[i - 1]
      BY <3>1
    <3> QED
      BY <2>4, <3>2
  <2> HIDE DEF q
  <2>8. Arrays!ensured(x, n) = [capacity |-> K, size |-> Len(c), pdata |-> q]
    <3> DEFINE k == x.capacity
               m == Len(c)
    <3>1. x = [capacity |-> k, size |-> m, pdata |-> p]
      BY <2>1
    <3> HIDE DEF k, m
    <3> DEFINE y == [x EXCEPT !.capacity = K]
    <3>2. y = [capacity |-> K, size |-> m, pdata |-> p]
      BY <3>1
    <3>3. Arrays!ensured(x, n) = [y EXCEPT !.pdata = q]
      BY <2>5
    <3> HIDE DEF y
    <3>4. Arrays!ensured(x, n) = [capacity |-> K, size |-> m, pdata |-> q]
      BY <3>2, <3>3
    <3> QED
      BY <3>4 DEF m
  <2>9. HasPlaces(Arrays!ensured(x, n), K, Len(c), q)
    <3>1. Arrays!ensured(x, n).capacity = K
      BY <2>8
    <3>2. K \in 0 .. Most /\ K <= K
      BY <2>3, NoneIsNoMemory
    <3> QED
      BY <2>3, <2>6, <2>8, <3>1, <3>2 DEF HasPlaces
  <2>10. Len(c) <= K /\ K \in Nat
    BY <2>1, <2>3, <2>4, NoneIsNoMemory
  <2>11. Kept(Arrays!ensured(x, n), K, q, c)
    BY <2>7, <2>9, <2>10 DEF Kept
  <2> WITNESS K, q
  <2> QED
    BY <2>7, <2>9, <2>10, <2>11
<1> QED
  BY <1>1, <1>2

\* What an action does with an array that has memory of its own.
LEMMA GrowsKept ==
  ASSUME ArraysInv, NEW a \in ArrayNames, Arrays!GrowFails(a)
  PROVE  ArraysInv'
<1> DEFINE x == arrays[a]
           c == arrayContent[a]
<1>1. PICK n \in 1 .. MaxElems :
        Arrays!Sound(a) /\ Arrays!Becomes(a, [x EXCEPT !.capacity = Arrays!NewCap(x, n)], c)
  BY DEF Arrays!GrowFails
<1>2. Good(x, c) /\ c \in Seq(Elements)
  BY <1>1, SoundIs
<1> DEFINE K == Arrays!NewCap(x, n)
           k == x.capacity
           p == x.pdata
           y == [x EXCEPT !.capacity = K]
<1> HIDE DEF x, c
<1>3. x = [capacity |-> k, size |-> Len(c), pdata |-> p] /\ k \in 0 .. Most
  BY <1>2 DEF Good
<1>4. K \in 0 .. Most /\ k <= K
  BY <1>3, NoneIsNoMemory DEF Arrays!NewCap, Most
<1>5. Arrays!Becomes(a, y, c)
  BY <1>1
<1>6. p = None => Len(c) = 0
  BY <1>2 DEF Good
<1>7. p # None => \E m : Kept(x, m, p, c)
  BY <1>2 DEF Good
<1> HIDE DEF K, k, p
<1>8. y = [capacity |-> K, size |-> Len(c), pdata |-> p]
  BY <1>3
<1> HIDE DEF y
<1>9. CASE p = None
  <2>1. c = <<>> /\ y = [capacity |-> K, size |-> 0, pdata |-> None]
    BY <1>2, <1>6, <1>8, <1>9
  <2> QED
    BY <1>4, <1>5, <2>1, BecomesEmpty
<1>10. CASE p # None
  <2>1. PICK m : Kept(x, m, p, c)
    BY <1>7, <1>10
  <2>2. /\ x.capacity \in 0 .. Most /\ m \in 1 .. Most /\ m <= x.capacity /\ p \in Memories(m)
        /\ Len(c) <= m /\ \A i \in 1 .. Len(c) : c[i] \in {Junk, p[i - 1]}
    BY <2>1 DEF Kept, HasPlaces
  <2>3. m <= K /\ y.capacity = K
    BY <1>3, <1>4, <1>8, <2>2, NoneIsNoMemory
  <2>4. Kept(y, m, p, c)
    BY <1>4, <1>8, <2>2, <2>3 DEF Kept, HasPlaces
  <2> QED
    BY <1>2, <1>5, <2>4, BecomesKept
<1> QED
  BY <1>9, <1>10

(* As many elements as memory.                                             *)
LEMMA SizedIs ==
  ASSUME NEW c \in Seq(Elements), NEW n \in Nat
  PROVE  Arrays!Sized(c, n) \in Seq(Elements) /\ Len(Arrays!Sized(c, n)) = n
  BY DEF Arrays!Sized, Elements

LEMMA SizedIsKept ==
  ASSUME NEW k \in Nat, NEW p, NEW c \in Seq(Elements),
         \A i \in 1 .. Len(c) : c[i] \in {Junk, p[i - 1]}, NEW n \in 0 .. k
  PROVE  \A i \in 1 .. n : Arrays!Sized(c, n)[i] \in {Junk, p[i - 1]}
<1>1. n \in Nat
  OBVIOUS
<1> QED
  BY <1>1 DEF Arrays!Sized

LEMMA PutIs ==
  ASSUME NEW x, NEW k, NEW n, NEW q, HasPlaces(x, k, n, q), NEW i \in Nat, NEW v \in Elements
  PROVE  \E r : /\ HasPlaces(Arrays!Put(x, i, v), k, n, r)
                /\ \A j \in 0 .. k - 1 : r[j] = IF j = i THEN v ELSE q[j]
<1> DEFINE r == [j \in DOMAIN q |-> IF j = i THEN v ELSE q[j]]
<1>1. x.pdata = q /\ k \in 1 .. Most /\ q \in Memories(k)
  BY DEF HasPlaces
<1>2. r \in Memories(k) /\ \A j \in 0 .. k - 1 : r[j] = IF j = i THEN v ELSE q[j]
  BY <1>1 DEF Memories
<1>3. Arrays!Put(x, i, v) = [x EXCEPT !.pdata = r]
  BY <1>1 DEF Arrays!Put, HasPlaces
<1> HIDE DEF r
<1>4. HasPlaces(Arrays!Put(x, i, v), k, n, r)
  BY <1>2, <1>3, DataPlaces
<1> QED
  BY <1>2, <1>4

\* r is q with m places copied
IsMoved(r, q, k, to, from, m) ==
  \A j \in 0 .. k - 1 : r[j] = IF j \in to .. to + m - 1 THEN q[j - to + from] ELSE q[j]

LEMMA MovedIs ==
  ASSUME NEW x, NEW k, NEW n, NEW q, HasPlaces(x, k, n, q),
         NEW to \in Nat, NEW from \in Nat, NEW m \in Int, from + m <= k
  PROVE  \E r : /\ HasPlaces(Arrays!Moved(x, to, from, m), k, n, r)
                /\ IsMoved(r, q, k, to, from, m)
<1> DEFINE r == [j \in DOMAIN q |-> IF j \in to .. to + m - 1 THEN q[j - to + from] ELSE q[j]]
<1>1. x.pdata = q /\ k \in 1 .. Most /\ q \in Memories(k)
  BY DEF HasPlaces
<1>2. DOMAIN q = 0 .. k - 1 /\ k \in Nat /\ \A j \in 0 .. k - 1 : q[j] \in Elements
  BY <1>1, NoneIsNoMemory DEF Memories
<1>3. ASSUME NEW j \in 0 .. k - 1
      PROVE  (IF j \in to .. to + m - 1 THEN q[j - to + from] ELSE q[j]) \in Elements
  <2>1. CASE j \in to .. to + m - 1
    <3>1. j - to + from \in 0 .. k - 1
      BY <1>2, <2>1
    <3> QED
      BY <1>2, <2>1, <3>1
  <2>2. CASE j \notin to .. to + m - 1
    BY <1>2, <2>2
  <2> QED
    BY <2>1, <2>2
<1>4. r \in Memories(k) /\ \A j \in 0 .. k - 1 : r[j] = IF j \in to .. to + m - 1 THEN q[j - to + from] ELSE q[j]
  BY <1>2, <1>3 DEF Memories
<1>5. Arrays!Moved(x, to, from, m) = [x EXCEPT !.pdata = r]
  BY <1>1 DEF Arrays!Moved, HasPlaces
<1> HIDE DEF r
<1>6. HasPlaces(Arrays!Moved(x, to, from, m), k, n, r)
  BY <1>4, <1>5, DataPlaces
<1>7. IsMoved(r, q, k, to, from, m)
  BY <1>4 DEF IsMoved
<1> QED
  BY <1>6, <1>7

LEMMA SizedBecomes ==
  ASSUME ArraysInv, NEW a \in ArrayNames, NEW y, NEW k \in Nat, NEW m, NEW q, HasPlaces(y, k, m, q),
         NEW c \in Seq(Elements), \A i \in 1 .. Len(c) : c[i] \in {Junk, q[i - 1]}, NEW n \in Nat,
         Arrays!Becomes(a, [y EXCEPT !.size = n], Arrays!Within(y, n, Arrays!Sized(c, n)))
  PROVE  ArraysInv'
<1> DEFINE d == Arrays!Sized(c, n)
<1>1. d \in Seq(Elements) /\ Len(d) = n
  BY SizedIs
<1>2. n <= k => \A i \in 1 .. Len(d) : d[i] \in {Junk, q[i - 1]}
  BY <1>1, SizedIsKept
<1> HIDE DEF d
<1>3. Arrays!Becomes(a, [y EXCEPT !.size = Len(d)], Arrays!Within(y, n, d))
  BY <1>1 DEF d
<1> QED
  BY <1>1, <1>2, <1>3, BecomesWithin

LEMMA EnsuredBecomes ==
  ASSUME ArraysInv, NEW a \in ArrayNames, Arrays!add_back(a) \/ Arrays!realloc(a) \/ Arrays!resize(a)
  PROVE  ArraysInv'
<1> DEFINE x == arrays[a]
           c == arrayContent[a]
<1>1. CASE Arrays!realloc(a)
  <2>1. PICK n \in 1 .. MaxElems : Arrays!Sound(a) /\ Arrays!Becomes(a, Arrays!ensured(x, n), c)
    BY <1>1 DEF Arrays!realloc
  <2>2. Good(x, c) /\ c \in Seq(Elements)
    BY <2>1, SoundIs
  <2> HIDE DEF x, c
  <2>3. PICK k, q : Kept(Arrays!ensured(x, n), k, q, c)
    BY <2>2, EnsuredIs
  <2> QED
    BY <2>1, <2>2, <2>3, BecomesKept
<1>2. ASSUME NEW n \in 1 .. MaxElems, Arrays!Sound(a),
             Arrays!Becomes(a, [Arrays!ensured(x, n) EXCEPT !.size = n],
                            Arrays!Within(Arrays!ensured(x, n), n, Arrays!Sized(c, n)))
      PROVE  ArraysInv'
  <2>1. Good(x, c) /\ c \in Seq(Elements) /\ n \in Nat
    BY <1>2, SoundIs, NoneIsNoMemory
  <2> DEFINE y == Arrays!ensured(x, n)
  <2>2. Arrays!Becomes(a, [y EXCEPT !.size = n], Arrays!Within(y, n, Arrays!Sized(c, n)))
    BY <1>2
  <2> HIDE DEF x, c
  <2>3. PICK k, q : /\ HasPlaces(y, k, Len(c), q) /\ k \in Nat
                    /\ \A i \in 1 .. Len(c) : c[i] \in {Junk, q[i - 1]}
    BY <2>1, EnsuredIs
  <2> HIDE DEF y
  <2> QED
    BY <2>1, <2>2, <2>3, SizedBecomes
<1>3. CASE Arrays!add_back(a)
  <2>1. PICK n \in x.size + 1 .. MaxElems :
          /\ Arrays!Sound(a)
          /\ Arrays!Becomes(a, [Arrays!ensured(x, n) EXCEPT !.size = n],
                            Arrays!Within(Arrays!ensured(x, n), n, Arrays!Sized(c, n)))
    BY <1>3 DEF Arrays!add_back
  <2>2. x.size = Len(c) /\ Len(c) \in Nat
    BY <2>1, SoundIs
  <2>3. n \in 1 .. MaxElems
    BY <2>2, NoneIsNoMemory
  <2> QED
    BY <1>2, <2>1, <2>3
<1>4. CASE Arrays!resize(a)
  <2>1. PICK n \in 0 .. MaxElems :
          LET y == IF n > x.capacity THEN Arrays!ensured(x, n) ELSE x IN
          /\ Arrays!Sound(a)
          /\ Arrays!Becomes(a, [y EXCEPT !.size = n], Arrays!Within(y, n, Arrays!Sized(c, n)))
    BY <1>4 DEF Arrays!resize
  <2>2. Good(x, c) /\ c \in Seq(Elements) /\ n \in Nat
    BY <2>1, SoundIs, NoneIsNoMemory
  <2>3. x.capacity \in Nat /\ x.capacity \in 0 .. Most
    BY <2>2, NoneIsNoMemory DEF Good
  <2>4. CASE n > x.capacity
    <3>1. n \in 1 .. MaxElems
      BY <2>3, <2>4
    <3>2. Arrays!Becomes(a, [Arrays!ensured(x, n) EXCEPT !.size = n],
                         Arrays!Within(Arrays!ensured(x, n), n, Arrays!Sized(c, n)))
      BY <2>1, <2>4
    <3> QED
      BY <1>2, <2>1, <3>1, <3>2
  <2>5. ASSUME ~(n > x.capacity)
        PROVE  Arrays!Becomes(a, [x EXCEPT !.size = n], Arrays!Within(x, n, Arrays!Sized(c, n)))
    BY <2>1, <2>5
  <2>6. CASE ~(n > x.capacity) /\ x.pdata # None
    <3> HIDE DEF x, c
    <3>1. PICK k : /\ HasPlaces(x, k, Len(c), x.pdata) /\ k \in Nat
                   /\ \A i \in 1 .. Len(c) : c[i] \in {Junk, x.pdata[i - 1]}
      BY <2>2, <2>6, MemoryIs
    <3> QED
      BY <2>2, <2>5, <2>6, <3>1, SizedBecomes
  <2>7. CASE ~(n > x.capacity) /\ x.pdata = None
    <3> DEFINE d == Arrays!Sized(c, n)
    <3>1. Arrays!Within(x, n, d) = IF n <= 0 THEN d ELSE Lost
      BY <2>7 DEF Arrays!Within, Arrays!Allocated
    <3>2. CASE n > 0
      <4>1. Arrays!Becomes(a, [x EXCEPT !.size = n], Lost)
        BY <2>2, <2>5, <2>7, <3>1, <3>2
      <4> QED
        BY <4>1, BecomesGood
    <3>3. CASE n = 0
      <4>1. d = <<>>
        <5>1. d \in Seq(Elements) /\ Len(d) = 0
          BY <2>2, <3>3, SizedIs
        <5> HIDE DEF d
        <5> QED
          BY <5>1
      <4>2. Arrays!Becomes(a, [x EXCEPT !.size = 0], <<>>)
        BY <2>5, <2>7, <3>1, <3>3, <4>1
      <4> HIDE DEF x, c
      <4> DEFINE k == x.capacity
                 l == Len(c)
      <4>3. x = [capacity |-> k, size |-> l, pdata |-> None]
        BY <2>2, <2>7 DEF Good
      <4> HIDE DEF k, l
      <4>4. [x EXCEPT !.size = 0] = [capacity |-> k, size |-> 0, pdata |-> None]
        BY <4>3
      <4> QED
        BY <2>3, <4>2, <4>4, BecomesEmpty DEF k
    <3> QED
      BY <2>2, <3>2, <3>3
  <2> QED
    BY <2>4, <2>6, <2>7
<1> QED
  BY <1>1, <1>3, <1>4

LEMMA PushBecomes ==
  ASSUME ArraysInv, NEW a \in ArrayNames, NEW v \in Values, Arrays!push_back(a, v) \/ Arrays!push_front(a, v)
  PROVE  ArraysInv'
<1> DEFINE x == arrays[a]
           c == arrayContent[a]
           n == Len(c)
           y == Arrays!ensured(x, n + 1)
<1>1. Arrays!Sound(a) /\ x.size < MaxElems
  BY DEF Arrays!push_back, Arrays!push_front
<1>2. Good(x, c) /\ c \in Seq(Elements) /\ x.size = n /\ n \in Nat
  BY <1>1, SoundIs
<1>3. n + 1 \in 1 .. MaxElems /\ MaxElems \in Nat /\ v \in Elements /\ DOMAIN c = 1 .. n
  BY <1>1, <1>2, NoneIsNoMemory DEF Elements
<1>4. \/ Arrays!Becomes(a, [Arrays!Put(y, n, v) EXCEPT !.size = n + 1],
                        Arrays!Within(y, n + 1, Append(c, v)))
      \/ Arrays!Becomes(a, [Arrays!Put(Arrays!Moved(y, 1, 0, n), 0, v) EXCEPT !.size = n + 1],
                        Arrays!Within(y, n + 1, <<v>> \o c))
  BY <1>2 DEF Arrays!push_back, Arrays!push_front
<1> HIDE DEF x, c
<1>5. PICK k, q : /\ HasPlaces(y, k, n, q) /\ k \in Nat /\ n <= k
                  /\ \A i \in 1 .. n : c[i] \in {Junk, q[i - 1]}
  BY <1>2, <1>3, EnsuredIs
<1> HIDE DEF y, n
<1>6. CASE Arrays!Becomes(a, [Arrays!Put(y, n, v) EXCEPT !.size = n + 1],
                          Arrays!Within(y, n + 1, Append(c, v)))
  <2> DEFINE d == Append(c, v)
             z == Arrays!Put(y, n, v)
  <2>1. PICK r : HasPlaces(z, k, n, r) /\ \A j \in 0 .. k - 1 : r[j] = IF j = n THEN v ELSE q[j]
    <3>1. HasPlaces(y, k, n, q) /\ k \in Nat /\ n \in Nat /\ v \in Elements
      BY <1>2, <1>3, <1>5
    <3> QED
      BY ONLY <3>1, PutIs
  <2>2. d \in Seq(Elements) /\ Len(d) = n + 1 /\ \A i \in 1 .. n + 1 : d[i] = IF i = n + 1 THEN v ELSE c[i]
    BY <1>2, <1>3 DEF n
  <2> HIDE DEF d, z
  <2>3. ASSUME n + 1 <= k, NEW i \in 1 .. Len(d)
        PROVE  d[i] \in {Junk, r[i - 1]}
    <3>1. i \in 1 .. n + 1 /\ i - 1 \in 0 .. k - 1 /\ (i = n + 1 <=> i - 1 = n) /\ (i # n + 1 => i \in 1 .. n)
      BY <1>2, <1>5, <2>2, <2>3
    <3> QED
      BY <1>5, <2>1, <2>2, <3>1
  <2>4. Arrays!Becomes(a, [z EXCEPT !.size = Len(d)], Arrays!Within(y, n + 1, d))
    BY <1>6, <2>2 DEF d, z
  <2>5. n + 1 <= k => d \in Seq(Elements) /\ Len(d) <= k
                      /\ \E m, p : HasPlaces(z, k, m, p) /\ \A i \in 1 .. Len(d) : d[i] \in {Junk, p[i - 1]}
    BY <2>1, <2>2, <2>3
  <2> QED
    BY <1>5, <2>4, <2>5, BecomesWithin
<1>7. CASE Arrays!Becomes(a, [Arrays!Put(Arrays!Moved(y, 1, 0, n), 0, v) EXCEPT !.size = n + 1],
                          Arrays!Within(y, n + 1, <<v>> \o c))
  <2> DEFINE d == <<v>> \o c
             w == Arrays!Moved(y, 1, 0, n)
             z == Arrays!Put(w, 0, v)
  <2>1. PICK p : HasPlaces(w, k, n, p) /\ IsMoved(p, q, k, 1, 0, n)
    <3>1. 0 + n <= k /\ n \in Int /\ 1 \in Nat /\ 0 \in Nat
      BY <1>2, <1>5
    <3> QED
      BY <1>5, <3>1, MovedIs
  <2> HIDE DEF w
  <2>2. PICK r : HasPlaces(z, k, n, r) /\ \A j \in 0 .. k - 1 : r[j] = IF j = 0 THEN v ELSE p[j]
    BY <1>3, <2>1, PutIs
  <2>3. d \in Seq(Elements) /\ Len(d) = n + 1 /\ \A i \in 1 .. n + 1 : d[i] = IF i = 1 THEN v ELSE c[i - 1]
    <3>1. <<v>> \in Seq(Elements) /\ Len(<<v>>) = 1 /\ <<v>>[1] = v
      BY <1>3
    <3>2. \A i \in 1 .. 1 + n : d[i] = IF i <= 1 THEN <<v>>[i] ELSE c[i - 1]
      BY <1>2, <3>1, ConcatProperties DEF n
    <3>3. d \in Seq(Elements) /\ Len(d) = 1 + n
      BY <1>2, <3>1, ConcatProperties DEF n
    <3> HIDE DEF d
    <3> QED
      BY <1>2, <3>1, <3>2, <3>3
  <2> HIDE DEF d, z
  <2>4. ASSUME n + 1 <= k, NEW i \in 1 .. Len(d)
        PROVE  d[i] \in {Junk, r[i - 1]}
    <3>1. /\ i \in 1 .. n + 1 /\ i - 1 \in 0 .. k - 1 /\ (i = 1 <=> i - 1 = 0)
          /\ i # 1 => i - 1 \in 1 .. n /\ i - 1 \in 1 .. 1 + n - 1 /\ (i - 1) - 1 + 0 = (i - 1) - 1
      BY <1>2, <1>5, <2>3, <2>4
    <3>2. CASE i = 1
      BY <2>2, <2>3, <3>1, <3>2
    <3>3. CASE i # 1
      <4>1. d[i] = c[i - 1] /\ r[i - 1] = p[i - 1] /\ p[i - 1] = q[(i - 1) - 1]
        BY <2>1, <2>2, <2>3, <3>1, <3>3 DEF IsMoved
      <4> QED
        BY <1>5, <3>1, <3>3, <4>1
    <3> QED
      BY <3>2, <3>3
  <2>5. Arrays!Becomes(a, [z EXCEPT !.size = Len(d)], Arrays!Within(y, n + 1, d))
    BY <1>7, <2>3 DEF d, z, w
  <2>6. n + 1 <= k => d \in Seq(Elements) /\ Len(d) <= k
                      /\ \E m, g : HasPlaces(z, k, m, g) /\ \A i \in 1 .. Len(d) : d[i] \in {Junk, g[i - 1]}
    BY <2>2, <2>3, <2>4
  <2> QED
    BY <1>5, <2>5, <2>6, BecomesWithin
<1> QED
  BY <1>4, <1>6, <1>7 DEF x, c, n, y

LEMMA PopBecomes ==
  ASSUME ArraysInv, NEW a \in ArrayNames, Arrays!pop_back(a) \/ Arrays!pop_front(a)
  PROVE  ArraysInv'
<1> DEFINE x == arrays[a]
           c == arrayContent[a]
           n == Len(c)
           q == x.pdata
<1>1. Arrays!Sound(a) /\ x.size > 0
  BY DEF Arrays!pop_back, Arrays!pop_front
<1>2. Good(x, c) /\ c \in Seq(Elements) /\ x.size = n /\ n \in Nat
  BY <1>1, SoundIs
<1>3. n > 0 /\ DOMAIN c = 1 .. n
  BY <1>1, <1>2
<1>4. \/ Arrays!Becomes(a, [x EXCEPT !.size = n - 1], SubSeq(c, 1, n - 1))
      \/ Arrays!Becomes(a, [Arrays!Moved(x, 0, 1, n - 1) EXCEPT !.size = n - 1], Tail(c))
  BY <1>2 DEF Arrays!pop_back, Arrays!pop_front
<1> HIDE DEF x, c
<1>5. PICK k : /\ HasPlaces(x, k, n, q) /\ k \in Nat /\ n <= k
               /\ \A i \in 1 .. n : c[i] \in {Junk, q[i - 1]}
  BY <1>1, <1>2, MemoryIs
<1> HIDE DEF q, n
<1>6. CASE Arrays!Becomes(a, [x EXCEPT !.size = n - 1], SubSeq(c, 1, n - 1))
  <2> DEFINE d == SubSeq(c, 1, n - 1)
  <2>1. d \in Seq(Elements) /\ Len(d) = n - 1 /\ \A i \in 1 .. n - 1 : d[i] = c[i]
    BY <1>2, <1>3
  <2>2. Arrays!Becomes(a, [x EXCEPT !.size = n - 1], d)
    BY <1>6
  <2> HIDE DEF d
  <2>3. \A i \in 1 .. Len(d) : d[i] \in {Junk, q[i - 1]}
    BY <1>2, <1>5, <2>1
  <2>4. Arrays!Becomes(a, [x EXCEPT !.size = Len(d)], d) /\ Len(d) <= k
    BY <1>2, <1>5, <2>1, <2>2
  <2> QED
    BY <1>5, <2>1, <2>3, <2>4, BecomesHeld
<1>7. CASE Arrays!Becomes(a, [Arrays!Moved(x, 0, 1, n - 1) EXCEPT !.size = n - 1], Tail(c))
  <2> DEFINE d == Tail(c)
             z == Arrays!Moved(x, 0, 1, n - 1)
  <2>1. PICK r : HasPlaces(z, k, n, r) /\ IsMoved(r, q, k, 0, 1, n - 1)
    <3>1. 1 + (n - 1) <= k /\ n - 1 \in Int /\ 1 \in Nat /\ 0 \in Nat
      BY <1>2, <1>5
    <3> QED
      BY <1>5, <3>1, MovedIs
  <2>2. d \in Seq(Elements) /\ Len(d) = n - 1 /\ \A i \in 1 .. n - 1 : d[i] = c[i + 1]
    BY <1>2, <1>3 DEF n
  <2> HIDE DEF d, z
  <2>3. ASSUME NEW i \in 1 .. Len(d)
        PROVE  d[i] \in {Junk, r[i - 1]}
    <3>1. /\ i \in 1 .. n - 1 /\ i + 1 \in 1 .. n /\ i - 1 \in 0 .. k - 1
          /\ i - 1 \in 0 .. 0 + (n - 1) - 1 /\ (i - 1) - 0 + 1 = i /\ (i + 1) - 1 = i
      <4>1. i \in Int /\ 1 <= i /\ i <= n - 1 /\ n \in Int /\ k \in Int /\ n <= k
        BY <1>2, <1>5, <2>2
      <4> QED
        BY ONLY <4>1
    <3>2. d[i] = c[i + 1] /\ r[i - 1] = q[i] /\ c[i + 1] \in {Junk, q[i]}
      BY <1>5, <2>1, <2>2, <3>1 DEF IsMoved
    <3> QED
      BY <3>2
  <2>4. Arrays!Becomes(a, [z EXCEPT !.size = Len(d)], d) /\ Len(d) <= k
    BY <1>2, <1>5, <1>7, <2>2 DEF d, z
  <2> QED
    BY <2>1, <2>2, <2>3, <2>4, BecomesHeld
<1> QED
  BY <1>4, <1>6, <1>7

LEMMA RemoveBecomes ==
  ASSUME ArraysInv, NEW a \in ArrayNames, Arrays!remove_from(a) \/ Arrays!remove_from_fast(a)
  PROVE  ArraysInv'
<1> DEFINE x == arrays[a]
           c == arrayContent[a]
           n == Len(c)
           q == x.pdata
<1>1. CASE Arrays!remove_from_fast(a)
  <2>1. PICK y : Arrays!Becomes(a, y, Lost)
    BY <1>1 DEF Arrays!remove_from_fast
  <2> QED
    BY <2>1, BecomesGood
<1>2. CASE Arrays!remove_from(a)
  <2>1. PICK i \in 0 .. x.size - 1 :
          /\ Arrays!Sound(a)
          /\ Arrays!Becomes(a, [(IF i + 1 < x.size THEN Arrays!Moved(x, i, i + 1, 1) ELSE x)
                                  EXCEPT !.size = x.size - 1],
                            IF i + 1 < x.size THEN Lost ELSE SubSeq(c, 1, i))
    BY <1>2 DEF Arrays!remove_from
  <2>2. Good(x, c) /\ c \in Seq(Elements) /\ x.size = n /\ n \in Nat
    BY <2>1, SoundIs
  <2>3. i \in Nat /\ i + 1 \in 1 .. n /\ x.size > 0 /\ DOMAIN c = 1 .. n
    BY <2>2
  <2>4. CASE i + 1 < n
    <3>1. PICK y : Arrays!Becomes(a, y, Lost)
      BY <2>1, <2>2, <2>4
    <3> QED
      BY <3>1, BecomesGood
  <2>5. CASE ~(i + 1 < n)
    <3> DEFINE d == SubSeq(c, 1, i)
    <3>1. i = n - 1 /\ Arrays!Becomes(a, [x EXCEPT !.size = n - 1], d)
      BY <2>1, <2>2, <2>3, <2>5
    <3> HIDE DEF x, c
    <3>2. PICK k : /\ HasPlaces(x, k, n, q) /\ k \in Nat /\ n <= k
                   /\ \A j \in 1 .. n : c[j] \in {Junk, q[j - 1]}
      BY <2>2, <2>3, MemoryIs
    <3>3. d \in Seq(Elements) /\ Len(d) = n - 1 /\ \A j \in 1 .. n - 1 : d[j] = c[j]
      BY <2>2, <2>3, <3>1
    <3> HIDE DEF d, n, q
    <3>4. \A j \in 1 .. Len(d) : d[j] \in {Junk, q[j - 1]}
      BY <2>2, <3>2, <3>3
    <3>5. Arrays!Becomes(a, [x EXCEPT !.size = Len(d)], d) /\ Len(d) <= k
      BY <2>2, <3>1, <3>2, <3>3
    <3> QED
      BY <3>2, <3>3, <3>4, <3>5, BecomesHeld
  <2> QED
    BY <2>4, <2>5
<1> QED
  BY <1>1, <1>2

LEMMA ShiftBecomes ==
  ASSUME ArraysInv, NEW a \in ArrayNames, Arrays!shift(a)
  PROVE  ArraysInv'
<1> DEFINE x == arrays[a]
           c == arrayContent[a]
           n == Len(c)
           q == x.pdata
<1>1. PICK from \in 0 .. MaxElems - 1, to \in 0 .. MaxElems - 1, m \in 1 .. MaxElems :
        /\ Arrays!Sound(a) /\ from + m <= x.size
        /\ Arrays!Becomes(a, Arrays!Moved(x, to, from, m),
                          Arrays!Within(x, to + m,
                            [i \in DOMAIN c |-> IF i \in to + 1 .. to + m THEN c[i - to + from] ELSE c[i]]))
  BY DEF Arrays!shift
<1>2. Good(x, c) /\ c \in Seq(Elements) /\ x.size = n /\ n \in Nat /\ DOMAIN c = 1 .. n
  BY <1>1, SoundIs
<1>3. from \in Nat /\ to \in Nat /\ m \in Nat /\ m > 0 /\ from + m <= n /\ x.size > 0
  BY <1>1, <1>2, NoneIsNoMemory
<1> DEFINE z == Arrays!Moved(x, to, from, m)
           d == [i \in 1 .. n |-> IF i \in to + 1 .. to + m THEN c[i - to + from] ELSE c[i]]
<1>4. Arrays!Becomes(a, z, Arrays!Within(x, to + m, d))
  BY <1>1, <1>2
<1> HIDE DEF x, c
<1>5. PICK k : /\ HasPlaces(x, k, n, q) /\ k \in Nat /\ n <= k
               /\ \A i \in 1 .. n : c[i] \in {Junk, q[i - 1]}
  BY <1>2, <1>3, MemoryIs
<1> HIDE DEF q
<1>6. \A i \in 1 .. n : c[i] \in Elements
  BY <1>2
<1> HIDE DEF n
<1>7. PICK r : HasPlaces(z, k, n, r) /\ IsMoved(r, q, k, to, from, m)
  <2>1. from + m <= k /\ m \in Int
    BY <1>2, <1>3, <1>5
  <2> QED
    BY <1>3, <1>5, <2>1, MovedIs
<1>8. ASSUME NEW i \in 1 .. n
      PROVE  d[i] \in Elements /\ d[i] \in {Junk, r[i - 1]}
  <2>1. i \in Int /\ i - 1 \in 0 .. k - 1
    BY <1>2, <1>5
  <2>2. CASE i \in to + 1 .. to + m
    <3>1. i - to + from \in 1 .. n /\ (i - to + from) - 1 = (i - 1) - to + from /\ i - 1 \in to .. to + m - 1
      BY <1>2, <1>3, <2>1, <2>2
    <3>2. d[i] = c[i - to + from]
      BY <2>2
    <3>3. r[i - 1] = q[(i - 1) - to + from]
      BY <1>7, <2>1, <3>1 DEF IsMoved
    <3> HIDE DEF d
    <3> QED
      BY <1>5, <1>6, <3>1, <3>2, <3>3
  <2>3. CASE i \notin to + 1 .. to + m
    <3>1. i - 1 \notin to .. to + m - 1
      BY <1>3, <2>1, <2>3
    <3>2. d[i] = c[i]
      BY <2>3
    <3>3. r[i - 1] = q[i - 1]
      BY <1>7, <2>1, <3>1 DEF IsMoved
    <3> HIDE DEF d
    <3> QED
      BY <1>5, <1>6, <3>2, <3>3
  <2> QED
    BY <2>2, <2>3
<1>9. d \in Seq(Elements) /\ Len(d) = n
  BY <1>2, <1>8
<1> HIDE DEF d, z
<1>10. Kept(z, k, r, d)
  BY <1>5, <1>7, <1>8, <1>9 DEF Kept
<1>11. Arrays!Within(x, to + m, d) = d \/ Arrays!Within(x, to + m, d) = Lost
  BY DEF Arrays!Within
<1> QED
  BY <1>4, <1>9, <1>10, <1>11, KeptIsGood, BecomesGood

LEMMA InsertBecomes ==
  ASSUME ArraysInv, NEW a \in ArrayNames, NEW b \in ArrayNames, Arrays!insert_from(a, b)
  PROVE  ArraysInv'
<1> DEFINE x == arrays[a]
           c == arrayContent[a]
           s == Len(c)
           y == arrays[b]
           e == arrayContent[b]
           l == Len(e)
           p == y.pdata
<1>1. PICK from \in 0 .. y.size, n \in 1 .. MaxElems :
        /\ Arrays!Sound(a) /\ Arrays!Sound(b) /\ from + n <= y.size /\ x.size + n <= MaxElems
        /\ LET z == Arrays!ensured(x, x.size + n) IN
           Arrays!Becomes(a, [z EXCEPT !.size = x.size + n,
                                       !.pdata = [i \in DOMAIN z.pdata |->
                                         IF i \in x.size .. x.size + n - 1 THEN p[i - x.size + from]
                                         ELSE z.pdata[i]]],
                          Arrays!Within(z, x.size + n, c \o SubSeq(e, from + 1, from + n)))
  BY ZenonT(30) DEF Arrays!insert_from
<1>2. Good(x, c) /\ c \in Seq(Elements) /\ x.size = s /\ s \in Nat /\ DOMAIN c = 1 .. s
  BY <1>1, SoundIs
<1>3. Good(y, e) /\ e \in Seq(Elements) /\ y.size = l /\ l \in Nat /\ DOMAIN e = 1 .. l
  BY <1>1, SoundIs
<1>4. /\ from \in Nat /\ n \in Nat /\ n > 0 /\ from + n <= l /\ s + n \in 1 .. MaxElems /\ y.size > 0
  BY <1>1, <1>2, <1>3, NoneIsNoMemory, SMTT(20)
<1> DEFINE z == Arrays!ensured(x, s + n)
           r == [i \in DOMAIN z.pdata |-> IF i \in s .. s + n - 1 THEN p[i - s + from] ELSE z.pdata[i]]
           f == SubSeq(e, from + 1, from + n)
           d == c \o f
           w == [z EXCEPT !.size = s + n]
<1>5. Arrays!Becomes(a, [w EXCEPT !.pdata = r], Arrays!Within(z, s + n, d))
  BY <1>1, <1>2
<1> HIDE DEF x, c, y, e
<1>6. PICK k, q : /\ HasPlaces(z, k, s, q) /\ k \in Nat /\ s <= k
                  /\ \A i \in 1 .. s : c[i] \in {Junk, q[i - 1]}
  BY <1>2, <1>4, EnsuredIs
<1>7. q \in Memories(k)
  BY <1>6 DEF HasPlaces
<1>8. PICK kb : /\ p \in Memories(kb) /\ kb \in Nat /\ l <= kb /\ \A i \in 1 .. l : e[i] \in {Junk, p[i - 1]}
  <2>1. PICK kb : /\ HasPlaces(y, kb, l, p) /\ kb \in Nat /\ l <= kb
                  /\ \A i \in 1 .. l : e[i] \in {Junk, p[i - 1]}
    BY <1>3, <1>4, MemoryIs
  <2> QED
    BY <2>1 DEF HasPlaces
<1> HIDE DEF p
<1>9. /\ f \in Seq(Elements) /\ Len(f) = n /\ \A i \in 1 .. n : f[i] = e[from + i]
  <2>1. from + 1 \in Int /\ from + n \in Int /\ \A i \in from + 1 .. from + n : e[i] \in Elements
    <3>1. \A i \in from + 1 .. from + n : i \in 1 .. l
      BY <1>3, <1>4
    <3> QED
      BY <1>3, <1>4, <3>1
  <2>2. /\ f \in Seq(Elements)
        /\ Len(f) = IF from + 1 <= from + n THEN (from + n) - (from + 1) + 1 ELSE 0
        /\ \A i \in 1 .. (from + n) - (from + 1) + 1 : f[i] = e[(from + 1) + i - 1]
    BY <2>1, SubSeqProperties
  <2> HIDE DEF f
  <2>3. from + 1 <= from + n /\ (from + n) - (from + 1) + 1 = n
    BY <1>4
  <2>4. \A i \in 1 .. n : (from + 1) + i - 1 = from + i
    BY <1>4
  <2> QED
    BY <2>2, <2>3, <2>4
<1> HIDE DEF f, s, l
<1>10. /\ d \in Seq(Elements) /\ Len(d) = s + n
       /\ \A i \in 1 .. s + n : d[i] = IF i <= s THEN c[i] ELSE f[i - s]
  BY <1>2, <1>9, ConcatProperties, ZenonT(30) DEF s
<1> HIDE DEF d
<1>11. z.pdata = q /\ DOMAIN z.pdata = 0 .. k - 1
  <2>1. z.pdata = q
    BY <1>6 DEF HasPlaces
  <2> QED
    BY <1>7, <2>1 DEF Memories
<1> HIDE DEF z
<1>12. /\ r \in Memories(k)
       /\ \A i \in 0 .. k - 1 : r[i] = IF i \in s .. s + n - 1 THEN p[i - s + from] ELSE q[i]
  <2>1. ASSUME NEW i \in 0 .. k - 1
        PROVE  (IF i \in s .. s + n - 1 THEN p[i - s + from] ELSE q[i]) \in Elements
    <3>1. CASE i \in s .. s + n - 1
      <4>1. i - s + from \in 0 .. kb - 1
        BY <1>2, <1>3, <1>4, <1>6, <1>8, <3>1
      <4> QED
        BY <1>8, <3>1, <4>1 DEF Memories
    <3>2. CASE i \notin s .. s + n - 1
      BY <1>7, <3>2 DEF Memories
    <3> QED
      BY <3>1, <3>2
  <2> QED
    BY <1>11, <2>1 DEF Memories
<1> HIDE DEF r
<1>13. ASSUME s + n <= k, NEW i \in 1 .. s + n
       PROVE  d[i] \in {Junk, r[i - 1]}
  <2>1. i \in Int /\ i - 1 \in 0 .. k - 1
    BY <1>2, <1>4, <1>6, <1>13
  <2>2. CASE i <= s
    <3>1. i \in 1 .. s /\ i - 1 \notin s .. s + n - 1
      BY <1>2, <2>1, <2>2
    <3> QED
      BY <1>6, <1>10, <1>12, <2>1, <2>2, <3>1
  <2>3. CASE ~(i <= s)
    <3>1. /\ i - s \in 1 .. n /\ i - 1 \in s .. s + n - 1 /\ from + (i - s) \in 1 .. l
          /\ (i - 1) - s + from = (from + (i - s)) - 1
      BY <1>2, <1>3, <1>4, <2>1, <2>3
    <3>2. d[i] = e[from + (i - s)] /\ r[i - 1] = p[(from + (i - s)) - 1]
      BY <1>9, <1>10, <1>12, <2>1, <2>3, <3>1
    <3> QED
      BY <1>8, <3>1, <3>2
  <2> QED
    BY <2>2, <2>3
<1>14. HasPlaces(w, k, s + n, q)
  BY <1>6, SizedPlaces
<1> HIDE DEF w
<1>15. HasPlaces([w EXCEPT !.pdata = r], k, s + n, r)
  BY <1>12, <1>14, DataPlaces
<1>16. CASE s + n <= k
  <2> DEFINE u == [w EXCEPT !.pdata = r]
  <2>1. Arrays!Becomes(a, u, d)
    BY <1>5, <1>6, <1>16, WithinIs
  <2>2. HasPlaces(u, k, s + n, r)
    BY <1>15
  <2> HIDE DEF u
  <2>3. Kept(u, k, r, d)
    BY <1>10, <1>13, <1>16, <2>2 DEF Kept
  <2> QED
    BY <1>10, <2>1, <2>3, BecomesKept
<1>17. CASE ~(s + n <= k)
  <2>1. Arrays!Becomes(a, [w EXCEPT !.pdata = r], Lost)
    BY <1>5, <1>6, <1>17, WithinIs
  <2> QED
    BY <2>1, BecomesGood
<1> QED
  BY <1>16, <1>17

LEMMA EmptyBecomes ==
  ASSUME ArraysInv, NEW a \in ArrayNames, Arrays!clear(a) \/ Arrays!free(a) \/ Arrays!reset(a)
  PROVE  ArraysInv'
<1> DEFINE x == arrays[a]
           c == arrayContent[a]
           k == x.capacity
           n == x.size
           p == x.pdata
<1>1. CASE Arrays!reset(a)
  BY <1>1, BecomesGood, ResetIsGood DEF Arrays!reset
<1>2. CASE Arrays!Sound(a)
  <2>1. Good(x, c)
    BY <1>2, SoundIs
  <2>2. CASE Arrays!clear(a)
    <3>1. Arrays!Becomes(a, [x EXCEPT !.size = 0], <<>>)
      BY <2>2 DEF Arrays!clear
    <3> HIDE DEF x, c
    <3>2. x = [capacity |-> k, size |-> n, pdata |-> p] /\ k \in 0 .. Most
      BY <2>1 DEF Good
    <3>3. CASE p = None
      <4> HIDE DEF k, n
      <4>1. [x EXCEPT !.size = 0] = [capacity |-> k, size |-> 0, pdata |-> None]
        BY <3>2, <3>3
      <4> QED
        BY <3>1, <3>2, <4>1, BecomesEmpty
    <3>4. CASE p # None
      <4>1. PICK m : HasPlaces(x, m, Len(c), p) /\ m \in Nat
        BY <2>1, <3>4, MemoryIs
      <4> DEFINE e == <<>>
      <4>2. Len(e) = 0 /\ e \in Seq(Elements) /\ Len(e) <= m
        BY <4>1
      <4>3. Arrays!Becomes(a, [x EXCEPT !.size = Len(e)], e)
        BY <3>1, <4>2
      <4> HIDE DEF e, p
      <4>4. \A i \in 1 .. Len(e) : e[i] \in {Junk, p[i - 1]}
        BY <4>2
      <4> QED
        BY <4>1, <4>2, <4>3, <4>4, BecomesHeld
    <3> QED
      BY <3>3, <3>4
  <2>3. CASE Arrays!free(a)
    <3>1. Arrays!Becomes(a, [x EXCEPT !.pdata = None], IF n = 0 THEN <<>> ELSE Lost)
      BY <2>3 DEF Arrays!free
    <3> HIDE DEF x, c
    <3>2. x = [capacity |-> k, size |-> n, pdata |-> p] /\ k \in 0 .. Most
      BY <2>1 DEF Good
    <3> HIDE DEF k, n, p
    <3>3. [x EXCEPT !.pdata = None] = [capacity |-> k, size |-> n, pdata |-> None]
      BY <3>2
    <3>4. CASE n = 0
      <4>1. Arrays!Becomes(a, [x EXCEPT !.pdata = None], <<>>)
        BY <3>1, <3>4
      <4> QED
        BY <3>2, <3>3, <3>4, <4>1, BecomesEmpty
    <3>5. CASE n # 0
      <4>1. Arrays!Becomes(a, [x EXCEPT !.pdata = None], Lost)
        BY <3>1, <3>5
      <4> QED
        BY <4>1, BecomesGood
    <3> QED
      BY <3>4, <3>5
  <2> QED
    BY <1>1, <2>2, <2>3
<1> QED
  BY <1>1, <1>2 DEF Arrays!clear, Arrays!free

LEMMA CopyBecomes ==
  ASSUME ArraysInv, NEW a \in ArrayNames, NEW b \in ArrayNames, Arrays!copy(a, b)
  PROVE  ArraysInv'
<1> DEFINE x == arrays[b]
           c == arrayContent[b]
           k == x.capacity
           n == x.size
           p == x.pdata
<1>1. Arrays!Sound(b)
  BY DEF Arrays!copy
<1>2. Good(x, c)
  BY <1>1, SoundIs
<1>3. CASE Arrays!Becomes(a, arrays[a], IF arrayContent[a] = <<>> THEN <<>> ELSE Lost)
  <2>1. CASE arrayContent[a] = <<>> /\ arrayContent[a] # Lost
    <3>1. Good(arrays[a], <<>>)
      BY <2>1 DEF ArraysInv, Arrays!Sound
    <3> QED
      BY <1>3, <2>1, <3>1, BecomesGood
  <2>2. CASE ~(arrayContent[a] = <<>> /\ arrayContent[a] # Lost)
    <3>1. Arrays!Becomes(a, arrays[a], Lost)
      BY <1>3, <2>2
    <3> QED
      BY <3>1, BecomesGood
  <2> QED
    BY <2>1, <2>2
<1>4. CASE Arrays!Becomes(a, x, Arrays!Within(x, k, c))
  <2>1. Arrays!Within(x, k, c) = c \/ Arrays!Within(x, k, c) = Lost
    BY DEF Arrays!Within
  <2> HIDE DEF x, c, k
  <2> QED
    BY <1>2, <1>4, <2>1, BecomesGood
<1>5. CASE Arrays!Becomes(a, [x EXCEPT !.pdata = None], IF n = 0 THEN <<>> ELSE Lost)
  <2> HIDE DEF x, c
  <2>1. x = [capacity |-> k, size |-> n, pdata |-> p] /\ k \in 0 .. Most
    BY <1>2 DEF Good
  <2> HIDE DEF k, p
  <2>2. CASE n = 0
    <3>1. Arrays!Becomes(a, [x EXCEPT !.pdata = None], <<>>)
      BY <1>5, <2>2
    <3> HIDE DEF n
    <3>2. [x EXCEPT !.pdata = None] = [capacity |-> k, size |-> 0, pdata |-> None]
      BY <2>1, <2>2
    <3> QED
      BY <2>1, <3>1, <3>2, BecomesEmpty
  <2>3. CASE n # 0
    <3>1. Arrays!Becomes(a, [x EXCEPT !.pdata = None], Lost)
      BY <1>5, <2>3
    <3> QED
      BY <3>1, BecomesGood
  <2> QED
    BY <2>2, <2>3
<1> QED
  BY <1>3, <1>4, <1>5 DEF Arrays!copy

LEMMA MoveKeeps ==
  ASSUME ArraysInv, NEW a \in ArrayNames, NEW b \in ArrayNames, Arrays!move(a, b)
  PROVE  ArraysInv'
<1> DEFINE x == arrays[b]
           c == arrayContent[b]
           R == Arrays!Reset
<1>1. /\ a # b /\ Good(x, c)
      /\ arrays' = [arrays EXCEPT ![a] = x, ![b] = R] /\ arrayContent' = [arrayContent EXCEPT ![a] = c, ![b] = <<>>]
  BY SoundIs DEF Arrays!move
<1>2. Good(R, <<>>)
  BY ResetIsGood
<1> HIDE DEF x, c, R
<1>3. /\ arrays' = [i \in ArrayNames |-> IF i = b THEN R ELSE IF i = a THEN x ELSE arrays[i]]
      /\ arrayContent' = [i \in ArrayNames |-> IF i = b THEN <<>> ELSE IF i = a THEN c ELSE arrayContent[i]]
  BY <1>1 DEF ArraysInv
<1>4. ASSUME NEW i \in ArrayNames, Arrays!Sound(i)'
      PROVE  Good(arrays[i], arrayContent[i])'
  <2>1. \/ arrays'[i] = R /\ arrayContent'[i] = <<>>
        \/ arrays'[i] = x /\ arrayContent'[i] = c
        \/ arrays'[i] = arrays[i] /\ arrayContent'[i] = arrayContent[i]
    BY <1>3
  <2>2. CASE arrays'[i] = arrays[i] /\ arrayContent'[i] = arrayContent[i]
    <3>1. Good(arrays[i], arrayContent[i])
      BY <1>4, <2>2 DEF ArraysInv, Arrays!Sound
    <3> QED
      BY <2>2, <3>1 DEF Good
  <2>3. CASE arrays'[i] = R /\ arrayContent'[i] = <<>>
    BY <1>2, <2>3 DEF Good
  <2>4. CASE arrays'[i] = x /\ arrayContent'[i] = c
    BY <1>1, <2>4 DEF Good
  <2> QED
    BY <2>1, <2>2, <2>3, <2>4
<1>5. /\ arrays' = [i \in ArrayNames |-> arrays'[i]]
      /\ arrayContent' = [i \in ArrayNames |-> arrayContent'[i]]
  BY <1>3
<1> QED
  BY <1>4, <1>5 DEF ArraysInv

LEMMA ArraysKeep ==
  ASSUME ArraysInv, [Arrays!Next]_arrayVars
  PROVE  ArraysInv'
<1>1. CASE UNCHANGED arrayVars
  BY <1>1 DEF arrayVars, ArraysInv, Arrays!Sound, Good
<1>2. ASSUME NEW a \in ArrayNames, Arrays!Step(a)
      PROVE  ArraysInv'
  <2>1. CASE \/ Arrays!GrowFails(a) \/ Arrays!resize(a) \/ Arrays!add_back(a) \/ Arrays!realloc(a)
    BY <2>1, GrowsKept, EnsuredBecomes
  <2>2. CASE \/ Arrays!pop_back(a) \/ Arrays!pop_front(a) \/ Arrays!remove_from(a)
             \/ Arrays!remove_from_fast(a) \/ Arrays!shift(a)
    BY <2>2, PopBecomes, RemoveBecomes, ShiftBecomes
  <2>3. CASE Arrays!clear(a) \/ Arrays!free(a) \/ Arrays!reset(a)
    BY <2>3, EmptyBecomes
  <2>4. ASSUME NEW v \in Values, Arrays!push_back(a, v) \/ Arrays!push_front(a, v)
        PROVE  ArraysInv'
    BY <2>4, PushBecomes
  <2>5. ASSUME NEW b \in ArrayNames, Arrays!insert_from(a, b) \/ Arrays!copy(a, b) \/ Arrays!move(a, b)
        PROVE  ArraysInv'
    BY <2>5, InsertBecomes, CopyBecomes, MoveKeeps
  <2> QED
    BY <1>2, <2>1, <2>2, <2>3, <2>4, <2>5 DEF Arrays!Step
<1> QED
  BY <1>1, <1>2 DEF Arrays!Next
-----------------------------------------------------------------------------
(***************************************************************************)
(* The hash map.                                                           *)
(***************************************************************************)

Items == {[key |-> e[1], val |-> e[2]] : e \in MapEntries}
Entry(b) == b \notin {Empty, Tomb}

Places(x) == 0 .. x.cap - 1

\* A table with its buckets; one of no capacity has none.
IsTable(x) ==
  /\ x = [cap |-> x.cap, bucket |-> x.bucket, size |-> x.size, tombs |-> x.tombs]
  /\ x.cap > 0 => x.bucket = [i \in Places(x) |-> x.bucket[i]]
  /\ x.cap \in Nat /\ x.size \in Nat /\ x.tombs \in Nat
  /\ x.cap = 0 \/ x.cap >= LeastCap
  /\ \A i \in Places(x) : x.bucket[i] \in Items \cup {Empty, Tomb}

LEMMA ItemIs ==
  ASSUME NEW b \in Items
  PROVE  /\ Entry(b) /\ b.key \in MapKeys /\ b.val # None
         /\ \E e \in MapEntries : b = [key |-> e[1], val |-> e[2]]
<1>1. PICK e \in MapEntries : b = [key |-> e[1], val |-> e[2]]
  BY DEF Items
<1> QED
  BY <1>1, HashAssumption DEF Entry

(* The bucket met after d steps.                                           *)
LEMMA NthIs ==
  ASSUME NEW x, IsTable(x), x.cap > 0, NEW k \in MapKeys
  PROVE  /\ Hash!First(x, k) \in Places(x)
         /\ \A d \in Places(x) :
              /\ Hash!Nth(x, k, d) \in Places(x)
              /\ Hash!Nth(x, k, d) = IF Hash!First(x, k) + d < x.cap THEN Hash!First(x, k) + d
                                    ELSE Hash!First(x, k) + d - x.cap
<1>1. x.cap \in Nat /\ HashFn[k] \in Nat
  BY HashAssumption DEF IsTable
<1>2. Hash!First(x, k) \in Places(x)
  <2>1. HashFn[k] % x.cap \in 0 .. x.cap - 1
    BY <1>1
  <2> QED
    BY <2>1 DEF Hash!First, Places
<1>3. ASSUME NEW d \in Places(x)
      PROVE  Hash!Nth(x, k, d) = IF Hash!First(x, k) + d < x.cap THEN Hash!First(x, k) + d
                                 ELSE Hash!First(x, k) + d - x.cap
  <2> DEFINE i == Hash!First(x, k) + d
  <2>1. i \in Nat /\ i < x.cap + x.cap /\ x.cap \in Nat \ {0}
    BY <1>1, <1>2, <1>3 DEF Places
  <2>2. i % x.cap = IF i < x.cap THEN i ELSE i - x.cap
    <3> HIDE DEF i
    <3> QED
      BY <2>1, Around
  <2> QED
    BY <1>1, <1>2, <2>2 DEF Hash!Nth, Places
<1> QED
  BY <1>1, <1>2, <1>3 DEF Places

(* A search that goes on long enough meets every bucket, each once.        *)
LEMMA MeetsAll ==
  ASSUME NEW x, IsTable(x), x.cap > 0, NEW k \in MapKeys, NEW i \in Places(x)
  PROVE  \E d \in Places(x) : Hash!Nth(x, k, d) = i
<1> DEFINE f == Hash!First(x, k)
           d == IF i >= f THEN i - f ELSE i - f + x.cap
<1>1. x.cap \in Nat /\ i \in Nat /\ i < x.cap /\ f \in Nat /\ f < x.cap
  BY NthIs DEF IsTable, Places
<1>2. d \in Places(x)
  BY <1>1 DEF Places
<1>3. Hash!Nth(x, k, d) = IF f + d < x.cap THEN f + d ELSE f + d - x.cap
  BY <1>2, NthIs
<1>4. (IF f + d < x.cap THEN f + d ELSE f + d - x.cap) = i
  <2> HIDE DEF f
  <2> QED
    BY <1>1
<1> QED
  BY <1>2, <1>3, <1>4

(* The first distance of a set.                                            *)
LEMMA FirstIn ==
  ASSUME NEW N \in Nat, NEW S, S \subseteq 0 .. N - 1, S # {}
  PROVE  \E d \in S : \A e \in 0 .. d - 1 : e \notin S
<1>1. PICK d \in S : \A y \in S : d <= y
  <2>1. S \subseteq Nat
    OBVIOUS
  <2> QED
    BY <2>1, Least
<1>2. \A e \in 0 .. d - 1 : ~ (d <= e)
  BY <1>1
<1> QED
  BY <1>1, <1>2

LEMMA StopIs ==
  ASSUME NEW x, IsTable(x), x.cap > 0, NEW k \in MapKeys,
         \E i \in Places(x) : x.bucket[i] = Empty
  PROVE  \E d \in Places(x) :
           /\ Hash!Stop(x, k) = Hash!Nth(x, k, d)
           /\ Hash!Met(x, k, d) = Empty \/ Hash!Has(Hash!Met(x, k, d), k)
           /\ \A e \in 0 .. d - 1 : Hash!Met(x, k, e) # Empty /\ ~ Hash!Has(Hash!Met(x, k, e), k)
<1> DEFINE EndsAt(d) == Hash!Met(x, k, d) = Empty \/ Hash!Has(Hash!Met(x, k, d), k)
           S == {d \in Places(x) : EndsAt(d)}
           c == CHOOSE d \in 0 .. x.cap - 1 : EndsAt(d) /\ \A e \in 0 .. d - 1 : ~ EndsAt(e)
<1>1. S # {}
  <2>1. PICK i \in Places(x) : x.bucket[i] = Empty
    OBVIOUS
  <2>2. PICK d \in Places(x) : Hash!Nth(x, k, d) = i
    BY MeetsAll
  <2> QED
    BY <2>1, <2>2 DEF Hash!Met
<1>2. \E d \in 0 .. x.cap - 1 : EndsAt(d) /\ \A e \in 0 .. d - 1 : ~ EndsAt(e)
  <2>1. S \subseteq 0 .. x.cap - 1 /\ x.cap \in Nat
    BY DEF Places, IsTable
  <2>2. PICK d \in S : \A e \in 0 .. d - 1 : e \notin S
    <3> HIDE DEF S
    <3> QED
      BY <1>1, <2>1, FirstIn
  <2>3. \A e \in 0 .. d - 1 : e \in Places(x)
    BY <2>1 DEF Places
  <2> HIDE DEF EndsAt
  <2> QED
    BY <2>2, <2>3, <2>1
<1>3. c \in 0 .. x.cap - 1 /\ EndsAt(c) /\ \A e \in 0 .. c - 1 : ~ EndsAt(e)
  <2> HIDE DEF EndsAt
  <2> QED
    BY <1>2
<1>4. Hash!Stop(x, k) = Hash!Nth(x, k, c)
  BY DEF Hash!Stop, Hash!Search
<1> HIDE DEF c
<1> QED
  BY <1>3, <1>4 DEF Places
LEMMA FirstEmptyIs ==
  ASSUME NEW x, IsTable(x), x.cap > 0, NEW k \in MapKeys,
         \E i \in Places(x) : x.bucket[i] = Empty
  PROVE  \E d \in Places(x) :
           /\ Hash!FirstEmpty(x, k) = Hash!Nth(x, k, d)
           /\ Hash!Met(x, k, d) = Empty
           /\ \A e \in 0 .. d - 1 : Hash!Met(x, k, e) # Empty
<1> DEFINE EndsAt(d) == Hash!Met(x, k, d) = Empty
           S == {d \in Places(x) : EndsAt(d)}
           c == CHOOSE d \in 0 .. x.cap - 1 : EndsAt(d) /\ \A e \in 0 .. d - 1 : ~ EndsAt(e)
<1>1. S # {}
  <2>1. PICK i \in Places(x) : x.bucket[i] = Empty
    OBVIOUS
  <2>2. PICK d \in Places(x) : Hash!Nth(x, k, d) = i
    BY MeetsAll
  <2> QED
    BY <2>1, <2>2 DEF Hash!Met
<1>2. \E d \in 0 .. x.cap - 1 : EndsAt(d) /\ \A e \in 0 .. d - 1 : ~ EndsAt(e)
  <2>1. S \subseteq 0 .. x.cap - 1 /\ x.cap \in Nat
    BY DEF Places, IsTable
  <2>2. PICK d \in S : \A e \in 0 .. d - 1 : e \notin S
    <3> HIDE DEF S
    <3> QED
      BY <1>1, <2>1, FirstIn
  <2>3. \A e \in 0 .. d - 1 : e \in Places(x)
    BY <2>1 DEF Places
  <2> HIDE DEF EndsAt
  <2> QED
    BY <2>2, <2>3, <2>1
<1>3. c \in 0 .. x.cap - 1 /\ EndsAt(c) /\ \A e \in 0 .. c - 1 : ~ EndsAt(e)
  <2> HIDE DEF EndsAt
  <2> QED
    BY <1>2
<1>4. Hash!FirstEmpty(x, k) = Hash!Nth(x, k, c)
  BY DEF Hash!FirstEmpty, Hash!Search
<1> HIDE DEF c
<1> QED
  BY <1>3, <1>4 DEF Places

LEMMA FirstTombIs ==
  ASSUME NEW x, IsTable(x), x.cap > 0, NEW k \in MapKeys,
         \E i \in Places(x) : x.bucket[i] = Empty
  PROVE  \E d \in Places(x) :
           /\ Hash!FirstTomb(x, k) = Hash!Nth(x, k, d)
           /\ ~ Hash!IsEntry(Hash!Met(x, k, d)) \/ Hash!Has(Hash!Met(x, k, d), k)
           /\ \A e \in 0 .. d - 1 : Hash!IsEntry(Hash!Met(x, k, e)) /\ ~ Hash!Has(Hash!Met(x, k, e), k)
<1> DEFINE EndsAt(d) == ~ Hash!IsEntry(Hash!Met(x, k, d)) \/ Hash!Has(Hash!Met(x, k, d), k)
           S == {d \in Places(x) : EndsAt(d)}
           c == CHOOSE d \in 0 .. x.cap - 1 : EndsAt(d) /\ \A e \in 0 .. d - 1 : ~ EndsAt(e)
<1>1. S # {}
  <2>1. PICK i \in Places(x) : x.bucket[i] = Empty
    OBVIOUS
  <2>2. PICK d \in Places(x) : Hash!Nth(x, k, d) = i
    BY MeetsAll
  <2> QED
    BY <2>1, <2>2 DEF Hash!Met, Hash!IsEntry
<1>2. \E d \in 0 .. x.cap - 1 : EndsAt(d) /\ \A e \in 0 .. d - 1 : ~ EndsAt(e)
  <2>1. S \subseteq 0 .. x.cap - 1 /\ x.cap \in Nat
    BY DEF Places, IsTable
  <2>2. PICK d \in S : \A e \in 0 .. d - 1 : e \notin S
    <3> HIDE DEF S
    <3> QED
      BY <1>1, <2>1, FirstIn
  <2>3. \A e \in 0 .. d - 1 : e \in Places(x)
    BY <2>1 DEF Places
  <2> HIDE DEF EndsAt
  <2> QED
    BY <2>2, <2>3, <2>1
<1>3. c \in 0 .. x.cap - 1 /\ EndsAt(c) /\ \A e \in 0 .. c - 1 : ~ EndsAt(e)
  <2> HIDE DEF EndsAt
  <2> QED
    BY <1>2
<1>4. Hash!FirstTomb(x, k) = Hash!Nth(x, k, c)
  BY DEF Hash!FirstTomb, Hash!Search
<1> HIDE DEF c
<1> QED
  BY <1>3, <1>4 DEF Places

(* While fewer buckets are used than there are, one is empty.              *)
Occupied(x) == {i \in Places(x) : Entry(x.bucket[i])}
Tombs(x) == {i \in Places(x) : x.bucket[i] = Tomb}

LEMMA CountsAre ==
  ASSUME NEW x, IsTable(x)
  PROVE  /\ IsFiniteSet(Places(x)) /\ Cardinality(Places(x)) = x.cap
         /\ IsFiniteSet(Occupied(x)) /\ Cardinality(Occupied(x)) \in Nat
         /\ IsFiniteSet(Tombs(x)) /\ Cardinality(Tombs(x)) \in Nat
<1>1. IsFiniteSet(Places(x)) /\ Cardinality(Places(x)) = x.cap
  <2>1. 0 \in Int /\ x.cap - 1 \in Int
    BY DEF IsTable
  <2>2. IsFiniteSet(0 .. x.cap - 1)
        /\ Cardinality(0 .. x.cap - 1) = IF 0 > x.cap - 1 THEN 0 ELSE x.cap - 1 - 0 + 1
    BY <2>1, FS_Interval
  <2>3. x.cap \in Nat
    BY DEF IsTable
  <2> QED
    BY <2>2, <2>3 DEF Places
<1>2. Occupied(x) \subseteq Places(x) /\ Tombs(x) \subseteq Places(x)
  BY DEF Occupied, Tombs
<1> QED
  BY <1>1, <1>2, FS_Subset, FS_CardinalityType

LEMMA OneEmpty ==
  ASSUME NEW x, IsTable(x), Cardinality(Occupied(x)) + Cardinality(Tombs(x)) < x.cap
  PROVE  \E i \in Places(x) : x.bucket[i] = Empty
<1> SUFFICES ASSUME \A i \in Places(x) : x.bucket[i] # Empty PROVE FALSE
  OBVIOUS
<1>1. Places(x) = Occupied(x) \cup Tombs(x)
  BY DEF Occupied, Tombs, Entry
<1>2. Occupied(x) \cap Tombs(x) = {}
  BY DEF Occupied, Tombs, Entry
<1>3. Cardinality(Places(x)) = Cardinality(Occupied(x)) + Cardinality(Tombs(x)) - Cardinality({})
  BY <1>1, <1>2, CountsAre, FS_Union
<1> QED
  BY <1>3, CountsAre, FS_EmptySet

\* y is x but for bucket i, which is b.
Changed(x, y, i, b) ==
  /\ y.cap = x.cap
  /\ \A j \in Places(x) : y.bucket[j] = IF j = i THEN b ELSE x.bucket[j]

LEMMA FilledIs ==
  ASSUME NEW x, IsTable(x), NEW i \in Places(x), NEW b \in Items \cup {Empty, Tomb},
         NEW s \in Nat, NEW t \in Nat,
         NEW y, y = [cap |-> x.cap, bucket |-> [x.bucket EXCEPT ![i] = b], size |-> s, tombs |-> t]
  PROVE  IsTable(y) /\ Changed(x, y, i, b) /\ y.size = s /\ y.tombs = t
<1> DEFINE B == x.bucket
<1>1. x.cap \in Nat /\ x.cap > 0 /\ B = [j \in Places(x) |-> B[j]] /\ x.cap >= LeastCap
      /\ \A j \in Places(x) : B[j] \in Items \cup {Empty, Tomb}
  <2>1. x.cap > 0
    BY DEF Places, IsTable
  <2> QED
    BY <2>1 DEF IsTable
<1> HIDE DEF B
<1>2. y.cap = x.cap /\ y.size = s /\ y.tombs = t /\ y.bucket = [B EXCEPT ![i] = b]
  BY DEF B
<1>3. y = [cap |-> y.cap, bucket |-> y.bucket, size |-> y.size, tombs |-> y.tombs]
  BY <1>2 DEF B
<1>4. Places(y) = Places(x)
  BY <1>2 DEF Places
<1>5. /\ [B EXCEPT ![i] = b] = [j \in Places(x) |-> [B EXCEPT ![i] = b][j]]
      /\ \A j \in Places(x) : [B EXCEPT ![i] = b][j] = IF j = i THEN b ELSE B[j]
  BY <1>1
<1>6. Changed(x, y, i, b)
  BY <1>2, <1>5 DEF Changed, B
<1>7. IsTable(y)
  <2>1. \A j \in Places(y) : y.bucket[j] \in Items \cup {Empty, Tomb}
    BY <1>1, <1>2, <1>4, <1>5
  <2>2. y.bucket = [j \in Places(y) |-> y.bucket[j]]
    BY <1>2, <1>4, <1>5
  <2> QED
    BY <1>1, <1>2, <1>3, <2>1, <2>2 DEF IsTable
<1> QED
  BY <1>2, <1>6, <1>7

LEMMA StoredIs ==
  ASSUME NEW x, IsTable(x), NEW i \in Places(x), NEW k, NEW v, [key |-> k, val |-> v] \in Items,
         x.bucket[i] = Tomb => x.tombs > 0
  PROVE  LET y == Hash!Stored(x, i, k, v) IN
         /\ IsTable(y) /\ Changed(x, y, i, [key |-> k, val |-> v])
         /\ y.size = IF Hash!Has(x.bucket[i], k) THEN x.size ELSE x.size + 1
         /\ y.tombs = IF x.bucket[i] = Tomb THEN x.tombs - 1 ELSE x.tombs
<1> DEFINE y == Hash!Stored(x, i, k, v)
           b == [key |-> k, val |-> v]
           s == IF Hash!Has(x.bucket[i], k) THEN x.size ELSE x.size + 1
           t == IF x.bucket[i] = Tomb THEN x.tombs - 1 ELSE x.tombs
<1>1. s \in Nat /\ t \in Nat
  BY DEF IsTable
<1>2. y = [cap |-> x.cap, bucket |-> [x.bucket EXCEPT ![i] = b], size |-> s, tombs |-> t]
  <2> DEFINE B == [x.bucket EXCEPT ![i] = b]
  <2>1. y = [x EXCEPT !.bucket = B, !.size = s, !.tombs = t]
    BY DEF Hash!Stored
  <2>2. x = [cap |-> x.cap, bucket |-> x.bucket, size |-> x.size, tombs |-> x.tombs]
    BY DEF IsTable
  <2> HIDE DEF y, B, s, t
  <2>3. y = [cap |-> x.cap, bucket |-> B, size |-> s, tombs |-> t]
    BY <2>1, <2>2
  <2> QED
    BY <2>3 DEF B
<1>3. b \in Items \cup {Empty, Tomb}
  OBVIOUS
<1> HIDE DEF y, s, t, b
<1>4. IsTable(y) /\ Changed(x, y, i, b) /\ y.size = s /\ y.tombs = t
  BY <1>1, <1>2, <1>3, FilledIs
<1> QED
  BY <1>4 DEF y, s, t, b

LEMMA EmptiedIs ==
  ASSUME NEW x, IsTable(x), NEW i \in Places(x), x.size > 0
  PROVE  LET y == Hash!emptied(x, i) IN
         /\ IsTable(y) /\ Changed(x, y, i, Tomb)
         /\ y.size = x.size - 1 /\ y.tombs = x.tombs + 1
<1> DEFINE y == Hash!emptied(x, i)
           s == x.size - 1
           t == x.tombs + 1
<1>1. s \in Nat /\ t \in Nat
  BY DEF IsTable
<1>2. y = [cap |-> x.cap, bucket |-> [x.bucket EXCEPT ![i] = Tomb], size |-> s, tombs |-> t]
  <2> DEFINE B == [x.bucket EXCEPT ![i] = Tomb]
  <2>1. y = [x EXCEPT !.bucket = B, !.size = s, !.tombs = t]
    BY DEF Hash!emptied
  <2>2. x = [cap |-> x.cap, bucket |-> x.bucket, size |-> x.size, tombs |-> x.tombs]
    BY DEF IsTable
  <2> HIDE DEF y, B, s, t
  <2>3. y = [cap |-> x.cap, bucket |-> B, size |-> s, tombs |-> t]
    BY <2>1, <2>2
  <2> QED
    BY <2>3 DEF B
<1> HIDE DEF y, s, t
<1>4. IsTable(y) /\ Changed(x, y, i, Tomb) /\ y.size = s /\ y.tombs = t
  BY <1>1, <1>2, FilledIs, SMTT(20)
<1> QED
  BY <1>4 DEF y, s, t

LEMMA ReinsertIs ==
  ASSUME NEW x, IsTable(x), NEW e \in Items, Hash!FirstEmpty(x, e.key) \in Places(x)
  PROVE  LET y == Hash!Reinsert(x, e) IN
         /\ IsTable(y) /\ Changed(x, y, Hash!FirstEmpty(x, e.key), e)
         /\ y.size = x.size + 1 /\ y.tombs = x.tombs
<1> DEFINE y == Hash!Reinsert(x, e)
           i == Hash!FirstEmpty(x, e.key)
           s == x.size + 1
           t == x.tombs
<1>1. s \in Nat /\ t \in Nat
  BY DEF IsTable
<1>2. y = [cap |-> x.cap, bucket |-> [x.bucket EXCEPT ![i] = e], size |-> s, tombs |-> t]
  <2> DEFINE B == [x.bucket EXCEPT ![i] = e]
  <2>1. y = [x EXCEPT !.bucket = B, !.size = s]
    BY DEF Hash!Reinsert
  <2>2. x = [cap |-> x.cap, bucket |-> x.bucket, size |-> x.size, tombs |-> x.tombs]
    BY DEF IsTable
  <2> HIDE DEF y, B, s
  <2>3. y = [cap |-> x.cap, bucket |-> B, size |-> s, tombs |-> x.tombs]
    BY <2>1, <2>2
  <2> QED
    BY <2>3 DEF B
<1> HIDE DEF y, s, t, i
<1>4. IsTable(y) /\ Changed(x, y, i, e) /\ y.size = s /\ y.tombs = t
  BY <1>1, <1>2, FilledIs DEF i
<1> QED
  BY <1>4 DEF y, s, t, i

(* What a change of one bucket does to the sets that are counted.          *)
LEMMA CountsChange ==
  ASSUME NEW x, IsTable(x), NEW y, IsTable(y), NEW i \in Places(x), NEW b, Changed(x, y, i, b)
  PROVE  /\ Places(y) = Places(x)
         /\ Entry(b) /\ ~ Entry(x.bucket[i]) => Cardinality(Occupied(y)) = Cardinality(Occupied(x)) + 1
         /\ Entry(b) /\ Entry(x.bucket[i]) => Cardinality(Occupied(y)) = Cardinality(Occupied(x))
         /\ ~ Entry(b) /\ Entry(x.bucket[i]) => Cardinality(Occupied(y)) = Cardinality(Occupied(x)) - 1
         /\ b = Tomb /\ x.bucket[i] # Tomb => Cardinality(Tombs(y)) = Cardinality(Tombs(x)) + 1
         /\ b # Tomb /\ x.bucket[i] # Tomb => Cardinality(Tombs(y)) = Cardinality(Tombs(x))
         /\ b # Tomb /\ x.bucket[i] = Tomb => Cardinality(Tombs(y)) = Cardinality(Tombs(x)) - 1
<1>1. Places(y) = Places(x)
  BY DEF Changed, Places
<1>2. \A j \in Places(x) : y.bucket[j] = IF j = i THEN b ELSE x.bucket[j]
  BY DEF Changed
<1>3. /\ Entry(b) => Occupied(y) = Occupied(x) \cup {i}
      /\ ~ Entry(b) => Occupied(y) = Occupied(x) \ {i}
      /\ b = Tomb => Tombs(y) = Tombs(x) \cup {i}
      /\ b # Tomb => Tombs(y) = Tombs(x) \ {i}
  BY <1>1, <1>2 DEF Occupied, Tombs
<1>4. /\ i \in Occupied(x) <=> Entry(x.bucket[i])
      /\ i \in Tombs(x) <=> x.bucket[i] = Tomb
  BY DEF Occupied, Tombs
<1>5. IsFiniteSet(Occupied(x)) /\ IsFiniteSet(Tombs(x))
  BY CountsAre
<1>6. ASSUME NEW S, IsFiniteSet(S)
      PROVE  /\ Cardinality(S \cup {i}) = IF i \in S THEN Cardinality(S) ELSE Cardinality(S) + 1
             /\ Cardinality(S \ {i}) = IF i \in S THEN Cardinality(S) - 1 ELSE Cardinality(S)
  BY <1>6, FS_AddElement, FS_RemoveElement
<1> QED
  BY <1>1, <1>3, <1>4, <1>5, <1>6

\* The search for k meets its bucket after d steps, and no empty one before.
Leads(x, k, d) ==
  /\ Hash!Has(Hash!Met(x, k, d), k)
  /\ \A e \in 0 .. d - 1 : Hash!Met(x, k, e) # Empty

\* The entries of x are those of c, and the searches lead to them.
Finds(x, c) ==
  /\ \A i \in Occupied(x) : c[x.bucket[i].key] = x.bucket[i].val
  /\ \A k \in MapKeys : c[k] # None => \E d \in Places(x) : Leads(x, k, d)
  /\ \A i, j \in Occupied(x) : x.bucket[i].key = x.bucket[j].key => i = j

\* d differs from c at k, where it is v.
Becomes(c, d, k, v) == \A j \in MapKeys : d[j] = IF j = k THEN v ELSE c[j]

LEMMA OccupiedIs ==
  ASSUME NEW x, IsTable(x), NEW i \in Occupied(x)
  PROVE  /\ i \in Places(x) /\ x.bucket[i] \in Items
         /\ x.bucket[i].key \in MapKeys /\ x.bucket[i].val # None
<1>1. i \in Places(x) /\ x.bucket[i] \in Items
  BY DEF Occupied, Entry, IsTable
<1> QED
  BY <1>1, ItemIs

(* The searches of y are those of x.                                       *)
LEMMA SameWays ==
  ASSUME NEW x, IsTable(x), x.cap > 0, NEW y, NEW i \in Places(x), NEW b, Changed(x, y, i, b),
         NEW k \in MapKeys, NEW d \in Places(x)
  PROVE  /\ Hash!Nth(y, k, d) = Hash!Nth(x, k, d)
         /\ Hash!Met(y, k, d) = IF Hash!Nth(x, k, d) = i THEN b ELSE Hash!Met(x, k, d)
<1>1. Hash!Nth(y, k, d) = Hash!Nth(x, k, d)
  BY DEF Changed, Hash!Nth, Hash!First
<1> QED
  BY <1>1, NthIs DEF Changed, Hash!Met

(* A bucket that becomes other than empty is in no other search's way.     *)
LEMMA LeadsStill ==
  ASSUME NEW x, IsTable(x), x.cap > 0, NEW y, NEW i \in Places(x), NEW b, Changed(x, y, i, b),
         b # Empty, NEW k \in MapKeys, NEW d \in Places(x), Leads(x, k, d),
         Hash!Nth(x, k, d) # i
  PROVE  Leads(y, k, d)
<1>1. \A e \in 0 .. d - 1 : e \in Places(x)
  BY DEF Places, IsTable
<1>2. Hash!Met(y, k, d) = Hash!Met(x, k, d)
  BY SameWays
<1>3. \A e \in 0 .. d - 1 : Hash!Met(y, k, e) = b \/ Hash!Met(y, k, e) = Hash!Met(x, k, e)
  BY <1>1, SameWays
<1> QED
  BY <1>2, <1>3 DEF Leads

LEMMA HasIs ==
  ASSUME NEW x, NEW k, NEW i
  PROVE  i \in Places(x) /\ Hash!Has(x.bucket[i], k) <=> i \in Occupied(x) /\ x.bucket[i].key = k
BY DEF Hash!Has, Hash!IsEntry, Occupied, Entry

(* An entry goes where the search for its key has met no empty bucket, and *)
(* the key is nowhere else.                                                *)
LEMMA EntryHolds ==
  ASSUME NEW x, IsTable(x), x.cap > 0, NEW y, IsTable(y), NEW i \in Places(x), NEW b \in Items,
         Changed(x, y, i, b), NEW c, NEW c2, Finds(x, c), Becomes(c, c2, b.key, b.val),
         NEW d \in Places(x), Hash!Nth(x, b.key, d) = i,
         \A e \in 0 .. d - 1 : Hash!Met(x, b.key, e) # Empty,
         \/ i \notin Occupied(x) /\ c[b.key] = None
         \/ i \in Occupied(x) /\ x.bucket[i].key = b.key
  PROVE  Finds(y, c2)
<1>1. b.key \in MapKeys /\ Entry(b) /\ b # Empty
  BY ItemIs DEF Entry
<1>2. Places(y) = Places(x)
  BY CountsChange
<1>3. \A j \in Places(x) : y.bucket[j] = IF j = i THEN b ELSE x.bucket[j]
  BY DEF Changed
<1>4. Occupied(y) = Occupied(x) \cup {i}
  BY <1>1, <1>2, <1>3 DEF Occupied
<1>5. \A j \in Occupied(x) : j # i => x.bucket[j].key # b.key
  <2> SUFFICES ASSUME NEW j \in Occupied(x), j # i, x.bucket[j].key = b.key PROVE FALSE
    OBVIOUS
  <2>1. c[b.key] = x.bucket[j].val /\ x.bucket[j].val # None
    BY OccupiedIs DEF Finds
  <2> QED
    BY <2>1 DEF Finds
<1>6. \A j \in Occupied(x) : j \in Places(x) /\ x.bucket[j].key \in MapKeys
  BY OccupiedIs
<1>7. \A j \in Occupied(y) : c2[y.bucket[j].key] = y.bucket[j].val
  BY <1>1, <1>3, <1>4, <1>5, <1>6 DEF Finds, Becomes
<1>8. \A g, h \in Occupied(y) : y.bucket[g].key = y.bucket[h].key => g = h
  BY <1>3, <1>4, <1>5, <1>6 DEF Finds
<1>9. ASSUME NEW k \in MapKeys, c2[k] # None
      PROVE  \E f \in Places(y) : Leads(y, k, f)
  <2>1. CASE k = b.key
    <3>1. Hash!Met(y, k, d) = b
      BY <1>1, <2>1, SameWays
    <3>2. \A e \in 0 .. d - 1 : e \in Places(x)
      BY DEF Places, IsTable
    <3>3. \A e \in 0 .. d - 1 : Hash!Met(y, k, e) = b \/ Hash!Met(y, k, e) = Hash!Met(x, k, e)
      <4>1. \A e \in Places(x) :
              Hash!Met(y, k, e) = IF Hash!Nth(x, k, e) = i THEN b ELSE Hash!Met(x, k, e)
        BY SameWays
      <4> QED
        BY <3>2, <4>1
    <3>4. Hash!Has(b, k)
      BY <1>1, <2>1 DEF Hash!Has, Hash!IsEntry, Entry
    <3>5. Leads(y, k, d)
      BY <3>1, <3>3, <3>4, <1>1, <2>1 DEF Leads
    <3> QED
      BY <3>5, <1>2
  <2>2. CASE k # b.key
    <3>1. c[k] # None
      BY <1>9, <2>2 DEF Becomes
    <3>2. PICK f \in Places(x) : Leads(x, k, f)
      BY <3>1 DEF Finds
    <3>3. Hash!Nth(x, k, f) \in Occupied(x) /\ x.bucket[Hash!Nth(x, k, f)].key = k
      BY <3>2, NthIs, HasIs, ZenonT(30) DEF Leads, Hash!Met
    <3>4. Hash!Nth(x, k, f) # i
      BY <3>3, <2>2
    <3> QED
      BY <3>2, <3>4, <1>1, <1>2, LeadsStill
  <2> QED
    BY <2>1, <2>2
<1> QED
  BY <1>7, <1>8, <1>9 DEF Finds

(* The key of a tombstone is gone.                                         *)
LEMMA TombHolds ==
  ASSUME NEW x, IsTable(x), x.cap > 0, NEW y, IsTable(y), NEW i \in Occupied(x),
         Changed(x, y, i, Tomb), NEW c, NEW c2, Finds(x, c), Becomes(c, c2, x.bucket[i].key, None)
  PROVE  Finds(y, c2)
<1>0. i \in Places(x)
  BY OccupiedIs
<1>2. Places(y) = Places(x)
  BY <1>0, CountsChange
<1>3. \A j \in Places(x) : y.bucket[j] = IF j = i THEN Tomb ELSE x.bucket[j]
  BY DEF Changed
<1>4. Occupied(y) = Occupied(x) \ {i}
  BY <1>2, <1>3 DEF Occupied, Entry
<1>5. \A j \in Occupied(y) : x.bucket[j].key # x.bucket[i].key
  BY <1>4 DEF Finds
<1>6. \A j \in Occupied(x) : j \in Places(x) /\ x.bucket[j].key \in MapKeys
  BY OccupiedIs
<1>7. \A j \in Occupied(y) : c2[y.bucket[j].key] = y.bucket[j].val
  <2> TAKE j \in Occupied(y)
  <2>1. j \in Occupied(x) /\ j # i /\ y.bucket[j] = x.bucket[j]
    BY <1>3, <1>4, <1>6
  <2>2. c2[x.bucket[j].key] = c[x.bucket[j].key]
    BY <1>5, <1>6, <2>1 DEF Becomes
  <2> QED
    BY <2>1, <2>2 DEF Finds
<1>8. \A g, h \in Occupied(y) : y.bucket[g].key = y.bucket[h].key => g = h
  <2> TAKE g, h \in Occupied(y)
  <2>1. g \in Occupied(x) /\ h \in Occupied(x) /\ y.bucket[g] = x.bucket[g] /\ y.bucket[h] = x.bucket[h]
    BY <1>3, <1>4, <1>6
  <2> QED
    BY <2>1 DEF Finds
<1>9. ASSUME NEW k \in MapKeys, c2[k] # None
      PROVE  \E f \in Places(y) : Leads(y, k, f)
  <2>1. k # x.bucket[i].key /\ c[k] # None
    BY <1>9 DEF Becomes
  <2>2. PICK f \in Places(x) : Leads(x, k, f)
    BY <2>1 DEF Finds
  <2>3. x.bucket[Hash!Nth(x, k, f)].key = k
    BY <2>2, NthIs, HasIs DEF Leads, Hash!Met
  <2> QED
    BY <2>1, <2>2, <2>3, <1>0, <1>2, HashAssumption, LeadsStill
<1> QED
  BY <1>7, <1>8, <1>9 DEF Finds

\* A table that can be searched, and holds c
Sound(x, c) ==
  /\ IsTable(x) /\ Finds(x, c)
  /\ x.size = Cardinality(Occupied(x)) /\ x.tombs = Cardinality(Tombs(x))
  /\ x.cap > 0 => x.size + x.tombs < x.cap

LEMMA SoundHasEmpty ==
  ASSUME NEW x, NEW c, Sound(x, c), x.cap > 0
  PROVE  \E i \in Places(x) : x.bucket[i] = Empty
BY OneEmpty DEF Sound

(* A search ends at the bucket of the key, or the key is absent.           *)
LEMMA StopsRight ==
  ASSUME NEW x, NEW c, Sound(x, c), x.cap > 0, NEW k \in MapKeys
  PROVE  /\ c[k] # None => /\ Hash!Stop(x, k) \in Occupied(x)
                           /\ x.bucket[Hash!Stop(x, k)].key = k
                           /\ x.bucket[Hash!Stop(x, k)].val = c[k]
         /\ c[k] = None => Hash!Stop(x, k) \in Places(x) /\ x.bucket[Hash!Stop(x, k)] = Empty
<1> DEFINE i == Hash!Stop(x, k)
<1>1. PICK d \in Places(x) :
        /\ i = Hash!Nth(x, k, d)
        /\ Hash!Met(x, k, d) = Empty \/ Hash!Has(Hash!Met(x, k, d), k)
        /\ \A e \in 0 .. d - 1 : Hash!Met(x, k, e) # Empty /\ ~ Hash!Has(Hash!Met(x, k, e), k)
  BY SoundHasEmpty, StopIs DEF Sound
<1> HIDE DEF i
<1>2. i \in Places(x) /\ Hash!Met(x, k, d) = x.bucket[i]
  BY <1>1, NthIs DEF Sound, Hash!Met
<1>3. CASE c[k] # None
  <2>1. PICK f \in Places(x) : Leads(x, k, f)
    BY <1>3 DEF Sound, Finds
  <2>2. ~ (f \in 0 .. d - 1) /\ ~ (d \in 0 .. f - 1 /\ x.bucket[i] = Empty)
    BY <1>1, <1>2, <2>1 DEF Leads
  <2>3. f \in Nat /\ d \in Nat
    BY DEF Places
  <2>4. f = d \/ d < f
    BY <2>2, <2>3
  <2>5. Hash!Has(x.bucket[i], k)
    BY <1>1, <1>2, <2>1, <2>2, <2>3, <2>4 DEF Leads
  <2>6. i \in Occupied(x) /\ x.bucket[i].key = k
    BY <2>5, <1>2, HasIs
  <2> QED
    BY <2>6, <1>3 DEF Sound, Finds, i
<1>4. CASE c[k] = None
  <2>1. ~ Hash!Has(x.bucket[i], k)
    <3> SUFFICES ASSUME Hash!Has(x.bucket[i], k) PROVE FALSE
      OBVIOUS
    <3>1. i \in Occupied(x) /\ x.bucket[i].key = k
      BY <1>2, HasIs
    <3> QED
      BY <3>1, <1>4, OccupiedIs DEF Sound, Finds
  <2> QED
    BY <1>1, <1>2, <1>4, <2>1 DEF i
<1> QED
  BY <1>3, <1>4

LEMMA GetIs ==
  ASSUME NEW x, NEW c, Sound(x, c), NEW k \in MapKeys
  PROVE  Hash!get(x, k) = c[k]
<1>1. CASE x.cap = 0
  <2>1. c[k] = None
    <3>1. Places(x) = {}
      BY <1>1 DEF Places
    <3> QED
      BY <3>1 DEF Sound, Finds
  <2> QED
    BY <1>1, <2>1 DEF Hash!get
<1>2. CASE x.cap # 0
  <2>1. x.cap > 0
    BY <1>2 DEF Sound, IsTable
  <2>2. CASE c[k] # None
    <3>1. Hash!Has(x.bucket[Hash!Stop(x, k)], k)
      BY <2>1, <2>2, StopsRight, HasIs
    <3> QED
      BY <2>1, <2>2, <3>1, <1>2, StopsRight DEF Hash!get
  <2>3. CASE c[k] = None
    <3>1. ~ Hash!Has(x.bucket[Hash!Stop(x, k)], k)
      BY <2>1, <2>3, StopsRight DEF Hash!Has, Hash!IsEntry
    <3> QED
      BY <2>3, <3>1 DEF Hash!get
  <2> QED
    BY <2>2, <2>3
<1> QED
  BY <1>1, <1>2

LEMMA PutIsSound ==
  ASSUME NEW x, NEW c, Sound(x, c), x.cap > 0, x.size + x.tombs + 1 < x.cap,
         NEW k, NEW v, [key |-> k, val |-> v] \in Items, NEW c2, Becomes(c, c2, k, v)
  PROVE  Sound(Hash!put(x, k, v), c2) /\ Hash!put(x, k, v).cap = x.cap
<1> DEFINE b == [key |-> k, val |-> v]
<1>0. b \in Items /\ b.key = k /\ b.val = v /\ k \in MapKeys /\ Entry(b) /\ v # None
  <2>1. b \in Items /\ b.key = k /\ b.val = v
    OBVIOUS
  <2> HIDE DEF b
  <2> QED
    BY <2>1, ItemIs
<1>1. IsTable(x) /\ x.cap \in Nat /\ x.size \in Nat /\ x.tombs \in Nat /\ Finds(x, c)
  BY DEF Sound, IsTable
<1>a. x.size = Cardinality(Occupied(x)) /\ x.tombs = Cardinality(Tombs(x))
  BY DEF Sound
<1> DEFINE s == Hash!Stop(x, k)
           f == Hash!FirstTomb(x, k)
\* where it goes
<1>2. \E i \in Places(x) : \E d \in Places(x) :
        /\ Hash!put(x, k, v) = Hash!Stored(x, i, k, v)
        /\ Hash!Nth(x, k, d) = i
        /\ \A e \in 0 .. d - 1 : Hash!Met(x, k, e) # Empty
        /\ \/ i \notin Occupied(x) /\ c[k] = None
           \/ i \in Occupied(x) /\ x.bucket[i].key = k
  <2>1. CASE c[k] # None
    <3>1. s \in Occupied(x) /\ x.bucket[s].key = k
      BY <1>0, <2>1, StopsRight
    <3>2. Hash!Has(x.bucket[s], k) /\ s \in Places(x)
      BY <3>1, HasIs
    <3>3. PICK d \in Places(x) :
            /\ s = Hash!Nth(x, k, d)
            /\ \A e \in 0 .. d - 1 : Hash!Met(x, k, e) # Empty
      BY <1>0, <1>1, SoundHasEmpty, StopIs
    <3>4. Hash!put(x, k, v) = Hash!Stored(x, s, k, v)
      BY <3>2 DEF Hash!put
    <3> HIDE DEF s
    <3> QED
      BY <3>1, <3>2, <3>3, <3>4
  <2>2. CASE c[k] = None
    <3>1. ~ Hash!Has(x.bucket[s], k)
      BY <1>0, <2>2, StopsRight DEF Hash!Has, Hash!IsEntry
    <3>2. Hash!put(x, k, v) = Hash!Stored(x, f, k, v)
      BY <3>1 DEF Hash!put
    <3>3. PICK d \in Places(x) :
            /\ f = Hash!Nth(x, k, d)
            /\ ~ Hash!IsEntry(Hash!Met(x, k, d)) \/ Hash!Has(Hash!Met(x, k, d), k)
            /\ \A e \in 0 .. d - 1 : Hash!IsEntry(Hash!Met(x, k, e)) /\ ~ Hash!Has(Hash!Met(x, k, e), k)
      BY <1>0, <1>1, SoundHasEmpty, FirstTombIs
    <3> HIDE DEF f, s
    <3>4. f \in Places(x) /\ Hash!Met(x, k, d) = x.bucket[f]
      BY <3>3, <1>0, <1>1, NthIs DEF Hash!Met
    <3>5. ~ Hash!Has(x.bucket[f], k)
      <4> SUFFICES ASSUME Hash!Has(x.bucket[f], k) PROVE FALSE
        OBVIOUS
      <4>1. f \in Occupied(x) /\ x.bucket[f].key = k
        BY <3>4, HasIs
      <4> QED
        BY <4>1, <2>2, <1>1, OccupiedIs DEF Finds
    <3>6. f \notin Occupied(x)
      BY <3>3, <3>4, <3>5 DEF Hash!IsEntry, Occupied, Entry
    <3>7. \A e \in 0 .. d - 1 : Hash!Met(x, k, e) # Empty
      BY <3>3 DEF Hash!IsEntry
    <3> QED
      BY <3>2, <3>3, <3>4, <3>6, <3>7, <2>2
  <2> QED
    BY <2>1, <2>2
<1>3. PICK i \in Places(x) : \E d \in Places(x) :
        /\ Hash!put(x, k, v) = Hash!Stored(x, i, k, v)
        /\ Hash!Nth(x, k, d) = i
        /\ \A e \in 0 .. d - 1 : Hash!Met(x, k, e) # Empty
        /\ \/ i \notin Occupied(x) /\ c[k] = None
           \/ i \in Occupied(x) /\ x.bucket[i].key = k
  BY <1>2
<1>4. PICK d \in Places(x) :
        /\ Hash!put(x, k, v) = Hash!Stored(x, i, k, v)
        /\ Hash!Nth(x, k, d) = i
        /\ \A e \in 0 .. d - 1 : Hash!Met(x, k, e) # Empty
        /\ \/ i \notin Occupied(x) /\ c[k] = None
           \/ i \in Occupied(x) /\ x.bucket[i].key = k
  BY <1>3
<1> DEFINE y == Hash!put(x, k, v)
<1>5. i \in Tombs(x) => x.tombs > 0
  BY <1>a, CountsAre, <1>1, FS_EmptySet
<1>6. /\ IsTable(y) /\ Changed(x, y, i, b)
      /\ y.size = IF Hash!Has(x.bucket[i], k) THEN x.size ELSE x.size + 1
      /\ y.tombs = IF x.bucket[i] = Tomb THEN x.tombs - 1 ELSE x.tombs
  <2>1. x.bucket[i] = Tomb => x.tombs > 0
    BY <1>5 DEF Tombs
  <2> QED
    BY <2>1, <1>0, <1>1, <1>4, StoredIs
<1> HIDE DEF y, b
<1>7. Finds(y, c2)
  BY <1>0, <1>1, <1>4, <1>6, EntryHolds
<1>8. /\ ~ Entry(x.bucket[i]) => Cardinality(Occupied(y)) = Cardinality(Occupied(x)) + 1
      /\ Entry(x.bucket[i]) => Cardinality(Occupied(y)) = Cardinality(Occupied(x))
      /\ x.bucket[i] # Tomb => Cardinality(Tombs(y)) = Cardinality(Tombs(x))
      /\ x.bucket[i] = Tomb => Cardinality(Tombs(y)) = Cardinality(Tombs(x)) - 1
  <2>1. b # Tomb
    BY <1>0 DEF Entry
  <2> QED
    BY <2>1, <1>0, <1>1, <1>6, CountsChange
<1>9. Hash!Has(x.bucket[i], k) <=> Entry(x.bucket[i])
  BY <1>4, HasIs DEF Occupied, Hash!Has, Hash!IsEntry, Entry
<1>10. y.cap = x.cap
  BY <1>6 DEF Changed
<1>11. Entry(x.bucket[i]) => x.bucket[i] # Tomb
  BY DEF Entry
<1>12. /\ y.size = Cardinality(Occupied(y)) /\ y.tombs = Cardinality(Tombs(y))
       /\ y.size + y.tombs < y.cap
  BY <1>1, <1>a, <1>6, <1>8, <1>9, <1>10, <1>11
<1> QED
  BY <1>6, <1>7, <1>10, <1>12 DEF Sound, y

LEMMA EmptiedIsSound ==
  ASSUME NEW x, NEW c, Sound(x, c), x.cap > 0, NEW i \in Occupied(x),
         NEW c2, Becomes(c, c2, x.bucket[i].key, None)
  PROVE  /\ Sound(Hash!emptied(x, i), c2) /\ Hash!emptied(x, i).cap = x.cap
         /\ Hash!emptied(x, i).size < x.size
<1> DEFINE y == Hash!emptied(x, i)
<1>1. /\ IsTable(x) /\ x.cap \in Nat /\ x.size \in Nat /\ x.tombs \in Nat /\ Finds(x, c)
      /\ x.size = Cardinality(Occupied(x)) /\ x.tombs = Cardinality(Tombs(x))
      /\ x.size + x.tombs < x.cap
  BY DEF Sound, IsTable
<1>2. i \in Places(x) /\ Entry(x.bucket[i])
  BY DEF Occupied
<1>3. x.size > 0
  BY <1>1, CountsAre, FS_EmptySet
<1>4. /\ IsTable(y) /\ Changed(x, y, i, Tomb)
      /\ y.size = x.size - 1 /\ y.tombs = x.tombs + 1
  BY <1>1, <1>2, <1>3, EmptiedIs
<1> HIDE DEF y
<1>5. Finds(y, c2)
  BY <1>1, <1>4, TombHolds
<1>6. /\ Cardinality(Occupied(y)) = Cardinality(Occupied(x)) - 1
      /\ Cardinality(Tombs(y)) = Cardinality(Tombs(x)) + 1
  <2>1. ~ Entry(Tomb) /\ x.bucket[i] # Tomb
    BY <1>2 DEF Entry
  <2> QED
    BY <2>1, <1>1, <1>2, <1>4, CountsChange
<1>7. y.cap = x.cap
  BY <1>4 DEF Changed
<1>8. y.size + y.tombs < y.cap /\ y.size < x.size
  BY <1>1, <1>4, <1>7
<1> QED
  BY <1>1, <1>4, <1>5, <1>6, <1>7, <1>8 DEF Sound, y

LEMMA NewIsSound ==
  ASSUME NEW n \in Nat, n >= LeastCap, NEW c, \A k \in MapKeys : c[k] = None
  PROVE  /\ Sound(Hash!NewTable(n), c)
         /\ Hash!NewTable(n).cap = n /\ Hash!NewTable(n).size = 0 /\ Hash!NewTable(n).tombs = 0
<1> DEFINE x == Hash!NewTable(n)
           B == [i \in 0 .. n - 1 |-> Empty]
<1>1. x = [cap |-> n, bucket |-> B, size |-> 0, tombs |-> 0]
  BY DEF Hash!NewTable
<1> HIDE DEF x, B
<1>2. x.cap = n /\ x.bucket = B /\ x.size = 0 /\ x.tombs = 0
  BY <1>1
<1>3. x = [cap |-> x.cap, bucket |-> x.bucket, size |-> x.size, tombs |-> x.tombs]
  BY <1>1, <1>2
<1>4. Places(x) = 0 .. n - 1 /\ \A i \in Places(x) : x.bucket[i] = Empty
  BY <1>2 DEF Places, B
<1>5. x.bucket = [i \in Places(x) |-> x.bucket[i]]
  BY <1>2, <1>4 DEF B
<1>6. IsTable(x)
  BY <1>2, <1>3, <1>4, <1>5 DEF IsTable
<1>7. Occupied(x) = {} /\ Tombs(x) = {}
  BY <1>4, HashAssumption DEF Occupied, Tombs, Entry
<1>8. Finds(x, c)
  BY <1>7 DEF Finds
<1>9. n > 0
  BY HashAssumption
<1> QED
  BY <1>2, <1>6, <1>7, <1>8, <1>9, FS_EmptySet DEF Sound, x

(* The table of no capacity, before the first NAME_set().                  *)
LEMMA BareIsSound ==
  ASSUME NEW x, x = [cap |-> 0, bucket |-> <<>>, size |-> 0, tombs |-> 0],
         NEW c, \A k \in MapKeys : c[k] = None
  PROVE  Sound(x, c)
<1>1. x.cap = 0 /\ x.bucket = <<>> /\ x.size = 0 /\ x.tombs = 0
  OBVIOUS
<1>2. Places(x) = {}
  BY <1>1 DEF Places
<1>3. IsTable(x)
  <2>1. x = [cap |-> x.cap, bucket |-> x.bucket, size |-> x.size, tombs |-> x.tombs]
    BY <1>1
  <2> QED
    BY <1>1, <1>2, <2>1 DEF IsTable
<1>4. Occupied(x) = {} /\ Tombs(x) = {}
  BY <1>2 DEF Occupied, Tombs
<1>5. Finds(x, c)
  BY <1>4 DEF Finds
<1>6. Cardinality(Occupied(x)) = 0 /\ Cardinality(Tombs(x)) = 0
  BY <1>4, FS_EmptySet
<1> QED
  BY <1>1, <1>3, <1>5, <1>6 DEF Sound

LEMMA SoundSame ==
  ASSUME NEW x, NEW c, Sound(x, c), NEW d, \A k \in MapKeys : d[k] = c[k]
  PROVE  Sound(x, d)
<1>1. \A i \in Occupied(x) : x.bucket[i].key \in MapKeys
  BY OccupiedIs DEF Sound
<1> QED
  BY <1>1 DEF Sound, Finds

LEMMA ReinsertIsSound ==
  ASSUME NEW x, NEW c, Sound(x, c), x.cap > 0, x.tombs = 0, x.size + 1 < x.cap,
         NEW e \in Items, c[e.key] = None, NEW c2, Becomes(c, c2, e.key, e.val)
  PROVE  LET y == Hash!Reinsert(x, e) IN
         Sound(y, c2) /\ y.cap = x.cap /\ y.tombs = 0 /\ y.size = x.size + 1
<1> DEFINE y == Hash!Reinsert(x, e)
           i == Hash!FirstEmpty(x, e.key)
<1>1. /\ IsTable(x) /\ x.cap \in Nat /\ x.size \in Nat /\ Finds(x, c)
      /\ x.size = Cardinality(Occupied(x)) /\ x.tombs = Cardinality(Tombs(x))
  BY DEF Sound, IsTable
<1>2. e.key \in MapKeys /\ Entry(e)
  BY ItemIs
<1>3. PICK d \in Places(x) :
        /\ i = Hash!Nth(x, e.key, d)
        /\ Hash!Met(x, e.key, d) = Empty
        /\ \A f \in 0 .. d - 1 : Hash!Met(x, e.key, f) # Empty
  BY <1>1, <1>2, SoundHasEmpty, FirstEmptyIs
<1> HIDE DEF i
<1>4. i \in Places(x) /\ x.bucket[i] = Empty
  BY <1>1, <1>2, <1>3, NthIs DEF Hash!Met
<1>5. IsTable(y) /\ Changed(x, y, i, e) /\ y.size = x.size + 1 /\ y.tombs = x.tombs
  BY <1>1, <1>4, ReinsertIs DEF i
<1> HIDE DEF y
<1>6. i \notin Occupied(x)
  BY <1>4 DEF Occupied, Entry
<1>7. Finds(y, c2)
  BY <1>1, <1>3, <1>4, <1>5, <1>6, EntryHolds
<1>8. /\ Cardinality(Occupied(y)) = Cardinality(Occupied(x)) + 1
      /\ Cardinality(Tombs(y)) = Cardinality(Tombs(x))
  <2>1. ~ Entry(x.bucket[i]) /\ e # Tomb /\ x.bucket[i] # Tomb
    BY <1>2, <1>4, HashAssumption DEF Entry
  <2> QED
    BY <2>1, <1>1, <1>2, <1>4, <1>5, CountsChange
<1>9. y.cap = x.cap
  BY <1>5 DEF Changed
<1>10. y.size + y.tombs < y.cap
  BY <1>1, <1>5, <1>9
<1> QED
  BY <1>1, <1>5, <1>7, <1>8, <1>9, <1>10 DEF Sound, y

\* One bucket of the old table
Refill(x, n, y) ==
  IF Hash!IsEntry(x.bucket[n - 1]) THEN Hash!Reinsert(y, x.bucket[n - 1]) ELSE y

\* f is the function that rehash_into(x, cap) is defined by, up to N.
Refills(f, x, cap, N) ==
  f = [n \in 0 .. N |-> IF n = 0 THEN Hash!NewTable(cap) ELSE Refill(x, n, f[n - 1])]

(* There is such a function.                                               *)
LEMMA RefillsExist ==
  ASSUME NEW x, NEW cap, NEW N \in Nat
  PROVE  \E f : Refills(f, x, cap, N)
<1> DEFINE S == {n \in Nat : \E f : Refills(f, x, cap, n)}
           start == Hash!NewTable(cap)
<1>1. 0 \in S
  <2> DEFINE one == [n \in 0 .. 0 |-> start]
  <2>1. Refills(one, x, cap, 0)
    <3>1. \A n \in 0 .. 0 : n = 0
      OBVIOUS
    <3> QED
      BY <3>1 DEF Refills
  <2> QED
    BY <2>1
<1>2. ASSUME NEW n \in Nat, n \in S PROVE n + 1 \in S
  <2>1. PICK f : Refills(f, x, cap, n)
    BY <1>2
  <2> DEFINE longer == [k \in 0 .. n + 1 |-> IF k = 0 THEN start ELSE Refill(x, k, f[k - 1])]
  <2>2. \A k \in 0 .. n : longer[k] = f[k]
    <3>1. \A k \in 0 .. n : f[k] = IF k = 0 THEN start ELSE Refill(x, k, f[k - 1])
      BY <2>1 DEF Refills
    <3>2. \A k \in 0 .. n : k \in 0 .. n + 1
      OBVIOUS
    <3>3. \A k \in 0 .. n + 1 : longer[k] = IF k = 0 THEN start ELSE Refill(x, k, f[k - 1])
      OBVIOUS
    <3> HIDE DEF longer, start
    <3> QED
      BY <3>1, <3>2, <3>3
  <2>3. \A k \in 0 .. n + 1 : k # 0 => k - 1 \in 0 .. n
    OBVIOUS
  <2>4. longer = [k \in 0 .. n + 1 |-> IF k = 0 THEN start ELSE Refill(x, k, longer[k - 1])]
    <3>1. \A k \in 0 .. n + 1 : (IF k = 0 THEN start ELSE Refill(x, k, f[k - 1]))
                              = (IF k = 0 THEN start ELSE Refill(x, k, longer[k - 1]))
      <4> HIDE DEF longer, start
      <4> QED
        BY <2>2, <2>3
    <3> HIDE DEF start
    <3> QED
      BY <3>1
  <2>5. Refills(longer, x, cap, n + 1)
    BY <2>4 DEF Refills
  <2> QED
    BY <2>5
<1>3. Nat \subseteq S
  <2> HIDE DEF S
  <2> QED
    BY <1>1, <1>2, SetInduction
<1> QED
  BY <1>3

\* The entries of the first n buckets
Before(x, n) == {i \in Occupied(x) : i < n}
Part(x, c, n) ==
  [k \in MapKeys |-> IF \E i \in Before(x, n) : x.bucket[i].key = k THEN c[k] ELSE None]

LEMMA BeforeNext ==
  ASSUME NEW x, NEW c, Sound(x, c), NEW n \in Places(x)
  PROVE  /\ n \notin Occupied(x) => Before(x, n + 1) = Before(x, n)
         /\ n \in Occupied(x) =>
              /\ Before(x, n + 1) = Before(x, n) \cup {n}
              /\ Cardinality(Before(x, n + 1)) = Cardinality(Before(x, n)) + 1
              /\ Cardinality(Before(x, n)) + 1 <= x.size
              /\ Part(x, c, n)[x.bucket[n].key] = None
              /\ Becomes(Part(x, c, n), Part(x, c, n + 1), x.bucket[n].key, x.bucket[n].val)
<1>1. IsTable(x) /\ Finds(x, c) /\ x.size = Cardinality(Occupied(x))
  BY DEF Sound
<1>2. \A i \in Occupied(x) : i \in Int
  BY DEF Occupied, Places
<1>3. \A i \in Occupied(x) : i < n + 1 <=> i < n \/ i = n
  BY <1>2 DEF Places
<1>4. CASE n \notin Occupied(x)
  BY <1>3, <1>4 DEF Before
<1>5. CASE n \in Occupied(x)
  <2>1. Before(x, n + 1) = Before(x, n) \cup {n} /\ n \notin Before(x, n)
    <3>1. ~ (n < n)
      BY <1>2, <1>5
    <3> QED
      BY <1>3, <1>5, <3>1 DEF Before
  <2>2. Before(x, n) \subseteq Occupied(x) /\ Before(x, n + 1) \subseteq Occupied(x)
    BY DEF Before
  <2>3. IsFiniteSet(Before(x, n)) /\ Cardinality(Before(x, n + 1)) <= Cardinality(Occupied(x))
    BY <1>1, <2>2, CountsAre, FS_Subset
  <2>4. Cardinality(Before(x, n + 1)) = Cardinality(Before(x, n)) + 1
    BY <2>1, <2>3, FS_AddElement
  <2>5. x.bucket[n].key \in MapKeys /\ c[x.bucket[n].key] = x.bucket[n].val
    BY <1>1, <1>5, OccupiedIs DEF Finds
  <2>6. \A i \in Before(x, n) : x.bucket[i].key # x.bucket[n].key
    BY <1>1, <1>5, <2>1, <2>2 DEF Finds
  <2>7. Part(x, c, n)[x.bucket[n].key] = None
    BY <2>5, <2>6 DEF Part
  <2>8. Becomes(Part(x, c, n), Part(x, c, n + 1), x.bucket[n].key, x.bucket[n].val)
    BY <2>1, <2>5 DEF Part, Becomes
  <2> QED
    BY <1>1, <1>5, <2>1, <2>3, <2>4, <2>7, <2>8
<1> QED
  BY <1>4, <1>5

(* A rebuilt table holds what the old one held, and no tombstone.          *)
LEMMA RehashIsSound ==
  ASSUME NEW x, NEW c, Sound(x, c), NEW cap \in Nat, cap >= LeastCap, x.size < cap
  PROVE  LET y == Hash!rehash_into(x, cap) IN
         Sound(y, c) /\ y.cap = cap /\ y.tombs = 0 /\ y.size = x.size
<1>1. /\ IsTable(x) /\ x.cap \in Nat /\ x.size \in Nat /\ Finds(x, c)
      /\ x.size = Cardinality(Occupied(x))
  BY DEF Sound, IsTable
<1> DEFINE N == x.cap
           f == CHOOSE f : Refills(f, x, cap, N)
<1>2. Refills(f, x, cap, N)
  <2>1. \E g : Refills(g, x, cap, N)
    BY <1>1, RefillsExist
  <2> QED
    BY <2>1
<1>3. Hash!rehash_into(x, cap) = f[N]
  BY DEF Hash!rehash_into, Refills, Refill
<1> HIDE DEF f
<1>4. \A n \in 0 .. N : f[n] = IF n = 0 THEN Hash!NewTable(cap) ELSE Refill(x, n, f[n - 1])
  BY <1>2 DEF Refills
<1> DEFINE Right(n) == /\ Sound(f[n], Part(x, c, n)) /\ f[n].cap = cap /\ f[n].tombs = 0
                       /\ f[n].size = Cardinality(Before(x, n))
           S == {n \in Nat : n <= N => Right(n)}
<1>5. 0 \in S
  <2>1. f[0] = Hash!NewTable(cap)
    BY <1>1, <1>4
  <2>2. Before(x, 0) = {}
    BY DEF Before, Occupied, Places
  <2>3. \A k \in MapKeys : Part(x, c, 0)[k] = None
    BY <2>2 DEF Part
  <2>4. Right(0)
    BY <2>1, <2>2, <2>3, NewIsSound, FS_EmptySet
  <2> QED
    BY <2>4
<1>6. ASSUME NEW n \in Nat, n \in S PROVE n + 1 \in S
  <2> SUFFICES ASSUME n + 1 <= N PROVE Right(n + 1)
    OBVIOUS
  <2>1. Right(n) /\ n \in Places(x)
    BY <1>1, <1>6 DEF Places
  <2>2. f[n + 1] = Refill(x, n + 1, f[n])
    <3>1. n + 1 \in 0 .. N /\ n + 1 # 0 /\ (n + 1) - 1 = n
      BY <1>1
    <3> QED
      BY <3>1, <1>4
  <2>3. (n + 1) - 1 = n
    OBVIOUS
  <2> HIDE DEF N
  <2>4. CASE n \notin Occupied(x)
    <3>1. f[n + 1] = f[n]
      BY <2>1, <2>2, <2>3, <2>4 DEF Refill, Hash!IsEntry, Occupied, Entry
    <3>2. Part(x, c, n + 1) = Part(x, c, n) /\ Before(x, n + 1) = Before(x, n)
      BY <2>1, <2>4, BeforeNext DEF Part
    <3> QED
      BY <2>1, <3>1, <3>2
  <2>5. CASE n \in Occupied(x)
    <3> DEFINE e == x.bucket[n]
    <3>1. f[n + 1] = Hash!Reinsert(f[n], e)
      BY <2>1, <2>2, <2>3, <2>5 DEF Refill, Hash!IsEntry, Occupied, Entry
    <3>2. e \in Items
      BY <1>1, <2>5, OccupiedIs
    <3>3. /\ Cardinality(Before(x, n + 1)) = Cardinality(Before(x, n)) + 1
          /\ Cardinality(Before(x, n)) + 1 <= x.size
          /\ Part(x, c, n)[e.key] = None
          /\ Becomes(Part(x, c, n), Part(x, c, n + 1), e.key, e.val)
      BY <2>1, <2>5, BeforeNext
    <3>4. f[n].size + 1 < f[n].cap /\ f[n].cap > 0
      <4>1. f[n].size \in Nat /\ f[n].cap = cap /\ f[n].size = Cardinality(Before(x, n))
        BY <2>1 DEF Sound, IsTable
      <4> QED
        BY <1>1, <3>3, <4>1
    <3> HIDE DEF e
    <3> QED
      BY <2>1, <3>1, <3>2, <3>3, <3>4, ReinsertIsSound
  <2> QED
    BY <2>4, <2>5
<1>7. Right(N)
  <2>1. Nat \subseteq S
    <3> HIDE DEF S
    <3> QED
      BY <1>5, <1>6, SetInduction
  <2>2. N \in S /\ N <= N
    BY <1>1, <2>1
  <2> HIDE DEF Right
  <2> QED
    BY <2>2
<1>8. Before(x, N) = Occupied(x)
  BY <1>1 DEF Before, Occupied, Places
<1>9. \A k \in MapKeys : c[k] = Part(x, c, N)[k]
  <2> SUFFICES ASSUME NEW k \in MapKeys, c[k] # None
               PROVE  \E i \in Before(x, N) : x.bucket[i].key = k
    BY DEF Part
  <2>1. PICK d \in Places(x) : Leads(x, k, d)
    BY <1>1 DEF Finds
  <2>2. x.cap > 0
    BY <1>1 DEF Places
  <2>3. Hash!Nth(x, k, d) \in Occupied(x) /\ x.bucket[Hash!Nth(x, k, d)].key = k
    BY <1>1, <2>1, <2>2, NthIs, HasIs DEF Leads, Hash!Met
  <2> QED
    BY <2>3, <1>8
<1>10. Sound(f[N], c)
  BY <1>7, <1>9, SoundSame
<1> QED
  BY <1>1, <1>3, <1>7, <1>8, <1>10

(* The capacities doubled from the least one, and dg__next_pow2_().        *)
Doubles(f, N) == f = [i \in 0 .. N |-> IF i = 0 THEN LeastCap ELSE 2 * f[i - 1]]

LEMMA DoublesExist ==
  ASSUME NEW N \in Nat
  PROVE  \E f : Doubles(f, N)
<1> DEFINE S == {n \in Nat : \E f : Doubles(f, n)}
<1>1. 0 \in S
  <2> DEFINE one == [n \in 0 .. 0 |-> LeastCap]
  <2>1. Doubles(one, 0)
    <3>1. \A n \in 0 .. 0 : n = 0
      OBVIOUS
    <3> QED
      BY <3>1 DEF Doubles
  <2> QED
    BY <2>1
<1>2. ASSUME NEW n \in Nat, n \in S PROVE n + 1 \in S
  <2>1. PICK f : Doubles(f, n)
    BY <1>2
  <2> DEFINE longer == [k \in 0 .. n + 1 |-> IF k = 0 THEN LeastCap ELSE 2 * f[k - 1]]
  <2>2. \A k \in 0 .. n : longer[k] = f[k]
    <3>1. \A k \in 0 .. n : f[k] = IF k = 0 THEN LeastCap ELSE 2 * f[k - 1]
      BY <2>1 DEF Doubles
    <3>2. \A k \in 0 .. n : k \in 0 .. n + 1
      OBVIOUS
    <3>3. \A k \in 0 .. n + 1 : longer[k] = IF k = 0 THEN LeastCap ELSE 2 * f[k - 1]
      OBVIOUS
    <3> HIDE DEF longer
    <3> QED
      BY <3>1, <3>2, <3>3
  <2>3. \A k \in 0 .. n + 1 : k # 0 => k - 1 \in 0 .. n
    OBVIOUS
  <2>4. longer = [k \in 0 .. n + 1 |-> IF k = 0 THEN LeastCap ELSE 2 * longer[k - 1]]
    <3>1. \A k \in 0 .. n + 1 : (IF k = 0 THEN LeastCap ELSE 2 * f[k - 1])
                              = (IF k = 0 THEN LeastCap ELSE 2 * longer[k - 1])
      <4> HIDE DEF longer
      <4> QED
        BY <2>2, <2>3
    <3> QED
      BY <3>1
  <2>5. Doubles(longer, n + 1)
    BY <2>4 DEF Doubles
  <2> QED
    BY <2>5
<1>3. Nat \subseteq S
  <2> HIDE DEF S
  <2> QED
    BY <1>1, <1>2, SetInduction
<1> QED
  BY <1>3

LEMMA NextPow2Is ==
  ASSUME NEW n \in Nat
  PROVE  Hash!next_pow2(n) \in Nat /\ Hash!next_pow2(n) >= LeastCap /\ Hash!next_pow2(n) >= n
<1> DEFINE f == CHOOSE f : Doubles(f, n)
           C == {f[i] : i \in {j \in 0 .. n : f[j] >= n}}
<1>1. Doubles(f, n)
  BY DoublesExist
<1>2. Hash!next_pow2(n) = Hash!Min(C)
  BY DEF Hash!next_pow2, Doubles
<1> HIDE DEF f
<1>3. \A i \in 0 .. n : f[i] = IF i = 0 THEN LeastCap ELSE 2 * f[i - 1]
  BY <1>1 DEF Doubles
<1> DEFINE S == {i \in Nat : i <= n => f[i] \in Nat /\ f[i] >= LeastCap /\ f[i] >= i}
<1>4. 0 \in S
  BY <1>3, HashAssumption
<1>5. ASSUME NEW i \in Nat, i \in S PROVE i + 1 \in S
  <2> SUFFICES ASSUME i + 1 <= n
               PROVE  f[i + 1] \in Nat /\ f[i + 1] >= LeastCap /\ f[i + 1] >= i + 1
    OBVIOUS
  <2>1. f[i] \in Nat /\ f[i] >= LeastCap /\ f[i] >= i
    BY <1>5
  <2>2. i + 1 \in 0 .. n /\ (i + 1) - 1 = i /\ i + 1 # 0
    OBVIOUS
  <2>3. f[i + 1] = 2 * f[i]
    BY <1>3, <2>2
  <2>4. LeastCap \in Nat /\ LeastCap >= 8
    BY HashAssumption
  <2> QED
    BY <2>1, <2>3, <2>4
<1>6. Nat \subseteq S
  <2> HIDE DEF S
  <2> QED
    BY <1>4, <1>5, SetInduction
<1>7. \A i \in 0 .. n : f[i] \in Nat /\ f[i] >= LeastCap /\ f[i] >= i
  BY <1>6
<1>8. C \subseteq Nat /\ \A c \in C : c >= LeastCap /\ c >= n
  BY <1>7
<1>9. C # {}
  <2>1. n \in 0 .. n
    OBVIOUS
  <2> QED
    BY <1>7, <2>1
<1> HIDE DEF C
<1>10. PICK c \in C : \A d \in C : c <= d
  BY <1>8, <1>9, Least
<1>11. Hash!Min(C) \in C
  BY <1>10 DEF Hash!Min
<1> QED
  BY <1>2, <1>8, <1>11

-----------------------------------------------------------------------------
HashInv ==
  /\ Sound(hash, hashContent)
  /\ hashContent = [k \in MapKeys |-> hashContent[k]]

LEMMA HashStarts == Hash!Init => HashInv
<1> SUFFICES ASSUME Hash!Init PROVE HashInv
  OBVIOUS
<1>1. /\ hash = [cap |-> 0, bucket |-> <<>>, size |-> 0, tombs |-> 0]
      /\ hashContent = [k \in MapKeys |-> None]
  BY DEF Hash!Init, Hash!Nothing
<1> QED
  BY <1>1, BareIsSound DEF HashInv

LEMMA HashSets ==
  ASSUME HashInv, NEW e \in MapEntries, Hash!set(e[1], e[2])
  PROVE  HashInv'
<1> DEFINE k == e[1]  v == e[2]  cap == IF hash.cap = 0 THEN LeastCap ELSE 2 * hash.cap
           item == [key |-> k, val |-> v]
<1>1. item \in Items /\ k \in MapKeys
  <2>1. item \in Items
    BY DEF Items
  <2> QED
    BY <2>1, HashAssumption
<1>2. Sound(hash, hashContent) /\ hashContent = [j \in MapKeys |-> hashContent[j]]
  BY DEF HashInv
<1>3. /\ hash.cap \in Nat /\ hash.size \in Nat /\ hash.tombs \in Nat
      /\ hash.cap = 0 \/ hash.cap >= LeastCap
      /\ hash.cap > 0 => hash.size + hash.tombs < hash.cap
      /\ LeastCap \in Nat /\ LeastCap >= 8
      /\ hash.size = Cardinality(Occupied(hash))
  BY <1>2, HashAssumption DEF Sound, IsTable
<1>4. hash.cap = 0 => hash.size = 0
  <2> SUFFICES ASSUME hash.cap = 0 PROVE hash.size = 0
    OBVIOUS
  <2>1. Occupied(hash) = {}
    BY DEF Occupied, Places
  <2> QED
    BY <2>1, <1>3, FS_EmptySet
<1>5. hashContent' = [hashContent EXCEPT ![k] = v]
  BY DEF Hash!set
<1>6. Becomes(hashContent, hashContent', k, v) /\ hashContent' = [j \in MapKeys |-> hashContent'[j]]
  BY <1>1, <1>2, <1>5 DEF Becomes
<1>7. PICK x : /\ Sound(x, hashContent) /\ x.cap > 0 /\ x.size + x.tombs + 1 < x.cap
               /\ hash' = Hash!put(x, k, v)
  <2>1. CASE hash.cap > 0 /\ ~ Hash!should_grow(hash) /\ hash' = Hash!put(hash, k, v)
    <3>1. ~ ((hash.size + hash.tombs) * 100 >= hash.cap * 85)
      BY <2>1 DEF Hash!should_grow
    <3>2. hash.size + hash.tombs + 1 < hash.cap
      BY <1>3, <2>1, <3>1
    <3> QED
      BY <1>2, <2>1, <3>2
  <2>2. CASE hash' = Hash!put(Hash!rehash_into(hash, cap), k, v)
    <3>1. cap \in Nat /\ cap >= LeastCap /\ hash.size < cap /\ hash.size + 1 < cap
      BY <1>3, <1>4
    <3> DEFINE y == Hash!rehash_into(hash, cap)
    <3> HIDE DEF cap
    <3>2. Sound(y, hashContent) /\ y.cap = cap /\ y.tombs = 0 /\ y.size = hash.size
      BY <1>2, <3>1, RehashIsSound
    <3>3. y.size + y.tombs + 1 < y.cap /\ y.cap > 0
      BY <1>3, <3>1, <3>2
    <3> QED
      BY <2>2, <3>2, <3>3
  <2> QED
    BY <2>1, <2>2 DEF Hash!set
<1>8. Sound(hash', hashContent')
  BY <1>1, <1>6, <1>7, PutIsSound
<1> QED
  BY <1>6, <1>8 DEF HashInv

(* The table with a tombstone in place of i, or rebuilt after that         *)
LEMMA EmptiedAgain ==
  ASSUME HashInv, NEW i \in Occupied(hash), NEW k, k = hash.bucket[i].key,
         hashContent' = [hashContent EXCEPT ![k] = None],
         LET x == Hash!emptied(hash, i) IN hash' = x \/ hash' = Hash!rehash_into(x, x.cap)
  PROVE  HashInv'
<1> DEFINE x == Hash!emptied(hash, i)
<1>1. Sound(hash, hashContent) /\ hashContent = [j \in MapKeys |-> hashContent[j]]
  BY DEF HashInv
<1>2. k \in MapKeys /\ i \in Places(hash)
  BY <1>1, OccupiedIs DEF Sound
<1>3. Becomes(hashContent, hashContent', k, None)
      /\ hashContent' = [j \in MapKeys |-> hashContent'[j]]
  BY <1>1, <1>2 DEF Becomes
<1>4. hash.cap > 0 /\ hash.cap \in Nat /\ hash.cap >= LeastCap
  BY <1>1, <1>2, HashAssumption DEF Sound, IsTable, Places
<1>5. Sound(x, hashContent') /\ x.cap = hash.cap
  BY <1>1, <1>3, <1>4, EmptiedIsSound
<1> HIDE DEF x
<1>6. x.size < x.cap
  BY <1>4, <1>5 DEF Sound, IsTable
<1>7. Sound(Hash!rehash_into(x, x.cap), hashContent')
  BY <1>4, <1>5, <1>6, RehashIsSound
<1>8. Sound(hash', hashContent')
  BY <1>5, <1>7 DEF x
<1> QED
  BY <1>3, <1>8 DEF HashInv

LEMMA HashErases ==
  ASSUME HashInv, NEW k \in MapKeys, Hash!erase(k)
  PROVE  HashInv'
<1> DEFINE i == Hash!Stop(hash, k)
<1>1. hashContent[k] # None
  BY GetIs DEF HashInv, Hash!erase
<1>2. hash.cap > 0
  <2>1. hash.cap # 0
    BY DEF Hash!erase, Hash!get
  <2> QED
    BY <2>1 DEF HashInv, Sound, IsTable
<1>3. i \in Occupied(hash) /\ hash.bucket[i].key = k
  BY <1>1, <1>2, StopsRight DEF HashInv
<1>4. hashContent' = [hashContent EXCEPT ![k] = None]
  BY DEF Hash!erase
<1>5. LET x == Hash!emptied(hash, i) IN hash' = x \/ hash' = Hash!rehash_into(x, x.cap)
  BY DEF Hash!erase
<1> HIDE DEF i
<1> QED
  BY <1>3, <1>4, <1>5, EmptiedAgain

LEMMA HashErasesAt == HashInv /\ Hash!EraseAt => HashInv'
<1> SUFFICES ASSUME HashInv, Hash!EraseAt PROVE HashInv'
  OBVIOUS
<1>1. PICK i \in Hash!Occupied(hash) :
        /\ hash' = Hash!erase_at(hash, i).map
        /\ hashContent' = [hashContent EXCEPT ![hash.bucket[i].key] = None]
  BY DEF Hash!EraseAt
<1>2. i \in Occupied(hash)
  BY <1>1 DEF Hash!Occupied, Occupied, Places, Entry, Hash!IsEntry
<1>3. hash' = Hash!emptied(hash, i)
  BY <1>1 DEF Hash!erase_at
<1> QED
  BY <1>1, <1>2, <1>3, EmptiedAgain

LEMMA HashRebuilds ==
  ASSUME HashInv, Hash!compact \/ \E want \in Wants : Hash!reserve(want)
  PROVE  HashInv'
<1>1. Sound(hash, hashContent) /\ hashContent = [j \in MapKeys |-> hashContent[j]]
  BY DEF HashInv
<1>2. /\ hash.cap \in Nat /\ hash.size \in Nat /\ hash.tombs \in Nat
      /\ hash.cap = 0 \/ hash.cap >= LeastCap
      /\ hash.cap > 0 => hash.size + hash.tombs < hash.cap
      /\ LeastCap \in Nat /\ LeastCap >= 8
  BY <1>1, HashAssumption DEF Sound, IsTable
<1>3. hash.cap = 0 => hash.size = 0 /\ hash.tombs = 0
  <2> SUFFICES ASSUME hash.cap = 0 PROVE hash.size = 0 /\ hash.tombs = 0
    OBVIOUS
  <2>1. Occupied(hash) = {} /\ Tombs(hash) = {}
    BY DEF Occupied, Tombs, Places
  <2> QED
    BY <2>1, <1>1, FS_EmptySet DEF Sound
<1>4. PICK cap \in Nat : cap >= LeastCap /\ hash.size < cap /\ hash' = Hash!rehash_into(hash, cap)
                       /\ hashContent' = hashContent
  <2>1. CASE Hash!compact
    BY <2>1, <1>2, <1>3 DEF Hash!compact
  <2>2. ASSUME NEW want \in Wants, Hash!reserve(want)
        PROVE  \E cap \in Nat : cap >= LeastCap /\ hash.size < cap /\ hash' = Hash!rehash_into(hash, cap)
                                /\ hashContent' = hashContent
    <3> DEFINE n == (want * 100) \div 85 + 1
               need == Hash!next_pow2(n)
    <3>1. n \in Nat
      BY HashAssumption
    <3> HIDE DEF n
    <3>2. need \in Nat /\ need >= LeastCap
      BY <3>1, NextPow2Is
    <3>3. need > hash.cap /\ hash' = Hash!rehash_into(hash, need) /\ hashContent' = hashContent
      BY <2>2 DEF Hash!reserve, n
    <3> HIDE DEF need
    <3> QED
      BY <1>2, <1>3, <3>2, <3>3
  <2> QED
    BY <2>1, <2>2
<1>5. Sound(hash', hashContent')
  BY <1>1, <1>4, RehashIsSound
<1> QED
  BY <1>1, <1>4, <1>5 DEF HashInv

LEMMA HashEmpties ==
  ASSUME HashInv, Hash!clear \/ Hash!destroy
  PROVE  HashInv'
<1>1. hashContent' = [k \in MapKeys |-> None]
  BY DEF Hash!clear, Hash!destroy, Hash!Nothing
<1>2. hashContent' = [k \in MapKeys |-> hashContent'[k]] /\ \A k \in MapKeys : hashContent'[k] = None
  BY <1>1
<1>3. CASE Hash!clear
  <2>1. hash.cap \in Nat /\ hash.cap >= LeastCap
    BY <1>3 DEF Hash!clear, HashInv, Sound, IsTable
  <2> QED
    BY <1>2, <1>3, <2>1, NewIsSound DEF HashInv, Hash!clear
<1>4. CASE Hash!destroy
  BY <1>2, <1>4, BareIsSound DEF HashInv, Hash!destroy
<1> QED
  BY <1>3, <1>4

LEMMA HashKeeps ==
  ASSUME HashInv, [Hash!Next]_hashVars
  PROVE  HashInv'
<1>1. CASE UNCHANGED hashVars
  BY <1>1 DEF hashVars, HashInv
<1>2. CASE Hash!Next
  BY <1>2, HashSets, HashErases, HashErasesAt, HashRebuilds, HashEmpties DEF Hash!Next
<1> QED
  BY <1>1, <1>2

-----------------------------------------------------------------------------
Present(c) == {k \in MapKeys : c[k] # None}

(* There are as many entries as keys with a value.                         *)
LEMMA EntriesCount ==
  ASSUME NEW x, NEW c, Sound(x, c)
  PROVE  /\ Cardinality(Present(c)) = Cardinality(Occupied(x))
         /\ Present(c) = {x.bucket[i].key : i \in Occupied(x)}
<1>1. IsTable(x) /\ Finds(x, c) /\ x.cap \in Nat
  BY DEF Sound, IsTable
<1> DEFINE f == [i \in Occupied(x) |-> x.bucket[i].key]
<1>2. \A i \in Occupied(x) : x.bucket[i].key \in Present(c)
  BY <1>1, OccupiedIs DEF Finds, Present
<1>3. \A k \in Present(c) : \E i \in Occupied(x) : x.bucket[i].key = k
  <2> TAKE k \in Present(c)
  <2>1. k \in MapKeys
    BY DEF Present
  <2>2. PICK d \in Places(x) : Leads(x, k, d)
    BY <1>1, <2>1 DEF Finds, Present
  <2>3. x.cap > 0
    BY <1>1 DEF Places
  <2> QED
    BY <1>1, <2>1, <2>2, <2>3, NthIs, HasIs DEF Leads, Hash!Met
<1>4. f \in Bijection(Occupied(x), Present(c))
  <2>1. f \in [Occupied(x) -> Present(c)]
    BY <1>2
  <2>2. \A i, j \in Occupied(x) : f[i] = f[j] => i = j
    BY <1>1 DEF Finds
  <2>3. \A k \in Present(c) : \E i \in Occupied(x) : f[i] = k
    BY <1>3
  <2>4. DOMAIN f = Occupied(x)
    OBVIOUS
  <2> HIDE DEF f
  <2> QED
    BY <2>1, <2>2, <2>3, <2>4 DEF Bijection, Injection, Surjection, IsInjective
<1>5. Cardinality(Present(c)) = Cardinality(Occupied(x))
  BY <1>1, <1>4, CountsAre, FS_Bijection DEF ExistsBijection
<1> QED
  BY <1>2, <1>3, <1>5

LEMMA SameSets ==
  /\ \A x : Hash!Occupied(x) = Occupied(x)
  /\ \A S : Hash!Cardinality(S) = Cardinality(S)
<1>1. \A x : Hash!Occupied(x) = Occupied(x)
  BY DEF Hash!Occupied, Occupied, Places, Entry, Hash!IsEntry
<1>2. \A S : Hash!Cardinality(S) = Cardinality(S)
  BY DEF Hash!Cardinality, Cardinality
<1> QED
  BY <1>1, <1>2

LEMMA HashFinds == HashInv => Hash!ProbesEnd /\ Hash!FindsContent
<1> SUFFICES ASSUME HashInv PROVE Hash!ProbesEnd /\ Hash!FindsContent
  OBVIOUS
<1>1. /\ Sound(hash, hashContent)
      /\ hash.size = Cardinality(Occupied(hash)) /\ hash.tombs = Cardinality(Tombs(hash))
  BY DEF HashInv, Sound
<1>2. Hash!ProbesEnd
  <2>1. hash.cap > 0 => \E i \in 0 .. hash.cap - 1 : hash.bucket[i] = Empty
    BY <1>1, SoundHasEmpty DEF Places
  <2>2. Tombs(hash) = {i \in 0 .. hash.cap - 1 : hash.bucket[i] = Tomb}
    BY DEF Tombs, Places
  <2> QED
    BY <1>1, <2>1, <2>2, SameSets DEF Hash!ProbesEnd
<1>3. \A k \in MapKeys : Hash!get(hash, k) = hashContent[k]
  BY <1>1, GetIs
<1>4. hash.size = Cardinality(Present(hashContent))
  BY <1>1, EntriesCount
<1>5. Hash!FindsContent
  BY <1>3, <1>4, SameSets DEF Hash!FindsContent, Present
<1> QED
  BY <1>2, <1>5

\* loop is the function that the loop of LoopsMeetAll is defined by, up to N.
Loops(loop, start, E, N) ==
  loop = [i \in 0 .. N |-> IF i = 0 THEN start ELSE Hash!Turn(loop[i - 1], E)]

LEMMA LoopsExist ==
  ASSUME NEW start, NEW E, NEW N \in Nat
  PROVE  \E loop : Loops(loop, start, E, N)
<1> DEFINE S == {n \in Nat : \E f : Loops(f, start, E, n)}
<1>1. 0 \in S
  <2> DEFINE one == [n \in 0 .. 0 |-> start]
  <2>1. Loops(one, start, E, 0)
    <3>1. \A n \in 0 .. 0 : n = 0
      OBVIOUS
    <3> QED
      BY <3>1 DEF Loops
  <2> QED
    BY <2>1
<1>2. ASSUME NEW n \in Nat, n \in S PROVE n + 1 \in S
  <2>1. PICK f : Loops(f, start, E, n)
    BY <1>2
  <2> DEFINE longer == [k \in 0 .. n + 1 |-> IF k = 0 THEN start ELSE Hash!Turn(f[k - 1], E)]
  <2>2. \A k \in 0 .. n : longer[k] = f[k]
    <3>1. \A k \in 0 .. n : f[k] = IF k = 0 THEN start ELSE Hash!Turn(f[k - 1], E)
      BY <2>1 DEF Loops
    <3>2. \A k \in 0 .. n : k \in 0 .. n + 1
      OBVIOUS
    <3>3. \A k \in 0 .. n + 1 : longer[k] = IF k = 0 THEN start ELSE Hash!Turn(f[k - 1], E)
      OBVIOUS
    <3> HIDE DEF longer
    <3> QED
      BY <3>1, <3>2, <3>3
  <2>3. \A k \in 0 .. n + 1 : k # 0 => k - 1 \in 0 .. n
    OBVIOUS
  <2>4. longer = [k \in 0 .. n + 1 |-> IF k = 0 THEN start ELSE Hash!Turn(longer[k - 1], E)]
    <3>1. \A k \in 0 .. n + 1 : (IF k = 0 THEN start ELSE Hash!Turn(f[k - 1], E))
                              = (IF k = 0 THEN start ELSE Hash!Turn(longer[k - 1], E))
      <4> HIDE DEF longer
      <4> QED
        BY <2>2, <2>3
    <3> QED
      BY <3>1
  <2>5. Loops(longer, start, E, n + 1)
    BY <2>4 DEF Loops
  <2> QED
    BY <2>5
<1>3. Nat \subseteq S
  <2> HIDE DEF S
  <2> QED
    BY <1>1, <1>2, SetInduction
<1> QED
  BY <1>3

\* nx is the first entry of x from bucket a on, or the end.
Starts(x, a, nx) ==
  \/ nx = Hash!End /\ \A j \in Occupied(x) : j < a
  \/ nx \in Occupied(x) /\ nx >= a /\ \A j \in Occupied(x) : j < a \/ nx <= j

LEMMA LeastOf ==
  ASSUME NEW S, S \subseteq Nat, S # {}
  PROVE  Hash!Min(S) \in S /\ \A y \in S : Hash!Min(S) <= y
<1>1. PICK x \in S : \A y \in S : x <= y
  BY Least
<1> QED
  BY <1>1 DEF Hash!Min

LEMMA BeginsRight ==
  ASSUME NEW x, IsTable(x)
  PROVE  Starts(x, 0, Hash!iter_begin(x))
<1>1. \A j \in Occupied(x) : j \in Nat
  BY DEF Occupied, Places
<1>2. CASE Occupied(x) = {}
  BY <1>2, SameSets DEF Hash!iter_begin, Starts
<1>3. CASE Occupied(x) # {}
  <2>1. Hash!iter_begin(x) = Hash!Min(Occupied(x))
    BY <1>3, SameSets DEF Hash!iter_begin
  <2>2. Hash!Min(Occupied(x)) \in Occupied(x) /\ \A y \in Occupied(x) : Hash!Min(Occupied(x)) <= y
    BY <1>1, <1>3, LeastOf
  <2> QED
    BY <1>1, <2>1, <2>2 DEF Starts
<1> QED
  BY <1>2, <1>3

(* The iterator goes on in y, which is x from there on.                    *)
LEMMA GoesOn ==
  ASSUME NEW x, IsTable(x), NEW y, y.cap = x.cap, NEW it \in Places(x),
         \A j \in Places(x) : j > it => y.bucket[j] = x.bucket[j]
  PROVE  Starts(x, it + 1, Hash!iter_next(y, it))
<1> DEFINE later == {j \in Occupied(x) : j > it}
<1>1. \A j \in Occupied(x) : j \in Nat
  BY DEF Occupied, Places
<1>2. it \in Nat
  BY DEF Places
<1>3. {j \in Occupied(y) : j > it} = later
  BY DEF Occupied, Places
<1>4. Hash!iter_next(y, it) = IF later = {} THEN Hash!End ELSE Hash!Min(later)
  BY <1>3, SameSets DEF Hash!iter_next
<1>5. \A j \in Occupied(x) : j > it \/ j < it + 1
  BY <1>1, <1>2
<1>6. CASE later = {}
  BY <1>4, <1>5, <1>6 DEF Starts
<1>7. CASE later # {}
  <2>1. later \subseteq Nat
    BY <1>1
  <2>2. Hash!Min(later) \in later /\ \A j \in later : Hash!Min(later) <= j
    <3> HIDE DEF later
    <3> QED
      BY <1>7, <2>1, LeastOf
  <2>3. Hash!Min(later) \in Occupied(x) /\ Hash!Min(later) >= it + 1
    BY <1>1, <1>2, <2>2
  <2> QED
    BY <1>4, <1>5, <1>7, <2>2, <2>3 DEF Starts
<1> QED
  BY <1>6, <1>7

\* The entries of x that the loop w has met
Past(x, w) == {j \in Occupied(x) : w.it = Hash!End \/ j < w.it}

\* The loop w has gone n times over entries of x, and has changed none that
\* are still to come.
Walks(x, w, n) ==
  /\ \E c : Sound(w.map, c)
  /\ w.map.cap = x.cap
  /\ w.it = Hash!End \/ w.it \in Occupied(x)
  /\ w.it # Hash!End => \A j \in Places(x) : j >= w.it => w.map.bucket[j] = x.bucket[j]
  /\ w.met \in Seq(MapKeys)
  /\ {w.met[i] : i \in 1 .. Len(w.met)} = {x.bucket[j].key : j \in Past(x, w)}
  /\ Cardinality(Past(x, w)) = n

LEMMA WalksOn ==
  ASSUME NEW x, NEW c, Sound(x, c), NEW w, NEW n \in Nat, Walks(x, w, n),
         n < Cardinality(Occupied(x)), NEW E
  PROVE  Walks(x, Hash!Turn(w, E), n + 1)
<1>1. IsTable(x) /\ x.cap \in Nat
  BY DEF Sound, IsTable
<1>2. w.it # Hash!End
  <2> SUFFICES ASSUME w.it = Hash!End PROVE FALSE
    OBVIOUS
  <2>1. Past(x, w) = Occupied(x)
    BY DEF Past
  <2> QED
    BY <2>1, <1>1, CountsAre DEF Walks
<1> DEFINE it == w.it
           y == w.map
           k == y.bucket[it].key
           z == Hash!emptied(y, it)
           v == Hash!Turn(w, E)
<1>3. it \in Occupied(x) /\ it \in Places(x) /\ it \in Nat /\ x.cap > 0
  BY <1>1, <1>2 DEF Walks, Occupied, Places
<1>4. PICK d : Sound(y, d)
  BY DEF Walks
<1>5. /\ y.cap = x.cap /\ Places(y) = Places(x)
      /\ \A j \in Places(x) : j >= it => y.bucket[j] = x.bucket[j]
  BY <1>2 DEF Walks, Places
<1>6. y.bucket[it] = x.bucket[it] /\ it \in Occupied(y)
  BY <1>3, <1>5 DEF Occupied
<1>7. k = x.bucket[it].key /\ k \in MapKeys
  BY <1>1, <1>3, <1>6, OccupiedIs
<1>8. /\ \E e : Sound(z, e)
      /\ z.cap = x.cap
      /\ \A j \in Places(x) : j > it => z.bucket[j] = x.bucket[j]
  <2> DEFINE e == [g \in MapKeys |-> IF g = y.bucket[it].key THEN None ELSE d[g]]
  <2>1. Becomes(d, e, y.bucket[it].key, None)
    BY DEF Becomes
  <2> HIDE DEF e
  <2>2. Sound(z, e) /\ z.cap = y.cap
    BY <1>3, <1>4, <1>5, <1>6, <2>1, EmptiedIsSound
  <2>3. y.size > 0 /\ IsTable(y)
    BY <1>4, <1>6, CountsAre, FS_EmptySet DEF Sound
  <2>4. Changed(y, z, it, Tomb)
    BY <1>3, <1>5, <2>3, EmptiedIs
  <2> HIDE DEF z, y
  <2>5. \A j \in Places(x) : j > it => z.bucket[j] = x.bucket[j]
    BY <1>1, <1>3, <1>5, <2>4 DEF Changed, Places
  <2> QED
    BY <1>5, <2>2, <2>5
<1> HIDE DEF it, y, k, z
<1>9. v = [map |-> IF k \in E THEN z ELSE y,
           it  |-> IF k \in E THEN Hash!iter_next(z, it) ELSE Hash!iter_next(y, it),
           met |-> Append(w.met, k)]
  BY <1>2 DEF Hash!Turn, Hash!erase_at, it, y, k, z
<1> HIDE DEF v
<1>10. /\ v.met = Append(w.met, k)
       /\ \/ v.map = z /\ v.it = Hash!iter_next(z, it)
          \/ v.map = y /\ v.it = Hash!iter_next(y, it)
  BY <1>9
<1>11. \A j \in Places(x) : j > it => y.bucket[j] = x.bucket[j]
  BY <1>1, <1>3, <1>5 DEF Places
<1>12. Starts(x, it + 1, v.it) /\ v.map.cap = x.cap /\ (\E e : Sound(v.map, e))
       /\ \A j \in Places(x) : j > it => v.map.bucket[j] = x.bucket[j]
  BY <1>1, <1>3, <1>4, <1>5, <1>8, <1>10, <1>11, GoesOn
<1>13. \A j \in Occupied(x) : j \in Places(x) /\ j \in Nat
  BY DEF Occupied, Places
<1>14. \A j \in Occupied(x) : j < it + 1 <=> j < it \/ j = it
  BY <1>3, <1>13
<1>15. Past(x, v) = Past(x, w) \cup {it} /\ it \notin Past(x, w)
  <2>1. it # Hash!End
    BY <1>2 DEF it
  <2>2. Past(x, w) = {j \in Occupied(x) : j < it}
    BY <2>1 DEF Past, it
  <2>3. ~ (it < it)
    BY <1>3
  <2>4. Past(x, v) = {j \in Occupied(x) : j < it + 1}
    <3>1. CASE v.it = Hash!End /\ \A j \in Occupied(x) : j < it + 1
      BY <3>1 DEF Past
    <3>2. CASE v.it \in Occupied(x) /\ v.it >= it + 1 /\ \A j \in Occupied(x) : j < it + 1 \/ v.it <= j
      <4>1. v.it # Hash!End
        BY <1>13, <3>2 DEF Hash!End
      <4>2. v.it \in Nat
        BY <1>13, <3>2
      <4>3. \A j \in Occupied(x) : j < v.it <=> j < it + 1
        <5> TAKE j \in Occupied(x)
        <5>1. j \in Nat /\ (j < it + 1 \/ v.it <= j)
          BY <1>13, <3>2
        <5> QED
          BY <1>3, <3>2, <4>2, <5>1
      <4> QED
        BY <4>1, <4>3 DEF Past
    <3> QED
      BY <1>12, <3>1, <3>2 DEF Starts
  <2> QED
    BY <1>3, <1>14, <2>2, <2>3, <2>4
<1>16. Cardinality(Past(x, v)) = n + 1
  <2>1. IsFiniteSet(Past(x, w))
    BY <1>1, CountsAre, FS_Subset DEF Past
  <2> QED
    BY <1>15, <2>1, FS_AddElement DEF Walks
<1>17. v.met \in Seq(MapKeys)
       /\ {v.met[i] : i \in 1 .. Len(v.met)} = {w.met[i] : i \in 1 .. Len(w.met)} \cup {k}
  <2>1. w.met \in Seq(MapKeys)
    BY DEF Walks
  <2> DEFINE l == Len(w.met)
  <2>2. /\ v.met \in Seq(MapKeys) /\ Len(v.met) = l + 1 /\ l \in Nat
        /\ v.met[l + 1] = k /\ \A i \in 1 .. l : v.met[i] = w.met[i]
    BY <2>1, <1>7, <1>10
  <2> HIDE DEF l
  <2>3. 1 .. l + 1 = (1 .. l) \cup {l + 1}
    BY <2>2
  <2>4. {v.met[i] : i \in 1 .. l + 1} = {v.met[i] : i \in 1 .. l} \cup {k}
    BY <2>2, <2>3
  <2>5. {v.met[i] : i \in 1 .. l} = {w.met[i] : i \in 1 .. l}
    BY <2>2
  <2> QED
    BY <2>2, <2>4, <2>5 DEF l
<1>18. {v.met[i] : i \in 1 .. Len(v.met)} = {x.bucket[j].key : j \in Past(x, v)}
  BY <1>7, <1>15, <1>17, ZenonT(30) DEF Walks
<1>19. v.it = Hash!End \/ v.it \in Occupied(x)
  BY <1>12 DEF Starts
<1>20. v.it # Hash!End => \A j \in Places(x) : j >= v.it => v.map.bucket[j] = x.bucket[j]
  <2> SUFFICES ASSUME v.it # Hash!End, NEW j \in Places(x), j >= v.it
               PROVE  v.map.bucket[j] = x.bucket[j]
    OBVIOUS
  <2>1. v.it \in Nat /\ v.it >= it + 1
    BY <1>12, <1>13 DEF Starts
  <2>2. j \in Nat
    BY DEF Places
  <2>3. j > it
    BY <1>3, <2>1, <2>2
  <2> QED
    BY <1>12, <2>3
<1> QED
  BY <1>12, <1>16, <1>17, <1>18, <1>19, <1>20 DEF Walks, v

LEMMA LoopsMeet ==
  ASSUME HashInv, NEW E, NEW n, n = Cardinality(Present(hashContent)),
         NEW loop,
         Loops(loop, [map |-> hash, it |-> Hash!iter_begin(hash), met |-> <<>>], E, n)
  PROVE  /\ loop[n].it = Hash!End
         /\ {loop[n].met[i] : i \in DOMAIN loop[n].met} = Present(hashContent)
<1> DEFINE x == hash
           start == [map |-> x, it |-> Hash!iter_begin(x), met |-> <<>>]
           O == Occupied(x)
<1>1. Sound(x, hashContent) /\ IsTable(x)
  BY DEF HashInv, Sound
<1>2. IsFiniteSet(O) /\ n = Cardinality(O) /\ n \in Nat
  BY <1>1, CountsAre, EntriesCount
<1>3. \A i \in 0 .. n : loop[i] = IF i = 0 THEN start ELSE Hash!Turn(loop[i - 1], E)
  BY DEF Loops
<1> HIDE DEF x, O
<1> DEFINE S == {i \in Nat : i <= n => Walks(x, loop[i], i)}
<1>4. 0 \in S
  <2> DEFINE w == loop[0]
  <2>1. w = start
    BY <1>2, <1>3
  <2>2. w.map = x /\ w.it = Hash!iter_begin(x) /\ w.met = <<>>
    BY <2>1
  <2> HIDE DEF w
  <2>3. Starts(x, 0, w.it)
    BY <1>1, <2>2, BeginsRight
  <2>4. \A j \in Occupied(x) : j \in Nat
    BY DEF Occupied, Places
  <2>5. Past(x, w) = {}
    <3>1. \A j \in Occupied(x) : ~ (j < 0)
      BY <2>4
    <3>2. CASE w.it = Hash!End /\ \A j \in Occupied(x) : j < 0
      BY <3>1, <3>2 DEF Past
    <3>3. CASE w.it \in Occupied(x) /\ \A j \in Occupied(x) : j < 0 \/ w.it <= j
      <4>1. w.it \in Nat /\ w.it # Hash!End
        BY <2>4, <3>3 DEF Hash!End
      <4>2. \A j \in Occupied(x) : ~ (j < w.it)
        <5> TAKE j \in Occupied(x)
        <5>1. w.it <= j /\ j \in Nat
          BY <2>4, <3>1, <3>3
        <5> QED
          BY <4>1, <5>1
      <4> QED
        BY <4>1, <4>2 DEF Past
    <3> QED
      BY <2>3, <3>2, <3>3 DEF Starts
  <2>6. Cardinality(Past(x, w)) = 0
    BY <2>5, FS_EmptySet
  <2>7. w.met \in Seq(MapKeys) /\ {w.met[i] : i \in 1 .. Len(w.met)} = {}
    BY <2>2
  <2>8. w.it = Hash!End \/ w.it \in Occupied(x)
    BY <2>3 DEF Starts
  <2>9. Walks(x, w, 0)
    BY <1>1, <2>2, <2>5, <2>6, <2>7, <2>8 DEF Walks
  <2> QED
    BY <2>9 DEF w
<1>5. ASSUME NEW i \in Nat, i \in S PROVE i + 1 \in S
  <2> SUFFICES ASSUME i + 1 <= n PROVE Walks(x, loop[i + 1], i + 1)
    OBVIOUS
  <2>1. Walks(x, loop[i], i) /\ i < Cardinality(Occupied(x))
    BY <1>2, <1>5 DEF O
  <2>2. i + 1 \in 0 .. n /\ i + 1 # 0 /\ (i + 1) - 1 = i
    BY <1>2
  <2>3. loop[i + 1] = Hash!Turn(loop[i], E)
    BY <1>3, <2>2
  <2> QED
    BY <1>1, <2>1, <2>3, WalksOn
<1> DEFINE last == loop[n]
<1>6. Walks(x, last, n)
  <2>1. Nat \subseteq S
    <3> HIDE DEF S
    <3> QED
      BY <1>4, <1>5, SetInduction
  <2> QED
    BY <1>2, <2>1
<1> HIDE DEF last
<1>7. last.it = Hash!End
  <2> SUFFICES ASSUME last.it # Hash!End PROVE FALSE
    OBVIOUS
  <2>1. last.it \in O /\ last.it \in Nat
    BY <1>6 DEF Walks, O, Occupied, Places
  <2>2. last.it \notin Past(x, last) /\ Past(x, last) \subseteq O
    BY <2>1 DEF Past, O
  <2>3. IsFiniteSet(Past(x, last)) /\ Cardinality(Past(x, last)) = n
    BY <1>2, <1>6, <2>2, FS_Subset DEF Walks
  <2>4. Past(x, last) \cup {last.it} \subseteq O
    BY <2>1, <2>2
  <2>5. Cardinality(Past(x, last) \cup {last.it}) = n + 1
    BY <2>2, <2>3, FS_AddElement
  <2>6. Cardinality(Past(x, last) \cup {last.it}) <= Cardinality(O)
    BY <1>2, <2>4, FS_Subset
  <2> QED
    BY <1>2, <2>5, <2>6
<1>8. Past(x, last) = O
  BY <1>7 DEF Past, O
<1>9. {last.met[i] : i \in 1 .. Len(last.met)} = Present(hashContent)
  BY <1>1, <1>6, <1>8, EntriesCount DEF Walks, O
<1>10. DOMAIN last.met = 1 .. Len(last.met)
  BY <1>6 DEF Walks
<1> QED
  BY <1>7, <1>9, <1>10 DEF last

LEMMA HashLoops == HashInv => Hash!LoopsMeetAll
<1> SUFFICES ASSUME HashInv PROVE Hash!LoopsMeetAll
  OBVIOUS
<1> DEFINE P == Present(hashContent)
           n == Cardinality(P)
           start == [map |-> hash, it |-> Hash!iter_begin(hash), met |-> <<>>]
           Function(E, c) == CHOOSE loop : Loops(loop, start, E, c)
           Last(E, c) == Function(E, c)[c]
<1>1. n \in Nat
  BY CountsAre, EntriesCount DEF HashInv, Sound
<1>2. ASSUME NEW E \in SUBSET P
      PROVE  /\ Last(E, n).it = Hash!End
             /\ {Last(E, n).met[i] : i \in DOMAIN Last(E, n).met} = P
  <2>1. \E loop : Loops(loop, start, E, n)
    BY <1>1, LoopsExist
  <2> DEFINE loop == Function(E, n)
  <2>2. Loops(loop, start, E, n)
    <3> HIDE DEF n, start
    <3> QED
      BY <2>1
  <2> HIDE DEF loop
  <2>3. /\ loop[n].it = Hash!End
        /\ {loop[n].met[i] : i \in DOMAIN loop[n].met} = P
    BY <2>2, LoopsMeet
  <2> QED
    BY <2>3 DEF loop
<1>3. Hash!Cardinality(P) = n
  BY SameSets
<1> DEFINE p == {k \in MapKeys : hashContent[k] # None}
<1>4. P = p
  BY DEF Present
<1>5. (\A E \in SUBSET p : /\ Last(E, Hash!Cardinality(p)).it = Hash!End
                           /\ Hash!Range(Last(E, Hash!Cardinality(p)).met) = p)
      => Hash!LoopsMeetAll
  <2> HIDE DEF P
  <2> QED
    BY DEF Hash!LoopsMeetAll, Loops
<1> HIDE DEF P, Last, p, n
<1>6. \A E \in SUBSET p : /\ Last(E, Hash!Cardinality(p)).it = Hash!End
                          /\ Hash!Range(Last(E, Hash!Cardinality(p)).met) = p
  BY <1>2, <1>3, <1>4 DEF Hash!Range
<1> QED
  BY <1>5, <1>6

-----------------------------------------------------------------------------
(***************************************************************************)
(* The paths.  The names of a string are those of its parts, where no name *)
(* goes from one part to the other.                                        *)
(***************************************************************************)

PathChars == Letters \cup Path!Separators

\* Where the names of s begin, how far the one at i goes, and that name
Begins(s) ==
  {i \in DOMAIN s : s[i] \in Letters /\ (i = 1 \/ s[i - 1] \in Path!Separators)}
PlaceAfter(s, i) == Path!Min({j \in i .. Len(s) + 1 : j > Len(s) \/ s[j] \in Path!Separators})
NameAt(s, i) == SubSeq(s, i, PlaceAfter(s, i) - 1)

\* e is the place after the name that begins at i
GoesTo(s, i, e) ==
  /\ e \in i .. Len(s) + 1
  /\ e > Len(s) \/ s[e] \in Path!Separators
  /\ \A j \in i .. e - 1 : s[j] \notin Path!Separators

\* p lists the n elements of S, numbers, in order
Lists(p, n, S) ==
  /\ n \in Nat /\ S \subseteq Nat
  /\ S = {p[k] : k \in 1 .. n}
  /\ \A j, k \in 1 .. n : j < k => p[j] < p[k]

LEMMA SetsAre == \A S : Path!Cardinality(S) = Cardinality(S)
  BY DEF Path!Cardinality, Cardinality

LEMMA CharsApart ==
  \A c : c \in Letters => c \notin Path!Separators
BY PathAssumption

LEMMA GoesToIs ==
  ASSUME NEW s \in Seq(PathChars), NEW i \in 1 .. Len(s)
  PROVE  GoesTo(s, i, PlaceAfter(s, i))
<1> DEFINE S == {j \in i .. Len(s) + 1 : j > Len(s) \/ s[j] \in Path!Separators}
<1>1. S \subseteq Nat /\ Len(s) + 1 \in S
  OBVIOUS
<1>2. PICK e \in S : \A j \in S : e <= j
  <2> HIDE DEF S
  <2> QED
    BY <1>1, Least
<1>3. PlaceAfter(s, i) = Path!Min(S)
  BY DEF PlaceAfter
<1>4. Path!Min(S) \in S /\ \A j \in S : Path!Min(S) <= j
  <2> HIDE DEF S
  <2> QED
    BY <1>2 DEF Path!Min
<1> DEFINE m == Path!Min(S)
<1> HIDE DEF m
<1>5. m \in S /\ \A j \in S : m <= j
  BY <1>4 DEF m
<1>6. m \in i .. Len(s) + 1 /\ (m > Len(s) \/ s[m] \in Path!Separators)
  BY <1>5
<1>7. \A j \in i .. m - 1 : s[j] \notin Path!Separators
  <2> SUFFICES ASSUME NEW j \in i .. m - 1, s[j] \in Path!Separators PROVE FALSE
    OBVIOUS
  <2>1. j \in S /\ j < m
    BY <1>6
  <2>2. m <= j
    BY <1>5, <2>1
  <2> QED
    BY <1>6, <2>1, <2>2
<1> QED
  BY <1>3, <1>6, <1>7 DEF GoesTo, m

LEMMA GoesToOne ==
  ASSUME NEW s \in Seq(PathChars), NEW i \in 1 .. Len(s), NEW e, GoesTo(s, i, e)
  PROVE  PlaceAfter(s, i) = e
<1> DEFINE f == PlaceAfter(s, i)
<1>1. GoesTo(s, i, f)
  BY GoesToIs
<1> HIDE DEF f
<1>2. e \in Int /\ f \in Int /\ i \in Int /\ Len(s) \in Nat
  BY <1>1 DEF GoesTo
<1>3. ~ (e < f)
  BY <1>1, <1>2 DEF GoesTo
<1>4. ~ (f < e)
  BY <1>1, <1>2 DEF GoesTo
<1> QED
  BY <1>2, <1>3, <1>4 DEF f

(* What is listed in order is counted by its places.                       *)
LEMMA ListCounts ==
  ASSUME NEW p, NEW n, NEW S, Lists(p, n, S)
  PROVE  \A k \in 0 .. n : /\ IsFiniteSet({p[l] : l \in 1 .. k})
                           /\ Cardinality({p[l] : l \in 1 .. k}) = k
<1> DEFINE T(k) == {p[l] : l \in 1 .. k}
           G == {k \in Nat : k <= n => IsFiniteSet(T(k)) /\ Cardinality(T(k)) = k}
<1>1. 0 \in G
  <2>1. T(0) = {}
    OBVIOUS
  <2> QED
    BY <2>1, FS_EmptySet
<1>2. ASSUME NEW k \in Nat, k \in G PROVE k + 1 \in G
  <2> SUFFICES ASSUME k + 1 <= n
               PROVE  IsFiniteSet(T(k + 1)) /\ Cardinality(T(k + 1)) = k + 1
    OBVIOUS
  <2>1. IsFiniteSet(T(k)) /\ Cardinality(T(k)) = k
    BY <1>2 DEF Lists
  <2>2. T(k + 1) = T(k) \cup {p[k + 1]}
    <3>1. 1 .. k + 1 = (1 .. k) \cup {k + 1}
      OBVIOUS
    <3> QED
      BY <3>1
  <2>3. p[k + 1] \notin T(k)
    <3> SUFFICES ASSUME NEW l \in 1 .. k, p[l] = p[k + 1] PROVE FALSE
      OBVIOUS
    <3>1. l \in 1 .. n /\ k + 1 \in 1 .. n /\ l < k + 1
      BY DEF Lists
    <3>2. p[l] < p[k + 1]
      BY <3>1 DEF Lists
    <3>3. p[k + 1] \in Nat
      BY <3>1 DEF Lists
    <3> QED
      BY <3>2, <3>3
  <2> HIDE DEF T
  <2> QED
    BY <2>1, <2>2, <2>3, FS_AddElement
<1>3. Nat \subseteq G
  <2> HIDE DEF G
  <2> QED
    BY <1>1, <1>2, SetInduction
<1> QED
  BY <1>3 DEF Lists

\* The k-th of S
NthIn(S, k) == CHOOSE i \in S : Path!Cardinality({j \in S : j < i}) = k - 1

LEMMA ListsAreOne ==
  ASSUME NEW p, NEW n, NEW S, S \subseteq Nat, Lists(p, n, S)
  PROVE  /\ Path!Cardinality(S) = n
         /\ \A k \in 1 .. n : NthIn(S, k) = p[k]
<1>1. n \in Nat /\ S = {p[l] : l \in 1 .. n}
  BY DEF Lists
<1>2. \A k \in 1 .. n : p[k] \in S /\ p[k] \in Nat
  BY <1>1
<1>3. \A k \in 1 .. n : Cardinality({j \in S : j < p[k]}) = k - 1
  <2> TAKE k \in 1 .. n
  <2>1. \A l \in 1 .. n : p[l] < p[k] <=> l < k
    <3> TAKE l \in 1 .. n
    <3>1. l < k => p[l] < p[k]
      BY DEF Lists
    <3>2. k < l => p[k] < p[l]
      BY DEF Lists
    <3>3. p[l] \in Nat /\ p[k] \in Nat /\ l \in Nat /\ k \in Nat
      BY <1>1, <1>2
    <3>4. l = k => p[l] = p[k]
      OBVIOUS
    <3> QED
      BY <3>1, <3>2, <3>3, <3>4
  <2>2. {j \in S : j < p[k]} = {p[l] : l \in {m \in 1 .. n : p[m] < p[k]}}
    BY <1>1
  <2>3. {m \in 1 .. n : p[m] < p[k]} = 1 .. k - 1
    BY <1>1, <2>1
  <2>4. {j \in S : j < p[k]} = {p[l] : l \in 1 .. k - 1}
    BY <2>2, <2>3
  <2>5. k - 1 \in 0 .. n
    BY <1>1
  <2> QED
    BY <2>4, <2>5, ListCounts
<1>4. ASSUME NEW k \in 1 .. n PROVE NthIn(S, k) = p[k]
  <2>1. \A i \in S : Path!Cardinality({j \in S : j < i}) = Cardinality({j \in S : j < i})
    BY SetsAre
  <2>2. \A i \in S : Path!Cardinality({j \in S : j < i}) = k - 1 => i = p[k]
    <3> TAKE i \in S
    <3>1. PICK m \in 1 .. n : i = p[m]
      BY <1>1
    <3>2. Cardinality({j \in S : j < i}) = m - 1
      BY <1>3, <3>1
    <3>3. m - 1 = k - 1 => m = k
      BY <1>1
    <3> QED
      BY <2>1, <3>1, <3>2, <3>3
  <2>3. p[k] \in S /\ Path!Cardinality({j \in S : j < p[k]}) = k - 1
    BY <1>2, <1>3, <2>1
  <2> QED
    BY <2>2, <2>3 DEF NthIn
<1>5. Cardinality(S) = n
  <2>1. n \in 0 .. n
    BY <1>1
  <2>2. Cardinality({p[l] : l \in 1 .. n}) = n
    BY <2>1, ListCounts
  <2> QED
    BY <1>1, <2>2
<1> QED
  BY <1>4, <1>5, SetsAre

LEMMA ListExists ==
  ASSUME NEW L \in Nat, NEW S, S \subseteq 1 .. L
  PROVE  \E n \in Nat : \E p : Lists(p, n, S)
<1> DEFINE G == {m \in Nat : \A T \in SUBSET (1 .. m) : \E n \in Nat : \E p : Lists(p, n, T)}
<1>1. 0 \in G
  <2> SUFFICES ASSUME NEW T \in SUBSET (1 .. 0)
               PROVE  \E n \in Nat : \E p : Lists(p, n, T)
    OBVIOUS
  <2>1. 1 .. 0 = {} /\ T = {}
    OBVIOUS
  <2>2. \A p : {p[k] : k \in 1 .. 0} = {}
    BY <2>1
  <2>3. \A p : Lists(p, 0, T)
    BY <2>1, <2>2 DEF Lists
  <2> QED
    BY <2>3
<1>2. ASSUME NEW m \in Nat, m \in G PROVE m + 1 \in G
  <2> SUFFICES ASSUME NEW T \in SUBSET (1 .. m + 1)
               PROVE  \E n \in Nat : \E p : Lists(p, n, T)
    OBVIOUS
  <2>1. T \ {m + 1} \in SUBSET (1 .. m)
    OBVIOUS
  <2>2a. PICK n \in Nat : \E p : Lists(p, n, T \ {m + 1})
    BY <1>2, <2>1
  <2>2. PICK p : Lists(p, n, T \ {m + 1})
    BY <2>2a
  <2>3. CASE m + 1 \notin T
    <3>1. T \ {m + 1} = T
      BY <2>3
    <3> QED
      BY <2>2, <3>1
  <2>4. CASE m + 1 \in T
    <3> DEFINE q == [k \in 1 .. n + 1 |-> IF k = n + 1 THEN m + 1 ELSE p[k]]
    <3>1. \A k \in 1 .. n + 1 : q[k] = IF k = n + 1 THEN m + 1 ELSE p[k]
      OBVIOUS
    <3>2. \A k \in 1 .. n : q[k] = p[k] /\ p[k] \in T \ {m + 1}
      BY <2>2 DEF Lists
    <3>3. q[n + 1] = m + 1
      OBVIOUS
    <3> HIDE DEF q
    <3>4. {q[k] : k \in 1 .. n + 1} = T
      <4>1. 1 .. n + 1 = (1 .. n) \cup {n + 1}
        OBVIOUS
      <4>2. {q[k] : k \in 1 .. n + 1} = {q[k] : k \in 1 .. n} \cup {q[n + 1]}
        BY <4>1
      <4>3. {q[k] : k \in 1 .. n} = {p[k] : k \in 1 .. n}
        BY <3>2
      <4>4. {p[k] : k \in 1 .. n} = T \ {m + 1}
        BY <2>2 DEF Lists
      <4> QED
        BY <2>4, <3>3, <4>2, <4>3, <4>4
    <3>5. ASSUME NEW j \in 1 .. n + 1, NEW k \in 1 .. n + 1, j < k PROVE q[j] < q[k]
      <4>1. j \in 1 .. n /\ q[j] = p[j] /\ p[j] \in 1 .. m
        <5>1. j \in 1 .. n
          BY <3>5
        <5>2. q[j] = p[j] /\ p[j] \in T \ {m + 1}
          BY <3>2, <5>1
        <5> QED
          BY <2>1, <5>1, <5>2
      <4>2. CASE k = n + 1
        BY <3>3, <4>1, <4>2
      <4>3. CASE k # n + 1
        <5>1. k \in 1 .. n
          BY <4>3
        <5> QED
          BY <2>2, <3>2, <3>5, <4>1, <5>1 DEF Lists
      <4> QED
        BY <4>2, <4>3
    <3>6. Lists(q, n + 1, T)
      BY <3>4, <3>5 DEF Lists
    <3> QED
      BY <3>6
  <2> QED
    BY <2>3, <2>4
<1>3. Nat \subseteq G
  <2> HIDE DEF G
  <2> QED
    BY <1>1, <1>2, SetInduction
<1> QED
  BY <1>3

LEMMA NamesAre ==
  ASSUME NEW s \in Seq(PathChars), NEW n, NEW p, Lists(p, n, Begins(s))
  PROVE  Path!Names(s) = [k \in 1 .. n |-> NameAt(s, p[k])]
<1> DEFINE B == {i \in DOMAIN s : s[i] \in Letters /\ (i = 1 \/ s[i - 1] \in Path!Separators)}
<1>1. B = Begins(s) /\ Begins(s) \subseteq Nat
  BY DEF Begins
<1>2. Path!Names(s) = [k \in 1 .. Path!Cardinality(B) |-> NameAt(s, NthIn(B, k))]
  BY DEF Path!Names, NthIn, NameAt, PlaceAfter
<1> HIDE DEF B
<1>3. Path!Cardinality(B) = n /\ \A k \in 1 .. n : NthIn(B, k) = p[k]
  BY <1>1, ListsAreOne
<1> QED
  BY <1>2, <1>3

LEMMA BeginsAre ==
  ASSUME NEW s \in Seq(PathChars)
  PROVE  /\ Begins(s) \subseteq 1 .. Len(s)
         /\ \E n \in Nat : \E p : Lists(p, n, Begins(s))
<1>1. Begins(s) \subseteq 1 .. Len(s) /\ Len(s) \in Nat
  BY DEF Begins
<1> QED
  BY <1>1, ListExists

(* No name goes from a to what is written after it.                        *)
Apart(a, b) ==
  a = <<>> \/ b = <<>> \/ a[Len(a)] \in Path!Separators \/ b[1] \in Path!Separators

LEMMA JoinIs ==
  ASSUME NEW a \in Seq(PathChars), NEW b \in Seq(PathChars)
  PROVE  /\ a \o b \in Seq(PathChars) /\ Len(a \o b) = Len(a) + Len(b)
         /\ \A i \in 1 .. Len(a) : (a \o b)[i] = a[i]
         /\ \A i \in 1 .. Len(b) : (a \o b)[i + Len(a)] = b[i]
<1>1. /\ a \o b \in Seq(PathChars) /\ Len(a \o b) = Len(a) + Len(b)
      /\ \A i \in 1 .. Len(a) + Len(b) :
           (a \o b)[i] = IF i <= Len(a) THEN a[i] ELSE b[i - Len(a)]
  BY ConcatProperties
<1> DEFINE c == a \o b
<1> HIDE DEF c
<1>2. ASSUME NEW i \in 1 .. Len(a) PROVE c[i] = a[i]
  BY <1>1 DEF c
<1>3. ASSUME NEW i \in 1 .. Len(b) PROVE c[i + Len(a)] = b[i]
  <2>1. i + Len(a) \in 1 .. Len(a) + Len(b) /\ ~ (i + Len(a) <= Len(a)) /\ i + Len(a) - Len(a) = i
    OBVIOUS
  <2> QED
    BY <1>1, <2>1 DEF c
<1> QED
  BY <1>1, <1>2, <1>3 DEF c

LEMMA JoinBegins ==
  ASSUME NEW a \in Seq(PathChars), NEW b \in Seq(PathChars), Apart(a, b)
  PROVE  /\ \A i \in 1 .. Len(a) : i \in Begins(a \o b) <=> i \in Begins(a)
         /\ \A i \in 1 .. Len(b) : i + Len(a) \in Begins(a \o b) <=> i \in Begins(b)
<1> DEFINE c == a \o b
<1>1. /\ c \in Seq(PathChars) /\ Len(c) = Len(a) + Len(b)
      /\ \A i \in 1 .. Len(a) : c[i] = a[i]
      /\ \A i \in 1 .. Len(b) : c[i + Len(a)] = b[i]
  BY JoinIs
<1> HIDE DEF c
<1>2. /\ Len(a) \in Nat /\ Len(b) \in Nat
      /\ DOMAIN a = 1 .. Len(a) /\ DOMAIN b = 1 .. Len(b) /\ DOMAIN c = 1 .. Len(c)
  BY <1>1
<1>3. ASSUME NEW i \in 1 .. Len(a) PROVE i \in Begins(c) <=> i \in Begins(a)
  <2>1. i \in DOMAIN a /\ i \in DOMAIN c /\ c[i] = a[i]
    BY <1>1, <1>2
  <2>2. i # 1 => c[i - 1] = a[i - 1]
    BY <1>1, <1>2
  <2> QED
    BY <2>1, <2>2 DEF Begins
<1>4. ASSUME NEW i \in 1 .. Len(b) PROVE i + Len(a) \in Begins(c) <=> i \in Begins(b)
  <2> DEFINE h == i + Len(a)
  <2>1. i \in DOMAIN b /\ h \in DOMAIN c /\ c[h] = b[i]
    BY <1>1, <1>2
  <2>2. CASE i # 1
    <3>1. i - 1 \in 1 .. Len(b) /\ h - 1 = (i - 1) + Len(a) /\ h # 1
      BY <1>2, <2>2
    <3>2. c[h - 1] = b[i - 1]
      BY <1>1, <3>1
    <3> HIDE DEF h
    <3> QED
      BY <2>1, <2>2, <3>1, <3>2 DEF Begins, h
  <2>3. CASE i = 1 /\ Len(a) = 0
    BY <1>2, <2>1, <2>3 DEF Begins
  <2>4. CASE i = 1 /\ Len(a) # 0
    <3>1. a # <<>> /\ b # <<>>
      BY <1>2, <2>4
    <3>2. h # 1 /\ h - 1 = Len(a) /\ Len(a) \in 1 .. Len(a)
      BY <1>2, <2>4
    <3>3. c[h - 1] = a[Len(a)]
      BY <1>1, <3>2
    <3>4. a[Len(a)] \in Path!Separators \/ b[i] \in Path!Separators
      BY <2>4, <3>1 DEF Apart
    <3>5. b[i] \in Letters => a[Len(a)] \in Path!Separators
      BY <3>4, CharsApart
    <3> HIDE DEF h
    <3> QED
      BY <2>1, <2>4, <3>2, <3>3, <3>5 DEF Begins, h
  <2> QED
    BY <2>2, <2>3, <2>4
<1> QED
  BY <1>3, <1>4 DEF c

LEMMA JoinNameLeft ==
  ASSUME NEW a \in Seq(PathChars), NEW b \in Seq(PathChars), Apart(a, b),
         NEW i \in 1 .. Len(a), i \in Begins(a)
  PROVE  NameAt(a \o b, i) = NameAt(a, i)
<1> DEFINE c == a \o b
           e == PlaceAfter(a, i)
<1>1. /\ c \in Seq(PathChars) /\ Len(c) = Len(a) + Len(b)
      /\ \A j \in 1 .. Len(a) : c[j] = a[j]
      /\ \A j \in 1 .. Len(b) : c[j + Len(a)] = b[j]
  BY JoinIs
<1>2. GoesTo(a, i, e)
  BY GoesToIs
<1> HIDE DEF c, e
<1>3. /\ Len(a) \in Nat /\ Len(b) \in Nat /\ e \in i .. Len(a) + 1
      /\ \A j \in i .. e - 1 : j \in 1 .. Len(a) /\ a[j] \notin Path!Separators
      /\ e > Len(a) \/ a[e] \in Path!Separators
  BY <1>2 DEF GoesTo
<1>4. e > Len(c) \/ c[e] \in Path!Separators
  <2>1. CASE e <= Len(a)
    BY <1>1, <1>3, <2>1
  <2>2. CASE e = Len(a) + 1 /\ Len(b) = 0
    BY <1>1, <1>3, <2>2
  <2>3. CASE e = Len(a) + 1 /\ Len(b) # 0
    <3>1. a # <<>> /\ b # <<>> /\ 1 \in 1 .. Len(b)
      BY <1>3, <2>3
    <3>2. i # e
      BY <1>3, <2>3
    <3>3. a[Len(a)] \notin Path!Separators
      BY <1>3, <2>3, <3>2
    <3>4. b[1] \in Path!Separators
      BY <3>1, <3>3 DEF Apart
    <3>5. c[1 + Len(a)] = b[1]
      BY <1>1, <3>1
    <3>6. 1 + Len(a) = e
      BY <1>3, <2>3
    <3> QED
      BY <3>4, <3>5, <3>6
  <2> QED
    BY <1>3, <2>1, <2>2, <2>3
<1>5. GoesTo(c, i, e) /\ i \in 1 .. Len(c)
  BY <1>1, <1>3, <1>4 DEF GoesTo
<1>6. PlaceAfter(c, i) = e
  BY <1>1, <1>5, GoesToOne
<1>7. SubSeq(c, i, e - 1) = SubSeq(a, i, e - 1)
  <2>1. e - 1 \in Int /\ \A j \in i .. e - 1 : c[j] = a[j]
    BY <1>1, <1>3
  <2> QED
    BY <2>1
<1> QED
  BY <1>6, <1>7 DEF NameAt, c, e

LEMMA JoinNameRight ==
  ASSUME NEW a \in Seq(PathChars), NEW b \in Seq(PathChars), NEW i \in 1 .. Len(b)
  PROVE  NameAt(a \o b, i + Len(a)) = NameAt(b, i)
<1> DEFINE c == a \o b
           e == PlaceAfter(b, i)
           h == i + Len(a)
           d == e + Len(a)
<1>1. /\ c \in Seq(PathChars) /\ Len(c) = Len(a) + Len(b)
      /\ \A j \in 1 .. Len(b) : c[j + Len(a)] = b[j]
  BY JoinIs
<1>2. GoesTo(b, i, e)
  BY GoesToIs
<1> HIDE DEF c, e
<1>3. /\ Len(a) \in Nat /\ Len(b) \in Nat /\ e \in i .. Len(b) + 1
      /\ \A j \in i .. e - 1 : j \in 1 .. Len(b) /\ b[j] \notin Path!Separators
      /\ e > Len(b) \/ b[e] \in Path!Separators
  BY <1>2 DEF GoesTo
<1>4. \A j \in h .. d - 1 : /\ j - Len(a) \in i .. e - 1
                            /\ c[j] = b[j - Len(a)]
  <2> TAKE j \in h .. d - 1
  <2>1. j - Len(a) \in i .. e - 1 /\ j - Len(a) \in 1 .. Len(b) /\ (j - Len(a)) + Len(a) = j
    BY <1>3
  <2> QED
    BY <1>1, <2>1
<1>5. d > Len(c) \/ c[d] \in Path!Separators
  BY <1>1, <1>3
<1>6. d \in h .. Len(c) + 1 /\ h \in 1 .. Len(c)
  BY <1>1, <1>3
<1>7. \A j \in h .. d - 1 : c[j] \notin Path!Separators
  BY <1>3, <1>4
<1> HIDE DEF h, d
<1>8. PlaceAfter(c, h) = d
  BY <1>1, <1>5, <1>6, <1>7, GoesToOne DEF GoesTo
<1>9. SubSeq(c, h, d - 1) = SubSeq(b, i, e - 1)
  <2>1. (1 + (d - 1)) - h = (1 + (e - 1)) - i /\ d \in Int /\ e \in Int /\ h \in Int
    BY <1>3 DEF d, h
  <2>2. \A k \in 1 .. (1 + (e - 1)) - i : c[h + k - 1] = b[i + k - 1]
    <3> TAKE k \in 1 .. (1 + (e - 1)) - i
    <3>1. h + k - 1 \in h .. d - 1 /\ (h + k - 1) - Len(a) = i + k - 1
      BY <1>3 DEF d, h
    <3> QED
      BY <1>4, <3>1
  <2>3. \A j \in h .. d - 1 : c[j] \in PathChars
    BY <1>1, <1>6, <1>3 DEF d, h
  <2>4. \A j \in i .. e - 1 : b[j] \in PathChars
    BY <1>3
  <2> DEFINE x == SubSeq(c, h, d - 1)
             y == SubSeq(b, i, e - 1)
  <2>5. /\ x \in Seq(PathChars) /\ Len(x) = IF h <= d - 1 THEN d - 1 - h + 1 ELSE 0
        /\ \A k \in 1 .. d - 1 - h + 1 : x[k] = c[h + k - 1]
    BY <2>1, <2>3, SubSeqProperties, SMTT(20)
  <2>6. /\ y \in Seq(PathChars) /\ Len(y) = IF i <= e - 1 THEN e - 1 - i + 1 ELSE 0
        /\ \A k \in 1 .. e - 1 - i + 1 : y[k] = b[i + k - 1]
    BY <2>1, <2>4, SubSeqProperties
  <2> HIDE DEF x, y
  <2>7. Len(x) = Len(y) /\ \A k \in 1 .. Len(x) : x[k] = y[k]
    <3>1. i \in Int /\ d - h = e - i /\ Len(x) = e - i /\ Len(y) = e - i
      BY <1>3, <2>1, <2>5, <2>6
    <3> SUFFICES ASSUME NEW k \in 1 .. e - i PROVE x[k] = y[k]
      BY <3>1
    <3>2. k \in 1 .. d - 1 - h + 1 /\ k \in 1 .. e - 1 - i + 1 /\ k \in 1 .. (1 + (e - 1)) - i
      BY <2>1, <3>1
    <3> QED
      BY <2>2, <2>5, <2>6, <3>2
  <2> QED
    BY <2>5, <2>6, <2>7, SeqEqual DEF x, y
<1> QED
  BY <1>8, <1>9 DEF NameAt, c, e, h

(* The names of a text are those of its two parts.                         *)
LEMMA JoinNames ==
  ASSUME NEW a \in Seq(PathChars), NEW b \in Seq(PathChars), Apart(a, b)
  PROVE  Path!Names(a \o b) = Path!Names(a) \o Path!Names(b)
<1> DEFINE c == a \o b
<1>1. /\ c \in Seq(PathChars) /\ Len(c) = Len(a) + Len(b)
      /\ Len(a) \in Nat /\ Len(b) \in Nat
  BY JoinIs
<1>2. /\ \A i \in 1 .. Len(a) : i \in Begins(c) <=> i \in Begins(a)
      /\ \A i \in 1 .. Len(b) : i + Len(a) \in Begins(c) <=> i \in Begins(b)
  BY JoinBegins
<1>3a. PICK m \in Nat : \E p : Lists(p, m, Begins(a))
  BY BeginsAre
<1>3. PICK p : Lists(p, m, Begins(a))
  BY <1>3a
<1>4a. PICK n \in Nat : \E q : Lists(q, n, Begins(b))
  BY BeginsAre
<1>4. PICK q : Lists(q, n, Begins(b))
  BY <1>4a
<1>5. /\ Begins(a) \subseteq 1 .. Len(a) /\ Begins(b) \subseteq 1 .. Len(b)
      /\ Begins(c) \subseteq 1 .. Len(c)
  BY <1>1, BeginsAre
<1> DEFINE r == [k \in 1 .. m + n |-> IF k <= m THEN p[k] ELSE q[k - m] + Len(a)]
<1>6. /\ \A k \in 1 .. m + n : r[k] = IF k <= m THEN p[k] ELSE q[k - m] + Len(a)
  OBVIOUS
<1> HIDE DEF r, c
<1>7. \A k \in 1 .. m : r[k] = p[k] /\ k \in 1 .. m + n /\ p[k] \in Begins(a) /\ p[k] \in 1 .. Len(a)
  BY <1>3, <1>5, <1>6 DEF Lists
<1>8. \A k \in 1 .. n : /\ k + m \in 1 .. m + n /\ r[k + m] = q[k] + Len(a)
                        /\ q[k] \in Begins(b) /\ q[k] \in 1 .. Len(b)
  <2> TAKE k \in 1 .. n
  <2>1. k + m \in 1 .. m + n /\ ~ (k + m <= m) /\ (k + m) - m = k
    OBVIOUS
  <2>2. r[k + m] = q[k] + Len(a)
    BY <1>6, <2>1
  <2>3. q[k] \in Begins(b)
    BY <1>4 DEF Lists
  <2> QED
    BY <1>5, <2>1, <2>2, <2>3
<1>9. \A k \in 1 .. m + n : k \in 1 .. m \/ \E l \in 1 .. n : k = l + m
  <2> TAKE k \in 1 .. m + n
  <2>1. k \in 1 .. m \/ (k - m \in 1 .. n /\ k = (k - m) + m)
    OBVIOUS
  <2> QED
    BY <2>1
<1>10. \A k \in 1 .. m + n : r[k] \in Begins(c)
  <2> TAKE k \in 1 .. m + n
  <2>1. CASE k \in 1 .. m
    BY <1>2, <1>7, <2>1
  <2>2. CASE \E l \in 1 .. n : k = l + m
    BY <1>2, <1>8, <2>2
  <2> QED
    BY <1>9, <2>1, <2>2
<1>11. ASSUME NEW i \in Begins(c) PROVE \E k \in 1 .. m + n : i = r[k]
  <2>1. CASE i \in 1 .. Len(a)
    <3>1. i \in Begins(a)
      BY <1>2, <2>1
    <3>2. PICK k \in 1 .. m : i = p[k]
      BY <1>3, <3>1 DEF Lists
    <3> QED
      BY <1>7, <3>2
  <2>2. CASE i \notin 1 .. Len(a)
    <3>1. i - Len(a) \in 1 .. Len(b) /\ (i - Len(a)) + Len(a) = i
      BY <1>1, <1>5, <2>2
    <3>2. i - Len(a) \in Begins(b)
      BY <1>2, <3>1
    <3>3. PICK k \in 1 .. n : i - Len(a) = q[k]
      BY <1>4, <3>2 DEF Lists
    <3>4. i = q[k] + Len(a)
      BY <3>1, <3>3
    <3> QED
      BY <1>8, <3>4
  <2> QED
    BY <2>1, <2>2
<1>12. ASSUME NEW j \in 1 .. m + n, NEW k \in 1 .. m + n, j < k PROVE r[j] < r[k]
  <2>1. CASE k \in 1 .. m
    <3>1. j \in 1 .. m
      BY <1>12, <2>1
    <3>2. p[j] < p[k]
      BY <1>3, <1>12, <2>1, <3>1 DEF Lists
    <3> QED
      BY <1>7, <2>1, <3>1, <3>2
  <2>2. CASE j \in 1 .. m /\ \E l \in 1 .. n : k = l + m
    <3>1. PICK l \in 1 .. n : k = l + m
      BY <2>2
    <3>2. r[j] \in 1 .. Len(a) /\ r[k] = q[l] + Len(a) /\ q[l] \in 1 .. Len(b)
      BY <1>7, <1>8, <2>2, <3>1
    <3> QED
      BY <1>1, <3>2, SMTT(20)
  <2>3. CASE (\E l \in 1 .. n : j = l + m) /\ (\E l \in 1 .. n : k = l + m)
    <3>1. PICK g \in 1 .. n : j = g + m
      BY <2>3
    <3>2. PICK l \in 1 .. n : k = l + m
      BY <2>3
    <3>3. g < l
      BY <1>12, <3>1, <3>2
    <3>4. q[g] < q[l]
      BY <1>4, <3>3 DEF Lists
    <3>5. r[j] = q[g] + Len(a) /\ r[k] = q[l] + Len(a) /\ q[g] \in 1 .. Len(b) /\ q[l] \in 1 .. Len(b)
      BY <1>8, <3>1, <3>2
    <3> QED
      BY <1>1, <3>4, <3>5, SMTT(20)
  <2> QED
    BY <1>9, <2>1, <2>2, <2>3
<1>13. Lists(r, m + n, Begins(c))
  <2>1. Begins(c) = {r[k] : k \in 1 .. m + n}
    BY <1>10, <1>11
  <2>2. m + n \in Nat /\ Begins(c) \subseteq Nat
    BY <1>1, <1>5
  <2> QED
    BY <1>12, <2>1, <2>2 DEF Lists
<1>14. Path!Names(c) = [k \in 1 .. m + n |-> NameAt(c, r[k])]
  BY <1>1, <1>13, NamesAre
<1>15. /\ Path!Names(a) = [k \in 1 .. m |-> NameAt(a, p[k])]
       /\ Path!Names(b) = [k \in 1 .. n |-> NameAt(b, q[k])]
  BY <1>3, <1>4, NamesAre
<1>16. \A k \in 1 .. m : NameAt(c, r[k]) = NameAt(a, p[k])
  <2> TAKE k \in 1 .. m
  <2>1. p[k] \in 1 .. Len(a) /\ p[k] \in Begins(a) /\ r[k] = p[k]
    BY <1>7
  <2>2. NameAt(c, p[k]) = NameAt(a, p[k])
    BY <2>1, JoinNameLeft DEF c
  <2> QED
    BY <2>1, <2>2
<1>17. \A k \in 1 .. n : NameAt(c, r[k + m]) = NameAt(b, q[k])
  <2> TAKE k \in 1 .. n
  <2>1. q[k] \in 1 .. Len(b) /\ r[k + m] = q[k] + Len(a)
    BY <1>8
  <2>2. NameAt(c, q[k] + Len(a)) = NameAt(b, q[k])
    BY <2>1, JoinNameRight DEF c
  <2> QED
    BY <2>1, <2>2
<1> DEFINE N(k) == NameAt(c, r[k])
           A(k) == NameAt(a, p[k])
           B(k) == NameAt(b, q[k])
<1>18. [k \in 1 .. m + n |-> N(k)] = [k \in 1 .. m |-> A(k)] \o [k \in 1 .. n |-> B(k)]
  <2>1. \A k \in 1 .. m : N(k) = A(k)
    BY <1>16
  <2>2. \A k \in 1 .. n : N(k + m) = B(k)
    BY <1>17
  <2> HIDE DEF N, A, B
  <2>3. \A k \in 1 .. m + n : k > m => k - m \in 1 .. n /\ N(k) = B(k - m)
    <3> TAKE k \in 1 .. m + n
    <3>1. k > m => k - m \in 1 .. n /\ (k - m) + m = k
      OBVIOUS
    <3> QED
      BY <2>2, <3>1
  <2> QED
    BY <2>1, <2>3
<1> QED
  BY <1>14, <1>15, <1>18 DEF c

(* Separators have no names, and their places in a text do not matter.     *)
LEMMA NoNames ==
  ASSUME NEW s \in Seq(PathChars), \A i \in 1 .. Len(s) : s[i] \in Path!Separators
  PROVE  Path!Names(s) = <<>>
<1>1. Begins(s) = {}
  BY CharsApart DEF Begins
<1>2. 1 .. 0 = {}
  OBVIOUS
<1>3. \A p : {p[k] : k \in 1 .. 0} = {}
  BY <1>2
<1>4. \A p : Lists(p, 0, Begins(s))
  BY <1>1, <1>2, <1>3 DEF Lists
<1>5. Path!Names(s) = [k \in 1 .. 0 |-> NameAt(s, <<>>[k])]
  BY <1>4, NamesAre
<1> QED
  BY <1>2, <1>5

(* A text without separators is its own name.                              *)
LEMMA OneName ==
  ASSUME NEW s \in Seq(PathChars), s # <<>>, \A i \in 1 .. Len(s) : s[i] \notin Path!Separators
  PROVE  Path!Names(s) = <<s>>
<1>1. Len(s) \in Nat /\ Len(s) >= 1 /\ DOMAIN s = 1 .. Len(s) /\ 1 \in 1 .. Len(s)
  OBVIOUS
<1>2. \A i \in 1 .. Len(s) : s[i] \in Letters
  BY DEF PathChars
<1>3. Begins(s) = {1}
  <2>1. ASSUME NEW i \in Begins(s) PROVE i = 1
    <3> SUFFICES ASSUME i # 1 PROVE FALSE
      OBVIOUS
    <3>1. i \in 1 .. Len(s) /\ s[i - 1] \in Path!Separators
      BY <1>1 DEF Begins
    <3>2. i - 1 \in 1 .. Len(s)
      BY <3>1
    <3> QED
      BY <3>1, <3>2
  <2>2. 1 \in Begins(s)
    BY <1>1, <1>2 DEF Begins
  <2> QED
    BY <2>1, <2>2
<1> DEFINE p == [k \in 1 .. 1 |-> k]
<1>4. 1 .. 1 = {1} /\ p[1] = 1
  OBVIOUS
<1> HIDE DEF p
<1>5. Lists(p, 1, Begins(s))
  BY <1>3, <1>4 DEF Lists
<1>6. Path!Names(s) = [k \in 1 .. 1 |-> NameAt(s, p[k])]
  BY <1>5, NamesAre
<1>7. GoesTo(s, 1, Len(s) + 1)
  BY <1>1 DEF GoesTo
<1>8. PlaceAfter(s, 1) = Len(s) + 1
  BY <1>1, <1>7, GoesToOne
<1>9. NameAt(s, 1) = s
  <2>1. SubSeq(s, 1, Len(s)) = s
    BY SubSeqFull
  <2>2. (Len(s) + 1) - 1 = Len(s)
    BY <1>1
  <2> QED
    BY <1>8, <2>1, <2>2 DEF NameAt
<1>10. [k \in 1 .. 1 |-> NameAt(s, p[k])] = <<s>>
  <2>1. \A k \in 1 .. 1 : NameAt(s, p[k]) = s
    BY <1>4, <1>9
  <2> QED
    BY <2>1
<1> QED
  BY <1>6, <1>10

(* Texts that differ in which separators they have, have the same names.   *)
LEMMA SameNames ==
  ASSUME NEW s \in Seq(PathChars), NEW t \in Seq(PathChars), Len(s) = Len(t),
         \A i \in 1 .. Len(s) : \/ s[i] = t[i]
                                \/ s[i] \in Path!Separators /\ t[i] \in Path!Separators
  PROVE  Path!Names(s) = Path!Names(t)
<1>1. DOMAIN s = 1 .. Len(s) /\ DOMAIN t = 1 .. Len(s) /\ Len(s) \in Nat
  OBVIOUS
<1>2. \A i \in 1 .. Len(s) : s[i] \in Path!Separators <=> t[i] \in Path!Separators
  OBVIOUS
<1>3. \A i \in 1 .. Len(s) : s[i] \notin Path!Separators => s[i] = t[i]
  OBVIOUS
<1>4. ASSUME NEW i \in 1 .. Len(s) PROVE i \in Begins(s) <=> i \in Begins(t)
  <2>1. s[i] \in Letters <=> t[i] \in Letters
    BY <1>2, <1>3, CharsApart
  <2>2. i # 1 => i - 1 \in 1 .. Len(s)
    BY <1>1
  <2>3. i # 1 => (s[i - 1] \in Path!Separators <=> t[i - 1] \in Path!Separators)
    BY <1>2, <2>2
  <2> QED
    BY <1>1, <2>1, <2>3 DEF Begins
<1>5. Begins(s) \subseteq 1 .. Len(s) /\ Begins(t) \subseteq 1 .. Len(s)
  BY BeginsAre
<1>6. Begins(s) = Begins(t)
  BY <1>4, <1>5
<1>7a. PICK n \in Nat : \E p : Lists(p, n, Begins(s))
  BY BeginsAre
<1>7. PICK p : Lists(p, n, Begins(s))
  BY <1>7a
<1>8. ASSUME NEW i \in 1 .. Len(s), i \in Begins(s) PROVE NameAt(s, i) = NameAt(t, i)
  <2> DEFINE e == PlaceAfter(s, i)
  <2>1. GoesTo(s, i, e)
    BY GoesToIs
  <2> HIDE DEF e
  <2>2. /\ e \in i .. Len(s) + 1 /\ (e > Len(s) \/ s[e] \in Path!Separators)
        /\ \A j \in i .. e - 1 : j \in 1 .. Len(s) /\ s[j] \notin Path!Separators
    BY <1>1, <2>1 DEF GoesTo
  <2>3. e <= Len(s) => e \in 1 .. Len(s)
    BY <1>1, <2>2
  <2>4. e > Len(t) \/ t[e] \in Path!Separators
    BY <1>1, <1>2, <2>2, <2>3
  <2>5. \A j \in i .. e - 1 : t[j] \notin Path!Separators /\ s[j] = t[j]
    BY <1>2, <1>3, <2>2
  <2>6. GoesTo(t, i, e) /\ i \in 1 .. Len(t)
    BY <2>2, <2>4, <2>5 DEF GoesTo
  <2>7. PlaceAfter(t, i) = e
    BY <2>6, GoesToOne
  <2>8. SubSeq(s, i, e - 1) = SubSeq(t, i, e - 1)
    <3>1. e - 1 \in Int
      BY <2>2
    <3> QED
      BY <2>5, <3>1
  <2> QED
    BY <2>7, <2>8 DEF NameAt, e
<1>9. \A k \in 1 .. n : NameAt(s, p[k]) = NameAt(t, p[k])
  BY <1>5, <1>7, <1>8 DEF Lists
<1>10. /\ Path!Names(s) = [k \in 1 .. n |-> NameAt(s, p[k])]
       /\ Path!Names(t) = [k \in 1 .. n |-> NameAt(t, p[k])]
  BY <1>6, <1>7, NamesAre
<1> QED
  BY <1>9, <1>10

LEMMA MaxIs ==
  ASSUME NEW L \in Nat, NEW S, S \subseteq 0 .. L, S # {}
  PROVE  /\ Path!Max(S) \in S
         /\ \A j \in S : j <= Path!Max(S)
<1> DEFINE T == {n \in Nat : L - n \in S}
<1>1. T \subseteq Nat /\ T # {}
  <2>1. PICK j \in S : TRUE
    OBVIOUS
  <2>2. L - j \in Nat /\ L - (L - j) = j
    OBVIOUS
  <2> QED
    BY <2>1, <2>2
<1>2. PICK n \in T : \A j \in T : n <= j
  <2> HIDE DEF T
  <2> QED
    BY <1>1, Least
<1>3. L - n \in S /\ n \in Nat
  BY <1>2
<1>4. ASSUME NEW j \in S PROVE j <= L - n
  <2>1. j \in Int /\ L - j \in Nat /\ L - (L - j) = j
    OBVIOUS
  <2>2. L - j \in T
    BY <2>1
  <2>3. n <= L - j
    BY <1>2, <2>2
  <2> QED
    BY <1>3, <2>1, <2>3
<1> DEFINE m == L - n
<1>5. m \in S /\ \A j \in S : j <= m /\ m >= j
  BY <1>3, <1>4
<1> HIDE DEF m, T
<1>6. \E x \in S : \A j \in S : x >= j
  BY <1>5
<1>7. Path!Max(S) \in S /\ \A j \in S : Path!Max(S) >= j
  BY <1>6 DEF Path!Max
<1> QED
  BY <1>7

(* The last name of s is what lies between Pos(s) and End(s).              *)
LEMMA EndIs ==
  ASSUME NEW s \in Seq(PathChars)
  PROVE  /\ Path!End(s) \in 0 .. Len(s)
         /\ Path!End(s) > 0 => s[Path!End(s)] \notin Path!Separators
         /\ \A i \in Path!End(s) + 1 .. Len(s) : s[i] \in Path!Separators
<1> DEFINE S == {0} \cup {i \in DOMAIN s : s[i] \notin Path!Separators}
<1>1. DOMAIN s = 1 .. Len(s) /\ Len(s) \in Nat
  OBVIOUS
<1>2. S \subseteq 0 .. Len(s) /\ S # {}
  BY <1>1
<1>3. Path!End(s) = Path!Max(S)
  BY DEF Path!End
<1> DEFINE m == Path!Max(S)
<1>4. m \in S /\ \A j \in S : j <= m
  <2> HIDE DEF S
  <2> QED
    BY <1>1, <1>2, MaxIs
<1> HIDE DEF m
<1>5. m \in 0 .. Len(s) /\ (m > 0 => s[m] \notin Path!Separators)
  BY <1>1, <1>4
<1>6. ASSUME NEW i \in m + 1 .. Len(s) PROVE s[i] \in Path!Separators
  <2> SUFFICES ASSUME s[i] \notin Path!Separators PROVE FALSE
    OBVIOUS
  <2>1. i \in DOMAIN s /\ i > m
    BY <1>1, <1>5
  <2>2. i \in S
    BY <2>1
  <2>3. i <= m
    BY <1>4, <2>2
  <2> QED
    BY <1>1, <1>5, <2>1, <2>3
<1> QED
  BY <1>3, <1>5, <1>6 DEF m

LEMMA PosIs ==
  ASSUME NEW s \in Seq(PathChars)
  PROVE  /\ Path!Pos(s) \in 0 .. Path!End(s)
         /\ Path!Pos(s) > 0 => s[Path!Pos(s)] \in Path!Separators
         /\ \A i \in Path!Pos(s) + 1 .. Path!End(s) : s[i] \notin Path!Separators
<1> DEFINE e == Path!End(s)
           S == {0} \cup {i \in 1 .. e : s[i] \in Path!Separators}
<1>1. e \in Nat /\ Path!Pos(s) = Path!Max(S)
  BY EndIs DEF Path!Pos
<1> HIDE DEF e
<1>2. S \subseteq 0 .. e /\ S # {}
  BY <1>1
<1> DEFINE m == Path!Max(S)
<1>3. m \in S /\ \A j \in S : j <= m
  <2> HIDE DEF S
  <2> QED
    BY <1>1, <1>2, MaxIs
<1> HIDE DEF m
<1>4. m \in 0 .. e /\ (m > 0 => s[m] \in Path!Separators)
  BY <1>1, <1>3
<1>5. ASSUME NEW i \in m + 1 .. e PROVE s[i] \notin Path!Separators
  <2> SUFFICES ASSUME s[i] \in Path!Separators PROVE FALSE
    OBVIOUS
  <2>1. i \in S /\ i > m
    BY <1>1, <1>4
  <2>2. i <= m
    BY <1>3, <2>1
  <2> QED
    BY <1>1, <1>4, <2>1, <2>2
<1> QED
  BY <1>1, <1>4, <1>5 DEF m, e

LEMMA NamesSeq ==
  ASSUME NEW s \in Seq(PathChars)
  PROVE  Path!Names(s) \in Seq(Seq(PathChars))
<1>1a. PICK n \in Nat : \E p : Lists(p, n, Begins(s))
  BY BeginsAre
<1>1. PICK p : Lists(p, n, Begins(s))
  BY <1>1a
<1>2. Path!Names(s) = [k \in 1 .. n |-> NameAt(s, p[k])]
  BY <1>1, NamesAre
<1>3. ASSUME NEW k \in 1 .. n PROVE NameAt(s, p[k]) \in Seq(PathChars)
  <2> DEFINE i == p[k]
             e == PlaceAfter(s, i)
  <2>1. i \in 1 .. Len(s)
    BY <1>1, BeginsAre DEF Lists
  <2> HIDE DEF i
  <2>2. GoesTo(s, i, e)
    BY <2>1, GoesToIs
  <2> HIDE DEF e
  <2>3. /\ i \in Int /\ e - 1 \in Int
        /\ \A j \in i .. e - 1 : s[j] \in PathChars
    BY <2>1, <2>2 DEF GoesTo
  <2>4. SubSeq(s, i, e - 1) \in Seq(PathChars)
    BY <2>3, SubSeqProperties
  <2> QED
    BY <2>4 DEF NameAt, i, e
<1> QED
  BY <1>2, <1>3

(* A text is its base, its last name and separators.                       *)
LEMMA PartsOf ==
  ASSUME NEW s \in Seq(PathChars)
  PROVE  LET base == SubSeq(s, 1, Path!Pos(s))
             name == SubSeq(s, Path!Pos(s) + 1, Path!End(s))
         IN  /\ base \in Seq(PathChars) /\ name \in Seq(PathChars)
             /\ Path!End(s) = 0 => Path!Names(s) = <<>> /\ name = <<>>
             /\ Path!End(s) > 0 => Path!Names(s) = Path!Names(base) \o <<name>>
<1> DEFINE e == Path!End(s)
           d == Path!Pos(s)
           base == SubSeq(s, 1, d)
           name == SubSeq(s, d + 1, e)
           rest == SubSeq(s, e + 1, Len(s))
<1>1. /\ e \in 0 .. Len(s) /\ (e > 0 => s[e] \notin Path!Separators)
      /\ \A i \in e + 1 .. Len(s) : s[i] \in Path!Separators
  BY EndIs
<1>2. /\ d \in 0 .. e /\ (d > 0 => s[d] \in Path!Separators)
      /\ \A i \in d + 1 .. e : s[i] \notin Path!Separators
  BY PosIs
<1> HIDE DEF d, e
<1>3. /\ Len(s) \in Nat /\ e \in Nat /\ d \in Nat /\ d <= e /\ e <= Len(s)
      /\ \A i \in 1 .. Len(s) : s[i] \in PathChars
  BY <1>1, <1>2
<1>4. /\ base \in Seq(PathChars) /\ Len(base) = d /\ \A i \in 1 .. d : base[i] = s[i]
  <2>1. d \in Int /\ 1 \in Int /\ \A i \in 1 .. d : s[i] \in PathChars
    BY <1>3
  <2>2. /\ base \in Seq(PathChars) /\ Len(base) = IF 1 <= d THEN d - 1 + 1 ELSE 0
        /\ \A i \in 1 .. d - 1 + 1 : base[i] = s[1 + i - 1]
    BY <2>1, SubSeqProperties
  <2>3. d - 1 + 1 = d /\ \A i \in 1 .. d : 1 + i - 1 = i
    BY <1>3
  <2> HIDE DEF base
  <2> QED
    BY <1>3, <2>2, <2>3
<1>5. /\ name \in Seq(PathChars) /\ Len(name) = e - d
      /\ \A i \in 1 .. e - d : name[i] = s[d + i]
  <2>1. d + 1 \in Int /\ e \in Int /\ \A i \in d + 1 .. e : s[i] \in PathChars
    BY <1>3
  <2>2. /\ name \in Seq(PathChars) /\ Len(name) = IF d + 1 <= e THEN e - (d + 1) + 1 ELSE 0
        /\ \A i \in 1 .. e - (d + 1) + 1 : name[i] = s[(d + 1) + i - 1]
    BY <2>1, SubSeqProperties
  <2>3. e - (d + 1) + 1 = e - d /\ \A i \in 1 .. e - d : (d + 1) + i - 1 = d + i
    BY <1>3
  <2> HIDE DEF name
  <2> QED
    BY <1>3, <2>2, <2>3
<1>6. /\ rest \in Seq(PathChars) /\ Len(rest) = Len(s) - e
      /\ \A i \in 1 .. Len(s) - e : rest[i] = s[e + i]
  <2>1. e + 1 \in Int /\ Len(s) \in Int /\ \A i \in e + 1 .. Len(s) : s[i] \in PathChars
    BY <1>3
  <2>2. /\ rest \in Seq(PathChars)
        /\ Len(rest) = IF e + 1 <= Len(s) THEN Len(s) - (e + 1) + 1 ELSE 0
        /\ \A i \in 1 .. Len(s) - (e + 1) + 1 : rest[i] = s[(e + 1) + i - 1]
    BY <2>1, SubSeqProperties
  <2>3. Len(s) - (e + 1) + 1 = Len(s) - e /\ \A i \in 1 .. Len(s) - e : (e + 1) + i - 1 = e + i
    BY <1>3
  <2> HIDE DEF rest
  <2>4. Len(rest) = Len(s) - e
    BY <1>3, <2>2
  <2>5. ASSUME NEW i \in 1 .. Len(s) - e PROVE rest[i] = s[e + i]
    <3>1. i \in 1 .. Len(s) - (e + 1) + 1 /\ (e + 1) + i - 1 = e + i
      BY <2>3
    <3> QED
      BY <2>2, <3>1
  <2> QED
    BY <2>2, <2>4, <2>5
<1> HIDE DEF base, name, rest
<1>7. name \o rest \in Seq(PathChars) /\ Len(name \o rest) = Len(s) - d
  <2>1. name \o rest \in Seq(PathChars) /\ Len(name \o rest) = Len(name) + Len(rest)
    BY <1>5, <1>6, JoinIs
  <2> QED
    BY <1>3, <1>5, <1>6, <2>1, SMTT(20)
<1>8. s = base \o (name \o rest)
  <2> DEFINE c == base \o (name \o rest)
             t == name \o rest
  <2>1. /\ c \in Seq(PathChars) /\ Len(c) = Len(base) + Len(t)
        /\ \A i \in 1 .. Len(base) : c[i] = base[i]
        /\ \A i \in 1 .. Len(t) : c[i + Len(base)] = t[i]
    BY <1>4, <1>7, JoinIs
  <2>2. /\ Len(t) = Len(s) - d
        /\ \A i \in 1 .. Len(name) : t[i] = name[i]
        /\ \A i \in 1 .. Len(rest) : t[i + Len(name)] = rest[i]
    BY <1>5, <1>6, <1>7, JoinIs
  <2> HIDE DEF c, t
  <2>3. Len(c) = Len(s)
    BY <1>3, <1>4, <2>1, <2>2
  <2>4. ASSUME NEW i \in 1 .. Len(s) PROVE c[i] = s[i]
    <3>1. CASE i <= d
      <4>1. i \in 1 .. d /\ i \in 1 .. Len(base)
        BY <1>3, <1>4, <3>1
      <4> QED
        BY <1>4, <2>1, <4>1
    <3>2. CASE d < i /\ i <= e
      <4>1. i - d \in 1 .. e - d /\ d + (i - d) = i /\ (i - d) + d = i
        BY <1>3, <3>2
      <4>2. t[i - d] = s[i]
        BY <1>5, <2>2, <4>1
      <4>3. i - d \in 1 .. Len(t)
        BY <1>3, <2>2, <3>2
      <4> QED
        BY <1>4, <2>1, <4>1, <4>2, <4>3
    <3>3. CASE e < i
      <4>1. /\ i - e \in 1 .. Len(s) - e /\ e + (i - e) = i
            /\ (i - e) + (e - d) = i - d /\ (i - d) + d = i
            /\ i - d \in 1 .. Len(s) - d
        BY <1>3, <3>3
      <4>2. t[i - d] = s[i]
        BY <1>5, <1>6, <2>2, <4>1
      <4> QED
        BY <1>4, <2>1, <2>2, <4>1, <4>2
    <3> QED
      BY <1>3, <3>1, <3>2, <3>3
  <2>5. c = s
    BY <2>1, <2>3, <2>4, SeqEqual
  <2> QED
    BY <2>5 DEF c
<1>9. Apart(base, name \o rest)
  <2>1. CASE d = 0
    BY <1>4, <2>1 DEF Apart
  <2>2. CASE d # 0
    BY <1>2, <1>3, <1>4, <2>2 DEF Apart
  <2> QED
    BY <2>1, <2>2
<1>10. Apart(name, rest)
  <2>1. CASE Len(rest) = 0
    BY <1>6, <2>1 DEF Apart
  <2>2. CASE Len(rest) # 0
    <3>1. 1 \in 1 .. Len(s) - e /\ e + 1 \in e + 1 .. Len(s)
      BY <1>3, <1>6, <2>2
    <3> QED
      BY <1>1, <1>6, <3>1 DEF Apart
  <2> QED
    BY <2>1, <2>2
<1>11. Path!Names(rest) = <<>>
  <2>1. \A i \in 1 .. Len(rest) : rest[i] = s[e + i] /\ e + i \in e + 1 .. Len(s)
    BY <1>3, <1>6
  <2> QED
    BY <1>1, <1>6, <2>1, NoNames
<1>12. Path!Names(name \o rest) = Path!Names(name) \o <<>>
  BY <1>5, <1>6, <1>10, <1>11, JoinNames
<1>13. Path!Names(s) = Path!Names(base) \o Path!Names(name \o rest)
  BY <1>4, <1>7, <1>8, <1>9, JoinNames
<1>14. Path!Names(name) \in Seq(Seq(PathChars)) /\ Path!Names(base) \in Seq(Seq(PathChars))
  BY <1>4, <1>5, NamesSeq
<1>15. Path!Names(s) = Path!Names(base) \o Path!Names(name)
  BY <1>12, <1>13, <1>14, ConcatEmptySeq
<1>16. ASSUME e = 0 PROVE Path!Names(s) = <<>> /\ name = <<>>
  <2>1. d = 0 /\ Len(name) = 0
    BY <1>3, <1>5, <1>16
  <2>2. \A i \in 1 .. Len(s) : i \in e + 1 .. Len(s)
    BY <1>16
  <2>3. Path!Names(s) = <<>>
    BY <1>1, <2>2, NoNames
  <2> QED
    BY <1>5, <2>1, <2>3
<1>17. ASSUME e > 0 PROVE Path!Names(name) = <<name>>
  <2>1. d # e
    BY <1>1, <1>2, <1>17
  <2>2. name # <<>>
    BY <1>3, <1>5, <2>1
  <2>3. \A i \in 1 .. Len(name) : name[i] = s[d + i] /\ d + i \in d + 1 .. e
    BY <1>3, <1>5
  <2> QED
    BY <1>2, <1>5, <2>2, <2>3, OneName
<1> QED
  BY <1>4, <1>5, <1>15, <1>16, <1>17 DEF base, name, d, e

(* A path is made of a text with the names it should have, and starts as   *)
(* it should; or it is empty.                                              *)
PathInv ==
  \/ path = Path!EmptyPath /\ parts = <<>> /\ rooted = FALSE
  \/ \E s \in Seq(PathChars) :
       path = Path!Is(s) /\ parts = Path!Names(s) /\ rooted = Path!Absolute(s)

LEMMA TextIs ==
  ASSUME NEW s \in Seq(PathChars)
  PROVE  /\ Path!Text(Path!Is(s)) = s
         /\ Path!Is(s).pstring = s /\ Path!Is(s).size = Len(s)
<1>1. Path!Is(s).pstring = s /\ Path!Is(s).size = Len(s)
  BY DEF Path!Is
<1>2. SubSeq(s, 1, Len(s)) = s
  BY SubSeqFull
<1> QED
  BY <1>1, <1>2 DEF Path!Text

LEMMA EmptyText ==
  /\ <<>> \in Seq(PathChars) /\ Path!Names(<<>>) = <<>> /\ Path!Absolute(<<>>) = FALSE
<1>1. <<>> \in Seq(PathChars) /\ Len(<<>>) = 0
  OBVIOUS
<1>2. \A i \in 1 .. Len(<<>>) : <<>>[i] \in Path!Separators
  BY <1>1
<1> QED
  BY <1>1, <1>2, NoNames DEF Path!Absolute

LEMMA PathStarts == Path!Init => PathInv
  BY DEF Path!Init, PathInv

LEMMA PathIsText ==
  ASSUME NEW s \in Seq(PathChars), path' = Path!Is(s), parts' = Path!Names(s),
         rooted' = Path!Absolute(s)
  PROVE  PathInv'
<1>1. path' = Path!Is(s) /\ parts' = Path!Names(s) /\ rooted' = Path!Absolute(s)
  OBVIOUS
<1> QED
  BY <1>1 DEF PathInv

LEMMA PathIsEmpty ==
  ASSUME path' = Path!EmptyPath, parts' = <<>>, rooted' = FALSE
  PROVE  PathInv'
BY DEF PathInv

LEMMA AppendKeepsPath ==
  ASSUME PathInv, NEW s \in Seq(PathChars), Path!append(s)
  PROVE  PathInv'
<1> DEFINE base == IF path.size = 0 THEN <<>> ELSE Path!Text(path)
           sep == IF Path!need_sep(base, s) THEN <<"/">> ELSE <<>>
           sum == (base \o sep) \o s
<1>1. /\ path' = Path!Is(sum) /\ parts' = parts \o Path!Names(s)
      /\ rooted' = IF base = <<>> THEN Path!Absolute(s) ELSE rooted
  BY DEF Path!append
<1>2. /\ base \in Seq(PathChars) /\ parts = Path!Names(base)
      /\ rooted = Path!Absolute(base)
  <2>1. CASE path = Path!EmptyPath /\ parts = <<>> /\ rooted = FALSE
    <3>1. base = <<>>
      BY <2>1 DEF Path!EmptyPath
    <3> QED
      BY <2>1, <3>1, EmptyText
  <2>2. ASSUME NEW t \in Seq(PathChars),
               path = Path!Is(t) /\ parts = Path!Names(t) /\ rooted = Path!Absolute(t)
        PROVE  base = t
    <3>1. Path!Text(path) = t /\ path.size = Len(t)
      BY <2>2, TextIs
    <3>2. Len(t) = 0 => t = <<>>
      OBVIOUS
    <3> QED
      BY <3>1, <3>2
  <2> HIDE DEF base
  <2> QED
    BY <2>1, <2>2 DEF PathInv
<1> HIDE DEF base
<1>3. sep \in Seq(PathChars) /\ Path!Names(sep) = <<>> /\ Apart(base, sep)
  <2>1. "/" \in Path!Separators
    BY DEF Path!Separators
  <2> DEFINE slash == "/"
  <2>2. <<slash>> \in Seq(PathChars) /\ Len(<<slash>>) = 1 /\ <<slash>>[1] = slash
    BY <2>1 DEF PathChars
  <2>3. \A i \in 1 .. Len(<<slash>>) : <<slash>>[i] \in Path!Separators
    BY <2>1, <2>2
  <2>4. Path!Names(<<slash>>) = <<>>
    BY <2>2, <2>3, NoNames
  <2>5. Apart(base, <<slash>>) /\ Apart(base, <<>>)
    BY <2>1, <2>2 DEF Apart
  <2> QED
    BY <2>2, <2>4, <2>5, EmptyText
<1>4. /\ base \o sep \in Seq(PathChars)
      /\ Path!Names(base \o sep) = Path!Names(base)
  <2>1. Path!Names(base \o sep) = Path!Names(base) \o <<>>
    BY <1>2, <1>3, JoinNames
  <2>2. Path!Names(base) \in Seq(Seq(PathChars))
    BY <1>2, NamesSeq
  <2> QED
    BY <1>2, <1>3, <2>1, <2>2, ConcatEmptySeq, ConcatProperties
<1>5. Apart(base \o sep, s)
  <2>1. CASE Path!need_sep(base, s)
    <3> DEFINE slash == "/"
    <3>1. slash \in Path!Separators /\ sep = <<slash>>
      BY <2>1 DEF Path!Separators
    <3>2. <<slash>> \in Seq(PathChars) /\ Len(<<slash>>) = 1 /\ <<slash>>[1] = slash
      BY <3>1 DEF PathChars
    <3> DEFINE c == base \o <<slash>>
    <3>3. /\ Len(c) = Len(base) + Len(<<slash>>)
          /\ \A i \in 1 .. Len(<<slash>>) : c[i + Len(base)] = <<slash>>[i]
      BY <1>2, <3>2, JoinIs
    <3> HIDE DEF slash
    <3>4. Len(base) \in Nat /\ 1 + Len(base) = Len(base) + 1
      BY <1>2
    <3>5. c[Len(c)] = slash
      <4> HIDE DEF c
      <4> QED
        BY <3>2, <3>3, <3>4
    <3> QED
      BY <3>1, <3>5 DEF Apart
  <2>2. CASE ~ Path!need_sep(base, s)
    <3>1. sep = <<>>
      BY <2>2
    <3>2. base \o <<>> = base
      BY <1>2, ConcatEmptySeq
    <3> QED
      BY <2>2, <3>1, <3>2 DEF Path!need_sep, Apart
  <2> QED
    BY <2>1, <2>2
<1>6. sum \in Seq(PathChars) /\ Path!Names(sum) = parts \o Path!Names(s)
  <2> HIDE DEF sep
  <2> QED
    BY <1>2, <1>4, <1>5, JoinNames, JoinIs
<1>7. Path!Absolute(sum) = IF base = <<>> THEN Path!Absolute(s) ELSE rooted
  <2>1. CASE base = <<>>
    <3>1. ~ Path!need_sep(base, s)
      BY <2>1 DEF Path!need_sep
    <3>2. sep = <<>>
      BY <3>1
    <3> HIDE DEF sep
    <3>3. sum = s
      BY <2>1, <3>2, EmptyText, ConcatEmptySeq
    <3> QED
      BY <2>1, <3>3
  <2>2. CASE base # <<>>
    <3> HIDE DEF sep
    <3> DEFINE c == base \o sep
    <3>1. /\ c \in Seq(PathChars) /\ Len(c) = Len(base) + Len(sep)
          /\ \A i \in 1 .. Len(base) : c[i] = base[i]
      BY <1>2, <1>3, JoinIs
    <3> HIDE DEF c
    <3>2. Len(base) \in Nat /\ Len(sep) \in Nat /\ Len(base) # 0
      BY <1>2, <1>3, <2>2
    <3>3. 1 \in 1 .. Len(base) /\ 1 \in 1 .. Len(c)
      BY <3>1, <3>2
    <3>4. c[1] = base[1]
      BY <3>1, <3>3
    <3>5. (c \o s)[1] = c[1] /\ Len(c \o s) = Len(c) + Len(s)
      BY <3>1, <3>3, JoinIs
    <3>6. c \o s # <<>>
      BY <3>1, <3>2, <3>5
    <3> QED
      BY <1>2, <2>2, <3>4, <3>5, <3>6 DEF Path!Absolute, c
  <2> QED
    BY <2>1, <2>2
<1> HIDE DEF sum, sep
<1> QED
  BY <1>1, <1>6, <1>7, PathIsText

LEMMA SlashesKeepPath ==
  ASSUME PathInv, Path!fix_slashes
  PROVE  PathInv'
<1>1. /\ path.pstring # None
      /\ path' = [path EXCEPT !.pstring =
           [i \in DOMAIN @ |-> IF i <= path.size /\ @[i] = "\\" THEN "/" ELSE @[i]]]
      /\ parts' = parts /\ rooted' = rooted
  BY DEF Path!fix_slashes
<1>2. PICK s \in Seq(PathChars) :
        path = Path!Is(s) /\ parts = Path!Names(s) /\ rooted = Path!Absolute(s)
  BY <1>1 DEF PathInv, Path!EmptyPath
<1> DEFINE t == [i \in DOMAIN s |-> IF i <= Len(s) /\ s[i] = "\\" THEN "/" ELSE s[i]]
<1>3. path' = Path!Is(t)
  <2>1. path.pstring = s /\ path.size = Len(s)
    BY <1>2, TextIs
  <2>2. path' = [path EXCEPT !.pstring = t]
    BY <1>1, <2>1
  <2>3. path = [pstring |-> s, size |-> Len(s)]
    BY <1>2 DEF Path!Is
  <2>4. Len(t) = Len(s)
    OBVIOUS
  <2> HIDE DEF t
  <2> QED
    BY <2>2, <2>3, <2>4 DEF Path!Is
<1>4. \A c : c = "\\" => c \in Path!Separators
  BY DEF Path!Separators
<1>5. "/" \in Path!Separators /\ "/" \in PathChars
  BY DEF Path!Separators, PathChars
<1>6. t \in Seq(PathChars) /\ Len(t) = Len(s)
  BY <1>5
<1>7. \A i \in 1 .. Len(s) : \/ s[i] = t[i]
                             \/ s[i] \in Path!Separators /\ t[i] \in Path!Separators
  BY <1>4, <1>5
<1> HIDE DEF t
<1>8. Path!Names(s) = Path!Names(t)
  BY <1>6, <1>7, SameNames
<1>9. Path!Absolute(s) = Path!Absolute(t)
  <2>1. s = <<>> <=> t = <<>>
    BY <1>6
  <2>2. s # <<>> => 1 \in 1 .. Len(s)
    OBVIOUS
  <2>3. s # <<>> => (s[1] \in Path!Separators <=> t[1] \in Path!Separators)
    BY <1>7, <2>2
  <2> QED
    BY <2>1, <2>3 DEF Path!Absolute
<1> QED
  BY <1>1, <1>2, <1>3, <1>6, <1>8, <1>9, PathIsText

LEMMA BaseOf ==
  ASSUME NEW s \in Seq(PathChars), Path!End(s) > 0
  PROVE  LET base == SubSeq(s, 1, Path!Pos(s))
             names == Path!Names(s)
         IN  /\ base \in Seq(PathChars)
             /\ names # <<>> /\ Path!Names(base) = SubSeq(names, 1, Len(names) - 1)
             /\ names[Len(names)] = SubSeq(s, Path!Pos(s) + 1, Path!End(s))
             /\ Path!Absolute(base) = Path!Absolute(s)
<1> DEFINE d == Path!Pos(s)
           base == SubSeq(s, 1, d)
           name == SubSeq(s, d + 1, Path!End(s))
           n == Path!Names(base)
<1>1. /\ base \in Seq(PathChars) /\ name \in Seq(PathChars)
      /\ Path!Names(s) = n \o <<name>>
  BY PartsOf
<1>2. /\ d \in 0 .. Path!End(s) /\ (d > 0 => s[d] \in Path!Separators)
      /\ \A i \in d + 1 .. Path!End(s) : s[i] \notin Path!Separators
      /\ Path!End(s) \in 0 .. Len(s)
  BY PosIs, EndIs
<1>3. n \in Seq(Seq(PathChars))
  <2> HIDE DEF base
  <2> QED
    BY <1>1, NamesSeq
<1>4. Path!Absolute(base) = Path!Absolute(s)
  <2>0. Path!End(s) \in Nat /\ Len(s) \in Nat /\ d \in Nat
    BY <1>2
  <2> HIDE DEF d
  <2>1. CASE d = 0
    <3>1. 1 \in d + 1 .. Path!End(s)
      BY <2>0, <2>1
    <3>2. s[1] \notin Path!Separators
      BY <1>2, <3>1
    <3>3. base = <<>>
      BY <2>1, SubSeqEmpty
    <3> QED
      BY <3>2, <3>3 DEF Path!Absolute
  <2>2. CASE d > 0
    <3>1. d \in Int /\ \A i \in 1 .. d : s[i] \in PathChars
      BY <1>2, <2>0
    <3>2. /\ Len(base) = IF 1 <= d THEN d - 1 + 1 ELSE 0
          /\ \A i \in 1 .. d - 1 + 1 : base[i] = s[1 + i - 1]
      BY <3>1, SubSeqProperties
    <3>3. 1 \in 1 .. d - 1 + 1 /\ 1 + 1 - 1 = 1 /\ Len(s) # 0
      BY <1>2, <2>0, <2>2
    <3> HIDE DEF base
    <3>4. base[1] = s[1] /\ Len(base) # 0
      BY <2>0, <2>2, <3>2, <3>3
    <3> QED
      BY <1>1, <3>3, <3>4 DEF Path!Absolute
  <2> QED
    BY <2>0, <2>1, <2>2
<1> DEFINE m == n \o <<name>>
<1>5. /\ m # <<>> /\ m[Len(m)] = name /\ SubSeq(m, 1, Len(m) - 1) = n
  <2>1. <<name>> \in Seq(Seq(PathChars)) /\ Len(<<name>>) = 1 /\ <<name>>[1] = name
    <3> HIDE DEF name
    <3> QED
      BY <1>1
  <2> HIDE DEF n, name
  <2>2. /\ m \in Seq(Seq(PathChars)) /\ Len(m) = Len(n) + 1 /\ Len(n) \in Nat
        /\ \A i \in 1 .. Len(n) + 1 : m[i] = IF i <= Len(n) THEN n[i] ELSE <<name>>[i - Len(n)]
    BY <1>3, <2>1, ConcatProperties
  <2> HIDE DEF m
  <2>3. Len(n) + 1 \in 1 .. Len(n) + 1 /\ ~ (Len(n) + 1 <= Len(n)) /\ Len(n) + 1 - Len(n) = 1
    BY <2>2
  <2>4. m[Len(m)] = name
    BY <2>1, <2>2, <2>3, SMTT(20)
  <2>5. \A i \in 1 .. Len(n) : m[i] = n[i]
    BY <2>2
  <2>6. SubSeq(m, 1, Len(n)) = n
    BY <1>3, <2>2, <2>5
  <2>7. Len(m) - 1 = Len(n) /\ m # <<>>
    BY <2>2
  <2> QED
    BY <2>4, <2>6, <2>7
<1> QED
  BY <1>1, <1>4, <1>5

LEMMA BackKeepsPath ==
  ASSUME PathInv, Path!back_folder
  PROVE  PathInv'
<1>1. /\ path.pstring # None /\ Path!End(Path!Text(path)) > 0
      /\ path' = Path!Is(Path!get_base(path))
      /\ parts' = SubSeq(parts, 1, Len(parts) - 1)
      /\ rooted' = rooted
  BY DEF Path!back_folder
<1>2. PICK s \in Seq(PathChars) :
        path = Path!Is(s) /\ parts = Path!Names(s) /\ rooted = Path!Absolute(s)
  BY <1>1 DEF PathInv, Path!EmptyPath
<1>3. Path!Text(path) = s
  BY <1>2, TextIs
<1> DEFINE base == SubSeq(s, 1, Path!Pos(s))
<1>4. Path!get_base(path) = base
  BY <1>3 DEF Path!get_base
<1>5. /\ base \in Seq(PathChars)
      /\ Path!Names(base) = SubSeq(parts, 1, Len(parts) - 1)
      /\ Path!Absolute(base) = Path!Absolute(s)
  BY <1>1, <1>2, <1>3, BaseOf
<1> HIDE DEF base
<1> QED
  BY <1>1, <1>2, <1>4, <1>5, PathIsText

LEMMA PathKeeps == PathInv /\ [Path!Next]_pathVars => PathInv'
<1> SUFFICES ASSUME PathInv, [Path!Next]_pathVars PROVE PathInv'
  OBVIOUS
<1>1. ASSUME NEW s \in PathStrings, Path!copy_string(s) PROVE PathInv'
  <2>1. s \in Seq(PathChars)
    BY PathAssumption DEF PathChars
  <2> QED
    BY <1>1, <2>1, PathIsText, PathIsEmpty DEF Path!copy_string
<1>2. ASSUME NEW s \in PathStrings, Path!append(s) PROVE PathInv'
  <2>1. s \in Seq(PathChars)
    BY PathAssumption DEF PathChars
  <2> QED
    BY <1>2, <2>1, AppendKeepsPath
<1>3. CASE Path!path_alloc_empty
  BY <1>3, EmptyText, PathIsText DEF Path!path_alloc_empty
<1>4. CASE Path!path_free
  BY <1>4, PathIsEmpty DEF Path!path_free
<1>5. CASE Path!fix_slashes
  BY <1>5, SlashesKeepPath
<1>6. CASE Path!back_folder
  BY <1>6, BackKeepsPath
<1>7. CASE UNCHANGED pathVars
  BY <1>7 DEF PathInv, pathVars
<1> QED
  BY <1>1, <1>2, <1>3, <1>4, <1>5, <1>6, <1>7 DEF Path!Next

LEMMA PathHolds == PathInv => Path!KeepsNames
<1> SUFFICES ASSUME PathInv, path.pstring # None PROVE Path!KeepsNames
  BY DEF Path!KeepsNames
<1>1. PICK s \in Seq(PathChars) :
        path = Path!Is(s) /\ parts = Path!Names(s) /\ rooted = Path!Absolute(s)
  BY DEF PathInv, Path!EmptyPath
<1>2. Path!Text(path) = s /\ path.pstring = s /\ path.size = Len(s)
  BY <1>1, TextIs
<1>3. /\ Path!get_filename(path) = SubSeq(s, Path!Pos(s) + 1, Path!End(s))
      /\ Path!get_base(path) = SubSeq(s, 1, Path!Pos(s))
  BY <1>2 DEF Path!get_filename, Path!get_base
<1>4. Path!End(s) = 0 \/ Path!End(s) > 0
  BY EndIs
<1>5. CASE Path!End(s) = 0
  <2>1. parts = <<>> /\ Path!get_filename(path) = <<>>
    BY <1>1, <1>3, <1>5, PartsOf
  <2> QED
    BY <1>1, <1>2, <2>1 DEF Path!KeepsNames
<1>6. CASE Path!End(s) > 0
  <2>1. /\ parts # <<>> /\ Path!get_filename(path) = parts[Len(parts)]
        /\ Path!Names(Path!get_base(path)) = SubSeq(parts, 1, Len(parts) - 1)
    BY <1>1, <1>3, <1>6, BaseOf
  <2> QED
    BY <1>1, <1>2, <2>1 DEF Path!KeepsNames
<1> QED
  BY <1>4, <1>5, <1>6

-----------------------------------------------------------------------------
(***************************************************************************)
(* The strings: the buffer of a caller, and the dg_string_t.               *)
(***************************************************************************)

Codes == 1 .. 127

IsCells(b, m) == b = [i \in 0 .. m |-> b[i]]

\* b, of the cells 0 .. m, begins with the string s and a NUL.
Ended(b, s, m) ==
  /\ s \in Seq(Codes) /\ m \in Nat /\ Len(s) <= m
  /\ IsCells(b, m)
  /\ \A i \in 1 .. Len(s) : b[i - 1] = s[i]
  /\ b[Len(s)] = Chars!NUL

\* The buffer is b and holds s, and the cells behind it are not its own.
Buffered(b, s) ==
  /\ Ended(b, s, 2 * TextMax) /\ Len(s) < TextMax
  /\ \A i \in 0 .. 2 * TextMax : b[i] \in Int
  /\ \A i \in 0 .. 2 * TextMax : (b[i] = Chars!Foreign) <=> i >= TextMax

TextInv == Buffered(buf, text) /\ ret[1] = ret[2]

LEMMA MaxIsNat == TextMax \in Nat /\ TextMax >= 1 /\ 2 * TextMax \in Nat /\ TextMax <= 2 * TextMax
  BY TextAssumption

LEMMA LeastIs ==
  ASSUME NEW S, S \subseteq Nat, S # {}
  PROVE  /\ Chars!Min(S) \in S
         /\ \A j \in S : Chars!Min(S) <= j
<1>1. \E x \in S : \A y \in S : x <= y
  BY Least
<1> QED
  BY <1>1 DEF Chars!Min

LEMMA MostIs ==
  ASSUME NEW L \in Nat, NEW S, S \subseteq 0 .. L, S # {}
  PROVE  /\ Chars!Max(S) \in S
         /\ \A j \in S : j <= Chars!Max(S)
<1>1. Path!Max(S) \in S /\ \A j \in S : j <= Path!Max(S)
  BY MaxIs
<1>2. \A j \in S : j \in Int
  OBVIOUS
<1>3. \E x \in S : \A j \in S : x >= j
  BY <1>1, <1>2
<1>4. Chars!Max(S) \in S /\ \A j \in S : Chars!Max(S) >= j
  BY <1>3 DEF Chars!Max
<1> QED
  BY <1>2, <1>4

LEMMA MinTwo ==
  ASSUME NEW a \in Nat, NEW b \in Nat
  PROVE  Chars!Min({a, b}) = IF a <= b THEN a ELSE b
<1> DEFINE S == {a, b}
<1>1. S \subseteq Nat /\ S # {}
  OBVIOUS
<1>2. Chars!Min(S) \in S /\ \A j \in S : Chars!Min(S) <= j
  <2> HIDE DEF S
  <2> QED
    BY <1>1, LeastIs
<1> DEFINE m == Chars!Min(S)
<1>3. (m = a \/ m = b) /\ m <= a /\ m <= b
  BY <1>2
<1> HIDE DEF m
<1>4. m = IF a <= b THEN a ELSE b
  BY <1>3
<1> QED
  BY <1>4 DEF m

LEMMA CutIs ==
  ASSUME NEW s \in Seq(Codes), NEW n \in Nat
  PROVE  /\ Chars!Cut(s, n) \in Seq(Codes)
         /\ Len(Chars!Cut(s, n)) = IF Len(s) <= n THEN Len(s) ELSE n
         /\ \A i \in 1 .. Len(Chars!Cut(s, n)) : i \in 1 .. Len(s) /\ Chars!Cut(s, n)[i] = s[i]
<1> DEFINE k == IF Len(s) <= n THEN Len(s) ELSE n
           c == SubSeq(s, 1, k)
<1>1. Len(s) \in Nat /\ k \in Nat /\ k <= Len(s)
  OBVIOUS
<1>2. Chars!Cut(s, n) = c
  BY <1>1, MinTwo DEF Chars!Cut
<1> HIDE DEF k
<1>3. k \in Int /\ \A i \in 1 .. k : s[i] \in Codes
  BY <1>1
<1>4. /\ c \in Seq(Codes) /\ Len(c) = IF 1 <= k THEN k - 1 + 1 ELSE 0
      /\ \A i \in 1 .. k - 1 + 1 : c[i] = s[1 + i - 1]
  BY <1>3, SubSeqProperties
<1>5. \A i \in 1 .. k : i \in 1 .. k - 1 + 1 /\ 1 + i - 1 = i /\ i \in 1 .. Len(s)
  BY <1>1
<1> HIDE DEF c
<1>6. Len(c) = k /\ \A i \in 1 .. k : c[i] = s[i]
  BY <1>1, <1>4, <1>5
<1> QED
  BY <1>2, <1>4, <1>5, <1>6 DEF k

LEMMA LengthIs ==
  ASSUME NEW b, NEW s, NEW m, Ended(b, s, m), NEW p \in 0 .. Len(s)
  PROVE  Chars!str_length(b, p) = Len(s) - p
<1> DEFINE S == {i \in DOMAIN b : i >= p /\ b[i] = Chars!NUL}
           n == Len(s)
<1>1. /\ s \in Seq(Codes) /\ n \in Nat /\ m \in Nat /\ n <= m /\ DOMAIN b = 0 .. m
      /\ b[n] = Chars!NUL
  BY DEF Ended, IsCells
<1>2. \A i \in 1 .. n : b[i - 1] = s[i] /\ s[i] \in Codes
  BY <1>1 DEF Ended
<1> HIDE DEF n
<1>3. n \in S /\ S \subseteq Nat
  BY <1>1 DEF n
<1>4. ASSUME NEW i \in S PROVE n <= i
  <2> SUFFICES ASSUME i < n PROVE FALSE
    BY <1>1, <1>3
  <2>1. i \in Nat /\ i + 1 \in 1 .. n /\ (i + 1) - 1 = i
    BY <1>1, <1>3
  <2>2. b[i] = s[i + 1] /\ s[i + 1] \in Codes
    BY <1>2, <2>1
  <2>3. b[i] = 0
    BY DEF Chars!NUL
  <2>4. b[i] \in 1 .. 127
    BY <2>2 DEF Codes
  <2> QED
    BY <2>3, <2>4
<1> HIDE DEF S
<1>5. Chars!Min(S) \in S /\ Chars!Min(S) <= n
  BY <1>3, LeastIs
<1> DEFINE x == Chars!Min(S)
<1> HIDE DEF x
<1>6. x \in S /\ x <= n
  BY <1>5 DEF x
<1>7. x = n
  BY <1>1, <1>3, <1>4, <1>6
<1> QED
  BY <1>7 DEF Chars!str_length, S, n, x

LEMMA AtIs ==
  ASSUME NEW b, NEW s, NEW m, Ended(b, s, m), NEW p \in 0 .. Len(s)
  PROVE  Chars!At(b, p) = SubSeq(s, p + 1, Len(s))
<1>1. s \in Seq(Codes) /\ Len(s) \in Nat /\ \A i \in 1 .. Len(s) : b[i - 1] = s[i]
  BY DEF Ended
<1>2. Chars!At(b, p) = [i \in 1 .. Len(s) - p |-> b[p + i - 1]]
  BY LengthIs DEF Chars!At
<1>3. \A i \in 1 .. Len(s) - p : b[p + i - 1] = s[(p + 1) + i - 1]
  <2> TAKE i \in 1 .. Len(s) - p
  <2>1. p + i \in 1 .. Len(s) /\ (p + 1) + i - 1 = p + i
    BY <1>1
  <2> QED
    BY <1>1, <2>1
<1>4. SubSeq(s, p + 1, Len(s)) = [i \in 1 .. (1 + Len(s)) - (p + 1) |-> s[(p + 1) + i - 1]]
  BY <1>1
<1>5. (1 + Len(s)) - (p + 1) = Len(s) - p
  BY <1>1
<1> QED
  BY <1>2, <1>3, <1>4, <1>5

LEMMA WholeIs ==
  ASSUME NEW b, NEW s, NEW m, Ended(b, s, m)
  PROVE  Chars!At(b, 0) = s /\ Chars!str_length(b, 0) = Len(s)
<1>1. s \in Seq(Codes) /\ Len(s) \in Nat
  BY DEF Ended
<1>2. 0 \in 0 .. Len(s) /\ 0 + 1 = 1 /\ Len(s) - 0 = Len(s)
  BY <1>1
<1>3. Chars!At(b, 0) = SubSeq(s, 0 + 1, Len(s)) /\ Chars!str_length(b, 0) = Len(s) - 0
  BY <1>2, AtIs, LengthIs
<1> QED
  BY <1>1, <1>2, <1>3, SubSeqFull

(* What a call writes into the buffer leaves it one that holds t.          *)
LEMMA WritesIs ==
  ASSUME NEW b, NEW s, Buffered(b, s), NEW r, NEW t \in Seq(Codes), Len(t) < TextMax,
         IsCells(r, 2 * TextMax),
         \A i \in 1 .. Len(t) : r[i - 1] = t[i],
         r[Len(t)] = Chars!NUL,
         \A i \in 0 .. 2 * TextMax : r[i] = b[i] \/ (i < TextMax /\ r[i] \in 0 .. 127)
  PROVE  Buffered(r, t)
<1>1. Ended(r, t, 2 * TextMax)
  BY MaxIsNat DEF Ended
<1>2. ASSUME NEW i \in 0 .. 2 * TextMax PROVE (r[i] = Chars!Foreign) <=> i >= TextMax
  <2>1. (b[i] = Chars!Foreign) <=> i >= TextMax
    BY DEF Buffered
  <2>2. CASE r[i] = b[i]
    BY <2>1, <2>2
  <2>3. CASE i < TextMax /\ r[i] \in 0 .. 127
    <3>1. r[i] # Chars!Foreign
      <4>1. \A x \in 0 .. 127 : x # 0 - 1
        OBVIOUS
      <4> QED
        BY <2>3, <4>1 DEF Chars!Foreign
    <3>2. ~ (i >= TextMax)
      BY <2>3, MaxIsNat
    <3> QED
      BY <3>1, <3>2
  <2> QED
    BY <2>2, <2>3
<1>3. ASSUME NEW i \in 0 .. 2 * TextMax PROVE r[i] \in Int
  <2>1. b[i] \in Int /\ 0 .. 127 \subseteq Int
    BY DEF Buffered
  <2> QED
    BY <2>1
<1> QED
  BY <1>1, <1>2, <1>3 DEF Buffered

LEMMA TextStarts == Chars!TextInit => TextInv
<1> SUFFICES ASSUME Chars!TextInit PROVE TextInv
  OBVIOUS
<1>1. buf = [i \in 0 .. 2 * TextMax |-> IF i < TextMax THEN Chars!NUL ELSE Chars!Foreign]
  BY DEF Chars!TextInit
<1>2. text = <<>> /\ ret = <<0, 0>>
  BY DEF Chars!TextInit
<1>3. Ended(buf, text, 2 * TextMax) /\ Len(text) < TextMax
  <2>1. buf[0] = Chars!NUL
    BY <1>1, MaxIsNat
  <2>2. \A i \in 1 .. 0 : FALSE
    OBVIOUS
  <2> QED
    BY <1>1, <1>2, <2>1, <2>2, MaxIsNat DEF Ended, IsCells
<1>4. \A i \in 0 .. 2 * TextMax : (buf[i] = Chars!Foreign) <=> i >= TextMax
  BY <1>1, MaxIsNat DEF Chars!Foreign, Chars!NUL
<1>5. \A i \in 0 .. 2 * TextMax : buf[i] \in Int
  BY <1>1 DEF Chars!Foreign, Chars!NUL
<1> QED
  BY <1>2, <1>3, <1>4, <1>5 DEF TextInv, Buffered

LEMMA CallKeeps ==
  ASSUME NEW b, NEW t, NEW is, NEW should, Chars!Call(b, t, is, should),
         Buffered(b, t), is = should
  PROVE  TextInv'
<1>1. buf' = b /\ text' = t /\ ret' = <<is, should>>
  BY DEF Chars!Call
<1> QED
  BY <1>1 DEF TextInv, Buffered, Ended, IsCells

LEMMA TextHolds == TextInv => Chars!HoldsText
<1> SUFFICES ASSUME TextInv PROVE Chars!HoldsText
  OBVIOUS
<1>1. Buffered(buf, text) /\ ret[1] = ret[2] /\ Ended(buf, text, 2 * TextMax)
  BY DEF TextInv, Buffered
<1>2. DOMAIN buf = 0 .. 2 * TextMax
  BY <1>1 DEF Ended, IsCells
<1>3. Len(text) \in 0 .. TextMax - 1 /\ buf[Len(text)] = Chars!NUL
  BY <1>1, MaxIsNat DEF Buffered, Ended
<1>4. Chars!At(buf, 0) = text
  BY <1>1, WholeIs
<1> QED
  BY <1>1, <1>2, <1>3, <1>4 DEF Chars!HoldsText, Buffered


LEMMA CodesAre == Codes \subseteq 0 .. 127 /\ 0 \notin Codes /\ Codes \subseteq Nat
  BY DEF Codes

(* What a buffer that holds a string is made of.                           *)
LEMMA BufferedHas ==
  ASSUME NEW b, NEW s, Buffered(b, s)
  PROVE  /\ s \in Seq(Codes) /\ Len(s) \in Nat /\ Len(s) < TextMax
         /\ DOMAIN b = 0 .. 2 * TextMax /\ IsCells(b, 2 * TextMax)
         /\ \A i \in 1 .. Len(s) : b[i - 1] = s[i]
         /\ b[Len(s)] = Chars!NUL /\ Chars!str_length(b, 0) = Len(s)
         /\ Ended(b, s, 2 * TextMax)
<1>1. Ended(b, s, 2 * TextMax) /\ Len(s) < TextMax
  BY DEF Buffered
<1>2. Chars!str_length(b, 0) = Len(s)
  BY <1>1, WholeIs
<1>3. IsCells(b, 2 * TextMax) /\ s \in Seq(Codes) /\ b[Len(s)] = Chars!NUL
  BY <1>1 DEF Ended
<1>4. DOMAIN b = 0 .. 2 * TextMax
  BY <1>3 DEF IsCells
<1>5. \A i \in 1 .. Len(s) : b[i - 1] = s[i]
  BY <1>1 DEF Ended
<1> QED
  BY <1>1, <1>2, <1>3, <1>4, <1>5

LEMMA CopyIs ==
  ASSUME NEW b, NEW s, Buffered(b, s), NEW n \in 0 .. TextMax, NEW f \in Seq(Codes)
  PROVE  Buffered(Chars!str_copy(b, n, f), IF n = 0 THEN s ELSE Chars!Cut(f, n - 1))
<1>1. n \in Nat /\ Len(f) \in Nat
  BY MaxIsNat
<1>2. CASE n = 0
  BY <1>2 DEF Chars!str_copy
<1>3. CASE n # 0
  <2> DEFINE c == Chars!Cut(f, n)
             t == Chars!Cut(f, n - 1)
             k == Chars!Min({Len(f), n - 1})
             y == Chars!mem_copy(b, 0, c)
             r == [y EXCEPT ![k] = Chars!NUL]
  <2>1. n - 1 \in Nat
    BY <1>1, <1>3
  <2>2. k = IF Len(f) <= n - 1 THEN Len(f) ELSE n - 1
    BY <1>1, <2>1, MinTwo
  <2>3. /\ c \in Seq(Codes) /\ Len(c) = IF Len(f) <= n THEN Len(f) ELSE n
        /\ \A i \in 1 .. Len(c) : c[i] = f[i]
    BY <1>1, CutIs
  <2>4. /\ t \in Seq(Codes) /\ Len(t) = k
        /\ \A i \in 1 .. Len(t) : t[i] = f[i]
    BY <2>1, <2>2, CutIs
  <2>5. DOMAIN b = 0 .. 2 * TextMax
    BY DEF Buffered, Ended, IsCells
  <2>6. y = [i \in 0 .. 2 * TextMax |->
               IF i \in 0 .. 0 + Len(c) - 1 THEN c[i - 0 + 1] ELSE b[i]]
    BY <2>5 DEF Chars!mem_copy
  <2> HIDE DEF c, t, k, y
  <2>7. k \in 0 .. n - 1 /\ k \in 0 .. 2 * TextMax /\ n <= TextMax
    BY <1>1, <1>3, <2>2, MaxIsNat
  <2>8. \A i \in 0 .. 2 * TextMax :
          r[i] = IF i = k THEN Chars!NUL ELSE IF i \in 0 .. Len(c) - 1 THEN c[i + 1] ELSE b[i]
    BY <2>3, <2>6
  <2>9. IsCells(r, 2 * TextMax)
    BY <2>6 DEF IsCells
  <2> HIDE DEF r
  <2>10. r[Len(t)] = Chars!NUL
    BY <2>4, <2>7, <2>8
  <2>11. \A i \in 1 .. Len(t) : r[i - 1] = t[i]
    <3> TAKE i \in 1 .. Len(t)
    <3>1. /\ i - 1 \in 0 .. 2 * TextMax /\ i - 1 # k /\ i - 1 \in 0 .. Len(c) - 1
          /\ (i - 1) + 1 = i /\ i \in 1 .. Len(c)
      BY <1>1, <2>2, <2>3, <2>4, <2>7, MaxIsNat
    <3> QED
      BY <2>3, <2>4, <2>8, <3>1
  <2>12. \A i \in 0 .. 2 * TextMax : r[i] = b[i] \/ (i < TextMax /\ r[i] \in 0 .. 127)
    <3> TAKE i \in 0 .. 2 * TextMax
    <3>1. CASE i = k
      BY <2>7, <2>8, <3>1, MaxIsNat DEF Chars!NUL
    <3>2. CASE i # k /\ i \in 0 .. Len(c) - 1
      <4>1. i + 1 \in 1 .. Len(c) /\ i < TextMax
        BY <1>1, <2>3, <2>7, <3>2, MaxIsNat
      <4>2. c[i + 1] \in Codes
        BY <2>3, <4>1
      <4>3. c[i + 1] \in 0 .. 127
        BY <4>2, CodesAre
      <4> QED
        BY <2>8, <3>2, <4>1, <4>3
    <3>3. CASE i # k /\ i \notin 0 .. Len(c) - 1
      BY <2>8, <3>3
    <3> QED
      BY <3>1, <3>2, <3>3
  <2>13. Len(t) < TextMax
    BY <2>4, <2>7, MaxIsNat
  <2>14. Buffered(r, t)
    BY <2>4, <2>9, <2>10, <2>11, <2>12, <2>13, WritesIs
  <2> QED
    BY <1>3, <2>14 DEF Chars!str_copy, r, y, c, t, k
<1> QED
  BY <1>2, <1>3

LEMMA ConcatIs ==
  ASSUME NEW b, NEW s, Buffered(b, s), NEW n \in 0 .. TextMax, NEW f \in Seq(Codes)
  PROVE  Buffered(Chars!str_concat(b, n, f), IF n = 0 THEN s ELSE Chars!Cut(s \o f, n - 1))
<1>1. n \in Nat /\ Len(f) \in Nat
  BY MaxIsNat
<1>2. /\ s \in Seq(Codes) /\ Len(s) \in Nat /\ Len(s) < TextMax
      /\ DOMAIN b = 0 .. 2 * TextMax /\ IsCells(b, 2 * TextMax)
      /\ \A i \in 1 .. Len(s) : b[i - 1] = s[i]
      /\ b[Len(s)] = Chars!NUL /\ Chars!str_length(b, 0) = Len(s)
  BY BufferedHas
<1>3. CASE n = 0
  BY <1>3 DEF Chars!str_concat
<1>4. CASE n # 0
  <2> DEFINE t == Chars!Cut(s \o f, n - 1)
  <2>1. n - 1 \in Nat /\ n <= TextMax
    BY <1>1, <1>4
  <2>2. /\ s \o f \in Seq(Codes) /\ Len(s \o f) = Len(s) + Len(f)
        /\ \A i \in 1 .. Len(s) + Len(f) : (s \o f)[i] = IF i <= Len(s) THEN s[i] ELSE f[i - Len(s)]
    BY <1>2, ConcatProperties
  <2>3. /\ t \in Seq(Codes) /\ Len(t) = IF Len(s) + Len(f) <= n - 1 THEN Len(s) + Len(f) ELSE n - 1
        /\ \A i \in 1 .. Len(t) : i \in 1 .. Len(s) + Len(f) /\ t[i] = (s \o f)[i]
    BY <2>1, <2>2, CutIs, ZenonT(30)
  <2>4. \A i \in 1 .. Len(t) : t[i] = IF i <= Len(s) THEN s[i] ELSE f[i - Len(s)]
    BY <2>2, <2>3
  <2>x. t \in Seq(Codes)
    BY <2>3
  <2> HIDE DEF t
  <2>5. Len(t) < TextMax
    BY <1>1, <1>2, <2>1, <2>3, MaxIsNat
  <2>6. CASE Len(s) >= n
    <3> DEFINE r == [b EXCEPT ![n - 1] = Chars!NUL]
    <3>1. Len(t) = n - 1
      BY <1>1, <1>2, <2>1, <2>3, <2>6
    <3>2. n - 1 \in 0 .. 2 * TextMax /\ n - 1 < TextMax
      BY <2>1, MaxIsNat
    <3>3. \A i \in 0 .. 2 * TextMax : r[i] = IF i = n - 1 THEN Chars!NUL ELSE b[i]
      BY <1>2
    <3>4. IsCells(r, 2 * TextMax)
      BY <1>2 DEF IsCells
    <3> HIDE DEF r
    <3>5. \A i \in 1 .. Len(t) : r[i - 1] = t[i]
      <4> TAKE i \in 1 .. Len(t)
      <4>1. i \in 1 .. Len(s) /\ i <= Len(s) /\ i - 1 # n - 1 /\ i - 1 \in 0 .. 2 * TextMax
        BY <1>1, <1>2, <2>1, <2>6, <3>1, MaxIsNat, SMTT(20)
      <4> QED
        BY <1>2, <2>4, <3>3, <4>1
    <3>6. r[Len(t)] = Chars!NUL
      BY <3>1, <3>2, <3>3
    <3>7. \A i \in 0 .. 2 * TextMax : r[i] = b[i] \/ (i < TextMax /\ r[i] \in 0 .. 127)
      BY <3>2, <3>3 DEF Chars!NUL
    <3>8. Buffered(r, t)
      BY <2>x, <2>5, <3>4, <3>5, <3>6, <3>7, WritesIs
    <3>9. Chars!str_concat(b, n, f) = r
      BY <1>2, <1>4, <2>6 DEF Chars!str_concat, r
    <3> QED
      BY <1>4, <3>8, <3>9 DEF t
  <2>7. CASE ~ (Len(s) >= n)
    <3> DEFINE l == Len(s)
               c == Chars!Cut(f, n - l - 1)
               y == Chars!mem_copy(b, l, c)
               r == [y EXCEPT ![l + Len(c)] = Chars!NUL]
    <3>1. n - l - 1 \in Nat /\ l \in Nat
      BY <1>1, <1>2, <2>7
    <3>2. /\ c \in Seq(Codes) /\ Len(c) = IF Len(f) <= n - l - 1 THEN Len(f) ELSE n - l - 1
          /\ \A i \in 1 .. Len(c) : i \in 1 .. Len(f) /\ c[i] = f[i]
      BY <3>1, CutIs
    <3>3. y = [i \in 0 .. 2 * TextMax |->
                 IF i \in l .. l + Len(c) - 1 THEN c[i - l + 1] ELSE b[i]]
      BY <1>2 DEF Chars!mem_copy
    <3> HIDE DEF l, c, y
    <3>4. Len(t) = l + Len(c) /\ Len(c) \in Nat
      BY <1>1, <2>1, <2>3, <3>1, <3>2, SMTT(20) DEF l
    <3>5. l + Len(c) \in 0 .. 2 * TextMax /\ l + Len(c) < TextMax
      BY <2>5, <3>1, <3>4, MaxIsNat
    <3>6. \A i \in 0 .. 2 * TextMax :
            r[i] = IF i = l + Len(c) THEN Chars!NUL
                   ELSE IF i \in l .. l + Len(c) - 1 THEN c[i - l + 1] ELSE b[i]
      BY <3>3
    <3>7. IsCells(r, 2 * TextMax)
      BY <3>3 DEF IsCells
    <3> HIDE DEF r
    <3>8. \A i \in 1 .. Len(t) : r[i - 1] = t[i]
      <4> TAKE i \in 1 .. Len(t)
      <4>1. i - 1 \in 0 .. 2 * TextMax /\ i - 1 # l + Len(c)
        BY <3>1, <3>4, <3>5, MaxIsNat
      <4>2. CASE i <= l
        <5>1. i \in 1 .. Len(s) /\ i - 1 \notin l .. l + Len(c) - 1
          BY <1>2, <3>1, <4>2 DEF l
        <5> QED
          BY <1>2, <2>4, <3>6, <4>1, <4>2, <5>1 DEF l
      <4>3. CASE ~ (i <= l)
        <5>1. i - 1 \in l .. l + Len(c) - 1 /\ i - l \in 1 .. Len(c) /\ (i - 1) - l + 1 = i - l
          BY <3>1, <3>4, <4>3
        <5>2. r[i - 1] = c[i - l]
          BY <3>6, <4>1, <5>1
        <5> QED
          BY <2>4, <3>2, <4>3, <5>1, <5>2 DEF l
      <4> QED
        BY <4>2, <4>3
    <3>9. r[Len(t)] = Chars!NUL
      BY <3>4, <3>5, <3>6
    <3>10. \A i \in 0 .. 2 * TextMax : r[i] = b[i] \/ (i < TextMax /\ r[i] \in 0 .. 127)
      <4> TAKE i \in 0 .. 2 * TextMax
      <4>1. CASE i = l + Len(c)
        BY <3>5, <3>6, <4>1 DEF Chars!NUL
      <4>2. CASE i # l + Len(c) /\ i \in l .. l + Len(c) - 1
        <5>1. i - l + 1 \in 1 .. Len(c) /\ i < TextMax
          BY <3>1, <3>4, <3>5, <4>2, MaxIsNat
        <5>2. c[i - l + 1] \in Codes
          BY <3>2, <5>1
        <5>3. c[i - l + 1] \in 0 .. 127
          BY <5>2, CodesAre
        <5> QED
          BY <3>6, <4>2, <5>1, <5>3
      <4>3. CASE i # l + Len(c) /\ i \notin l .. l + Len(c) - 1
        BY <3>6, <4>3
      <4> QED
        BY <4>1, <4>2, <4>3
    <3>11. Buffered(r, t)
      BY <2>x, <2>5, <3>7, <3>8, <3>9, <3>10, WritesIs
    <3>12. Chars!str_concat(b, n, f) = r
      BY <1>2, <1>4, <2>7 DEF Chars!str_concat, r, y, c, l
    <3> QED
      BY <1>4, <3>11, <3>12 DEF t
  <2> QED
    BY <2>6, <2>7
<1> QED
  BY <1>3, <1>4

(* Two loops that agree on the first round, and on each round if they do   *)
(* on the one before, agree.                                               *)
LEMMA SameLoop ==
  ASSUME NEW N \in Nat, NEW f, NEW g, f[0] = g[0],
         \A k \in 1 .. N : f[k - 1] = g[k - 1] => f[k] = g[k]
  PROVE  \A k \in 0 .. N : f[k] = g[k]
<1> DEFINE S == {k \in Nat : k <= N => f[k] = g[k]}
<1>1. 0 \in S
  OBVIOUS
<1>2. ASSUME NEW k \in Nat, k \in S PROVE k + 1 \in S
  <2> SUFFICES ASSUME k + 1 <= N PROVE f[k + 1] = g[k + 1]
    OBVIOUS
  <2>1. k + 1 \in 1 .. N /\ (k + 1) - 1 = k /\ f[k] = g[k]
    BY <1>2
  <2> QED
    BY <2>1
<1> HIDE DEF S
<1>3. Nat \subseteq S
  BY <1>1, <1>2, SetInduction
<1> QED
  BY <1>3 DEF S

Alike(f, g, N) == f[0] = g[0] /\ \A k \in 1 .. N : f[k - 1] = g[k - 1] => f[k] = g[k]

LEMMA SameLoops ==
  ASSUME NEW N \in Nat, NEW f, NEW g, Alike(f, g, N)
  PROVE  \A k \in 0 .. N : f[k] = g[k]
<1>1. f[0] = g[0] /\ \A k \in 1 .. N : f[k - 1] = g[k - 1] => f[k] = g[k]
  BY DEF Alike
<1> QED
  BY <1>1, SameLoop

\* f is the function that mem_move() is defined by.
Shift(f, k, b, dst, src, count) ==
  LET i == IF dst < src THEN k - 1 ELSE count - k IN
  IF k = 0 THEN b ELSE [f[k - 1] EXCEPT ![dst + i] = f[k - 1][src + i]]
Moves(f, b, dst, src, count) == f = [k \in 0 .. count |-> Shift(f, k, b, dst, src, count)]

\* The cell i of those that mem_move() has moved after k rounds
Moved(i, k, dst, src, count) ==
  IF dst < src THEN i - dst \in 0 .. k - 1 ELSE i - dst \in count - k .. count - 1

AfterMoves(b, m, k, dst, src, count) ==
  [i \in 0 .. m |-> IF Moved(i, k, dst, src, count) THEN b[src + (i - dst)] ELSE b[i]]

LEMMA MoveStep ==
  ASSUME NEW b, NEW m \in Nat, NEW dst \in Nat, NEW src \in Nat, NEW count \in Nat,
         dst + count - 1 <= m, src + count - 1 <= m, NEW k \in 1 .. count, NEW x, NEW y,
         x = AfterMoves(b, m, k - 1, dst, src, count),
         y = AfterMoves(b, m, k, dst, src, count),
         NEW j, j = IF dst < src THEN k - 1 ELSE count - k
  PROVE  [x EXCEPT ![dst + j] = x[src + j]] = y
<1>0. /\ x = [i \in 0 .. m |-> IF Moved(i, k - 1, dst, src, count) THEN b[src + (i - dst)] ELSE b[i]]
      /\ y = [i \in 0 .. m |-> IF Moved(i, k, dst, src, count) THEN b[src + (i - dst)] ELSE b[i]]
  BY DEF AfterMoves
<1>1. j \in 0 .. count - 1 /\ dst + j \in 0 .. m /\ src + j \in 0 .. m
  OBVIOUS
<1>2. x[src + j] = b[src + j]
  <2>1. ~ Moved(src + j, k - 1, dst, src, count)
    BY <1>1 DEF Moved
  <2> QED
    BY <1>0, <1>1, <2>1
<1>3. ASSUME NEW i \in 0 .. m, i # dst + j
      PROVE  Moved(i, k, dst, src, count) <=> Moved(i, k - 1, dst, src, count)
  BY <1>3 DEF Moved
<1>4. Moved(dst + j, k, dst, src, count) /\ (dst + j) - dst = j
  BY <1>1 DEF Moved
<1>5. \A i \in 0 .. m : i # dst + j => x[i] = y[i]
  BY <1>0, <1>3
<1>6. y[dst + j] = b[src + j]
  BY <1>0, <1>1, <1>4
<1> QED
  BY <1>0, <1>1, <1>2, <1>5, <1>6

LEMMA MoveIs ==
  ASSUME NEW b, NEW m \in Nat, IsCells(b, m), NEW dst \in Nat, NEW src \in Nat, NEW count \in Nat,
         dst + count - 1 <= m, src + count - 1 <= m
  PROVE  Chars!mem_move(b, dst, src, count) =
           [i \in 0 .. m |-> IF i - dst \in 0 .. count - 1 THEN b[src + (i - dst)] ELSE b[i]]
<1> DEFINE g == [k \in 0 .. count |-> AfterMoves(b, m, k, dst, src, count)]
           f == CHOOSE f : Moves(f, b, dst, src, count)
<1>1. g[0] = b
  <2>1. \A i \in 0 .. m : ~ Moved(i, 0, dst, src, count)
    BY DEF Moved
  <2>2. g[0] = AfterMoves(b, m, 0, dst, src, count)
    OBVIOUS
  <2>3. AfterMoves(b, m, 0, dst, src, count) = [i \in 0 .. m |-> b[i]]
    BY <2>1 DEF AfterMoves
  <2> QED
    BY <2>2, <2>3 DEF IsCells
<1>2. ASSUME NEW k \in 1 .. count, NEW j, j = IF dst < src THEN k - 1 ELSE count - k
      PROVE  [g[k - 1] EXCEPT ![dst + j] = g[k - 1][src + j]] = g[k]
  <2> DEFINE x == g[k - 1]
             y == g[k]
  <2>1. k - 1 \in 0 .. count /\ k \in 0 .. count
    OBVIOUS
  <2>2. x = AfterMoves(b, m, k - 1, dst, src, count) /\ y = AfterMoves(b, m, k, dst, src, count)
    BY <2>1
  <2> HIDE DEF x, y
  <2>3. [x EXCEPT ![dst + j] = x[src + j]] = y
    BY <1>2, <2>2, MoveStep
  <2> QED
    BY <2>3 DEF x, y
<1>3. g = [k \in 0 .. count |-> g[k]]
  OBVIOUS
<1> HIDE DEF g
<1>4. Moves(g, b, dst, src, count)
  <2>1. \A k \in 0 .. count : g[k] = Shift(g, k, b, dst, src, count)
    <3> TAKE k \in 0 .. count
    <3>1. CASE k = 0
      BY <1>1, <3>1 DEF Shift
    <3>2. CASE k # 0
      <4>1. k \in 1 .. count
        BY <3>2
      <4> QED
        BY <1>2, <3>2, <4>1 DEF Shift
    <3> QED
      BY <3>1, <3>2
  <2> QED
    BY <1>3, <2>1 DEF Moves
<1>5. Moves(f, b, dst, src, count)
  BY <1>4
<1>6. Chars!mem_move(b, dst, src, count) = f[count]
  BY DEF Chars!mem_move, Moves, Shift
<1> HIDE DEF f
<1>7. \A k \in 0 .. count : f[k] = Shift(f, k, b, dst, src, count)
  BY <1>5 DEF Moves
<1>8. f[0] = g[0] /\ \A k \in 1 .. count : f[k - 1] = g[k - 1] => f[k] = g[k]
  <2>1. f[0] = b
    <3>1. f[0] = Shift(f, 0, b, dst, src, count)
      BY <1>7
    <3> QED
      BY <3>1 DEF Shift
  <2>2. ASSUME NEW k \in 1 .. count, f[k - 1] = g[k - 1] PROVE f[k] = g[k]
    <3>1. k \in 0 .. count /\ k # 0
      OBVIOUS
    <3> DEFINE j == IF dst < src THEN k - 1 ELSE count - k
    <3>2. f[k] = [f[k - 1] EXCEPT ![dst + j] = f[k - 1][src + j]]
      BY <1>7, <3>1 DEF Shift
    <3> HIDE DEF j
    <3>3. [g[k - 1] EXCEPT ![dst + j] = g[k - 1][src + j]] = g[k]
      BY <1>2 DEF j
    <3> QED
      BY <2>2, <3>2, <3>3
  <2> QED
    BY <1>1, <2>1, <2>2
<1>9. f[count] = g[count]
  <2>1. Alike(f, g, count)
    BY <1>8 DEF Alike
  <2> QED
    BY <2>1, SameLoops
<1>10. g[count] = AfterMoves(b, m, count, dst, src, count)
  BY DEF g
<1>11. \A i \in 0 .. m : Moved(i, count, dst, src, count) <=> i - dst \in 0 .. count - 1
  BY DEF Moved
<1> QED
  BY <1>6, <1>9, <1>10, <1>11 DEF AfterMoves

(* What a call that keeps to the buffer leaves in it                       *)
LEMMA LeavesIs ==
  ASSUME NEW b, NEW s, Buffered(b, s), NEW r, NEW t, Ended(r, t, 2 * TextMax), Len(t) < TextMax,
         \A i \in 0 .. 2 * TextMax : r[i] = b[i] \/ (i < TextMax /\ r[i] \in 0 .. 127)
  PROVE  Buffered(r, t)
<1>1. t \in Seq(Codes) /\ IsCells(r, 2 * TextMax) /\ r[Len(t)] = Chars!NUL
  BY DEF Ended
<1>2. \A i \in 1 .. Len(t) : r[i - 1] = t[i]
  BY DEF Ended
<1> QED
  BY <1>1, <1>2, WritesIs

LEMMA MapIs ==
  ASSUME NEW b, NEW s, Buffered(b, s), NEW f \in [Codes -> Codes]
  PROVE  Buffered(Chars!str_map(b, f), [i \in DOMAIN s |-> f[s[i]]])
<1> DEFINE t == [i \in 1 .. Len(s) |-> f[s[i]]]
           r == [i \in 0 .. 2 * TextMax |-> IF i \in 0 .. Len(s) - 1 THEN t[i + 1] ELSE b[i]]
<1>1. /\ s \in Seq(Codes) /\ Len(s) \in Nat /\ Len(s) < TextMax /\ DOMAIN b = 0 .. 2 * TextMax
      /\ \A i \in 1 .. Len(s) : b[i - 1] = s[i]
      /\ b[Len(s)] = Chars!NUL
      /\ Ended(b, s, 2 * TextMax)
  BY BufferedHas
<1>2. DOMAIN s = 1 .. Len(s) /\ \A i \in 1 .. Len(s) : s[i] \in Codes
  BY <1>1
<1>3. t \in Seq(Codes) /\ Len(t) = Len(s) /\ \A i \in 1 .. Len(s) : t[i] = f[s[i]] /\ t[i] \in Codes
  BY <1>1, <1>2
<1>4. Chars!str_map(b, f) = r
  <2>1. Chars!At(b, 0) = s
    BY <1>1, WholeIs
  <2>2. [i \in DOMAIN Chars!At(b, 0) |-> f[Chars!At(b, 0)[i]]] = t
    BY <1>2, <2>1
  <2>3. Chars!str_map(b, f) = Chars!mem_copy(b, 0, t)
    BY <2>2 DEF Chars!str_map
  <2> HIDE DEF t
  <2>4. 0 + Len(t) - 1 = Len(s) - 1 /\ \A i \in 0 .. Len(s) - 1 : i - 0 + 1 = i + 1
    BY <1>1, <1>3
  <2> QED
    BY <1>1, <2>3, <2>4 DEF Chars!mem_copy
<1> HIDE DEF t
<1>5. \A i \in 0 .. 2 * TextMax : r[i] = IF i \in 0 .. Len(s) - 1 THEN t[i + 1] ELSE b[i]
  OBVIOUS
<1>6. IsCells(r, 2 * TextMax)
  BY DEF IsCells
<1> HIDE DEF r
<1>7. \A i \in 1 .. Len(t) : r[i - 1] = t[i]
  <2> TAKE i \in 1 .. Len(t)
  <2>1. i - 1 \in 0 .. 2 * TextMax /\ i - 1 \in 0 .. Len(s) - 1 /\ (i - 1) + 1 = i
    BY <1>1, <1>3, MaxIsNat
  <2> QED
    BY <1>5, <2>1
<1>8. r[Len(t)] = Chars!NUL
  <2>1. Len(t) \in 0 .. 2 * TextMax /\ Len(t) \notin 0 .. Len(s) - 1
    BY <1>1, <1>3, MaxIsNat
  <2> QED
    BY <1>1, <1>3, <1>5, <2>1
<1>9. \A i \in 0 .. 2 * TextMax : r[i] = b[i] \/ (i < TextMax /\ r[i] \in 0 .. 127)
  <2> TAKE i \in 0 .. 2 * TextMax
  <2>1. CASE i \in 0 .. Len(s) - 1
    <3>1. i + 1 \in 1 .. Len(s) /\ i < TextMax
      BY <1>1, <2>1, MaxIsNat
    <3>2. r[i] \in Codes
      BY <1>3, <1>5, <2>1, <3>1
    <3> QED
      BY <3>1, <3>2, CodesAre
  <2>2. CASE i \notin 0 .. Len(s) - 1
    BY <1>5, <2>2
  <2> QED
    BY <2>1, <2>2
<1>10. t \in Seq(Codes) /\ Len(t) < TextMax
  BY <1>1, <1>3
<1>11. Buffered(r, t)
  BY <1>6, <1>7, <1>8, <1>9, <1>10, WritesIs
<1> QED
  BY <1>2, <1>4, <1>11 DEF t

(* A loop of n rounds over the states of S, from x0, that goes from state  *)
(* to state by F                                                           *)
Follows(f, n, S, x0, F) ==
  /\ f \in [0 .. n -> S]
  /\ f[0] = x0
  /\ \A k \in 1 .. n : f[k] = F[k][f[k - 1]]

LEMMA LoopExists ==
  ASSUME NEW N \in Nat, NEW S, NEW x0 \in S, NEW F, \A k \in 1 .. N : \A x \in S : F[k][x] \in S
  PROVE  \E f : Follows(f, N, S, x0, F)
<1> DEFINE Sets == {n \in Nat : n <= N => \E f : Follows(f, n, S, x0, F)}
<1>1. 0 \in Sets
  <2> DEFINE f == [k \in 0 .. 0 |-> x0]
  <2>1. f \in [0 .. 0 -> S] /\ f[0] = x0
    OBVIOUS
  <2>2. \A k \in 1 .. 0 : FALSE
    OBVIOUS
  <2> HIDE DEF f
  <2>3. Follows(f, 0, S, x0, F)
    BY <2>1, <2>2 DEF Follows
  <2> QED
    BY <2>3
<1>2. ASSUME NEW n \in Nat, n \in Sets PROVE n + 1 \in Sets
  <2> SUFFICES ASSUME n + 1 <= N PROVE \E f : Follows(f, n + 1, S, x0, F)
    OBVIOUS
  <2>0. n <= N
    OBVIOUS
  <2>1. PICK f : Follows(f, n, S, x0, F)
    BY <1>2, <2>0
  <2>1a. f \in [0 .. n -> S] /\ f[0] = x0 /\ \A k \in 1 .. n : f[k] = F[k][f[k - 1]]
    BY <2>1 DEF Follows
  <2> DEFINE z == F[n + 1][f[n]]
             g == [k \in 0 .. n + 1 |-> IF k = n + 1 THEN z ELSE f[k]]
  <2>2. f[n] \in S /\ n + 1 \in 1 .. N
    BY <2>1a
  <2>3. z \in S
    BY <2>2
  <2>3a. z = F[n + 1][f[n]]
    OBVIOUS
  <2> HIDE DEF z
  <2>4. g \in [0 .. n + 1 -> S]
    BY <2>1a, <2>3
  <2>5. \A k \in 0 .. n : g[k] = f[k]
    OBVIOUS
  <2>6. g[n + 1] = z
    OBVIOUS
  <2> HIDE DEF g
  <2>7. g[0] = x0
    BY <2>1a, <2>5
  <2>8. ASSUME NEW k \in 1 .. n + 1 PROVE g[k] = F[k][g[k - 1]]
    <3>1. CASE k = n + 1
      <4>1. k - 1 = n /\ n \in 0 .. n
        BY <3>1
      <4>2. g[k - 1] = f[n]
        BY <2>5, <4>1
      <4> QED
        BY <2>3a, <2>6, <3>1, <4>2
    <3>2. CASE k # n + 1
      <4>1. k \in 1 .. n /\ k - 1 \in 0 .. n /\ k \in 0 .. n
        BY <3>2
      <4>2. g[k] = f[k] /\ g[k - 1] = f[k - 1] /\ f[k] = F[k][f[k - 1]]
        BY <2>1a, <2>5, <4>1
      <4> QED
        BY <4>2
    <3> QED
      BY <3>1, <3>2
  <2>9. Follows(g, n + 1, S, x0, F)
    BY <2>4, <2>7, <2>8 DEF Follows
  <2> QED
    BY <2>9
<1> HIDE DEF Sets
<1>3. Nat \subseteq Sets
  BY <1>1, <1>2, SetInduction
<1> QED
  BY <1>3 DEF Sets

\* f is the function that Without(s, c) is defined by.
Keep(f, n, s, c) ==
  IF n = 0 THEN <<>> ELSE IF s[n] = c THEN f[n - 1] ELSE Append(f[n - 1], s[n])
Keeps(f, s, c) == f = [n \in 0 .. Len(s) |-> Keep(f, n, s, c)]
Filtered(s, c) == CHOOSE f : Keeps(f, s, c)

LEMMA KeptIs ==
  ASSUME NEW s \in Seq(Codes), NEW c
  PROVE  /\ Chars!Without(s, c) = Filtered(s, c)[Len(s)]
         /\ Filtered(s, c)[0] = <<>>
         /\ \A n \in 0 .. Len(s) : Filtered(s, c)[n] \in Seq(Codes) /\ Len(Filtered(s, c)[n]) <= n
         /\ \A n \in 1 .. Len(s) :
              Filtered(s, c)[n] = IF s[n] = c THEN Filtered(s, c)[n - 1] ELSE Append(Filtered(s, c)[n - 1], s[n])
<1> DEFINE N == Len(s)
           S == Seq(Codes)
           F == [k \in 1 .. N |-> [x \in S |-> IF s[k] = c THEN x ELSE Append(x, s[k])]]
           f == Filtered(s, c)
<1>1. N \in Nat /\ \A k \in 1 .. N : s[k] \in Codes
  OBVIOUS
<1>2. <<>> \in S
  OBVIOUS
<1>3. \A k \in 1 .. N : \A x \in S : F[k][x] = IF s[k] = c THEN x ELSE Append(x, s[k])
  OBVIOUS
<1>4. \A k \in 1 .. N : \A x \in S : F[k][x] \in S
  BY <1>1, <1>3
<1> HIDE DEF F
<1>5. PICK g : Follows(g, N, S, <<>>, F)
  <2> HIDE DEF N, S
  <2> QED
    BY <1>1, <1>2, <1>4, LoopExists
<1>6. g \in [0 .. N -> S] /\ g[0] = <<>> /\ \A k \in 1 .. N : g[k] = F[k][g[k - 1]]
  BY <1>5 DEF Follows
<1> HIDE DEF N, S
<1>7. g = [n \in 0 .. N |-> g[n]] /\ \A n \in 0 .. N : g[n] \in S
  BY <1>6
<1>8. \A n \in 0 .. N : g[n] = Keep(g, n, s, c)
  <2> TAKE n \in 0 .. N
  <2>1. CASE n = 0
    BY <1>6, <2>1 DEF Keep
  <2>2. CASE n # 0
    <3>1. n \in 1 .. N /\ n - 1 \in 0 .. N
      BY <1>1, <2>2
    <3>2. g[n] = IF s[n] = c THEN g[n - 1] ELSE Append(g[n - 1], s[n])
      BY <1>3, <1>6, <1>7, <3>1
    <3> QED
      BY <2>2, <3>2 DEF Keep
  <2> QED
    BY <2>1, <2>2
<1>9. Keeps(g, s, c)
  BY <1>7, <1>8 DEF Keeps, N
<1>10. Keeps(f, s, c)
  BY <1>9 DEF Filtered
<1>11. Chars!Without(s, c) = f[N]
  BY DEF Chars!Without, Filtered, Keeps, Keep, N
<1> HIDE DEF f
<1>12. \A n \in 0 .. N : f[n] = Keep(f, n, s, c)
  BY <1>10 DEF Keeps, N
<1>13. f[0] = <<>>
  <2>1. f[0] = Keep(f, 0, s, c)
    BY <1>1, <1>12
  <2> QED
    BY <2>1 DEF Keep
<1>14. ASSUME NEW n \in 1 .. N
       PROVE  f[n] = IF s[n] = c THEN f[n - 1] ELSE Append(f[n - 1], s[n])
  <2>1. n \in 0 .. N /\ n # 0
    BY <1>1
  <2>2. f[n] = Keep(f, n, s, c)
    BY <1>12, <2>1
  <2> QED
    BY <2>1, <2>2 DEF Keep
<1>15. \A n \in 0 .. N : f[n] \in Seq(Codes) /\ Len(f[n]) <= n
  <2> DEFINE Sets == {n \in Nat : n <= N => f[n] \in Seq(Codes) /\ Len(f[n]) <= n}
  <2>0. f[0] \in Seq(Codes) /\ Len(f[0]) <= 0
    BY <1>13
  <2>1. 0 \in Sets
    BY <2>0
  <2>2. ASSUME NEW n \in Nat, n \in Sets PROVE n + 1 \in Sets
    <3> SUFFICES ASSUME n + 1 <= N PROVE f[n + 1] \in Seq(Codes) /\ Len(f[n + 1]) <= n + 1
      OBVIOUS
    <3>1. f[n] \in Seq(Codes) /\ Len(f[n]) <= n /\ Len(f[n]) \in Nat
      BY <1>1, <2>2
    <3>2. n + 1 \in 1 .. N /\ (n + 1) - 1 = n /\ s[n + 1] \in Codes
      BY <1>1
    <3>3. CASE s[n + 1] = c
      <4>1. f[n + 1] = f[n]
        BY <1>14, <3>2, <3>3
      <4> QED
        BY <3>1, <4>1
    <3>4. CASE s[n + 1] # c
      <4>1. f[n + 1] = Append(f[n], s[n + 1])
        BY <1>14, <3>2, <3>4
      <4> QED
        BY <3>1, <3>2, <4>1
    <3> QED
      BY <3>3, <3>4
  <2> HIDE DEF Sets
  <2>3. Nat \subseteq Sets
    BY <2>1, <2>2, SetInduction
  <2> QED
    BY <1>1, <2>3 DEF Sets
<1> QED
  BY <1>11, <1>13, <1>14, <1>15 DEF f, N

LEMMA WithoutIs ==
  ASSUME NEW s \in Seq(Codes), NEW c
  PROVE  Chars!Without(s, c) \in Seq(Codes) /\ Len(Chars!Without(s, c)) <= Len(s)
<1>1. Len(s) \in 0 .. Len(s)
  OBVIOUS
<1> QED
  BY <1>1, KeptIs, SMTT(20)

\* f is the function that str_remove_char() is defined by.
Drop(f, k, b, c) ==
  IF k = 0 THEN [b |-> b, write |-> 0]
  ELSE LET l == f[k - 1] IN
       IF l.b[k - 1] = c THEN l
       ELSE [b |-> [l.b EXCEPT ![l.write] = l.b[k - 1]], write |-> l.write + 1]
Drops(f, b, c, N) == f = [k \in 0 .. N |-> Drop(f, k, b, c)]

\* The cells of b after the loop of str_remove_char() has kept t
Front(b, t, m) == [i \in 0 .. m |-> IF i < Len(t) THEN t[i + 1] ELSE b[i]]

LEMMA DropsIs ==
  ASSUME NEW b, NEW s, NEW m, Ended(b, s, m), NEW c
  PROVE  Chars!str_remove_char(b, c) =
           [Front(b, Chars!Without(s, c), m) EXCEPT ![Len(Chars!Without(s, c))] = Chars!NUL]
<1> DEFINE N == Len(s)
           K == Filtered(s, c)
           g == [k \in 0 .. N |-> [b |-> Front(b, K[k], m), write |-> Len(K[k])]]
           f == CHOOSE f : Drops(f, b, c, N)
<1>1. s \in Seq(Codes) /\ m \in Nat /\ N \in Nat /\ N <= m /\ IsCells(b, m)
  BY DEF Ended
<1>2. \A k \in 1 .. N : b[k - 1] = s[k] /\ s[k] \in Codes
  BY <1>1 DEF Ended
<1>3. /\ Chars!Without(s, c) = K[N] /\ K[0] = <<>>
      /\ \A n \in 0 .. N : K[n] \in Seq(Codes) /\ Len(K[n]) <= n /\ Len(K[n]) \in Nat
      /\ \A n \in 1 .. N : K[n] = IF s[n] = c THEN K[n - 1] ELSE Append(K[n - 1], s[n])
  BY <1>1, KeptIs
<1>4. Chars!str_length(b, 0) = N
  BY WholeIs
<1> HIDE DEF N, K
<1>5. g = [k \in 0 .. N |-> g[k]] /\ \A k \in 0 .. N : g[k] = [b |-> Front(b, K[k], m), write |-> Len(K[k])]
  OBVIOUS
<1> HIDE DEF g
<1>6. g[0] = [b |-> b, write |-> 0]
  <2>1. g[0] = [b |-> Front(b, <<>>, m), write |-> Len(<<>>)]
    BY <1>1, <1>3, <1>5
  <2>2. Front(b, <<>>, m) = [i \in 0 .. m |-> b[i]]
    BY DEF Front
  <2>3. Front(b, <<>>, m) = b
    BY <1>1, <2>2 DEF IsCells
  <2> QED
    BY <2>1, <2>3
<1>7. ASSUME NEW k \in 1 .. N
      PROVE  g[k] = LET l == g[k - 1] IN
                    IF l.b[k - 1] = c THEN l
                    ELSE [b |-> [l.b EXCEPT ![l.write] = l.b[k - 1]], write |-> l.write + 1]
  <2> DEFINE x == K[k - 1]
             y == Front(b, x, m)
  <2>1. k - 1 \in 0 .. N /\ k \in 0 .. N /\ k - 1 \in 0 .. m
    BY <1>1
  <2>2. x \in Seq(Codes) /\ Len(x) <= k - 1 /\ Len(x) \in Nat
    BY <1>3, <2>1
  <2>3. g[k - 1] = [b |-> y, write |-> Len(x)] /\ g[k] = [b |-> Front(b, K[k], m), write |-> Len(K[k])]
    BY <1>5, <2>1
  <2>4. K[k] = IF s[k] = c THEN x ELSE Append(x, s[k])
    BY <1>3
  <2> HIDE DEF x
  <2>5. y = [i \in 0 .. m |-> IF i < Len(x) THEN x[i + 1] ELSE b[i]]
    BY DEF Front
  <2> HIDE DEF y
  <2>6. y[k - 1] = s[k]
    <3>1. ~ (k - 1 < Len(x))
      BY <2>1, <2>2
    <3> QED
      BY <1>2, <2>1, <2>5, <3>1
  <2>7. CASE s[k] = c
    <3>1. K[k] = x
      BY <2>4, <2>7
    <3>2. g[k] = [b |-> y, write |-> Len(x)]
      BY <2>3, <3>1 DEF y
    <3> QED
      BY <2>3, <2>6, <2>7, <3>2
  <2>8. CASE s[k] # c
    <3>1. K[k] = Append(x, s[k])
      BY <2>4, <2>8
    <3>2. /\ Len(Append(x, s[k])) = Len(x) + 1
          /\ \A i \in 1 .. Len(x) : Append(x, s[k])[i] = x[i]
          /\ Append(x, s[k])[Len(x) + 1] = s[k]
      BY <1>2, <2>2
    <3> DEFINE z == Append(x, s[k])
    <3> HIDE DEF z
    <3>3. Front(b, z, m) = [y EXCEPT ![Len(x)] = s[k]]
      <4>1. Front(b, z, m) = [i \in 0 .. m |-> IF i < Len(z) THEN z[i + 1] ELSE b[i]]
        BY DEF Front
      <4>2. \A i \in 0 .. m : (IF i < Len(z) THEN z[i + 1] ELSE b[i])
                            = (IF i = Len(x) THEN s[k] ELSE IF i < Len(x) THEN x[i + 1] ELSE b[i])
        BY <2>2, <3>2 DEF z
      <4>3. [y EXCEPT ![Len(x)] = s[k]]
              = [i \in 0 .. m |-> IF i = Len(x) THEN s[k] ELSE IF i < Len(x) THEN x[i + 1] ELSE b[i]]
        BY <2>5
      <4> QED
        BY <4>1, <4>2, <4>3
    <3>4. g[k] = [b |-> [y EXCEPT ![Len(x)] = s[k]], write |-> Len(x) + 1]
      BY <2>3, <3>1, <3>2, <3>3 DEF z
    <3> QED
      BY <2>3, <2>6, <2>8, <3>4
  <2> QED
    BY <2>7, <2>8
<1>8. Drops(g, b, c, N)
  <2>1. \A k \in 0 .. N : g[k] = Drop(g, k, b, c)
    <3> TAKE k \in 0 .. N
    <3>1. CASE k = 0
      BY <1>6, <3>1 DEF Drop
    <3>2. CASE k # 0
      <4>1. k \in 1 .. N
        BY <1>1, <3>2
      <4> QED
        BY <1>7, <3>2, <4>1 DEF Drop
    <3> QED
      BY <3>1, <3>2
  <2> QED
    BY <1>5, <2>1 DEF Drops
<1>9. Drops(f, b, c, N)
  BY <1>8
<1>10. Chars!str_remove_char(b, c) = [f[N].b EXCEPT ![f[N].write] = Chars!NUL]
  BY <1>4, ZenonT(30) DEF Chars!str_remove_char, Drops, Drop
<1> HIDE DEF f
<1>11. \A k \in 0 .. N : f[k] = Drop(f, k, b, c)
  BY <1>9 DEF Drops
<1>12. f[0] = g[0] /\ \A k \in 1 .. N : f[k - 1] = g[k - 1] => f[k] = g[k]
  <2>1. f[0] = Drop(f, 0, b, c)
    BY <1>1, <1>11
  <2>2. f[0] = g[0]
    BY <1>6, <2>1 DEF Drop
  <2>3. ASSUME NEW k \in 1 .. N, f[k - 1] = g[k - 1] PROVE f[k] = g[k]
    <3>1. k \in 0 .. N /\ k # 0
      BY <1>1
    <3>2. f[k] = Drop(f, k, b, c)
      BY <1>11, <3>1
    <3>3. g[k] = Drop(g, k, b, c)
      BY <1>7, <3>1 DEF Drop
    <3>4. Drop(f, k, b, c) = Drop(g, k, b, c)
      BY <2>3, <3>1 DEF Drop
    <3> QED
      BY <3>2, <3>3, <3>4
  <2> QED
    BY <2>2, <2>3
<1>13. f[N] = g[N]
  <2>1. N \in Nat
    BY <1>1
  <2>2. Alike(f, g, N)
    BY <1>12 DEF Alike
  <2>3. \A k \in 0 .. N : f[k] = g[k]
    BY <2>1, <2>2, SameLoops
  <2> QED
    BY <2>1, <2>3
<1>14. g[N] = [b |-> Front(b, K[N], m), write |-> Len(K[N])]
  BY <1>1, <1>5
<1>15. f[N].b = Front(b, K[N], m) /\ f[N].write = Len(K[N])
  BY <1>13, <1>14
<1> QED
  BY <1>3, <1>10, <1>15

LEMMA DropKeeps ==
  ASSUME NEW b, NEW s, NEW m, Ended(b, s, m), NEW c, NEW t, t = Chars!Without(s, c),
         NEW r, r = Chars!str_remove_char(b, c)
  PROVE  /\ Ended(r, t, m)
         /\ \A i \in 0 .. m : r[i] = b[i] \/ (i <= Len(s) /\ r[i] \in 0 .. 127)
<1>1. s \in Seq(Codes) /\ m \in Nat /\ Len(s) \in Nat /\ Len(s) <= m
  BY DEF Ended
<1>2. t \in Seq(Codes) /\ Len(t) <= Len(s) /\ Len(t) \in Nat
  BY <1>1, WithoutIs
<1>3. r = [Front(b, t, m) EXCEPT ![Len(t)] = Chars!NUL]
  BY DropsIs
<1>4. Front(b, t, m) = [i \in 0 .. m |-> IF i < Len(t) THEN t[i + 1] ELSE b[i]]
  BY DEF Front
<1>5. r = [i \in 0 .. m |-> IF i = Len(t) THEN Chars!NUL ELSE IF i < Len(t) THEN t[i + 1] ELSE b[i]]
  BY <1>3, <1>4
<1>6. IsCells(r, m)
  BY <1>5 DEF IsCells
<1>7. \A i \in 0 .. m : r[i] = IF i = Len(t) THEN Chars!NUL ELSE IF i < Len(t) THEN t[i + 1] ELSE b[i]
  BY <1>5
<1>8. r[Len(t)] = Chars!NUL
  BY <1>1, <1>2, <1>7
<1>9. ASSUME NEW i \in 1 .. Len(t) PROVE r[i - 1] = t[i]
  <2>1. i - 1 \in 0 .. m /\ i - 1 # Len(t) /\ i - 1 < Len(t) /\ (i - 1) + 1 = i
    BY <1>1, <1>2
  <2> QED
    BY <1>7, <2>1
<1>10. ASSUME NEW i \in 0 .. m PROVE r[i] = b[i] \/ (i <= Len(s) /\ r[i] \in 0 .. 127)
  <2>1. CASE i = Len(t)
    BY <1>1, <1>2, <1>7, <2>1 DEF Chars!NUL
  <2>2. CASE i < Len(t)
    <3>1. i + 1 \in 1 .. Len(t) /\ i <= Len(s) /\ i # Len(t)
      BY <1>1, <1>2, <2>2
    <3>2. t[i + 1] \in Codes
      BY <1>2, <3>1
    <3>3. r[i] = t[i + 1]
      BY <1>7, <2>2, <3>1
    <3> QED
      BY <3>1, <3>2, <3>3, CodesAre
  <2>3. CASE i # Len(t) /\ ~ (i < Len(t))
    BY <1>7, <2>3
  <2> QED
    BY <2>1, <2>2, <2>3
<1>11. Len(t) <= m
  BY <1>1, <1>2
<1> QED
  BY <1>1, <1>2, <1>6, <1>8, <1>9, <1>10, <1>11 DEF Ended

LEMMA RemoveIs ==
  ASSUME NEW b, NEW s, Buffered(b, s), NEW c
  PROVE  Buffered(Chars!str_remove_char(b, c), Chars!Without(s, c))
<1> DEFINE r == Chars!str_remove_char(b, c)
           t == Chars!Without(s, c)
<1>1. Ended(b, s, 2 * TextMax) /\ s \in Seq(Codes) /\ Len(s) < TextMax /\ Len(s) \in Nat
  BY BufferedHas
<1>2. t \in Seq(Codes) /\ Len(t) <= Len(s) /\ Len(t) \in Nat
  BY <1>1, WithoutIs
<1>3. /\ Ended(r, t, 2 * TextMax)
      /\ \A i \in 0 .. 2 * TextMax : r[i] = b[i] \/ (i <= Len(s) /\ r[i] \in 0 .. 127)
  BY <1>1, DropKeeps
<1> HIDE DEF r, t
<1>4. \A i \in 0 .. 2 * TextMax : r[i] = b[i] \/ (i < TextMax /\ r[i] \in 0 .. 127)
  <2>1. \A i \in 0 .. 2 * TextMax : i <= Len(s) => i < TextMax
    BY <1>1, MaxIsNat
  <2> QED
    BY <1>3, <2>1
<1>5. Len(t) < TextMax
  BY <1>1, <1>2, MaxIsNat
<1>6. Buffered(r, t)
  BY <1>3, <1>4, <1>5, LeavesIs
<1> QED
  BY <1>6 DEF r, t

\* s with x in the place of its characters after a, up to z
Splice(s, a, z, x) == SubSeq(s, 1, a) \o x \o SubSeq(s, z + 1, Len(s))

LEMMA PartIs ==
  ASSUME NEW s \in Seq(Codes), NEW a \in Nat, NEW z \in Nat, a <= z, z <= Len(s)
  PROVE  /\ SubSeq(s, a + 1, z) \in Seq(Codes) /\ Len(SubSeq(s, a + 1, z)) = z - a
         /\ \A i \in 1 .. z - a : SubSeq(s, a + 1, z)[i] = s[a + i] /\ a + i \in 1 .. Len(s)
<1> DEFINE f == a + 1
           c == SubSeq(s, f, z)
<1>1. /\ f \in Int /\ z \in Int /\ f + z - f \in Int /\ \A i \in f .. z : s[i] \in Codes
      /\ \A i \in 1 .. z - a : a + i \in f .. z /\ a + i \in 1 .. Len(s) /\ f + i - 1 = a + i
      /\ (z - f) + 1 = z - a /\ (f <= z => z - f + 1 = z - a) /\ (~ (f <= z) => z - a = 0)
  OBVIOUS
<1> HIDE DEF f
<1>2. /\ c \in Seq(Codes) /\ Len(c) = IF f <= z THEN z - f + 1 ELSE 0
      /\ \A i \in 1 .. z - f + 1 : c[i] = s[f + i - 1]
  BY <1>1, SubSeqProperties
<1> HIDE DEF c
<1>3. Len(c) = z - a
  BY <1>1, <1>2
<1>4. \A i \in 1 .. z - a : c[i] = s[a + i]
  BY <1>1, <1>2
<1> QED
  BY <1>1, <1>2, <1>3, <1>4 DEF c, f

LEMMA SpliceIs ==
  ASSUME NEW s \in Seq(Codes), NEW x \in Seq(Codes), NEW a \in Nat, NEW z \in Nat, a <= z, z <= Len(s)
  PROVE  /\ Splice(s, a, z, x) \in Seq(Codes)
         /\ Len(Splice(s, a, z, x)) = a + Len(x) + (Len(s) - z)
         /\ \A i \in 1 .. a : Splice(s, a, z, x)[i] = s[i]
         /\ \A i \in 1 .. Len(x) : Splice(s, a, z, x)[a + i] = x[i]
         /\ \A i \in 1 .. Len(s) - z : Splice(s, a, z, x)[a + Len(x) + i] = s[z + i]
<1> DEFINE u == SubSeq(s, 0 + 1, a)
           v == SubSeq(s, z + 1, Len(s))
           w == u \o x
           t == w \o v
<1>1. Len(s) \in Nat /\ Len(x) \in Nat /\ 0 <= a /\ 0 \in Nat /\ a <= Len(s) /\ a - 0 = a
  OBVIOUS
<1>2. u \in Seq(Codes) /\ Len(u) = a /\ \A i \in 1 .. a : u[i] = s[i]
  <2>1. /\ u \in Seq(Codes) /\ Len(u) = a - 0
        /\ \A i \in 1 .. a - 0 : u[i] = s[0 + i] /\ 0 + i \in 1 .. Len(s)
    <3> HIDE DEF u
    <3> QED
      BY <1>1, PartIs DEF u
  <2> HIDE DEF u
  <2>2. \A i \in 1 .. a : i \in 1 .. a - 0 /\ 0 + i = i
    BY <1>1
  <2> QED
    BY <1>1, <2>1, <2>2
<1>3. v \in Seq(Codes) /\ Len(v) = Len(s) - z /\ \A i \in 1 .. Len(s) - z : v[i] = s[z + i]
  BY <1>1, PartIs
<1>4. Splice(s, a, z, x) = t
  BY DEF Splice
<1> HIDE DEF u, v
<1>5. /\ w \in Seq(Codes) /\ Len(w) = a + Len(x)
      /\ \A i \in 1 .. a : w[i] = s[i]
      /\ \A i \in 1 .. Len(x) : w[a + i] = x[i]
  <2>1. /\ w \in Seq(Codes) /\ Len(w) = Len(u) + Len(x)
        /\ \A i \in 1 .. Len(u) + Len(x) : w[i] = IF i <= Len(u) THEN u[i] ELSE x[i - Len(u)]
    BY <1>2, ConcatProperties
  <2> HIDE DEF w
  <2>2. \A i \in 1 .. a : i \in 1 .. a + Len(x) /\ i <= a
    BY <1>1
  <2>3. \A i \in 1 .. Len(x) : a + i \in 1 .. a + Len(x) /\ ~ (a + i <= a) /\ (a + i) - a = i
    BY <1>1
  <2> QED
    BY <1>2, <2>1, <2>2, <2>3
<1> HIDE DEF w
<1>6. /\ t \in Seq(Codes) /\ Len(t) = Len(w) + Len(v)
      /\ \A i \in 1 .. Len(w) + Len(v) : t[i] = IF i <= Len(w) THEN w[i] ELSE v[i - Len(w)]
  <2>1. v \in Seq(Codes) /\ w \in Seq(Codes)
    BY <1>3, <1>5
  <2> QED
    BY <2>1, ConcatProperties
<1> HIDE DEF t
<1> DEFINE l == Len(x)
           n == Len(s) - z
<1>7. l \in Nat /\ n \in Nat
  BY <1>1
<1>8. Len(w) = a + l /\ Len(v) = n
  BY <1>3, <1>5
<1>9. \A i \in 1 .. a + l : t[i] = w[i]
  <2>1. \A i \in 1 .. a + l : i \in 1 .. (a + l) + n /\ i <= a + l
    BY <1>7
  <2> HIDE DEF l, n
  <2> QED
    BY <1>6, <1>8, <2>1
<1>10. \A i \in 1 .. n : t[a + l + i] = v[i]
  <2>1. \A i \in 1 .. n : a + l + i \in 1 .. (a + l) + n /\ ~ (a + l + i <= a + l) /\ (a + l + i) - (a + l) = i
    BY <1>7
  <2> HIDE DEF l, n
  <2> QED
    BY <1>6, <1>8, <2>1
<1>11. /\ \A i \in 1 .. a : i \in 1 .. a + l
       /\ \A i \in 1 .. l : a + i \in 1 .. a + l
  BY <1>7
<1>12. Len(t) = a + l + n
  BY <1>6, <1>8
<1>13. \A i \in 1 .. a : t[i] = s[i]
  BY <1>5, <1>9, <1>11
<1>14. \A i \in 1 .. l : t[a + i] = x[i]
  BY <1>5, <1>9, <1>11
<1>15. \A i \in 1 .. n : t[a + l + i] = s[z + i]
  BY <1>3, <1>10
<1> QED
  BY <1>4, <1>6, <1>12, <1>13, <1>14, <1>15 DEF l, n

\* b begins with s, and nothing is said of the cell after it.
HasFront(b, s, m) ==
  /\ s \in Seq(Codes) /\ m \in Nat /\ Len(s) <= m
  /\ IsCells(b, m)
  /\ \A i \in 1 .. Len(s) : b[i - 1] = s[i]

LEMMA SpliceCells ==
  ASSUME NEW b, NEW s, NEW m, HasFront(b, s, m), NEW x \in Seq(Codes),
         NEW a \in Nat, NEW z \in Nat, a <= z, z <= Len(s), a + Len(x) + (Len(s) - z) <= m,
         NEW r, r = Chars!mem_copy(Chars!mem_move(b, a + Len(x), z, (Len(s) - z) + 1), a, x),
         NEW t, t = Splice(s, a, z, x)
  PROVE  /\ HasFront(r, t, m) /\ r[Len(t)] = b[Len(s)]
         /\ \A i \in 0 .. m : i > Len(t) => r[i] = b[i]
<1> DEFINE l == Len(x)
           n == Len(s) - z
           y == Chars!mem_move(b, a + l, z, n + 1)
<1>1. /\ s \in Seq(Codes) /\ m \in Nat /\ Len(s) \in Nat /\ Len(s) <= m /\ IsCells(b, m)
      /\ \A i \in 1 .. Len(s) : b[i - 1] = s[i]
  BY DEF HasFront
<1>2. l \in Nat /\ n \in Nat /\ a + l + n <= m /\ z + n = Len(s)
  BY <1>1, SMTT(20)
<1>3. /\ t \in Seq(Codes) /\ Len(t) = a + l + n
      /\ \A i \in 1 .. a : t[i] = s[i]
      /\ \A i \in 1 .. l : t[a + i] = x[i]
      /\ \A i \in 1 .. n : t[a + l + i] = s[z + i]
  <2>1. s \in Seq(Codes)
    BY <1>1
  <2>2. /\ Splice(s, a, z, x) \in Seq(Codes)
        /\ Len(Splice(s, a, z, x)) = a + Len(x) + (Len(s) - z)
        /\ \A i \in 1 .. a : Splice(s, a, z, x)[i] = s[i]
        /\ \A i \in 1 .. Len(x) : Splice(s, a, z, x)[a + i] = x[i]
        /\ \A i \in 1 .. Len(s) - z : Splice(s, a, z, x)[a + Len(x) + i] = s[z + i]
    BY <2>1, SpliceIs, ZenonT(30)
  <2> QED
    BY <2>2
<1> HIDE DEF l, n
<1>4. y = [i \in 0 .. m |-> IF i - (a + l) \in 0 .. (n + 1) - 1 THEN b[z + (i - (a + l))] ELSE b[i]]
  <2> DEFINE dst == a + l
             c == n + 1
  <2>1. dst \in Nat /\ c \in Nat /\ dst + c - 1 <= m /\ z + c - 1 <= m
    BY <1>1, <1>2, SMTT(20)
  <2>2. m \in Nat /\ IsCells(b, m)
    BY <1>1
  <2> HIDE DEF dst, c
  <2>3. Chars!mem_move(b, dst, z, c)
          = [i \in 0 .. m |-> IF i - dst \in 0 .. c - 1 THEN b[z + (i - dst)] ELSE b[i]]
    BY <2>1, <2>2, MoveIs
  <2> QED
    BY <2>3 DEF dst, c
<1>5. r = Chars!mem_copy(y, a, x)
  BY DEF y, l, n
<1> HIDE DEF y
<1>6. r = [i \in 0 .. m |-> IF i \in a .. a + l - 1 THEN x[i - a + 1] ELSE y[i]]
  BY <1>4, <1>5 DEF Chars!mem_copy, l
<1>7. IsCells(r, m)
  BY <1>6 DEF IsCells
<1>8. \A i \in 0 .. m : r[i] = IF i \in a .. a + l - 1 THEN x[i - a + 1] ELSE y[i]
  BY <1>6
<1>9. ASSUME NEW i \in 1 .. a PROVE r[i - 1] = t[i]
  <2>0. i \in Nat /\ 1 <= i /\ i <= a
    OBVIOUS
  <2>1. /\ i - 1 \in 0 .. m /\ i \in 1 .. Len(s)
        /\ i - 1 \notin a .. a + l - 1
        /\ (i - 1) - (a + l) \notin 0 .. (n + 1) - 1
    <3>1. i <= Len(s) /\ i <= m
      BY <1>1, <2>0
    <3>2. i - 1 \in 0 .. m /\ i \in 1 .. Len(s)
      BY <1>1, <2>0, <3>1
    <3>3. i - 1 < a /\ (i - 1) - (a + l) < 0
      BY <1>2, <2>0
    <3> QED
      BY <1>2, <2>0, <3>2, <3>3
  <2>2. r[i - 1] = b[i - 1]
    BY <1>4, <1>8, <2>1
  <2> QED
    BY <1>1, <1>3, <2>1, <2>2
<1>10. ASSUME NEW i \in 1 .. l PROVE r[(a + i) - 1] = t[a + i]
  <2>1. (a + i) - 1 \in 0 .. m /\ (a + i) - 1 \in a .. a + l - 1 /\ ((a + i) - 1) - a + 1 = i
    BY <1>1, <1>2
  <2>2. r[(a + i) - 1] = x[i]
    BY <1>8, <2>1
  <2> QED
    BY <1>3, <2>2
<1>11. ASSUME NEW i \in 1 .. n + 1 PROVE r[(a + l + i) - 1] = b[(z + i) - 1]
  <2>0. i \in Nat /\ 1 <= i /\ i <= n + 1
    BY <1>2
  <2>1. /\ (a + l + i) - 1 \in 0 .. m
        /\ (a + l + i) - 1 \notin a .. a + l - 1
        /\ ((a + l + i) - 1) - (a + l) = i - 1 /\ i - 1 \in 0 .. (n + 1) - 1 /\ z + (i - 1) = (z + i) - 1
    <3>1. (a + l + i) - 1 \in 0 .. m
      <4>1. (a + l + i) - 1 \in Nat /\ (a + l + i) - 1 <= a + l + n
        BY <1>2, <2>0
      <4>2. m \in Nat /\ a + l + n <= m /\ a + l + n \in Nat
        BY <1>1, <1>2
      <4> QED
        BY <4>1, <4>2, SMTT(20)
    <3>2. (a + l + i) - 1 \notin a .. a + l - 1
      BY <1>2, <2>0
    <3>3. ((a + l + i) - 1) - (a + l) = i - 1 /\ i - 1 \in 0 .. (n + 1) - 1
      BY <1>2, <2>0
    <3>4. z + (i - 1) = (z + i) - 1
      BY <2>0
    <3> QED
      BY <3>1, <3>2, <3>3, <3>4
  <2>2. y[(a + l + i) - 1] = b[z + (i - 1)]
    BY <1>4, <2>1
  <2> QED
    BY <1>8, <2>1, <2>2
<1>12. r[Len(t)] = b[Len(s)]
  <2>1. n + 1 \in 1 .. n + 1 /\ (a + l + (n + 1)) - 1 = a + l + n /\ (z + (n + 1)) - 1 = z + n
    BY <1>2
  <2> QED
    BY <1>2, <1>3, <1>11, <2>1, ZenonT(30)
<1>13. ASSUME NEW j \in 1 .. Len(t) PROVE r[j - 1] = t[j]
  <2>1. CASE j <= a
    <3>1. j \in 1 .. a
      BY <2>1
    <3> QED
      BY <1>9, <3>1
  <2>2. CASE j > a /\ j <= a + l
    <3>1. j - a \in 1 .. l /\ a + (j - a) = j
      BY <1>2, <2>2
    <3> QED
      BY <1>10, <3>1
  <2>3. CASE j > a + l
    <3> DEFINE i == j - (a + l)
    <3>1. i \in 1 .. n /\ i \in 1 .. n + 1 /\ a + l + i = j /\ z + i \in 1 .. Len(s)
      BY <1>1, <1>2, <1>3, <2>3, SMTT(20)
    <3> HIDE DEF i
    <3>2. r[j - 1] = b[(z + i) - 1]
      BY <1>11, <3>1
    <3>3. t[j] = s[z + i]
      BY <1>3, <3>1
    <3> QED
      BY <1>1, <3>1, <3>2, <3>3
  <2> QED
    BY <1>2, <1>3, <2>1, <2>2, <2>3
<1>14. ASSUME NEW i \in 0 .. m, i > Len(t) PROVE r[i] = b[i]
  <2>1. i \notin a .. a + l - 1 /\ i - (a + l) \notin 0 .. (n + 1) - 1
    BY <1>2, <1>3, <1>14
  <2> QED
    BY <1>4, <1>8, <2>1
<1>15. Len(t) <= m
  BY <1>2, <1>3
<1> QED
  BY <1>1, <1>3, <1>7, <1>12, <1>13, <1>14, <1>15 DEF HasFront

Code(c, cs) == IF cs THEN c ELSE Chars!ToLower(c)
SameCodes(x, y, cs) == [i \in DOMAIN x |-> Code(x[i], cs)] = [i \in DOMAIN y |-> Code(y[i], cs)]

\* frag is in s after i characters, up to case unless cs.
FragAt(s, i, frag, cs) ==
  i + Len(frag) <= Len(s) /\ \A k \in 1 .. Len(frag) : Code(s[i + k], cs) = Code(frag[k], cs)

Fitting(s, p, frag, cs) == {i \in p .. Len(s) - 1 : FragAt(s, i, frag, cs)}

LEMMA SameIs ==
  ASSUME NEW x \in Seq(Codes), NEW y \in Seq(Codes), NEW cs
  PROVE  SameCodes(x, y, cs) <=> Len(x) = Len(y) /\ \A k \in 1 .. Len(y) : Code(x[k], cs) = Code(y[k], cs)
<1> DEFINE u == [i \in DOMAIN x |-> Code(x[i], cs)]
           v == [i \in DOMAIN y |-> Code(y[i], cs)]
<1>1. DOMAIN x = 1 .. Len(x) /\ DOMAIN y = 1 .. Len(y) /\ Len(x) \in Nat /\ Len(y) \in Nat
  OBVIOUS
<1>2. DOMAIN u = 1 .. Len(x) /\ \A i \in 1 .. Len(x) : u[i] = Code(x[i], cs)
  BY <1>1
<1>3. DOMAIN v = 1 .. Len(y) /\ \A i \in 1 .. Len(y) : v[i] = Code(y[i], cs)
  BY <1>1
<1>4. ASSUME u = v
      PROVE  Len(x) = Len(y) /\ \A k \in 1 .. Len(y) : Code(x[k], cs) = Code(y[k], cs)
  <2> HIDE DEF u, v
  <2>1. 1 .. Len(x) = 1 .. Len(y)
    BY <1>2, <1>3, <1>4
  <2>2. Len(x) = Len(y)
    <3> DEFINE l == Len(x)
               n == Len(y)
    <3>1. l \in Nat /\ n \in Nat /\ 1 .. l = 1 .. n
      BY <1>1, <2>1, ZenonT(30)
    <3> HIDE DEF l, n
    <3>2. l <= n
      <4>1. l = 0 \/ l \in 1 .. n
        BY <3>1
      <4> QED
        BY <3>1, <4>1
    <3>3. n <= l
      <4>1. n = 0 \/ n \in 1 .. l
        BY <3>1
      <4> QED
        BY <3>1, <4>1
    <3>4. l = n
      BY <3>1, <3>2, <3>3
    <3> QED
      BY <3>4 DEF l, n
  <2> QED
    BY <1>2, <1>3, <1>4, <2>2
<1>5. ASSUME Len(x) = Len(y), \A k \in 1 .. Len(y) : Code(x[k], cs) = Code(y[k], cs)
      PROVE  u = v
  BY <1>1, <1>5
<1> QED
  BY <1>4, <1>5 DEF SameCodes

LEMMA FrontIs ==
  ASSUME NEW b, NEW s, NEW m, Ended(b, s, m), NEW i \in 0 .. Len(s), NEW n \in Nat,
         NEW c, c = Chars!Cut(Chars!At(b, i), n)
  PROVE  /\ c \in Seq(Codes) /\ Len(c) = IF Len(s) - i <= n THEN Len(s) - i ELSE n
         /\ \A k \in 1 .. Len(c) : c[k] = s[i + k]
<1> DEFINE a == Chars!At(b, i)
           l == Len(s)
<1>1. s \in Seq(Codes) /\ l \in Nat /\ i \in Nat /\ i <= l
  BY DEF Ended
<1>2. a = SubSeq(s, i + 1, l)
  BY AtIs
<1>3. a \in Seq(Codes) /\ Len(a) = l - i /\ \A k \in 1 .. l - i : a[k] = s[i + k]
  <2> HIDE DEF a
  <2> QED
    BY <1>1, <1>2, PartIs
<1> HIDE DEF a
<1>4. /\ Chars!Cut(a, n) \in Seq(Codes)
      /\ Len(Chars!Cut(a, n)) = IF Len(a) <= n THEN Len(a) ELSE n
      /\ \A k \in 1 .. Len(Chars!Cut(a, n)) : k \in 1 .. Len(a) /\ Chars!Cut(a, n)[k] = a[k]
  <2>1. a \in Seq(Codes)
    BY <1>3
  <2> QED
    BY <2>1, CutIs
<1>5. c = Chars!Cut(a, n)
  BY DEF a
<1> HIDE DEF l
<1>6. c \in Seq(Codes) /\ Len(c) = IF l - i <= n THEN l - i ELSE n
  BY <1>3, <1>4, <1>5
<1>7. \A k \in 1 .. Len(c) : c[k] = s[i + k]
  BY <1>3, <1>4, <1>5
<1> QED
  BY <1>6, <1>7 DEF l

LEMMA MatchesIs ==
  ASSUME NEW b, NEW s, NEW m, Ended(b, s, m), NEW p \in 0 .. Len(s), NEW frag \in Seq(Codes),
         frag # <<>>, NEW cs
  PROVE  Chars!Matches(b, p, frag, cs) = Fitting(s, p, frag, cs)
<1>1. s \in Seq(Codes) /\ Len(s) \in Nat /\ Len(frag) \in Nat /\ Len(frag) >= 1 /\ p \in Nat /\ p <= Len(s)
  <2>1. s \in Seq(Codes)
    BY DEF Ended
  <2> QED
    BY <2>1
<1>2. Chars!Cells(b, p) = p .. Len(s) - 1
  <2>1. Chars!str_length(b, p) = Len(s) - p
    BY LengthIs
  <2>2. p + (Len(s) - p) - 1 = Len(s) - 1
    BY <1>1
  <2> QED
    BY <2>1, <2>2 DEF Chars!Cells
<1>3. Chars!Matches(b, p, frag, cs)
        = {i \in Chars!Cells(b, p) : SameCodes(Chars!Cut(Chars!At(b, i), Len(frag)), frag, cs)}
  BY DEF Chars!Matches, Chars!Each, SameCodes, Code
<1>4. ASSUME NEW i \in p .. Len(s) - 1
      PROVE  SameCodes(Chars!Cut(Chars!At(b, i), Len(frag)), frag, cs) <=> FragAt(s, i, frag, cs)
  <2> DEFINE c == Chars!Cut(Chars!At(b, i), Len(frag))
             n == Len(frag)
  <2>1. i \in 0 .. Len(s)
    BY <1>1
  <2>2. c \in Seq(Codes) /\ Len(c) = IF Len(s) - i <= n THEN Len(s) - i ELSE n
    BY <1>1, <2>1, FrontIs
  <2>3. \A k \in 1 .. Len(c) : c[k] = s[i + k]
    BY <1>1, <2>1, FrontIs
  <2> HIDE DEF c
  <2>4. SameCodes(c, frag, cs) <=> Len(c) = n /\ \A k \in 1 .. n : Code(c[k], cs) = Code(frag[k], cs)
    BY <2>2, SameIs
  <2> HIDE DEF n
  <2>5. Len(c) = n <=> i + n <= Len(s)
    BY <1>1, <2>1, <2>2 DEF n
  <2>6. Len(c) = n => \A k \in 1 .. n : Code(c[k], cs) = Code(s[i + k], cs)
    BY <2>3
  <2>7. SameCodes(c, frag, cs) <=> i + n <= Len(s) /\ \A k \in 1 .. n : Code(s[i + k], cs) = Code(frag[k], cs)
    BY <2>4, <2>5, <2>6
  <2> QED
    BY <2>7 DEF FragAt, c, n
<1> QED
  BY <1>2, <1>3, <1>4 DEF Fitting

\* Where str_replace_string() has come to: done is dealt with, rest is not.
Stands(w, done, rest) ==
  /\ done \in Seq(Codes) /\ rest \in Seq(Codes)
  /\ w = [b |-> w.b, p |-> Len(done)]
  /\ Buffered(w.b, done \o rest)

\* Where frag is in rest, as Replaced() looks for it
Occurs(rest, frag) ==
  {i \in 1 .. Len(rest) - Len(frag) + 1 : SubSeq(rest, i, i + Len(frag) - 1) = frag}

LEMMA OccursIs ==
  ASSUME NEW done \in Seq(Codes), NEW rest \in Seq(Codes), NEW frag \in Seq(Codes), frag # <<>>,
         NEW s, s = done \o rest, NEW p, p = Len(done)
  PROVE  /\ \A i \in Occurs(rest, frag) : p + i - 1 \in p .. Len(s) - 1 /\ FragAt(s, p + i - 1, frag, TRUE)
         /\ \A j \in p .. Len(s) - 1 : FragAt(s, j, frag, TRUE) => j - p + 1 \in Occurs(rest, frag)
         /\ \A i \in Occurs(rest, frag) : i \in Nat /\ i >= 1 /\ i + Len(frag) - 1 <= Len(rest)
<1> DEFINE n == Len(frag)
           l == Len(rest)
<1>1. n \in Nat /\ n >= 1 /\ l \in Nat /\ p \in Nat
  OBVIOUS
<1>2. /\ s \in Seq(Codes) /\ Len(s) = p + l
      /\ \A i \in 1 .. p + l : s[i] = IF i <= p THEN done[i] ELSE rest[i - p]
  BY ConcatProperties
<1>3. \A i \in 1 .. l : s[p + i] = rest[i]
  <2>1. \A i \in 1 .. l : p + i \in 1 .. p + l /\ ~ (p + i <= p) /\ (p + i) - p = i
    BY <1>1
  <2> HIDE DEF l
  <2> QED
    BY <1>2, <2>1
<1>4. ASSUME NEW i \in 1 .. l - n + 1
      PROVE  SubSeq(rest, i, i + n - 1) = frag <=> FragAt(s, p + i - 1, frag, TRUE)
  <2> DEFINE a == i - 1
             z == i + n - 1
             c == SubSeq(rest, a + 1, z)
  <2>1. a \in Nat /\ z \in Nat /\ a <= z /\ z <= l /\ a + 1 = i /\ z - a = n /\ p + i - 1 = p + a
    BY <1>1
  <2>2. c \in Seq(Codes) /\ Len(c) = n /\ \A k \in 1 .. n : c[k] = rest[a + k] /\ a + k \in 1 .. l
    <3> HIDE DEF a, z, n
    <3> QED
      BY <2>1, PartIs DEF l
  <2>3. \A k \in 1 .. n : c[k] = s[p + (a + k)]
    BY <1>3, <2>2
  <2> HIDE DEF c
  <2>4. c = frag <=> \A k \in 1 .. n : c[k] = frag[k]
    <3>1. ASSUME \A k \in 1 .. n : c[k] = frag[k] PROVE c = frag
      BY <2>2, <3>1, SeqEqual
    <3> QED
      BY <3>1
  <2>5. \A k \in 1 .. n : (p + a) + k = p + (a + k)
    BY <1>1, <2>1
  <2>6. (p + a) + n <= p + l
    BY <1>1, <2>1
  <2> HIDE DEF a, z
  <2>7. FragAt(s, p + a, frag, TRUE) <=> \A k \in 1 .. n : s[p + (a + k)] = frag[k]
    BY <1>2, <2>5, <2>6 DEF FragAt, Code
  <2>8. SubSeq(rest, i, i + n - 1) = c
    BY <2>1 DEF c, z
  <2> QED
    BY <2>1, <2>3, <2>4, <2>7, <2>8
<1>5. Occurs(rest, frag) = {i \in 1 .. l - n + 1 : SubSeq(rest, i, i + n - 1) = frag}
  BY DEF Occurs
<1>6. ASSUME NEW j \in p .. Len(s) - 1, FragAt(s, j, frag, TRUE)
      PROVE  j - p + 1 \in 1 .. l - n + 1 /\ p + (j - p + 1) - 1 = j
  <2>1. j + n <= p + l
    BY <1>2, <1>6 DEF FragAt
  <2>2. n \in Nat /\ l \in Nat /\ p \in Nat /\ j \in Int /\ j >= p
    BY <1>1, <1>2
  <2> HIDE DEF n, l
  <2>3. j - p + 1 >= 1 /\ j - p + 1 <= l - n + 1 /\ p + (j - p + 1) - 1 = j
    BY <2>1, <2>2
  <2> QED
    BY <2>2, <2>3
<1>7. ASSUME NEW i \in 1 .. l - n + 1
      PROVE  p + i - 1 \in p .. Len(s) - 1 /\ i \in Nat /\ i >= 1 /\ i + n - 1 <= l
  BY <1>1, <1>2
<1> HIDE DEF n, l
<1>8. ASSUME NEW i \in Occurs(rest, frag)
      PROVE  p + i - 1 \in p .. Len(s) - 1 /\ FragAt(s, p + i - 1, frag, TRUE)
  BY <1>4, <1>5, <1>7
<1>9. ASSUME NEW j \in p .. Len(s) - 1, FragAt(s, j, frag, TRUE)
      PROVE  j - p + 1 \in Occurs(rest, frag)
  BY <1>4, <1>5, <1>6, <1>9, ZenonT(30)
<1>10. ASSUME NEW i \in Occurs(rest, frag)
       PROVE  i \in Nat /\ i >= 1 /\ i + n - 1 <= l
  BY <1>5, <1>7
<1> QED
  BY <1>8, <1>9, <1>10 DEF n, l

LEMMA RoundIs ==
  ASSUME NEW w, NEW done, NEW rest, Stands(w, done, rest),
         NEW frag \in Seq(Codes), frag # <<>>, NEW rep \in Seq(Codes),
         NEW now, now = Chars!Replaced(done, rest, TextMax, frag, rep)
  PROVE  /\ Stands(Chars!Replace(w, TextMax, frag, rep), now[1], now[2])
         /\ now = <<now[1], now[2]>>
<1> DEFINE s == done \o rest
           p == Len(done)
           l == Len(rest)
           n == Len(frag)
           x == Len(rep)
           M == 2 * TextMax
<1>1. /\ done \in Seq(Codes) /\ rest \in Seq(Codes) /\ w.p = p
      /\ w = [b |-> w.b, p |-> p] /\ Buffered(w.b, s)
  BY DEF Stands
<1>2. p \in Nat /\ l \in Nat /\ n \in Nat /\ n >= 1 /\ x \in Nat
  BY <1>1
<1>3. /\ s \in Seq(Codes) /\ Len(s) = p + l
      /\ \A i \in 1 .. p + l : s[i] = IF i <= p THEN done[i] ELSE rest[i - p]
  BY <1>1, ConcatProperties
<1>4. /\ Ended(w.b, s, M) /\ Len(s) < TextMax /\ Chars!str_length(w.b, 0) = Len(s)
      /\ IsCells(w.b, M) /\ \A i \in 1 .. Len(s) : w.b[i - 1] = s[i]
      /\ w.b[Len(s)] = Chars!NUL
  BY <1>1, BufferedHas, ZenonT(30)
<1> DEFINE at == Chars!Matches(w.b, p, frag, TRUE)
           O == Occurs(rest, frag)
<1>5. at = {i \in p .. Len(s) - 1 : FragAt(s, i, frag, TRUE)}
  <2>1. p \in 0 .. Len(s)
    BY <1>2, <1>3
  <2>2. Ended(w.b, s, M)
    BY <1>4
  <2> HIDE DEF p, s, M
  <2> DEFINE cs == TRUE
  <2> HIDE DEF cs
  <2>3. Chars!Matches(w.b, p, frag, cs) = Fitting(s, p, frag, cs)
    BY <2>1, <2>2, MatchesIs
  <2> QED
    BY <2>3 DEF Fitting, cs
<1>6. /\ \A i \in O : p + i - 1 \in p .. Len(s) - 1 /\ FragAt(s, p + i - 1, frag, TRUE)
      /\ \A j \in p .. Len(s) - 1 : FragAt(s, j, frag, TRUE) => j - p + 1 \in O
      /\ \A i \in O : i \in Nat /\ i >= 1 /\ i + n - 1 <= l
  <2>1. done \in Seq(Codes) /\ rest \in Seq(Codes)
    BY <1>1
  <2> HIDE DEF s, p
  <2>2. s = done \o rest /\ p = Len(done)
    BY DEF s, p
  <2> QED
    BY <2>1, <2>2, OccursIs
<1>7. (at = {} <=> O = {}) /\ at \subseteq Nat /\ O \subseteq Nat
  <2> HIDE DEF at, O, s, p, l, n
  <2>1. \A j \in p .. Len(s) - 1 : j \in Nat
    BY <1>2, <1>3
  <2> QED
    BY <1>5, <1>6, <2>1
<1> HIDE DEF at, O
<1> DEFINE off == Chars!Min(at)
           q == Chars!Min(O)
<1>8. CASE O = {} \/ p + l - n + x >= TextMax
  <2>1. now = <<done, rest>>
    <3>1. Chars!Replaced(done, rest, TextMax, frag, rep) = <<done, rest>>
      BY <1>3, <1>8 DEF Chars!Replaced, Occurs, O
    <3> QED
      BY <3>1
  <2>2. Chars!Replace(w, TextMax, frag, rep) = w
    <3>1. at = {} \/ Len(s) - n + x + 1 > TextMax
      BY <1>2, <1>3, <1>7, <1>8, MaxIsNat
    <3> QED
      BY <1>1, <1>4, <3>1 DEF Chars!Replace, at
  <2> QED
    BY <2>1, <2>2
<1>9. CASE ~ (O = {} \/ p + l - n + x >= TextMax)
  <2>1. q \in O /\ (\A i \in O : q <= i) /\ off \in at /\ (\A j \in at : off <= j)
    BY <1>7, <1>9, LeastIs
  <2> HIDE DEF off, q, s, p, l, n, x, M
  <2>2. off = p + q - 1 /\ q \in Nat /\ q >= 1 /\ q + n - 1 <= l
    <3>1. off \in p .. Len(s) - 1 /\ off - p + 1 \in O /\ q <= off - p + 1
      BY <1>5, <1>6, <2>1
    <3>2. q \in Nat /\ q >= 1 /\ q + n - 1 <= l
      BY <1>6, <2>1
    <3>3. p + q - 1 \in at
      BY <1>5, <1>6, <2>1
    <3>4. off <= p + q - 1
      BY <2>1, <3>3
    <3> QED
      BY <1>2, <1>3, <3>1, <3>2, <3>4
  <2> DEFINE z == off + n
             t == Splice(s, off, z, rep)
             r == Chars!mem_copy(Chars!mem_move(w.b, off + x, z, (Len(s) - z) + 1), off, rep)
  <2>3. /\ off \in Nat /\ z \in Nat /\ off <= z /\ z <= Len(s) /\ off + x + (Len(s) - z) = p + l - n + x
        /\ p + l - n + x < TextMax /\ p + l - n + x \in Nat
    BY <1>2, <1>3, <1>9, <2>2, MaxIsNat
  <2>4. /\ t \in Seq(Codes) /\ Len(t) = off + x + (Len(s) - z)
        /\ \A i \in 1 .. off : t[i] = s[i]
        /\ \A i \in 1 .. x : t[off + i] = rep[i]
        /\ \A i \in 1 .. Len(s) - z : t[off + x + i] = s[z + i]
    <3>1. s \in Seq(Codes)
      BY <1>3
    <3>2. off \in Nat /\ z \in Nat /\ off <= z /\ z <= Len(s)
      BY <2>3
    <3> HIDE DEF z
    <3>3. /\ Splice(s, off, z, rep) \in Seq(Codes)
          /\ Len(Splice(s, off, z, rep)) = off + Len(rep) + (Len(s) - z)
          /\ \A i \in 1 .. off : Splice(s, off, z, rep)[i] = s[i]
          /\ \A i \in 1 .. Len(rep) : Splice(s, off, z, rep)[off + i] = rep[i]
          /\ \A i \in 1 .. Len(s) - z : Splice(s, off, z, rep)[off + Len(rep) + i] = s[z + i]
      BY <3>1, <3>2, SpliceIs, ZenonT(30)
    <3> QED
      BY <3>3 DEF x
  <2>5. /\ HasFront(r, t, M) /\ r[Len(t)] = w.b[Len(s)]
        /\ \A i \in 0 .. M : i > Len(t) => r[i] = w.b[i]
    <3>1. M \in Nat /\ TextMax <= M
      BY MaxIsNat DEF M
    <3>2. HasFront(w.b, s, M)
      BY <1>3, <1>4, <3>1, MaxIsNat DEF HasFront
    <3>3. off + x + (Len(s) - z) <= M
      BY <2>3, <3>1, MaxIsNat
    <3> HIDE DEF z
    <3>4. /\ off \in Nat /\ z \in Nat /\ off <= z /\ z <= Len(s)
      BY <2>3
    <3>5. off + Len(rep) + (Len(s) - z) <= M
      BY <3>3 DEF x
    <3>6. r = Chars!mem_copy(Chars!mem_move(w.b, off + Len(rep), z, (Len(s) - z) + 1), off, rep)
      BY DEF x
    <3> HIDE DEF r, t
    <3>7. t = Splice(s, off, z, rep)
      BY DEF t
    <3> QED
      BY <3>2, <3>4, <3>5, <3>6, <3>7, SpliceCells
  <2>6. Chars!Replace(w, TextMax, frag, rep) = [b |-> r, p |-> off + x]
    <3>1. Len(s) - off - n + 1 = (Len(s) - z) + 1
      BY <1>2, <1>3, <2>3, SMTT(20)
    <3>2. ~ (at = {} \/ Len(s) - n + x + 1 > TextMax)
      BY <1>2, <1>3, <1>7, <1>9, MaxIsNat
    <3>3. /\ Chars!Matches(w.b, w.p, frag, TRUE) = at /\ Chars!str_length(w.b, 0) = Len(s)
          /\ Chars!Min(at) = off /\ Len(rep) = x /\ Len(frag) = n
      BY <1>1, <1>4 DEF at, off, x, n, p
    <3> QED
      BY <3>1, <3>2, <3>3 DEF Chars!Replace
  <2>7. Buffered(r, t)
    <3>1. Ended(r, t, M)
      BY <1>4, <2>5 DEF HasFront, Ended
    <3>2. Len(t) < TextMax
      BY <2>3, <2>4
    <3>3. ASSUME NEW i \in 0 .. M PROVE r[i] = w.b[i] \/ (i < TextMax /\ r[i] \in 0 .. 127)
      <4> HIDE DEF r, t
      <4>1. M \in Nat
        BY MaxIsNat DEF M
      <4>2. CASE i > Len(t)
        BY <2>5, <4>2
      <4>3. CASE i = Len(t)
        BY <1>4, <2>5, <3>2, <4>3 DEF Chars!NUL
      <4>4. CASE i < Len(t)
        <5>1. i + 1 \in 1 .. Len(t) /\ (i + 1) - 1 = i /\ i < TextMax
          BY <3>2, <4>1, <4>4, <2>4, MaxIsNat
        <5>2. r[i] = t[i + 1] /\ t[i + 1] \in Codes
          <6>1. \A j \in 1 .. Len(t) : r[j - 1] = t[j]
            BY <2>5 DEF HasFront
          <6> QED
            BY <2>4, <5>1, <6>1
        <5> QED
          BY <5>1, <5>2, CodesAre
      <4>5. Len(t) \in Nat
        BY <2>4
      <4> QED
        BY <4>1, <4>2, <4>3, <4>4, <4>5
    <3> HIDE DEF r, t
    <3> QED
      BY <1>1, <3>1, <3>2, <3>3, LeavesIs DEF M
  <2> DEFINE before == SubSeq(rest, 1, q - 1)
             after == SubSeq(rest, q + n, l)
             new == (done \o before) \o rep
  <2>8. now = <<new, after>>
    <3>0. Len(s) = p + l
      BY <1>3
    <3>00. ~ (O = {} \/ Len(s) - n + x >= TextMax)
      BY <1>2, <1>9, <3>0
    <3>1. ~ (O = {} \/ Len(done \o rest) - Len(frag) + Len(rep) >= TextMax)
      BY <3>00, SMTT(20) DEF s, n, x
    <3>2. now = <<done \o SubSeq(rest, 1, q - 1) \o rep, SubSeq(rest, q + Len(frag), Len(rest))>>
      BY <3>1 DEF Chars!Replaced, Occurs, O, q
    <3> QED
      BY <3>2 DEF n, l
  <2>9. before \in Seq(Codes) /\ Len(before) = q - 1 /\ \A i \in 1 .. q - 1 : before[i] = rest[i]
    <3> DEFINE e == q - 1
               c == SubSeq(rest, 0 + 1, e)
    <3>1. 0 \in Nat /\ e \in Nat /\ 0 <= e /\ e <= Len(rest) /\ e - 0 = e
      BY <1>2, <2>2 DEF l
    <3> HIDE DEF e
    <3>2. c \in Seq(Codes) /\ Len(c) = e - 0 /\ \A i \in 1 .. e - 0 : c[i] = rest[0 + i] /\ 0 + i \in 1 .. Len(rest)
      BY <1>1, <3>1, PartIs
    <3>3. c = before /\ \A i \in 1 .. e : 0 + i = i
      BY DEF e
    <3> HIDE DEF c, before
    <3> QED
      BY <3>1, <3>2, <3>3 DEF e
  <2>10. after \in Seq(Codes) /\ Len(after) = l - (q + n - 1) /\ \A i \in 1 .. l - (q + n - 1) : after[i] = rest[(q + n - 1) + i]
    <3> DEFINE e == q + n - 1
               c == SubSeq(rest, e + 1, l)
    <3>1. e \in Nat /\ l \in Nat /\ e <= l /\ l <= Len(rest) /\ e + 1 = q + n
      BY <1>2, <2>2 DEF l
    <3>2. c = after
      BY <3>1
    <3> HIDE DEF e, after
    <3>3. c \in Seq(Codes) /\ Len(c) = l - e /\ \A i \in 1 .. l - e : c[i] = rest[e + i] /\ e + i \in 1 .. Len(rest)
      BY <1>1, <3>1, PartIs
    <3> QED
      BY <3>2, <3>3 DEF e
  <2> HIDE DEF before, after
  <2>11. /\ new \in Seq(Codes) /\ Len(new) = off + x
         /\ \A i \in 1 .. off : new[i] = s[i]
         /\ \A i \in 1 .. x : new[off + i] = rep[i]
    <3> DEFINE u == done \o before
    <3>1. /\ u \in Seq(Codes) /\ Len(u) = p + (q - 1)
          /\ \A i \in 1 .. p + (q - 1) : u[i] = IF i <= p THEN done[i] ELSE before[i - p]
      <4>1. done \in Seq(Codes) /\ before \in Seq(Codes)
        BY <1>1, <2>9
      <4>2. /\ u \in Seq(Codes) /\ Len(u) = Len(done) + Len(before)
            /\ \A i \in 1 .. Len(done) + Len(before) : u[i] = IF i <= Len(done) THEN done[i] ELSE before[i - Len(done)]
        BY <4>1, ConcatProperties
      <4> QED
        BY <2>9, <4>2 DEF p
    <3>2. p + (q - 1) = off
      BY <1>2, <2>2
    <3> HIDE DEF u
    <3>3. ASSUME NEW i \in 1 .. off PROVE u[i] = s[i]
      <4>1. i \in 1 .. p + l /\ i \in 1 .. p + (q - 1)
        BY <1>2, <2>2, <3>2
      <4>2. CASE i <= p
        BY <1>3, <3>1, <4>1, <4>2
      <4>3. CASE ~ (i <= p)
        <5>1. i - p \in 1 .. q - 1
          BY <1>2, <2>2, <4>1, <4>3
        <5> QED
          BY <1>3, <2>9, <3>1, <4>1, <4>3, <5>1
      <4> QED
        BY <4>2, <4>3
    <3>4. /\ u \o rep \in Seq(Codes) /\ Len(u \o rep) = Len(u) + Len(rep)
          /\ \A i \in 1 .. Len(u) + Len(rep) : (u \o rep)[i] = IF i <= Len(u) THEN u[i] ELSE rep[i - Len(u)]
      <4>1. u \in Seq(Codes)
        BY <3>1
      <4> QED
        BY <4>1, ConcatProperties
    <3>5. new = u \o rep /\ Len(u) = off /\ Len(rep) = x
      BY <3>1, <3>2 DEF u, x
    <3> HIDE DEF new
    <3>6. \A i \in 1 .. off + x : new[i] = IF i <= off THEN u[i] ELSE rep[i - off]
      BY <3>4, <3>5
    <3>7. \A i \in 1 .. off : i \in 1 .. off + x /\ i <= off
      BY <1>2, <2>3
    <3>8. \A i \in 1 .. x : off + i \in 1 .. off + x /\ ~ (off + i <= off) /\ (off + i) - off = i
      BY <1>2, <2>3
    <3>9. \A i \in 1 .. off : new[i] = s[i]
      BY <3>3, <3>6, <3>7
    <3>10. \A i \in 1 .. x : new[off + i] = rep[i]
      BY <3>6, <3>8
    <3> QED
      BY <3>4, <3>5, <3>9, <3>10
  <2>12. new \o after = t
    <3> DEFINE c == new \o after
               k == Len(s) - z
    <3>0. Len(s) = p + l /\ z = p + q - 1 + n /\ z <= p + l /\ z \in Nat
      BY <1>3, <2>2, <2>3
    <3>00. k \in Nat /\ l - (q + n - 1) = k /\ k = p + l - z
      BY <1>2, <2>2, <3>0
    <3>1. k \in Nat /\ l - (q + n - 1) = k /\ \A i \in 1 .. k : z + i \in 1 .. p + l /\ ~ (z + i <= p) /\ (z + i) - p = (q + n - 1) + i
      <4> HIDE DEF k, z
      <4> QED
        BY <1>2, <2>2, <3>0, <3>00
    <3>2. Len(after) = k /\ \A i \in 1 .. k : after[i] = s[z + i]
      <4> HIDE DEF k, z
      <4> QED
        BY <1>3, <2>10, <3>1
    <3> HIDE DEF k, new, t, z
    <3>3. /\ c \in Seq(Codes) /\ Len(c) = (off + x) + k
          /\ \A i \in 1 .. (off + x) + k : c[i] = IF i <= off + x THEN new[i] ELSE after[i - (off + x)]
      <4>1. new \in Seq(Codes) /\ after \in Seq(Codes)
        BY <2>10, <2>11
      <4>2. /\ c \in Seq(Codes) /\ Len(c) = Len(new) + Len(after)
            /\ \A i \in 1 .. Len(new) + Len(after) : c[i] = IF i <= Len(new) THEN new[i] ELSE after[i - Len(new)]
        BY <4>1, ConcatProperties
      <4> QED
        BY <2>11, <3>2, <4>2
    <3> HIDE DEF c
    <3>4. Len(t) = (off + x) + k /\ t \in Seq(Codes)
      BY <1>2, <2>3, <2>4 DEF k
    <3>5. ASSUME NEW i \in 1 .. (off + x) + k PROVE c[i] = t[i]
      <4>1. CASE i <= off
        <5>1. i \in 1 .. off /\ i <= off + x
          BY <1>2, <2>3, <4>1
        <5> QED
          BY <2>4, <2>11, <3>3, <5>1
      <4>2. CASE i > off /\ i <= off + x
        <5>1. i - off \in 1 .. x /\ off + (i - off) = i
          BY <1>2, <2>3, <4>2
        <5> QED
          BY <2>4, <2>11, <3>3, <4>2, <5>1, SMTT(20)
      <4>3. CASE i > off + x
        <5>1. i - (off + x) \in 1 .. k /\ (off + x) + (i - (off + x)) = i /\ ~ (i <= off + x)
          BY <1>2, <2>3, <3>1, <4>3
        <5>2. c[i] = s[z + (i - (off + x))]
          BY <3>2, <3>3, <5>1
        <5>3. t[(off + x) + (i - (off + x))] = s[z + (i - (off + x))]
          BY <2>4, <5>1 DEF k
        <5> QED
          BY <5>1, <5>2, <5>3
      <4> QED
        BY <1>2, <2>3, <3>1, <4>1, <4>2, <4>3
    <3>6. Len(c) = Len(t)
      BY <3>3, <3>4
    <3>7. c = t
      BY <3>3, <3>4, <3>5, <3>6, SeqEqual
    <3> QED
      BY <3>7 DEF c
  <2> HIDE DEF r, t, new
  <2>13. Stands([b |-> r, p |-> off + x], new, after)
    BY <2>7, <2>10, <2>11, <2>12 DEF Stands
  <2> QED
    BY <2>6, <2>8, <2>13
<1> QED
  BY <1>8, <1>9

\* f and g are the functions that str_replace_string() and AllReplaced are
\* defined by.
CellRound(f, n, b, frag, rep) ==
  IF n = 0 THEN [b |-> b, p |-> 0] ELSE Chars!Replace(f[n - 1], TextMax, frag, rep)
CellRounds(f, b, frag, rep) == f = [n \in 0 .. TextMax |-> CellRound(f, n, b, frag, rep)]

TextRound(g, n, s, frag, rep) ==
  IF n = 0 THEN <<<<>>, s>>
  ELSE Chars!Replaced(g[n - 1][1], g[n - 1][2], TextMax, frag, rep)
TextRounds(g, s, frag, rep) == g = [n \in 0 .. TextMax |-> TextRound(g, n, s, frag, rep)]

LEMMA RoundsExist ==
  ASSUME NEW b, NEW s, Buffered(b, s), NEW frag \in Seq(Codes), frag # <<>>, NEW rep \in Seq(Codes)
  PROVE  \E f, g : /\ CellRounds(f, b, frag, rep) /\ TextRounds(g, s, frag, rep)
                   /\ \A n \in 0 .. TextMax : Stands(f[n], g[n][1], g[n][2])
<1> DEFINE M == 2 * TextMax
           A == [w : [b : [0 .. M -> Int], p : Nat], d : Seq(Codes), r : Seq(Codes)]
           S == {x \in A : Stands(x.w, x.d, x.r)}
           Next(x) == [w |-> Chars!Replace(x.w, TextMax, frag, rep),
                       d |-> Chars!Replaced(x.d, x.r, TextMax, frag, rep)[1],
                       r |-> Chars!Replaced(x.d, x.r, TextMax, frag, rep)[2]]
           F == [k \in 1 .. TextMax |-> [x \in S |-> Next(x)]]
           x0 == [w |-> [b |-> b, p |-> 0], d |-> <<>>, r |-> s]
<1>1. ASSUME NEW x, NEW d, NEW r, x = [w |-> x.w, d |-> d, r |-> r], Stands(x.w, d, r)
      PROVE  x \in S
  <2>1. d \in Seq(Codes) /\ r \in Seq(Codes) /\ x.w = [b |-> x.w.b, p |-> Len(d)] /\ Buffered(x.w.b, d \o r)
    BY <1>1 DEF Stands
  <2>2. x.w.b = [i \in 0 .. M |-> x.w.b[i]] /\ \A i \in 0 .. M : x.w.b[i] \in Int
    BY <2>1 DEF Buffered, Ended, IsCells
  <2>3. x.w.b \in [0 .. M -> Int] /\ Len(d) \in Nat
    BY <2>1, <2>2
  <2>4. x.w \in [b : [0 .. M -> Int], p : Nat]
    BY <2>1, <2>3
  <2>5. x \in A /\ x.d = d /\ x.r = r
    BY <1>1, <2>1, <2>4
  <2> QED
    BY <1>1, <2>5
<1>2. x0 \in S
  <2>1. s \in Seq(Codes) /\ <<>> \in Seq(Codes) /\ Len(<<>>) = 0 /\ <<>> \o s = s
    BY BufferedHas
  <2>2. Stands(x0.w, <<>>, s)
    BY <2>1 DEF Stands
  <2>3. x0 = [w |-> x0.w, d |-> <<>>, r |-> s]
    OBVIOUS
  <2> HIDE DEF x0, S
  <2> QED
    BY <1>1, <2>2, <2>3
<1>3. ASSUME NEW x \in S
      PROVE  /\ Next(x) \in S
             /\ Chars!Replaced(x.d, x.r, TextMax, frag, rep) = <<Next(x).d, Next(x).r>>
  <2> DEFINE now == Chars!Replaced(x.d, x.r, TextMax, frag, rep)
             y == Next(x)
  <2>1. Stands(x.w, x.d, x.r)
    OBVIOUS
  <2>2. y = [w |-> y.w, d |-> now[1], r |-> now[2]] /\ y.w = Chars!Replace(x.w, TextMax, frag, rep)
    OBVIOUS
  <2> HIDE DEF S, now
  <2>3. Stands(Chars!Replace(x.w, TextMax, frag, rep), now[1], now[2]) /\ now = <<now[1], now[2]>>
    BY <2>1, RoundIs DEF now
  <2>4. y.d = now[1] /\ y.r = now[2]
    BY <2>2
  <2> HIDE DEF y
  <2>5. y \in S
    BY <1>1, <2>2, <2>3
  <2>6. now = <<y.d, y.r>>
    BY <2>3, <2>4
  <2> QED
    BY <2>5, <2>6 DEF y, now
<1>4. \A k \in 1 .. TextMax : \A x \in S : F[k][x] = Next(x)
  <2> HIDE DEF S
  <2> QED
    OBVIOUS
<1>5. \A x \in S : x.w.p \in Nat /\ Stands(x.w, x.d, x.r)
  OBVIOUS
<1>6. \A x \in S : /\ Next(x).w = Chars!Replace(x.w, TextMax, frag, rep)
                   /\ Chars!Replaced(x.d, x.r, TextMax, frag, rep) = <<Next(x).d, Next(x).r>>
  BY <1>3
<1>6a. \A x \in S : Next(x) \in S
  BY <1>3
<1>7. x0.w = [b |-> b, p |-> 0] /\ x0.d = <<>> /\ x0.r = s
  OBVIOUS
<1> HIDE DEF S, F, x0, Next
<1>8. \A k \in 1 .. TextMax : \A x \in S : F[k][x] \in S
  BY <1>4, <1>6a
<1>9. PICK h : Follows(h, TextMax, S, x0, F)
  BY <1>2, <1>8, LoopExists, MaxIsNat
<1>10. h \in [0 .. TextMax -> S] /\ h[0] = x0 /\ \A k \in 1 .. TextMax : h[k] = F[k][h[k - 1]]
  BY <1>9 DEF Follows
<1> DEFINE f == [n \in 0 .. TextMax |-> h[n].w]
           g == [n \in 0 .. TextMax |-> <<h[n].d, h[n].r>>]
<1>11. ASSUME NEW n \in 0 .. TextMax
       PROVE  f[n] = h[n].w /\ g[n] = <<h[n].d, h[n].r>> /\ g[n][1] = h[n].d /\ g[n][2] = h[n].r /\ h[n] \in S
  BY <1>10
<1>12. f = [n \in 0 .. TextMax |-> f[n]] /\ g = [n \in 0 .. TextMax |-> g[n]]
  OBVIOUS
<1> HIDE DEF f, g
<1>13. ASSUME NEW n \in 0 .. TextMax
       PROVE  f[n] = CellRound(f, n, b, frag, rep) /\ g[n] = TextRound(g, n, s, frag, rep)
  <2>1. CASE n = 0
    <3>1. f[0] = [b |-> b, p |-> 0] /\ g[0] = <<<<>>, s>>
      BY <1>7, <1>10, <1>11, <2>1
    <3> QED
      BY <2>1, <3>1 DEF CellRound, TextRound
  <2>2. CASE n # 0
    <3>1. n \in 1 .. TextMax /\ n - 1 \in 0 .. TextMax
      BY <2>2, MaxIsNat
    <3>2. h[n - 1] \in S /\ h[n] = Next(h[n - 1])
      <4>1. h[n - 1] \in S /\ h[n] = F[n][h[n - 1]]
        BY <1>10, <3>1
      <4> QED
        BY <1>4, <3>1, <4>1
    <3>3. /\ h[n].w = Chars!Replace(h[n - 1].w, TextMax, frag, rep)
          /\ Chars!Replaced(h[n - 1].d, h[n - 1].r, TextMax, frag, rep) = <<h[n].d, h[n].r>>
      BY <1>6, <3>2
    <3>4. f[n - 1] = h[n - 1].w /\ g[n - 1][1] = h[n - 1].d /\ g[n - 1][2] = h[n - 1].r
      BY <1>11, <3>1
    <3>5. f[n] = h[n].w /\ g[n] = <<h[n].d, h[n].r>>
      BY <1>11
    <3> QED
      BY <2>2, <3>3, <3>4, <3>5 DEF CellRound, TextRound
  <2> QED
    BY <2>1, <2>2
<1>14. CellRounds(f, b, frag, rep) /\ TextRounds(g, s, frag, rep)
  <2>1. \A n \in 0 .. TextMax : f[n] = CellRound(f, n, b, frag, rep)
    BY <1>13
  <2>2. \A n \in 0 .. TextMax : g[n] = TextRound(g, n, s, frag, rep)
    BY <1>13
  <2>3. CellRounds(f, b, frag, rep)
    BY <1>12, <2>1 DEF CellRounds
  <2>4. TextRounds(g, s, frag, rep)
    BY <1>12, <2>2 DEF TextRounds
  <2> QED
    BY <2>3, <2>4
<1>15. \A n \in 0 .. TextMax : Stands(f[n], g[n][1], g[n][2])
  BY <1>5, <1>11
<1> QED
  BY <1>14, <1>15

LEMMA ReplaceIs ==
  ASSUME NEW b, NEW s, Buffered(b, s), NEW frag \in Seq(Codes), NEW rep \in Seq(Codes)
  PROVE  Buffered(Chars!str_replace_string(b, TextMax, frag, rep),
                  IF frag = <<>> THEN s ELSE Chars!AllReplaced(s, TextMax, frag, rep))
<1>1. CASE frag = <<>>
  BY <1>1 DEF Chars!str_replace_string
<1>2. CASE frag # <<>>
  <2> DEFINE u == CHOOSE u : CellRounds(u, b, frag, rep)
             v == CHOOSE v : TextRounds(v, s, frag, rep)
  <2>1. PICK f, g : /\ CellRounds(f, b, frag, rep) /\ TextRounds(g, s, frag, rep)
                    /\ \A n \in 0 .. TextMax : Stands(f[n], g[n][1], g[n][2])
    BY <1>2, RoundsExist
  <2>2. CellRounds(u, b, frag, rep) /\ TextRounds(v, s, frag, rep)
    BY <2>1
  <2>3. Chars!str_replace_string(b, TextMax, frag, rep) = u[TextMax].b
    BY <1>2 DEF Chars!str_replace_string, CellRounds, CellRound
  <2>4. Chars!AllReplaced(s, TextMax, frag, rep) = v[TextMax][1] \o v[TextMax][2]
    BY <1>2 DEF Chars!AllReplaced, TextRounds, TextRound
  <2> HIDE DEF u, v
  <2>5. \A n \in 0 .. TextMax : u[n] = CellRound(u, n, b, frag, rep) /\ f[n] = CellRound(f, n, b, frag, rep)
    BY <2>1, <2>2 DEF CellRounds
  <2>6. \A n \in 0 .. TextMax : v[n] = TextRound(v, n, s, frag, rep) /\ g[n] = TextRound(g, n, s, frag, rep)
    BY <2>1, <2>2 DEF TextRounds
  <2>7. \A n \in 0 .. TextMax : u[n] = f[n]
    <3>1. u[0] = f[0]
      <4>1. u[0] = CellRound(u, 0, b, frag, rep) /\ f[0] = CellRound(f, 0, b, frag, rep)
        BY <2>5, MaxIsNat
      <4> QED
        BY <4>1 DEF CellRound
    <3>2. ASSUME NEW n \in 1 .. TextMax, u[n - 1] = f[n - 1] PROVE u[n] = f[n]
      <4>1. n \in 0 .. TextMax /\ n # 0
        BY MaxIsNat
      <4>2. CellRound(u, n, b, frag, rep) = CellRound(f, n, b, frag, rep)
        BY <3>2, <4>1 DEF CellRound
      <4> QED
        BY <2>5, <4>1, <4>2
    <3>3. TextMax \in Nat
      BY MaxIsNat
    <3>4. \A n \in 1 .. TextMax : u[n - 1] = f[n - 1] => u[n] = f[n]
      BY <3>2
    <3>5. Alike(u, f, TextMax)
      BY <3>1, <3>4 DEF Alike
    <3> QED
      BY <3>3, <3>5, SameLoops
  <2>8. \A n \in 0 .. TextMax : v[n] = g[n]
    <3>1. v[0] = g[0]
      <4>1. v[0] = TextRound(v, 0, s, frag, rep) /\ g[0] = TextRound(g, 0, s, frag, rep)
        BY <2>6, MaxIsNat
      <4> QED
        BY <4>1 DEF TextRound
    <3>2. ASSUME NEW n \in 1 .. TextMax, v[n - 1] = g[n - 1] PROVE v[n] = g[n]
      <4>1. n \in 0 .. TextMax /\ n # 0
        BY MaxIsNat
      <4>2. TextRound(v, n, s, frag, rep) = TextRound(g, n, s, frag, rep)
        BY <3>2, <4>1 DEF TextRound
      <4> QED
        BY <2>6, <4>1, <4>2
    <3>3. TextMax \in Nat
      BY MaxIsNat
    <3>4. \A n \in 1 .. TextMax : v[n - 1] = g[n - 1] => v[n] = g[n]
      BY <3>2
    <3>5. Alike(v, g, TextMax)
      BY <3>1, <3>4 DEF Alike
    <3> QED
      BY <3>3, <3>5, SameLoops
  <2>9. Stands(u[TextMax], v[TextMax][1], v[TextMax][2])
    BY <2>1, <2>7, <2>8, MaxIsNat
  <2>10. Buffered(u[TextMax].b, v[TextMax][1] \o v[TextMax][2])
    BY <2>9 DEF Stands
  <2> QED
    BY <1>2, <2>3, <2>4, <2>10
<1> QED
  BY <1>1, <1>2

LEMMA TrimIs ==
  ASSUME NEW b, NEW s, Buffered(b, s)
  PROVE  Buffered(Chars!str_trim(b), Chars!Trimmed(s))
<1> DEFINE n == Len(s)
           M == 2 * TextMax
           inner == {i \in DOMAIN s : s[i] # Chars!Space}
           z == IF inner = {} THEN n ELSE Chars!Max(inner)
           L == {i \in 0 .. Chars!str_length(b, 0) : b[i] # Chars!Space}
           left == Chars!Min(L)
           cut == Chars!str_trim_right_fast(b, left)
           s2 == SubSeq(s, 0 + 1, z)
           t == SubSeq(s, left + 1, z)
<1>1. /\ s \in Seq(Codes) /\ n \in Nat /\ n < TextMax /\ DOMAIN b = 0 .. M
      /\ Chars!str_length(b, 0) = n /\ Ended(b, s, M) /\ b[n] = Chars!NUL /\ DOMAIN s = 1 .. n
      /\ \A i \in 1 .. n : b[i - 1] = s[i]
  BY BufferedHas
<1>2. M \in Nat /\ n <= M /\ n < M
  BY <1>1, MaxIsNat
<1> HIDE DEF M, n
<1>3. /\ L = {i \in 0 .. n : b[i] # Chars!Space} /\ inner = {i \in 1 .. n : s[i] # Chars!Space}
  BY <1>1
<1>4. \A i \in 1 .. n : i \in inner <=> i - 1 \in L
  <2>1. \A i \in 1 .. n : i - 1 \in 0 .. n
    BY <1>1
  <2> QED
    BY <1>1, <1>3, <2>1
<1>5. n \in L
  BY <1>1, <1>3 DEF Chars!NUL, Chars!Space
<1>5a. L \subseteq 0 .. n /\ inner \subseteq 1 .. n
  BY <1>3
<1>5b. \A i \in L : i = n \/ (i \in 0 .. n - 1 /\ i + 1 \in inner)
  <2> TAKE i \in L
  <2>1. i \in 0 .. n
    BY <1>5a
  <2>2. CASE i # n
    <3>1. i \in 0 .. n - 1 /\ i + 1 \in 1 .. n /\ (i + 1) - 1 = i
      BY <1>1, <2>1, <2>2
    <3> HIDE DEF L, inner
    <3> QED
      BY <1>4, <3>1
  <2> QED
    BY <2>2
<1> HIDE DEF L, inner
<1>6. left \in L /\ \A i \in L : left <= i
  <2>1. L \subseteq Nat /\ L # {}
    BY <1>1, <1>5, <1>5a
  <2> QED
    BY <2>1, LeastIs
<1> HIDE DEF left
<1>7. left \in 0 .. n /\ left \in Nat
  BY <1>1, <1>5a, <1>6
<1>8. z \in 0 .. n /\ z \in Nat /\ left <= z
  <2>1. CASE inner = {}
    BY <1>1, <1>7, <2>1
  <2>2. CASE inner # {}
    <3>1. inner \subseteq 0 .. n
      BY <1>1, <1>5a
    <3>2. Chars!Max(inner) \in inner
      BY <1>1, <2>2, <3>1, MostIs
    <3>3. z = Chars!Max(inner)
      BY <2>2
    <3> HIDE DEF z
    <3>4. z \in 1 .. n /\ z - 1 \in L
      BY <1>4, <1>5a, <3>2, <3>3
    <3>5. left <= z - 1
      BY <1>6, <3>4
    <3> QED
      BY <1>1, <1>7, <3>4, <3>5
  <2> QED
    BY <2>1, <2>2
<1>9. Chars!Trimmed(s) = t
  <2>1. CASE inner = {}
    <3>1. left = n
      BY <1>5b, <1>6, <2>1
    <3>2. z = n
      BY <2>1
    <3>3. t = <<>>
      BY <1>1, <3>1, <3>2
    <3>4. Chars!Trimmed(s) = <<>>
      BY <2>1 DEF Chars!Trimmed, inner
    <3> QED
      BY <3>3, <3>4
  <2>2. CASE inner # {}
    <3>1. Chars!Min(inner) \in inner /\ \A i \in inner : Chars!Min(inner) <= i
      <4>1. inner \subseteq Nat
        BY <1>1, <1>5a
      <4> QED
        BY <2>2, <4>1, LeastIs
    <3> DEFINE q == Chars!Min(inner)
    <3> HIDE DEF q
    <3>2. q \in inner /\ \A i \in inner : q <= i
      BY <3>1 DEF q
    <3>3. q \in 1 .. n /\ q - 1 \in L
      BY <1>4, <1>5a, <3>2
    <3>4. left <= q - 1
      BY <1>6, <3>3
    <3>5. q <= left + 1
      <4>1. left # n
        BY <1>1, <1>7, <3>3, <3>4
      <4>2. left + 1 \in inner
        BY <1>5b, <1>6, <4>1
      <4> QED
        BY <3>2, <4>2
    <3>6. q = left + 1
      BY <1>1, <1>7, <3>3, <3>4, <3>5
    <3>7. Chars!Trimmed(s) = SubSeq(s, q, z)
      BY <2>2 DEF Chars!Trimmed, inner, q
    <3> QED
      BY <3>6, <3>7
  <2> QED
    BY <2>1, <2>2
<1>10. cut = [i \in 0 .. M |-> IF i \in z .. n - 1 THEN Chars!NUL ELSE b[i]]
  <2> DEFINE T == {left} \cup {i \in left .. n - 1 : b[i] # Chars!Space}
             last == Chars!Max(T)
  <2>1. Chars!str_length(b, left) = n - left /\ left + (n - left) = n
    BY <1>1, <1>7, LengthIs DEF n
  <2>2. cut = [i \in 0 .. M |-> IF i \in last + 1 .. n - 1 THEN Chars!NUL ELSE b[i]]
    BY <1>1, <2>1 DEF Chars!str_trim_right_fast
  <2>3. T \subseteq 0 .. n /\ T # {}
    BY <1>1, <1>7
  <2>4. last \in T /\ \A i \in T : i <= last
    <3> HIDE DEF T
    <3> QED
      BY <1>1, <2>3, MostIs
  <2>5. \A i \in T : i = left \/ (i \in L /\ i # n)
    BY <1>1, <1>3, <1>7
  <2>6. \A i \in 0 .. n - 1 : i \in L /\ left <= i => i \in T
    BY <1>1, <1>3, <1>7
  <2> HIDE DEF last, T, cut
  <2>7. \A i \in 0 .. M : i \in last + 1 .. n - 1 <=> i \in z .. n - 1
    <3>1. CASE inner = {}
      <4>1. left = n /\ z = n
        BY <1>5b, <1>6, <3>1
      <4>2. last = n
        BY <1>5b, <2>4, <2>5, <3>1, <4>1
      <4> QED
        BY <1>1, <4>1, <4>2
    <3>2. CASE inner # {}
      <4>1. z = Chars!Max(inner)
        BY <3>2
      <4> HIDE DEF z
      <4>2. z \in inner /\ \A i \in inner : i <= z
        <5>1. inner \subseteq 0 .. n
          BY <1>1, <1>5a
        <5> QED
          BY <1>1, <3>2, <4>1, <5>1, MostIs
      <4>3. z \in 1 .. n /\ z - 1 \in L /\ z - 1 \in 0 .. n - 1
        BY <1>1, <1>4, <1>5a, <4>2
      <4>4. left <= z - 1
        BY <1>6, <4>3
      <4>5. z - 1 <= last
        BY <2>4, <2>6, <4>3, <4>4
      <4>6. last \in L /\ last # n
        <5>1. left # n
          BY <1>1, <1>7, <4>3, <4>4
        <5> QED
          BY <1>6, <2>4, <2>5, <5>1
      <4>7. last \in 0 .. n - 1 /\ last + 1 <= z
        BY <1>5b, <4>2, <4>6
      <4>8. last + 1 = z
        BY <1>1, <4>3, <4>5, <4>7
      <4> QED
        BY <4>8
    <3> QED
      BY <3>1, <3>2
  <2> QED
    BY <2>2, <2>7
<1> HIDE DEF z, cut
<1>11. s2 \in Seq(Codes) /\ Len(s2) = z /\ \A i \in 1 .. z : s2[i] = s[i]
  <2>1. 0 \in Nat /\ 0 <= z /\ z <= n /\ z - 0 = z /\ \A i \in 1 .. z : 0 + i = i
    BY <1>1, <1>8
  <2>2. s2 \in Seq(Codes) /\ Len(s2) = z - 0 /\ \A i \in 1 .. z - 0 : s2[i] = s[0 + i] /\ 0 + i \in 1 .. Len(s)
    <3>1. z \in Nat /\ z <= Len(s) /\ s \in Seq(Codes)
      BY <1>1, <1>8 DEF n
    <3> QED
      BY <2>1, <3>1, PartIs
  <2> HIDE DEF s2
  <2> QED
    BY <2>1, <2>2
<1>12. t \in Seq(Codes) /\ Len(t) = z - left /\ \A i \in 1 .. z - left : t[i] = s[left + i]
  <2>1. z \in Nat /\ z <= Len(s) /\ s \in Seq(Codes)
    BY <1>1, <1>8 DEF n
  <2> QED
    BY <1>7, <1>8, <2>1, PartIs
<1> HIDE DEF t
<1>13. \A i \in 0 .. M : cut[i] = IF i \in z .. n - 1 THEN Chars!NUL ELSE b[i]
  BY <1>10
<1>14. Ended(cut, s2, M)
  <2> HIDE DEF s2
  <2>1. IsCells(cut, M)
    BY <1>10 DEF IsCells
  <2>2. ASSUME NEW i \in 1 .. Len(s2) PROVE cut[i - 1] = s2[i]
    <3>1. i \in 1 .. z /\ i \in 1 .. n /\ i - 1 \in 0 .. M /\ i - 1 \notin z .. n - 1
      BY <1>1, <1>2, <1>8, <1>11
    <3> QED
      BY <1>1, <1>11, <1>13, <3>1
  <2>3. cut[z] = Chars!NUL
    <3>1. z \in 0 .. M /\ (z = n \/ z \in z .. n - 1)
      BY <1>1, <1>2, <1>8
    <3> QED
      BY <1>1, <1>13, <3>1
  <2>4. Len(s2) <= M
    BY <1>1, <1>2, <1>8, <1>11
  <2> QED
    BY <1>2, <1>11, <2>1, <2>2, <2>3, <2>4 DEF Ended
<1>15. \A i \in 0 .. M : cut[i] = b[i] \/ (i < TextMax /\ cut[i] \in 0 .. 127)
  <2> TAKE i \in 0 .. M
  <2>1. CASE i \in z .. n - 1
    <3>1. i < TextMax
      BY <1>1, <1>8, <2>1, MaxIsNat
    <3> QED
      BY <1>13, <2>1, <3>1 DEF Chars!NUL
  <2>2. CASE i \notin z .. n - 1
    BY <1>13, <2>2
  <2> QED
    BY <2>1, <2>2
<1>16. z < TextMax
  BY <1>1, <1>8, MaxIsNat
<1>17. Buffered(cut, s2)
  <2>1. Len(s2) < TextMax
    BY <1>11, <1>16
  <2> HIDE DEF s2
  <2> QED
    BY <1>14, <1>15, <2>1, LeavesIs DEF M
<1>18. Chars!str_trim(b) = IF left = 0 THEN cut
                           ELSE Chars!mem_move(cut, 0, left, Chars!str_length(cut, left) + 1)
  BY DEF Chars!str_trim, Chars!str_trim_left_fast, left, L, cut
<1>19. CASE left = 0
  <2>1. t = s2
    BY <1>19 DEF t
  <2> QED
    BY <1>9, <1>17, <1>18, <1>19, <2>1
<1>20. CASE left # 0
  <2> DEFINE k == z - left
             r == Chars!mem_move(cut, 0, left, k + 1)
  <2>1. k \in Nat /\ k + 1 \in Nat /\ 0 \in Nat /\ 0 + (k + 1) - 1 <= M /\ left + (k + 1) - 1 <= M /\ left + k = z
    BY <1>1, <1>2, <1>7, <1>8
  <2>2. Chars!str_length(cut, left) = k
    <3>1. left \in 0 .. Len(s2)
      BY <1>7, <1>8, <1>11
    <3> HIDE DEF s2
    <3>2. Chars!str_length(cut, left) = Len(s2) - left
      BY <1>14, <3>1, LengthIs
    <3> QED
      BY <1>11, <3>2
  <2>3. IsCells(cut, M)
    BY <1>14 DEF Ended
  <2>4. r = [i \in 0 .. M |-> IF i - 0 \in 0 .. (k + 1) - 1 THEN cut[left + (i - 0)] ELSE cut[i]]
    <3> DEFINE c == k + 1
               o == 0
    <3>1. c \in Nat /\ o \in Nat /\ o + c - 1 <= M /\ left + c - 1 <= M
      BY <2>1
    <3> HIDE DEF c, o
    <3>2. Chars!mem_move(cut, o, left, c)
            = [i \in 0 .. M |-> IF i - o \in 0 .. c - 1 THEN cut[left + (i - o)] ELSE cut[i]]
      BY <1>2, <1>7, <2>3, <3>1, MoveIs
    <3> QED
      BY <3>2 DEF c, o
  <2> HIDE DEF r, k
  <2>5. \A i \in 0 .. M : r[i] = IF i \in 0 .. k THEN cut[left + i] ELSE cut[i]
    <3>1. \A i \in 0 .. M : i - 0 = i
      OBVIOUS
    <3>2. (k + 1) - 1 = k
      BY <2>1
    <3> QED
      BY <2>4, <3>1, <3>2
  <2>6. IsCells(r, M)
    BY <2>4 DEF IsCells
  <2>7. \A i \in 0 .. k : left + i \in 0 .. z /\ i \in 0 .. M /\ left + i \in 0 .. M /\ i < TextMax
    BY <1>1, <1>2, <1>7, <1>8, <1>16, <2>1, MaxIsNat
  <2>8. \A i \in 0 .. k : cut[left + i] \in 0 .. 127
    <3> TAKE i \in 0 .. k
    <3>1. CASE left + i = z
      <4>1. cut[z] = Chars!NUL
        BY <1>11, <1>14 DEF Ended
      <4> QED
        BY <3>1, <4>1 DEF Chars!NUL
    <3>2. CASE left + i # z
      <4>1. left + i + 1 \in 1 .. z /\ (left + i + 1) - 1 = left + i
        BY <1>7, <1>8, <2>1, <2>7, <3>2
      <4>2. cut[left + i] = s2[left + i + 1] /\ s2[left + i + 1] \in Codes
        <5> HIDE DEF s2
        <5>1. \A j \in 1 .. z : cut[j - 1] = s2[j]
          BY <1>11, <1>14 DEF Ended
        <5> QED
          BY <1>11, <4>1, <5>1
      <4> QED
        BY <4>2, CodesAre
    <3> QED
      BY <3>1, <3>2
  <2>9. \A i \in 0 .. M : r[i] = cut[i] \/ (i < TextMax /\ r[i] \in 0 .. 127)
    <3> TAKE i \in 0 .. M
    <3>1. CASE i \in 0 .. k
      BY <2>5, <2>7, <2>8, <3>1
    <3>2. CASE i \notin 0 .. k
      BY <2>5, <3>2
    <3> QED
      BY <3>1, <3>2
  <2>10. r[Len(t)] = Chars!NUL
    <3>1. Len(t) = k /\ k \in 0 .. k /\ cut[z] = Chars!NUL
      BY <1>11, <1>12, <1>14, <2>1 DEF Ended, k
    <3> QED
      BY <2>1, <2>5, <2>7, <3>1
  <2>11. ASSUME NEW i \in 1 .. Len(t) PROVE r[i - 1] = t[i]
    <3>1. Len(t) = k
      BY <1>12 DEF k
    <3>2. i - 1 \in 0 .. k /\ i - 1 \in 0 .. M
      BY <2>1, <2>7, <3>1
    <3>3. r[i - 1] = cut[left + (i - 1)]
      BY <2>5, <3>2
    <3>4. left + i \in 1 .. z /\ (left + i) - 1 = left + (i - 1)
      BY <1>7, <1>8, <2>1, <3>1
    <3>5. cut[(left + i) - 1] = s2[left + i]
      <4> HIDE DEF s2
      <4>1. \A j \in 1 .. z : cut[j - 1] = s2[j]
        BY <1>11, <1>14 DEF Ended
      <4> QED
        BY <3>4, <4>1
    <3>6. s2[left + i] = s[left + i] /\ t[i] = s[left + i]
      BY <1>11, <1>12, <3>1, <3>4 DEF k
    <3> QED
      BY <3>3, <3>4, <3>5, <3>6
  <2>12. Len(t) < TextMax
    <3>1. Len(t) = z - left
      BY <1>12
    <3> QED
      BY <1>7, <1>8, <1>16, <3>1, MaxIsNat
  <2>13. Buffered(r, t)
    <3>1. t \in Seq(Codes)
      BY <1>12
    <3> HIDE DEF s2
    <3> QED
      BY <1>17, <2>6, <2>9, <2>10, <2>11, <2>12, <3>1, WritesIs DEF M
  <2> QED
    BY <1>9, <1>18, <1>20, <2>2, <2>13 DEF r
<1> QED
  BY <1>19, <1>20

\* Character i of x, or the NUL after it, in lower case
CodeAt(x, i) == IF i > Len(x) THEN Chars!NUL ELSE Chars!ToLower(x[i])

LEMMA LowerIs ==
  /\ \A c \in Codes : Chars!ToLower(c) \in Codes /\ Chars!ToUpper(c) \in Codes
  /\ \A c \in Codes : Chars!Upper(c) \/ Chars!Lower(c) <=> Chars!ToLower(c) # Chars!ToUpper(c)
<1>1. ASSUME NEW c \in 1 .. 127
      PROVE  /\ Chars!ToLower(c) \in 1 .. 127 /\ Chars!ToUpper(c) \in 1 .. 127
             /\ (Chars!Upper(c) \/ Chars!Lower(c) <=> Chars!ToLower(c) # Chars!ToUpper(c))
  <2>1. CASE c \in 65 .. 90
    <3>1. Chars!ToLower(c) = c + 32 /\ Chars!ToUpper(c) = c /\ Chars!Upper(c)
      BY <2>1 DEF Chars!ToLower, Chars!ToUpper, Chars!Upper, Chars!Lower
    <3> QED
      BY <2>1, <3>1
  <2>2. CASE c \in 97 .. 122
    <3>1. Chars!ToLower(c) = c /\ Chars!ToUpper(c) = c - 32 /\ Chars!Lower(c)
      BY <2>2 DEF Chars!ToLower, Chars!ToUpper, Chars!Upper, Chars!Lower
    <3> QED
      BY <2>2, <3>1
  <2>3. CASE c \notin 65 .. 90 /\ c \notin 97 .. 122
    BY <2>3 DEF Chars!ToLower, Chars!ToUpper, Chars!Upper, Chars!Lower
  <2> QED
    BY <2>1, <2>2, <2>3
<1> QED
  BY <1>1, ZenonT(30) DEF Codes

LEMMA CompareIs ==
  ASSUME NEW x \in Seq(Codes), NEW y \in Seq(Codes)
  PROVE  Chars!str_compare(x, y, FALSE) = 0 <=> SameCodes(x, y, FALSE)
<1> DEFINE l == Len(x)
           n == Len(y)
           top == Chars!Max({l, n}) + 1
           apart == {i \in 1 .. top : CodeAt(x, i) # CodeAt(y, i)}
<1>1. l \in Nat /\ n \in Nat
  OBVIOUS
<1>2. /\ \A i \in 1 .. l : CodeAt(x, i) = Chars!ToLower(x[i]) /\ CodeAt(x, i) \in Codes
      /\ \A i \in 1 .. n : CodeAt(y, i) = Chars!ToLower(y[i]) /\ CodeAt(y, i) \in Codes
      /\ \A i \in Nat : i > l => CodeAt(x, i) = 0
      /\ \A i \in Nat : i > n => CodeAt(y, i) = 0
  <2>1. \A i \in 1 .. l : x[i] \in Codes /\ ~ (i > l)
    BY <1>1
  <2>2. \A i \in 1 .. n : y[i] \in Codes /\ ~ (i > n)
    BY <1>1
  <2>3. \A i \in 1 .. l : CodeAt(x, i) = Chars!ToLower(x[i])
    BY <2>1 DEF CodeAt
  <2>4. \A i \in 1 .. n : CodeAt(y, i) = Chars!ToLower(y[i])
    BY <2>2 DEF CodeAt
  <2>5. /\ \A i \in Nat : i > l => CodeAt(x, i) = 0
        /\ \A i \in Nat : i > n => CodeAt(y, i) = 0
    BY DEF CodeAt, Chars!NUL
  <2> QED
    BY <2>1, <2>2, <2>3, <2>4, <2>5, LowerIs
<1>3. top \in Nat /\ l < top /\ n < top
  <2> DEFINE T == {l, n}
  <2>1. l + n \in Nat /\ T \subseteq 0 .. l + n /\ T # {}
    BY <1>1
  <2>2. Chars!Max(T) \in T /\ \A j \in T : j <= Chars!Max(T)
    <3> HIDE DEF T
    <3> QED
      BY <2>1, MostIs
  <2> DEFINE z == Chars!Max(T)
  <2> HIDE DEF z
  <2>3. (z = l \/ z = n) /\ l <= z /\ n <= z
    BY <2>2 DEF z
  <2>4. top = z + 1
    BY DEF z
  <2> HIDE DEF top
  <2> QED
    BY <1>1, <2>3, <2>4
<1> DEFINE a == Chars!Min(apart)
<1>4. Chars!str_compare(x, y, FALSE) = IF apart = {} THEN 0 ELSE CodeAt(x, a) - CodeAt(y, a)
  BY DEF Chars!str_compare, CodeAt
<1>5. SameCodes(x, y, FALSE) <=> l = n /\ \A i \in 1 .. n : Chars!ToLower(x[i]) = Chars!ToLower(y[i])
  <2> DEFINE cs == FALSE
  <2>1. ~ cs
    OBVIOUS
  <2> HIDE DEF cs
  <2>2. SameCodes(x, y, cs) <=> Len(x) = Len(y) /\ \A i \in 1 .. Len(y) : Code(x[i], cs) = Code(y[i], cs)
    BY SameIs
  <2>3. \A i : Code(x[i], cs) = Chars!ToLower(x[i]) /\ Code(y[i], cs) = Chars!ToLower(y[i])
    BY <2>1 DEF Code
  <2> QED
    BY <2>2, <2>3 DEF cs
<1> HIDE DEF l, n, top
<1>6. CASE apart = {}
  <2>1. \A i \in 1 .. top : CodeAt(x, i) = CodeAt(y, i)
    BY <1>6
  <2>2. ~ (l < n)
    <3> SUFFICES ASSUME l < n PROVE FALSE
      OBVIOUS
    <3>1. l + 1 \in 1 .. n /\ l + 1 \in Nat /\ l + 1 > l /\ l + 1 \in 1 .. top
      BY <1>1, <1>3
    <3>2. CodeAt(x, l + 1) = 0 /\ CodeAt(y, l + 1) \in Codes
      BY <1>2, <3>1
    <3> QED
      BY <2>1, <3>1, <3>2, CodesAre
  <2>3. ~ (n < l)
    <3> SUFFICES ASSUME n < l PROVE FALSE
      OBVIOUS
    <3>1. n + 1 \in 1 .. l /\ n + 1 \in Nat /\ n + 1 > n /\ n + 1 \in 1 .. top
      BY <1>1, <1>3
    <3>2. CodeAt(y, n + 1) = 0 /\ CodeAt(x, n + 1) \in Codes
      BY <1>2, <3>1
    <3> QED
      BY <2>1, <3>1, <3>2, CodesAre
  <2>4. l = n
    BY <1>1, <2>2, <2>3
  <2>5. \A i \in 1 .. n : i \in 1 .. top /\ i \in 1 .. l
    BY <1>1, <1>3, <2>4
  <2>6. \A i \in 1 .. n : Chars!ToLower(x[i]) = Chars!ToLower(y[i])
    BY <1>2, <2>1, <2>5
  <2> QED
    BY <1>4, <1>5, <1>6, <2>4, <2>6
<1>7. CASE apart # {}
  <2>1. apart \subseteq 1 .. top
    OBVIOUS
  <2>2. a \in apart
    <3>1. apart \subseteq Nat
      BY <1>3
    <3> HIDE DEF apart
    <3> QED
      BY <1>7, <3>1, LeastIs
  <2> HIDE DEF a
  <2>3. a \in Nat /\ a >= 1 /\ CodeAt(x, a) # CodeAt(y, a)
    BY <1>3, <2>2
  <2>4. CodeAt(x, a) \in Nat
    <3>1. a \in 1 .. l \/ a > l
      BY <1>1, <2>3
    <3>2. CASE a \in 1 .. l
      <4>1. CodeAt(x, a) \in Codes
        BY <1>2, <3>2
      <4> QED
        BY <4>1, CodesAre
    <3>3. CASE a > l
      <4>1. CodeAt(x, a) = 0
        BY <1>2, <2>3, <3>3
      <4> QED
        BY <4>1
    <3> QED
      BY <3>1, <3>2, <3>3
  <2>5. CodeAt(y, a) \in Nat
    <3>1. a \in 1 .. n \/ a > n
      BY <1>1, <2>3
    <3>2. CASE a \in 1 .. n
      <4>1. CodeAt(y, a) \in Codes
        BY <1>2, <3>2
      <4> QED
        BY <4>1, CodesAre
    <3>3. CASE a > n
      <4>1. CodeAt(y, a) = 0
        BY <1>2, <2>3, <3>3
      <4> QED
        BY <4>1
    <3> QED
      BY <3>1, <3>2, <3>3
  <2>6. CodeAt(x, a) - CodeAt(y, a) # 0
    BY <2>3, <2>4, <2>5
  <2>7. Chars!str_compare(x, y, FALSE) # 0
    BY <1>4, <1>7, <2>6
  <2>8. ASSUME l = n, \A i \in 1 .. n : Chars!ToLower(x[i]) = Chars!ToLower(y[i]) PROVE FALSE
    <3>1. CASE a \in 1 .. n
      BY <1>2, <2>3, <2>8, <3>1
    <3>2. CASE a > n
      BY <1>2, <2>3, <2>8, <3>2
    <3> QED
      BY <1>1, <2>3, <3>1, <3>2
  <2> QED
    BY <1>5, <2>7, <2>8
<1> QED
  BY <1>6, <1>7

LEMMA SplitIs ==
  ASSUME NEW s \in Seq(Codes), NEW x \in Seq(Codes), NEW o \in 0 .. Len(s) - Len(x), NEW cs
  PROVE  SameCodes(s, Splice(s, o, o + Len(x), x), cs) <=> FragAt(s, o, x, cs)
<1> DEFINE n == Len(s)
           l == Len(x)
           z == o + l
           t == Splice(s, o, z, x)
<1>1. n \in Nat /\ l \in Nat /\ o \in Nat /\ z \in Nat /\ o <= z /\ z <= n /\ o + l + (n - z) = n
  OBVIOUS
<1>2. /\ t \in Seq(Codes)
      /\ Len(t) = o + l + (n - z)
      /\ \A i \in 1 .. o : t[i] = s[i]
      /\ \A i \in 1 .. l : t[o + i] = x[i]
      /\ \A i \in 1 .. n - z : t[o + l + i] = s[z + i]
  <2>1. o \in Nat /\ z \in Nat /\ o <= z /\ z <= Len(s)
    BY <1>1
  <2> HIDE DEF z
  <2> QED
    BY <2>1, SpliceIs, ZenonT(30)
<1>3. SameCodes(s, t, cs) <=> Len(s) = Len(t) /\ \A k \in 1 .. Len(t) : Code(s[k], cs) = Code(t[k], cs)
  <2>1. t \in Seq(Codes)
    BY <1>2
  <2> HIDE DEF t
  <2> QED
    BY <2>1, SameIs
<1>4. Len(t) = n
  BY <1>1, <1>2
<1> HIDE DEF t
<1>5. ASSUME \A k \in 1 .. n : Code(s[k], cs) = Code(t[k], cs) PROVE FragAt(s, o, x, cs)
  <2>1. \A k \in 1 .. l : o + k \in 1 .. n
    BY <1>1
  <2>2. \A k \in 1 .. l : Code(s[o + k], cs) = Code(x[k], cs)
    BY <1>2, <1>5, <2>1
  <2> QED
    BY <1>1, <2>2 DEF FragAt
<1>6. ASSUME FragAt(s, o, x, cs) PROVE \A k \in 1 .. n : Code(s[k], cs) = Code(t[k], cs)
  <2>1. \A k \in 1 .. l : Code(s[o + k], cs) = Code(x[k], cs)
    BY <1>6 DEF FragAt
  <2> HIDE DEF l, n
  <2> TAKE k \in 1 .. n
  <2>2. CASE k <= o
    <3>1. k \in 1 .. o
      BY <1>1, <2>2
    <3> QED
      BY <1>2, <3>1
  <2>3. CASE k > o /\ k <= z
    <3>1. k - o \in 1 .. l /\ o + (k - o) = k
      BY <1>1, <2>3 DEF z
    <3> QED
      BY <1>2, <2>1, <3>1
  <2>4. CASE k > z
    <3>1. k - z \in 1 .. n - z /\ z + (k - z) = k /\ o + l + (k - z) = k
      BY <1>1, <2>4
    <3> QED
      BY <1>2, <3>1
  <2> QED
    BY <1>1, <2>2, <2>3, <2>4
<1> QED
  BY <1>3, <1>4, <1>5, <1>6 DEF t

LEMMA CountIs ==
  ASSUME NEW b, NEW s, NEW m, Ended(b, s, m), NEW c
  PROVE  Chars!Cardinality({i \in Chars!Cells(b, 0) : b[i] = c}) = Len(s) - Len(Chars!Without(s, c))
<1> DEFINE N == Len(s)
           K == Filtered(s, c)
           S(n) == {i \in 0 .. n - 1 : s[i + 1] = c}
           Right(n) == IsFiniteSet(S(n)) /\ Cardinality(S(n)) = n - Len(K[n])
           Sets == {n \in Nat : n <= N => Right(n)}
<1>1. s \in Seq(Codes) /\ N \in Nat /\ \A i \in 1 .. N : b[i - 1] = s[i]
  BY DEF Ended
<1>2. /\ Chars!Without(s, c) = K[N] /\ K[0] = <<>>
      /\ \A n \in 0 .. N : K[n] \in Seq(Codes) /\ Len(K[n]) \in Nat
      /\ \A n \in 1 .. N : K[n] = IF s[n] = c THEN K[n - 1] ELSE Append(K[n - 1], s[n])
  <2>1. Chars!Without(s, c) = K[N] /\ K[0] = <<>>
    BY <1>1, KeptIs
  <2>2. \A n \in 0 .. N : K[n] \in Seq(Codes) /\ Len(K[n]) <= n
    BY <1>1, KeptIs
  <2>3. \A n \in 1 .. N : K[n] = IF s[n] = c THEN K[n - 1] ELSE Append(K[n - 1], s[n])
    BY <1>1, KeptIs
  <2> HIDE DEF K, N
  <2>4. ASSUME NEW n \in 0 .. N PROVE K[n] \in Seq(Codes) /\ Len(K[n]) \in Nat
    <3>1. K[n] \in Seq(Codes)
      BY <2>2
    <3> QED
      BY <3>1
  <2> QED
    BY <2>1, <2>3, <2>4
<1> HIDE DEF K, N
<1>3. Right(0)
  <2>1. S(0) = {}
    OBVIOUS
  <2>2. IsFiniteSet(S(0)) /\ Cardinality(S(0)) = 0
    BY <2>1, FS_EmptySet
  <2>3. Len(K[0]) = 0
    BY <1>2
  <2> HIDE DEF S
  <2> QED
    BY <2>2, <2>3
<1>4. ASSUME NEW n \in Nat, n + 1 <= N, Right(n) PROVE Right(n + 1)
  <2>1. n <= N /\ n \in 0 .. N /\ n + 1 \in 1 .. N /\ (n + 1) - 1 = n
    BY <1>1, <1>4
  <2>2. IsFiniteSet(S(n)) /\ Cardinality(S(n)) = n - Len(K[n])
    BY <1>4
  <2>3. K[n] \in Seq(Codes) /\ Len(K[n]) \in Nat /\ s[n + 1] \in Codes
    BY <1>1, <1>2, <2>1 DEF N
  <2>4. CASE s[n + 1] = c
    <3>1. S(n + 1) = S(n) \cup {n} /\ n \notin S(n)
      BY <2>4
    <3> HIDE DEF S
    <3>2. IsFiniteSet(S(n + 1)) /\ Cardinality(S(n + 1)) = Cardinality(S(n)) + 1
      BY <2>2, <3>1, FS_AddElement
    <3>3. K[n + 1] = K[n]
      BY <1>2, <2>1, <2>4
    <3>4. (n - Len(K[n])) + 1 = (n + 1) - Len(K[n])
      BY <2>3
    <3> QED
      BY <2>2, <3>2, <3>3, <3>4
  <2>5. CASE s[n + 1] # c
    <3>1. S(n + 1) = S(n)
      BY <2>5
    <3> HIDE DEF S
    <3>2. K[n + 1] = Append(K[n], s[n + 1])
      BY <1>2, <2>1, <2>5
    <3>3. Len(K[n + 1]) = Len(K[n]) + 1
      BY <2>3, <3>2
    <3>4. n - Len(K[n]) = (n + 1) - (Len(K[n]) + 1)
      BY <2>3
    <3> QED
      BY <2>2, <3>1, <3>3, <3>4
  <2> QED
    BY <2>4, <2>5
<1> HIDE DEF Right
<1>5. Nat \subseteq Sets
  <2>1. 0 \in Sets
    BY <1>3
  <2>2. ASSUME NEW n \in Nat, n \in Sets PROVE n + 1 \in Sets
    <3>1. n + 1 <= N => n <= N
      BY <1>1
    <3> QED
      BY <1>4, <2>2, <3>1
  <2> HIDE DEF Sets
  <2> QED
    BY <2>1, <2>2, SetInduction
<1>6. Right(N)
  BY <1>1, <1>5
<1>7. {i \in Chars!Cells(b, 0) : b[i] = c} = S(N)
  <2>1. Chars!str_length(b, 0) = N
    BY WholeIs DEF N
  <2>2. Chars!Cells(b, 0) = 0 .. N - 1
    BY <1>1, <2>1 DEF Chars!Cells
  <2>3. \A i \in 0 .. N - 1 : i + 1 \in 1 .. N /\ (i + 1) - 1 = i
    BY <1>1
  <2>4. \A i \in 0 .. N - 1 : b[i] = s[i + 1]
    BY <1>1, <2>3
  <2> QED
    BY <2>2, <2>4
<1>8. \A T : Chars!Cardinality(T) = Cardinality(T)
  BY DEF Chars!Cardinality, Cardinality
<1> HIDE DEF S
<1> QED
  BY <1>2, <1>6, <1>7, <1>8 DEF N, Right

\* Where Query() finds x in s, up to case unless cs
Found(s, x, cs) == {i \in 0 .. Len(s) - Len(x) : FragAt(s, i, x, cs)}

LEMMA ContainsIs ==
  ASSUME NEW b, NEW s, NEW m, Ended(b, s, m), NEW x \in Seq(Codes), NEW cs
  PROVE  Chars!str_contains(b, x, cs) = IF Found(s, x, cs) = {} THEN None ELSE Chars!Min(Found(s, x, cs))
<1>1. s \in Seq(Codes) /\ Len(s) \in Nat /\ Len(x) \in Nat
  BY DEF Ended
<1>2. CASE x = <<>>
  <2>1. Len(x) = 0 /\ Len(s) - Len(x) = Len(s)
    BY <1>1, <1>2
  <2>2. FragAt(s, 0, x, cs)
    BY <1>1, <2>1 DEF FragAt
  <2>3. 0 \in Found(s, x, cs) /\ Found(s, x, cs) \subseteq Nat
    BY <1>1, <2>1, <2>2 DEF Found
  <2>4. Chars!Min(Found(s, x, cs)) \in Nat /\ Chars!Min(Found(s, x, cs)) <= 0
    BY <2>3, LeastIs
  <2>5. Chars!Min(Found(s, x, cs)) = 0
    BY <2>4
  <2> QED
    BY <1>2, <2>3, <2>5 DEF Chars!str_contains
<1>3. CASE x # <<>>
  <2>1. Len(x) >= 1
    BY <1>1, <1>3
  <2>2. 0 \in 0 .. Len(s)
    BY <1>1
  <2>3. Chars!Matches(b, 0, x, cs) = Fitting(s, 0, x, cs)
    BY <1>3, <2>2, MatchesIs
  <2>4. \A i : FragAt(s, i, x, cs) /\ i \in Nat => i + Len(x) <= Len(s)
    BY DEF FragAt
  <2>5. Fitting(s, 0, x, cs) = Found(s, x, cs)
    <3>1. \A i \in 0 .. Len(s) - 1 : FragAt(s, i, x, cs) => i \in 0 .. Len(s) - Len(x)
      BY <1>1, <2>4
    <3>2. \A i \in 0 .. Len(s) - Len(x) : i \in 0 .. Len(s) - 1
      BY <1>1, <2>1
    <3> QED
      BY <3>1, <3>2 DEF Fitting, Found
  <2> QED
    BY <1>3, <2>3, <2>5 DEF Chars!str_contains
<1> QED
  BY <1>2, <1>3

\* Where Query() looks for the character c
Spots(s, c) == {i \in 0 .. Len(s) - 1 : s[i + 1] = c}

LEMMA SpotsAre ==
  ASSUME NEW b, NEW s, NEW m, Ended(b, s, m)
  PROVE  /\ Chars!Cells(b, 0) = 0 .. Len(s) - 1
         /\ \A i \in 0 .. Len(s) - 1 : b[i] = s[i + 1] /\ s[i + 1] \in Codes
         /\ \A c : {i \in Chars!Cells(b, 0) : b[i] = c} = Spots(s, c)
<1>1. s \in Seq(Codes) /\ Len(s) \in Nat /\ \A i \in 1 .. Len(s) : b[i - 1] = s[i]
  BY DEF Ended
<1>2. Chars!Cells(b, 0) = 0 .. Len(s) - 1
  <2>1. Chars!str_length(b, 0) = Len(s)
    BY WholeIs
  <2> QED
    BY <1>1, <2>1 DEF Chars!Cells
<1>3. \A i \in 0 .. Len(s) - 1 : i + 1 \in 1 .. Len(s) /\ (i + 1) - 1 = i
  BY <1>1
<1>4. \A i \in 0 .. Len(s) - 1 : b[i] = s[i + 1] /\ s[i + 1] \in Codes
  BY <1>1, <1>3
<1> QED
  BY <1>2, <1>4 DEF Spots

LEMMA SourcesAre == TextSources \subseteq Seq(Codes) /\ TextLimits \subseteq 0 .. TextMax
  BY TextAssumption DEF Codes

LEMMA CopyKeeps ==
  ASSUME TextInv, NEW n \in TextLimits, NEW s \in TextSources, Chars!Copy(n, s)
  PROVE  TextInv'
<1>1. Buffered(buf, text) /\ n \in 0 .. TextMax /\ s \in Seq(Codes) /\ n \in Nat /\ Len(s) \in Nat
  BY SourcesAre, MaxIsNat DEF TextInv
<1> DEFINE is == Chars!Min({Len(s), n}) < n
           should == Len(s) < n
           b == Chars!str_copy(buf, n, s)
           t == IF n = 0 THEN text ELSE Chars!Cut(s, n - 1)
<1>2. is = should
  BY <1>1, MinTwo
<1>3. Buffered(b, t)
  BY <1>1, CopyIs
<1>4. Chars!Call(b, t, is, should)
  BY DEF Chars!Copy
<1> HIDE DEF is, should, b, t
<1> QED
  BY <1>2, <1>3, <1>4, CallKeeps

LEMMA ConcatKeeps ==
  ASSUME TextInv, NEW n \in TextLimits, NEW s \in TextSources, Chars!Concat(n, s)
  PROVE  TextInv'
<1>1. Buffered(buf, text) /\ n \in 0 .. TextMax /\ s \in Seq(Codes) /\ n \in Nat /\ Len(s) \in Nat
  BY SourcesAre, MaxIsNat DEF TextInv
<1>2. text \in Seq(Codes) /\ Len(text) \in Nat /\ Chars!str_length(buf, 0) = Len(text)
  BY <1>1, BufferedHas
<1> DEFINE is == Chars!str_length(buf, 0) < n /\ Len(s) <= n - Chars!str_length(buf, 0) - 1
           should == Len(text \o s) < n
           b == Chars!str_concat(buf, n, s)
           t == IF n = 0 THEN text ELSE Chars!Cut(text \o s, n - 1)
<1>3. is = should
  <2>1. Len(text \o s) = Len(text) + Len(s)
    BY <1>1, <1>2
  <2>2. is <=> Len(text) < n /\ Len(s) <= n - Len(text) - 1
    BY <1>2
  <2>3. should <=> Len(text) + Len(s) < n
    BY <2>1
  <2> QED
    BY <1>1, <1>2, <2>2, <2>3
<1>4. Buffered(b, t)
  BY <1>1, ConcatIs
<1>5. Chars!Call(b, t, is, should)
  BY DEF Chars!Concat
<1> HIDE DEF is, should, b, t
<1> QED
  BY <1>3, <1>4, <1>5, CallKeeps

LEMMA MapKeeps ==
  ASSUME TextInv, NEW f \in [Codes -> Codes],
         Chars!Call(Chars!str_map(buf, f), [i \in DOMAIN text |-> f[text[i]]], 0, 0)
  PROVE  TextInv'
<1>1. Buffered(Chars!str_map(buf, f), [i \in DOMAIN text |-> f[text[i]]])
  BY MapIs DEF TextInv
<1> QED
  BY <1>1, CallKeeps

LEMMA CaseKeeps ==
  ASSUME TextInv, Chars!ToLowerCase \/ Chars!ToUpperCase
  PROVE  TextInv'
<1>1. text \in Seq(Codes)
  BY BufferedHas DEF TextInv
<1>2. \A i \in DOMAIN text : text[i] \in Codes
  BY <1>1
<1>3. CASE Chars!ToLowerCase
  <2> DEFINE f == [c \in Codes |-> Chars!ToLower(c)]
  <2>1. f \in [Codes -> Codes]
    BY LowerIs
  <2>2. [i \in DOMAIN text |-> Chars!ToLower(text[i])] = [i \in DOMAIN text |-> f[text[i]]]
    BY <1>2
  <2>3. Chars!Call(Chars!str_map(buf, f), [i \in DOMAIN text |-> f[text[i]]], 0, 0)
    <3>1. f = [c \in 1 .. 127 |-> Chars!ToLower(c)]
      BY DEF Codes
    <3>2. Chars!Each(text, Chars!ToLower) = [i \in DOMAIN text |-> Chars!ToLower(text[i])]
      BY DEF Chars!Each
    <3> HIDE DEF f
    <3> QED
      BY <1>3, <2>2, <3>1, <3>2 DEF Chars!ToLowerCase
  <2> HIDE DEF f
  <2> QED
    BY <2>1, <2>3, MapKeeps
<1>4. CASE Chars!ToUpperCase
  <2> DEFINE f == [c \in Codes |-> Chars!ToUpper(c)]
  <2>1. f \in [Codes -> Codes]
    BY LowerIs
  <2>2. [i \in DOMAIN text |-> Chars!ToUpper(text[i])] = [i \in DOMAIN text |-> f[text[i]]]
    BY <1>2
  <2>3. Chars!Call(Chars!str_map(buf, f), [i \in DOMAIN text |-> f[text[i]]], 0, 0)
    <3>1. f = [c \in 1 .. 127 |-> Chars!ToUpper(c)]
      BY DEF Codes
    <3>2. Chars!Each(text, Chars!ToUpper) = [i \in DOMAIN text |-> Chars!ToUpper(text[i])]
      BY DEF Chars!Each
    <3> HIDE DEF f
    <3> QED
      BY <1>4, <2>2, <3>1, <3>2 DEF Chars!ToUpperCase
  <2> HIDE DEF f
  <2> QED
    BY <2>1, <2>3, MapKeeps
<1> QED
  BY <1>3, <1>4

LEMMA CharsAre == Chars!Chars \subseteq Codes
<1>1. \A s \in TextSources : \A i \in DOMAIN s : s[i] \in Codes
  BY SourcesAre
<1> QED
  BY <1>1 DEF Chars!Chars

LEMMA ReplaceCharKeeps ==
  ASSUME TextInv, NEW c \in Chars!Chars, NEW d \in Chars!Chars, Chars!ReplaceChar(c, d)
  PROVE  TextInv'
<1> DEFINE f == [x \in Codes |-> IF x = c THEN d ELSE x]
<1>1. text \in Seq(Codes)
  BY BufferedHas DEF TextInv
<1>2. \A i \in DOMAIN text : text[i] \in Codes
  BY <1>1
<1>3. f \in [Codes -> Codes]
  BY CharsAre
<1>4. [i \in DOMAIN text |-> IF text[i] = c THEN d ELSE text[i]] = [i \in DOMAIN text |-> f[text[i]]]
  BY <1>2
<1>5. f = [x \in 1 .. 127 |-> IF x = c THEN d ELSE x]
  BY DEF Codes
<1>6. Chars!Call(Chars!str_map(buf, [x \in 1 .. 127 |-> IF x = c THEN d ELSE x]),
                 [i \in DOMAIN text |-> IF text[i] = c THEN d ELSE text[i]], 0, 0)
  BY DEF Chars!ReplaceChar, Chars!Each
<1>7. Chars!Call(Chars!str_map(buf, f), [i \in DOMAIN text |-> f[text[i]]], 0, 0)
  BY <1>4, <1>5, <1>6
<1> HIDE DEF f
<1> QED
  BY <1>3, <1>7, MapKeeps

LEMMA RemoveCharKeeps ==
  ASSUME TextInv, NEW c, Chars!RemoveChar(c)
  PROVE  TextInv'
<1> DEFINE b == Chars!str_remove_char(buf, c)
           t == Chars!Without(text, c)
           is == Chars!str_length(buf, 0) - Chars!str_length(b, 0)
           should == Len(text) - Len(t)
<1>1. Buffered(buf, text)
  BY DEF TextInv
<1>2. Buffered(b, t)
  BY <1>1, RemoveIs
<1>3. Chars!Call(b, t, is, should)
  BY DEF Chars!RemoveChar
<1> HIDE DEF b, t
<1>4. is = should
  <2>1. Chars!str_length(buf, 0) = Len(text)
    BY <1>1, BufferedHas
  <2>2. Chars!str_length(b, 0) = Len(t)
    BY <1>2, BufferedHas
  <2> QED
    BY <2>1, <2>2
<1> HIDE DEF is, should
<1> QED
  BY <1>2, <1>3, <1>4, CallKeeps

LEMMA ReplaceStringKeeps ==
  ASSUME TextInv, NEW frag \in TextSources, NEW rep \in TextSources, Chars!ReplaceString(frag, rep)
  PROVE  TextInv'
<1> DEFINE b == Chars!str_replace_string(buf, TextMax, frag, rep)
           t == IF frag = <<>> THEN text ELSE Chars!AllReplaced(text, TextMax, frag, rep)
<1>1. Buffered(buf, text) /\ frag \in Seq(Codes) /\ rep \in Seq(Codes)
  BY SourcesAre DEF TextInv
<1>2. Buffered(b, t)
  BY <1>1, ReplaceIs
<1>3. Chars!Call(b, t, 0, 0)
  BY DEF Chars!ReplaceString
<1> HIDE DEF b, t
<1> QED
  BY <1>2, <1>3, CallKeeps

LEMMA TrimKeeps ==
  ASSUME TextInv, Chars!Trim
  PROVE  TextInv'
<1>1. Buffered(Chars!str_trim(buf), Chars!Trimmed(text))
  BY TrimIs DEF TextInv
<1>2. Chars!Call(Chars!str_trim(buf), Chars!Trimmed(text), 0, 0)
  BY DEF Chars!Trim
<1> QED
  BY <1>1, <1>2, CallKeeps

LEMMA CompareKeeps ==
  ASSUME TextInv, NEW s \in TextSources, Chars!Compare(s)
  PROVE  TextInv'
<1> DEFINE is == Chars!str_compare(Chars!At(buf, 0), s, FALSE) = 0
           should == Chars!Each(text, Chars!ToLower) = Chars!Each(s, Chars!ToLower)
<1>1. Buffered(buf, text) /\ s \in Seq(Codes)
  BY SourcesAre DEF TextInv
<1>2. text \in Seq(Codes) /\ Ended(buf, text, 2 * TextMax)
  BY <1>1, BufferedHas
<1>3. Chars!At(buf, 0) = text
  BY <1>2, WholeIs
<1>4. Chars!str_compare(text, s, FALSE) = 0 <=> SameCodes(text, s, FALSE)
  BY <1>1, <1>2, CompareIs
<1>5. SameCodes(text, s, FALSE) <=> should
  BY DEF SameCodes, Code, Chars!Each
<1>6. is = should
  BY <1>3, <1>4, <1>5
<1>7. Chars!Call(buf, text, is, should)
  BY DEF Chars!Compare
<1> HIDE DEF is, should
<1> QED
  BY <1>1, <1>6, <1>7, CallKeeps

LEMMA QueryKeeps ==
  ASSUME TextInv, NEW s \in TextSources, Chars!Query(s)
  PROVE  TextInv'
<1>1. Buffered(buf, text) /\ s \in Seq(Codes)
  BY SourcesAre DEF TextInv
<1>2. /\ text \in Seq(Codes) /\ Len(text) \in Nat /\ Len(s) \in Nat
      /\ Ended(buf, text, 2 * TextMax)
  BY <1>1, BufferedHas, SMTT(20)
<1> DEFINE t == text
           First(at) == IF at = {} THEN None ELSE Chars!Min(at)
           Beside(i) == <<SubSeq(text, 1, i), SubSeq(text, i + Len(s) + 1, Len(text))>>
           With(i) == Beside(i)[1] \o s \o Beside(i)[2]
           Exact == {i \in 0 .. Len(text) - Len(s) :
                      [k \in DOMAIN text |-> text[k]] = [k \in DOMAIN With(i) |-> With(i)[k]]}
           Near == {i \in 0 .. Len(text) - Len(s) :
                      [k \in DOMAIN text |-> Chars!ToLower(text[k])]
                      = [k \in DOMAIN With(i) |-> Chars!ToLower(With(i)[k])]}
           Spotted(c) == {i \in 0 .. Len(text) - 1 : text[i + 1] = c}
           P1 == Chars!str_contains(buf, s, TRUE) = First(Exact)
           P2 == Chars!str_contains(buf, s, FALSE) = First(Near)
           P3 == Chars!str_is_alpha(buf) = \A i \in DOMAIN text : Chars!ToLower(text[i]) # Chars!ToUpper(text[i])
           P4 == Chars!str_chrcount(buf, Len(s), s)[1]
                   = [k \in DOMAIN s |-> Len(text) - Len(Chars!Without(text, s[k]))]
           P5 == \A k \in DOMAIN s :
                   /\ Chars!str_find_char(buf, s[k]) = First(Spotted(s[k]))
                   /\ Chars!str_rfind_char(buf, s[k]) =
                        IF Spotted(s[k]) = {} THEN None ELSE Chars!Max(Spotted(s[k]))
           P == /\ P1
                /\ P2
                /\ P3
                /\ P4
                /\ P5
<1>3. Chars!Call(buf, text, P, TRUE)
  BY DEF Chars!Query, Chars!Each
<1>4. \A i : With(i) = Splice(text, i, i + Len(s), s)
  BY DEF Splice
<1>5. \A cs : \A i \in 0 .. Len(text) - Len(s) : SameCodes(text, Splice(text, i, i + Len(s), s), cs) <=> FragAt(text, i, s, cs)
  BY <1>1, <1>2, SplitIs
<1> HIDE DEF With
<1>6. P1
  <2> DEFINE cs == TRUE
  <2>1. \A x, y : SameCodes(x, y, cs) <=> [k \in DOMAIN x |-> x[k]] = [k \in DOMAIN y |-> y[k]]
    BY DEF SameCodes, Code
  <2>2. cs = TRUE
    OBVIOUS
  <2> HIDE DEF cs
  <2>3. Exact = Found(text, s, cs)
    BY <1>4, <1>5, <2>1 DEF Found
  <2>4. Chars!str_contains(buf, s, cs) = First(Found(text, s, cs))
    BY <1>1, <1>2, ContainsIs
  <2> HIDE DEF Exact
  <2> QED
    BY <2>2, <2>3, <2>4
<1>7. P2
  <2> DEFINE cs == FALSE
  <2>1. \A x, y : SameCodes(x, y, cs) <=> [k \in DOMAIN x |-> Chars!ToLower(x[k])] = [k \in DOMAIN y |-> Chars!ToLower(y[k])]
    BY DEF SameCodes, Code
  <2>2. cs = FALSE
    OBVIOUS
  <2> HIDE DEF cs
  <2>3. Near = Found(text, s, cs)
    BY <1>4, <1>5, <2>1 DEF Found
  <2>4. Chars!str_contains(buf, s, cs) = First(Found(text, s, cs))
    BY <1>1, <1>2, ContainsIs
  <2> HIDE DEF Near
  <2> QED
    BY <2>2, <2>3, <2>4
<1>8. /\ Chars!Cells(buf, 0) = 0 .. Len(text) - 1
      /\ \A i \in 0 .. Len(text) - 1 : buf[i] = text[i + 1] /\ text[i + 1] \in Codes
      /\ \A c : {i \in Chars!Cells(buf, 0) : buf[i] = c} = Spots(text, c)
  BY <1>2, SpotsAre
<1>9. P3
  <2>1. DOMAIN text = 1 .. Len(text) /\ \A i \in 1 .. Len(text) : i - 1 \in 0 .. Len(text) - 1 /\ (i - 1) + 1 = i
    BY <1>2
  <2>2. \A i \in 0 .. Len(text) - 1 : i + 1 \in 1 .. Len(text)
    BY <1>2
  <2> DEFINE Alpha(c) == Chars!Upper(c) \/ Chars!Lower(c)
  <2>3. Chars!str_is_alpha(buf) = \A i \in 0 .. Len(text) - 1 : Alpha(buf[i])
    BY <1>8 DEF Chars!str_is_alpha
  <2>4. \A c \in Codes : Alpha(c) <=> Chars!ToLower(c) # Chars!ToUpper(c)
    BY LowerIs
  <2> HIDE DEF Alpha
  <2>5. \A i \in 0 .. Len(text) - 1 : Alpha(buf[i]) <=> Chars!ToLower(text[i + 1]) # Chars!ToUpper(text[i + 1])
    BY <1>8, <2>4
  <2>6. (\A i \in 0 .. Len(text) - 1 : Alpha(buf[i]))
          <=> \A i \in DOMAIN text : Chars!ToLower(text[i]) # Chars!ToUpper(text[i])
    BY <2>1, <2>2, <2>5
  <2> QED
    BY <2>3, <2>6
<1>10. P4
  <2>1. Chars!Min({Len(s), Len(s)}) = Len(s)
    BY <1>2, MinTwo
  <2>2. DOMAIN s = 1 .. Len(s)
    BY <1>1
  <2>3. Chars!str_chrcount(buf, Len(s), s)[1]
          = [k \in 1 .. Len(s) |-> Chars!Cardinality({i \in Chars!Cells(buf, 0) : buf[i] = s[k]})]
    BY <2>1 DEF Chars!str_chrcount
  <2>4. \A c : Chars!Cardinality({i \in Chars!Cells(buf, 0) : buf[i] = c}) = Len(text) - Len(Chars!Without(text, c))
    BY <1>2, CountIs
  <2> QED
    BY <2>2, <2>3, <2>4
<1>11. P5
  <2>1. \A c : Spotted(c) = Spots(text, c)
    BY DEF Spots
  <2> HIDE DEF Spotted
  <2> QED
    BY <1>8, <2>1 DEF Chars!str_find_char, Chars!str_rfind_char
<1> HIDE DEF P1, P2, P3, P4, P5
<1>12. P = TRUE
  BY <1>6, <1>7, <1>9, <1>10, <1>11
<1>13. Chars!Call(buf, text, P, TRUE) /\ P = TRUE
  BY <1>3, <1>12
<1> HIDE DEF P
<1> QED
  BY <1>1, <1>13, CallKeeps

LEMMA TextKeeps == TextInv /\ [Chars!TextNext]_textVars => TextInv'
<1> SUFFICES ASSUME TextInv, [Chars!TextNext]_textVars PROVE TextInv'
  OBVIOUS
<1>1. CASE UNCHANGED textVars
  BY <1>1 DEF TextInv, Buffered, Ended, IsCells, textVars
<1>2. CASE Chars!TextNext
  BY <1>2, CopyKeeps, ConcatKeeps, CaseKeeps, RemoveCharKeeps, ReplaceCharKeeps, ReplaceStringKeeps,
     TrimKeeps, CompareKeeps, QueryKeeps DEF Chars!TextNext
<1> QED
  BY <1>1, <1>2

\* How long a dg_string_t can be
Lengths == 0 .. TextMax \cup UNION {0 .. Len(s) : s \in TextSources}

StoredString(b, s, m) == Ended(b, s, m) /\ \A i \in 0 .. m : b[i] \in 0 .. 127

StringInv ==
  /\ ds = [cells |-> ds.cells, length |-> ds.length]
  /\ owned # None =>
       /\ owned \in Seq(Codes) /\ Len(owned) \in Lengths /\ ds.length = Len(owned)
       /\ ds.cells = None => owned = <<>>
       /\ ds.cells # None => \E m \in Lengths : StoredString(ds.cells, owned, m)

LEMMA LengthsAre ==
  /\ Lengths \subseteq Nat /\ 0 .. TextMax \subseteq Lengths
  /\ \A m \in Lengths : \A n \in 0 .. m : n \in Lengths
  /\ \A s \in TextSources : Len(s) \in Lengths
<1>1. \A s \in TextSources : Len(s) \in Nat
  BY SourcesAre
<1>2. \A s \in TextSources : 0 .. Len(s) \subseteq Lengths
  BY DEF Lengths
<1>3. \A s \in TextSources : Len(s) \in 0 .. Len(s)
  BY <1>1
<1>4. Lengths \subseteq Nat
  BY <1>1, MaxIsNat DEF Lengths
<1>5. ASSUME NEW m \in Lengths, NEW n \in 0 .. m PROVE n \in Lengths
  <2>1. CASE m \in 0 .. TextMax
    BY <2>1, MaxIsNat DEF Lengths
  <2>2. ASSUME NEW s \in TextSources, m \in 0 .. Len(s) PROVE n \in Lengths
    <3>1. n \in 0 .. Len(s)
      BY <1>1, <2>2
    <3> QED
      BY <1>2, <3>1
  <2> QED
    BY <2>1, <2>2 DEF Lengths
<1> QED
  BY <1>2, <1>3, <1>4, <1>5 DEF Lengths

LEMMA StoredIsCells ==
  ASSUME NEW b, NEW s, NEW m \in Lengths, StoredString(b, s, m)
  PROVE  b # None
<1>1. b = [i \in 0 .. m |-> b[i]] /\ \A i \in 0 .. m : b[i] \in 0 .. 127
  BY DEF StoredString, Ended, IsCells
<1>2. b \in [0 .. m -> 0 .. 127]
  BY <1>1
<1>3. None \notin [0 .. m -> 0 .. 127]
  BY TextAssumption DEF Lengths
<1> QED
  BY <1>2, <1>3

LEMMA StringBecomes ==
  ASSUME NEW b, NEW t, NEW m \in Lengths, StoredString(b, t, m),
         ds' = [cells |-> b, length |-> Len(t)], owned' = t
  PROVE  StringInv'
<1>1. b # None
  BY StoredIsCells
<1>2. t \in Seq(Codes) /\ Len(t) \in Nat /\ m \in Nat /\ Len(t) <= m
  BY DEF StoredString, Ended
<1>3. Len(t) \in 0 .. m
  BY <1>2
<1>4. Len(t) \in Lengths
  BY <1>3, LengthsAre
<1>5. ds'.cells = b /\ ds'.length = Len(t) /\ ds' = [cells |-> ds'.cells, length |-> ds'.length]
  OBVIOUS
<1> QED
  BY <1>1, <1>2, <1>4, <1>5 DEF StringInv, StoredString, Ended, IsCells

\* What a block must be to hold a string and nothing else
LEMMA HoldsWhole ==
  ASSUME NEW b, NEW t \in Seq(Codes), Len(t) \in Lengths, IsCells(b, Len(t)),
         \A i \in 1 .. Len(t) : b[i - 1] = t[i],
         b[Len(t)] = Chars!NUL
  PROVE  StoredString(b, t, Len(t))
<1> DEFINE n == Len(t)
<1>1. n \in Nat /\ n <= n
  OBVIOUS
<1>2. Ended(b, t, n)
  BY <1>1 DEF Ended
<1>3. ASSUME NEW i \in 0 .. n PROVE b[i] \in 0 .. 127
  <2>1. CASE i = n
    BY <2>1 DEF Chars!NUL
  <2>2. CASE i # n
    <3>1. i + 1 \in 1 .. n /\ (i + 1) - 1 = i
      BY <1>1, <2>2
    <3>2. b[i] = t[i + 1] /\ t[i + 1] \in Codes
      BY <3>1
    <3> QED
      BY <3>2, CodesAre
  <2> QED
    BY <2>1, <2>2
<1> QED
  BY <1>2, <1>3 DEF StoredString

LEMMA DuplicateKeeps ==
  ASSUME StringInv, NEW s \in Seq(Codes), Len(s) \in Lengths, Chars!Duplicate(s)
  PROVE  StringInv'
<1>1. CASE ds' = [ds EXCEPT !.cells = None] /\ owned' = None
  <2>1. ds' = [cells |-> None, length |-> ds.length]
    BY <1>1 DEF StringInv
  <2> QED
    BY <1>1, <2>1 DEF StringInv
<1> DEFINE b == [i \in 0 .. Len(s) |-> IF i < Len(s) THEN s[i + 1] ELSE Chars!NUL]
<1>2. CASE ds' = [cells |-> b, length |-> Len(s)] /\ owned' = s
  <2>1. Len(s) \in Nat
    OBVIOUS
  <2>2. \A i \in 1 .. Len(s) : i - 1 \in 0 .. Len(s) /\ i - 1 < Len(s) /\ (i - 1) + 1 = i
    BY <2>1
  <2>3. Len(s) \in 0 .. Len(s) /\ ~(Len(s) < Len(s))
    BY <2>1
  <2>4. IsCells(b, Len(s)) /\ b[Len(s)] = Chars!NUL /\ \A i \in 1 .. Len(s) : b[i - 1] = s[i]
    BY <2>2, <2>3 DEF IsCells
  <2> HIDE DEF b
  <2>5. StoredString(b, s, Len(s))
    BY <2>4, HoldsWhole
  <2> QED
    BY <1>2, <2>5, StringBecomes
<1> QED
  BY <1>1, <1>2 DEF Chars!Duplicate

LEMMA RoomIs ==
  ASSUME StringInv, owned # None, NEW n \in Nat, Len(owned) <= n
  PROVE  HasFront(Chars!Room(n + 1), owned, n)
<1> DEFINE r == Chars!Room(n + 1)
<1>1. owned \in Seq(Codes) /\ Len(owned) \in Nat
  BY DEF StringInv
<1>2. 0 .. (n + 1) - 1 = 0 .. n
  OBVIOUS
<1>3. r = [i \in 0 .. n |-> IF ds.cells # None THEN IF i \in DOMAIN ds.cells THEN ds.cells[i] ELSE Junk ELSE Junk]
  BY <1>2 DEF Chars!Room
<1>4. IsCells(r, n)
  BY <1>3 DEF IsCells
<1>5. ASSUME NEW i \in 1 .. Len(owned) PROVE r[i - 1] = owned[i]
  <2>1. owned # <<>>
    BY <1>1
  <2>2. ds.cells # None
    BY <2>1 DEF StringInv
  <2>3. PICK m \in Lengths : StoredString(ds.cells, owned, m)
    BY <2>2 DEF StringInv
  <2>4. m \in Nat /\ Len(owned) <= m /\ DOMAIN ds.cells = 0 .. m /\ ds.cells[i - 1] = owned[i]
    BY <2>3 DEF StoredString, Ended, IsCells
  <2>5. i - 1 \in 0 .. m /\ i - 1 \in 0 .. n
    BY <1>1, <2>4
  <2> QED
    BY <1>3, <2>2, <2>4, <2>5
<1> QED
  BY <1>1, <1>4, <1>5 DEF HasFront

\* The string is ended when its last character is in its place.
LEMMA EndIsPut ==
  ASSUME NEW b, NEW t \in Seq(Codes), Len(t) \in Lengths, HasFront(b, t, Len(t)),
         ds' = [cells |-> [b EXCEPT ![Len(t)] = Chars!NUL], length |-> Len(t)], owned' = t
  PROVE  StringInv'
<1> DEFINE r == [b EXCEPT ![Len(t)] = Chars!NUL]
<1>1. Len(t) \in Nat /\ IsCells(b, Len(t)) /\ \A i \in 1 .. Len(t) : b[i - 1] = t[i]
  BY DEF HasFront
<1>2. DOMAIN b = 0 .. Len(t)
  BY <1>1 DEF IsCells
<1>3. IsCells(r, Len(t)) /\ r[Len(t)] = Chars!NUL
  <2>1. Len(t) \in 0 .. Len(t)
    BY <1>1
  <2>2. r[Len(t)] = Chars!NUL
    BY <1>2, <2>1
  <2>3. IsCells(r, Len(t))
    BY <1>2 DEF IsCells
  <2> QED
    BY <2>2, <2>3
<1>4. ASSUME NEW i \in 1 .. Len(t) PROVE r[i - 1] = t[i]
  <2>1. i - 1 \in 0 .. Len(t) /\ i - 1 # Len(t)
    BY <1>1
  <2> QED
    BY <1>1, <1>2, <2>1
<1> HIDE DEF r
<1>5. StoredString(r, t, Len(t))
  BY <1>3, <1>4, HoldsWhole
<1> QED
  BY <1>5, StringBecomes DEF r

LEMMA AppendKeeps ==
  ASSUME StringInv, NEW src \in TextSources, NEW n \in 0 .. Len(src), Chars!dgstr_append(src, n)
  PROVE  StringInv'
<1> DEFINE s == IF n = 0 THEN src ELSE SubSeq(src, 1, n)
           l == Len(owned)
           nl == l + Len(s)
           room == Chars!Room(nl + 1)
           b == Chars!mem_copy(room, l, s)
           t == owned \o s
<1>1. /\ owned # None /\ owned \in Seq(Codes) /\ l \in Nat /\ ds.length = l
      /\ src \in Seq(Codes) /\ Len(src) \in Nat /\ n \in Nat
  BY SourcesAre DEF StringInv, Chars!dgstr_append
<1>2. s \in Seq(Codes) /\ Len(s) \in Nat
  <2>1. 1 .. n \subseteq 1 .. Len(src)
    BY <1>1
  <2>2. SubSeq(src, 0 + 1, n) \in Seq(Codes)
    BY <1>1, PartIs
  <2> QED
    BY <1>1, <2>2
<1>3. /\ nl <= TextMax /\ owned' = t
      /\ ds' = [cells |-> [b EXCEPT ![nl] = Chars!NUL], length |-> nl]
  BY <1>1 DEF Chars!dgstr_append
<1> HIDE DEF s
<1>4. t \in Seq(Codes) /\ Len(t) = nl /\ nl \in Nat
  BY <1>1, <1>2
<1>5. \A i \in 1 .. nl : t[i] = IF i <= l THEN owned[i] ELSE s[i - l]
  BY <1>1, <1>2
<1> HIDE DEF l, nl, t
<1>6. nl = l + Len(s) /\ l <= nl
  BY <1>1, <1>2 DEF nl
<1>7. HasFront(room, owned, nl)
  BY <1>1, <1>4, <1>6, RoomIs DEF l
<1> HIDE DEF room
<1>8. IsCells(room, nl) /\ DOMAIN room = 0 .. nl /\ \A i \in 1 .. l : room[i - 1] = owned[i]
  BY <1>7 DEF HasFront, IsCells, l
<1>9. b = [i \in 0 .. nl |-> IF i \in l .. l + Len(s) - 1 THEN s[i - l + 1] ELSE room[i]]
  BY <1>8 DEF Chars!mem_copy
<1> HIDE DEF b
<1>10. IsCells(b, nl)
  BY <1>9 DEF IsCells
<1>11. ASSUME NEW i \in 1 .. nl PROVE b[i - 1] = t[i]
  <2>1. i - 1 \in 0 .. nl
    BY <1>4
  <2>2. CASE i <= l
    <3>1. i - 1 \notin l .. l + Len(s) - 1 /\ i \in 1 .. l
      BY <1>1, <2>2
    <3> QED
      BY <1>5, <1>8, <1>9, <2>1, <2>2, <3>1
  <2>3. CASE ~(i <= l)
    <3>1. i - 1 \in l .. l + Len(s) - 1 /\ (i - 1) - l + 1 = i - l
      BY <1>1, <1>2, <1>6, <2>3
    <3> QED
      BY <1>5, <1>9, <2>1, <2>3, <3>1
  <2> QED
    BY <2>2, <2>3
<1>12. HasFront(b, t, Len(t))
  BY <1>4, <1>10, <1>11 DEF HasFront
<1>13. Len(t) \in Lengths
  <2>1. nl \in 0 .. TextMax
    BY <1>3, <1>4, MaxIsNat
  <2> QED
    BY <1>4, <2>1, LengthsAre
<1> QED
  BY <1>3, <1>4, <1>12, <1>13, EndIsPut

LEMMA InsertKeeps ==
  ASSUME StringInv, NEW pos \in 0 .. TextMax, NEW src \in TextSources, Chars!dgstr_insert_from(pos, src)
  PROVE  StringInv'
<1> DEFINE l == Len(owned)
           at == Chars!Min({pos, l})
           nl == l + Len(src)
           room == Chars!Room(nl + 1)
           b == Chars!mem_copy(Chars!mem_move(room, at + Len(src), at, (l - at) + 1), at, src)
           t == Splice(owned, at, at, src)
<1>1. /\ owned # None /\ owned \in Seq(Codes) /\ l \in Nat /\ ds.length = l
      /\ src \in Seq(Codes) /\ Len(src) \in Nat /\ pos \in Nat
  BY SourcesAre, MaxIsNat DEF StringInv, Chars!dgstr_insert_from
<1>2. /\ nl <= TextMax /\ owned' = t
      /\ ds' = [cells |-> [b EXCEPT ![nl] = Chars!NUL], length |-> nl]
  BY <1>1 DEF Chars!dgstr_insert_from, Splice
<1> HIDE DEF l
<1>3. at \in Nat /\ at <= l /\ at <= at
  BY <1>1, MinTwo
<1> HIDE DEF at
<1>4. nl \in Nat /\ l <= nl /\ at + Len(src) + (l - at) = nl /\ at + Len(src) + (l - at) <= nl
  BY <1>1, <1>3
<1>5. HasFront(room, owned, nl)
  BY <1>1, <1>4, RoomIs DEF l
<1> HIDE DEF nl, room
<1>6. t \in Seq(Codes) /\ Len(t) = nl
  <2>1. at <= Len(owned)
    BY <1>3 DEF l
  <2>2. t \in Seq(Codes)
    BY <1>1, <1>3, <2>1, SpliceIs
  <2>3. Len(t) = at + Len(src) + (Len(owned) - at)
    BY <1>1, <1>3, <2>1, SpliceIs
  <2> QED
    BY <1>4, <2>2, <2>3 DEF l
<1> HIDE DEF t
<1>7. t = Splice(owned, at, at, src) /\ b = Chars!mem_copy(Chars!mem_move(room, at + Len(src), at, (Len(owned) - at) + 1), at, src)
  BY DEF t, l
<1> HIDE DEF b
<1>8. HasFront(b, t, nl)
  BY <1>1, <1>3, <1>4, <1>5, <1>7, SpliceCells DEF l
<1>9. Len(t) \in Lengths
  <2>1. nl \in 0 .. TextMax
    BY <1>2, <1>4, MaxIsNat
  <2> QED
    BY <1>6, <2>1, LengthsAre
<1> QED
  BY <1>2, <1>6, <1>8, <1>9, EndIsPut

LEMMA RemoveCharsKeeps ==
  ASSUME StringInv, NEW c, Chars!dgstr_remove_chars(c)
  PROVE  StringInv'
<1> DEFINE b == Chars!str_remove_char(ds.cells, c)
           t == Chars!Without(owned, c)
<1>1. /\ owned # None /\ ds.cells # None /\ owned' = t
      /\ ds' = [cells |-> b, length |-> ds.length - (Chars!str_length(ds.cells, 0) - Chars!str_length(b, 0))]
  BY DEF Chars!dgstr_remove_chars
<1>2. ds.length = Len(owned) /\ \E m \in Lengths : StoredString(ds.cells, owned, m)
  BY <1>1 DEF StringInv
<1>3. PICK m \in Lengths : StoredString(ds.cells, owned, m)
  BY <1>2
<1>4. Ended(ds.cells, owned, m) /\ Len(owned) \in Nat
  BY <1>3 DEF StoredString, Ended
<1> HIDE DEF b, t
<1>5. b = Chars!str_remove_char(ds.cells, c) /\ t = Chars!Without(owned, c)
  BY DEF b, t
<1>6. /\ Ended(b, t, m)
      /\ \A i \in 0 .. m : b[i] = ds.cells[i] \/ (i <= Len(owned) /\ b[i] \in 0 .. 127)
  <2> DEFINE o == ds.cells
             s == owned
  <2>1. Ended(o, s, m) /\ b = Chars!str_remove_char(o, c) /\ t = Chars!Without(s, c)
    BY <1>4, <1>5
  <2> HIDE DEF o, s
  <2>2. /\ Ended(b, t, m)
        /\ \A i \in 0 .. m : b[i] = o[i] \/ (i <= Len(s) /\ b[i] \in 0 .. 127)
    BY <2>1, DropKeeps
  <2> QED
    BY <2>2 DEF o, s
<1>7. StoredString(b, t, m)
  BY <1>3, <1>6 DEF StoredString
<1>8. Chars!str_length(ds.cells, 0) = Len(owned)
  BY <1>4, WholeIs
<1>9. Chars!str_length(b, 0) = Len(t)
  BY <1>6, WholeIs
<1>10. Len(t) \in Nat
  BY <1>6 DEF Ended
<1>11. ds.length - (Chars!str_length(ds.cells, 0) - Chars!str_length(b, 0)) = Len(t)
  BY <1>2, <1>4, <1>8, <1>9, <1>10
<1> QED
  BY <1>1, <1>7, <1>11, StringBecomes

LEMMA FreeKeeps ==
  ASSUME StringInv, Chars!dgstr_free
  PROVE  StringInv'
<1>1. ds' = [cells |-> ds.cells, length |-> 0] /\ owned' = None
  BY DEF StringInv, Chars!dgstr_free
<1> QED
  BY <1>1 DEF StringInv

LEMMA StringStarts == Chars!StringInit => StringInv
<1>1. <<>> \in Seq(Codes) /\ Len(<<>>) = 0
  OBVIOUS
<1>2. 0 \in Lengths
  BY LengthsAre, MaxIsNat
<1> QED
  BY <1>1, <1>2 DEF StringInv, Chars!StringInit

LEMMA StringKeeps == StringInv /\ [Chars!StringNext]_stringVars => StringInv'
<1> SUFFICES ASSUME StringInv, [Chars!StringNext]_stringVars PROVE StringInv'
  OBVIOUS
<1>1. CASE UNCHANGED stringVars
  BY <1>1 DEF StringInv, StoredString, Ended, IsCells, stringVars
<1>2. ASSUME NEW s \in TextSources, Chars!dgstr_copy_from(s) PROVE StringInv'
  <2>1. s \in Seq(Codes) /\ Len(s) \in Lengths
    BY SourcesAre, LengthsAre
  <2> QED
    BY <1>2, <2>1, DuplicateKeeps DEF Chars!dgstr_copy_from
<1>3. CASE Chars!dgstr_copy
  <2>1. owned # None /\ ds.cells # None /\ Chars!Duplicate(Chars!At(ds.cells, 0))
    BY <1>3 DEF Chars!dgstr_copy
  <2>2. owned \in Seq(Codes) /\ Len(owned) \in Lengths /\ \E m \in Lengths : StoredString(ds.cells, owned, m)
    BY <2>1 DEF StringInv
  <2>3. Chars!At(ds.cells, 0) = owned
    BY <2>2, WholeIs DEF StoredString
  <2> QED
    BY <2>1, <2>2, <2>3, DuplicateKeeps
<1>4. ASSUME NEW s \in TextSources, NEW pos \in 0 .. TextMax, Chars!dgstr_insert_from(pos, s) PROVE StringInv'
  BY <1>4, InsertKeeps
<1>5. ASSUME NEW s \in TextSources, NEW n \in 0 .. Len(s), Chars!dgstr_append(s, n) PROVE StringInv'
  BY <1>5, AppendKeeps
<1>6. CASE Chars!StringNext
  BY <1>2, <1>3, <1>4, <1>5, <1>6, RemoveCharsKeeps, FreeKeeps DEF Chars!StringNext
<1> QED
  BY <1>1, <1>6

LEMMA StringHolds == StringInv => Chars!HoldsString
<1> SUFFICES ASSUME StringInv, owned # None
    PROVE  /\ ds.length = Len(owned)
           /\ ds.cells = None => owned = <<>>
           /\ ds.cells # None => Chars!At(ds.cells, 0) = owned
  BY DEF Chars!HoldsString
<1>1. ASSUME ds.cells # None PROVE Chars!At(ds.cells, 0) = owned
  <2>1. PICK m \in Lengths : StoredString(ds.cells, owned, m)
    BY <1>1 DEF StringInv
  <2> QED
    BY <2>1, WholeIs DEF StoredString
<1> QED
  BY <1>1 DEF StringInv

-----------------------------------------------------------------------------
(***************************************************************************)
(* All of them, of which a behaviour exercises one.                        *)
(***************************************************************************)

SequencesInv ==
  /\ RingInv /\ StackInv /\ ArraysInv /\ ListInv /\ ArenaInv /\ MemoryInv
  /\ BitsInv /\ HashInv /\ PathInv /\ TextInv /\ StringInv

LEMMA SequencesStart == SequencesInit => SequencesInv
BY RingStarts, StackStarts, ArraysStart, ListStarts, ArenaStarts, MemoryStarts, BitsStart,
   HashStarts, PathStarts, TextStarts, StringStarts DEF SequencesInit, SequencesInv

LEMMA SequencesKeep ==
  ASSUME SequencesInv, [SequencesNext]_<<which, sequenceVars>>
  PROVE  SequencesInv'
<1>1. /\ [Ring!Next]_ringVars /\ [Stack!Next]_stackVars /\ [Arrays!Next]_arrayVars /\ [List!Next]_listVars
      /\ [Arena!Next]_arenaVars /\ [Memory!Next]_memoryVars /\ [Bits!Next]_bitVars
      /\ [Hash!Next]_hashVars /\ [Path!Next]_pathVars
      /\ [Chars!TextNext]_textVars /\ [Chars!StringNext]_stringVars
  <2>1. CASE SequencesNext
    BY <2>1 DEF SequencesNext
  <2>2. CASE UNCHANGED <<which, sequenceVars>>
    BY <2>2 DEF sequenceVars
  <2> QED
    BY <2>1, <2>2
<1>2. RingInv' /\ StackInv' /\ ArraysInv'
  BY <1>1, RingKeeps, StackKeeps, ArraysKeep DEF SequencesInv
<1>3. ListInv' /\ ArenaInv'
  BY <1>1, ListKeeps, ArenaKeeps DEF SequencesInv
<1>4. MemoryInv' /\ BitsInv' /\ HashInv' /\ PathInv'
  BY <1>1, MemoryKeeps, BitsKeep, HashKeeps, PathKeeps DEF SequencesInv
<1>5. TextInv' /\ StringInv'
  BY <1>1, TextKeeps, StringKeeps DEF SequencesInv
<1> QED
  BY <1>2, <1>3, <1>4, <1>5 DEF SequencesInv

LEMMA SequencesAlways == SequencesSpec => []SequencesInv
<1>1. SequencesInit => SequencesInv
  BY SequencesStart
<1>2. SequencesInv /\ [SequencesNext]_<<which, sequenceVars>> => SequencesInv'
  BY SequencesKeep
<1> QED
  BY <1>1, <1>2, PTL DEF SequencesSpec

(* The queue, the stack, the arrays, the list and the bit vector hold what *)
(* was put there, in order, through every wrap, growth, relinking and      *)
(* realignment of dg_queue.c, dg_stack.c, dg_darray.c, dg_list.c and       *)
(* dg_bitvec.c, but for the calls that their modules name; a path has the  *)
(* names that the calls of dg_path.c gave it, however often it was joined, *)
(* cut and had its slashes turned, whatever the names are; and every       *)
(* function of dg_string.c leaves the string it promises, ended by a NUL   *)
(* within the buffer, whatever was there, and writes nothing after it.     *)
THEOREM SequencesAreHeld == SequencesSpec => []SequencesHold
<1>1. SequencesInv => SequencesHold
  BY RingHolds, StackHolds, ArraysHold, ListHolds, BitsHold, PathHolds, TextHolds, StringHolds
     DEF SequencesInv, SequencesHold
<1> QED
  BY <1>1, SequencesAlways, PTL

(* The hunks that linalloc_hunk_alloc() hands out share no byte, on either *)
(* path of dg_linalloc.c; and what the start of a memory pool or an        *)
(* interlocked queue has got, also one that failed part way, its end gives *)
(* back.                                                                   *)
THEOREM MemoryIsHeld == SequencesSpec => []MemoryHeld
<1>1. SequencesInv => MemoryHeld
  BY DEF SequencesInv, ArenaInv, MemoryInv, MemoryHeld
<1> QED
  BY <1>1, SequencesAlways, PTL

(* The map finds what was set and not erased, its searches and its loops   *)
(* end: for every hash function, however its values collide, every set of  *)
(* keys and every least capacity from 8 on (dg_map.h).                     *)
THEOREM HashMapFinds == SequencesSpec => []MapFinds
<1>1. SequencesInv => MapFinds
  BY HashFinds, HashLoops DEF SequencesInv, MapFinds
<1> QED
  BY <1>1, SequencesAlways, PTL
=============================================================================
