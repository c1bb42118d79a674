---------------------------- MODULE SystemProofs ----------------------------
(***************************************************************************)
(* Proofs about dg_main.c and dg_sys.c: the start and the end of the       *)
(* library, the data of windows, the desktop, dynamic libraries, and last  *)
(* the events, each for every set of the objects it is about.              *)
(***************************************************************************)
EXTENDS MCSysEvents, FiniteSetTheorems, SequenceTheorems, WellFoundedInduction, TLAPS

(* A set of numbers that has 0, and with each number the next, has all.    *)
LEMMA Least ==
  ASSUME NEW S, S \subseteq Nat, S # {}
  PROVE  \E x \in S : \A y \in S : x <= y
<1> DEFINE less == OpToRel(<, Nat)
<1>1. \A x, y \in Nat : x < y => <<x, y>> \in less
  BY DEF OpToRel
<1>2. PICK x \in S : \A y \in S : ~(<<y, x>> \in less)
  <2>1. IsWellFoundedOn(less, Nat)
    BY NatLessThanWellFounded
  <2> HIDE DEF less
  <2> QED
    BY <2>1, WFMin
<1> HIDE DEF less
<1>3. \A y \in S : ~ (y < x)
  BY <1>1, <1>2
<1>4. \A y \in S : y \in Nat /\ x \in Nat
  OBVIOUS
<1> QED
  BY <1>2, <1>3, <1>4

LEMMA SetInduction ==
  ASSUME NEW S, 0 \in S, \A n \in Nat : n \in S => n + 1 \in S
  PROVE  Nat \subseteq S
<1> DEFINE Missing == Nat \ S
<1> SUFFICES ASSUME Missing # {} PROVE FALSE
  OBVIOUS
<1>1. PICK x \in Missing : \A y \in Missing : x <= y
  <2>1. Missing \subseteq Nat
    OBVIOUS
  <2> HIDE DEF Missing
  <2> QED
    BY <2>1, Least
<1>2. x # 0
  OBVIOUS
<1>3. x - 1 \in Nat /\ x - 1 \notin Missing
  BY <1>1, <1>2
<1>4. (x - 1) + 1 \in S
  BY <1>3
<1> QED
  BY <1>1, <1>4
-----------------------------------------------------------------------------
(***************************************************************************)
(* The start and the end of the library.  PartsWhole speaks of the library *)
(* outside a call mostly; InCalls adds what has been done and what has not *)
(* while a call is under way.  A part that is started is known to have had *)
(* nothing before as long as no dg_initialize() was repeated.              *)
(***************************************************************************)

globals == Lib!globals

InCalls ==
  /\ ready => pc = "idle"
  /\ shut => globals = {} /\ pc \in {"idle", "end_threads", "end_filesystem", "end_sysui"}
  /\ pc = "start_sysui" /\ ~repeated => events = Null /\ paths = Null /\ tls = Null
  /\ pc = "start_filesystem" => events # Null /\ class /\ (~repeated => paths = Null /\ tls = Null)
  /\ pc = "start_threads" => events # Null /\ paths # Null /\ class /\ (~repeated => tls = Null)
  /\ pc = "end_filesystem" => tls = Null
  /\ pc = "end_sysui" => tls = Null /\ paths = Null

LibraryInv == PartsWhole /\ InCalls

LEMMA InitLibrary == Lib!Init => LibraryInv
  BY DEF Lib!Init, LibraryInv, PartsWhole, Lib!PartsWhole, InCalls, Lib!TypeOK, globals, Lib!globals

(* A call that begins finds what the call before has left.                 *)
LEMMA CallsKeep ==
  ASSUME LibraryInv, Lib!dg_initialize \/ Lib!dg_deinitialize
  PROVE  LibraryInv'
<1> USE DEF LibraryInv, PartsWhole, Lib!PartsWhole, InCalls, Lib!TypeOK, globals, Lib!globals, Lib!Go
<1>1. CASE Lib!dg_initialize
  BY <1>1 DEF Lib!dg_initialize
<1>2. CASE Lib!dg_deinitialize
  BY <1>2 DEF Lib!dg_deinitialize
<1> QED
  BY <1>1, <1>2

(* A new object is none that a part has: those are all live.               *)
LEMMA StartKeeps ==
  ASSUME LibraryInv, Lib!initialize_sysui \/ Lib!initialize_filesystem \/ Lib!initialize_threads
  PROVE  LibraryInv'
<1> USE DEF LibraryInv, PartsWhole, Lib!PartsWhole, InCalls, Lib!TypeOK, globals, Lib!globals, Lib!Go,
            Lib!Gives, Lib!Refuses, Lib!history
<1>1. Null \notin Objects
  BY RestAssumption
<1>2. CASE Lib!initialize_sysui
  BY <1>1, <1>2 DEF Lib!initialize_sysui
<1>3. CASE Lib!initialize_filesystem
  BY <1>1, <1>3 DEF Lib!initialize_filesystem
<1>4. CASE Lib!initialize_threads
  <2>1. /\ pc' = "idle" /\ UNCHANGED <<events, paths, class, shut, repeated>>
        /\ events # Null /\ paths # Null /\ class /\ ~shut /\ ~ready /\ (~repeated => tls = Null)
    BY <1>4 DEF Lib!initialize_threads
  <2>2. CASE Lib!Refuses(tls') /\ UNCHANGED <<freq, ready>>
    BY <2>1, <2>2
  <2>3. CASE Lib!Gives(tls') /\ freq' = TRUE /\ ready' = TRUE
    BY <1>1, <2>1, <2>3
  <2> QED
    BY <1>4, <2>2, <2>3 DEF Lib!initialize_threads
<1> QED
  BY <1>2, <1>3, <1>4

(* What a part gives back no other part has.                               *)
LEMMA EndKeeps ==
  ASSUME LibraryInv,
         Lib!deinitialize_threads \/ Lib!deinitialize_filesystem \/ Lib!deinitialize_sysui
  PROVE  LibraryInv'
<1> USE DEF LibraryInv, PartsWhole, Lib!PartsWhole, InCalls, Lib!TypeOK, globals, Lib!globals, Lib!Go,
            Lib!history
<1>1. CASE Lib!deinitialize_threads
  BY <1>1 DEF Lib!deinitialize_threads
<1>2. CASE Lib!deinitialize_filesystem
  BY <1>2 DEF Lib!deinitialize_filesystem
<1>3. CASE Lib!deinitialize_sysui
  BY <1>3 DEF Lib!deinitialize_sysui
<1> QED
  BY <1>1, <1>2, <1>3

LEMMA LibraryKeeps ==
  ASSUME LibraryInv, [Lib!Next]_libraryVars
  PROVE  LibraryInv'
<1>1. CASE UNCHANGED libraryVars
  BY <1>1 DEF libraryVars, LibraryInv, PartsWhole, Lib!PartsWhole, InCalls, Lib!TypeOK, globals, Lib!globals
<1> QED
  BY <1>1, CallsKeep, StartKeeps, EndKeeps DEF Lib!Next

(* Whatever fails in dg_initialize(), and however often it and             *)
(* dg_deinitialize() are called, the parts have what they use, each its    *)
(* own, and nothing is left when the library has ended: for every set of   *)
(* objects the system can give.                                            *)
THEOREM LibraryWhole == PartSpec => []PartsWhole
<1>1. PartInit => LibraryInv
  BY InitLibrary DEF PartInit
<1>2. LibraryInv /\ [PartNext]_<<part, vars, libraryVars, windowVars, desktopVars, dlVars>> => LibraryInv'
  BY LibraryKeeps DEF PartNext
<1>3. LibraryInv => PartsWhole
  BY DEF LibraryInv
<1> QED
  BY <1>1, <1>2, <1>3, PTL DEF PartSpec
-----------------------------------------------------------------------------
(***************************************************************************)
(* The data of windows.                                                    *)
(***************************************************************************)

WindowsTyped ==
  /\ state \in [Handles -> {"none", "live", "dead"}]
  /\ owner \in [Handles -> Handles \cup {Null}]
  /\ word \in [Handles -> Blocks \cup {Null}]
  /\ used \subseteq Blocks
  /\ puserdata \in [Blocks -> [Data!Slots -> Values]]
  /\ stored \in [Handles -> [Data!Slots -> Values \cup {Unset}]]

\* A window that is not live leads to no data, and nothing is set in it.
WindowInv ==
  /\ WindowsTyped
  /\ \A w \in Handles : IF state[w] = "live" THEN word[w] \in used ELSE word[w] = Null
  /\ \A w, x \in Handles : word[w] = word[x] /\ word[w] # Null => w = x
  /\ \A b \in used : \E w \in Handles : word[w] = b
  /\ \A w \in Handles : state[w] = "live" /\ owner[w] # Null => state[owner[w]] = "live"
  /\ \A w \in Handles, s \in Data!Slots :
       stored[w][s] # Unset => state[w] = "live" /\ puserdata[word[w]][s] = stored[w][s]

LEMMA WindowsAreWhole ==
  ASSUME WindowInv
  PROVE  WindowsOwnData
<1>1. Null \notin Blocks
  BY RestAssumption
<1> QED
  BY <1>1 DEF WindowInv, WindowsTyped, WindowsOwnData, Data!WindowsOwnData, Data!TypeOK,
              Data!Live, Data!get_userdata, Data!window_data

LEMMA InitWindows == Data!Init => WindowInv
<1> SUFFICES ASSUME Data!Init PROVE WindowInv
  OBVIOUS
<1>1. WindowsTyped
  BY DEF Data!Init, WindowsTyped, Data!NoValues
<1>2. \A w \in Handles : state[w] = "none" /\ word[w] = Null
                         /\ \A s \in Data!Slots : stored[w][s] = Unset
  BY DEF Data!Init, Data!NoValues
<1>3. used = {}
  BY DEF Data!Init
<1> QED
  BY <1>1, <1>2, <1>3 DEF WindowInv

\* One step from a set of windows to those they own.
Reach(S) == S \cup {x \in Handles : Data!Live(x) /\ owner[x] \in S}

\* more is the function that Owned(w) is defined by.
Reaches(more, w, N) ==
  more = [n \in 0 .. N |-> IF n = 0 THEN {w} ELSE Reach(more[n - 1])]

(* There is such a function.                                               *)
LEMMA ReachExists ==
  ASSUME NEW w \in Handles, NEW N \in Nat
  PROVE  \E more : Reaches(more, w, N)
<1> DEFINE S == {n \in Nat : \E more : Reaches(more, w, n)}
<1>1. 0 \in S
  <2> DEFINE one == [n \in 0 .. 0 |-> {w}]
  <2>1. Reaches(one, w, 0)
    <3>1. \A n \in 0 .. 0 : n = 0
      OBVIOUS
    <3> QED
      BY <3>1 DEF Reaches
  <2> QED
    BY <2>1
<1>2. ASSUME NEW n \in Nat, n \in S PROVE n + 1 \in S
  <2>1. PICK more : Reaches(more, w, n)
    BY <1>2
  <2> DEFINE longer == [k \in 0 .. n + 1 |-> IF k = 0 THEN {w} ELSE Reach(more[k - 1])]
  <2>2. \A k \in 0 .. n : longer[k] = more[k]
    <3>1. \A k \in 0 .. n : more[k] = IF k = 0 THEN {w} ELSE Reach(more[k - 1])
      BY <2>1 DEF Reaches
    <3>2. \A k \in 0 .. n : k \in 0 .. n + 1
      OBVIOUS
    <3>3. \A k \in 0 .. n + 1 : longer[k] = IF k = 0 THEN {w} ELSE Reach(more[k - 1])
      OBVIOUS
    <3> HIDE DEF longer
    <3> QED
      BY <3>1, <3>2, <3>3
  <2>3. \A k \in 0 .. n + 1 : k # 0 => k - 1 \in 0 .. n
    OBVIOUS
  <2>4. longer = [k \in 0 .. n + 1 |-> IF k = 0 THEN {w} ELSE Reach(longer[k - 1])]
    <3>1. \A k \in 0 .. n + 1 : (IF k = 0 THEN {w} ELSE Reach(more[k - 1]))
                              = (IF k = 0 THEN {w} ELSE Reach(longer[k - 1]))
      <4> HIDE DEF longer
      <4> QED
        BY <2>2, <2>3
    <3> QED
      BY <3>1
  <2>5. Reaches(longer, w, n + 1)
    BY <2>4 DEF Reaches
  <2> QED
    BY <2>5
<1>3. Nat \subseteq S
  <2> HIDE DEF S
  <2> QED
    BY <1>1, <1>2, SetInduction
<1> QED
  BY <1>3

(* The windows that die with w: w, windows that live and have an owner     *)
(* among them, and all of those, because a chain of owners is no longer    *)
(* than there are windows.                                                 *)
LEMMA OwnedClosed ==
  ASSUME NEW w \in Handles
  PROVE  /\ w \in Data!Owned(w) /\ Data!Owned(w) \subseteq Handles
         /\ \A x \in Data!Owned(w) : x = w \/ Data!Live(x)
         /\ \A x \in Handles : Data!Live(x) /\ owner[x] \in Data!Owned(w) => x \in Data!Owned(w)
<1> DEFINE N == Data!Cardinality(Handles)
<1>1. N = Cardinality(Handles) /\ N \in Nat /\ IsFiniteSet(Handles)
  <2>1. N = Cardinality(Handles)
    BY DEF Data!Cardinality, Cardinality, Data!IsFiniteSet, IsFiniteSet
  <2> QED
    BY <2>1, RestAssumption, FS_CardinalityType
<1>2. PICK more : Reaches(more, w, N) /\ Data!Owned(w) = more[N]
  <2>1. \E more : Reaches(more, w, N)
    BY <1>1, ReachExists
  <2> DEFINE m == CHOOSE more : Reaches(more, w, N)
  <2>2. Reaches(m, w, N)
    BY <2>1
  <2>3. Data!Owned(w) = m[N]
    BY DEF Data!Owned, Reaches, Reach
  <2> QED
    BY <2>2, <2>3
<1>3. /\ more[0] = {w}
      /\ \A n \in Nat : n + 1 <= N => more[n + 1] = Reach(more[n])
  <2>1. \A n \in 0 .. N : more[n] = IF n = 0 THEN {w} ELSE Reach(more[n - 1])
    BY <1>2 DEF Reaches
  <2>2. 0 \in 0 .. N /\ \A n \in Nat : n + 1 <= N => n + 1 \in 0 .. N /\ n + 1 # 0 /\ (n + 1) - 1 = n
    BY <1>1
  <2> HIDE DEF N
  <2> QED
    BY <2>1, <2>2
<1> HIDE DEF N
<1> DEFINE Good(n) ==
             /\ w \in more[n] /\ more[n] \subseteq Handles
             /\ \A x \in more[n] : x = w \/ Data!Live(x)
             /\ Reach(more[n]) = more[n] \/ Cardinality(more[n]) >= n + 1
           S == {n \in Nat : n <= N => Good(n)}
<1>4. 0 \in S
  <2>1. Cardinality({w}) = 1
    BY FS_Singleton
  <2> QED
    BY <1>1, <1>3, <2>1
<1>5. ASSUME NEW n \in Nat, n \in S PROVE n + 1 \in S
  <2> SUFFICES ASSUME n + 1 <= N PROVE Good(n + 1)
    OBVIOUS
  <2>1. Good(n) /\ more[n + 1] = Reach(more[n])
    BY <1>1, <1>3, <1>5
  <2>2. more[n] \subseteq more[n + 1] /\ more[n + 1] \subseteq Handles
    BY <2>1 DEF Reach
  <2>3. w \in more[n + 1] /\ \A x \in more[n + 1] : x = w \/ Data!Live(x)
    BY <2>1 DEF Reach
  <2>4. CASE Reach(more[n]) = more[n]
    BY <2>1, <2>2, <2>3, <2>4
  <2>5. CASE Reach(more[n]) # more[n]
    <3>1. IsFiniteSet(more[n + 1])
      BY <1>1, <2>2, FS_Subset
    <3>2. /\ Cardinality(more[n]) \in Nat /\ Cardinality(more[n + 1]) \in Nat
          /\ Cardinality(more[n]) < Cardinality(more[n + 1])
      BY <2>1, <2>2, <2>5, <3>1, FS_Subset, FS_CardinalityType
    <3>3. Cardinality(more[n]) >= n + 1
      BY <2>1, <2>5
    <3>4. Cardinality(more[n + 1]) >= (n + 1) + 1
      BY <3>2, <3>3
    <3> QED
      BY <2>2, <2>3, <3>4
  <2> QED
    BY <2>4, <2>5
<1>6. Good(N)
  <2>1. Nat \subseteq S
    <3> HIDE DEF S
    <3> QED
      BY <1>4, <1>5, SetInduction
  <2> QED
    BY <1>1, <2>1
<1>7. Reach(more[N]) = more[N]
  <2>1. Cardinality(more[N]) <= N
    BY <1>1, <1>6, FS_Subset
  <2>2. Cardinality(more[N]) \in Nat
    BY <1>1, <1>6, FS_Subset, FS_CardinalityType
  <2> QED
    BY <1>1, <1>6, <2>1, <2>2
<1>8. \A x \in Handles : Data!Live(x) /\ owner[x] \in more[N] => x \in more[N]
  BY <1>7 DEF Reach
<1> QED
  BY <1>2, <1>6, <1>8

LEMMA CreateKeeps ==
  ASSUME WindowInv, NEW w \in Handles, NEW p \in Handles \cup {Null},
         Data!window_create(w, p) \/ Data!window_create_fails(w, p)
  PROVE  WindowInv'
<1>1. Null \notin Blocks
  BY RestAssumption
<1>2. CASE Data!window_create(w, p)
  <2>1. PICK b \in Blocks \ used :
          /\ state[w] = "none" /\ p \in Data!Owners
          /\ state' = [state EXCEPT ![w] = "live"]
          /\ owner' = [owner EXCEPT ![w] = p]
          /\ word' = [word EXCEPT ![w] = b]
          /\ used' = used \cup {b}
          /\ puserdata' = puserdata /\ stored' = stored
    BY <1>2 DEF Data!window_create
  <2>2. p = Null \/ (p \in Handles /\ state[p] = "live")
    BY <2>1 DEF Data!Owners, Data!Live
  <2>3. WindowsTyped'
    BY <2>1 DEF WindowInv, WindowsTyped
  <2>4. \A x \in Handles : x # w => /\ state'[x] = state[x] /\ owner'[x] = owner[x]
                                    /\ word'[x] = word[x] /\ word[x] # b
    BY <1>1, <2>1 DEF WindowInv, WindowsTyped
  <2>5. state'[w] = "live" /\ owner'[w] = p /\ word'[w] = b /\ word[w] = Null
    BY <2>1 DEF WindowInv, WindowsTyped
  <2>6. \A s \in Data!Slots : stored[w][s] = Unset
    BY <2>1 DEF WindowInv
  <2>7. \A x \in used' : \E y \in Handles : word'[y] = x
    BY <1>1, <2>1, <2>4, <2>5 DEF WindowInv, WindowsTyped
  <2>8. \A x \in Handles : state'[x] = "live" /\ owner'[x] # Null => state'[owner'[x]] = "live"
    BY <2>2, <2>4, <2>5 DEF WindowInv, WindowsTyped
  <2> QED
    BY <2>1, <2>3, <2>4, <2>5, <2>6, <2>7, <2>8 DEF WindowInv
<1>3. CASE Data!window_create_fails(w, p)
  <2>1. /\ state[w] = "none" /\ state' = [state EXCEPT ![w] = "dead"]
        /\ UNCHANGED <<owner, word, used, puserdata, stored>>
    BY <1>3 DEF Data!window_create_fails
  <2> QED
    BY <2>1 DEF WindowInv, WindowsTyped
<1> QED
  BY <1>2, <1>3

(* A slot is written in the block of its own window only.                  *)
LEMMA SetUserdataKeeps ==
  ASSUME WindowInv, NEW w \in Handles, NEW slot, NEW v \in Values, Data!set_userdata(w, slot, v)
  PROVE  WindowInv'
<1>1. UNCHANGED <<state, owner, word, used>>
  BY DEF Data!set_userdata
<1>2. CASE slot \in Data!Slots /\ word[w] # Null
  <2>1. /\ puserdata' = [puserdata EXCEPT ![word[w]][slot] = v]
        /\ stored' = [stored EXCEPT ![w][slot] = v]
    BY <1>2 DEF Data!set_userdata, Data!window_data
  <2>2. state[w] = "live" /\ word[w] \in Blocks
    BY <1>2 DEF WindowInv, WindowsTyped
  <2>3. WindowsTyped'
    BY <1>1, <1>2, <2>1, <2>2 DEF WindowInv, WindowsTyped
  <2>4. ASSUME NEW x \in Handles, NEW s \in Data!Slots, stored'[x][s] # Unset
        PROVE  state[x] = "live" /\ puserdata'[word[x]][s] = stored'[x][s]
    <3>1. CASE x = w /\ s = slot
      BY <1>2, <2>1, <2>2, <3>1 DEF WindowInv, WindowsTyped
    <3>2. CASE x = w /\ s # slot
      BY <1>2, <2>1, <2>2, <2>4, <3>2 DEF WindowInv, WindowsTyped
    <3>3. CASE x # w
      <4>1. stored'[x] = stored[x]
        BY <2>1, <3>3 DEF WindowInv, WindowsTyped
      <4>2. state[x] = "live" /\ word[x] # word[w] /\ word[x] \in Blocks
        BY <1>2, <2>4, <3>3, <4>1 DEF WindowInv, WindowsTyped
      <4>3. puserdata'[word[x]] = puserdata[word[x]]
        BY <2>1, <4>2 DEF WindowInv, WindowsTyped
      <4> QED
        BY <2>4, <4>1, <4>2, <4>3 DEF WindowInv
    <3> QED
      BY <3>1, <3>2, <3>3
  <2> QED
    BY <1>1, <2>3, <2>4 DEF WindowInv
<1>3. CASE ~(slot \in Data!Slots /\ word[w] # Null)
  <2>1. UNCHANGED <<puserdata, stored>>
    BY <1>3 DEF Data!set_userdata, Data!window_data
  <2> QED
    BY <1>1, <2>1 DEF WindowInv, WindowsTyped
<1> QED
  BY <1>2, <1>3

(* With a window die those it owns, so the owner of one that lives on does *)
(* so too, and the data of each that dies is freed and of no other.        *)
LEMMA KillKeeps ==
  ASSUME WindowInv, NEW w \in Handles, Data!kill(w)
  PROVE  WindowInv'
<1> DEFINE dying == Data!Owned(w)
<1>1. /\ state[w] = "live"
      /\ state' = [x \in Handles |-> IF x \in dying THEN "dead" ELSE state[x]]
      /\ used' = used \ {word[x] : x \in dying}
      /\ word' = [x \in Handles |-> IF x \in dying THEN Null ELSE word[x]]
      /\ stored' = [x \in Handles |-> IF x \in dying THEN Data!NoValues ELSE stored[x]]
      /\ owner' = owner /\ puserdata' = puserdata
  BY DEF Data!kill, Data!Live, Data!WM_DESTROY, Data!window_data
<1>2. /\ dying \subseteq Handles
      /\ \A x \in dying : state[x] = "live"
      /\ \A x \in Handles : state[x] = "live" /\ owner[x] \in dying => x \in dying
  BY <1>1, OwnedClosed DEF Data!Live
<1>3. Null \notin Blocks
  BY RestAssumption
<1> HIDE DEF dying
<1>4. WindowsTyped'
  BY <1>1 DEF WindowInv, WindowsTyped, Data!NoValues
<1>5. \A x \in Handles : IF state'[x] = "live" THEN word'[x] \in used' ELSE word'[x] = Null
  <2> SUFFICES ASSUME NEW x \in Handles, x \notin dying, state[x] = "live" PROVE word[x] \in used'
    BY <1>1 DEF WindowInv
  <2>1. word[x] \in used /\ word[x] # Null
    BY <1>3 DEF WindowInv, WindowsTyped
  <2>2. \A y \in dying : word[y] # word[x]
    BY <1>2, <2>1 DEF WindowInv
  <2> QED
    BY <1>1, <2>1, <2>2
<1>6. \A b \in used' : \E x \in Handles : word'[x] = b
  <2> SUFFICES ASSUME NEW b \in used' PROVE \E x \in Handles : word'[x] = b
    OBVIOUS
  <2>1. PICK x \in Handles : word[x] = b
    BY <1>1 DEF WindowInv
  <2>2. x \notin dying
    BY <1>1, <2>1
  <2> QED
    BY <1>1, <2>1, <2>2
<1>7. \A x, y \in Handles : word'[x] = word'[y] /\ word'[x] # Null => x = y
  BY <1>1 DEF WindowInv
<1>8. \A x \in Handles : state'[x] = "live" /\ owner'[x] # Null => state'[owner'[x]] = "live"
  BY <1>1, <1>2 DEF WindowInv, WindowsTyped
<1>9. \A x \in Handles, s \in Data!Slots :
        stored'[x][s] # Unset => state'[x] = "live" /\ puserdata'[word'[x]][s] = stored'[x][s]
  BY <1>1 DEF WindowInv, Data!NoValues
<1> QED
  BY <1>4, <1>5, <1>6, <1>7, <1>8, <1>9 DEF WindowInv

(* Whatever windows own one another, die together or cannot be created,    *)
(* and whoever uses their handles afterwards: each has data of its own as  *)
(* long as it lives, and none is left behind.                              *)
THEOREM WindowsKeepData == PartSpec => []WindowsOwnData
<1>1. PartInit => WindowInv
  BY InitWindows DEF PartInit
<1>2. WindowInv /\ [PartNext]_<<part, vars, libraryVars, windowVars, desktopVars, dlVars>> => WindowInv'
  <2> SUFFICES ASSUME WindowInv, Data!Next \/ UNCHANGED windowVars PROVE WindowInv'
    BY DEF PartNext
  <2>1. CASE UNCHANGED windowVars
    BY <2>1 DEF windowVars, WindowInv, WindowsTyped
  <2> QED
    BY <2>1, CreateKeeps, SetUserdataKeeps, KillKeeps DEF Data!Next
<1> QED
  BY <1>1, <1>2, WindowsAreWhole, PTL DEF PartSpec
-----------------------------------------------------------------------------
(***************************************************************************)
(* The desktop.  A block has one place: it is being filled, the clipboard  *)
(* has it, or it was refused.                                              *)
(***************************************************************************)

DesktopTyped ==
  /\ deskPc \in {"client", "set_open", "set", "get", "type", "confine"}
  /\ hmem \in Blocks \cup {Null} /\ mem \subseteq Blocks /\ refused \subseteq Blocks
  /\ text \in [Blocks -> Texts \cup {Null}]
  /\ board \in Blocks \cup {Foreign, Image, Null}
  /\ opener \in {"us", "other", Null}
  /\ mode \in [infinite : BOOLEAN, center : Files \cup {Null}]
  /\ clip \in Files \cup {Null} /\ foreground \in Files \cup {Null}
  /\ show \in -MaxShow .. MaxShow

ClipboardInv ==
  /\ opener = "us" <=> deskPc \in {"set", "get", "type"}
  /\ \A b \in Blocks : b \in mem <=> b = board \/ b = hmem \/ b \in refused
  /\ board \in Blocks => board # hmem /\ board \notin refused
  /\ IF deskPc \in {"set_open", "set"} THEN hmem \in Blocks /\ hmem \notin refused ELSE hmem = Null

CursorInv ==
  /\ clip # Null => mode.infinite /\ (deskPc # "confine" => mode.center \in {clip, Null})
  /\ deskPc = "confine" => arg \in Files /\ mode.infinite /\ mode.center = Null

DesktopInv == DesktopTyped /\ ClipboardInv /\ CursorInv

LEMMA DesktopIsWhole ==
  ASSUME DesktopInv
  PROVE  DesktopGivenBack
<1>1. Null \notin Blocks
  BY RestAssumption
<1>2. mem = (({board, hmem} \cap Blocks) \cup refused)
  BY <1>1 DEF DesktopInv, DesktopTyped, ClipboardInv
<1> QED
  BY <1>2 DEF DesktopInv, DesktopTyped, ClipboardInv, CursorInv, DesktopGivenBack,
              Desk!DesktopGivenBack, Desk!TypeOK

LEMMA InitDesktop == Desk!Init => DesktopInv
<1>1. Null \notin Blocks /\ Null # "us" /\ Foreign \notin Blocks /\ Image \notin Blocks /\ MaxShow \in Nat
  BY RestAssumption
<1> QED
  BY <1>1 DEF Desk!Init, DesktopInv, DesktopTyped, ClipboardInv, CursorInv

LEMMA ClipboardKeeps ==
  ASSUME DesktopInv, Desk!Clipboard
  PROVE  DesktopInv'
<1>1. Null \notin Blocks /\ Null \notin {"us", "other"} /\ Foreign \notin Blocks /\ Image \notin Blocks
  BY RestAssumption
<1> USE DEF DesktopInv, DesktopTyped, ClipboardInv, CursorInv, Desk!Go, Desk!cursorVars
<1>2. ASSUME NEW t \in Texts, Desk!SetAlloc(t) PROVE DesktopInv'
  BY <1>1, <1>2 DEF Desk!SetAlloc
<1>3. CASE Desk!SetOpen
  <2>1. deskPc = "set_open" /\ UNCHANGED <<text, board, refused, mode, clip, foreground, show>>
    BY <1>3 DEF Desk!SetOpen
  <2>2. CASE opener = Null /\ opener' = "us" /\ deskPc' = "set" /\ UNCHANGED <<arg, hmem, mem>>
    BY <1>1, <2>1, <2>2
  <2>3. CASE opener # Null /\ opener' = opener /\ deskPc' = "client" /\ hmem' = Null /\ mem' = mem \ {hmem}
    BY <1>1, <2>1, <2>3
  <2> QED
    BY <1>3, <2>2, <2>3 DEF Desk!SetOpen
<1>4. CASE Desk!SetReturn
  <2>1. /\ deskPc = "set" /\ deskPc' = "client" /\ opener' = Null /\ hmem' = Null /\ mem' = mem \ {board}
        /\ UNCHANGED <<text, mode, clip, foreground, show>>
        /\ \/ board' = hmem /\ refused' = refused
           \/ board' = Null /\ refused' = refused \cup {hmem}
    BY <1>4 DEF Desk!SetReturn
  <2>2. hmem \in Blocks /\ hmem \notin refused /\ hmem # board /\ hmem \in mem
    BY <2>1
  <2>3. DesktopTyped' /\ CursorInv'
    BY <2>1, <2>2
  <2>4. \A b \in Blocks : b \in mem' <=> b = board' \/ b \in refused'
    BY <1>1, <2>1, <2>2
  <2> QED
    BY <1>1, <2>1, <2>2, <2>3, <2>4
<1>5. ASSUME NEW call \in {"get", "type"}, Desk!Get(call) PROVE DesktopInv'
  BY <1>1, <1>5 DEF Desk!Get
<1>6. CASE Desk!GetText \/ Desk!GetType
  <2>1. /\ deskPc \in {"get", "type"} /\ deskPc' = "client" /\ opener' = Null
        /\ UNCHANGED <<hmem, text, mem, board, refused, mode, clip, foreground, show>>
    BY <1>6 DEF Desk!GetText, Desk!GetType
  <2> QED
    BY <1>1, <2>1
<1>7. CASE Desk!OtherOpens \/ Desk!OtherCloses
  BY <1>1, <1>7 DEF Desk!OtherOpens, Desk!OtherCloses
<1> QED
  BY <1>2, <1>3, <1>4, <1>5, <1>6, <1>7 DEF Desk!Clipboard

LEMMA CursorKeeps ==
  ASSUME DesktopInv, Desk!Cursor
  PROVE  DesktopInv'
<1>1. Null \notin Files /\ Null \notin Blocks
  BY RestAssumption
<1> USE DEF DesktopInv, DesktopTyped, ClipboardInv, CursorInv, Desk!Go, Desk!boardVars,
            Desk!ShowCursor
<1>2. CASE Desk!Confine
  BY <1>1, <1>2 DEF Desk!Confine
<1>3. CASE deskPc = "client" /\ Desk!set_cursor_infinite
  BY <1>1, <1>3 DEF Desk!set_cursor_infinite
<1>4. CASE deskPc = "client" /\ Desk!set_cursor_none
  BY <1>1, <1>4 DEF Desk!set_cursor_none
<1>5. ASSUME NEW on \in BOOLEAN, deskPc = "client", Desk!show_cursor(on) PROVE DesktopInv'
  BY <1>1, <1>5 DEF Desk!show_cursor
<1>6. CASE Desk!Switch
  BY <1>1, <1>6 DEF Desk!Switch
<1> QED
  BY <1>2, <1>3, <1>4, <1>5, <1>6 DEF Desk!Cursor

(* Whatever other programs do with the clipboard and the foreground        *)
(* between the steps of a call: the clipboard is not left open, no block   *)
(* of it is freed by the library or forgotten, and the cursor is confined  *)
(* in its infinite mode only, for all sets of blocks, texts and windows.   *)
THEOREM DesktopIsGivenBack == PartSpec => []DesktopGivenBack
<1>1. PartInit => DesktopInv
  BY InitDesktop DEF PartInit
<1>2. DesktopInv /\ [PartNext]_<<part, vars, libraryVars, windowVars, desktopVars, dlVars>> => DesktopInv'
  <2> SUFFICES ASSUME DesktopInv, Desk!Clipboard \/ Desk!Cursor \/ UNCHANGED desktopVars
               PROVE  DesktopInv'
    BY DEF PartNext
  <2>1. CASE UNCHANGED desktopVars
    BY <2>1 DEF desktopVars, DesktopInv, DesktopTyped, ClipboardInv, CursorInv
  <2> QED
    BY <2>1, ClipboardKeeps, CursorKeeps
<1> QED
  BY <1>1, <1>2, DesktopIsWhole, PTL DEF PartSpec
-----------------------------------------------------------------------------
(***************************************************************************)
(* Dynamic libraries.  Every load of a library has a handle, or is lost.   *)
(***************************************************************************)

Refer(f) == Dl!Refer(f)

DlTyped ==
  /\ count \in [Files -> 0 .. MaxCount]
  /\ punused \in [Handles -> Files \cup {Null}]
  /\ symbols \in [Handles -> SUBSET Exported] /\ procs \subseteq Exported
  /\ loads \in [Files -> Nat]

\* What sys_dlloadproc() loads is never unloaded.
DlInv ==
  /\ DlTyped
  /\ \A f \in Files : count[f] = Cardinality(Refer(f)) + loads[f]
  /\ \A h \in Handles : \A p \in symbols[h] : p.file = punused[h] /\ punused[h] # Null
  /\ \A p \in procs : p.file \in Files /\ loads[p.file] > 0

LEMMA ReferFinite ==
  \A f \in Files : IsFiniteSet(Refer(f)) /\ Cardinality(Refer(f)) \in Nat
<1>1. \A f \in Files : Refer(f) \subseteq Handles
  BY DEF Refer, Dl!Refer
<1> QED
  BY <1>1, RestAssumption, FS_Subset, FS_CardinalityType

LEMMA DlIsCallable ==
  ASSUME DlInv
  PROVE  ProcsCallable
<1>1. \A f \in Files : loads[f] \in 0 .. MaxCount
  BY ReferFinite, RestAssumption DEF DlInv, DlTyped
<1>2. loads \in [Files -> 0 .. MaxCount]
  BY <1>1 DEF DlInv, DlTyped
<1>3. ASSUME NEW h \in Handles, NEW p \in symbols[h] PROVE p.file \in Files /\ count[p.file] > 0
  <2>1. p.file \in Files /\ h \in Refer(p.file)
    BY <1>3 DEF DlInv, DlTyped, Refer, Dl!Refer
  <2>2. Cardinality(Refer(p.file)) # 0
    BY <2>1, ReferFinite, FS_EmptySet
  <2> QED
    BY <2>1, <2>2, ReferFinite DEF DlInv, DlTyped
<1>4. ASSUME NEW p \in procs PROVE count[p.file] > 0
  BY <1>4, ReferFinite DEF DlInv, DlTyped
<1>5. \A f \in Files : Dl!Cardinality(Dl!Refer(f)) = Cardinality(Refer(f))
  BY DEF Refer, Dl!Cardinality, Cardinality, Dl!IsFiniteSet, IsFiniteSet
<1>6. Dl!TypeOK
  BY <1>2 DEF DlInv, DlTyped, Dl!TypeOK
<1>7. /\ \A f \in Files : count[f] = Dl!Cardinality(Dl!Refer(f)) + loads[f]
      /\ \A h \in Handles : \A p \in symbols[h] : p.file = punused[h]
  BY <1>5 DEF DlInv
<1>8. \A p \in procs \cup UNION {symbols[h] : h \in Handles} : count[p.file] > 0
  BY <1>3, <1>4
<1> QED
  BY <1>6, <1>7, <1>8 DEF ProcsCallable, Dl!ProcsCallable

LEMMA InitDl == Dl!Init => DlInv
<1> SUFFICES ASSUME Dl!Init PROVE DlInv
  OBVIOUS
<1>1. DlTyped
  BY RestAssumption DEF Dl!Init, DlTyped
<1>2. \A f \in Files : Refer(f) = {}
  BY RestAssumption DEF Dl!Init, Refer, Dl!Refer
<1>3. \A f \in Files : count[f] = Cardinality(Refer(f)) + loads[f]
  BY <1>2, FS_EmptySet DEF Dl!Init
<1> QED
  BY <1>1, <1>3 DEF Dl!Init, DlInv

(* How many handles a library has when one of them is made to refer to     *)
(* another or to none.                                                     *)
LEMMA HandleMoves ==
  ASSUME DlInv, NEW h \in Handles, NEW g \in Files \cup {Null},
         punused' = [punused EXCEPT ![h] = g]
  PROVE  \A f \in Files :
           Cardinality(Refer(f)') = Cardinality(Refer(f)) - (IF punused[h] = f THEN 1 ELSE 0)
                                                          + (IF g = f THEN 1 ELSE 0)
<1> SUFFICES ASSUME NEW f \in Files
             PROVE  Cardinality(Refer(f)') = Cardinality(Refer(f)) - (IF punused[h] = f THEN 1 ELSE 0)
                                                                   + (IF g = f THEN 1 ELSE 0)
  OBVIOUS
<1> DEFINE R == Refer(f)
<1>1. IsFiniteSet(R) /\ Cardinality(R) \in Nat
  BY ReferFinite
<1>2. h \in R <=> punused[h] = f
  BY DEF Refer, Dl!Refer
<1>3. Refer(f)' = IF g = f THEN R \cup {h} ELSE R \ {h}
  BY DEF DlInv, DlTyped, Refer, Dl!Refer
<1> HIDE DEF R
<1>4. CASE g = f /\ h \in R
  <2>1. Refer(f)' = R
    BY <1>3, <1>4
  <2> QED
    BY <1>1, <1>2, <1>4, <2>1 DEF R
<1>5. CASE g = f /\ h \notin R
  <2>1. Cardinality(R \cup {h}) = Cardinality(R) + 1
    BY <1>1, <1>5, FS_AddElement
  <2>2. Cardinality(Refer(f)') = Cardinality(R) + 1 /\ punused[h] # f
    BY <1>2, <1>3, <1>5, <2>1
  <2> QED
    BY <1>1, <1>5, <2>2 DEF R
<1>6. CASE g # f /\ h \in R
  <2>1. Cardinality(R \ {h}) = Cardinality(R) - 1
    BY <1>1, <1>6, FS_RemoveElement
  <2>2. Cardinality(Refer(f)') = Cardinality(R) - 1 /\ punused[h] = f
    BY <1>2, <1>3, <1>6, <2>1
  <2> QED
    BY <1>1, <1>6, <2>2 DEF R
<1>7. CASE g # f /\ h \notin R
  <2>1. Refer(f)' = R
    BY <1>3, <1>7
  <2> QED
    BY <1>1, <1>2, <1>7, <2>1 DEF R
<1> QED
  BY <1>4, <1>5, <1>6, <1>7

LEMMA OpenKeeps ==
  ASSUME DlInv, NEW h \in Handles, NEW f \in Files, Dl!dlopen(h, f)
  PROVE  DlInv'
<1>1. Null \notin Files /\ MaxCount \in Nat
  BY RestAssumption
<1>2. PICK g \in Files \cup {Null} :
        /\ g = f \/ g = Null
        /\ punused' = [punused EXCEPT ![h] = g]
        /\ count' = Dl!Plus(count, g)
        /\ g = f => count[f] < MaxCount
  BY <1>1 DEF Dl!dlopen, Dl!LoadLibrary, Dl!Plus
<1>3. /\ loads' = Dl!Plus(loads, punused[h])
      /\ symbols' = [symbols EXCEPT ![h] = {}] /\ procs' = procs
  BY DEF Dl!dlopen
<1>4. /\ \A x \in Files : count'[x] = count[x] + (IF g = x THEN 1 ELSE 0)
      /\ \A x \in Files : loads'[x] = loads[x] + (IF punused[h] = x THEN 1 ELSE 0)
  BY <1>1, <1>2, <1>3 DEF DlInv, DlTyped, Dl!Plus
<1>5. DlTyped'
  BY <1>1, <1>2, <1>3 DEF DlInv, DlTyped, Dl!Plus
<1>6. \A x \in Files : count'[x] = Cardinality(Refer(x)') + loads'[x]
  <2>1. \A x \in Files :
          Cardinality(Refer(x)') = Cardinality(Refer(x)) - (IF punused[h] = x THEN 1 ELSE 0)
                                                         + (IF g = x THEN 1 ELSE 0)
    BY <1>2, HandleMoves
  <2>2. \A x \in Files : count[x] = Cardinality(Refer(x)) + loads[x] /\ loads[x] \in Nat
    BY DEF DlInv, DlTyped
  <2> QED
    BY <1>4, <2>1, <2>2, ReferFinite
<1>7. \A u \in Handles : \A p \in symbols'[u] : p.file = punused'[u] /\ punused'[u] # Null
  BY <1>2, <1>3 DEF DlInv, DlTyped
<1>8. \A p \in procs' : p.file \in Files /\ loads'[p.file] > 0
  BY <1>3, <1>4 DEF DlInv, DlTyped
<1> QED
  BY <1>5, <1>6, <1>7, <1>8 DEF DlInv

LEMMA CloseKeeps ==
  ASSUME DlInv, NEW h \in Handles, Dl!dlclose(h)
  PROVE  DlInv'
<1>1. Null \notin Files /\ MaxCount \in Nat
  BY RestAssumption
<1>2. /\ punused[h] \in Files
      /\ punused' = [punused EXCEPT ![h] = Null]
      /\ count' = [count EXCEPT ![punused[h]] = count[punused[h]] - 1]
      /\ symbols' = [symbols EXCEPT ![h] = {}] /\ procs' = procs /\ loads' = loads
  BY DEF Dl!dlclose, DlInv, DlTyped
<1>3. \A x \in Files : count'[x] = count[x] - (IF punused[h] = x THEN 1 ELSE 0)
  BY <1>2 DEF DlInv, DlTyped
<1>4. \A x \in Files : Cardinality(Refer(x)') = Cardinality(Refer(x)) - (IF punused[h] = x THEN 1 ELSE 0)
  <2>1. \A x \in Files :
          Cardinality(Refer(x)') = Cardinality(Refer(x)) - (IF punused[h] = x THEN 1 ELSE 0)
                                                         + (IF Null = x THEN 1 ELSE 0)
    BY <1>2, HandleMoves
  <2> QED
    BY <1>1, <2>1, ReferFinite
<1>5. h \in Refer(punused[h]) /\ Cardinality(Refer(punused[h])) # 0
  BY <1>2, ReferFinite, FS_EmptySet DEF Refer, Dl!Refer
<1>6. count[punused[h]] \in 1 .. MaxCount
  BY <1>2, <1>5, ReferFinite DEF DlInv, DlTyped
<1>7. DlTyped'
  BY <1>1, <1>2, <1>6 DEF DlInv, DlTyped
<1>8. \A x \in Files : count'[x] = Cardinality(Refer(x)') + loads'[x]
  BY <1>2, <1>3, <1>4, ReferFinite DEF DlInv, DlTyped
<1>9. \A u \in Handles : \A p \in symbols'[u] : p.file = punused'[u] /\ punused'[u] # Null
  BY <1>2 DEF DlInv, DlTyped
<1> QED
  BY <1>2, <1>7, <1>8, <1>9 DEF DlInv

(* A symbol that is found is one of the library that was asked.            *)
LEMMA AskKeeps ==
  ASSUME DlInv, NEW h \in Handles, NEW name, Dl!dlsym(h, name)
  PROVE  DlInv'
<1> DEFINE found == Dl!GetProcAddress(punused[h], name)
<1>1. /\ punused[h] # Null /\ symbols' = [symbols EXCEPT ![h] = symbols[h] \cup found]
      /\ UNCHANGED <<count, punused, procs, loads>>
  BY DEF Dl!dlsym
<1>2. found \subseteq Exported /\ \A p \in found : p.file = punused[h]
  BY DEF Dl!GetProcAddress
<1> HIDE DEF found
<1>3. \A x \in Files : Refer(x)' = Refer(x)
  BY <1>1 DEF Refer, Dl!Refer
<1> QED
  BY <1>1, <1>2, <1>3 DEF DlInv, DlTyped

LEMMA LoadProcKeeps ==
  ASSUME DlInv, NEW f \in Files, NEW name, Dl!dlloadproc(f, name)
  PROVE  DlInv'
<1> DEFINE found == Dl!GetProcAddress(f, name)
<1>1. Null \notin Files /\ MaxCount \in Nat
  BY RestAssumption
<1>2. /\ count[f] < MaxCount /\ count' = [count EXCEPT ![f] = count[f] + 1]
      /\ loads' = [loads EXCEPT ![f] = loads[f] + 1]
      /\ procs' = procs \cup found
      /\ UNCHANGED <<punused, symbols>>
  BY <1>1 DEF Dl!dlloadproc, Dl!LoadLibrary, Dl!Plus
<1>3. found \subseteq Exported /\ \A p \in found : p.file = f
  BY DEF Dl!GetProcAddress
<1> HIDE DEF found
<1>4. \A x \in Files : Refer(x)' = Refer(x)
  BY <1>2 DEF Refer, Dl!Refer
<1>5. DlTyped'
  BY <1>1, <1>2, <1>3 DEF DlInv, DlTyped
<1>6. \A x \in Files : count'[x] = Cardinality(Refer(x)') + loads'[x]
  BY <1>2, <1>4, ReferFinite DEF DlInv, DlTyped
<1>7. \A p \in procs' : p.file \in Files /\ loads'[p.file] > 0
  BY <1>2, <1>3 DEF DlInv, DlTyped
<1> QED
  BY <1>2, <1>5, <1>6, <1>7 DEF DlInv

(* A symbol can be called as long as the handle that gave it is open, and  *)
(* one of sys_dlloadproc() for ever, in every order of opening over,       *)
(* closing twice and asking, for all sets of libraries and handles.        *)
THEOREM SymbolsCallable == PartSpec => []ProcsCallable
<1>1. PartInit => DlInv
  BY InitDl DEF PartInit
<1>2. DlInv /\ [PartNext]_<<part, vars, libraryVars, windowVars, desktopVars, dlVars>> => DlInv'
  <2> SUFFICES ASSUME DlInv, Dl!Next \/ UNCHANGED dlVars PROVE DlInv'
    BY DEF PartNext
  <2>1. CASE UNCHANGED dlVars
    BY <2>1 DEF dlVars, DlInv, DlTyped, Refer, Dl!Refer
  <2> QED
    BY <2>1, OpenKeeps, CloseKeeps, AskKeeps, LoadProcKeeps DEF Dl!Next
<1> QED
  BY <1>1, <1>2, DlIsCallable, PTL DEF PartSpec
-----------------------------------------------------------------------------
(***************************************************************************)
(* The events: whatever the window procedure and the other threads do, the *)
(* ring with its mutex is a bounded queue.                                 *)
(***************************************************************************)

Slots == 0 .. Size - 1
Elements == Events \cup {None}

\* The call of sysui_push_event() of t is between lock and unlock.
Inside(t) == push[t] # None /\ push[t].next # None

Typed ==
  /\ queue \in [Slots -> Elements]
  /\ head \in Slots /\ tail \in Slots
  /\ push \in [Threads -> [ev : Events, next : Slots \cup {None}] \cup {None}]
  /\ win \in [Windows -> [state : {"none", "live", "dead"}, sizemove : BOOLEAN, size : Sizes]]

\* Who is inside has the mutex, and what it has read of the ring is still so.
Exclusive ==
  /\ \A t \in Threads : Inside(t) => mutex = t /\ push[t].next = (tail + 1) % Size
  /\ ui = "take" => mutex = UI /\ push[UI] = None

IInv == Typed /\ Exclusive
-----------------------------------------------------------------------------
(* The remainders that the ring uses.                                      *)
LEMMA Around ==
  ASSUME NEW i \in Nat, i < Size + Size
  PROVE  i % Size = IF i < Size THEN i ELSE i - Size
<1> DEFINE a == i \div Size
           r == i % Size
<1>1. /\ a \in Int /\ r \in Slots
      /\ Size \in Nat /\ Size > 0
      /\ i = Size * a + r
  BY SysEventsAssumption DEF Slots
<1>2. a = 0 \/ a = 1
  <2>1. ASSUME a >= 2 PROVE FALSE
    <3>1. Size * a >= Size * 2
      BY <1>1, <2>1
    <3> QED
      BY <1>1, <2>1, <3>1 DEF Slots
  <2>2. ASSUME a <= -1 PROVE FALSE
    <3>1. Size * a <= Size * (-1)
      BY <1>1, <2>2
    <3> QED
      BY <1>1, <2>2, <3>1 DEF Slots
  <2> QED
    BY <1>1, <2>1, <2>2
<1>3. CASE a = 0
  BY <1>1, <1>3 DEF Slots
<1>4. CASE a = 1
  BY <1>1, <1>4 DEF Slots
<1> QED
  BY <1>2, <1>3, <1>4

LEMMA Following ==
  ASSUME NEW i \in Slots
  PROVE  /\ (i + 1) % Size = IF i = Size - 1 THEN 0 ELSE i + 1
         /\ (i + 1) % Size \in Slots
<1>1. Size \in Nat /\ Size > 0 /\ i \in Nat /\ i < Size /\ i + 1 < Size + Size
  BY SysEventsAssumption DEF Slots
<1>2. (i + 1) % Size = IF i + 1 < Size THEN i + 1 ELSE i + 1 - Size
  BY <1>1, Around
<1> QED
  BY <1>1, <1>2 DEF Slots
-----------------------------------------------------------------------------
(* The invariant holds where initialize_sysui() ends.                      *)
LEMMA InitHolds == Init => IInv
<1> SUFFICES ASSUME Init PROVE IInv
  OBVIOUS
<1>1. Size \in Nat /\ Size > 0 /\ (CHOOSE s \in Sizes : TRUE) \in Sizes
  BY SysEventsAssumption
<1>2. Typed
  BY <1>1 DEF Init, Typed, Slots, Elements
<1>3. Exclusive
  BY DEF Init, Exclusive, Inside
<1> QED
  BY <1>2, <1>3 DEF IInv

\* The steps that leave the ring to the others: what they may change.
Outside ==
  /\ UNCHANGED <<queue, head, tail, mutex>>
  /\ win' \in [Windows -> [state : {"none", "live", "dead"}, sizemove : BOOLEAN, size : Sizes]]
  /\ ui' # "take" /\ ui # "take"
  /\ \/ push' = push
     \/ \E ev \in Events : push[UI] = None /\ push' = [push EXCEPT ![UI] = [ev |-> ev, next |-> None]]

\* The window procedure and the client's own steps.
UIStep ==
  \/ Call \/ PollEmpty \/ Ignored
  \/ \E w \in Windows :
       \/ \E s \in Sizes : window_create(w, s) \/ WM_SIZE(w, s)
       \/ kill(w)
       \/ WM_ENTERSIZEMOVE(w) \/ WM_EXITSIZEMOVE(w)
       \/ \E k \in Keys : WM_KEYDOWN(w, k) \/ WM_KEYUP(w, k)
       \/ \E evt \in {"SYSUI_EVENT_CLOSE", "other"} : PassOn(w, evt)

(* An event that a handler makes is one.                                   *)
LEMMA EventsAre ==
  ASSUME NEW w \in Windows
  PROVE  /\ [win |-> w, evt |-> "SYSUI_EVENT_DIE"] \in Events
         /\ \A s \in Sizes : [win |-> w, evt |-> "SYSUI_EVENT_RESIZE", size |-> s] \in Events
         /\ \A k \in Keys : /\ [win |-> w, evt |-> "SYSUI_EVENT_KEYDOWN", key |-> k] \in Events
                            /\ [win |-> w, evt |-> "SYSUI_EVENT_KEYUP", key |-> k] \in Events
         /\ \A evt \in {"SYSUI_EVENT_CLOSE", "other"} : [win |-> w, evt |-> evt] \in Events
BY DEF Events

LEMMA UIStaysOutside ==
  ASSUME Typed, UIStep
  PROVE  Outside
<1> USE DEF Typed, Outside, ring, Idle, Message, Start
<1>1. CASE Call \/ PollEmpty \/ Ignored
  BY <1>1 DEF Call, PollEmpty, Ignored
<1>2. ASSUME NEW w \in Windows, NEW s \in Sizes, window_create(w, s) \/ WM_SIZE(w, s) PROVE Outside
  <2>1. CASE window_create(w, s)
    BY <2>1 DEF window_create
  <2>2. CASE WM_SIZE(w, s)
    BY <2>2, EventsAre DEF WM_SIZE
  <2> QED
    BY <1>2, <2>1, <2>2
<1>3. ASSUME NEW w \in Windows, kill(w) PROVE Outside
  BY <1>3, EventsAre DEF kill
<1>4. ASSUME NEW w \in Windows, WM_ENTERSIZEMOVE(w) \/ WM_EXITSIZEMOVE(w) PROVE Outside
  <2>1. CASE WM_ENTERSIZEMOVE(w)
    BY <2>1 DEF WM_ENTERSIZEMOVE
  <2>2. CASE WM_EXITSIZEMOVE(w)
    <3>1. win[w].size \in Sizes
      OBVIOUS
    <3> QED
      BY <2>2, <3>1, EventsAre DEF WM_EXITSIZEMOVE
  <2> QED
    BY <1>4, <2>1, <2>2
<1>5. ASSUME NEW w \in Windows, NEW k \in Keys, WM_KEYDOWN(w, k) \/ WM_KEYUP(w, k) PROVE Outside
  BY <1>5, EventsAre DEF WM_KEYDOWN, WM_KEYUP
<1>6. ASSUME NEW w \in Windows, NEW evt \in {"SYSUI_EVENT_CLOSE", "other"}, PassOn(w, evt)
      PROVE  Outside
  BY <1>6, EventsAre DEF PassOn
<1> QED
  BY <1>1, <1>2, <1>3, <1>4, <1>5, <1>6 DEF UIStep

(* A step outside of the ring keeps the invariant.                         *)
LEMMA OutsideKeeps ==
  ASSUME IInv, Outside
  PROVE  IInv'
<1>1. UI \in Threads /\ None \in {None}
  BY DEF Threads
<1>2. Typed'
  <2>1. ASSUME NEW ev \in Events, push' = [push EXCEPT ![UI] = [ev |-> ev, next |-> None]]
        PROVE  push' \in [Threads -> [ev : Events, next : Slots \cup {None}] \cup {None}]
    BY <1>1, <2>1 DEF IInv, Typed
  <2> QED
    BY <2>1 DEF IInv, Typed, Outside
<1>3. Exclusive'
  <2>1. ASSUME NEW t \in Threads, Inside(t)' PROVE Inside(t) /\ push'[t] = push[t]
    <3>1. CASE push' = push
      BY <2>1, <3>1 DEF Inside
    <3>2. ASSUME NEW ev \in Events, push' = [push EXCEPT ![UI] = [ev |-> ev, next |-> None]]
          PROVE  Inside(t) /\ push'[t] = push[t]
      BY <1>1, <2>1, <3>2 DEF Inside, IInv, Typed
    <3> QED
      BY <3>1, <3>2 DEF Outside
  <2>2. ASSUME NEW t \in Threads, Inside(t)' PROVE mutex' = t /\ push'[t].next = (tail' + 1) % Size
    BY <2>1, <2>2 DEF Outside, IInv, Exclusive
  <2> QED
    BY <2>2 DEF Exclusive, Outside
<1> QED
  BY <1>2, <1>3 DEF IInv

LEMMA PostKeeps ==
  ASSUME IInv, NEW t \in Pushers, Post(t)
  PROVE  IInv'
<1> DEFINE ev == [win |-> None, evt |-> "other"]
<1>1. /\ push[t] = None /\ push' = [push EXCEPT ![t] = [ev |-> ev, next |-> None]]
      /\ queue' = queue /\ head' = head /\ tail' = tail /\ mutex' = mutex
      /\ win' = win /\ ui' = ui
  BY DEF Post, Start, ring
<1>2. ev \in Events /\ t \in Threads
  BY DEF Events, Threads
<1>3. Typed'
  BY <1>1, <1>2 DEF IInv, Typed
<1>4. ASSUME NEW u \in Threads, Inside(u)' PROVE Inside(u) /\ push'[u] = push[u]
  BY <1>1, <1>2, <1>4 DEF Inside, IInv, Typed
<1>5. ui = "take" => push'[UI] = None
  <2>1. UI \in Threads
    BY DEF Threads
  <2>2. t # UI
    BY SysEventsAssumption
  <2> QED
    BY <1>1, <1>2, <2>1, <2>2 DEF IInv, Typed, Exclusive
<1>6. Exclusive'
  BY <1>1, <1>4, <1>5 DEF IInv, Exclusive
<1> QED
  BY <1>3, <1>6 DEF IInv

LEMMA PushLockKeeps ==
  ASSUME IInv, NEW t \in Threads, PushLock(t)
  PROVE  IInv'
<1>1. /\ push[t] # None /\ push[t].next = None /\ mutex = None /\ mutex' = t
      /\ push' = [push EXCEPT ![t].next = (tail + 1) % Size]
      /\ queue' = queue /\ head' = head /\ tail' = tail /\ win' = win /\ ui' = ui
  BY DEF PushLock
<1>2. (tail + 1) % Size \in Slots
  BY Following DEF IInv, Typed
<1>3. Typed'
  BY <1>1, <1>2 DEF IInv, Typed
<1>4. None \notin Threads /\ UI \in Threads
  BY SysEventsAssumption DEF Threads
<1>5. ASSUME NEW u \in Threads, Inside(u)' PROVE mutex' = u /\ push'[u].next = (tail' + 1) % Size
  <2>1. CASE u = t
    BY <1>1, <2>1 DEF IInv, Typed
  <2>2. CASE u # t
    BY <1>1, <1>4, <1>5, <2>2 DEF IInv, Typed, Exclusive, Inside
  <2> QED
    BY <2>1, <2>2
<1>6. ui # "take"
  BY <1>1, <1>4 DEF IInv, Exclusive
<1> QED
  BY <1>1, <1>3, <1>5, <1>6 DEF IInv, Exclusive

LEMMA PushReturnKeeps ==
  ASSUME IInv, NEW t \in Threads, PushReturn(t)
  PROVE  IInv'
<1>1. Inside(t) /\ mutex = t /\ push[t].next = (tail + 1) % Size /\ push[t].next \in Slots
  <2>1. Inside(t) /\ push[t].next = (tail + 1) % Size /\ mutex = t
    BY DEF PushReturn, Inside, IInv, Exclusive
  <2> QED
    BY <2>1, Following DEF IInv, Typed
<1>2. /\ push' = [push EXCEPT ![t] = None] /\ mutex' = None /\ head' = head /\ ui' = ui
      /\ \/ queue' = queue /\ tail' = tail
         \/ queue' = [queue EXCEPT ![tail] = push[t].ev] /\ tail' = push[t].next
      /\ \/ win' = win
         \/ win' = [win EXCEPT ![push[t].ev.win].state = "dead"]
  BY DEF PushReturn
<1>3. push[t].ev \in Events
  BY <1>1 DEF Inside, IInv, Typed
<1>4. Typed'
  <2>1. queue' \in [Slots -> Elements] /\ tail' \in Slots
    BY <1>1, <1>2, <1>3 DEF IInv, Typed, Elements
  <2>2. win' \in [Windows -> [state : {"none", "live", "dead"}, sizemove : BOOLEAN, size : Sizes]]
    BY <1>2 DEF IInv, Typed
  <2> QED
    BY <1>2, <2>1, <2>2 DEF IInv, Typed
<1>5. ui # "take"
  BY <1>1 DEF IInv, Exclusive, Inside
<1>6. ASSUME NEW u \in Threads, Inside(u)' PROVE FALSE
  <2>1. u # t /\ push'[u] = push[u]
    BY <1>2, <1>6 DEF Inside, IInv, Typed
  <2>2. mutex = u
    BY <1>6, <2>1 DEF Inside, IInv, Exclusive
  <2> QED
    BY <1>1, <2>1, <2>2
<1> QED
  BY <1>2, <1>4, <1>5, <1>6 DEF IInv, Exclusive

LEMMA GetKeeps ==
  ASSUME IInv, GetLock \/ GetReturn
  PROVE  IInv'
<1>1. UI \in Threads /\ None \notin Threads
  BY SysEventsAssumption DEF Threads
<1>2. push' = push /\ tail' = tail /\ queue' = queue /\ win' = win
  BY DEF GetLock, GetReturn
<1>3. ASSUME NEW u \in Threads, Inside(u) PROVE FALSE
  <2>1. mutex = u
    BY <1>3 DEF IInv, Exclusive
  <2>2. CASE GetLock
    BY <1>1, <2>1, <2>2 DEF GetLock
  <2>3. CASE GetReturn
    BY <1>3, <2>1, <2>3 DEF GetReturn, IInv, Exclusive, Inside
  <2> QED
    BY <2>2, <2>3
<1>4. head' \in Slots
  BY Following DEF GetLock, GetReturn, IInv, Typed
<1>5. ui' = "take" => mutex' = UI /\ push'[UI] = None
  BY <1>2 DEF GetLock, GetReturn
<1>6. \A u \in Threads : ~ Inside(u)'
  BY <1>2, <1>3 DEF Inside
<1> QED
  BY <1>2, <1>4, <1>5, <1>6 DEF IInv, Typed, Exclusive

LEMMA NextKeeps ==
  ASSUME IInv, [Next]_vars
  PROVE  IInv'
<1>1. CASE UIStep
  BY <1>1, UIStaysOutside, OutsideKeeps DEF IInv
<1>2. CASE UNCHANGED vars
  BY <1>2 DEF vars, ring, IInv, Typed, Exclusive, Inside
<1> QED
  BY <1>1, <1>2, PostKeeps, PushLockKeeps, PushReturnKeeps, GetKeeps DEF Next, UIStep
-----------------------------------------------------------------------------
LEMMA FunctionIsSequence ==
  ASSUME NEW S, NEW n \in Nat, NEW f \in [1 .. n -> S]
  PROVE  f \in Seq(S) /\ Len(f) = n
<1>1. f \in Seq(S)
  BY SeqDef
<1>2. 1 .. Len(f) = 1 .. n /\ Len(f) \in Nat
  BY <1>1, LenProperties
<1> QED
  BY <1>1, <1>2

\* How many events a ring holds whose ends are h and t.
Between(h, t) == IF h <= t THEN t - h ELSE t - h + Size
Stored == Between(head, tail)

(* Where the i-th event of a ring that begins at h is.                     *)
LEMMA Place ==
  ASSUME NEW h \in Slots, NEW i \in 1 .. Size
  PROVE  /\ (h + i - 1) % Size = IF h + i - 1 < Size THEN h + i - 1 ELSE h + i - 1 - Size
         /\ (h + i - 1) % Size \in Slots
<1> DEFINE j == h + i - 1
<1>1. /\ Size \in Nat /\ h \in Int /\ 0 <= h /\ h < Size
      /\ i \in Int /\ 1 <= i /\ i <= Size
  BY SysEventsAssumption DEF Slots
<1>2. j \in Nat /\ j < Size + Size
  BY <1>1
<1>3. j % Size = IF j < Size THEN j ELSE j - Size
  <2> HIDE DEF j
  <2> QED
    BY <1>2, Around
<1> QED
  BY <1>1, <1>3 DEF Slots

LEMMA RingIsSequence ==
  ASSUME NEW p \in [Slots -> Elements], NEW h \in Slots, NEW t \in Slots
  PROVE  LET f == [i \in 1 .. (t - h + Size) % Size |-> p[(h + i - 1) % Size]]
         IN  /\ f \in Seq(Elements) /\ Len(f) = Between(h, t)
             /\ \A i \in 1 .. Between(h, t) : f[i] = p[(h + i - 1) % Size]
<1> DEFINE c == Between(h, t)
           j == t - h + Size
           f == [i \in 1 .. c |-> p[(h + i - 1) % Size]]
<1>1. /\ Size \in Nat /\ h \in Nat /\ h < Size /\ t \in Nat /\ t < Size
  BY SysEventsAssumption DEF Slots
<1>2. j \in Nat /\ j < Size + Size
  BY <1>1
<1>3. j % Size = IF j < Size THEN j ELSE j - Size
  <2> HIDE DEF j
  <2> QED
    BY <1>2, Around
<1>4. j % Size = c
  BY <1>1, <1>3 DEF Between
<1>5. c \in Nat /\ c < Size
  BY <1>1 DEF Between
<1>6. f \in [1 .. c -> Elements]
  <2>1. \A i \in 1 .. c : i \in 1 .. Size
    <3> HIDE DEF c
    <3> QED
      BY <1>1, <1>5
  <2> HIDE DEF c
  <2> QED
    BY <2>1, Place
<1>7. f \in Seq(Elements) /\ Len(f) = c
  <2> HIDE DEF f, c
  <2> QED
    BY <1>5, <1>6, FunctionIsSequence
<1>8. \A i \in 1 .. c : f[i] = p[(h + i - 1) % Size]
  <2> HIDE DEF c
  <2> QED
    OBVIOUS
<1> QED
  BY <1>4, <1>7, <1>8

(* The events from head to tail, in this state and in the next one.        *)
LEMMA PendingIs ==
  ASSUME Typed
  PROVE  /\ Pending \in Seq(Elements) /\ Len(Pending) = Stored
         /\ \A i \in 1 .. Stored : Pending[i] = queue[(head + i - 1) % Size]
<1>1. queue \in [Slots -> Elements] /\ head \in Slots /\ tail \in Slots
  BY DEF Typed
<1> QED
  BY <1>1, RingIsSequence DEF Pending, Stored

LEMMA PendingIsNext ==
  ASSUME Typed'
  PROVE  /\ Pending' \in Seq(Elements) /\ Len(Pending') = Stored'
         /\ \A i \in 1 .. Stored' : Pending'[i] = queue'[(head' + i - 1) % Size]
<1>1. queue' \in [Slots -> Elements] /\ head' \in Slots /\ tail' \in Slots
  BY DEF Typed
<1> QED
  BY <1>1, RingIsSequence DEF Pending, Stored

(* Two sequences of one length with the same elements are one.             *)
LEMMA SameSequence ==
  ASSUME NEW S, NEW a \in Seq(S), NEW b \in Seq(S), Len(a) = Len(b),
         \A i \in 1 .. Len(a) : a[i] = b[i]
  PROVE  a = b
BY SeqEqual

\* What is known of the ring in two states that follow one another.
Ready ==
  /\ Typed /\ Typed'
  /\ Size \in Nat /\ Size > 0
  /\ head \in Int /\ 0 <= head /\ head < Size /\ head' \in Int /\ 0 <= head' /\ head' < Size
  /\ tail \in Int /\ 0 <= tail /\ tail < Size /\ tail' \in Int /\ 0 <= tail' /\ tail' < Size

LEMMA ReadyHolds == ASSUME Typed, Typed' PROVE Ready
BY SysEventsAssumption DEF Typed, Slots, Ready

(* An event that finds room is put behind the others.                      *)
LEMMA PushIsPushBack ==
  ASSUME Ready, NEW ev \in Events, (tail + 1) % Size # head,
         queue' = [queue EXCEPT ![tail] = ev], tail' = (tail + 1) % Size,
         head' = head, got' = got
  PROVE  Fifo!PushBack(ev)
<1>1. tail' = IF tail = Size - 1 THEN 0 ELSE tail + 1
  BY Following DEF Ready, Typed
<1>2. /\ Stored \in Nat /\ Stored < Size - 1 /\ Stored' = Stored + 1
      /\ tail = IF head + Stored < Size THEN head + Stored ELSE head + Stored - Size
  BY <1>1 DEF Ready, Stored, Between
<1>3. ev \in Elements /\ tail \in Slots /\ head \in Slots
  BY DEF Elements, Ready, Typed
<1> DEFINE longer == Append(Pending, ev)
<1>4. /\ longer \in Seq(Elements) /\ Len(longer) = Stored + 1
      /\ Pending' \in Seq(Elements) /\ Len(Pending') = Stored + 1
  BY <1>2, <1>3, PendingIs, PendingIsNext, AppendProperties DEF Ready
<1>5. ASSUME NEW i \in 1 .. Stored + 1 PROVE Pending'[i] = longer[i]
  <2>1. /\ i \in 1 .. Size
        /\ i \in 1 .. Stored \/ i = Stored + 1
    BY <1>2 DEF Ready
  <2>2. /\ (head + i - 1) % Size = IF head + i - 1 < Size THEN head + i - 1 ELSE head + i - 1 - Size
        /\ (head + i - 1) % Size \in Slots
    BY <1>3, <2>1, Place
  <2>3. Pending'[i] = queue'[(head + i - 1) % Size]
    BY <1>2, PendingIsNext DEF Ready
  <2>4. CASE i \in 1 .. Stored
    <3>1. (head + i - 1) % Size # tail
      BY <1>2, <2>2, <2>4 DEF Ready
    <3>2. queue'[(head + i - 1) % Size] = queue[(head + i - 1) % Size]
      BY <2>2, <3>1 DEF Ready, Typed
    <3>3. longer[i] = Pending[i]
      BY <1>2, <1>3, <2>4, PendingIs, AppendProperties DEF Ready
    <3> QED
      BY <2>3, <2>4, <3>2, <3>3, PendingIs DEF Ready
  <2>5. CASE i = Stored + 1
    <3>1. (head + i - 1) % Size = tail
      BY <1>2, <2>2, <2>5 DEF Ready
    <3>2. queue'[tail] = ev
      BY <1>3 DEF Ready, Typed
    <3>3. longer[Stored + 1] = ev
      BY <1>3, PendingIs, AppendProperties DEF Ready
    <3> QED
      BY <2>3, <2>5, <3>1, <3>2, <3>3
  <2> QED
    BY <2>1, <2>4, <2>5
<1>6. Pending' = longer
  <2> HIDE DEF longer
  <2> QED
    BY <1>4, <1>5, SameSequence
<1>7. Len(Pending) < Size - 1
  BY <1>2, PendingIs DEF Ready
<1> QED
  BY <1>6, <1>7 DEF Fifo!PushBack

(* The event that is taken is the oldest.                                  *)
LEMMA TakeIsPopFront ==
  ASSUME Ready, head # tail, queue' = queue, tail' = tail,
         head' = (head + 1) % Size, got' = queue[head]
  PROVE  Fifo!PopFront(UI)
<1>1. head' = IF head = Size - 1 THEN 0 ELSE head + 1
  BY Following DEF Ready, Typed
<1>2. Stored \in Nat /\ 1 <= Stored /\ Stored < Size /\ Stored' = Stored - 1
  BY <1>1 DEF Ready, Stored, Between
<1>3. tail \in Slots /\ head \in Slots /\ head' \in Slots
  BY DEF Ready, Typed
<1>4. Pending \in Seq(Elements) /\ Pending # <<>> /\ Head(Pending) = queue[head]
  <2>1. 1 \in 1 .. Stored /\ 1 \in 1 .. Size
    BY <1>2 DEF Ready
  <2>2. (head + 1 - 1) % Size = head
    BY <1>3, <2>1, Place DEF Ready
  <2>3. Pending[1] = queue[(head + 1 - 1) % Size] /\ Pending \in Seq(Elements) /\ Len(Pending) >= 1
    BY <1>2, <2>1, PendingIs DEF Ready
  <2>4. Pending # <<>>
    BY <2>3, EmptySeq
  <2> QED
    BY <2>2, <2>3, <2>4
<1>5. /\ Tail(Pending) \in Seq(Elements) /\ Len(Tail(Pending)) = Stored - 1
      /\ \A i \in 1 .. Stored - 1 : Tail(Pending)[i] = Pending[i + 1]
  BY <1>2, <1>4, PendingIs, HeadTailProperties DEF Ready
<1>6. Pending' \in Seq(Elements) /\ Len(Pending') = Stored - 1
  BY <1>2, PendingIsNext DEF Ready
<1>7. ASSUME NEW i \in 1 .. Stored - 1 PROVE Pending'[i] = Pending[i + 1]
  <2>1. /\ i \in 1 .. Size /\ i + 1 \in 1 .. Size
        /\ i \in 1 .. Stored' /\ i + 1 \in 1 .. Stored
    BY <1>2 DEF Ready
  <2>2. (head' + i - 1) % Size = IF head' + i - 1 < Size THEN head' + i - 1 ELSE head' + i - 1 - Size
    BY <1>3, <2>1, Place
  <2>3. (head + (i + 1) - 1) % Size = IF head + (i + 1) - 1 < Size THEN head + (i + 1) - 1
                                      ELSE head + (i + 1) - 1 - Size
    BY <1>3, <2>1, Place
  <2>4. (head' + i - 1) % Size = (head + (i + 1) - 1) % Size
    BY <1>1, <2>1, <2>2, <2>3 DEF Ready
  <2>5. Pending'[i] = queue'[(head' + i - 1) % Size]
    BY <2>1, PendingIsNext DEF Ready
  <2>6. Pending[i + 1] = queue[(head + (i + 1) - 1) % Size]
    BY <2>1, PendingIs DEF Ready
  <2> QED
    BY <2>4, <2>5, <2>6
<1>8. Pending' = Tail(Pending)
  BY <1>5, <1>6, <1>7, SameSequence
<1>9. [t \in {UI} |-> got]' = [[t \in {UI} |-> got] EXCEPT ![UI] = Head(Pending)]
  BY <1>4
<1> QED
  BY <1>4, <1>8, <1>9 DEF Fifo!PopFront

\* what the bounded queue is made of
abstract == <<Pending, [t \in {UI} |-> got]>>

LEMMA StepRefines ==
  ASSUME IInv, IInv', [Next]_vars
  PROVE  [Fifo!Next]_abstract
<1>1. Ready
  BY ReadyHolds DEF IInv
<1>2. ASSUME queue' = queue, head' = head, tail' = tail, got' = got
      PROVE  UNCHANGED abstract
  BY <1>2 DEF abstract, Pending
<1>3. ASSUME NEW t \in Threads, PushReturn(t) PROVE [Fifo!Next]_abstract
  <2>1. push[t].next = (tail + 1) % Size /\ push[t].ev \in Events
    BY <1>3 DEF PushReturn, Inside, IInv, Exclusive, Typed
  <2>2. CASE Full(push[t].next)
    BY <1>2, <1>3, <2>2 DEF PushReturn, client
  <2>3. CASE ~ Full(push[t].next)
    <3>1. Fifo!PushBack(push[t].ev)
      BY <1>1, <1>3, <2>1, <2>3, PushIsPushBack DEF PushReturn, client, Full
    <3> QED
      BY <2>1, <3>1 DEF Fifo!Next
  <2> QED
    BY <2>2, <2>3
<1>4. CASE GetReturn
  <2>1. CASE head = tail
    <3>1. queue' = queue /\ head' = head /\ tail' = tail /\ got' = None
      BY <1>4, <2>1 DEF GetReturn
    <3>2. [t \in {UI} |-> got]' = [[t \in {UI} |-> got] EXCEPT ![UI] = None] /\ Pending' = Pending
      BY <3>1 DEF Pending
    <3>3. Fifo!Drop(UI)
      BY <3>2 DEF Fifo!Drop
    <3> QED
      BY <3>3 DEF Fifo!Next
  <2>2. CASE head # tail
    <3>1. Fifo!PopFront(UI)
      BY <1>1, <1>4, <2>2, TakeIsPopFront DEF GetReturn
    <3> QED
      BY <3>1 DEF Fifo!Next
  <2> QED
    BY <2>1, <2>2
<1>5. CASE UIStep
  <2>1. queue' = queue /\ head' = head /\ tail' = tail /\ got' = got
    BY <1>5 DEF UIStep, Call, PollEmpty, Ignored, window_create, WM_SIZE, kill, WM_ENTERSIZEMOVE,
                WM_EXITSIZEMOVE, WM_KEYDOWN, WM_KEYUP, PassOn, ring, client
  <2> QED
    BY <1>2, <2>1
<1>6. ASSUME NEW t \in Threads, PushLock(t) PROVE UNCHANGED abstract
  BY <1>2, <1>6 DEF PushLock, client
<1>7. ASSUME NEW t \in Pushers, Post(t) PROVE UNCHANGED abstract
  BY <1>2, <1>7 DEF Post, ring, client
<1>8. CASE GetLock
  BY <1>2, <1>8 DEF GetLock, client
<1>9. CASE UNCHANGED vars
  BY <1>2, <1>9 DEF vars
<1> QED
  BY <1>3, <1>4, <1>5, <1>6, <1>7, <1>8, <1>9 DEF Next, UIStep

(* Whatever the window procedure and the other threads put, and whoever    *)
(* waits for the mutex, sysui_push_event() and sysui_get_queue_event() are *)
(* one step each of a queue of Size - 1 events, for every size of the      *)
(* ring.                                                                   *)
THEOREM RingIsFifo == Spec => FifoSpec
<1>1. Init => Fifo!Init
  <2> SUFFICES ASSUME Init PROVE Fifo!Init
    OBVIOUS
  <2>1. Typed /\ Stored = 0
    BY InitHolds DEF Init, IInv, Stored, Between
  <2>2. Pending \in Seq(Elements) /\ Len(Pending) = 0
    BY <2>1, PendingIs
  <2> QED
    BY <2>2, EmptySeq DEF Init, Fifo!Init
<1>2. IInv /\ IInv' /\ [Next]_vars => [Fifo!Next]_abstract
  BY StepRefines
<1>3. Init => IInv
  BY InitHolds
<1>4. IInv /\ [Next]_vars => IInv'
  BY NextKeeps
<1> QED
  BY <1>1, <1>2, <1>3, <1>4, PTL DEF Spec, FifoSpec, Fifo!Spec, abstract
-----------------------------------------------------------------------------
(***************************************************************************)
(* What the events tell.  The events in the ring are a sequence, and what  *)
(* the client will know is what it knows with each of them applied.        *)
(***************************************************************************)

Knowledge == [keys : [Keys -> BOOLEAN], size : [Windows -> Sizes], dead : SUBSET Windows]

Pushing == push[UI] # None
Dead(w) == win[w].state = "dead"

EventsTyped ==
  /\ mutex \in Threads \cup {None}
  /\ ui \in {"client", "poll", "wait", "get", "take"} /\ modal \in BOOLEAN
  /\ keyarray \in [Keys -> BOOLEAN]
  /\ got \in Elements
  /\ lost \subseteq ({"size", "dead"} \X Windows) \cup ({"key"} \X Keys)
  /\ made \in 0 .. MaxEvents
  /\ seen \in Knowledge /\ Foreseen \in Knowledge
  /\ \A i \in 1 .. Len(Pending) : Pending[i] \in Events

\* Other threads push events of no window, the handler those of a live one.
Origins ==
  /\ \A t \in Pushers : push[t] # None => push[t].ev = [win |-> None, evt |-> "other"]
  /\ Pushing => push[UI].ev.win \in Windows /\ win[push[UI].ev.win].state = "live"
  /\ \A i \in 1 .. Len(Pending) : Pending[i].win \in Windows => win[Pending[i].win].state # "none"

\* The size and the keys agree with what was told last, or is being pushed.
SizeAgrees(w) ==
  win[w].state = "live" /\ ~win[w].sizemove =>
    IF Pushing /\ push[UI].ev.evt = "SYSUI_EVENT_RESIZE" /\ push[UI].ev.win = w
    THEN push[UI].ev.size = win[w].size
    ELSE <<"size", w>> \notin lost => Foreseen.size[w] = win[w].size
KeyAgrees(k) ==
  IF Pushing /\ push[UI].ev.evt \in {"SYSUI_EVENT_KEYDOWN", "SYSUI_EVENT_KEYUP"} /\ push[UI].ev.key = k
  THEN keyarray[k] = (push[UI].ev.evt = "SYSUI_EVENT_KEYDOWN")
  ELSE <<"key", k>> \notin lost => Foreseen.keys[k] = keyarray[k]
Agree == (\A w \in Windows : SizeAgrees(w)) /\ (\A k \in Keys : KeyAgrees(k))

\* A window is known to be dead after its last event only.
Last ==
  /\ \A w \in seen.dead \cup Foreseen.dead : Dead(w)
  /\ \A i \in 1 .. Len(Pending) : Pending[i].win \notin seen.dead
  /\ \A i \in 1 .. Len(Pending) : Pending[i].evt = "SYSUI_EVENT_DIE" => Dead(Pending[i].win)
  /\ \A i, j \in 1 .. Len(Pending) :
       i < j /\ Pending[i].evt = "SYSUI_EVENT_DIE" => Pending[j].win # Pending[i].win
  /\ \A w \in Windows : Dead(w) => (w \in Foreseen.dead <=> <<"dead", w>> \notin lost)

EventsInv == IInv /\ EventsTyped /\ Origins /\ Agree /\ Last

\* f applies the first n events of q to s, one after the other.
Applies(f, s, q, n) == f = [i \in 0 .. n |-> IF i = 0 THEN s ELSE After(f[i - 1], q[i])]

\* What is known after the events of q.
Told(s, q) == (CHOOSE f : Applies(f, s, q, Len(q)))[Len(q)]

LEMMA ForeseenIsTold == Foreseen = Told(seen, Pending)
BY DEF Foreseen, Told, Applies

LEMMA ApplyingExists ==
  ASSUME NEW s, NEW q, Len(q) \in Nat
  PROVE  \E f : Applies(f, s, q, Len(q))
<1> DEFINE S == {n \in Nat : \E f : Applies(f, s, q, n)}
<1>1. 0 \in S
  <2> DEFINE one == [n \in 0 .. 0 |-> s]
  <2>1. Applies(one, s, q, 0)
    <3>1. \A n \in 0 .. 0 : n = 0
      OBVIOUS
    <3> QED
      BY <3>1 DEF Applies
  <2> QED
    BY <2>1
<1>2. ASSUME NEW n \in Nat, n \in S PROVE n + 1 \in S
  <2>1. PICK f : Applies(f, s, q, n)
    BY <1>2
  <2> DEFINE longer == [k \in 0 .. n + 1 |-> IF k = 0 THEN s ELSE After(f[k - 1], q[k])]
  <2>2. \A k \in 0 .. n : longer[k] = f[k]
    <3>1. \A k \in 0 .. n : f[k] = IF k = 0 THEN s ELSE After(f[k - 1], q[k])
      BY <2>1 DEF Applies
    <3>2. \A k \in 0 .. n : k \in 0 .. n + 1
      OBVIOUS
    <3>3. \A k \in 0 .. n + 1 : longer[k] = IF k = 0 THEN s ELSE After(f[k - 1], q[k])
      OBVIOUS
    <3> HIDE DEF longer
    <3> QED
      BY <3>1, <3>2, <3>3
  <2>3. \A k \in 0 .. n + 1 : k # 0 => k - 1 \in 0 .. n
    OBVIOUS
  <2>4. longer = [k \in 0 .. n + 1 |-> IF k = 0 THEN s ELSE After(longer[k - 1], q[k])]
    <3>1. \A k \in 0 .. n + 1 : (IF k = 0 THEN s ELSE After(f[k - 1], q[k]))
                              = (IF k = 0 THEN s ELSE After(longer[k - 1], q[k]))
      <4> HIDE DEF longer
      <4> QED
        BY <2>2, <2>3
    <3> QED
      BY <3>1
  <2>5. Applies(longer, s, q, n + 1)
    BY <2>4 DEF Applies
  <2> QED
    BY <2>5
<1>3. Nat \subseteq S
  <2> HIDE DEF S
  <2> QED
    BY <1>1, <1>2, SetInduction
<1> QED
  BY <1>3

\* It can be followed event by event.
Follows(f, s, q, N) ==
  /\ f[0] = s /\ f[N] = Told(s, q)
  /\ \A n \in Nat : n + 1 <= N => f[n + 1] = After(f[n], q[n + 1])

LEMMA Applying ==
  ASSUME NEW s, NEW q, NEW N \in Nat, Len(q) = N
  PROVE  \E f : Follows(f, s, q, N)
<1> DEFINE f == CHOOSE f : Applies(f, s, q, N)
<1>1. Applies(f, s, q, N)
  BY ApplyingExists
<1>2. f[N] = Told(s, q)
  BY DEF Told
<1> HIDE DEF f
<1>3. \A n \in 0 .. N : f[n] = IF n = 0 THEN s ELSE After(f[n - 1], q[n])
  BY <1>1 DEF Applies
<1>4. 0 \in 0 .. N /\ \A n \in Nat : n + 1 <= N => n + 1 \in 0 .. N /\ n + 1 # 0 /\ (n + 1) - 1 = n
  OBVIOUS
<1>5. f[0] = s /\ \A n \in Nat : n + 1 <= N => f[n + 1] = After(f[n], q[n + 1])
  BY <1>3, <1>4
<1> QED
  BY <1>2, <1>5 DEF Follows

LEMMA ToldNothing ==
  ASSUME NEW s, NEW q, Len(q) = 0
  PROVE  Told(s, q) = s
<1>1. 0 \in Nat
  OBVIOUS
<1> QED
  BY <1>1, Applying DEF Follows

LEMMA AppliedAlike ==
  ASSUME NEW N \in Nat, NEW f, NEW g, NEW q, f[0] = g[0],
         \A n \in Nat : n + 1 <= N => f[n + 1] = After(f[n], q[n + 1]) /\ g[n + 1] = After(g[n], q[n + 1])
  PROVE  f[N] = g[N]
<1> DEFINE S == {n \in Nat : n <= N => f[n] = g[n]}
<1>1. 0 \in S
  OBVIOUS
<1>2. \A n \in Nat : n \in S => n + 1 \in S
  <2> SUFFICES ASSUME NEW n \in Nat, n \in S, n + 1 <= N PROVE f[n + 1] = g[n + 1]
    OBVIOUS
  <2>1. f[n] = g[n]
    OBVIOUS
  <2> QED
    BY <2>1
<1>3. Nat \subseteq S
  <2> HIDE DEF S
  <2> QED
    BY <1>1, <1>2, SetInduction
<1> QED
  BY <1>3

(* One event more is applied last.                                         *)
LEMMA ToldAppend ==
  ASSUME NEW s, NEW S, NEW q \in Seq(S), NEW e \in S
  PROVE  Told(s, Append(q, e)) = After(Told(s, q), e)
<1> DEFINE p == Append(q, e)
<1>1. PICK N \in Nat : N = Len(q)
  BY LenProperties
<1>2. Len(p) = N + 1 /\ p[N + 1] = e /\ \A n \in Nat : n + 1 <= N => p[n + 1] = q[n + 1]
  <2>1. \A n \in Nat : n + 1 <= N => n + 1 \in 1 .. Len(q)
    BY <1>1
  <2> QED
    BY <1>1, <2>1, AppendProperties
<1> HIDE DEF p
<1>3. PICK g : Follows(g, s, q, N)
  BY <1>1, Applying
<1>4. PICK f : Follows(f, s, p, N + 1)
  <2>1. PICK M \in Nat : M = N + 1
    OBVIOUS
  <2>2. Len(p) = M
    BY <1>2, <2>1
  <2>3. \E f : Follows(f, s, p, M)
    BY <2>2, Applying
  <2> QED
    BY <2>1, <2>3
<1>5. \A n \in Nat : n + 1 <= N => f[n + 1] = After(f[n], q[n + 1]) /\ g[n + 1] = After(g[n], q[n + 1])
  <2>1. \A n \in Nat : n + 1 <= N => n + 1 <= N + 1
    OBVIOUS
  <2> QED
    BY <1>2, <1>3, <1>4, <2>1 DEF Follows
<1>6. f[N] = g[N]
  <2>1. f[0] = g[0]
    BY <1>3, <1>4 DEF Follows
  <2> QED
    BY <1>5, <2>1, AppliedAlike
<1>7. f[N + 1] = After(f[N], p[N + 1])
  BY <1>4 DEF Follows
<1> QED
  BY <1>2, <1>3, <1>4, <1>6, <1>7 DEF p, Follows

(* Who has been given the first event knows what it tells.                 *)
LEMMA ToldLater ==
  ASSUME NEW s, NEW r, NEW p, NEW q, NEW N \in Nat, Len(q) = N + 1, Len(p) = N,
         \A n \in Nat : n + 1 <= N => p[n + 1] = q[(n + 1) + 1],
         r = After(s, q[1])
  PROVE  Told(r, p) = Told(s, q)
<1>1. /\ Len(q) = N + 1 /\ Len(p) = N
      /\ \A n \in Nat : n + 1 <= N => p[n + 1] = q[(n + 1) + 1]
  OBVIOUS
<1>2. PICK g : Follows(g, r, p, N)
  BY <1>1, Applying
<1>3. PICK f : Follows(f, s, q, N + 1)
  <2>1. PICK M \in Nat : M = N + 1
    OBVIOUS
  <2>2. Len(q) = M
    BY <1>1, <2>1
  <2>3. \E f : Follows(f, s, q, M)
    BY <2>2, Applying
  <2> QED
    BY <2>1, <2>3
<1> DEFINE h == [n \in 0 .. N |-> f[n + 1]]
<1>4. h[0] = g[0] /\ h[N] = f[N + 1]
  <2>1. 0 \in 0 .. N /\ N \in 0 .. N /\ 0 \in Nat /\ 0 + 1 = 1 /\ 0 + 1 <= N + 1
    OBVIOUS
  <2>2. f[0 + 1] = After(f[0], q[0 + 1])
    BY <1>3, <2>1 DEF Follows
  <2> QED
    BY <1>2, <1>3, <2>1, <2>2 DEF Follows
<1>5. \A n \in Nat : n + 1 <= N => h[n + 1] = After(h[n], p[n + 1]) /\ g[n + 1] = After(g[n], p[n + 1])
  <2> SUFFICES ASSUME NEW n \in Nat, n + 1 <= N PROVE h[n + 1] = After(h[n], p[n + 1])
    BY <1>2 DEF Follows
  <2>1. n \in 0 .. N /\ n + 1 \in 0 .. N /\ n + 1 \in Nat /\ (n + 1) + 1 <= N + 1 /\ 1 + (n + 1) = (n + 1) + 1
    OBVIOUS
  <2>2. h[n] = f[n + 1] /\ h[n + 1] = f[(n + 1) + 1]
    BY <2>1
  <2>3. p[n + 1] = q[(n + 1) + 1]
    BY <1>1, <2>1
  <2>4. f[(n + 1) + 1] = After(f[n + 1], q[(n + 1) + 1])
    BY <1>3, <2>1 DEF Follows
  <2> HIDE DEF h
  <2> QED
    BY <2>2, <2>3, <2>4
<1>6. h[N] = g[N]
  <2> HIDE DEF h
  <2> QED
    BY <1>4, <1>5, AppliedAlike
<1> HIDE DEF h
<1> QED
  BY <1>1, <1>2, <1>3, <1>4, <1>6 DEF Follows

LEMMA ToldTail ==
  ASSUME NEW s, NEW S, NEW q \in Seq(S), q # <<>>
  PROVE  Told(After(s, Head(q)), Tail(q)) = Told(s, q)
<1> DEFINE p == Tail(q)
<1>1. /\ Len(q) \in Nat /\ Len(q) >= 1 /\ Len(p) = Len(q) - 1 /\ Head(q) = q[1]
      /\ \A i \in 1 .. Len(p) : p[i] = q[i + 1]
  BY EmptySeq, LenProperties, HeadTailProperties
<1> DEFINE m == Len(q) - 1
<1>2. m \in Nat
  BY <1>1
<1> HIDE DEF p
<1>3. Len(q) = m + 1 /\ Len(p) = m
  BY <1>1
<1>4. \A n \in Nat : n + 1 <= m => p[n + 1] = q[(n + 1) + 1]
  <2>1. \A n \in Nat : n + 1 <= m => n + 1 \in 1 .. Len(p)
    BY <1>2, <1>3
  <2> QED
    BY <1>1, <2>1
<1> HIDE DEF m
<1>5. Told(After(s, q[1]), p) = Told(s, q)
  BY <1>2, <1>3, <1>4, ToldLater
<1> QED
  BY <1>1, <1>5 DEF p

LEMMA ForeseenNext == Foreseen' = Told(seen', Pending')
BY DEF Foreseen, Told, Applies

(* What the events are about.                                              *)
LEMMA EventFields ==
  ASSUME NEW ev \in Events
  PROVE  /\ ev.evt \in {"SYSUI_EVENT_RESIZE", "SYSUI_EVENT_KEYDOWN", "SYSUI_EVENT_KEYUP",
                        "SYSUI_EVENT_CLOSE", "SYSUI_EVENT_DIE", "other"}
         /\ ev.win \in Windows \cup {None}
         /\ ev.evt # "other" => ev.win \in Windows
         /\ ev.evt = "SYSUI_EVENT_RESIZE" => ev.size \in Sizes
         /\ ev.evt \in {"SYSUI_EVENT_KEYDOWN", "SYSUI_EVENT_KEYUP"} => ev.key \in Keys
BY DEF Events

LEMMA SubjectIs ==
  ASSUME NEW ev \in Events
  PROVE  /\ \A w : <<"size", w>> \in Subject(ev) <=> ev.evt = "SYSUI_EVENT_RESIZE" /\ ev.win = w
         /\ \A w : <<"dead", w>> \in Subject(ev) <=> ev.evt = "SYSUI_EVENT_DIE" /\ ev.win = w
         /\ \A k : <<"key", k>> \in Subject(ev)
                     <=> ev.evt \in {"SYSUI_EVENT_KEYDOWN", "SYSUI_EVENT_KEYUP"} /\ ev.key = k
         /\ Subject(ev) \subseteq ({"size", "dead"} \X Windows) \cup ({"key"} \X Keys)
<1>1. CASE ev.evt = "SYSUI_EVENT_RESIZE"
  BY <1>1, EventFields DEF Subject
<1>2. CASE ev.evt \in {"SYSUI_EVENT_KEYDOWN", "SYSUI_EVENT_KEYUP"}
  BY <1>2, EventFields DEF Subject
<1>3. CASE ev.evt = "SYSUI_EVENT_DIE"
  BY <1>3, EventFields DEF Subject
<1>4. CASE ev.evt \in {"SYSUI_EVENT_CLOSE", "other"}
  BY <1>4 DEF Subject
<1> QED
  BY <1>1, <1>2, <1>3, <1>4, EventFields

LEMMA AfterIs ==
  ASSUME NEW s \in Knowledge, NEW ev \in Events
  PROVE  /\ After(s, ev) \in Knowledge
         /\ \A w \in Windows : After(s, ev).size[w] =
              IF ev.evt = "SYSUI_EVENT_RESIZE" /\ ev.win = w THEN ev.size ELSE s.size[w]
         /\ \A k \in Keys : After(s, ev).keys[k] =
              IF ev.evt \in {"SYSUI_EVENT_KEYDOWN", "SYSUI_EVENT_KEYUP"} /\ ev.key = k
              THEN ev.evt = "SYSUI_EVENT_KEYDOWN" ELSE s.keys[k]
         /\ After(s, ev).dead = s.dead \cup (IF ev.evt = "SYSUI_EVENT_DIE" THEN {ev.win} ELSE {})
<1> USE DEF Knowledge
<1>1. CASE ev.evt = "SYSUI_EVENT_RESIZE"
  BY <1>1, EventFields DEF After
<1>2. CASE ev.evt = "SYSUI_EVENT_KEYDOWN"
  BY <1>2, EventFields DEF After
<1>3. CASE ev.evt = "SYSUI_EVENT_KEYUP"
  BY <1>3, EventFields DEF After
<1>4. CASE ev.evt = "SYSUI_EVENT_DIE"
  BY <1>4, EventFields DEF After
<1>5. CASE ev.evt \in {"SYSUI_EVENT_CLOSE", "other"}
  BY <1>5 DEF After
<1> QED
  BY <1>1, <1>2, <1>3, <1>4, <1>5, EventFields

(* The size of a window of which no event is pending is known as it was    *)
(* told, and nothing else changes.                                         *)
LEMMA ToldCreated ==
  ASSUME NEW s \in Knowledge, NEW q, NEW N \in Nat, Len(q) = N, NEW w \in Windows, NEW x \in Sizes,
         \A n \in Nat : n + 1 <= N => q[n + 1] \in Events /\ q[n + 1].win # w,
         NEW r \in Knowledge, r.keys = s.keys, r.dead = s.dead, r.size = [s.size EXCEPT ![w] = x]
  PROVE  /\ Told(s, q) \in Knowledge /\ Told(r, q) \in Knowledge
         /\ Told(r, q).size[w] = x
         /\ \A v \in Windows \ {w} : Told(r, q).size[v] = Told(s, q).size[v]
         /\ \A k \in Keys : Told(r, q).keys[k] = Told(s, q).keys[k]
         /\ Told(r, q).dead = Told(s, q).dead
<1>1. PICK f : Follows(f, s, q, N)
  BY Applying
<1>2. PICK g : Follows(g, r, q, N)
  BY Applying
<1> DEFINE Good(a, b) ==
             /\ a \in Knowledge /\ b \in Knowledge /\ b.size[w] = x
             /\ \A v \in Windows \ {w} : b.size[v] = a.size[v]
             /\ \A k \in Keys : b.keys[k] = a.keys[k]
             /\ b.dead = a.dead
           S == {n \in Nat : n <= N => Good(f[n], g[n])}
<1>3. 0 \in S
  BY <1>1, <1>2 DEF Knowledge, Follows
<1>4. ASSUME NEW a, NEW b, Good(a, b), NEW ev \in Events, ev.win # w
      PROVE  Good(After(a, ev), After(b, ev))
  <2>1. /\ After(a, ev) \in Knowledge
        /\ \A v \in Windows : After(a, ev).size[v] =
             IF ev.evt = "SYSUI_EVENT_RESIZE" /\ ev.win = v THEN ev.size ELSE a.size[v]
        /\ \A k \in Keys : After(a, ev).keys[k] =
             IF ev.evt \in {"SYSUI_EVENT_KEYDOWN", "SYSUI_EVENT_KEYUP"} /\ ev.key = k
             THEN ev.evt = "SYSUI_EVENT_KEYDOWN" ELSE a.keys[k]
        /\ After(a, ev).dead = a.dead \cup (IF ev.evt = "SYSUI_EVENT_DIE" THEN {ev.win} ELSE {})
    BY <1>4, AfterIs
  <2>2. /\ After(b, ev) \in Knowledge
        /\ \A v \in Windows : After(b, ev).size[v] =
             IF ev.evt = "SYSUI_EVENT_RESIZE" /\ ev.win = v THEN ev.size ELSE b.size[v]
        /\ \A k \in Keys : After(b, ev).keys[k] =
             IF ev.evt \in {"SYSUI_EVENT_KEYDOWN", "SYSUI_EVENT_KEYUP"} /\ ev.key = k
             THEN ev.evt = "SYSUI_EVENT_KEYDOWN" ELSE b.keys[k]
        /\ After(b, ev).dead = b.dead \cup (IF ev.evt = "SYSUI_EVENT_DIE" THEN {ev.win} ELSE {})
    BY <1>4, AfterIs
  <2> QED
    BY <1>4, <2>1, <2>2
<1>5. ASSUME NEW n \in Nat, n \in S PROVE n + 1 \in S
  <2> SUFFICES ASSUME n + 1 <= N PROVE Good(f[n + 1], g[n + 1])
    OBVIOUS
  <2>1. Good(f[n], g[n]) /\ q[n + 1] \in Events /\ q[n + 1].win # w
    BY <1>5
  <2>2. f[n + 1] = After(f[n], q[n + 1]) /\ g[n + 1] = After(g[n], q[n + 1])
    BY <1>1, <1>2 DEF Follows
  <2> HIDE DEF Good
  <2> QED
    BY <1>4, <2>1, <2>2
<1>6. Nat \subseteq S
  <2> HIDE DEF S
  <2> QED
    BY <1>3, <1>5, SetInduction
<1>7. Good(f[N], g[N])
  BY <1>6
<1> QED
  BY <1>1, <1>2, <1>7 DEF Follows
-----------------------------------------------------------------------------
(* What a step does to what is pending and to what will be known.          *)
LEMMA RingStill ==
  ASSUME UNCHANGED <<queue, head, tail>>
  PROVE  Pending' = Pending /\ (seen' = seen => Foreseen' = Foreseen)
<1>1. Pending' = Pending
  BY DEF Pending
<1> QED
  BY <1>1, ForeseenIsTold, ForeseenNext

LEMMA PendingEvents ==
  ASSUME IInv, EventsTyped
  PROVE  Pending \in Seq(Events) /\ Len(Pending) \in Nat
<1>1. Pending \in Seq(Elements) /\ Len(Pending) \in Nat
  BY PendingIs, LenProperties DEF IInv
<1>2. \A i \in 1 .. Len(Pending) : Pending[i] \in Events
  BY DEF EventsTyped
<1>3. Pending = [i \in 1 .. Len(Pending) |-> Pending[i]]
  BY <1>1, LenProperties
<1>4. Pending \in [1 .. Len(Pending) -> Events]
  BY <1>2, <1>3
<1> QED
  BY <1>1, <1>4, FunctionIsSequence

\* Nothing that Last speaks of has changed.
LEMMA LastStill ==
  ASSUME EventsInv, UNCHANGED <<Pending, Foreseen, seen, lost>>,
         \A w \in Windows : Dead(w)' <=> Dead(w)
  PROVE  Last'
<1>1. Pending' = Pending /\ Foreseen' = Foreseen /\ seen' = seen /\ lost' = lost
  OBVIOUS
<1>2. \A w \in seen.dead \cup Foreseen.dead : w \in Windows
  BY DEF EventsInv, EventsTyped, Knowledge
<1>3. \A i \in 1 .. Len(Pending) : Pending[i].evt = "SYSUI_EVENT_DIE" => Pending[i].win \in Windows
  BY EventFields DEF EventsInv, EventsTyped
<1>4. Last
  BY DEF EventsInv
<1>5. \A w \in Windows : Dead(w)' <=> Dead(w)
  OBVIOUS
<1> QED
  BY ONLY <1>1, <1>2, <1>3, <1>4, <1>5 DEF Last

\* A step inside the handler or the client that tells nothing new.
Quiet ==
  /\ UNCHANGED <<queue, head, tail, win, keyarray, got, seen, lost>>
  /\ mutex' \in Threads \cup {None}
  /\ ui' \in {"client", "poll", "wait", "get", "take"} /\ modal' \in BOOLEAN
  /\ made' \in 0 .. MaxEvents
  /\ \A t \in Pushers : push'[t] # None => push'[t].ev = [win |-> None, evt |-> "other"]
  /\ Pushing' <=> Pushing
  /\ Pushing => push'[UI].ev = push[UI].ev

LEMMA QuietKeeps ==
  ASSUME EventsInv, IInv', Quiet
  PROVE  EventsInv'
<1>1. Pending' = Pending /\ Foreseen' = Foreseen
  BY RingStill DEF Quiet
<1>2. EventsTyped'
  BY <1>1 DEF EventsInv, EventsTyped, Quiet
<1>3. Origins'
  BY <1>1 DEF EventsInv, Origins, Quiet
<1>4. Agree'
  <2>1. ASSUME NEW w \in Windows PROVE SizeAgrees(w)'
    BY <1>1 DEF EventsInv, Agree, SizeAgrees, Quiet
  <2>2. ASSUME NEW k \in Keys PROVE KeyAgrees(k)'
    BY <1>1 DEF EventsInv, Agree, KeyAgrees, Quiet
  <2> QED
    BY <2>1, <2>2 DEF Agree
<1>5. Last'
  BY <1>1, LastStill DEF Quiet, Dead
<1> QED
  BY <1>2, <1>3, <1>4, <1>5 DEF EventsInv

LEMMA QuietSteps ==
  ASSUME EventsInv,
         \/ Call \/ PollEmpty \/ Ignored \/ GetLock \/ UNCHANGED vars
         \/ \E t \in Threads : PushLock(t)
         \/ \E t \in Pushers : Post(t)
  PROVE  Quiet
<1> USE DEF EventsInv, EventsTyped, Origins, Quiet, Pushing
<1>1. UI \in Threads /\ Pushers \subseteq Threads /\ UI \notin Pushers /\ None \notin Calls
      /\ MaxEvents \in Nat
  BY SysEventsAssumption DEF Threads
<1>2. CASE Call \/ PollEmpty \/ Ignored \/ GetLock
  BY <1>1, <1>2 DEF Call, PollEmpty, Ignored, GetLock, ring, client
<1>3. CASE UNCHANGED vars
  BY <1>3 DEF vars
<1>4. ASSUME NEW t \in Threads, PushLock(t) PROVE Quiet
  <2>1. /\ push[t] # None /\ push' = [push EXCEPT ![t].next = (tail + 1) % Size] /\ mutex' = t
        /\ UNCHANGED <<queue, head, tail, ui, modal, win, keyarray, got, seen, lost, made>>
    BY <1>4 DEF PushLock, client
  <2>2. push \in [Threads -> Calls \cup {None}] /\ (tail + 1) % Size \in 0 .. Size - 1
    BY Following DEF IInv, Typed, Calls, Slots
  <2>3. push'[t] \in Calls /\ push'[t].ev = push[t].ev
    BY <2>1, <2>2 DEF Calls
  <2>4. \A u \in Threads \ {t} : push'[u] = push[u]
    BY <2>1, <2>2
  <2> QED
    BY <1>1, <2>1, <2>3, <2>4
<1>5. ASSUME NEW t \in Pushers, Post(t) PROVE Quiet
  <2>1. /\ push' = [push EXCEPT ![t] = [ev |-> [win |-> None, evt |-> "other"], next |-> None]]
        /\ made < MaxEvents /\ made' = made + 1
        /\ UNCHANGED <<queue, head, tail, mutex, ui, modal, win, keyarray, got, seen, lost>>
    BY <1>5 DEF Post, Start, ring, client
  <2>2. \A u \in Threads : push'[u] = IF u = t THEN [ev |-> [win |-> None, evt |-> "other"], next |-> None]
                                      ELSE push[u]
    BY <1>1, <2>1 DEF IInv, Typed
  <2> QED
    BY <1>1, <2>1, <2>2
<1> QED
  BY <1>2, <1>3, <1>4, <1>5

\* The event that the handler tells window w's new state with.
Tells(w, ev) ==
  /\ ev.win = w
  /\ IF ev.evt = "SYSUI_EVENT_RESIZE" THEN ev.size = win'[w].size ELSE win'[w] = win[w]
  /\ IF ev.evt \in {"SYSUI_EVENT_KEYDOWN", "SYSUI_EVENT_KEYUP"}
     THEN keyarray' = [keyarray EXCEPT ![ev.key] = (ev.evt = "SYSUI_EVENT_KEYDOWN")]
     ELSE keyarray' = keyarray

\* What the handler leaves alone while it sees to a message of w.
Spared(w) ==
  /\ win[w].state = "live" /\ push[UI] = None
  /\ UNCHANGED <<queue, head, tail, mutex, got, seen, lost>>
  /\ ui' \in {"client", "poll", "wait", "get", "take"} /\ modal' \in BOOLEAN
  /\ made' \in 0 .. MaxEvents
  /\ \A v \in Windows : win'[v].state = win[v].state /\ (v # w => win'[v] = win[v])
  /\ \A t \in Pushers : push'[t] = push[t]

\* While w is being sized the handler may say nothing of it.
Handled(w) ==
  /\ Spared(w)
  /\ \/ push'[UI] = None /\ win'[w].sizemove /\ keyarray' = keyarray
     \/ \E ev \in Events : push'[UI] = [ev |-> ev, next |-> None] /\ Tells(w, ev)

LEMMA HandledSteps ==
  ASSUME EventsInv, NEW w \in Windows,
         \/ \E s \in Sizes : WM_SIZE(w, s)
         \/ kill(w) \/ WM_ENTERSIZEMOVE(w) \/ WM_EXITSIZEMOVE(w)
         \/ \E k \in Keys : WM_KEYDOWN(w, k) \/ WM_KEYUP(w, k)
         \/ \E evt \in {"SYSUI_EVENT_CLOSE", "other"} : PassOn(w, evt)
  PROVE  Handled(w)
<1> USE DEF ring, client, Message, Start
<1>1. /\ UI \in Threads /\ Pushers \subseteq Threads /\ UI \notin Pushers /\ MaxEvents \in Nat
      /\ push \in [Threads -> Calls \cup {None}]
      /\ win \in [Windows -> [state : {"none", "live", "dead"}, sizemove : BOOLEAN, size : Sizes]]
      /\ keyarray \in [Keys -> BOOLEAN]
      /\ ui \in {"client", "poll", "wait", "get", "take"} /\ modal \in BOOLEAN
      /\ made \in 0 .. MaxEvents
  BY SysEventsAssumption DEF Threads, EventsInv, IInv, Typed, EventsTyped, Calls, Slots
<1>2. ASSUME NEW ev, push' = [push EXCEPT ![UI] = [ev |-> ev, next |-> None]]
      PROVE  push'[UI] = [ev |-> ev, next |-> None] /\ \A t \in Pushers : push'[t] = push[t]
  BY <1>1, <1>2
<1>3. ASSUME NEW s \in Sizes, WM_SIZE(w, s) PROVE Handled(w)
  <2> DEFINE ev == [win |-> w, evt |-> "SYSUI_EVENT_RESIZE", size |-> s]
  <2>1. ev \in Events
    BY EventsAre
  <2>2. /\ win'[w].size = s /\ win'[w].state = win[w].state /\ win'[w].sizemove = win[w].sizemove
        /\ \A v \in Windows \ {w} : win'[v] = win[v]
    BY <1>1, <1>3 DEF WM_SIZE
  <2>3. CASE win[w].sizemove
    BY <1>1, <1>3, <2>2, <2>3 DEF WM_SIZE, Spared, Handled
  <2>4. CASE ~win[w].sizemove
    <3>1. push'[UI] = [ev |-> ev, next |-> None] /\ \A t \in Pushers : push'[t] = push[t]
      BY <1>2, <1>3, <2>4 DEF WM_SIZE
    <3>2. Tells(w, ev)
      BY <1>3, <2>2 DEF WM_SIZE, Tells
    <3>3. Spared(w)
      BY <1>1, <1>3, <2>2, <2>4, <3>1 DEF WM_SIZE, Spared
    <3> QED
      BY <2>1, <3>1, <3>2, <3>3 DEF Handled
  <2> QED
    BY <2>3, <2>4
<1>4. CASE kill(w)
  <2> DEFINE ev == [win |-> w, evt |-> "SYSUI_EVENT_DIE"]
  <2>1. ev \in Events
    BY EventsAre
  <2>2. push'[UI] = [ev |-> ev, next |-> None] /\ \A t \in Pushers : push'[t] = push[t]
    BY <1>2, <1>4 DEF kill
  <2>3. Tells(w, ev)
    BY <1>4 DEF kill, Tells
  <2>4. Spared(w)
    BY <1>1, <1>4, <2>2 DEF kill, Idle, Spared
  <2> QED
    BY <2>1, <2>2, <2>3, <2>4 DEF Handled
<1>5. CASE WM_ENTERSIZEMOVE(w)
  BY <1>1, <1>5 DEF WM_ENTERSIZEMOVE, Spared, Handled
<1>6. CASE WM_EXITSIZEMOVE(w)
  <2> DEFINE ev == [win |-> w, evt |-> "SYSUI_EVENT_RESIZE", size |-> win[w].size]
  <2>1. ev \in Events
    BY <1>1, EventsAre
  <2>2. /\ win'[w].size = win[w].size /\ win'[w].state = win[w].state
        /\ \A v \in Windows \ {w} : win'[v] = win[v]
    BY <1>1, <1>6 DEF WM_EXITSIZEMOVE
  <2>3. push'[UI] = [ev |-> ev, next |-> None] /\ \A t \in Pushers : push'[t] = push[t]
    BY <1>2, <1>6 DEF WM_EXITSIZEMOVE
  <2>4. Tells(w, ev)
    <3>1. keyarray' = keyarray
      BY <1>6 DEF WM_EXITSIZEMOVE
    <3> QED
      BY <2>2, <3>1 DEF Tells
  <2>5. Spared(w)
    <3>1. /\ win[w].state = "live" /\ push[UI] = None /\ modal' = FALSE
          /\ UNCHANGED <<queue, head, tail, mutex, got, seen, lost>>
          /\ ui' \in {"client", "poll", "wait", "get", "take"}
      BY <1>1, <1>6 DEF WM_EXITSIZEMOVE
    <3>2. made' \in 0 .. MaxEvents
      BY <1>1, <1>6 DEF WM_EXITSIZEMOVE
    <3> QED
      BY <2>2, <2>3, <3>1, <3>2 DEF Spared
  <2> QED
    BY <2>1, <2>3, <2>4, <2>5 DEF Handled
<1>7. ASSUME NEW k \in Keys, WM_KEYDOWN(w, k) \/ WM_KEYUP(w, k) PROVE Handled(w)
  <2>1. CASE WM_KEYDOWN(w, k)
    <3> DEFINE ev == [win |-> w, evt |-> "SYSUI_EVENT_KEYDOWN", key |-> k]
    <3>1. ev \in Events
      BY EventsAre
    <3>2. push'[UI] = [ev |-> ev, next |-> None] /\ \A t \in Pushers : push'[t] = push[t]
      BY <1>2, <2>1 DEF WM_KEYDOWN
    <3>3. Tells(w, ev)
      BY <2>1 DEF WM_KEYDOWN, Tells
    <3>4. Spared(w)
      BY <1>1, <2>1, <3>2 DEF WM_KEYDOWN, Spared
    <3> QED
      BY <3>1, <3>2, <3>3, <3>4 DEF Handled
  <2>2. CASE WM_KEYUP(w, k)
    <3> DEFINE ev == [win |-> w, evt |-> "SYSUI_EVENT_KEYUP", key |-> k]
    <3>1. ev \in Events
      BY EventsAre
    <3>2. push'[UI] = [ev |-> ev, next |-> None] /\ \A t \in Pushers : push'[t] = push[t]
      BY <1>2, <2>2 DEF WM_KEYUP
    <3>3. Tells(w, ev)
      BY <2>2 DEF WM_KEYUP, Tells
    <3>4. Spared(w)
      BY <1>1, <2>2, <3>2 DEF WM_KEYUP, Spared
    <3> QED
      BY <3>1, <3>2, <3>3, <3>4 DEF Handled
  <2> QED
    BY <1>7, <2>1, <2>2
<1>8. ASSUME NEW evt \in {"SYSUI_EVENT_CLOSE", "other"}, PassOn(w, evt) PROVE Handled(w)
  <2> DEFINE ev == [win |-> w, evt |-> evt]
  <2>1. ev \in Events
    BY EventsAre
  <2>2. push'[UI] = [ev |-> ev, next |-> None] /\ \A t \in Pushers : push'[t] = push[t]
    BY <1>2, <1>8 DEF PassOn
  <2>3. Tells(w, ev)
    BY <1>8 DEF PassOn, Tells
  <2>4. Spared(w)
    BY <1>1, <1>8, <2>2 DEF PassOn, Spared
  <2> QED
    BY <2>1, <2>2, <2>3, <2>4 DEF Handled
<1> QED
  BY <1>3, <1>4, <1>5, <1>6, <1>7, <1>8

LEMMA HandledKeeps ==
  ASSUME EventsInv, IInv', NEW w \in Windows, Handled(w)
  PROVE  EventsInv'
<1>1. Pending' = Pending /\ Foreseen' = Foreseen
  BY RingStill DEF Handled, Spared
<1>2. /\ win[w].state = "live" /\ ~Pushing
      /\ \A v \in Windows : win'[v].state = win[v].state /\ (v # w => win'[v] = win[v])
      /\ \A v \in Windows : Dead(v)' <=> Dead(v)
  BY DEF Handled, Spared, Pushing, Dead
<1>3. /\ keyarray \in [Keys -> BOOLEAN]
      /\ \/ ~Pushing' /\ win'[w].sizemove /\ keyarray' = keyarray
         \/ \E ev \in Events : Pushing' /\ push'[UI].ev = ev /\ Tells(w, ev)
  <2>1. ASSUME NEW ev \in Events, push'[UI] = [ev |-> ev, next |-> None] PROVE Pushing' /\ push'[UI].ev = ev
    <3>1. [ev |-> ev, next |-> None] \in Calls /\ None \notin Calls
      BY SysEventsAssumption DEF Calls
    <3> QED
      BY <2>1, <3>1 DEF Pushing
  <2> QED
    BY <2>1 DEF Handled, Spared, Pushing, EventsInv, EventsTyped
<1>4. EventsTyped'
  <2>1. keyarray' \in [Keys -> BOOLEAN]
    BY <1>3 DEF Tells
  <2> QED
    BY <1>1, <2>1 DEF EventsInv, EventsTyped, Handled, Spared
<1>5. Origins'
  <2>1. \A t \in Pushers : push'[t] # None => push'[t].ev = [win |-> None, evt |-> "other"]
    BY DEF Handled, Spared, EventsInv, Origins
  <2>2. Pushing' => push'[UI].ev.win \in Windows /\ win'[push'[UI].ev.win].state = "live"
    BY <1>2, <1>3 DEF Tells
  <2>3. \A i \in 1 .. Len(Pending) : Pending[i].win \in Windows => win'[Pending[i].win].state # "none"
    BY <1>2 DEF EventsInv, Origins
  <2> QED
    BY <1>1, <2>1, <2>2, <2>3 DEF Origins
<1>6. Agree'
  <2>1. UNCHANGED <<Foreseen, lost>>
    BY <1>1 DEF Handled, Spared
  <2>2. ASSUME NEW v \in Windows PROVE SizeAgrees(v)'
    <3>1. SizeAgrees(v)
      BY DEF EventsInv, Agree
    <3> QED
      BY <1>2, <1>3, <2>1, <3>1 DEF Tells, SizeAgrees
  <2>3. ASSUME NEW k \in Keys PROVE KeyAgrees(k)'
    <3>1. KeyAgrees(k)
      BY DEF EventsInv, Agree
    <3> QED
      BY <1>2, <1>3, <2>1, <3>1 DEF Tells, KeyAgrees
  <2> QED
    BY <2>2, <2>3 DEF Agree
<1>7. Last'
  BY <1>1, <1>2, LastStill DEF Handled, Spared
<1> QED
  BY <1>4, <1>5, <1>6, <1>7 DEF EventsInv

(* A new window has no event yet, and the client knows its size.           *)
LEMMA NewWindowKeeps ==
  ASSUME EventsInv, IInv', NEW w \in Windows, NEW x \in Sizes, window_create(w, x)
  PROVE  EventsInv'
<1>1. /\ win[w].state = "none" /\ push[UI] = None /\ push' = push
      /\ UNCHANGED <<queue, head, tail, mutex, ui, modal, keyarray, got, lost, made>>
      /\ win' = [win EXCEPT ![w] = [state |-> "live", sizemove |-> FALSE, size |-> x]]
      /\ seen' = [seen EXCEPT !.size[w] = x]
  BY DEF window_create, Idle, ring
<1>2. Pending' = Pending /\ Pending \in Seq(Events)
  BY <1>1, RingStill, PendingEvents DEF EventsInv
<1>3. /\ win'[w].state = "live" /\ win'[w].size = x
      /\ \A v \in Windows \ {w} : win'[v] = win[v]
  BY <1>1 DEF EventsInv, IInv, Typed
<1>4. seen \in Knowledge /\ seen' \in Knowledge /\ seen'.keys = seen.keys /\ seen'.dead = seen.dead
      /\ seen'.size = [seen.size EXCEPT ![w] = x]
  BY <1>1 DEF EventsInv, EventsTyped, Knowledge
<1>5. \A i \in 1 .. Len(Pending) : Pending[i] \in Events /\ Pending[i].win # w
  BY <1>1 DEF EventsInv, EventsTyped, Origins
<1>6. /\ Foreseen \in Knowledge /\ Foreseen' \in Knowledge
      /\ Foreseen'.size[w] = x
      /\ \A v \in Windows \ {w} : Foreseen'.size[v] = Foreseen.size[v]
      /\ \A k \in Keys : Foreseen'.keys[k] = Foreseen.keys[k]
      /\ Foreseen'.dead = Foreseen.dead
  <2> DEFINE q == Pending
             r == seen'
  <2>1. PICK N \in Nat : Len(q) = N
    BY <1>2, LenProperties
  <2>2. \A n \in Nat : n + 1 <= N => q[n + 1] \in Events /\ q[n + 1].win # w
    <3>1. \A n \in Nat : n + 1 <= N => n + 1 \in 1 .. Len(q)
      BY <2>1
    <3> QED
      BY <1>5, <3>1
  <2>3. Foreseen = Told(seen, q) /\ Foreseen' = Told(r, q)
    BY <1>2, ForeseenIsTold, ForeseenNext
  <2>4. r \in Knowledge /\ r.keys = seen.keys /\ r.dead = seen.dead /\ r.size = [seen.size EXCEPT ![w] = x]
    BY <1>4
  <2> HIDE DEF q, r
  <2>5. /\ Told(seen, q) \in Knowledge /\ Told(r, q) \in Knowledge
        /\ Told(r, q).size[w] = x
        /\ \A v \in Windows \ {w} : Told(r, q).size[v] = Told(seen, q).size[v]
        /\ \A k \in Keys : Told(r, q).keys[k] = Told(seen, q).keys[k]
        /\ Told(r, q).dead = Told(seen, q).dead
    BY <1>4, <2>1, <2>2, <2>4, ToldCreated
  <2> QED
    BY <2>3, <2>5
<1>7. EventsTyped'
  BY <1>1, <1>2, <1>4, <1>6 DEF EventsInv, EventsTyped
<1>8. Origins'
  <2>1. ~Pushing'
    BY <1>1 DEF Pushing
  <2>2. \A i \in 1 .. Len(Pending) : Pending[i].win \in Windows => win'[Pending[i].win].state # "none"
    BY <1>3, <1>5 DEF EventsInv, Origins
  <2> QED
    BY <1>1, <1>2, <2>1, <2>2 DEF EventsInv, Origins
<1>9. Agree'
  <2>1. ~Pushing /\ ~Pushing' /\ lost' = lost /\ keyarray' = keyarray
    BY <1>1 DEF Pushing
  <2>2. ASSUME NEW v \in Windows PROVE SizeAgrees(v)'
    <3>1. SizeAgrees(v)
      BY DEF EventsInv, Agree
    <3>2. CASE v = w
      BY <1>3, <1>6, <2>1, <3>2 DEF SizeAgrees
    <3>3. CASE v # w
      BY <1>3, <1>6, <2>1, <3>1, <3>3 DEF SizeAgrees
    <3> QED
      BY <3>2, <3>3
  <2>3. ASSUME NEW k \in Keys PROVE KeyAgrees(k)'
    <3>1. KeyAgrees(k)
      BY DEF EventsInv, Agree
    <3> QED
      BY <1>6, <2>1, <3>1 DEF KeyAgrees
  <2> QED
    BY <2>2, <2>3 DEF Agree
<1>10. Last'
  <2>1. \A v \in Windows : Dead(v)' <=> Dead(v)
    BY <1>1, <1>3 DEF Dead
  <2>2. \A v \in seen.dead \cup Foreseen.dead : v \in Windows
    BY DEF EventsInv, EventsTyped, Knowledge
  <2>3. \A i \in 1 .. Len(Pending) : Pending[i].evt = "SYSUI_EVENT_DIE" => Pending[i].win \in Windows
    BY EventFields DEF EventsInv, EventsTyped
  <2>4. Last
    BY DEF EventsInv
  <2>5. Pending' = Pending /\ Foreseen'.dead = Foreseen.dead /\ seen'.dead = seen.dead /\ lost' = lost
    BY <1>1, <1>2, <1>4, <1>6
  <2> QED
    BY ONLY <2>1, <2>2, <2>3, <2>4, <2>5 DEF Last
<1> QED
  BY <1>7, <1>8, <1>9, <1>10 DEF EventsInv
-----------------------------------------------------------------------------
(* sysui_push_event() returns: the event is the last of the pending ones,  *)
(* or its subject is lost.                                                 *)
LEMMA Returned ==
  ASSUME EventsInv, IInv', NEW t \in Threads, PushReturn(t)
  PROVE  LET ev == push[t].ev IN
         /\ ev \in Events
         /\ UNCHANGED <<ui, modal, keyarray, got, seen, made>> /\ mutex' = None
         /\ push[t] # None /\ push'[t] = None /\ \A u \in Threads \ {t} : push'[u] = push[u]
         /\ \A v \in Windows : /\ win'[v].sizemove = win[v].sizemove /\ win'[v].size = win[v].size
                               /\ win'[v].state = IF ev.evt = "SYSUI_EVENT_DIE" /\ ev.win = v
                                                  THEN "dead" ELSE win[v].state
         /\ \/ Pending' = Append(Pending, ev) /\ Foreseen' = After(Foreseen, ev) /\ lost' = lost \ Subject(ev)
            \/ Pending' = Pending /\ Foreseen' = Foreseen /\ lost' = lost \cup Subject(ev)
<1> DEFINE ev == push[t].ev
<1>1. ev \in Events /\ push[t].next = (tail + 1) % Size /\ Ready
  BY ReadyHolds DEF PushReturn, EventsInv, IInv, Typed, Exclusive, Inside
<1>2. /\ UNCHANGED <<head, ui, modal, keyarray, got, seen, made>> /\ mutex' = None
      /\ push[t] # None /\ push' = [push EXCEPT ![t] = None]
  BY DEF PushReturn, client
<1>3. push'[t] = None /\ \A u \in Threads \ {t} : push'[u] = push[u]
  BY <1>2 DEF EventsInv, IInv, Typed
<1>4. win' = IF ev.evt = "SYSUI_EVENT_DIE" THEN [win EXCEPT ![ev.win].state = "dead"] ELSE win
  BY DEF PushReturn
<1>5. \A v \in Windows : /\ win'[v].sizemove = win[v].sizemove /\ win'[v].size = win[v].size
                         /\ win'[v].state = IF ev.evt = "SYSUI_EVENT_DIE" /\ ev.win = v
                                            THEN "dead" ELSE win[v].state
  <2> HIDE DEF ev
  <2> QED
    BY <1>4 DEF EventsInv, IInv, Typed
<1>6. CASE Full(push[t].next)
  <2>1. UNCHANGED <<queue, head, tail, seen>> /\ lost' = lost \cup Subject(ev)
    BY <1>2, <1>6 DEF PushReturn
  <2>2. Pending' = Pending /\ Foreseen' = Foreseen
    BY <2>1, RingStill
  <2> QED
    BY <1>1, <1>2, <1>3, <1>5, <2>1, <2>2
<1>7. CASE ~Full(push[t].next)
  <2>1. queue' = [queue EXCEPT ![tail] = ev] /\ tail' = (tail + 1) % Size /\ lost' = lost \ Subject(ev)
    BY <1>1, <1>7 DEF PushReturn
  <2>2. (tail + 1) % Size # head
    BY <1>1, <1>7 DEF Full
  <2>3. Fifo!PushBack(ev)
    <3> HIDE DEF ev
    <3> QED
      BY <1>1, <1>2, <2>1, <2>2, PushIsPushBack
  <2>4. Pending' = Append(Pending, ev)
    BY <2>3 DEF Fifo!PushBack
  <2>5. Pending \in Seq(Events)
    BY PendingEvents DEF EventsInv
  <2>6. Foreseen = Told(seen, Pending) /\ Foreseen' = Told(seen, Append(Pending, ev))
    BY <1>2, <2>4, ForeseenIsTold, ForeseenNext
  <2>7. Told(seen, Append(Pending, ev)) = After(Told(seen, Pending), ev)
    <3> HIDE DEF ev
    <3> QED
      BY <1>1, <2>5, ToldAppend
  <2> QED
    BY <1>1, <1>2, <1>3, <1>5, <2>1, <2>4, <2>6, <2>7
<1> QED
  BY <1>6, <1>7

(* One event more: what held for each pending event and for each pair of   *)
(* them holds if it holds with the new one.                                *)
LEMMA OneMore ==
  ASSUME EventsInv, NEW ev \in Events, Pending' = Append(Pending, ev)
  PROVE  /\ Len(Pending) \in Nat /\ Len(Pending') = Len(Pending) + 1
         /\ Pending'[Len(Pending) + 1] = ev
         /\ \A i \in 1 .. Len(Pending) : Pending'[i] = Pending[i]
         /\ \A i \in 1 .. Len(Pending') : i \in 1 .. Len(Pending) \/ i = Len(Pending) + 1
<1>1. Pending \in Seq(Events) /\ Len(Pending) \in Nat
  BY PendingEvents DEF EventsInv
<1>2. /\ Len(Pending') = Len(Pending) + 1
      /\ Pending'[Len(Pending) + 1] = ev
      /\ \A i \in 1 .. Len(Pending) : Pending'[i] = Pending[i]
  BY <1>1, AppendProperties
<1> QED
  BY <1>1, <1>2

\* The event that is pushed was the other threads', or the handler's.
LEMMA Pushed ==
  ASSUME EventsInv, NEW t \in Threads, push[t] # None, push[t].ev \in Events
  PROVE  \/ /\ t \in Pushers /\ t # UI
            /\ push[t].ev.evt = "other" /\ push[t].ev.win = None /\ Subject(push[t].ev) = {}
         \/ t = UI /\ Pushing /\ push[UI].ev.win \in Windows /\ win[push[UI].ev.win].state = "live"
<1>1. UI \notin Pushers /\ (t \in Pushers \/ t = UI)
  BY SysEventsAssumption DEF Threads
<1>2. CASE t \in Pushers
  <2>1. push[t].ev = [win |-> None, evt |-> "other"]
    BY <1>2 DEF EventsInv, Origins
  <2> QED
    BY <1>1, <1>2, <2>1 DEF Subject
<1>3. CASE t = UI
  BY <1>3 DEF EventsInv, Origins, Pushing
<1> QED
  BY <1>1, <1>2, <1>3

LEMMA ReturnTyped ==
  ASSUME EventsInv, IInv', NEW t \in Threads, PushReturn(t)
  PROVE  EventsTyped'
<1> DEFINE ev == push[t].ev
<1>1. /\ ev \in Events
      /\ UNCHANGED <<ui, modal, keyarray, got, seen, made>> /\ mutex' = None
      /\ \/ Pending' = Append(Pending, ev) /\ Foreseen' = After(Foreseen, ev) /\ lost' = lost \ Subject(ev)
         \/ Pending' = Pending /\ Foreseen' = Foreseen /\ lost' = lost \cup Subject(ev)
  BY Returned
<1> HIDE DEF ev
<1>2. Foreseen' \in Knowledge
  BY <1>1, AfterIs DEF EventsInv, EventsTyped
<1>3. lost' \subseteq ({"size", "dead"} \X Windows) \cup ({"key"} \X Keys)
  BY <1>1, SubjectIs DEF EventsInv, EventsTyped
<1>4. \A i \in 1 .. Len(Pending') : Pending'[i] \in Events
  <2>1. CASE Pending' = Append(Pending, ev)
    BY <1>1, <2>1, OneMore DEF EventsInv, EventsTyped
  <2>2. CASE Pending' = Pending
    BY <2>2 DEF EventsInv, EventsTyped
  <2> QED
    BY <1>1, <2>1, <2>2
<1> QED
  BY <1>1, <1>2, <1>3, <1>4 DEF EventsInv, EventsTyped

LEMMA ReturnOrigins ==
  ASSUME EventsInv, IInv', NEW t \in Threads, PushReturn(t)
  PROVE  Origins'
<1> DEFINE ev == push[t].ev
<1>1. /\ ev \in Events /\ push[t] # None
      /\ push'[t] = None /\ \A u \in Threads \ {t} : push'[u] = push[u]
      /\ \A v \in Windows : win'[v].state = IF ev.evt = "SYSUI_EVENT_DIE" /\ ev.win = v
                                            THEN "dead" ELSE win[v].state
      /\ Pending' = Append(Pending, ev) \/ Pending' = Pending
  BY Returned
<1>2. \/ t \in Pushers /\ t # UI /\ ev.evt = "other" /\ ev.win = None
      \/ t = UI /\ ev.win \in Windows /\ win[ev.win].state = "live"
  BY <1>1, Pushed
<1>3. None \notin Windows /\ UI \in Threads /\ Pushers \subseteq Threads
  BY SysEventsAssumption DEF Threads
<1>4. \A u \in Pushers : push'[u] # None => push'[u].ev = [win |-> None, evt |-> "other"]
  BY <1>1, <1>3 DEF EventsInv, Origins
<1>5. Pushing' => push'[UI].ev.win \in Windows /\ win'[push'[UI].ev.win].state = "live"
  BY <1>1, <1>2, <1>3 DEF EventsInv, Origins, Pushing
<1> HIDE DEF ev
<1>6. \A v \in Windows : win[v].state # "none" => win'[v].state # "none"
  BY <1>1
<1>7. \A i \in 1 .. Len(Pending') : Pending'[i].win \in Windows => win'[Pending'[i].win].state # "none"
  <2>1. \A i \in 1 .. Len(Pending) : Pending[i].win \in Windows => win'[Pending[i].win].state # "none"
    BY <1>6 DEF EventsInv, Origins
  <2>2. ev.win \in Windows => win'[ev.win].state # "none"
    BY <1>2, <1>3, <1>6
  <2>3. CASE Pending' = Append(Pending, ev)
    BY <1>1, <2>1, <2>2, <2>3, OneMore
  <2> QED
    BY <1>1, <2>1, <2>3
<1> QED
  BY <1>4, <1>5, <1>7 DEF Origins

LEMMA ReturnAgrees ==
  ASSUME EventsInv, IInv', NEW t \in Threads, PushReturn(t)
  PROVE  Agree'
<1> DEFINE ev == push[t].ev
<1>1. /\ ev \in Events /\ push[t] # None /\ keyarray' = keyarray
      /\ push'[t] = None /\ \A u \in Threads \ {t} : push'[u] = push[u]
      /\ \A v \in Windows : /\ win'[v].sizemove = win[v].sizemove /\ win'[v].size = win[v].size
                            /\ win'[v].state = IF ev.evt = "SYSUI_EVENT_DIE" /\ ev.win = v
                                               THEN "dead" ELSE win[v].state
      /\ \/ Foreseen' = After(Foreseen, ev) /\ lost' = lost \ Subject(ev)
         \/ Foreseen' = Foreseen /\ lost' = lost \cup Subject(ev)
  BY Returned
<1>2. \/ t \in Pushers /\ t # UI /\ ev.evt = "other" /\ ev.win = None
      \/ t = UI /\ Pushing
  BY <1>1, Pushed
<1>3. UI \in Threads
  BY DEF Threads
<1>4. t = UI => ev = push[UI].ev /\ ~Pushing'
  BY <1>1 DEF Pushing
<1>5. t # UI => (Pushing' <=> Pushing) /\ push'[UI] = push[UI]
  BY <1>1, <1>3 DEF Pushing
<1>6. Foreseen \in Knowledge
  BY DEF EventsInv, EventsTyped
<1> HIDE DEF ev
<1>7. ASSUME NEW v \in Windows PROVE SizeAgrees(v)'
  <2>1. SizeAgrees(v)
    BY DEF EventsInv, Agree
  <2>2. <<"size", v>> \in Subject(ev) <=> ev.evt = "SYSUI_EVENT_RESIZE" /\ ev.win = v
    BY <1>1, SubjectIs
  <2>3. After(Foreseen, ev).size[v] = IF ev.evt = "SYSUI_EVENT_RESIZE" /\ ev.win = v
                                      THEN ev.size ELSE Foreseen.size[v]
    BY <1>1, <1>6, AfterIs
  <2>4. CASE t = UI
    BY <1>1, <1>2, <1>4, <2>1, <2>2, <2>3, <2>4 DEF SizeAgrees
  <2>5. CASE t # UI
    BY <1>1, <1>2, <1>5, <2>1, <2>2, <2>3, <2>5 DEF SizeAgrees
  <2> QED
    BY <2>4, <2>5
<1>8. ASSUME NEW k \in Keys PROVE KeyAgrees(k)'
  <2>1. KeyAgrees(k)
    BY DEF EventsInv, Agree
  <2>2. <<"key", k>> \in Subject(ev) <=> ev.evt \in {"SYSUI_EVENT_KEYDOWN", "SYSUI_EVENT_KEYUP"} /\ ev.key = k
    BY <1>1, SubjectIs
  <2>3. After(Foreseen, ev).keys[k] = IF ev.evt \in {"SYSUI_EVENT_KEYDOWN", "SYSUI_EVENT_KEYUP"} /\ ev.key = k
                                      THEN ev.evt = "SYSUI_EVENT_KEYDOWN" ELSE Foreseen.keys[k]
    BY <1>1, <1>6, AfterIs
  <2>4. CASE t = UI
    BY <1>1, <1>2, <1>4, <2>1, <2>2, <2>3, <2>4 DEF KeyAgrees
  <2>5. CASE t # UI
    BY <1>1, <1>2, <1>5, <2>1, <2>2, <2>3, <2>5 DEF KeyAgrees
  <2> QED
    BY <2>4, <2>5
<1> QED
  BY <1>7, <1>8 DEF Agree

LEMMA ReturnLast ==
  ASSUME EventsInv, IInv', NEW t \in Threads, PushReturn(t)
  PROVE  Last'
<1> DEFINE ev == push[t].ev
<1>1. /\ ev \in Events /\ push[t] # None /\ seen' = seen
      /\ \A v \in Windows : win'[v].state = IF ev.evt = "SYSUI_EVENT_DIE" /\ ev.win = v
                                            THEN "dead" ELSE win[v].state
      /\ \/ Pending' = Append(Pending, ev) /\ Foreseen' = After(Foreseen, ev) /\ lost' = lost \ Subject(ev)
         \/ Pending' = Pending /\ Foreseen' = Foreseen /\ lost' = lost \cup Subject(ev)
  BY Returned
<1>2. \/ ev.evt = "other" /\ ev.win = None
      \/ ev.win \in Windows /\ win[ev.win].state = "live"
  BY <1>1, Pushed
<1>3. None \notin Windows
  BY SysEventsAssumption
<1> HIDE DEF ev
<1>4. /\ ~(ev.win \in Windows /\ Dead(ev.win))
      /\ ev.evt = "SYSUI_EVENT_DIE" => ev.win \in Windows
      /\ \A v \in Windows : Dead(v)' <=> Dead(v) \/ (ev.evt = "SYSUI_EVENT_DIE" /\ ev.win = v)
  BY <1>1, <1>2, <1>3 DEF Dead
<1>5. /\ seen.dead \subseteq Windows /\ Foreseen.dead \subseteq Windows
      /\ \A i \in 1 .. Len(Pending) : Pending[i].evt = "SYSUI_EVENT_DIE" => Pending[i].win \in Windows
  BY EventFields DEF EventsInv, EventsTyped, Knowledge
<1>6. After(Foreseen, ev).dead = Foreseen.dead \cup (IF ev.evt = "SYSUI_EVENT_DIE" THEN {ev.win} ELSE {})
  BY <1>1, AfterIs DEF EventsInv, EventsTyped
<1>7. \A v : <<"dead", v>> \in Subject(ev) <=> ev.evt = "SYSUI_EVENT_DIE" /\ ev.win = v
  BY <1>1, SubjectIs
<1>8. /\ \A v \in seen.dead \cup Foreseen.dead : Dead(v)
      /\ \A i \in 1 .. Len(Pending) : Pending[i].win \notin seen.dead
      /\ \A i \in 1 .. Len(Pending) : Pending[i].evt = "SYSUI_EVENT_DIE" => Dead(Pending[i].win)
      /\ \A i, j \in 1 .. Len(Pending) :
           i < j /\ Pending[i].evt = "SYSUI_EVENT_DIE" => Pending[j].win # Pending[i].win
      /\ \A v \in Windows : Dead(v) => (v \in Foreseen.dead <=> <<"dead", v>> \notin lost)
  BY DEF EventsInv, Last
<1>9. \A v \in seen'.dead \cup Foreseen'.dead : Dead(v)'
  BY <1>1, <1>4, <1>5, <1>6, <1>8
<1>10. \A v \in Windows : Dead(v)' => (v \in Foreseen'.dead <=> <<"dead", v>> \notin lost')
  <2> SUFFICES ASSUME NEW v \in Windows, Dead(v)'
               PROVE  v \in Foreseen'.dead <=> <<"dead", v>> \notin lost'
    OBVIOUS
  <2>1. CASE ev.evt = "SYSUI_EVENT_DIE" /\ ev.win = v
    <3>1. ~Dead(v) /\ v \notin Foreseen.dead /\ <<"dead", v>> \in Subject(ev)
      BY <1>4, <1>7, <1>8, <2>1
    <3> QED
      BY <1>1, <1>6, <2>1, <3>1
  <2>2. CASE ~(ev.evt = "SYSUI_EVENT_DIE" /\ ev.win = v)
    <3>1. Dead(v) /\ <<"dead", v>> \notin Subject(ev) /\ (v \in Foreseen.dead <=> <<"dead", v>> \notin lost)
      BY <1>4, <1>7, <1>8, <2>2
    <3>2. v \in After(Foreseen, ev).dead <=> v \in Foreseen.dead
      BY <1>6, <2>2
    <3> QED
      BY <1>1, <3>1, <3>2
  <2> QED
    BY <2>1, <2>2
<1>11. \A v \in Windows : Dead(v)' => win'[v].state = "dead"
  BY DEF Dead
<1>12. /\ \A i \in 1 .. Len(Pending') : Pending'[i].win \notin seen'.dead
       /\ \A i \in 1 .. Len(Pending') : Pending'[i].evt = "SYSUI_EVENT_DIE" => win'[Pending'[i].win].state = "dead"
       /\ \A i, j \in 1 .. Len(Pending') :
            i < j /\ Pending'[i].evt = "SYSUI_EVENT_DIE" => Pending'[j].win # Pending'[i].win
  <2>1. CASE Pending' = Pending
    <3>1. \A i \in 1 .. Len(Pending) : Pending[i].evt = "SYSUI_EVENT_DIE" => win'[Pending[i].win].state = "dead"
      BY <1>4, <1>5, <1>8, <1>11
    <3> QED
      BY ONLY <1>1, <1>8, <2>1, <3>1
  <2>2. CASE Pending' = Append(Pending, ev)
    <3> DEFINE n == Len(Pending)
    <3>1. /\ n \in Nat /\ Pending'[n + 1] = ev
          /\ \A i \in 1 .. n : Pending'[i] = Pending[i]
          /\ \A i \in 1 .. Len(Pending') : i \in 1 .. n \/ i = n + 1
      BY <1>1, <2>2, OneMore
    <3>2. ev.win \notin seen.dead
      BY <1>4, <1>5, <1>8
    <3>3. ASSUME NEW i \in 1 .. Len(Pending') PROVE Pending'[i].win \notin seen'.dead
      BY <1>1, <1>8, <3>1, <3>2
    <3>4. ASSUME NEW i \in 1 .. Len(Pending'), Pending'[i].evt = "SYSUI_EVENT_DIE"
          PROVE  win'[Pending'[i].win].state = "dead"
      BY <1>11, <1>4, <1>5, <1>8, <3>1, <3>4
    <3>5. ASSUME NEW i \in 1 .. Len(Pending'), NEW j \in 1 .. Len(Pending'),
                 i < j, Pending'[i].evt = "SYSUI_EVENT_DIE"
          PROVE  Pending'[j].win # Pending'[i].win
      <4>1. i \in 1 .. n /\ Pending'[i] = Pending[i] /\ i \in Int /\ j \in Int
        BY <3>1, <3>5
      <4>2. CASE j \in 1 .. n
        BY <1>8, <3>1, <3>5, <4>1, <4>2
      <4>3. CASE j = n + 1
        <5>1. Dead(Pending[i].win) /\ Pending[i].win \in Windows
          BY <1>5, <1>8, <3>5, <4>1
        <5> QED
          BY <1>4, <3>1, <4>1, <4>3, <5>1
      <4> QED
        BY <3>1, <4>2, <4>3
    <3> QED
      BY <3>3, <3>4, <3>5
  <2> QED
    BY <1>1, <2>1, <2>2
<1>13. Last'
  <2>1. \A i \in 1 .. Len(Pending') : Pending'[i].evt = "SYSUI_EVENT_DIE" => (Dead(Pending[i].win))'
    BY <1>12 DEF Dead
  <2> QED
    BY ONLY <1>9, <1>10, <1>12, <2>1 DEF Last
<1> QED
  BY <1>13
-----------------------------------------------------------------------------
(* What the client is given it need not be told any more.                  *)
LEMMA TakenIsTold ==
  ASSUME EventsInv, IInv', GetReturn
  PROVE  /\ UNCHANGED <<push, win, keyarray, lost, modal, made>> /\ mutex' = None /\ ui' = "client"
         /\ got' \in Elements /\ seen' \in Knowledge /\ Foreseen' = Foreseen
         /\ \/ Pending' = Pending /\ seen' = seen
            \/ /\ Len(Pending) \in Nat /\ Len(Pending) >= 1 /\ Len(Pending') = Len(Pending) - 1
               /\ \A i \in 1 .. Len(Pending') : Pending'[i] = Pending[i + 1]
               /\ Pending[1] \in Events /\ seen' = After(seen, Pending[1])
<1>1. UNCHANGED <<push, win, keyarray, lost, modal, made, queue, tail>> /\ mutex' = None /\ ui' = "client"
  BY DEF GetReturn
<1>2. CASE head = tail
  <2>1. head' = head /\ seen' = seen /\ got' = None
    BY <1>2 DEF GetReturn
  <2>2. Pending' = Pending /\ Foreseen' = Foreseen
    BY <1>1, <2>1, RingStill
  <2> QED
    BY <1>1, <2>1, <2>2 DEF EventsInv, EventsTyped, Elements
<1>3. CASE head # tail
  <2>1. head' = (head + 1) % Size /\ got' = queue[head] /\ seen' = After(seen, queue[head])
    BY <1>3 DEF GetReturn
  <2>2. Fifo!PopFront(UI)
    BY <1>1, <1>3, <2>1, ReadyHolds, TakeIsPopFront DEF EventsInv, IInv
  <2>3. Pending # <<>> /\ Pending' = Tail(Pending)
    BY <2>2 DEF Fifo!PopFront
  <2>4. Head(Pending) = queue[head]
    <3>1. [t \in {UI} |-> got'] = [[t \in {UI} |-> got] EXCEPT ![UI] = Head(Pending)]
      BY <2>2 DEF Fifo!PopFront
    <3>2. got' = Head(Pending)
      BY <3>1
    <3> QED
      BY <2>1, <3>2
  <2>5. Pending \in Seq(Events)
    BY PendingEvents DEF EventsInv
  <2>6. /\ Len(Pending) \in Nat /\ Len(Pending) >= 1 /\ Len(Pending') = Len(Pending) - 1
        /\ \A i \in 1 .. Len(Pending') : Pending'[i] = Pending[i + 1]
        /\ Pending[1] \in Events /\ Head(Pending) = Pending[1]
    BY <2>3, <2>5, EmptySeq, LenProperties, HeadTailProperties, ElementOfSeq
  <2>7. seen' = After(seen, Pending[1]) /\ got' \in Elements /\ seen' \in Knowledge
    BY <2>1, <2>4, <2>6, AfterIs DEF EventsInv, EventsTyped, Elements
  <2>8. Foreseen' = Foreseen
    <3>1. Foreseen' = Told(After(seen, Head(Pending)), Tail(Pending)) /\ Foreseen = Told(seen, Pending)
      BY <2>1, <2>3, <2>4, ForeseenIsTold, ForeseenNext
    <3>2. Told(After(seen, Head(Pending)), Tail(Pending)) = Told(seen, Pending)
      BY <2>3, <2>5, ToldTail
    <3> QED
      BY <3>1, <3>2
  <2> QED
    BY <1>1, <2>6, <2>7, <2>8
<1> QED
  BY <1>2, <1>3

LEMMA GetReturnKeeps ==
  ASSUME EventsInv, IInv', GetReturn
  PROVE  EventsInv'
<1>1. /\ UNCHANGED <<push, win, keyarray, lost, modal, made>> /\ mutex' = None /\ ui' = "client"
      /\ got' \in Elements /\ seen' \in Knowledge /\ Foreseen' = Foreseen
      /\ \/ Pending' = Pending /\ seen' = seen
         \/ /\ Len(Pending) \in Nat /\ Len(Pending) >= 1 /\ Len(Pending') = Len(Pending) - 1
            /\ \A i \in 1 .. Len(Pending') : Pending'[i] = Pending[i + 1]
            /\ Pending[1] \in Events /\ seen' = After(seen, Pending[1])
  BY TakenIsTold
<1>2. \A i \in 1 .. Len(Pending') : \E j \in 1 .. Len(Pending) : Pending'[i] = Pending[j]
  <2>1. CASE Pending' = Pending
    BY <2>1
  <2>2. CASE Len(Pending) \in Nat /\ Len(Pending') = Len(Pending) - 1
             /\ \A i \in 1 .. Len(Pending') : Pending'[i] = Pending[i + 1]
    <3>1. \A i \in 1 .. Len(Pending') : i + 1 \in 1 .. Len(Pending)
      BY <2>2
    <3> QED
      BY <2>2, <3>1
  <2> QED
    BY <1>1, <2>1, <2>2
<1>3. EventsTyped'
  BY <1>1, <1>2 DEF EventsInv, EventsTyped
<1>4. Origins'
  BY <1>1, <1>2 DEF EventsInv, Origins, Pushing
<1>5. Agree'
  <2>1. ASSUME NEW w \in Windows PROVE SizeAgrees(w)'
    BY <1>1 DEF EventsInv, Agree, SizeAgrees, Pushing
  <2>2. ASSUME NEW k \in Keys PROVE KeyAgrees(k)'
    BY <1>1 DEF EventsInv, Agree, KeyAgrees, Pushing
  <2> QED
    BY <2>1, <2>2 DEF Agree
<1>6. CASE Pending' = Pending /\ seen' = seen
  BY <1>1, <1>3, <1>4, <1>5, <1>6, LastStill DEF EventsInv, Dead
<1>7. CASE /\ Len(Pending) \in Nat /\ Len(Pending) >= 1 /\ Len(Pending') = Len(Pending) - 1
           /\ \A i \in 1 .. Len(Pending') : Pending'[i] = Pending[i + 1]
           /\ Pending[1] \in Events /\ seen' = After(seen, Pending[1])
  <2> DEFINE ev == Pending[1]
  <2>1. Last
    BY DEF EventsInv
  <2>2. seen'.dead = seen.dead \cup (IF ev.evt = "SYSUI_EVENT_DIE" THEN {ev.win} ELSE {})
    BY <1>7, AfterIs DEF EventsInv, EventsTyped
  <2>3. Len(Pending) \in Nat /\ 1 \in 1 .. Len(Pending)
    BY <1>7
  <2>4. \A i \in 1 .. Len(Pending') : i \in Int /\ i >= 1 /\ i + 1 \in 1 .. Len(Pending) /\ 1 < i + 1
    BY <1>7
  <2>5. \A v \in seen'.dead \cup Foreseen'.dead : Dead(v)
    BY <1>1, <2>1, <2>2, <2>3 DEF Last
  <2>6. \A i \in 1 .. Len(Pending') : Pending'[i].win \notin seen'.dead
    <3> SUFFICES ASSUME NEW i \in 1 .. Len(Pending') PROVE Pending[i + 1].win \notin seen'.dead
      BY <1>7
    <3>1. Pending[i + 1].win \notin seen.dead
      BY <2>1, <2>4 DEF Last
    <3>2. ev.evt = "SYSUI_EVENT_DIE" => Pending[i + 1].win # ev.win
      BY <2>1, <2>3, <2>4 DEF Last
    <3> QED
      BY <2>2, <3>1, <3>2
  <2>7. \A i \in 1 .. Len(Pending') : Pending'[i].evt = "SYSUI_EVENT_DIE" => Dead(Pending[i + 1].win)
    BY <1>7, <2>1, <2>4 DEF Last
  <2>8. ASSUME NEW i \in 1 .. Len(Pending'), NEW j \in 1 .. Len(Pending'),
               i < j, Pending'[i].evt = "SYSUI_EVENT_DIE"
        PROVE  Pending'[j].win # Pending'[i].win
    <3>1. i + 1 < j + 1
      BY <2>4, <2>8
    <3>2. Pending'[i] = Pending[i + 1] /\ Pending'[j] = Pending[j + 1]
      BY <1>7
    <3>3. Pending[i + 1].evt = "SYSUI_EVENT_DIE"
      BY <2>8, <3>2
    <3>4. Pending[j + 1].win # Pending[i + 1].win
      BY <2>1, <2>4, <3>1, <3>3 DEF Last
    <3> QED
      BY <3>2, <3>4
  <2>9. \A v \in Windows : Dead(v) => (v \in Foreseen'.dead <=> <<"dead", v>> \notin lost')
    BY <1>1, <2>1 DEF Last
  <2>10. \A v : Dead(v)' <=> Dead(v)
    BY <1>1 DEF Dead
  <2>11. \A i \in 1 .. Len(Pending') : Pending'[i].evt = "SYSUI_EVENT_DIE" => (Dead(Pending[i].win))'
    BY <1>1, <1>7, <2>7 DEF Dead
  <2>12. Last'
    BY ONLY <2>5, <2>6, <2>8, <2>9, <2>10, <2>11 DEF Last
  <2> QED
    BY <1>3, <1>4, <1>5, <2>12 DEF EventsInv
<1> QED
  BY <1>1, <1>6, <1>7

(* The invariant holds where initialize_sysui() ends.                      *)
LEMMA InitTells == Init => EventsInv
<1> SUFFICES ASSUME Init PROVE EventsInv
  OBVIOUS
<1>1. IInv
  BY InitHolds
<1>2. Pending \in Seq(Elements) /\ Len(Pending) = 0
  BY <1>1, PendingIs DEF Init, IInv, Stored, Between
<1>3. Foreseen = seen
  BY <1>2, ForeseenIsTold, ToldNothing
<1>4. /\ seen = [keys |-> keyarray, size |-> [w \in Windows |-> win[w].size], dead |-> {}]
      /\ \A w \in Windows : win[w].state = "none" /\ win[w].size \in Sizes
      /\ keyarray \in [Keys -> BOOLEAN]
  BY SysEventsAssumption DEF Init
<1>5. seen \in Knowledge
  BY <1>4 DEF Knowledge
<1>6. UI \in Threads /\ Pushers \subseteq Threads /\ \A t \in Threads : push[t] = None
  BY DEF Init, Threads
<1>7. EventsTyped
  <2>1. mutex = None /\ ui = "client" /\ modal = FALSE /\ got = None /\ lost = {}
    BY DEF Init
  <2>2. made \in 0 .. MaxEvents
    BY SysEventsAssumption DEF Init
  <2>3. \A i \in 1 .. Len(Pending) : FALSE
    BY <1>2
  <2> QED
    BY <1>3, <1>4, <1>5, <2>1, <2>2, <2>3 DEF EventsTyped, Elements
<1>8. Origins
  BY <1>2, <1>6 DEF Origins, Pushing
<1>9. Agree
  BY <1>3, <1>4, <1>6 DEF Agree, SizeAgrees, KeyAgrees, Pushing
<1>10. Last
  BY <1>2, <1>3, <1>4 DEF Last, Dead
<1> QED
  BY <1>1, <1>7, <1>8, <1>9, <1>10 DEF EventsInv

LEMMA EventsKeep ==
  ASSUME EventsInv, [Next]_vars
  PROVE  EventsInv'
<1>1. IInv'
  BY NextKeeps DEF EventsInv
<1>2. CASE \/ Call \/ PollEmpty \/ Ignored \/ GetLock \/ UNCHANGED vars
           \/ \E t \in Threads : PushLock(t)
           \/ \E t \in Pushers : Post(t)
  BY <1>1, <1>2, QuietSteps, QuietKeeps
<1>3. ASSUME NEW w \in Windows,
             \/ \E s \in Sizes : WM_SIZE(w, s)
             \/ kill(w) \/ WM_ENTERSIZEMOVE(w) \/ WM_EXITSIZEMOVE(w)
             \/ \E k \in Keys : WM_KEYDOWN(w, k) \/ WM_KEYUP(w, k)
             \/ \E evt \in {"SYSUI_EVENT_CLOSE", "other"} : PassOn(w, evt)
      PROVE  EventsInv'
  BY <1>1, <1>3, HandledSteps, HandledKeeps
<1>4. ASSUME NEW t \in Threads, PushReturn(t) PROVE EventsInv'
  BY <1>1, <1>4, ReturnTyped, ReturnOrigins, ReturnAgrees, ReturnLast DEF EventsInv
<1>5. CASE GetReturn
  BY <1>1, <1>5, GetReturnKeeps
<1>6. ASSUME NEW w \in Windows, NEW s \in Sizes, window_create(w, s) PROVE EventsInv'
  BY <1>1, <1>6, NewWindowKeeps
<1>7. CASE UNCHANGED vars
  BY <1>2, <1>7
<1>8. CASE Next
  <2>1. CASE \E t \in Threads : PushLock(t) \/ PushReturn(t)
    BY <1>2, <1>4, <2>1
  <2>2. CASE \E t \in Pushers : Post(t)
    BY <1>2, <2>2
  <2>3. CASE Call \/ PollEmpty \/ Ignored \/ GetLock \/ GetReturn
    BY <1>2, <1>5, <2>3
  <2>4. ASSUME NEW w \in Windows,
               \/ \E s \in Sizes : window_create(w, s) \/ WM_SIZE(w, s)
               \/ kill(w)
               \/ WM_ENTERSIZEMOVE(w) \/ WM_EXITSIZEMOVE(w)
               \/ \E k \in Keys : WM_KEYDOWN(w, k) \/ WM_KEYUP(w, k)
               \/ \E evt \in {"SYSUI_EVENT_CLOSE", "other"} : PassOn(w, evt)
        PROVE  EventsInv'
    BY <1>3, <1>6, <2>4
  <2> QED
    BY <1>8, <2>1, <2>2, <2>3, <2>4 DEF Next
<1> QED
  BY <1>7, <1>8

LEMMA EventsAlways == PartSpec => []EventsInv
<1>1. PartInit => EventsInv
  BY InitTells DEF PartInit
<1>2. EventsInv /\ [PartNext]_<<part, vars, libraryVars, windowVars, desktopVars, dlVars>> => EventsInv'
  <2> SUFFICES ASSUME EventsInv, [PartNext]_<<part, vars, libraryVars, windowVars, desktopVars, dlVars>>
               PROVE  EventsInv'
    OBVIOUS
  <2>1. [Next]_vars
    BY DEF PartNext
  <2> QED
    BY <2>1, EventsKeep
<1> QED
  BY <1>1, <1>2, PTL DEF PartSpec

(* Between messages the client will know the size of every window that is  *)
(* not being sized and the keys that sysin_get_key_state() shows, whatever *)
(* the size of the ring, the number of windows, keys and other threads,    *)
(* and whichever events found the ring full: those cost it no more than    *)
(* what they were about.                                                   *)
THEOREM EventsTellRight == PartSpec => []EventsTell
<1>1. EventsInv => EventsTell
  BY DEF EventsInv, Agree, SizeAgrees, KeyAgrees, Pushing, EventsTell
<1> QED
  BY <1>1, EventsAlways, PTL

(* SYSUI_EVENT_DIE is the last event of its window, and every window that  *)
(* was killed has told so unless the ring was full.                        *)
THEOREM DeathComesLast == PartSpec => []DeathIsLast
<1>1. EventsInv => DeathIsLast
  <2> SUFFICES ASSUME EventsInv PROVE DeathIsLast
    OBVIOUS
  <2>1. TypeOK
    BY DEF EventsInv, IInv, Typed, EventsTyped, TypeOK, Slots, Elements
  <2>2. DOMAIN Pending = 1 .. Len(Pending)
    BY PendingEvents, LenProperties DEF EventsInv
  <2> QED
    BY <2>1, <2>2 DEF EventsInv, Last, Dead, DeathIsLast
<1> QED
  BY <1>1, EventsAlways, PTL
=============================================================================
