---------------------------- MODULE MCSequences ----------------------------
(***************************************************************************)
(* The containers whose elements are in an order or a place of their own,  *)
(* the hash map, strings and paths, the linear allocator, and what queues  *)
(* and pools obtain when they start.  `which` says which of them a        *)
(* behaviour exercises.                                                    *)
(***************************************************************************)
EXTENDS Integers, Sequences, FiniteSets

CONSTANTS
  Values,
  RingSize,                       \* the capacity of the queue
  StackCaps, StackMax,            \* of the stack, and a bound of the model
  ArrayNames, MaxElems,           \* the arrays, and a bound of the model
  Reserve, SizeMod,
  Nodes,
  BlockCaps, Sizes, BlockMax,     \* of the linear allocator,
  MaxHunks, FlagSets, Fails,      \* see LinAlloc
  BitsPerCell, BitSizes,
  MapKeys, MapEntries, HashFn,    \* of the hash map, see HashMap
  LeastCap, MostCap, Wants,
  Empty, Tomb,
  TextMax, TextLimits,            \* of the strings, see Text
  TextSources,
  Letters, PathStrings, PathMax,  \* of the paths, see Paths
  None, Junk, Lost

VARIABLES
  which,
  ring, ringContent,
  stack, stackContent,
  arrays, arrayContent,
  pbegin, pend, node, listContent, outside,
  arena, hunks,
  ptr, live, stage,
  ncells, pbits, ones,
  hash, hashContent,
  buf, text, ret,
  ds, owned,
  path, parts, rooted

Ring == INSTANCE RingQueue WITH
  q <- ring, content <- ringContent, Capacity <- RingSize

Stack == INSTANCE Stack WITH
  s <- stack, content <- stackContent, Caps <- StackCaps, MaxCap <- StackMax

Arrays == INSTANCE DArray WITH
  arr <- arrays, content <- arrayContent, Arrays <- ArrayNames, MaxCap <- MaxElems

List == INSTANCE List WITH content <- listContent

Arena == INSTANCE LinAlloc WITH
  a <- arena, Caps <- BlockCaps, MaxCap <- BlockMax

Memory == INSTANCE QueueMemory WITH Null <- None

Bits == INSTANCE BitVec

Hash == INSTANCE HashMap WITH
  m <- hash, content <- hashContent, Keys <- MapKeys, Entries <- MapEntries,
  MinCap <- LeastCap, MaxCap <- MostCap

Chars == INSTANCE Text WITH
  MaxLen <- TextMax, Limits <- TextLimits, Sources <- TextSources

Path == INSTANCE Paths WITH Strings <- PathStrings, MaxSize <- PathMax

ringVars == <<ring, ringContent>>
stackVars == <<stack, stackContent>>
arrayVars == <<arrays, arrayContent>>
listVars == <<pbegin, pend, node, listContent, outside>>
arenaVars == <<arena, hunks>>
memoryVars == <<ptr, live, stage>>
bitVars == <<ncells, pbits, ones>>
hashVars == <<hash, hashContent>>
textVars == <<buf, text, ret>>
stringVars == <<ds, owned>>
pathVars == <<path, parts, rooted>>
sequenceVars ==
  <<ringVars, stackVars, arrayVars, listVars, arenaVars, memoryVars, bitVars, hashVars,
    textVars, stringVars, pathVars>>

(* NULL is no node and no block of elements, and no content of a field     *)
(* that nobody has written is an object.                                   *)
ASSUME SequencesAssumption ==
  /\ RingSize \in Nat \ {0}
  /\ StackCaps \subseteq Nat
  /\ MaxElems \in Nat /\ Reserve \in Nat \ {0} /\ SizeMod \in Nat
  /\ BlockCaps \subseteq Nat /\ Sizes \subseteq Nat
  /\ BitsPerCell \in Nat \ {0} /\ BitSizes \subseteq Nat
  /\ None \notin Nodes
  /\ None # "own" /\ Junk # "own"
  /\ \A n \in 1 .. RingSize + MaxElems + Reserve : None \notin [0 .. n - 1 -> Values \cup {Junk}]

(* The least table of a hash map, 16 in the code, is one of which 85 %     *)
(* leave a bucket empty; and an entry is no mark of an empty bucket.       *)
ASSUME HashAssumption ==
  /\ IsFiniteSet(MapKeys) /\ HashFn \in [MapKeys -> Nat]
  /\ LeastCap \in Nat /\ LeastCap >= 8 /\ Wants \subseteq Nat
  /\ Empty # Tomb
  /\ \A e \in MapEntries :
       /\ e[1] \in MapKeys /\ e[2] # None
       /\ [key |-> e[1], val |-> e[2]] \notin {Empty, Tomb}

(* Characters are ASCII codes, a string ends before its NUL, and NULL is   *)
(* no block of characters.                                                 *)
ASSUME TextAssumption ==
  /\ TextMax \in Nat \ {0} /\ TextLimits \subseteq 0 .. TextMax
  /\ TextSources \subseteq Seq(1 .. 127)
  /\ \A n \in 0 .. TextMax \cup UNION {0 .. Len(s) : s \in TextSources} :
       None \notin [0 .. n -> 0 .. 127]

(* Paths are made of names and separators.                                 *)
ASSUME PathAssumption ==
  /\ Letters \cap Path!Separators = {}
  /\ PathStrings \subseteq Seq(Letters \cup Path!Separators)
-----------------------------------------------------------------------------
SequencesInit ==
  /\ Ring!Init /\ Stack!Init /\ Arrays!Init /\ List!Init
  /\ Memory!Init /\ Bits!Init /\ Hash!Init /\ Path!Init
  /\ Chars!TextInit /\ Chars!StringInit
  /\ Arena!Init /\ (which # "arena" => arena.flags = {})

SequencesNext ==
  /\ which' = which
  /\ IF which = "ring" THEN Ring!Next ELSE UNCHANGED ringVars
  /\ IF which = "stack" THEN Stack!Next ELSE UNCHANGED stackVars
  /\ IF which = "array" THEN Arrays!Next ELSE UNCHANGED arrayVars
  /\ IF which = "list" THEN List!Next ELSE UNCHANGED listVars
  /\ IF which = "arena" THEN Arena!Next ELSE UNCHANGED arenaVars
  /\ IF which = "memory" THEN Memory!Next ELSE UNCHANGED memoryVars
  /\ IF which = "bits" THEN Bits!Next ELSE UNCHANGED bitVars
  /\ IF which = "hash" THEN Hash!Next ELSE UNCHANGED hashVars
  /\ IF which = "text" THEN Chars!TextNext ELSE UNCHANGED textVars
  /\ IF which = "string" THEN Chars!StringNext ELSE UNCHANGED stringVars
  /\ IF which = "path" THEN Path!Next ELSE UNCHANGED pathVars

SequencesSpec == SequencesInit /\ [][SequencesNext]_<<which, sequenceVars>>

(* The queue, the stack, the arrays, the list and the bit vector hold what *)
(* was put there, in order, but for what their modules name: what the      *)
(* growth of a wrapped stack puts out of reach, and an array after a call  *)
(* that dg_darray.h says other things of or that reaches outside.  A path  *)
(* keeps the names that it was made of; and the string functions do to a   *)
(* buffer what they say, within its bounds, as do the calls of a           *)
(* dg_string_t to what it holds.                                           *)
SequencesHold ==
  /\ Ring!HoldsContent /\ Stack!HoldsContent /\ Arrays!HoldsContent /\ List!HoldsContent
  /\ Bits!HoldsBits /\ Path!KeepsNames /\ Chars!HoldsText /\ Chars!HoldsString

(* The searches of the hash map end, because the counters that decide when *)
(* to rebuild its table are right (dg_map.h:236), NAME_get() finds what    *)
(* was set and not erased, and a loop meets every entry once, also while   *)
(* it erases some (dg_map.h:358).                                          *)
MapFinds == Hash!ProbesEnd /\ Hash!FindsContent /\ Hash!LoopsMeetAll

(* The hunks of the linear allocator share no byte; and what the start of  *)
(* a memory pool or an interlocked queue has got, also one that failed, is *)
(* given back by its end, and not lost before.                             *)
MemoryHeld == Arena!HunksApart /\ Memory!GivenBack

(* "pointer to allocated memory or NULL on failure" (dg_linalloc.h:101):   *)
(* a hunk handed out from a block of the linear allocator lies in it.      *)
HunksInside == Arena!HunksInside
=============================================================================
