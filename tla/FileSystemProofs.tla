------------------------- MODULE FileSystemProofs -------------------------
(***************************************************************************)
(* Proofs about the file system, for every number of threads, search       *)
(* paths, handles, files and directories.  First the registry: the mutex,  *)
(* and what the entries say although each begins inside the one before.    *)
(* Then the streams, and last the tree of directories.                     *)
(***************************************************************************)
EXTENDS MCFileSystem, FiniteSetTheorems, SequenceTheorems, TLAPS

Words == Ids \cup {Zero, Size}
Pointers == Strings \cup {Null} \cup Ids
Blocks == [0 .. Entries -> [lo : Words, hi : Pointers]]
Inside == {t \in Threads : call[t] # None}

Typed ==
  /\ mem \in Blocks
  /\ num \in 0 .. Entries
  /\ mutex \in [owner : Threads \cup {None}, depth : 0 .. MaxDepth]
  /\ call \in [Threads -> CallStates \cup {None}]
  /\ registered \in [Ids -> Strings \cup {Null, None}]
  /\ issued \subseteq [handle : 0 .. Entries - 1, id : Ids]
  /\ spoilt \subseteq Ids

\* Only the owner is inside.
Locked == Inside \subseteq {mutex.owner}

\* One entry at most has the name of an id, and it only if it was added.
Alone(id) ==
  /\ \A i, j \in Named(id) : i = j
  /\ registered[id] = None => Named(id) = {}

\* No neighbour has written over the id or the path of the entry.
Kept(id) ==
  id \notin spoilt /\ registered[id] # None =>
    \E i \in Named(id) : pstring(i) = registered[id]

Entered ==
  /\ \A id \in Ids : Alone(id) /\ Kept(id)
  /\ \A k \in issued : k.id \notin spoilt => k.handle \in Named(k.id)

\* What a call has found is still so when it acts.
Found ==
  \A t \in Inside :
    /\ call[t].at = "act" /\ call[t].c.op # "path" => call[t].found = Find(call[t].c.id)
    /\ call[t].at = "find" => call[t].c.op # "path"

IInv == Typed /\ Locked /\ Entered /\ Found
-----------------------------------------------------------------------------
(* The kinds of calls.                                                     *)
LEMMA CallKinds ==
  ASSUME NEW c \in Calls
  PROVE  /\ c.op \in {"add", "id", "path"}
         /\ c.op = "add" => c.id \in Ids /\ c.path \in Strings /\ c.over \in BOOLEAN
         /\ c.op = "id" => c.id \in Ids
         /\ c.op = "path" => c.handle \in 0 .. Entries - 1
BY DEF Calls

(* What fsi_search_path_by_id() finds.                                     *)
LEMMA FindIs ==
  ASSUME Typed, Entered, NEW id \in Ids
  PROVE  /\ Find(id) = None <=> Named(id) = {}
         /\ Find(id) # None => /\ Find(id) \in 0 .. num - 1
                               /\ Find(id) \in 0 .. Entries - 1
                               /\ Named(id) = {Find(id)}
<1>1. num \in Nat /\ num <= Entries /\ Entries \in Nat /\ None \notin Nat /\ Alone(id)
  BY SearchPathsAssumption DEF Typed, Entered
<1>2. CASE Named(id) = {}
  BY <1>1, <1>2 DEF Find
<1>3. CASE Named(id) # {}
  <2>1. PICK i \in 0 .. num - 1 : Named(id) = {i}
    <3>1. PICK i \in Named(id) : TRUE
      BY <1>3
    <3>2. i \in 0 .. num - 1 /\ \A j \in Named(id) : j = i
      BY <1>1, <3>1 DEF Alone, Named
    <3> QED
      BY <3>1, <3>2
  <2>2. \A j \in {i} : i <= j
    BY <1>1, <2>1
  <2>3. Find(id) = i
    <3>1. Find(id) = CHOOSE k \in {i} : \A j \in {i} : k <= j
      BY <2>1 DEF Find
    <3> QED
      BY <2>2, <3>1
  <2> QED
    BY <1>1, <1>3, <2>1, <2>3
<1> QED
  BY <1>2, <1>3

LEMMA InitHolds == PathsInit => IInv
<1> SUFFICES ASSUME PathsInit PROVE IInv
  OBVIOUS
<1>1. Inside = {}
  BY DEF Inside, PathsInit
<1>2. Entries \in Nat /\ MaxDepth \in Nat
  BY SearchPathsAssumption
<1>3. Typed
  BY <1>2 DEF PathsInit, Typed, Words, Pointers, Blocks
<1>4. Locked /\ Found
  BY <1>1 DEF PathsInit, Locked, Found
<1>5. Entered
  BY <1>2 DEF PathsInit, Entered, Alone, Kept, Named
<1> QED
  BY <1>3, <1>4, <1>5 DEF IInv

\* The step leaves what is registered as it was.
Same == UNCHANGED <<mem, num, registered, spoilt>>

LEMMA SameKeeps ==
  ASSUME Same
  PROVE  /\ \A id : Named(id)' = Named(id) /\ Find(id)' = Find(id)
         /\ \A id : Alone(id)' = Alone(id) /\ Kept(id)' = Kept(id)
         /\ \A i : pstring(i)' = pstring(i)
BY DEF Same, Named, Find, pstring, Alone, Kept

(* A thread that calls is inside alone.                                    *)
LEMMA LockKeeps ==
  ASSUME IInv, NEW t \in Threads, NEW c \in Calls, Lock(t, c)
  PROVE  IInv'
<1> DEFINE s == [c |-> c, at |-> IF c.op = "path" THEN "act" ELSE "find", found |-> None]
<1>1. /\ call[t] = None /\ mutex.owner \in {None, t} /\ mutex.depth < MaxDepth
      /\ mutex' = [owner |-> t, depth |-> mutex.depth + 1]
      /\ call' = [call EXCEPT ![t] = s]
      /\ Same /\ issued' = issued
  BY DEF Lock, Same
<1>2. s \in CallStates /\ s # None
  BY SearchPathsAssumption DEF CallStates
<1>3. /\ mutex.depth \in 0 .. MaxDepth /\ MaxDepth \in Nat
  BY SearchPathsAssumption DEF IInv, Typed
<1>4. Typed'
  BY <1>1, <1>2, <1>3 DEF IInv, Typed, Same
<1>5. Inside = {} /\ Inside' = {t}
  <2>1. Inside = {}
    BY <1>1, SearchPathsAssumption DEF IInv, Locked, Inside
  <2> HIDE DEF s
  <2>2. \A u \in Threads : call'[u] = IF u = t THEN s ELSE call[u]
    BY <1>1 DEF IInv, Typed
  <2> QED
    BY <1>2, <2>1, <2>2 DEF Inside
<1>6. Locked'
  BY <1>1, <1>5 DEF Locked
<1>7. Entered'
  BY <1>1, SameKeeps DEF IInv, Entered, Same
<1>8. Found'
  <2>1. call'[t] = s
    BY <1>1 DEF IInv, Typed
  <2>2. s.at = "act" <=> c.op = "path"
    OBVIOUS
  <2> QED
    BY <1>5, <2>1, <2>2 DEF Found
<1> QED
  BY <1>4, <1>6, <1>7, <1>8 DEF IInv

LEMMA SearchKeeps ==
  ASSUME IInv, NEW t \in Threads, Search(t)
  PROVE  IInv'
<1>1. /\ call[t] # None /\ call[t] \in CallStates
      /\ call' = [call EXCEPT ![t] = [c |-> call[t].c, at |-> "act", found |-> Find(call[t].c.id)]]
      /\ Same /\ mutex' = mutex /\ issued' = issued
  BY DEF Search, Same, IInv, Typed
<1>2. PICK c \in Calls : c = call[t].c /\ c.id \in Ids
  <2>1. t \in Inside /\ call[t].at = "find" /\ call[t].c \in Calls
    BY <1>1 DEF Search, Inside, CallStates
  <2> QED
    BY <2>1, CallKinds DEF IInv, Found
<1>3. Find(c.id) \in 0 .. Entries - 1 \cup {None}
  BY <1>2, FindIs DEF IInv
<1> DEFINE s == [c |-> c, at |-> "act", found |-> Find(c.id)]
<1>4. s \in CallStates /\ s # None
  BY <1>2, <1>3, SearchPathsAssumption DEF CallStates
<1>5. call' = [call EXCEPT ![t] = s]
  BY <1>1, <1>2
<1>6. Typed'
  BY <1>1, <1>4, <1>5 DEF IInv, Typed, Same
<1>7. Inside' = Inside /\ t \in Inside /\ \A u \in Inside : u = t
  <2> HIDE DEF s
  <2> QED
    BY <1>1, <1>4, <1>5 DEF IInv, Typed, Inside, Locked
<1>8. Locked'
  BY <1>1, <1>7 DEF IInv, Locked
<1>9. Entered'
  BY <1>1, SameKeeps DEF IInv, Entered, Same
<1>10. Found'
  <2>1. call'[t] = s
    BY <1>5 DEF IInv, Typed
  <2>2. Find(c.id)' = Find(c.id)
    BY <1>1, SameKeeps
  <2> QED
    BY <1>7, <2>1, <2>2 DEF Found
<1> QED
  BY <1>6, <1>8, <1>9, <1>10 DEF IInv
-----------------------------------------------------------------------------
\* The call of t comes to its end.
Ends(t) == t \in Inside /\ call[t].at = "act" /\ call' = [call EXCEPT ![t] = None]

(* The mutex and the calls, when one ends that unlocks or forgets to.      *)
LEMMA EndsLocked ==
  ASSUME IInv, NEW t \in Threads, Ends(t), Unlock(t) \/ mutex' = mutex
  PROVE  /\ mutex' \in [owner : Threads \cup {None}, depth : 0 .. MaxDepth]
         /\ call' \in [Threads -> CallStates \cup {None}]
         /\ Inside' = {} /\ Locked'
<1>1. Inside = {t}
  BY DEF IInv, Locked, Ends, Inside
<1>2. Inside' = {}
  BY <1>1 DEF Ends, Inside, IInv, Typed
<1>3. call' \in [Threads -> CallStates \cup {None}]
  BY DEF Ends, IInv, Typed
<1>4. mutex \in [owner : Threads \cup {None}, depth : 0 .. MaxDepth] /\ MaxDepth \in Nat
  BY SearchPathsAssumption DEF IInv, Typed
<1>5. mutex' \in [owner : Threads \cup {None}, depth : 0 .. MaxDepth]
  BY <1>4 DEF Unlock
<1> QED
  BY <1>2, <1>3, <1>5 DEF Locked

(* A call that adds nothing.                                               *)
LEMMA ReadKeeps ==
  ASSUME IInv, NEW t \in Threads,
         AddExists(t) \/ AddFull(t) \/ GetPathId(t) \/ GetPathById(t)
  PROVE  IInv'
<1>1. Ends(t) /\ Same /\ (Unlock(t) \/ mutex' = mutex)
  BY DEF AddExists, AddFull, GetPathId, GetPathById, Acts, Ends, Same, Unlock, Inside
<1>2. Inside' = {} /\ Locked'
  BY <1>1, EndsLocked
<1>3. /\ issued' \subseteq [handle : 0 .. Entries - 1, id : Ids]
      /\ \A k \in issued' : k.id \notin spoilt => k.handle \in Named(k.id)
  <2>1. CASE GetPathId(t)
    <3>1. call[t] \in CallStates /\ call[t].c.op = "id" /\ t \in Inside
      BY <2>1 DEF GetPathId, Acts, IInv, Typed, Inside
    <3>2. call[t].c.id \in Ids
      BY <3>1, CallKinds DEF CallStates
    <3>3. call[t].found = Find(call[t].c.id)
      BY <2>1, <3>1 DEF GetPathId, Acts, IInv, Found
    <3>4. call[t].found # None => /\ call[t].found \in Named(call[t].c.id)
                                  /\ call[t].found \in 0 .. Entries - 1
      BY <3>2, <3>3, FindIs DEF IInv
    <3> QED
      BY <2>1, <3>2, <3>4 DEF GetPathId, IInv, Typed, Entered
  <2>2. CASE ~ GetPathId(t)
    BY <2>2 DEF AddExists, AddFull, GetPathById, IInv, Typed, Entered
  <2> QED
    BY <2>1, <2>2
<1>4. Typed'
  BY <1>1, <1>3, EndsLocked DEF IInv, Typed, Same
<1>5. Entered'
  <2>1. spoilt' = spoilt
    BY <1>1 DEF Same
  <2> QED
    BY <1>1, <1>3, <2>1, SameKeeps DEF IInv, Entered
<1> QED
  BY <1>2, <1>4, <1>5 DEF IInv, Found
-----------------------------------------------------------------------------
(* What path_copy_string() changes: the block behind the one it begins in. *)
LEMMA StorePathIs ==
  ASSUME NEW m \in Blocks, NEW i \in 0 .. Entries - 1, NEW p \in Strings \cup {Null}
  PROVE  /\ StorePath(m, i, p) \in Blocks
         /\ StorePath(m, i, p)[i + 1].hi = p
         /\ StorePath(m, i, p)[i + 1].lo \in {m[i + 1].lo, Zero, Size}
         /\ \A j \in 0 .. Entries : j # i + 1 => StorePath(m, i, p)[j] = m[j]
<1>1. i + 1 \in 0 .. Entries
  BY SearchPathsAssumption
<1>2. CASE p = Null
  BY <1>1, <1>2 DEF StorePath, Words, Pointers, Blocks
<1>3. CASE p # Null
  BY <1>1, <1>3 DEF StorePath, Words, Pointers, Blocks
<1> QED
  BY <1>2, <1>3

(* An entry gets another path: the block that is written over may be that  *)
(* of the next entry's id, which is then lost, and no other is.            *)
LEMMA OverrideKeeps ==
  ASSUME IInv, NEW t \in Threads, AddOverride(t)
  PROVE  IInv'
<1>0. PICK c \in Calls : c = call[t].c
  BY DEF AddOverride, Acts, IInv, Typed, CallStates
<1>i. PICK i : i = call[t].found
  OBVIOUS
<1>1. /\ Ends(t) /\ Unlock(t) /\ num' = num /\ issued' = issued
      /\ c.op = "add" /\ i # None /\ t \in Inside /\ pstring(i) \notin Ids
      /\ spoilt' = spoilt \cup {id \in Ids : i + 1 < num /\ mem[i + 1].lo = id /\ mem'[i + 1].lo # id}
  BY <1>0, <1>i DEF AddOverride, Acts, Ends, Unlock, Inside
<1>2. PICK p \in {c.path, Null} : /\ mem' = StorePath(mem, i, p)
                                  /\ registered' = [registered EXCEPT ![c.id] = p]
  BY <1>0, <1>i DEF AddOverride
<1>3. c.id \in Ids /\ p \in Strings \cup {Null} /\ p # None
  BY <1>1, <1>2, CallKinds, SearchPathsAssumption
<1>4. i = Find(c.id)
  BY <1>0, <1>i, <1>1 DEF IInv, Found, Ends
<1>5. i \in 0 .. num - 1 /\ i \in 0 .. Entries - 1 /\ Named(c.id) = {i} /\ num \in 0 .. Entries
      /\ Entries \in Nat
  BY <1>1, <1>3, <1>4, FindIs, SearchPathsAssumption DEF IInv, Typed
<1>6. /\ mem' \in Blocks
      /\ mem'[i + 1].hi = p /\ mem'[i + 1].lo \in {mem[i + 1].lo, Zero, Size}
      /\ \A j \in 0 .. Entries : j # i + 1 => mem'[j] = mem[j]
  BY <1>2, <1>3, <1>5, StorePathIs DEF IInv, Typed
<1>7. spoilt \subseteq spoilt' /\ spoilt' \subseteq Ids
  BY <1>1 DEF IInv, Typed
<1>8. Typed'
  <2>1. registered' \in [Ids -> Strings \cup {Null, None}]
    BY <1>2, <1>3 DEF IInv, Typed
  <2> QED
    BY <1>1, <1>6, <1>7, <2>1, EndsLocked DEF IInv, Typed
<1>9. \A j \in 0 .. num - 1 : j \in 0 .. Entries /\ j + 1 \in 0 .. Entries /\ j # j + 1
  BY <1>5
<1>10. ASSUME NEW id \in Ids PROVE Named(id)' \subseteq Named(id)
  <2> SUFFICES ASSUME NEW j \in 0 .. num - 1, mem'[j].lo = id, id \notin CutIds,
                      id \in LongIds => mem'[j].hi = id
               PROVE  mem[j].lo = id /\ (id \in LongIds => mem[j].hi = id)
    BY <1>1 DEF Named
  <2>1. CASE j # i + 1
    BY <1>6, <1>9, <2>1
  <2>2. CASE j = i + 1
    <3>1. mem[j].lo = id
      BY <1>6, <2>2, SearchPathsAssumption
    <3>2. id \notin LongIds
      BY <1>3, <1>6, <2>2, SearchPathsAssumption
    <3> QED
      BY <3>1, <3>2
  <2> QED
    BY <2>1, <2>2
<1>11. ASSUME NEW id \in Ids \ spoilt', NEW j \in Named(id) PROVE j \in Named(id)'
  <2>1. j \in 0 .. num - 1 /\ mem[j].lo = id /\ id \notin CutIds /\ (id \in LongIds => mem[j].hi = id)
    BY DEF Named
  <2>2. CASE j # i + 1
    BY <1>1, <1>6, <1>9, <2>1, <2>2 DEF Named
  <2>3. CASE j = i + 1
    <3>1. id \notin LongIds
      BY <1>1, <2>1, <2>3 DEF pstring
    <3>2. mem'[j].lo = id
      BY <1>1, <1>5, <2>1, <2>3
    <3> QED
      BY <1>1, <2>1, <3>1, <3>2 DEF Named
  <2> QED
    BY <2>2, <2>3
<1>12. ASSUME NEW id \in Ids PROVE Alone(id)' /\ Kept(id)'
  <2>0. Alone(id) /\ Kept(id)
    BY DEF IInv, Entered
  <2>1. CASE id = c.id
    <3>1. registered'[id] = p /\ registered[id] # None
      <4>1. registered'[id] = p
        BY <1>2, <1>3, <2>1 DEF IInv, Typed
      <4>2. registered[id] # None
        BY <1>5, <2>0, <2>1 DEF Alone
      <4> QED
        BY <4>1, <4>2
    <3>2. Alone(id)'
      <4>1. Named(id)' \subseteq Named(id) /\ registered'[id] # None
        BY <1>3, <1>10, <3>1
      <4> QED
        BY <2>0, <4>1 DEF Alone
    <3>3. i \in Named(id) /\ pstring(i)' = p
      BY <1>5, <1>6, <2>1 DEF pstring
    <3>4. Kept(id)'
      BY <1>11, <3>1, <3>3 DEF Kept
    <3> QED
      BY <3>2, <3>4
  <2>2. CASE id # c.id
    <3>1. registered'[id] = registered[id]
      BY <1>2, <1>3, <2>2 DEF IInv, Typed
    <3>2. Alone(id)'
      BY <1>10, <2>0, <3>1 DEF Alone
    <3>3. ASSUME id \notin spoilt', registered[id] # None
          PROVE  \E j \in Named(id)' : pstring(j)' = registered[id]
      <4>1. PICK j \in Named(id) : pstring(j) = registered[id]
        BY <1>7, <2>0, <3>3 DEF Kept
      <4>2. j \in 0 .. num - 1 /\ mem[j].lo = id /\ mem[i].lo = c.id
        BY <1>5 DEF Named
      <4>3. j + 1 \in 0 .. Entries /\ j + 1 # i + 1
        BY <1>5, <1>9, <2>2, <4>2
      <4>4. pstring(j)' = pstring(j)
        BY <1>6, <4>3 DEF pstring
      <4>5. j \in Named(id)'
        BY <1>11, <3>3
      <4> QED
        BY <4>1, <4>4, <4>5
    <3>4. Kept(id)'
      BY <3>1, <3>3 DEF Kept
    <3> QED
      BY <3>2, <3>4
  <2> QED
    BY <2>1, <2>2
<1>13. \A k \in issued' : k.id \notin spoilt' => k.handle \in Named(k.id)'
  <2> SUFFICES ASSUME NEW k \in issued, k.id \notin spoilt' PROVE k.handle \in Named(k.id)'
    BY <1>1
  <2>1. k.id \in Ids \ spoilt' /\ k.handle \in Named(k.id)
    BY <1>7 DEF IInv, Typed, Entered
  <2> QED
    BY <1>11, <2>1
<1>14. Entered'
  BY <1>12, <1>13 DEF Entered
<1> QED
  BY <1>1, <1>8, <1>14, EndsLocked DEF IInv, Found

(* A new entry has its id where the path of the one before lies, and that  *)
(* path is lost if the id fills two words.                                 *)
LEMMA NewKeeps ==
  ASSUME IInv, NEW t \in Threads, AddNew(t)
  PROVE  IInv'
<1>0. PICK c \in Calls : c = call[t].c
  BY DEF AddNew, Acts, IInv, Typed, CallStates
<1>1. /\ Ends(t) /\ Unlock(t) /\ num' = num + 1 /\ issued' = issued
      /\ c.op = "add" /\ call[t].found = None /\ t \in Inside /\ num < Entries
      /\ spoilt' = spoilt \cup ({c.id} \cap CutIds)
                     \cup {id \in Ids : num > 0 /\ mem[num - 1].lo = id /\ c.id \in LongIds}
  BY <1>0 DEF AddNew, Acts, Ends, Unlock, Inside
<1> DEFINE m == StoreId(mem, num, c.id)
<1>2. PICK p \in {c.path, Null} : /\ mem' = StorePath(m, num, p)
                                  /\ registered' = [registered EXCEPT ![c.id] = p]
  BY <1>0 DEF AddNew
<1>3. c.id \in Ids /\ p \in Strings \cup {Null} /\ p # None
  BY <1>1, <1>2, CallKinds, SearchPathsAssumption
<1>4. num \in 0 .. Entries - 1 /\ num \in Nat /\ Entries \in Nat /\ num \in 0 .. Entries
  BY <1>1, SearchPathsAssumption DEF IInv, Typed
<1>5. Named(c.id) = {}
  <2>1. Find(c.id) = None
    BY <1>0, <1>1 DEF IInv, Found, Ends
  <2> QED
    BY <1>3, <2>1, FindIs DEF IInv
<1>6. /\ m \in Blocks /\ m[num].lo = c.id
      /\ m[num].hi = IF c.id \in LongIds THEN c.id ELSE mem[num].hi
      /\ \A j \in 0 .. Entries : j # num => m[j] = mem[j]
  <2>1. mem \in Blocks /\ c.id \in Words /\ c.id \in Pointers
    BY <1>3 DEF IInv, Typed, Words, Pointers
  <2> QED
    BY <1>4, <2>1 DEF StoreId, Blocks
<1> HIDE DEF m
<1>7. /\ mem' \in Blocks
      /\ mem'[num + 1].hi = p /\ mem'[num].lo = c.id
      /\ mem'[num].hi = IF c.id \in LongIds THEN c.id ELSE mem[num].hi
      /\ \A j \in 0 .. num - 1 : mem'[j] = mem[j]
  <2>1. /\ num # num + 1
        /\ \A j \in 0 .. num - 1 : j \in 0 .. Entries /\ j # num /\ j # num + 1
    BY <1>4
  <2>2. /\ mem' \in Blocks
        /\ mem'[num + 1].hi = p
        /\ \A j \in 0 .. Entries : j # num + 1 => mem'[j] = m[j]
    BY <1>2, <1>3, <1>4, <1>6, StorePathIs
  <2> QED
    BY <1>4, <1>6, <2>1, <2>2
<1>8. spoilt \subseteq spoilt' /\ spoilt' \subseteq Ids /\ (c.id \in CutIds => c.id \in spoilt')
  BY <1>1, <1>3 DEF IInv, Typed
<1>9. Typed'
  <2>1. num + 1 \in 0 .. Entries
    BY <1>4
  <2>2. registered' \in [Ids -> Strings \cup {Null, None}]
    BY <1>2, <1>3 DEF IInv, Typed
  <2> QED
    BY <1>1, <1>7, <1>8, <2>1, <2>2, EndsLocked DEF IInv, Typed
<1>10. /\ Named(c.id)' = IF c.id \in CutIds THEN {} ELSE {num}
       /\ \A id \in Ids : id # c.id => Named(id)' = Named(id)
  <2>1. /\ \A j \in 0 .. num' - 1 : j = num \/ j \in 0 .. num - 1
        /\ \A j \in 0 .. num - 1 : j \in 0 .. num' - 1
        /\ num \in 0 .. num' - 1
    BY <1>1, <1>4
  <2>2. ASSUME c.id \notin CutIds PROVE num \in Named(c.id)'
    BY <1>7, <2>1, <2>2 DEF Named
  <2>3. \A j \in 0 .. num - 1 : j \notin Named(c.id)'
    BY <1>5, <1>7 DEF Named
  <2>4. Named(c.id)' \subseteq 0 .. num' - 1 /\ (c.id \in CutIds => Named(c.id)' = {})
    BY DEF Named
  <2>5. Named(c.id)' = IF c.id \in CutIds THEN {} ELSE {num}
    BY <2>1, <2>2, <2>3, <2>4
  <2>6. ASSUME NEW id \in Ids, id # c.id PROVE Named(id)' = Named(id)
    <3>1. \A j \in 0 .. num - 1 : j \in Named(id)' <=> j \in Named(id)
      BY <1>7, <2>1 DEF Named
    <3>2. num \notin Named(id)'
      BY <1>7, <2>6 DEF Named
    <3>3. Named(id)' \subseteq 0 .. num' - 1 /\ Named(id) \subseteq 0 .. num - 1
      BY DEF Named
    <3> QED
      BY <2>1, <3>1, <3>2, <3>3
  <2> QED
    BY <2>5, <2>6
<1>11. ASSUME NEW id \in Ids PROVE Alone(id)' /\ Kept(id)'
  <2>0. Alone(id) /\ Kept(id)
    BY DEF IInv, Entered
  <2>1. CASE id = c.id
    <3>1. registered'[id] = p
      BY <1>2, <1>3, <2>1 DEF IInv, Typed
    <3>2. Alone(id)'
      BY <1>3, <1>10, <2>1, <3>1 DEF Alone
    <3>3. Kept(id)'
      BY <1>7, <1>8, <1>10, <2>1, <3>1 DEF Kept, pstring
    <3> QED
      BY <3>2, <3>3
  <2>2. CASE id # c.id
    <3>1. registered'[id] = registered[id]
      BY <1>2, <1>3, <2>2 DEF IInv, Typed
    <3>2. Alone(id)'
      BY <1>10, <2>0, <2>2, <3>1 DEF Alone
    <3>3. ASSUME id \notin spoilt', registered[id] # None
          PROVE  \E j \in Named(id)' : pstring(j)' = registered[id]
      <4>1. PICK j \in Named(id) : pstring(j) = registered[id]
        BY <1>8, <2>0, <3>3 DEF Kept
      <4>2. j \in 0 .. num - 1 /\ mem[j].lo = id
        BY DEF Named
      <4>3. CASE j + 1 # num
        <5>1. j + 1 \in 0 .. num - 1
          BY <1>4, <4>2, <4>3
        <5> QED
          BY <1>7, <1>10, <2>2, <4>1, <5>1 DEF pstring
      <4>4. CASE j + 1 = num
        <5>1. num > 0 /\ j = num - 1
          BY <1>4, <4>2, <4>4
        <5>2. c.id \notin LongIds
          BY <1>1, <3>3, <4>2, <5>1
        <5>3. pstring(j)' = pstring(j)
          BY <1>7, <4>4, <5>2 DEF pstring
        <5> QED
          BY <1>10, <2>2, <4>1, <5>3
      <4> QED
        BY <4>3, <4>4
    <3>4. Kept(id)'
      BY <3>1, <3>3 DEF Kept
    <3> QED
      BY <3>2, <3>4
  <2> QED
    BY <2>1, <2>2
<1>12. \A k \in issued' : k.id \notin spoilt' => k.handle \in Named(k.id)'
  <2> SUFFICES ASSUME NEW k \in issued, k.id \notin spoilt' PROVE k.handle \in Named(k.id)'
    BY <1>1
  <2>1. k.id \in Ids /\ k.handle \in Named(k.id)
    BY <1>8 DEF IInv, Typed, Entered
  <2> QED
    BY <1>5, <1>10, <2>1
<1>13. Entered'
  BY <1>11, <1>12 DEF Entered
<1> QED
  BY <1>1, <1>9, <1>13, EndsLocked DEF IInv, Found
-----------------------------------------------------------------------------
LEMMA NextKeeps ==
  ASSUME IInv, [Next]_fsVars
  PROVE  IInv'
<1>1. ASSUME NEW t \in Threads, PathStep(t) PROVE IInv'
  <2>1. ASSUME NEW c \in Calls, Lock(t, c) PROVE IInv'
    BY <2>1, LockKeeps
  <2> QED
    BY <1>1, <2>1, SearchKeeps, ReadKeeps, OverrideKeeps, NewKeeps DEF PathStep
<1>2. CASE UNCHANGED pathVars
  <2>1. Same /\ call' = call /\ Inside' = Inside
    BY <1>2 DEF pathVars, Same, Inside
  <2> QED
    BY <1>2, <2>1, SameKeeps DEF pathVars, IInv, Typed, Locked, Entered, Found
<1> QED
  BY <1>1, <1>2 DEF Next, fsVars

(* Every number of entries and threads, ids of any length and overrides in *)
(* any order, whatever malloc() refuses: no two entries have one id, none  *)
(* has an id that was not added, and one whose entry no neighbour has      *)
(* written over is found by its handle, with the path last stored for it.  *)
THEOREM EveryNameKept == Spec => []NamesKept
<1>1. IInv => NamesKept
  <2> SUFFICES ASSUME IInv PROVE NamesKept
    OBVIOUS
  <2>1. PathsOK
    <3>1. \A t \in Threads : call[t] # None => call[t].c \in Calls
      BY DEF IInv, Typed, CallStates
    <3> QED
      BY <3>1, SMTT(30) DEF IInv, Typed, PathsOK, Words, Pointers, Blocks
  <2>2. ASSUME NEW id \in Ids
        PROVE  Cardinality(Named(id)) <= 1 /\ (registered[id] = None => Named(id) = {})
    <3>1. Named(id) = {} \/ Named(id) = {Find(id)}
      BY FindIs DEF IInv
    <3>2. Cardinality(Named(id)) \in {0, 1}
      <4>1. Cardinality({}) = 0 /\ \A x : Cardinality({x}) = 1
        BY FS_EmptySet, FS_Singleton
      <4> QED
        BY <3>1, <4>1
    <3> QED
      BY <3>2 DEF IInv, Entered, Alone
  <2>3. ASSUME NEW id \in Ids \ spoilt, registered[id] # None
        PROVE  \E i \in Named(id) : pstring(i) = registered[id]
    BY <2>3 DEF IInv, Entered, Kept
  <2>4. ASSUME NEW k \in issued, k.id \notin spoilt PROVE Named(k.id) = {k.handle}
    BY <2>4 DEF IInv, Typed, Entered, Alone
  <2> QED
    BY <2>1, <2>2, <2>3, <2>4 DEF NamesKept
<1>2. Init => IInv
  BY InitHolds DEF Init
<1> QED
  BY <1>1, <1>2, NextKeeps, PTL DEF Spec
-----------------------------------------------------------------------------
(***************************************************************************)
(* The streams.  HandleAllocProofs gives the table of handles; what is     *)
(* added is whose object each block holds, and what each stored value has  *)
(* left in the content.                                                    *)
(***************************************************************************)

HP == INSTANCE HandleAllocProofs

Bytes == 0 .. 255

LEMMA FunctionSeq ==
  ASSUME NEW S, NEW n \in Nat, NEW f \in [1 .. n -> S]
  PROVE  f \in Seq(S) /\ Len(f) = n
<1>1. f \in Seq(S)
  BY SeqDef
<1>2. Len(f) \in Nat /\ 1 .. Len(f) = 1 .. n
  BY <1>1, LenProperties
<1> QED
  BY <1>1, <1>2

LEMMA ReverseTwice ==
  ASSUME NEW S, NEW v \in Seq(S)
  PROVE  /\ Reverse(v) \in Seq(S) /\ Len(Reverse(v)) = Len(v)
         /\ Reverse(Reverse(v)) = v
<1> DEFINE n == Len(v)  r == Reverse(v)
<1>1. n \in Nat /\ v \in [1 .. n -> S]
  BY LenProperties
<1>2. \A i \in 1 .. n : n - i + 1 \in 1 .. n /\ n - (n - i + 1) + 1 = i
  BY <1>1
<1>3. r = [i \in 1 .. n |-> v[n - i + 1]]
  BY DEF Reverse
<1> HIDE DEF n, r
<1>4. r \in [1 .. n -> S]
  BY <1>1, <1>2, <1>3
<1>5. r \in Seq(S) /\ Len(r) = n
  BY <1>1, <1>4, FunctionSeq
<1>6. Reverse(r) = [i \in 1 .. n |-> r[n - i + 1]]
  BY <1>5 DEF Reverse
<1>7. \A i \in 1 .. n : Reverse(r)[i] = v[i]
  BY <1>2, <1>3, <1>6
<1>8. Reverse(r) = v
  BY <1>1, <1>6, <1>7
<1> QED
  BY <1>5, <1>8 DEF n, r

(* A value is decoded to what was encoded, in as many bytes.               *)
LEMMA EncodeKeeps ==
  ASSUME NEW v \in Seq(Bytes), NEW e \in Endians
  PROVE  /\ Encode(v, e) \in Seq(Bytes) /\ Len(Encode(v, e)) = Len(v)
         /\ Decode(Encode(v, e), e) = v
         /\ e = "FS_BE" => Encode(v, e) = v
BY ReverseTwice DEF Encode, Decode, Endians

(* What SubSeq() gives from the first element on.                          *)
LEMMA FirstBytes ==
  ASSUME NEW S, NEW v \in Seq(S), NEW n \in 0 .. Len(v)
  PROVE  /\ SubSeq(v, 1, n) \in Seq(S) /\ Len(SubSeq(v, 1, n)) = n
         /\ \A i \in 1 .. n : SubSeq(v, 1, n)[i] = v[i]
<1>1. /\ Len(v) \in Nat /\ n \in Nat /\ n \in Int /\ 1 \in Int
      /\ n - 1 + 1 = n /\ \A i \in 1 .. n : i \in 1 .. Len(v) /\ 1 + i - 1 = i
  BY LenProperties
<1>2. \A i \in 1 .. n : v[i] \in S
  BY <1>1, ElementOfSeq
<1>3. /\ SubSeq(v, 1, n) \in Seq(S)
      /\ Len(SubSeq(v, 1, n)) = IF 1 <= n THEN n - 1 + 1 ELSE 0
      /\ \A i \in 1 .. n - 1 + 1 : SubSeq(v, 1, n)[i] = v[1 + i - 1]
  BY <1>1, <1>2, SubSeqProperties
<1> QED
  BY <1>1, <1>3

(* The bytes of s from a place on, when they are those of v.               *)
LEMMA PartIs ==
  ASSUME NEW s \in Seq(Bytes), NEW p \in Nat, NEW v \in Seq(Bytes), NEW n \in 0 .. Len(v),
         \A i \in 1 .. Len(v) : p + i <= Len(s) /\ s[p + i] = v[i]
  PROVE  Part(s, p, n) = SubSeq(v, 1, n)
<1>1. Len(s) \in Nat /\ Len(v) \in Nat /\ n \in Nat
  BY LenProperties
<1>2. CASE n = 0
  <2> DEFINE m == IF p + n < Len(s) THEN p + n ELSE Len(s)
  <2>1. m \in Int /\ m < p + 1 /\ p + 1 \in Int /\ 0 < 1 /\ 0 \in Int /\ 1 \in Int
    BY <1>1, <1>2
  <2>2. Part(s, p, n) = SubSeq(s, p + 1, m)
    BY DEF Part
  <2> HIDE DEF m
  <2>3. SubSeq(s, p + 1, m) = <<>> /\ SubSeq(v, 1, 0) = <<>>
    BY <2>1, SubSeqEmpty
  <2> QED
    BY <1>2, <2>2, <2>3
<1>3. CASE n > 0
  <2> DEFINE a == p + 1  z == p + n
  <2>1. /\ a \in Int /\ z \in Int /\ a <= z /\ z - a + 1 = n /\ z <= Len(s)
        /\ \A i \in 1 .. n : a + i - 1 = p + i /\ i \in 1 .. Len(v)
        /\ \A j \in a .. z : j \in 1 .. Len(s)
    BY <1>1, <1>3
  <2>2. Part(s, p, n) = SubSeq(s, a, z)
    <3>1. (IF p + n < Len(s) THEN p + n ELSE Len(s)) = z
      BY <1>1, <2>1
    <3> QED
      BY <3>1 DEF Part
  <2> HIDE DEF a, z
  <2>3. \A j \in a .. z : s[j] \in Bytes
    BY <2>1, ElementOfSeq
  <2>4. /\ SubSeq(s, a, z) \in Seq(Bytes)
        /\ Len(SubSeq(s, a, z)) = IF a <= z THEN z - a + 1 ELSE 0
        /\ \A i \in 1 .. z - a + 1 : SubSeq(s, a, z)[i] = s[a + i - 1]
    BY <2>1, <2>3, SubSeqProperties
  <2>5. \A i \in 1 .. n : SubSeq(s, a, z)[i] = SubSeq(v, 1, n)[i]
    <3>1. \A i \in 1 .. n : SubSeq(v, 1, n)[i] = v[i]
      BY FirstBytes
    <3> QED
      BY <2>1, <2>4, <3>1
  <2>6. SubSeq(v, 1, n) \in Seq(Bytes) /\ Len(SubSeq(v, 1, n)) = n
    BY FirstBytes
  <2>7. Len(SubSeq(s, a, z)) = n
    BY <2>1, <2>4
  <2>8. SubSeq(s, a, z) = SubSeq(v, 1, n)
    BY <2>4, <2>5, <2>6, <2>7, SeqEqual
  <2> QED
    BY <2>2, <2>8
<1> QED
  BY <1>1, <1>2, <1>3

(* How many bytes a read gets.                                             *)
LEMMA PartLen ==
  ASSUME NEW s \in Seq(Bytes), NEW p \in Nat, NEW n \in Nat
  PROVE  Len(Part(s, p, n)) \in Nat
         /\ (Len(Part(s, p, n)) = 0 \/ p + Len(Part(s, p, n)) <= Len(s))
<1> DEFINE a == p + 1  z == IF p + n < Len(s) THEN p + n ELSE Len(s)
<1>1. Part(s, p, n) = SubSeq(s, a, z)
  BY DEF Part
<1>2. /\ Len(s) \in Nat /\ a \in Int /\ z \in Int /\ z <= Len(s) /\ a >= 1
      /\ \A j \in a .. z : j \in 1 .. Len(s)
      /\ a <= z => z - a + 1 \in Nat /\ p + (z - a + 1) <= Len(s)
  BY LenProperties
<1> HIDE DEF a, z
<1>3. \A j \in a .. z : s[j] \in Bytes
  BY <1>2, ElementOfSeq
<1>4. Len(SubSeq(s, a, z)) = IF a <= z THEN z - a + 1 ELSE 0
  BY <1>2, <1>3, SubSeqProperties
<1> QED
  BY <1>1, <1>2, <1>4

(* What a write leaves of a content.                                       *)
LEMMA OverlayIs ==
  ASSUME NEW s \in Seq(Bytes), NEW p \in Nat, NEW b \in Seq(Bytes)
  PROVE  LET l == IF Len(s) > p + Len(b) THEN Len(s) ELSE p + Len(b) IN
         /\ Overlay(s, p, b) \in Seq(Bytes) /\ Len(Overlay(s, p, b)) = l
         /\ \A i \in 1 .. Len(b) : Overlay(s, p, b)[p + i] = b[i]
         /\ \A i \in 1 .. Len(s) : i <= p \/ i > p + Len(b) => Overlay(s, p, b)[i] = s[i]
<1> DEFINE l == IF Len(s) > p + Len(b) THEN Len(s) ELSE p + Len(b)
           r == Overlay(s, p, b)
<1>1. Len(s) \in Nat /\ Len(b) \in Nat /\ l \in Nat /\ Len(s) <= l /\ p + Len(b) <= l
  BY LenProperties
<1>2. r = [i \in 1 .. l |->
             IF i > p /\ i <= p + Len(b) THEN b[i - p] ELSE IF i <= Len(s) THEN s[i] ELSE 0]
  BY DEF Overlay
<1> HIDE DEF l, r
<1>3. /\ \A i \in 1 .. Len(s) : s[i] \in Bytes
      /\ \A i \in 1 .. Len(b) : b[i] \in Bytes
      /\ 0 \in Bytes
  <2>1. 0 \in Bytes
    BY DEF Bytes
  <2> QED
    BY <2>1, ElementOfSeq
<1>4. ASSUME NEW i \in 1 .. l PROVE r[i] \in Bytes
  <2>1. i > p /\ i <= p + Len(b) => i - p \in 1 .. Len(b)
    BY <1>1
  <2>2. i <= Len(s) => i \in 1 .. Len(s)
    BY <1>1
  <2> QED
    BY <1>2, <1>3, <2>1, <2>2
<1>5. r \in [1 .. l -> Bytes]
  BY <1>2, <1>4
<1>6. r \in Seq(Bytes) /\ Len(r) = l
  BY <1>1, <1>5, FunctionSeq
<1>7. \A i \in 1 .. Len(b) : r[p + i] = b[i]
  <2>1. \A i \in 1 .. Len(b) : p + i \in 1 .. l /\ p + i > p /\ p + i <= p + Len(b) /\ p + i - p = i
    BY <1>1
  <2> QED
    BY <1>2, <2>1
<1>8. \A i \in 1 .. Len(s) : i <= p \/ i > p + Len(b) => r[i] = s[i]
  BY <1>1, <1>2
<1> QED
  BY <1>6, <1>7, <1>8 DEF l, r
-----------------------------------------------------------------------------
StreamsTyped ==
  /\ body \in [H!Indices -> [file : BOOLEAN, write : BOOLEAN, pos : 0 .. MaxFile,
                             obj : Objects \cup {Nothing}]]
  /\ opened \in [held -> Objects \cup {Nothing}]
  /\ DOMAIN data = Objects
  /\ \A o \in Objects : data[o] # Nothing => data[o] \in Seq(Bytes) /\ Len(data[o]) <= MaxFile
  /\ \A b \in Buffers : data[b] # Nothing /\ Len(data[b]) = BufSize
  /\ written \in [Objects -> [0 .. MaxFile -> StoredValues \cup {Nothing}]]

\* The block of a stream is of the object that the stream was opened on.
Own(h) ==
  /\ Block(h).obj = opened[h]
  /\ data[opened[h]] # Nothing
  /\ IF Block(h).file THEN opened[h] \in Files
     ELSE opened[h] \in Buffers /\ Block(h).pos <= BufSize

\* The bytes of the value w are in the content s from place q on.
Stands(w, s, q) ==
  LET b == Encode(w.value, w.endian) IN
  s # Nothing /\ \A i \in 1 .. Len(b) : q + i <= Len(s) /\ s[q + i] = b[i]

Stored == \A o \in Objects, q \in 0 .. MaxFile :
  written[o][q] # Nothing => Stands(written[o][q], data[o], q)

StreamInv ==
  /\ HP!GenerationInv
  /\ StreamsTyped
  /\ \A h \in Streams : Own(h)
  /\ Stored

(* The assumptions, by module.                                             *)
LEMMA TableAssumption == HP!HandleAssumption
BY StreamsAssumption DEF H!HandleAssumption, HP!HandleAssumption

(* What the table says of the handles.                                     *)
LEMMA TableSays ==
  ASSUME HP!GenerationInv
  PROVE  /\ H!TypeOK
         /\ \A h \in held : h.index \in H!Indices /\ H!is_valid_handle(h)
         /\ \A g, h \in held : g.index = h.index => g = h
         /\ \A i \in H!Indices : H!Busy(i) => \E h \in held : h.index = i /\ H!is_valid_handle(h)
<1>1. H!TypeOK
  BY DEF HP!GenerationInv, HP!TypeOK, H!TypeOK, HP!Indices, H!Indices, HP!Handles, H!Handles,
         HP!Generations, H!Generations
<1>2. /\ \A h \in held : h.index \in H!Indices /\ H!is_valid_handle(h)
      /\ \A g, h \in held : g.index = h.index => g = h
  BY DEF HP!GenerationInv, HP!TypeOK, HP!Indices, H!Indices, HP!Handles, HP!HeldAreValid,
         HP!is_valid_handle, H!is_valid_handle
<1>3. ASSUME NEW i \in H!Indices, H!Busy(i)
      PROVE  \E h \in held : h.index = i /\ H!is_valid_handle(h)
  <2>1. HP!Handle(i) \in held /\ HP!Handle(i).index = i
    BY <1>3 DEF HP!GenerationInv, HP!BusyAreHeld, HP!Busy, H!Busy, HP!Indices, H!Indices, HP!Handle
  <2> QED
    BY <1>2, <2>1
<1> QED
  BY <1>1, <1>2, <1>3

(* ha_alloc_handle() gives a handle of a slot that no other handle has.    *)
LEMMA AllocIs ==
  ASSUME HP!NoWrap, HP!GenerationInv, NEW i \in H!Indices, H!alloc_handle(i)
  PROVE  /\ HP!GenerationInv'
         /\ \A h \in held : h.index # i
         /\ \E h : h \notin held /\ h.index = i /\ held' = held \cup {h}
<1>1. HP!alloc_handle(i) /\ i \in HP!Indices
  BY DEF H!alloc_handle, HP!alloc_handle, H!Turn, HP!Turn, H!Busy, HP!Busy, H!Indices, HP!Indices
<1>2. HP!GenerationInv'
  BY <1>1, TableAssumption, HP!GenerationNext DEF HP!Next
<1>3. \A h \in held : h.index # i
  BY <1>1 DEF HP!alloc_handle, HP!GenerationInv, HP!HeldAreValid
<1> DEFINE h == [index |-> i, gen |-> pgenerations'[i]]
<1>4. h \notin held /\ h.index = i /\ held' = held \cup {h}
  BY <1>1, <1>3 DEF HP!alloc_handle
<1> HIDE DEF h
<1> QED
  BY <1>2, <1>3, <1>4

(* ha_free_handle() takes a handle that is held.                           *)
LEMMA FreeIs ==
  ASSUME HP!NoWrap, HP!GenerationInv, NEW h \in held \cup freed, H!free_handle(h)
  PROVE  /\ HP!GenerationInv'
         /\ h \in held /\ held' = held \ {h}
<1>1. HP!free_handle(h)
  BY DEF H!free_handle, HP!free_handle, H!Turn, HP!Turn, H!is_valid_handle, HP!is_valid_handle
<1>2. HP!GenerationInv'
  BY <1>1, TableAssumption, HP!GenerationNext DEF HP!Next
<1>3. h \notin freed
  <2>1. pgenerations[h.index] = h.gen
    BY <1>1 DEF HP!free_handle, HP!is_valid_handle
  <2>2. h.index \in HP!Indices /\ h.gen \in Int
    BY TableAssumption DEF HP!GenerationInv, HP!TypeOK, HP!Handles, HP!Generations, HP!HandleAssumption
  <2> QED
    BY <2>1, <2>2 DEF HP!GenerationInv
<1> QED
  BY <1>1, <1>2, <1>3 DEF HP!free_handle

(* A slot that is opened and closed at once is free again, two generations *)
(* on.                                                                     *)
LEMMA TwiceIs ==
  ASSUME HP!NoWrap, HP!GenerationInv, OpenedAndClosed
  PROVE  HP!GenerationInv'
<1>1. PICK i \in H!Indices :
        /\ ~H!Busy(i) /\ turns[i] + 2 <= MaxTurns
        /\ turns' = [turns EXCEPT ![i] = @ + 2]
        /\ pgenerations' = [pgenerations EXCEPT ![i] = (@ + 2) % GenSize]
        /\ held' = held /\ freed' = freed
  BY DEF OpenedAndClosed
<1>2. /\ pgenerations \in [H!Indices -> 0 .. GenSize - 1]
      /\ turns \in [H!Indices -> 0 .. MaxTurns]
      /\ \A j \in H!Indices : pgenerations[j] = turns[j]
  BY DEF HP!GenerationInv, HP!TypeOK, HP!Indices, H!Indices, HP!Generations
<1>3. MaxTurns \in Nat /\ GenSize \in Nat \ {0} /\ MaxTurns < GenSize /\ nhandles \in Nat
  BY TableAssumption DEF HP!HandleAssumption, HP!NoWrap
<1>4. /\ turns[i] \in Nat /\ pgenerations[i] = turns[i]
      /\ (pgenerations[i] + 2) % GenSize = turns[i] + 2
      /\ turns[i] + 2 \in 0 .. MaxTurns /\ turns[i] + 2 \in 0 .. GenSize - 1
  BY <1>1, <1>2, <1>3
<1>5. /\ pgenerations'[i] = turns[i] + 2 /\ turns'[i] = turns[i] + 2
      /\ \A j \in H!Indices : j # i => pgenerations'[j] = pgenerations[j] /\ turns'[j] = turns[j]
      /\ pgenerations' \in [H!Indices -> 0 .. GenSize - 1]
      /\ turns' \in [H!Indices -> 0 .. MaxTurns]
  BY <1>1, <1>2, <1>4
<1>6. \A h \in held : h.index \in H!Indices /\ h.index # i
  BY <1>1 DEF HP!GenerationInv, HP!TypeOK, HP!Handles, HP!HeldAreValid, HP!Indices, H!Indices,
              HP!Busy, H!Busy
<1>7. HP!TypeOK'
  BY <1>1, <1>5 DEF HP!GenerationInv, HP!TypeOK, HP!Indices, H!Indices, HP!Generations, HP!Handles
<1>8. HP!HeldAreValid'
  BY <1>1, <1>5, <1>6 DEF HP!GenerationInv, HP!HeldAreValid, HP!is_valid_handle, HP!Busy
<1>9. \A h \in freed' : h.gen < pgenerations'[h.index]
  <2> SUFFICES ASSUME NEW h \in freed PROVE h.gen < pgenerations'[h.index]
    BY <1>1
  <2>1. /\ h.index \in H!Indices /\ h.gen \in Int /\ h.gen < pgenerations[h.index]
        /\ pgenerations[h.index] \in Int
    BY <1>2, <1>3 DEF HP!GenerationInv, HP!TypeOK, HP!Handles, HP!Generations, HP!Indices, H!Indices
  <2> QED
    BY <1>4, <1>5, <2>1
<1>10. HP!BusyAreHeld'
  <2> SUFFICES ASSUME NEW j \in H!Indices
               PROVE  HP!Busy(j)' <=> HP!Handle(j)' \in held'
    BY DEF HP!BusyAreHeld, HP!Indices, H!Indices
  <2>1. CASE j = i
    <3>1. ~HP!Busy(j)'
      <4>1. turns[i] % 2 # 1
        BY <1>1, <1>4 DEF H!Busy
      <4>2. (turns[i] + 2) % 2 # 1
        BY <1>4, <4>1
      <4> QED
        BY <1>5, <2>1, <4>2 DEF HP!Busy
    <3>2. HP!Handle(j)' \notin held'
      BY <1>1, <1>6, <2>1 DEF HP!Handle
    <3> QED
      BY <3>1, <3>2
  <2>2. CASE j # i
    <3>1. HP!Busy(j)' = HP!Busy(j) /\ HP!Handle(j)' = HP!Handle(j)
      BY <1>5, <2>2 DEF HP!Busy, HP!Handle
    <3> QED
      BY <1>1, <3>1 DEF HP!GenerationInv, HP!BusyAreHeld, HP!Indices, H!Indices
  <2> QED
    BY <2>1, <2>2
<1>11. \A j \in HP!Indices : pgenerations'[j] = turns'[j]
  BY <1>2, <1>5 DEF HP!Indices, H!Indices
<1> QED
  BY <1>7, <1>8, <1>9, <1>10, <1>11 DEF HP!GenerationInv
-----------------------------------------------------------------------------
LEMMA StreamsInitHolds == StreamsInit => StreamInv
<1> SUFFICES ASSUME StreamsInit PROVE StreamInv
  OBVIOUS
<1>1. HP!GenerationInv
  <2>1. HP!Init
    BY DEF StreamsInit, H!Init, HP!Init, H!Indices, HP!Indices
  <2> QED
    BY <2>1, TableAssumption, HP!GenerationInit
<1>2. held = {} /\ opened = <<>> /\ opened \in [held -> Objects \cup {Nothing}] /\ Streams = {}
  BY DEF StreamsInit, H!Init, Streams
<1>3. MaxFile \in Nat /\ BufSize \in Nat /\ BufSize <= MaxFile
  BY StreamsAssumption
<1>4. /\ body \in [H!Indices -> [file : BOOLEAN, write : BOOLEAN, pos : 0 .. MaxFile,
                             obj : Objects \cup {Nothing}]]
      /\ written \in [Objects -> [0 .. MaxFile -> StoredValues \cup {Nothing}]]
      /\ \A o \in Objects, q \in 0 .. MaxFile : written[o][q] = Nothing
  BY <1>3 DEF StreamsInit, Unused
<1> DEFINE zeroes == [i \in 1 .. BufSize |-> 0]
<1>5. zeroes \in Seq(Bytes) /\ Len(zeroes) = BufSize
  <2>1. zeroes \in [1 .. BufSize -> Bytes]
    BY DEF Bytes
  <2> HIDE DEF zeroes
  <2> QED
    BY <1>3, <2>1, FunctionSeq
<1>6. zeroes # Nothing
  BY <1>5, StreamsAssumption DEF Bytes
<1>7. data = [o \in Objects |-> IF o \in Buffers THEN zeroes ELSE Nothing]
  BY DEF StreamsInit
<1> HIDE DEF zeroes
<1>8. StreamsTyped
  <2>1. \A b \in Buffers : b \in Objects
    BY DEF Objects
  <2> QED
    BY <1>2, <1>3, <1>4, <1>5, <1>6, <1>7, <2>1 DEF StreamsTyped
<1> QED
  BY <1>1, <1>2, <1>4, <1>8 DEF StreamInv, Stored

(* A new handle leaves the others what they are open on.                   *)
LEMMA HandleOpened ==
  ASSUME HP!NoWrap, StreamInv, NEW i \in H!Indices, H!alloc_handle(i),
         NEW o \in Objects \cup {Nothing}, Opened(o)
  PROVE  /\ HP!GenerationInv' /\ opened' \in [held' -> Objects \cup {Nothing}]
         /\ \A g \in Streams : g.index # i /\ opened'[g] = opened[g]
         /\ \A g \in Streams' : \/ g \in Streams
                                \/ g.index = i /\ opened'[g] = o /\ o # Nothing
<1>1. /\ HP!GenerationInv'
      /\ \A h \in held : h.index # i
      /\ \E h : h \notin held /\ h.index = i /\ held' = held \cup {h}
  BY AllocIs DEF StreamInv
<1>2. PICK h : h \notin held /\ h.index = i /\ held' = held \cup {h}
  BY <1>1
<1>3. opened' = [g \in held' |-> IF g \in held THEN opened[g] ELSE o]
      /\ opened \in [held -> Objects \cup {Nothing}]
  BY DEF Opened, StreamInv, StreamsTyped
<1> QED
  BY <1>1, <1>2, <1>3 DEF Streams

LEMMA OpenBufferKeeps ==
  ASSUME HP!NoWrap, StreamInv, NEW b \in Buffers, OpenBuffer(b)
  PROVE  StreamInv'
<1> DEFINE k == [file |-> FALSE, write |-> TRUE, pos |-> 0, obj |-> b]
<1>1. PICK i \in H!Indices : H!alloc_handle(i) /\ body' = [body EXCEPT ![i] = k] /\ Opened(b)
  BY DEF OpenBuffer
<1>2. data' = data /\ written' = written /\ b \in Objects
  BY DEF OpenBuffer, Objects
<1>3. /\ HP!GenerationInv' /\ opened' \in [held' -> Objects \cup {Nothing}]
      /\ \A g \in Streams : g.index # i /\ opened'[g] = opened[g]
      /\ \A g \in Streams' : g \in Streams \/ (g.index = i /\ opened'[g] = b)
  BY <1>1, <1>2, HandleOpened
<1>4. k \in [file : BOOLEAN, write : BOOLEAN, pos : 0 .. MaxFile, obj : Objects \cup {Nothing}]
      /\ k.file = FALSE /\ k.pos = 0 /\ k.obj = b /\ 0 <= BufSize /\ b # Nothing
  BY <1>2, StreamsAssumption
<1> HIDE DEF k
<1>5. StreamsTyped'
  BY <1>1, <1>2, <1>3, <1>4 DEF StreamInv, StreamsTyped
<1>6. ASSUME NEW g \in Streams' PROVE Own(g)'
  <2>1. CASE g \in Streams
    <3>1. Own(g) /\ body'[g.index] = body[g.index] /\ opened'[g] = opened[g]
      BY <1>1, <1>3, <2>1 DEF StreamInv, StreamsTyped
    <3> QED
      BY <1>2, <3>1 DEF Own, Block
  <2>2. CASE g.index = i /\ opened'[g] = b
    <3>1. body'[g.index] = k /\ data[b] # Nothing
      BY <1>1, <2>2 DEF StreamInv, StreamsTyped
    <3> QED
      BY <1>2, <1>4, <2>2, <3>1 DEF Own, Block
  <2> QED
    BY <1>3, <2>1, <2>2
<1> QED
  BY <1>2, <1>3, <1>5, <1>6 DEF StreamInv, Stored

\* A handle is given out, but open on nothing.
OpenFails ==
  \E i \in H!Indices : H!alloc_handle(i) /\ Opened(Nothing) /\ UNCHANGED <<body, data, written>>

LEMMA OpenFailsKeeps ==
  ASSUME HP!NoWrap, StreamInv, OpenFails
  PROVE  StreamInv'
<1>1. PICK i \in H!Indices : H!alloc_handle(i) /\ Opened(Nothing)
  BY DEF OpenFails
<1>2. body' = body /\ data' = data /\ written' = written
  BY DEF OpenFails
<1>3. /\ HP!GenerationInv' /\ opened' \in [held' -> Objects \cup {Nothing}]
      /\ \A g \in Streams : opened'[g] = opened[g]
      /\ Streams' \subseteq Streams
  BY <1>1, HandleOpened
<1>4. StreamsTyped'
  BY <1>2, <1>3 DEF StreamInv, StreamsTyped
<1>5. \A g \in Streams' : Own(g)'
  BY <1>2, <1>3 DEF StreamInv, Own, Block
<1> QED
  BY <1>2, <1>3, <1>4, <1>5 DEF StreamInv, Stored

(* A file that is opened for writing is empty, and nothing is left of what *)
(* was stored in it.                                                       *)
LEMMA EmptiedKeeps ==
  ASSUME StreamInv, NEW f \in Files,
         data' = [data EXCEPT ![f] = <<>>], written' = Store(f, 0, MaxFile, Nothing)
  PROVE  /\ DOMAIN data' = Objects
         /\ \A o \in Objects : data'[o] # Nothing => data'[o] \in Seq(Bytes) /\ Len(data'[o]) <= MaxFile
         /\ \A b \in Buffers : data'[b] # Nothing /\ Len(data'[b]) = BufSize
         /\ \A o \in Objects : data[o] # Nothing => data'[o] # Nothing
         /\ data'[f] # Nothing
         /\ written' \in [Objects -> [0 .. MaxFile -> StoredValues \cup {Nothing}]]
         /\ Stored'
<1>1. f \in Objects /\ MaxFile \in Nat /\ f \notin Buffers
  BY StreamsAssumption DEF Objects
<1>2. <<>> \in Seq(Bytes) /\ Len(<<>>) = 0 /\ <<>> # Nothing
  BY EmptySeq, StreamsAssumption DEF Bytes
<1>3. StreamsTyped /\ Stored
  BY DEF StreamInv
<1>4. /\ data'[f] = <<>> /\ DOMAIN data' = Objects
      /\ \A o \in Objects : o # f => data'[o] = data[o]
  BY <1>1, <1>3 DEF StreamsTyped
<1>5. \A b \in Buffers : b \in Objects /\ b # f
  BY <1>1 DEF Objects
<1>6. /\ \A o \in Objects : data'[o] # Nothing => data'[o] \in Seq(Bytes) /\ Len(data'[o]) <= MaxFile
      /\ \A b \in Buffers : data'[b] # Nothing /\ Len(data'[b]) = BufSize
      /\ \A o \in Objects : data[o] # Nothing => data'[o] # Nothing
  BY <1>1, <1>2, <1>3, <1>4, <1>5 DEF StreamsTyped
<1> DEFINE row == [q \in DOMAIN written[f] |->
             IF written[f][q] # Nothing /\ q < 0 + MaxFile /\ 0 < q + Len(written[f][q].value)
             THEN Nothing ELSE written[f][q]]
<1>7. written' = [written EXCEPT ![f] = row]
  BY DEF Store
<1>8. /\ written \in [Objects -> [0 .. MaxFile -> StoredValues \cup {Nothing}]]
      /\ DOMAIN written[f] = 0 .. MaxFile
  BY <1>1, <1>3 DEF StreamsTyped
<1>9. /\ row \in [0 .. MaxFile -> StoredValues \cup {Nothing}]
      /\ \A q \in 0 .. MaxFile : row[q] # Nothing =>
           row[q] = written[f][q] /\ (q >= MaxFile \/ q + Len(written[f][q].value) <= 0)
  <2>1. \A q \in 0 .. MaxFile : written[f][q] # Nothing =>
          q \in Int /\ Len(written[f][q].value) \in Nat
    <3>1. \A q \in 0 .. MaxFile : written[f][q] # Nothing => written[f][q].value \in Seq(Bytes)
      BY <1>1, <1>8, StreamsAssumption DEF StoredValues, Bytes
    <3> QED
      BY <1>1, <3>1, LenProperties
  <2> QED
    BY <1>1, <1>8, <2>1
<1> HIDE DEF row
<1>10. /\ written' \in [Objects -> [0 .. MaxFile -> StoredValues \cup {Nothing}]]
       /\ written'[f] = row /\ \A o \in Objects : o # f => written'[o] = written[o]
  BY <1>1, <1>7, <1>8, <1>9
<1>11. ASSUME NEW o \in Objects, NEW q \in 0 .. MaxFile, written'[o][q] # Nothing
       PROVE  Stands(written'[o][q], data'[o], q)
  <2>1. CASE o # f
    BY <1>3, <1>4, <1>10, <1>11, <2>1 DEF Stored
  <2>2. CASE o = f
    <3>1. PICK w : w = written[f][q]
      OBVIOUS
    <3>2. /\ written'[o][q] = w /\ w # Nothing /\ w \in StoredValues
          /\ q >= MaxFile \/ q + Len(w.value) <= 0
      BY <1>1, <1>8, <1>9, <1>10, <1>11, <2>2, <3>1
    <3>3. Stands(w, data[f], q) /\ data[f] # Nothing
      BY <1>1, <1>3, <3>1, <3>2 DEF Stored, Stands
    <3>4. w.value \in Seq(Bytes) /\ w.endian \in Endians
      BY <3>2, StreamsAssumption DEF StoredValues, Bytes
    <3>5. PICK b \in Seq(Bytes) : b = Encode(w.value, w.endian) /\ Len(b) = Len(w.value)
      BY <3>4, EncodeKeeps
    <3>6. /\ \A i \in 1 .. Len(b) : q + i <= Len(data[f])
          /\ Len(data[f]) \in Nat /\ Len(data[f]) <= MaxFile
          /\ Len(b) \in Nat /\ q \in Nat
      BY <1>1, <1>3, <3>3, <3>5, LenProperties DEF Stands, StreamsTyped
    <3>7. Len(b) = 0
      <4> SUFFICES ASSUME Len(b) # 0 PROVE FALSE
        OBVIOUS
      <4>1. Len(b) \in 1 .. Len(b) /\ q + Len(b) <= MaxFile /\ Len(b) > 0
        BY <1>1, <3>6
      <4> QED
        BY <1>1, <3>2, <3>5, <3>6, <4>1
    <3>8. 1 .. Len(b) = {}
      BY <3>7
    <3> QED
      BY <1>2, <1>4, <2>2, <3>2, <3>5, <3>8 DEF Stands
  <2> QED
    BY <2>1, <2>2
<1>12. Stored'
  BY <1>11 DEF Stored
<1> QED
  BY <1>2, <1>4, <1>6, <1>10, <1>12

LEMMA OpenFileKeeps ==
  ASSUME HP!NoWrap, StreamInv, NEW f \in Files, NEW w \in BOOLEAN, OpenFile(f, w)
  PROVE  StreamInv'
<1> DEFINE k == [file |-> TRUE, write |-> w, pos |-> 0, obj |-> f]
<1>1. PICK i \in H!Indices : H!alloc_handle(i) /\ body' = [body EXCEPT ![i] = k] /\ Opened(f)
  BY DEF OpenFile
<1>2. /\ f \in Objects /\ f # Nothing
      /\ w \/ data[f] # Nothing
      /\ data' = IF w THEN [data EXCEPT ![f] = <<>>] ELSE data
      /\ written' = IF w THEN Store(f, 0, MaxFile, Nothing) ELSE written
  BY StreamsAssumption DEF OpenFile, Objects
<1>3. /\ HP!GenerationInv' /\ opened' \in [held' -> Objects \cup {Nothing}]
      /\ \A g \in Streams : g.index # i /\ opened'[g] = opened[g]
      /\ \A g \in Streams' : g \in Streams \/ (g.index = i /\ opened'[g] = f)
  BY <1>1, <1>2, HandleOpened
<1>4. k \in [file : BOOLEAN, write : BOOLEAN, pos : 0 .. MaxFile, obj : Objects \cup {Nothing}]
      /\ k.file = TRUE /\ k.obj = f
  BY <1>2, StreamsAssumption
<1> HIDE DEF k
<1>5. body' \in [H!Indices -> [file : BOOLEAN, write : BOOLEAN, pos : 0 .. MaxFile,
                              obj : Objects \cup {Nothing}]]
  BY <1>1, <1>4 DEF StreamInv, StreamsTyped
<1>6. StreamsTyped' /\ Stored' /\ data'[f] # Nothing
      /\ \A o \in Objects : data[o] # Nothing => data'[o] # Nothing
  <2>1. CASE w
    <3>1. data' = [data EXCEPT ![f] = <<>>] /\ written' = Store(f, 0, MaxFile, Nothing)
      BY <1>2, <2>1
    <3> QED
      BY <1>3, <1>5, <3>1, EmptiedKeeps DEF StreamsTyped
  <2>2. CASE ~w
    <3>1. data' = data /\ written' = written /\ data[f] # Nothing
      BY <1>2, <2>2
    <3> QED
      BY <1>3, <1>5, <3>1 DEF StreamInv, StreamsTyped, Stored
  <2> QED
    BY <2>1, <2>2
<1>7. ASSUME NEW g \in Streams' PROVE Own(g)'
  <2>1. CASE g \in Streams
    <3>1. /\ Own(g) /\ body'[g.index] = body[g.index] /\ opened'[g] = opened[g]
          /\ opened[g] \in Objects
      BY <1>1, <1>3, <2>1 DEF StreamInv, StreamsTyped, Streams
    <3> QED
      BY <1>6, <3>1 DEF Own, Block
  <2>2. CASE g.index = i /\ opened'[g] = f
    <3>1. body'[g.index] = k
      BY <1>1, <2>2 DEF StreamInv, StreamsTyped
    <3> QED
      BY <1>4, <1>6, <2>2, <3>1 DEF Own, Block
  <2> QED
    BY <1>3, <2>1, <2>2
<1> QED
  BY <1>3, <1>6, <1>7 DEF StreamInv

LEMMA CloseKeeps ==
  ASSUME HP!NoWrap, StreamInv, NEW h \in Streams \cup freed, Close(h)
  PROVE  StreamInv'
<1>1. /\ H!free_handle(h) /\ h \in held \cup freed
      /\ opened' = [k \in held' |-> opened[k]]
      /\ body' = [body EXCEPT ![h.index] = Unused]
      /\ data' = data /\ written' = written
  BY DEF Close, Streams
<1>2. HP!GenerationInv' /\ h \in held /\ held' = held \ {h}
  BY <1>1, FreeIs DEF StreamInv
<1>3. Unused \in [file : BOOLEAN, write : BOOLEAN, pos : 0 .. MaxFile, obj : Objects \cup {Nothing}]
  BY StreamsAssumption DEF Unused
<1>4. opened' \in [held' -> Objects \cup {Nothing}] /\ Streams' = Streams \ {h}
      /\ \A g \in Streams' : opened'[g] = opened[g]
  BY <1>1, <1>2 DEF StreamInv, StreamsTyped, Streams
<1>5. StreamsTyped'
  BY <1>1, <1>3, <1>4 DEF StreamInv, StreamsTyped
<1>6. ASSUME NEW g \in Streams' PROVE Own(g)'
  <2>1. g \in Streams /\ g \in held /\ g # h /\ g.index # h.index /\ h.index \in H!Indices
    BY <1>2, <1>4, TableSays DEF Streams, StreamInv
  <2>2. body'[g.index] = body[g.index] /\ Own(g)
    BY <1>1, <2>1 DEF StreamInv, StreamsTyped
  <2> QED
    BY <1>1, <1>4, <2>2 DEF Own, Block
<1> QED
  BY <1>1, <1>2, <1>5, <1>6 DEF StreamInv, Stored
-----------------------------------------------------------------------------
(* The position of a stream and the content it works on.                   *)
LEMMA StreamIs ==
  ASSUME StreamInv, NEW h \in Streams
  PROVE  /\ h \in held /\ h.index \in H!Indices
         /\ Block(h) \in [file : BOOLEAN, write : BOOLEAN, pos : 0 .. MaxFile,
                          obj : Objects \cup {Nothing}]
         /\ Block(h).obj = opened[h] /\ opened[h] \in Objects
         /\ data[opened[h]] \in Seq(Bytes) /\ Len(data[opened[h]]) \in Nat
         /\ Len(data[opened[h]]) <= MaxFile
         /\ Block(h).file => opened[h] \in Files
         /\ ~Block(h).file => /\ opened[h] \in Buffers /\ Block(h).pos <= BufSize
                              /\ Len(data[opened[h]]) = BufSize
<1>1. h \in held /\ h.index \in H!Indices /\ opened[h] \in Objects /\ opened[h] # Nothing
  BY TableSays DEF StreamInv, StreamsTyped, Streams
<1>2. Own(h) /\ StreamsTyped
  BY DEF StreamInv
<1>3. data[opened[h]] \in Seq(Bytes) /\ Len(data[opened[h]]) <= MaxFile
  BY <1>1, <1>2 DEF StreamsTyped, Own
<1>4. Len(data[opened[h]]) \in Nat
  BY <1>3, LenProperties
<1> QED
  BY <1>1, <1>2, <1>3, <1>4 DEF StreamsTyped, Own, Block

(* A stream whose position moves.                                          *)
LEMMA MoveKeeps ==
  ASSUME StreamInv, NEW h \in Streams, NEW p \in 0 .. MaxFile,
         ~Block(h).file => p <= BufSize,
         body' = [body EXCEPT ![h.index].pos = p],
         DOMAIN data' = Objects,
         \A o \in Objects : data'[o] # Nothing => data'[o] \in Seq(Bytes) /\ Len(data'[o]) <= MaxFile,
         \A b \in Buffers : data'[b] # Nothing /\ Len(data'[b]) = BufSize,
         \A o \in Objects : data[o] # Nothing => data'[o] # Nothing,
         written' \in [Objects -> [0 .. MaxFile -> StoredValues \cup {Nothing}]],
         Stored', Unmoved
  PROVE  StreamInv'
<1>1. /\ held' = held /\ opened' = opened /\ Streams' = Streams
      /\ HP!GenerationInv'
  <2>1. /\ pgenerations' = pgenerations /\ turns' = turns /\ held' = held
        /\ freed' = freed /\ opened' = opened
    BY DEF Unmoved
  <2>2. HP!GenerationInv' = HP!GenerationInv
    BY <2>1 DEF HP!GenerationInv, HP!TypeOK, HP!HeldAreValid, HP!BusyAreHeld, HP!is_valid_handle,
                HP!Busy, HP!Handle
  <2> QED
    BY <2>1, <2>2 DEF Streams, StreamInv
<1>2. h.index \in H!Indices
  BY StreamIs
<1>3. \A i \in H!Indices :
        /\ body'[i].file = body[i].file /\ body'[i].write = body[i].write
        /\ body'[i].obj = body[i].obj
        /\ body'[i].pos = IF i = h.index THEN p ELSE body[i].pos
  BY <1>2 DEF StreamInv, StreamsTyped
<1>4. body' \in [H!Indices -> [file : BOOLEAN, write : BOOLEAN, pos : 0 .. MaxFile,
                              obj : Objects \cup {Nothing}]]
  <2> DEFINE R == [file : BOOLEAN, write : BOOLEAN, pos : 0 .. MaxFile, obj : Objects \cup {Nothing}]
  <2>1. body \in [H!Indices -> R]
    BY DEF StreamInv, StreamsTyped
  <2>2. body' = [body EXCEPT ![h.index] = [body[h.index] EXCEPT !.pos = p]]
    OBVIOUS
  <2>3. [body[h.index] EXCEPT !.pos = p] \in R
    BY <1>2, <2>1
  <2> HIDE DEF R
  <2>4. body' \in [H!Indices -> R]
    BY <2>1, <2>2, <2>3
  <2> QED
    BY <2>4 DEF R
<1>5. StreamsTyped'
  BY <1>1, <1>4 DEF StreamInv, StreamsTyped
<1>6. ASSUME NEW g \in Streams PROVE Own(g)'
  <2>1. /\ Own(g) /\ g.index \in H!Indices /\ opened[g] \in Objects
    BY <1>6, StreamIs DEF StreamInv
  <2>2. ~body[g.index].file => body'[g.index].pos <= BufSize
    BY <1>3, <2>1 DEF Own, Block
  <2> QED
    BY <1>1, <1>3, <2>1, <2>2 DEF Own, Block
<1> QED
  BY <1>1, <1>5, <1>6 DEF StreamInv

LEMMA StillKeeps ==
  ASSUME StreamInv, NEW h \in Streams, NEW p \in 0 .. MaxFile,
         ~Block(h).file => p <= BufSize,
         body' = [body EXCEPT ![h.index].pos = p], data' = data, written' = written, Unmoved
  PROVE  StreamInv'
<1>1. StreamsTyped /\ Stored /\ Stored'
  BY DEF StreamInv, Stored
<1> QED
  BY <1>1, MoveKeeps DEF StreamsTyped

LEMMA ReadKeepsStreams ==
  ASSUME StreamInv, NEW h \in Streams, NEW n \in Nat, Read(h, n)
  PROVE  StreamInv'
<1> DEFINE s == data[opened[h]]  pos == Block(h).pos
           got == Part(s, pos, n)
           l == Len(ReadResult(h, n).bytes)
<1>1. /\ Block(h).obj = opened[h] /\ s \in Seq(Bytes) /\ Len(s) \in Nat /\ Len(s) <= MaxFile
      /\ pos \in 0 .. MaxFile /\ h.index \in H!Indices
      /\ ~Block(h).file => pos <= BufSize /\ Len(s) = BufSize
      /\ MaxFile \in Nat /\ BufSize \in Nat
  BY StreamIs, StreamsAssumption
<1>2. l \in Nat /\ (l = 0 \/ pos + l <= Len(s))
  <2>1. Len(got) \in Nat /\ (Len(got) = 0 \/ pos + Len(got) <= Len(s))
    <3> HIDE DEF s, pos
    <3> QED
      BY <1>1, PartLen
  <2>2. Len(<<>>) = 0
    OBVIOUS
  <2> QED
    BY <1>1, <2>1, <2>2 DEF ReadResult
<1>3. body' = [body EXCEPT ![h.index].pos = pos + l] /\ data' = data /\ written' = written /\ Unmoved
  BY <1>1 DEF Read, Block
<1> HIDE DEF l, s, pos
<1>4. PICK p \in 0 .. MaxFile : p = pos + l /\ (~Block(h).file => p <= BufSize)
  BY <1>1, <1>2
<1> QED
  BY <1>3, <1>4, StillKeeps

LEMMA SeekKeeps ==
  ASSUME StreamInv, NEW h \in Streams, NEW off \in Offsets,
         NEW mode \in {"FS_SET", "FS_CUR", "FS_END"}, Seek(h, off, mode)
  PROVE  StreamInv'
<1> DEFINE sum == From(h, mode) + off
           p == IF Block(h).file THEN sum ELSE (sum + SizeMod) % SizeMod
<1>1. /\ MayMove(h, p) /\ body' = [body EXCEPT ![h.index].pos = p]
      /\ data' = data /\ written' = written /\ Unmoved
  BY DEF Seek
<1>2. sum \in Int
  <2>1. off \in Int /\ From(h, mode) \in Int
    BY StreamIs, StreamsAssumption DEF From
  <2> QED
    BY <2>1
<1> HIDE DEF sum
<1>3. p \in 0 .. MaxFile /\ (~Block(h).file => p <= BufSize)
  <2>1. SizeMod \in Nat \ {0} /\ MaxFile \in Nat /\ BufSize \in Nat /\ BufSize <= MaxFile
    BY StreamsAssumption
  <2>2. (sum + SizeMod) % SizeMod \in Nat
    BY <1>2, <2>1
  <2> QED
    BY <1>1, <2>1, <2>2 DEF MayMove
<1> HIDE DEF p
<1> QED
  BY <1>1, <1>3, StillKeeps

(* A write stores its value, if all of it fits, and nothing else that it   *)
(* touches is taken for stored.                                            *)
LEMMA WriteKeeps ==
  ASSUME StreamInv, NEW h \in Streams, NEW w \in StoredValues,
         Write(h, Encode(w.value, w.endian), w)
  PROVE  StreamInv'
<1> DEFINE b == Encode(w.value, w.endian)
           n == IF Len(b) < Fits(h) THEN Len(b) ELSE Fits(h)
           o == opened[h]  s == data[opened[h]]  p == Block(h).pos
           c == SubSeq(b, 1, n)
           v == IF n = Len(b) THEN w ELSE Nothing
           r == Overlay(s, p, c)
<1>1. /\ Block(h).obj = o /\ o \in Objects /\ s \in Seq(Bytes) /\ Len(s) \in Nat /\ Len(s) <= MaxFile
      /\ p \in 0 .. MaxFile /\ h.index \in H!Indices
      /\ Block(h).file => o \in Files
      /\ ~Block(h).file => p <= BufSize /\ o \in Buffers /\ Len(s) = BufSize
      /\ MaxFile \in Nat /\ BufSize \in Nat /\ BufSize <= MaxFile /\ p \in Nat
      /\ \A x \in Buffers : x \in Objects /\ x \notin Files
  BY StreamIs, StreamsAssumption DEF Objects
<1>2. /\ data' = [data EXCEPT ![o] = r]
      /\ written' = Store(o, p, n, v)
      /\ body' = [body EXCEPT ![h.index].pos = p + n]
      /\ Unmoved
  <2>1. /\ data' = [data EXCEPT ![Block(h).obj] = Overlay(data[Block(h).obj], Block(h).pos, c)]
        /\ written' = Store(Block(h).obj, Block(h).pos, n, v)
        /\ body' = [body EXCEPT ![h.index].pos = body[h.index].pos + n]
        /\ Unmoved
    BY DEF Write
  <2> QED
    BY <1>1, <2>1 DEF Block
<1>3. b \in Seq(Bytes) /\ Len(b) = Len(w.value) /\ Len(b) \in Nat
  <2>1. w.value \in Seq(Bytes) /\ w.endian \in Endians
    BY StreamsAssumption DEF StoredValues, Bytes
  <2>2. b \in Seq(Bytes) /\ Len(b) = Len(w.value)
    BY <2>1, EncodeKeeps
  <2> QED
    BY <2>2, LenProperties
<1> HIDE DEF b, s, o, p
<1>4. /\ n \in 0 .. Len(b) /\ n \in Nat
      /\ p + n \in 0 .. MaxFile /\ (~Block(h).file => p + n <= BufSize)
  BY <1>1, <1>3 DEF Fits, p
<1> HIDE DEF n
<1>5. /\ c \in Seq(Bytes) /\ Len(c) = n /\ \A i \in 1 .. n : c[i] = b[i]
  BY <1>3, <1>4, FirstBytes
<1> HIDE DEF c
<1>6. /\ r \in Seq(Bytes) /\ Len(r) \in Nat /\ Len(r) = IF Len(s) > p + n THEN Len(s) ELSE p + n
      /\ \A i \in 1 .. n : r[p + i] = b[i]
      /\ \A i \in 1 .. Len(s) : i <= p \/ i > p + n => r[i] = s[i]
  <2>1. LET l == IF Len(s) > p + Len(c) THEN Len(s) ELSE p + Len(c) IN
         /\ r \in Seq(Bytes) /\ Len(r) = l
         /\ \A i \in 1 .. Len(c) : r[p + i] = c[i]
         /\ \A i \in 1 .. Len(s) : i <= p \/ i > p + Len(c) => r[i] = s[i]
    BY <1>1, <1>5, OverlayIs
  <2> QED
    BY <1>5, <2>1, LenProperties
<1> HIDE DEF r
<1>7. r # Nothing /\ Len(r) <= MaxFile /\ Len(s) <= Len(r) /\ p + n <= Len(r)
      /\ (~Block(h).file => Len(r) = BufSize)
  BY <1>1, <1>4, <1>6, StreamsAssumption DEF Bytes
<1>8. StreamsTyped /\ Stored
  BY DEF StreamInv
<1>9. DOMAIN data' = Objects /\ data'[o] = r /\ \A x \in Objects : x # o => data'[x] = data[x]
  BY <1>1, <1>2, <1>8 DEF StreamsTyped
<1>10. /\ \A x \in Objects : data'[x] # Nothing => data'[x] \in Seq(Bytes) /\ Len(data'[x]) <= MaxFile
       /\ \A x \in Buffers : data'[x] # Nothing /\ Len(data'[x]) = BufSize
       /\ \A x \in Objects : data[x] # Nothing => data'[x] # Nothing
  <2>1. \A x \in Objects : data'[x] # Nothing => data'[x] \in Seq(Bytes) /\ Len(data'[x]) <= MaxFile
    BY <1>6, <1>7, <1>8, <1>9 DEF StreamsTyped
  <2>2. ASSUME NEW x \in Buffers PROVE data'[x] # Nothing /\ Len(data'[x]) = BufSize
    <3>1. CASE x = o
      BY <1>1, <1>7, <1>9, <3>1
    <3>2. CASE x # o
      BY <1>1, <1>8, <1>9, <3>2 DEF StreamsTyped
    <3> QED
      BY <3>1, <3>2
  <2> QED
    BY <1>7, <1>9, <2>1, <2>2
<1> DEFINE row == [q \in DOMAIN written[o] |->
              IF q = p /\ v # Nothing THEN v
              ELSE IF written[o][q] # Nothing /\ q < p + n /\ p < q + Len(written[o][q].value) THEN Nothing
              ELSE written[o][q]]
<1>11. written' = [written EXCEPT ![o] = row]
  BY <1>2 DEF Store
<1>12. /\ written \in [Objects -> [0 .. MaxFile -> StoredValues \cup {Nothing}]]
       /\ DOMAIN written[o] = 0 .. MaxFile
  BY <1>1, <1>8 DEF StreamsTyped
<1>13. v # Nothing => v = w /\ n = Len(b)
  OBVIOUS
<1>14. v \in StoredValues \cup {Nothing}
  OBVIOUS
<1> HIDE DEF v
<1>15. \A q \in 0 .. MaxFile : written[o][q] # Nothing =>
         q \in Int /\ Len(written[o][q].value) \in Nat
  <2>1. \A q \in 0 .. MaxFile : written[o][q] # Nothing => written[o][q].value \in Seq(Bytes)
    BY <1>1, <1>12, StreamsAssumption DEF StoredValues, Bytes
  <2> QED
    BY <1>1, <2>1, LenProperties
<1>16. /\ row \in [0 .. MaxFile -> StoredValues \cup {Nothing}]
       /\ \A q \in 0 .. MaxFile : row[q] # Nothing =>
            \/ q = p /\ v # Nothing /\ row[q] = v
            \/ /\ row[q] = written[o][q]
               /\ q >= p + n \/ q + Len(written[o][q].value) <= p
  BY <1>1, <1>4, <1>12, <1>14, <1>15
<1> HIDE DEF row
<1>17. /\ written' \in [Objects -> [0 .. MaxFile -> StoredValues \cup {Nothing}]]
       /\ written'[o] = row /\ \A x \in Objects : x # o => written'[x] = written[x]
  BY <1>1, <1>11, <1>12, <1>16
<1>18. ASSUME NEW q \in 0 .. MaxFile, row[q] # Nothing
       PROVE  Stands(row[q], r, q)
  <2>1. CASE q = p /\ v # Nothing /\ row[q] = v
    <3>1. row[q] = w /\ n = Len(b)
      BY <1>13, <2>1
    <3>2. \A i \in 1 .. Len(b) : q + i <= Len(r) /\ r[q + i] = b[i]
      BY <1>1, <1>3, <1>6, <1>7, <2>1, <3>1
    <3> QED
      BY <1>7, <3>1, <3>2 DEF Stands, b
  <2>2. CASE row[q] = written[o][q] /\ (q >= p + n \/ q + Len(written[o][q].value) <= p)
    <3>1. PICK x \in StoredValues : x = written[o][q]
      BY <1>1, <1>12, <1>18, <2>2
    <3>2. Stands(x, s, q)
      BY <1>1, <1>8, <1>18, <2>2, <3>1 DEF Stored, s, o
    <3>3. x.value \in Seq(Bytes) /\ x.endian \in Endians
      BY <3>1, StreamsAssumption DEF StoredValues, Bytes
    <3>4. PICK a \in Seq(Bytes) : a = Encode(x.value, x.endian) /\ Len(a) = Len(x.value)
      BY <3>3, EncodeKeeps
    <3>5. Len(a) \in Nat /\ \A i \in 1 .. Len(a) : q + i <= Len(s) /\ s[q + i] = a[i]
      BY <3>2, <3>4, LenProperties DEF Stands
    <3>6. ASSUME NEW i \in 1 .. Len(a) PROVE q + i <= Len(r) /\ r[q + i] = a[i]
      <4>1. q + i \in 1 .. Len(s) /\ (q + i <= p \/ q + i > p + n)
        BY <1>1, <1>4, <2>2, <3>1, <3>4, <3>5, SMTT(30)
      <4> QED
        BY <1>1, <1>6, <1>7, <3>5, <4>1, SMTT(30)
    <3> QED
      BY <1>7, <2>2, <3>1, <3>4, <3>6 DEF Stands
  <2> QED
    BY <1>16, <1>18, <2>1, <2>2
<1>19. Stored'
  BY <1>8, <1>9, <1>17, <1>18 DEF Stored
<1>20. PICK e \in 0 .. MaxFile : e = p + n
  BY <1>4
<1> QED
  BY <1>2, <1>4, <1>9, <1>10, <1>17, <1>19, <1>20, MoveKeeps
-----------------------------------------------------------------------------
LEMMA SameStreams ==
  ASSUME StreamInv, HP!GenerationInv', UNCHANGED <<held, body, data, opened, written>>
  PROVE  StreamInv'
<1>1. Streams' = Streams /\ \A h : Own(h)' = Own(h)
  BY DEF Streams, Own, Block
<1> QED
  BY <1>1 DEF StreamInv, StreamsTyped, Stored

LEMMA OpenOrCloseKeeps ==
  ASSUME HP!NoWrap, StreamInv, OpenOrClose \/ MemoryToFile
  PROVE  StreamInv'
<1>1. CASE OpenOrClose
  BY <1>1, OpenBufferKeeps, CloseKeeps DEF OpenOrClose
<1>2. CASE OpenedAndClosed
  BY <1>2, TwiceIs, SameStreams DEF OpenedAndClosed, StreamInv
<1>3. CASE MemoryToFile /\ ~OpenedAndClosed
  BY <1>3, OpenFailsKeeps DEF MemoryToFile, OpenFails
<1> QED
  BY <1>1, <1>2, <1>3

LEMMA TransferKeeps ==
  ASSUME StreamInv, Transfer
  PROVE  StreamInv'
<1>1. PICK h \in Streams :
        \/ \E v \in Values, e \in Endians : WriteValue(h, v, e)
        \/ \E n \in {Len(v) : v \in Values} : Read(h, n)
        \/ \E off \in Offsets, mode \in {"FS_SET", "FS_CUR", "FS_END"} : Seek(h, off, mode)
  BY DEF Transfer, WriteString, Endians
<1>2. ASSUME NEW v \in Values, NEW e \in Endians, WriteValue(h, v, e) PROVE StreamInv'
  <2>1. PICK w \in StoredValues : w = [value |-> v, endian |-> e]
    BY DEF StoredValues
  <2>2. w.value = v /\ w.endian = e
    BY <2>1
  <2>3. Write(h, Encode(w.value, w.endian), w)
    BY <1>2, <2>1, <2>2 DEF WriteValue
  <2> QED
    BY <2>3, WriteKeeps
<1>3. ASSUME NEW v \in Values, Read(h, Len(v)) PROVE StreamInv'
  <2>1. v \in Seq(0 .. 255)
    BY StreamsAssumption
  <2>2. Len(v) \in Nat
    BY <2>1, LenProperties
  <2> QED
    BY <1>3, <2>2, ReadKeepsStreams
<1> QED
  BY <1>1, <1>2, <1>3, SeekKeeps

\* Of the registry and of the streams, which meet in the names of files.
FsInv == IInv /\ StreamInv

LEMMA InitFs == Init => FsInv
BY InitHolds, StreamsInitHolds DEF Init, FsInv

LEMMA NextFs ==
  ASSUME HP!NoWrap, FsInv, [Next]_fsVars
  PROVE  FsInv'
<1>1. IInv'
  BY NextKeeps DEF FsInv
<1>2. CASE UNCHANGED streamVars
  <2>1. HP!GenerationInv' = HP!GenerationInv
    BY <1>2 DEF streamVars, HP!GenerationInv, HP!TypeOK, HP!HeldAreValid, HP!BusyAreHeld,
                HP!is_valid_handle, HP!Busy, HP!Handle
  <2> QED
    BY <1>1, <1>2, <2>1, SameStreams DEF FsInv, StreamInv, streamVars
<1>3. CASE OpenOrClose \/ MemoryToFile \/ Transfer
  BY <1>1, <1>3, OpenOrCloseKeeps, TransferKeeps DEF FsInv
<1>4. ASSUME NEW d \in Directories, NEW n \in Names,
             \/ \E w \in BOOLEAN : OpenFile(<<d, n>>, w)
             \/ OpenFileFails(<<d, n>>)
             \/ FileToMemory(<<d, n>>)
      PROVE  FsInv'
  <2>1. d \in Strings \cup {Null, NoPath}
    <3>1. CASE d = NoPath
      BY <3>1
    <3>2. CASE d # NoPath
      <4>1. PICK k \in issued : d = pstring(k.handle) /\ d \notin Ids
        BY <3>2 DEF Directories
      <4>2. k.handle + 1 \in 0 .. Entries
        BY SearchPathsAssumption DEF FsInv, IInv, Typed
      <4> QED
        BY <4>1, <4>2 DEF FsInv, IInv, Typed, pstring, Blocks, Pointers
    <3> QED
      BY <3>1, <3>2
  <2>2. PICK f \in Files : f = <<d, n>>
    BY <2>1, FilesAssumption
  <2>3. ASSUME OpenFileFails(f) PROVE OpenFails
    BY <2>3 DEF OpenFileFails, OpenFails
  <2>4. ASSUME FileToMemory(f) PROVE MemoryToFile
    BY <2>4 DEF FileToMemory, MemoryToFile
  <2> QED
    BY <1>1, <1>4, <2>2, <2>3, <2>4, OpenFileKeeps, OpenFailsKeeps, OpenOrCloseKeeps DEF FsInv
<1> QED
  BY <1>2, <1>3, <1>4 DEF Next, fsVars

(* Every number of handles, until a generation wraps, whatever is opened,  *)
(* closed twice, moved and written: each open handle works on the object   *)
(* it was opened on, inside it, and the table is not fuller than the open  *)
(* calls say.                                                              *)
THEOREM StreamsOwnObjects ==
  ASSUME MaxTurns < GenSize
  PROVE  Spec => []OwnObject
<1>1. FsInv => OwnObject
  <2> SUFFICES ASSUME FsInv PROVE OwnObject
    OBVIOUS
  <2>1. StreamsOK
    <3>1. \A o \in Objects : data[o] # Nothing => \A i \in DOMAIN data[o] : data[o][i] \in 0 .. 255
      <4> SUFFICES ASSUME NEW o \in Objects, data[o] # Nothing, NEW i \in DOMAIN data[o]
                   PROVE  data[o][i] \in Bytes
        BY DEF Bytes
      <4>1. data[o] \in Seq(Bytes)
        BY DEF FsInv, StreamInv, StreamsTyped
      <4>2. i \in 1 .. Len(data[o])
        BY <4>1, LenProperties
      <4> QED
        BY <4>1, <4>2, ElementOfSeq
    <3> QED
      BY <3>1, TableSays DEF FsInv, StreamInv, StreamsTyped, StreamsOK
  <2> QED
    BY <2>1, TableSays DEF FsInv, StreamInv, OwnObject, Own, Streams
<1>2. HP!NoWrap
  BY DEF HP!NoWrap
<1> QED
  BY <1>1, <1>2, InitFs, NextFs, PTL DEF Spec

(* Whatever was written, sought, emptied or closed in between, and through *)
(* whatever handle: a value that still stands is read back as it was       *)
(* stored, and of a string as much as fits.                                *)
THEOREM StoredIsReadBack ==
  ASSUME MaxTurns < GenSize
  PROVE  Spec => []ReadsBack
<1>1. FsInv => ReadsBack
  <2> SUFFICES ASSUME FsInv, NEW h \in Streams,
                      written[Block(h).obj][Block(h).pos] # Nothing,
                      ~(Block(h).file /\ Block(h).write)
               PROVE  LET w == written[Block(h).obj][Block(h).pos] IN
                      /\ ReadResult(h, Len(w.value)).status = "DGERR_SUCCESS"
                      /\ ReadValue(h, Len(w.value), w.endian) =
                           IF Len(w.value) = 2 THEN <<0, 0>> \o w.value ELSE w.value
                      /\ w.endian = "FS_BE" =>
                           /\ \A maxlen \in 1 .. Len(w.value) + 1 :
                                ReadString(h, maxlen, 0) = SubSeq(w.value, 1, maxlen - 1)
                           /\ ReadString(h, Len(w.value) + 1, Len(w.value)) = w.value
    BY DEF ReadsBack
  <2> DEFINE o == opened[h]  s == data[o]  p == Block(h).pos
  <2>1. /\ Block(h).obj = o /\ o \in Objects /\ s \in Seq(Bytes) /\ p \in 0 .. MaxFile /\ p \in Nat
    BY StreamIs, StreamsAssumption DEF FsInv
  <2> HIDE DEF o, s, p
  <2>2. PICK w \in StoredValues : w = written[Block(h).obj][Block(h).pos]
    <3>1. written[o][p] \in StoredValues \cup {Nothing}
      BY <2>1 DEF FsInv, StreamInv, StreamsTyped
    <3>2. written[Block(h).obj][Block(h).pos] = written[o][p]
      BY <2>1 DEF p
    <3> QED
      BY <3>1, <3>2
  <2>3. Stands(w, s, p)
    BY <2>1, <2>2 DEF FsInv, StreamInv, Stored, s, p
  <2>4. w.value \in Seq(Bytes) /\ w.endian \in Endians
    BY StreamsAssumption DEF StoredValues, Bytes
  <2> DEFINE b == Encode(w.value, w.endian)  l == Len(w.value)
  <2>5. /\ b \in Seq(Bytes) /\ Len(b) = l /\ l \in Nat /\ Decode(b, w.endian) = w.value
        /\ w.endian = "FS_BE" => b = w.value
    BY <2>4, EncodeKeeps, LenProperties
  <2>6. \A i \in 1 .. Len(b) : p + i <= Len(s) /\ s[p + i] = b[i]
    BY <2>3 DEF Stands
  <2> HIDE DEF b, l
  <2>7. ASSUME NEW n \in 0 .. l
        PROVE  ReadResult(h, n) = [status |-> "DGERR_SUCCESS", bytes |-> SubSeq(b, 1, n)]
    <3>1. Part(s, p, n) = SubSeq(b, 1, n) /\ Len(SubSeq(b, 1, n)) = n
      BY <2>1, <2>5, <2>6, PartIs, FirstBytes
    <3>2. Part(data[Block(h).obj], Block(h).pos, n) = SubSeq(b, 1, n)
      BY <2>1, <3>1 DEF s, p
    <3>3. ~(Len(SubSeq(b, 1, n)) < n)
      BY <2>5, <3>1
    <3> QED
      BY <3>2, <3>3 DEF ReadResult
  <2>8. SubSeq(b, 1, l) = b
    BY <2>5, SubSeqFull
  <2>9. /\ ReadResult(h, l).status = "DGERR_SUCCESS" /\ ReadResult(h, l).bytes = b
        /\ ReadValue(h, l, w.endian) = IF l = 2 THEN <<0, 0>> \o w.value ELSE w.value
    <3>1. l \in 0 .. l
      BY <2>5
    <3>2. Decode(ReadResult(h, l).bytes, w.endian) = w.value
      BY <2>5, <2>7, <2>8, <3>1
    <3>3. ReadValue(h, l, w.endian) = IF l = 2 THEN <<0, 0>> \o w.value ELSE w.value
      BY <3>2 DEF ReadValue, Widened, l
    <3> QED
      BY <2>7, <2>8, <3>1, <3>3
  <2>10. ASSUME w.endian = "FS_BE", NEW maxlen \in 1 .. l + 1
         PROVE  ReadString(h, maxlen, 0) = SubSeq(w.value, 1, maxlen - 1)
    <3> DEFINE m == maxlen - 1
    <3>1. m \in 0 .. l /\ maxlen = m + 1 /\ m \in Nat /\ b = w.value /\ m \in 0 .. m
      BY <2>5, <2>10
    <3> HIDE DEF m
    <3>2. SubSeq(b, 1, m) \in Seq(Bytes) /\ Len(SubSeq(b, 1, m)) = m
      BY <2>5, <3>1, FirstBytes
    <3>3. SubSeq(SubSeq(b, 1, m), 1, m) = SubSeq(b, 1, m)
      BY <3>2, SubSeqFull
    <3>4. ReadResult(h, m) = [status |-> "DGERR_SUCCESS", bytes |-> SubSeq(b, 1, m)]
      BY <2>7, <3>1
    <3>5. Asked(maxlen, 0) = m
      BY <3>1 DEF Asked
    <3>6. (IF m < maxlen THEN m ELSE maxlen - 1) = m
      BY <3>1
    <3>7. ReadString(h, maxlen, 0) = SubSeq(b, 1, m)
      BY <3>2, <3>3, <3>4, <3>5, <3>6 DEF ReadString
    <3> QED
      BY <3>1, <3>7 DEF m
  <2>11. ASSUME w.endian = "FS_BE" PROVE ReadString(h, l + 1, l) = w.value
    <3>1. PICK m \in Nat : m = l + 1
      BY <2>5
    <3>2. Asked(m, l) = l /\ (IF l < m THEN l ELSE m - 1) = l /\ l \in 0 .. l
      BY <2>5, <3>1 DEF Asked
    <3>3. ReadResult(h, l) = [status |-> "DGERR_SUCCESS", bytes |-> b]
      BY <2>7, <2>8, <3>2
    <3>4. ReadString(h, m, l) = SubSeq(b, 1, l)
      BY <2>5, <3>2, <3>3 DEF ReadString
    <3> QED
      BY <2>5, <2>8, <2>11, <3>1, <3>4
  <2> QED
    BY <2>2, <2>9, <2>10, <2>11 DEF l
<1>2. HP!NoWrap
  BY DEF HP!NoWrap
<1> QED
  BY <1>1, <1>2, InitFs, NextFs, PTL DEF Spec
-----------------------------------------------------------------------------
(***************************************************************************)
(* The tree of directories, that several threads change between the steps  *)
(* of a call.                                                              *)
(***************************************************************************)

Above(p) == Tree!Above(p)
Kinds == {"none", "dir", "file"}
AllNames == {Dot} \cup {Last(q) : q \in TreePaths}
Listings == [first : BOOLEAN, find_data : AllNames, rest : SUBSET AllNames, all : SUBSET AllNames,
             list : Seq(AllNames), ended : BOOLEAN]

TreeTyped ==
  /\ tree \in [TreePaths -> Kinds]
  /\ DOMAIN treeCall = Threads /\ DOMAIN told = Threads
  /\ dir \in [Threads -> Listings \cup {None}]
  /\ gone \in [Threads -> SUBSET TreePaths]

\* What a call that is under way is about.
CallTyped(c) ==
  /\ c.path \in TreePaths
  /\ c.op \in {"mkdir", "mkdir_recursive"} =>
       /\ c.next \in 1 .. Len(c.path)
       /\ c.op = "mkdir" => c.next = Len(c.path)

Lost(t, p) == gone[t] \cap (Above(p) \cup {p}) # {}
Blocked(p) == \E q \in Above(p) : tree[q] = "file"

\* The recursive fs_mkdir() has made the directories it has passed, unless
\* one was removed again or a file is in the way.
Passed(t, p, n) ==
  Lost(t, p) \/ Blocked(p) \/ \A k \in 1 .. n - 1 : tree[SubSeq(p, 1, k)] = "dir"

OnWay(t) == treeCall[t] # None =>
  /\ CallTyped(treeCall[t])
  /\ treeCall[t].op = "mkdir_recursive" => Passed(t, treeCall[t].path, treeCall[t].next)

\* What the last fs_mkdir() of a thread has told.
Tells(t) == told[t] # None =>
  /\ told[t].path \in TreePaths
  /\ \/ Lost(t, told[t].path)
     \/ told[t].result = "success" /\ tree[told[t].path] = "dir"
     \/ told[t].result = "internal_error" /\ tree[told[t].path] # "none"
     \/ /\ told[t].result = "not_found" /\ Above(told[t].path) # {}
        /\ told[t].op = "mkdir_recursive" => Blocked(told[t].path)

\* The iteration has given what it has taken from the entries of its
\* directory, each once.
Listing(d) ==
  /\ \A i, j \in 1 .. Len(d.list) : d.list[i] = d.list[j] => i = j
  /\ d.first => /\ d.list = <<>> /\ ~d.ended
                /\ d.find_data \in d.all /\ d.rest = d.all \ {d.find_data}
  /\ ~d.first => /\ \A i \in 1 .. Len(d.list) : d.list[i] \in d.all /\ d.list[i] \notin d.rest
                 /\ \A e \in d.all : e \in d.rest \/ \E i \in 1 .. Len(d.list) : d.list[i] = e
                 /\ d.rest \subseteq d.all /\ (d.ended => d.rest = {})

TreeInv ==
  /\ TreeTyped
  /\ \A t \in Threads : OnWay(t) /\ Tells(t) /\ (dir[t] # None => Listing(dir[t]))

(* The paths above a path.                                                 *)
LEMMA PathsAbove ==
  ASSUME NEW p \in TreePaths
  PROVE  /\ Len(p) \in Nat \ {0} /\ SubSeq(p, 1, Len(p)) = p
         /\ \A k \in 1 .. Len(p) : SubSeq(p, 1, k) \in TreePaths
         /\ \A k \in 1 .. Len(p) - 1 : SubSeq(p, 1, k) \in Above(p)
         /\ Above(p) \subseteq TreePaths
         /\ \A k \in 1 .. Len(p) : Front(SubSeq(p, 1, k)) = SubSeq(p, 1, k - 1)
         /\ SubSeq(p, 1, 0) = <<>>
<1> DEFINE S == UNION {ToSet(q) : q \in TreePaths}
<1>1. p \in Seq(S) /\ p # <<>>
  BY TreeAssumption
<1> HIDE DEF S
<1>2. Len(p) \in Nat \ {0} /\ SubSeq(p, 1, Len(p)) = p
  <2>1. Len(p) \in Nat /\ SubSeq(p, 1, Len(p)) = p
    BY <1>1, LenProperties, SubSeqFull
  <2>2. Len(p) # 0
    BY <1>1, EmptySeq
  <2> QED
    BY <2>1, <2>2
<1>3. /\ \A k \in 1 .. Len(p) : SubSeq(p, 1, k) \in TreePaths
      /\ \A k \in 1 .. Len(p) - 1 : SubSeq(p, 1, k) \in Above(p)
      /\ Above(p) \subseteq TreePaths
  <2>1. \A k \in 1 .. Len(p) - 1 : k \in 1 .. Len(p)
    BY <1>2
  <2> QED
    BY <2>1, TreeAssumption DEF Above, Tree!Above
<1>4. SubSeq(p, 1, 0) = <<>>
  <2>1. 0 \in Int /\ 1 \in Int /\ 0 < 1
    OBVIOUS
  <2> QED
    BY <2>1, SubSeqEmpty
<1>5. ASSUME NEW k \in 1 .. Len(p) PROVE Front(SubSeq(p, 1, k)) = SubSeq(p, 1, k - 1)
  <2>1. k \in 0 .. Len(p) /\ k \in Nat
    BY <1>2
  <2>2. Len(SubSeq(p, 1, k)) = k
    BY <1>1, <2>1, FirstBytes
  <2>3. Front(SubSeq(p, 1, k)) = SubSeq(SubSeq(p, 1, k), 1, k - 1)
    BY <2>2 DEF Front
  <2>4. CASE k = 1
    <3>1. k - 1 \in Int /\ 1 \in Int /\ k - 1 < 1
      BY <2>4
    <3> QED
      BY <2>3, <3>1, SubSeqEmpty
  <2>5. CASE k > 1
    <3> DEFINE m == k - 1
    <3>1. /\ 1 \in 1 .. Len(p) /\ m \in 1 .. k - 1 + 1 /\ 1 \in 1 .. k - 1 + 1
          /\ 1 + 1 - 1 = 1 /\ 1 + m - 1 = m
      BY <1>2, <2>5
    <3> HIDE DEF m
    <3>2. SubSeq(SubSeq(p, 1, k), 1, m) = SubSeq(p, 1 + 1 - 1, 1 + m - 1)
      BY <1>1, <3>1, SubSeqOfSubSeq
    <3> QED
      BY <2>3, <3>1, <3>2 DEF m
  <2> QED
    BY <2>1, <2>4, <2>5
<1> QED
  BY <1>2, <1>3, <1>4, <1>5

LEMMA TreeInitHolds == Tree!Init => TreeInv
<1> SUFFICES ASSUME Tree!Init PROVE TreeInv
  OBVIOUS
<1>1. TreeTyped
  BY DEF Tree!Init, TreeTyped, Kinds
<1> QED
  BY <1>1 DEF Tree!Init, TreeInv, OnWay, Tells

\* The tree has not lost or changed what it had.
Grows == tree' \in [TreePaths -> Kinds] /\ \A q \in TreePaths : tree[q] # "none" => tree'[q] = tree[q]

(* What holds of the calls of a thread while others make something.        *)
LEMMA GrowsKeeps ==
  ASSUME TreeInv, Grows, NEW t \in Threads, gone'[t] = gone[t]
  PROVE  /\ \A p \in TreePaths, n \in Nat : n <= Len(p) /\ Passed(t, p, n) => Passed(t, p, n)'
         /\ told'[t] = told[t] => Tells(t)'
         /\ treeCall'[t] = treeCall[t] => OnWay(t)'
<1>1. /\ \A p : Above(p)' = Above(p)
      /\ \A p : Lost(t, p)' = Lost(t, p)
  BY DEF Above, Tree!Above, Lost
<1>2. \A p \in TreePaths : Above(p) \subseteq TreePaths
  BY PathsAbove
<1>3. \A p \in TreePaths : Blocked(p) => Blocked(p)'
  BY <1>1, <1>2 DEF Blocked, Grows
<1>4. ASSUME NEW p \in TreePaths, NEW n \in Nat, n <= Len(p), Passed(t, p, n)
      PROVE  Passed(t, p, n)'
  <2>1. \A k \in 1 .. n - 1 : k \in 1 .. Len(p)
    BY <1>4, PathsAbove
  <2>2. \A k \in 1 .. n - 1 : SubSeq(p, 1, k) \in TreePaths
    BY <2>1, PathsAbove
  <2> QED
    BY <1>1, <1>3, <1>4, <2>2 DEF Passed, Grows
<1>5. ASSUME told'[t] = told[t] PROVE Tells(t)'
  <2>1. Tells(t)
    BY DEF TreeInv
  <2> QED
    BY <1>1, <1>3, <1>5, <2>1 DEF Tells, Grows
<1>6. ASSUME treeCall'[t] = treeCall[t], treeCall[t] # None PROVE OnWay(t)'
  <2>1. OnWay(t)
    BY DEF TreeInv
  <2>2. CallTyped(treeCall[t]) /\ treeCall[t].path \in TreePaths
    BY <1>6, <2>1 DEF OnWay, CallTyped
  <2>3. ASSUME treeCall[t].op = "mkdir_recursive"
        PROVE  Passed(t, treeCall[t].path, treeCall[t].next)'
    <3>1. PICK p \in TreePaths : p = treeCall[t].path
      BY <2>2
    <3>2. PICK n \in 1 .. Len(p) : n = treeCall[t].next
      BY <2>2, <2>3, <3>1 DEF CallTyped
    <3>3. Passed(t, p, n) /\ n \in Nat /\ n <= Len(p)
      <4>1. n \in Nat /\ n <= Len(p)
        BY <3>2, PathsAbove
      <4> QED
        BY <1>6, <2>1, <2>3, <3>1, <3>2, <4>1 DEF OnWay
    <3>4. Passed(t, p, n)'
      BY <1>4, <3>3
    <3> QED
      BY <1>6, <3>1, <3>2, <3>4
  <2> QED
    BY <1>6, <2>2, <2>3 DEF OnWay, CallTyped
<1> QED
  BY <1>4, <1>5, <1>6 DEF OnWay

\* The thread's calls and what it has been told.
Other(t, u) == u # t /\ treeCall'[u] = treeCall[u] /\ told'[u] = told[u] /\ dir'[u] = dir[u]

(* What is left to show of a step of one thread that removes nothing.      *)
LEMMA OwnStep ==
  ASSUME TreeInv, Grows, NEW t \in Threads,
         DOMAIN treeCall' = Threads, DOMAIN told' = Threads, dir' = dir,
         gone' \in [Threads -> SUBSET TreePaths],
         \A u \in Threads : u # t => Other(t, u) /\ gone'[u] = gone[u],
         OnWay(t)', Tells(t)'
  PROVE  TreeInv'
<1>1. TreeTyped'
  BY DEF TreeInv, TreeTyped, Grows
<1>2. ASSUME NEW u \in Threads, u # t PROVE OnWay(u)' /\ Tells(u)'
  BY <1>2, GrowsKeeps DEF Other
<1>3. \A u \in Threads : dir'[u] # None => Listing(dir'[u])
  BY DEF TreeInv
<1> QED
  BY <1>1, <1>2, <1>3 DEF TreeInv

LEMMA MkdirCheckKeeps ==
  ASSUME TreeInv, NEW t \in Threads, NEW p \in TreePaths, NEW recursive \in BOOLEAN,
         Tree!MkdirCheck(t, p, recursive)
  PROVE  TreeInv'
<1>1. TreeTyped
  BY DEF TreeInv
<1>2. /\ treeCall[t] = None /\ tree' = tree /\ dir' = dir
      /\ gone' = [gone EXCEPT ![t] = {}]
  BY DEF Tree!MkdirCheck, Tree!Idle, Tree!Began
<1>3. Grows /\ gone' \in [Threads -> SUBSET TreePaths]
  BY <1>1, <1>2 DEF TreeTyped, Grows
<1>4. CASE tree[p] = "dir"
  <2> DEFINE r == [op |-> Tree!Op(recursive), path |-> p, result |-> "success"]
  <2>1. treeCall' = treeCall /\ told' = [told EXCEPT ![t] = r]
    BY <1>4 DEF Tree!MkdirCheck, Tree!Result
  <2>2. told'[t] = r /\ r.path = p /\ r.result = "success"
    BY <1>1, <2>1 DEF TreeTyped
  <2> HIDE DEF r
  <2>3. Tells(t)'
    BY <1>2, <1>4, <2>2 DEF Tells
  <2>4. OnWay(t)'
    BY <1>2, <2>1 DEF OnWay
  <2>5. \A u \in Threads : u # t => Other(t, u) /\ gone'[u] = gone[u]
    BY <1>1, <1>2, <2>1 DEF Other, TreeTyped
  <2>6. DOMAIN treeCall' = Threads /\ DOMAIN told' = Threads
    BY <1>1, <2>1 DEF TreeTyped
  <2> QED
    BY <1>2, <1>3, <2>3, <2>4, <2>5, <2>6, OwnStep
<1>5. CASE tree[p] # "dir"
  <2> DEFINE c == [op |-> Tree!Op(recursive), path |-> p, next |-> IF recursive THEN 1 ELSE Len(p)]
  <2>1. treeCall' = [treeCall EXCEPT ![t] = c] /\ told' = [told EXCEPT ![t] = None]
    BY <1>5 DEF Tree!MkdirCheck
  <2>2. /\ treeCall'[t] = c /\ told'[t] = None
        /\ c.path = p /\ c.next \in 1 .. Len(p)
        /\ c.op = "mkdir" => c.next = Len(p)
        /\ c.op = "mkdir_recursive" => c.next = 1
    BY <1>1, <2>1, PathsAbove DEF TreeTyped, Tree!Op
  <2> HIDE DEF c
  <2>3. Tells(t)'
    BY <2>2 DEF Tells
  <2>4. OnWay(t)'
    <3>1. CallTyped(c)
      BY <2>2 DEF CallTyped
    <3>2. 1 .. 1 - 1 = {}
      OBVIOUS
    <3> QED
      BY <2>2, <3>1, <3>2 DEF OnWay, CallTyped, Passed
  <2>5. \A u \in Threads : u # t => Other(t, u) /\ gone'[u] = gone[u]
    BY <1>1, <1>2, <2>1 DEF Other, TreeTyped
  <2>6. DOMAIN treeCall' = Threads /\ DOMAIN told' = Threads
    BY <1>1, <2>1 DEF TreeTyped
  <2> QED
    BY <1>2, <1>3, <2>3, <2>4, <2>5, <2>6, OwnStep
<1> QED
  BY <1>4, <1>5

(* What CreateDirectoryW() leaves.                                         *)
LEMMA CreationIs ==
  ASSUME TreeInv, NEW p \in TreePaths, Tree!CreateDirectory(p)
  PROVE  /\ Grows
         /\ Tree!Creation(p) \in {"path_not_found", "exists", "done"}
         /\ Tree!Creation(p) = "path_not_found" => Front(p) # <<>> /\ ~(Front(p) \in TreePaths /\ tree[Front(p)] = "dir")
         /\ Tree!Creation(p) = "exists" => tree[p] # "none" /\ tree'[p] = tree[p]
         /\ Tree!Creation(p) = "done" => tree'[p] = "dir"
<1>1. tree \in [TreePaths -> Kinds] /\ "dir" \in Kinds
  BY DEF TreeInv, TreeTyped, Kinds
<1>2. Tree!Creation(p) = "done" => tree[p] = "none"
  BY DEF Tree!Creation
<1>3. tree' = IF Tree!Creation(p) = "done" THEN [tree EXCEPT ![p] = "dir"] ELSE tree
  BY DEF Tree!CreateDirectory
<1>4. /\ Tree!Creation(p) \in {"path_not_found", "exists", "done"}
      /\ Tree!Creation(p) = "path_not_found" =>
           Front(p) # <<>> /\ ~(Front(p) \in TreePaths /\ tree[Front(p)] = "dir")
      /\ Tree!Creation(p) = "exists" => tree[p] # "none"
  <2>1. Tree!Front(p) = Front(p)
    BY DEF Tree!Front, Front
  <2> QED
    BY <2>1 DEF Tree!Creation, Tree!IsDir
<1> QED
  BY <1>1, <1>2, <1>3, <1>4 DEF Grows

LEMMA MkdirParentKeeps ==
  ASSUME TreeInv, NEW t \in Threads, Tree!MkdirParent(t)
  PROVE  TreeInv'
<1>0. TreeTyped /\ OnWay(t)
  BY DEF TreeInv
<1>1. /\ treeCall[t] # None /\ treeCall[t].op \in {"mkdir", "mkdir_recursive"}
      /\ treeCall[t].next < Len(treeCall[t].path)
      /\ Tree!CreateDirectory(SubSeq(treeCall[t].path, 1, treeCall[t].next))
      /\ treeCall' = [treeCall EXCEPT ![t].next = treeCall[t].next + 1]
      /\ dir' = dir /\ told' = told /\ gone' = gone
  BY DEF Tree!MkdirParent, Tree!Making, Tree!Idle
<1>2. PICK p \in TreePaths : p = treeCall[t].path
  BY <1>0, <1>1 DEF OnWay, CallTyped
<1>3. PICK n \in 1 .. Len(p) - 1 : n = treeCall[t].next /\ treeCall[t].op = "mkdir_recursive"
  BY <1>0, <1>1, <1>2, PathsAbove, SMTT(30) DEF OnWay, CallTyped
<1>4. /\ Len(p) \in Nat /\ n \in Nat /\ n \in 1 .. Len(p) /\ n + 1 \in 1 .. Len(p)
      /\ n + 1 \in Nat /\ n + 1 <= Len(p) /\ n <= Len(p)
      /\ (n = 1 \/ n - 1 \in 1 .. n - 1)
  BY <1>3, PathsAbove, SMTT(30)
<1>5. PICK q \in TreePaths : q = SubSeq(p, 1, n) /\ q \in Above(p) /\ Front(q) = SubSeq(p, 1, n - 1)
  BY <1>3, <1>4, PathsAbove
<1>6. Grows /\ Tree!CreateDirectory(q)
  BY <1>1, <1>2, <1>3, <1>5, CreationIs
<1>7. /\ treeCall'[t].op = treeCall[t].op /\ treeCall'[t].path = p /\ treeCall'[t].next = n + 1
      /\ DOMAIN treeCall' = Threads
      /\ \A u \in Threads : u # t => treeCall'[u] = treeCall[u]
  BY <1>0, <1>1, <1>2, <1>3 DEF TreeTyped, OnWay
<1>8. Passed(t, p, n)
  BY <1>0, <1>1, <1>2, <1>3 DEF OnWay
<1>9. Passed(t, p, n + 1)'
  <2>1. Passed(t, p, n)'
    BY <1>1, <1>4, <1>6, <1>8, GrowsKeeps
  <2>2. CASE Lost(t, p)' \/ Blocked(p)'
    BY <2>2 DEF Passed
  <2>3. CASE Lost(t, p) \/ Blocked(p)
    <3>1. Passed(t, p, 1) /\ 1 \in Nat /\ 1 <= Len(p)
      BY <1>4, <2>3 DEF Passed
    <3>2. Lost(t, p) => Lost(t, p)'
      BY <1>1 DEF Lost, Above, Tree!Above
    <3>3. Blocked(p) => Blocked(p)'
      BY <1>6, PathsAbove DEF Blocked, Above, Tree!Above, Grows
    <3> QED
      BY <2>3, <3>2, <3>3 DEF Passed
  <2>4. CASE ~Lost(t, p)' /\ ~Blocked(p)' /\ ~Lost(t, p) /\ ~Blocked(p)
    <3>1. /\ \A k \in 1 .. n - 1 : tree[SubSeq(p, 1, k)] = "dir"
          /\ \A k \in 1 .. n - 1 : tree'[SubSeq(p, 1, k)] = "dir"
      BY <1>8, <2>1, <2>4 DEF Passed
    <3>2. Front(q) = <<>> \/ (Front(q) \in TreePaths /\ tree[Front(q)] = "dir")
      <4>1. CASE n = 1
        BY <1>5, <4>1, PathsAbove
      <4>2. CASE n # 1
        <5> DEFINE m == n - 1
        <5>1. m \in 1 .. n - 1 /\ m \in 1 .. Len(p) /\ Front(q) = SubSeq(p, 1, m)
          BY <1>4, <1>5, <4>2
        <5> HIDE DEF m
        <5>2. SubSeq(p, 1, m) \in TreePaths /\ tree[SubSeq(p, 1, m)] = "dir"
          BY <3>1, <5>1, PathsAbove
        <5> QED
          BY <5>1, <5>2
      <4> QED
        BY <4>1, <4>2
    <3>3. tree'[q] = "dir"
      <4>1. Tree!Creation(q) \in {"exists", "done"}
        BY <1>6, <3>2, CreationIs
      <4>2. CASE Tree!Creation(q) = "done"
        BY <1>6, <4>2, CreationIs
      <4>3. CASE Tree!Creation(q) = "exists"
        <5>1. tree[q] # "none" /\ tree'[q] = tree[q]
          BY <1>6, <4>3, CreationIs
        <5>2. tree[q] # "file"
          BY <1>5, <2>4 DEF Blocked
        <5> QED
          BY <1>0, <5>1, <5>2 DEF TreeTyped, Kinds
      <4> QED
        BY <4>1, <4>2, <4>3
    <3>4. \A k \in 1 .. n + 1 - 1 : k \in 1 .. n - 1 \/ k = n
      BY <1>4
    <3> QED
      BY <1>5, <3>1, <3>3, <3>4 DEF Passed
  <2> QED
    BY <2>2, <2>3, <2>4
<1>10. OnWay(t)'
  <2>1. CallTyped(treeCall'[t])
    BY <1>3, <1>4, <1>7 DEF CallTyped
  <2>2. Passed(t, treeCall[t].path, treeCall[t].next)'
    <3>1. PICK m \in Nat : m = n + 1
      BY <1>4
    <3>2. Passed(t, p, m)'
      BY <1>9, <3>1
    <3> QED
      BY <1>7, <3>1, <3>2
  <2> QED
    BY <2>1, <2>2 DEF OnWay, CallTyped
<1>11. Tells(t)'
  BY <1>1, <1>6, GrowsKeeps
<1>12. \A u \in Threads : u # t => Other(t, u) /\ gone'[u] = gone[u]
  BY <1>1, <1>7 DEF Other
<1>13. DOMAIN told' = Threads /\ gone' \in [Threads -> SUBSET TreePaths]
  BY <1>0, <1>1 DEF TreeTyped
<1> QED
  BY <1>1, <1>6, <1>7, <1>10, <1>11, <1>12, <1>13, OwnStep

LEMMA MkdirCreateKeeps ==
  ASSUME TreeInv, NEW t \in Threads, Tree!MkdirCreate(t)
  PROVE  TreeInv'
<1>0. TreeTyped /\ OnWay(t)
  BY DEF TreeInv
<1>1. /\ treeCall[t] # None /\ treeCall[t].op \in {"mkdir", "mkdir_recursive"}
      /\ dir' = dir /\ gone' = gone
      /\ treeCall' = [treeCall EXCEPT ![t] = None]
  BY DEF Tree!MkdirCreate, Tree!Making, Tree!Idle
<1>2. PICK p \in TreePaths : p = treeCall[t].path
  BY <1>0, <1>1 DEF OnWay, CallTyped
<1>3. /\ treeCall[t].next = Len(p) /\ Tree!CreateDirectory(p)
      /\ Tree!Result(t, treeCall[t].op, p,
           CASE Tree!Creation(p) = "done" -> "success"
             [] Tree!Creation(p) = "path_not_found" -> "not_found"
             [] Tree!Creation(p) = "exists" -> "internal_error")
  BY <1>2 DEF Tree!MkdirCreate
<1>4. Grows
  BY <1>3, CreationIs
<1> DEFINE result == CASE Tree!Creation(p) = "done" -> "success"
                       [] Tree!Creation(p) = "path_not_found" -> "not_found"
                       [] Tree!Creation(p) = "exists" -> "internal_error"
           r == [op |-> treeCall[t].op, path |-> p, result |-> result]
<1>5. /\ told' = [told EXCEPT ![t] = r]
  BY <1>3 DEF Tree!Result
<1>6. /\ told'[t] = r /\ r.path = p /\ r.op = treeCall[t].op /\ r.result = result
      /\ DOMAIN told' = Threads /\ \A u \in Threads : u # t => told'[u] = told[u]
  <2> HIDE DEF result
  <2> QED
    BY <1>0, <1>5 DEF TreeTyped
<1>7. /\ DOMAIN treeCall' = Threads /\ \A u \in Threads : u # t => treeCall'[u] = treeCall[u]
      /\ treeCall'[t] = None
  BY <1>0, <1>1 DEF TreeTyped
<1>8. /\ Tree!Creation(p) = "done" => result = "success"
      /\ Tree!Creation(p) = "path_not_found" => result = "not_found"
      /\ Tree!Creation(p) = "exists" => result = "internal_error"
  OBVIOUS
<1> HIDE DEF r, result
<1>9. Tells(t)'
  <2>1. CASE Tree!Creation(p) = "done"
    <3>1. result = "success" /\ tree'[p] = "dir"
      BY <1>3, <1>8, <2>1, CreationIs
    <3> QED
      BY <1>6, <3>1 DEF Tells
  <2>2. CASE Tree!Creation(p) = "exists"
    <3>1. result = "internal_error" /\ tree'[p] # "none"
      BY <1>3, <1>8, <2>2, CreationIs
    <3> QED
      BY <1>6, <3>1 DEF Tells
  <2>3. CASE Tree!Creation(p) = "path_not_found"
    <3>1. /\ result = "not_found" /\ Front(p) # <<>>
          /\ ~(Front(p) \in TreePaths /\ tree[Front(p)] = "dir")
      BY <1>3, <1>8, <2>3, CreationIs
    <3>2. PICK n \in Nat \ {0} : n = Len(p)
      BY PathsAbove
    <3>3. PICK m \in Nat : m = n - 1
      BY <3>2
    <3>4. Front(p) = SubSeq(p, 1, m) /\ n <= Len(p) /\ n \in Nat
      <4>1. n \in 1 .. Len(p) /\ SubSeq(p, 1, n) = p
        BY <3>2, PathsAbove
      <4>2. Front(SubSeq(p, 1, n)) = SubSeq(p, 1, n - 1)
        BY <4>1, PathsAbove
      <4>3. n - 1 = m /\ n <= Len(p) /\ n \in Nat
        BY <3>2, <3>3
      <4> QED
        BY <4>1, <4>2, <4>3
    <3>5. m # 0
      BY <3>1, <3>4, PathsAbove
    <3>6. m \in 1 .. Len(p) - 1 /\ m \in 1 .. n - 1 /\ m \in 1 .. Len(p)
      BY <3>2, <3>3, <3>5
    <3>7. SubSeq(p, 1, m) \in Above(p) /\ SubSeq(p, 1, m) \in TreePaths
      BY <3>6, PathsAbove
    <3>8. Above(p)' = Above(p) /\ Above(p) # {}
      BY <3>7 DEF Above, Tree!Above
    <3>9. ASSUME treeCall[t].op = "mkdir_recursive" PROVE Lost(t, p)' \/ Blocked(p)'
      <4>1. Passed(t, p, n)
        BY <1>0, <1>1, <1>2, <1>3, <3>2, <3>9 DEF OnWay
      <4>2. tree[SubSeq(p, 1, m)] # "dir"
        BY <3>1, <3>4, <3>7
      <4>3. Lost(t, p) \/ Blocked(p)
        BY <3>6, <4>1, <4>2 DEF Passed
      <4>4. Lost(t, p) => Lost(t, p)'
        BY <1>1 DEF Lost, Above, Tree!Above
      <4>5. Blocked(p) => Blocked(p)'
        BY <1>4, PathsAbove DEF Blocked, Above, Tree!Above, Grows
      <4> QED
        BY <4>3, <4>4, <4>5
    <3>10. PICK x : x = told'[t]
      OBVIOUS
    <3>11. x.path = p /\ x.result = "not_found" /\ x.op = treeCall[t].op
      BY <1>6, <3>1, <3>10
    <3>12. Lost(t, p)' \/ (Above(p)' # {} /\ (x.op = "mkdir_recursive" => Blocked(p)'))
      BY <3>8, <3>9, <3>11
    <3> QED
      BY <3>10, <3>11, <3>12 DEF Tells, Lost, Blocked
  <2> QED
    BY <1>3, <2>1, <2>2, <2>3, CreationIs
<1>10. OnWay(t)'
  BY <1>7 DEF OnWay
<1>11. \A u \in Threads : u # t => Other(t, u) /\ gone'[u] = gone[u]
  BY <1>1, <1>6, <1>7 DEF Other
<1>12. gone' \in [Threads -> SUBSET TreePaths]
  BY <1>0, <1>1 DEF TreeTyped
<1> QED
  BY <1>1, <1>4, <1>6, <1>7, <1>9, <1>10, <1>11, <1>12, OwnStep

LEMMA TouchKeeps ==
  ASSUME TreeInv, NEW t \in Threads, NEW p \in TreePaths, Tree!Touch(t, p)
  PROVE  TreeInv'
<1>0. TreeTyped
  BY DEF TreeInv
<1>1. /\ treeCall[t] = None /\ tree[p] # "dir" /\ tree' = [tree EXCEPT ![p] = "file"]
      /\ gone' = [gone EXCEPT ![t] = {}] /\ told' = [told EXCEPT ![t] = None]
      /\ treeCall' = treeCall /\ dir' = dir
  BY DEF Tree!Touch, Tree!Begin, Tree!Began, Tree!Idle
<1>2. Grows
  BY <1>0, <1>1 DEF TreeTyped, Grows, Kinds
<1>3. OnWay(t)' /\ Tells(t)'
  BY <1>0, <1>1 DEF OnWay, Tells, TreeTyped
<1>4. /\ \A u \in Threads : u # t => Other(t, u) /\ gone'[u] = gone[u]
      /\ DOMAIN treeCall' = Threads /\ DOMAIN told' = Threads
      /\ gone' \in [Threads -> SUBSET TreePaths]
  BY <1>0, <1>1 DEF Other, TreeTyped
<1> QED
  BY <1>1, <1>2, <1>3, <1>4, OwnStep

LEMMA RemoveCheckKeeps ==
  ASSUME TreeInv, NEW t \in Threads, NEW p \in TreePaths, Tree!RemoveCheck(t, p)
  PROVE  TreeInv'
<1> DEFINE c == [op |-> "remove", path |-> p, kind |-> tree[p]]
<1>0. TreeTyped
  BY DEF TreeInv
<1>1. /\ treeCall[t] = None /\ tree' = tree
      /\ gone' = [gone EXCEPT ![t] = {}] /\ told' = [told EXCEPT ![t] = None]
      /\ treeCall' = [treeCall EXCEPT ![t] = c] /\ dir' = dir
  BY DEF Tree!RemoveCheck, Tree!Begin, Tree!Began, Tree!Idle
<1>2. Grows
  BY <1>0, <1>1 DEF TreeTyped, Grows
<1>3. c.op = "remove" /\ c.path = p
  OBVIOUS
<1> HIDE DEF c
<1>4. treeCall'[t] = c /\ told'[t] = None
  BY <1>0, <1>1 DEF TreeTyped
<1>5. OnWay(t)' /\ Tells(t)'
  BY <1>3, <1>4 DEF OnWay, Tells, CallTyped
<1>6. /\ \A u \in Threads : u # t => Other(t, u) /\ gone'[u] = gone[u]
      /\ DOMAIN treeCall' = Threads /\ DOMAIN told' = Threads
      /\ gone' \in [Threads -> SUBSET TreePaths]
  BY <1>0, <1>1 DEF Other, TreeTyped
<1> QED
  BY <1>1, <1>2, <1>5, <1>6, OwnStep

(* Who watches is told of what is removed.                                 *)
LEMMA RemoveEntryKeeps ==
  ASSUME TreeInv, NEW t \in Threads, Tree!RemoveEntry(t)
  PROVE  TreeInv'
<1>0. TreeTyped /\ OnWay(t)
  BY DEF TreeInv
<1>1. /\ treeCall[t] # None /\ treeCall[t].op = "remove"
      /\ treeCall' = [treeCall EXCEPT ![t] = None] /\ dir' = dir /\ told' = told
  BY DEF Tree!RemoveEntry, Tree!Idle
<1>2. PICK p \in TreePaths : p = treeCall[t].path
  BY <1>0, <1>1 DEF OnWay, CallTyped
<1>3. \/ /\ tree' = [tree EXCEPT ![p] = "none"]
         /\ gone' = [u \in Threads |-> IF Tree!Watches(u) THEN gone[u] \cup {p} ELSE gone[u]]
      \/ tree' = tree /\ gone' = gone
  BY <1>2 DEF Tree!RemoveEntry
<1>4. /\ DOMAIN treeCall' = Threads /\ DOMAIN told' = Threads /\ treeCall'[t] = None
      /\ \A u \in Threads : u # t => treeCall'[u] = treeCall[u]
  BY <1>0, <1>1 DEF TreeTyped
<1>5. /\ tree' \in [TreePaths -> Kinds]
      /\ \A q \in TreePaths : q # p => tree'[q] = tree[q]
      /\ gone' \in [Threads -> SUBSET TreePaths]
      /\ \A u \in Threads : gone[u] \subseteq gone'[u]
      /\ tree' = tree \/ \A u \in Threads : Tree!Watches(u) => p \in gone'[u]
  BY <1>0, <1>3 DEF TreeTyped, Kinds
<1>6. \A q : Above(q)' = Above(q)
  BY DEF Above, Tree!Above
<1>7. ASSUME NEW u \in Threads, NEW q \in TreePaths, Lost(u, q) PROVE Lost(u, q)'
  BY <1>5, <1>6, <1>7 DEF Lost
<1>8. ASSUME NEW u \in Threads, Tree!Watches(u), NEW q \in TreePaths, ~Lost(u, q)'
      PROVE  tree'[q] = tree[q] /\ \A a \in Above(q) : tree'[a] = tree[a]
  BY <1>5, <1>6, <1>8, PathsAbove DEF Lost
<1>9. ASSUME NEW u \in Threads PROVE Tells(u)'
  <2> SUFFICES ASSUME told[u] # None PROVE Tells(u)'
    BY <1>1 DEF Tells
  <2>1. Tells(u) /\ Tree!Watches(u)
    BY DEF TreeInv, Tree!Watches
  <2>2. PICK q \in TreePaths : q = told[u].path
    BY <2>1 DEF Tells
  <2>3. CASE Lost(u, q)'
    BY <1>1, <2>2, <2>3 DEF Tells, Lost
  <2>4. CASE ~Lost(u, q)'
    <3>1. tree'[q] = tree[q] /\ \A a \in Above(q) : tree'[a] = tree[a]
      BY <1>8, <2>1, <2>4
    <3>2. ~Lost(u, q)
      BY <1>7, <2>4
    <3>3. Blocked(q) => Blocked(q)'
      BY <1>6, <3>1 DEF Blocked
    <3>4. \/ told[u].result = "success" /\ tree[q] = "dir"
          \/ told[u].result = "internal_error" /\ tree[q] # "none"
          \/ /\ told[u].result = "not_found" /\ Above(q) # {}
             /\ told[u].op = "mkdir_recursive" => Blocked(q)
      BY <2>1, <2>2, <3>2 DEF Tells
    <3>5. \/ told[u].result = "success" /\ tree'[q] = "dir"
          \/ told[u].result = "internal_error" /\ tree'[q] # "none"
          \/ /\ told[u].result = "not_found" /\ Above(q)' # {}
             /\ told[u].op = "mkdir_recursive" => Blocked(q)'
      BY <1>6, <3>1, <3>3, <3>4
    <3> QED
      BY <1>1, <2>2, <3>5 DEF Tells, Blocked, Above
  <2> QED
    BY <2>3, <2>4
<1>10. ASSUME NEW u \in Threads PROVE OnWay(u)'
  <2> SUFFICES ASSUME treeCall'[u] # None PROVE OnWay(u)'
    BY DEF OnWay
  <2>1. u # t /\ treeCall'[u] = treeCall[u] /\ OnWay(u) /\ treeCall[u] # None
    BY <1>4 DEF TreeInv
  <2>2. CallTyped(treeCall[u]) /\ treeCall[u].path \in TreePaths
    BY <2>1 DEF OnWay, CallTyped
  <2>3. ASSUME treeCall[u].op = "mkdir_recursive"
        PROVE  Passed(u, treeCall[u].path, treeCall[u].next)'
    <3>1. PICK q \in TreePaths : q = treeCall[u].path
      BY <2>2
    <3>2. PICK n \in 1 .. Len(q) : n = treeCall[u].next
      BY <2>2, <2>3, <3>1 DEF CallTyped
    <3>3. Passed(u, q, n) /\ Tree!Watches(u)
      BY <2>1, <2>3, <3>1, <3>2 DEF OnWay, Tree!Watches, Tree!Making, Tree!Idle
    <3>4. Passed(u, q, n)'
      <4>1. CASE Lost(u, q)'
        BY <4>1 DEF Passed
      <4>2. CASE ~Lost(u, q)'
        <5>1. ~Lost(u, q) /\ \A a \in Above(q) : tree'[a] = tree[a]
          BY <1>7, <1>8, <3>3, <4>2
        <5>2. Blocked(q) => Blocked(q)'
          BY <1>6, <5>1 DEF Blocked
        <5>3. \A k \in 1 .. n - 1 : k \in 1 .. Len(q) - 1
          BY <3>2, PathsAbove
        <5>4. \A k \in 1 .. n - 1 : SubSeq(q, 1, k) \in Above(q)
          BY <5>3, PathsAbove
        <5> QED
          BY <3>3, <5>1, <5>2, <5>4 DEF Passed
      <4> QED
        BY <4>1, <4>2
    <3> QED
      BY <2>1, <3>1, <3>2, <3>4
  <2> QED
    BY <2>1, <2>2, <2>3 DEF OnWay, CallTyped
<1>11. TreeTyped'
  BY <1>0, <1>1, <1>4, <1>5 DEF TreeTyped
<1> QED
  BY <1>1, <1>9, <1>10, <1>11 DEF TreeInv
-----------------------------------------------------------------------------
(* A step of an iteration is right if what it leaves is.                   *)
LEMMA IterationStep ==
  ASSUME TreeInv, NEW t \in Threads, UNCHANGED <<tree, treeCall, told, gone>>,
         dir' \in [Threads -> Listings \cup {None}],
         \A u \in Threads : u # t => dir'[u] = dir[u],
         dir'[t] = None \/ Listing(dir'[t])
  PROVE  TreeInv'
<1>1. \A u \in Threads : (OnWay(u) => OnWay(u)') /\ (Tells(u) => Tells(u)')
  BY DEF OnWay, Tells, CallTyped, Passed, Lost, Blocked, Above, Tree!Above
<1> QED
  BY <1>1 DEF TreeInv, TreeTyped

(* One more entry is given.                                                *)
LEMMA GivenOnce ==
  ASSUME NEW s \in Seq(AllNames), NEW e \in AllNames,
         \A i, j \in 1 .. Len(s) : s[i] = s[j] => i = j,
         \A i \in 1 .. Len(s) : s[i] # e
  PROVE  LET r == Append(s, e) IN
         /\ r \in Seq(AllNames)
         /\ \A i, j \in 1 .. Len(r) : r[i] = r[j] => i = j
         /\ \A i \in 1 .. Len(r) : r[i] = e \/ \E j \in 1 .. Len(s) : r[i] = s[j]
         /\ \A j \in 1 .. Len(s) : \E i \in 1 .. Len(r) : r[i] = s[j]
         /\ \E i \in 1 .. Len(r) : r[i] = e
<1> DEFINE r == Append(s, e)
<1>1. PICK n \in Nat : n = Len(s)
  BY LenProperties
<1>2. /\ r \in Seq(AllNames) /\ Len(r) = n + 1 /\ r[n + 1] = e
      /\ \A i \in 1 .. n : r[i] = s[i]
  BY <1>1, AppendProperties
<1> HIDE DEF r
<1>3. \A i \in 1 .. n + 1 : i \in 1 .. n \/ i = n + 1
  OBVIOUS
<1>4. \A i, j \in 1 .. n + 1 : r[i] = r[j] => i = j
  BY <1>1, <1>2, <1>3
<1>5. /\ \A i \in 1 .. n + 1 : r[i] = e \/ \E j \in 1 .. n : r[i] = s[j]
      /\ \A j \in 1 .. n : j \in 1 .. n + 1 /\ r[j] = s[j]
      /\ n + 1 \in 1 .. n + 1
  BY <1>2, <1>3
<1> QED
  BY <1>1, <1>2, <1>4, <1>5 DEF r

LEMMA DirOpenKeeps ==
  ASSUME TreeInv, NEW t \in Threads, NEW p \in TreePaths \cup {<<>>}, Tree!dir_open(t, p)
  PROVE  TreeInv'
<1>1. PICK e \in Tree!Listed(p) :
        dir' = [dir EXCEPT ![t] = [first |-> TRUE, find_data |-> e, rest |-> Tree!Listed(p) \ {e},
                                   all |-> Tree!Listed(p), list |-> <<>>, ended |-> FALSE]]
  BY DEF Tree!dir_open
<1>2. UNCHANGED <<tree, treeCall, told, gone>>
  BY DEF Tree!dir_open
<1>3. Tree!Listed(p) \subseteq AllNames
  <2>1. \A q : Tree!Last(q) = Last(q)
    BY DEF Tree!Last, Last
  <2> QED
    BY <2>1 DEF Tree!Listed, Tree!Children, AllNames
<1>4. PICK all \in SUBSET AllNames : all = Tree!Listed(p)
  BY <1>3
<1> DEFINE d == [first |-> TRUE, find_data |-> e, rest |-> all \ {e}, all |-> all,
                 list |-> <<>>, ended |-> FALSE]
<1>5. <<>> \in Seq(AllNames) /\ Len(<<>>) = 0
  BY EmptySeq
<1>6. d \in Listings
  BY <1>1, <1>4, <1>5 DEF Listings
<1>7. Listing(d)
  BY <1>1, <1>4, <1>5 DEF Listing
<1>8. dir' = [dir EXCEPT ![t] = d] /\ dir \in [Threads -> Listings \cup {None}]
  BY <1>1, <1>4 DEF TreeInv, TreeTyped
<1> HIDE DEF d
<1>9. /\ dir' \in [Threads -> Listings \cup {None}] /\ dir'[t] = d
      /\ \A u \in Threads : u # t => dir'[u] = dir[u]
  BY <1>6, <1>8
<1> QED
  BY <1>2, <1>7, <1>9, IterationStep

LEMMA DirReadKeeps ==
  ASSUME TreeInv, NEW t \in Threads, Tree!dir_read_first(t) \/ Tree!dir_read_next(t)
  PROVE  TreeInv'
<1>1. UNCHANGED <<tree, treeCall, told, gone>> /\ dir[t] # None
  BY DEF Tree!dir_read_first, Tree!dir_read_next
<1>2. dir \in [Threads -> Listings \cup {None}] /\ dir[t] \in Listings /\ Listing(dir[t])
  BY <1>1 DEF TreeInv, TreeTyped
<1>3. PICK s \in Seq(AllNames) : s = dir[t].list /\ \A i, j \in 1 .. Len(s) : s[i] = s[j] => i = j
  BY <1>2 DEF Listings, Listing
<1>4. CASE Tree!dir_read_first(t)
  <2>1. PICK e \in AllNames : e = dir[t].find_data
    BY <1>2 DEF Listings
  <2>2. /\ dir' = [dir EXCEPT ![t].first = FALSE, ![t].list = Append(dir[t].list, dir[t].find_data)]
        /\ dir[t].first
    BY <1>4 DEF Tree!dir_read_first
  <2>3. s = <<>> /\ ~dir[t].ended /\ e \in dir[t].all /\ dir[t].rest = dir[t].all \ {e}
        /\ \A i \in 1 .. Len(s) : FALSE
    <3>1. s = <<>>
      BY <1>2, <1>3, <2>2 DEF Listing
    <3>2. Len(<<>>) = 0
      BY EmptySeq
    <3>3. 1 .. Len(s) = {}
      BY <3>1, <3>2
    <3> QED
      BY <1>2, <2>1, <2>2, <3>1, <3>3 DEF Listing
  <2> DEFINE r == Append(s, e)
  <2>4. /\ r \in Seq(AllNames)
        /\ \A i, j \in 1 .. Len(r) : r[i] = r[j] => i = j
        /\ \A i \in 1 .. Len(r) : r[i] = e \/ \E j \in 1 .. Len(s) : r[i] = s[j]
        /\ \E i \in 1 .. Len(r) : r[i] = e
    BY <1>3, <2>3, GivenOnce
  <2>5. dir' = [dir EXCEPT ![t].first = FALSE, ![t].list = r]
    BY <1>3, <2>1, <2>2
  <2> HIDE DEF r
  <2>6. /\ dir' \in [Threads -> Listings \cup {None}]
        /\ \A u \in Threads : u # t => dir'[u] = dir[u]
        /\ dir'[t].first = FALSE /\ dir'[t].list = r /\ dir'[t].rest = dir[t].rest
        /\ dir'[t].all = dir[t].all /\ dir'[t].ended = dir[t].ended
    BY <1>2, <2>4, <2>5 DEF Listings
  <2>7. PICK d : d = dir'[t]
    OBVIOUS
  <2>8. Listing(d)
    BY <2>3, <2>4, <2>6, <2>7 DEF Listing
  <2> QED
    BY <1>1, <2>6, <2>7, <2>8, IterationStep
<1>5. CASE Tree!dir_read_next(t) /\ dir[t].rest = {}
  <2>1. dir' = [dir EXCEPT ![t].ended = TRUE] /\ ~dir[t].first
    BY <1>5 DEF Tree!dir_read_next
  <2>2. /\ dir' \in [Threads -> Listings \cup {None}]
        /\ \A u \in Threads : u # t => dir'[u] = dir[u]
        /\ dir'[t].first = dir[t].first /\ dir'[t].list = dir[t].list
        /\ dir'[t].rest = dir[t].rest /\ dir'[t].all = dir[t].all
    BY <1>2, <2>1 DEF Listings
  <2>3. PICK d : d = dir'[t]
    OBVIOUS
  <2>4. Listing(d)
    BY <1>2, <1>5, <2>1, <2>2, <2>3 DEF Listing
  <2> QED
    BY <1>1, <2>2, <2>3, <2>4, IterationStep
<1>6. CASE Tree!dir_read_next(t) /\ dir[t].rest # {}
  <2>1. PICK e \in dir[t].rest :
          dir' = [dir EXCEPT ![t].find_data = e, ![t].rest = dir[t].rest \ {e},
                             ![t].list = Append(dir[t].list, e)]
    BY <1>6 DEF Tree!dir_read_next
  <2>2. ~dir[t].first /\ e \in AllNames
    BY <1>2, <1>6, <2>1 DEF Tree!dir_read_next, Listings
  <2>3. \A i \in 1 .. Len(s) : s[i] # e
    BY <1>2, <1>3, <2>1, <2>2 DEF Listing
  <2> DEFINE r == Append(s, e)
  <2>4. /\ r \in Seq(AllNames)
        /\ \A i, j \in 1 .. Len(r) : r[i] = r[j] => i = j
        /\ \A i \in 1 .. Len(r) : r[i] = e \/ \E j \in 1 .. Len(s) : r[i] = s[j]
        /\ \A j \in 1 .. Len(s) : \E i \in 1 .. Len(r) : r[i] = s[j]
        /\ \E i \in 1 .. Len(r) : r[i] = e
    BY <1>3, <2>2, <2>3, GivenOnce
  <2>5. dir' = [dir EXCEPT ![t].find_data = e, ![t].rest = dir[t].rest \ {e}, ![t].list = r]
    BY <1>3, <2>1
  <2> HIDE DEF r
  <2>6. /\ dir' \in [Threads -> Listings \cup {None}]
        /\ \A u \in Threads : u # t => dir'[u] = dir[u]
        /\ dir'[t].first = dir[t].first /\ dir'[t].list = r
        /\ dir'[t].rest = dir[t].rest \ {e}
        /\ dir'[t].all = dir[t].all /\ dir'[t].ended = dir[t].ended
    BY <1>2, <2>2, <2>4, <2>5 DEF Listings
  <2>7. PICK d : d = dir'[t]
    OBVIOUS
  <2>8. Listing(d)
    <3>1. /\ \A i \in 1 .. Len(s) : s[i] \in dir[t].all /\ s[i] \notin dir[t].rest
          /\ \A x \in dir[t].all : x \in dir[t].rest \/ \E i \in 1 .. Len(s) : s[i] = x
          /\ dir[t].rest \subseteq dir[t].all /\ ~dir[t].ended
      BY <1>2, <1>3, <1>6, <2>2 DEF Listing
    <3>2. \A i \in 1 .. Len(r) : r[i] \in dir[t].all /\ r[i] \notin dir[t].rest \ {e}
      BY <2>1, <2>4, <3>1
    <3>3. ASSUME NEW x \in dir[t].all
          PROVE  x \in dir[t].rest \ {e} \/ \E i \in 1 .. Len(r) : r[i] = x
      <4>1. CASE x = e
        BY <2>4, <4>1
      <4>2. CASE x # e /\ x \in dir[t].rest
        BY <4>2
      <4>3. CASE x \notin dir[t].rest
        <5>1. PICK j \in 1 .. Len(s) : s[j] = x
          BY <3>1, <4>3
        <5> QED
          BY <2>4, <5>1
      <4> QED
        BY <4>1, <4>2, <4>3
    <3>4. ~d.first /\ ~d.ended /\ d.list = r /\ d.rest = dir[t].rest \ {e} /\ d.all = dir[t].all
      BY <2>2, <2>6, <2>7, <3>1
    <3> QED
      <4>1. \A i \in 1 .. Len(d.list) : d.list[i] \in d.all /\ d.list[i] \notin d.rest
        BY <3>2, <3>4
      <4>2. \A x \in d.all : x \in d.rest \/ \E i \in 1 .. Len(d.list) : d.list[i] = x
        BY <3>3, <3>4
      <4>3. d.rest \subseteq d.all
        BY <3>1, <3>4
      <4>4. \A i, j \in 1 .. Len(d.list) : d.list[i] = d.list[j] => i = j
        BY <2>4, <3>4
      <4> QED
        BY <3>4, <4>1, <4>2, <4>3, <4>4 DEF Listing
  <2> QED
    BY <1>1, <2>6, <2>7, <2>8, IterationStep
<1> QED
  BY <1>4, <1>5, <1>6

LEMMA TreeNext ==
  ASSUME TreeInv, NEW t \in Threads, Tree!Change(t) \/ Tree!Iterate(t)
  PROVE  TreeInv'
<1>1. CASE Tree!Change(t)
  BY <1>1, MkdirCheckKeeps, MkdirParentKeeps, MkdirCreateKeeps, TouchKeeps, RemoveCheckKeeps,
     RemoveEntryKeeps DEF Tree!Change
<1>2. CASE Tree!dir_close(t)
  <2>1. /\ dir' = [dir EXCEPT ![t] = None] /\ UNCHANGED <<tree, treeCall, told, gone>>
        /\ dir \in [Threads -> Listings \cup {None}]
    BY <1>2 DEF Tree!dir_close, TreeInv, TreeTyped
  <2> QED
    BY <2>1, IterationStep
<1>3. CASE Tree!Iterate(t) /\ ~Tree!dir_close(t)
  BY <1>3, DirOpenKeeps, DirReadKeeps DEF Tree!Iterate
<1> QED
  BY <1>1, <1>2, <1>3

LEMMA PartTree ==
  ASSUME TreeInv, [PartNext]_<<part, fsVars, treeVars>>
  PROVE  TreeInv'
<1>1. CASE UNCHANGED treeVars
  <2>1. \A u \in Threads : (OnWay(u) => OnWay(u)') /\ (Tells(u) => Tells(u)')
    BY <1>1 DEF treeVars, OnWay, Tells, CallTyped, Passed, Lost, Blocked, Above, Tree!Above
  <2> QED
    BY <1>1, <2>1 DEF treeVars, TreeInv, TreeTyped
<1>2. CASE PartNext /\ ~UNCHANGED treeVars
  BY <1>2, TreeNext, TreeAssumption DEF PartNext
<1> QED
  BY <1>1, <1>2

(* Any number of threads and any tree: what fs_mkdir() tells is so, unless *)
(* someone removed what it made or its parents.                            *)
THEOREM MkdirTellsTrue == PartSpec => []MkdirTells
<1>1. TreeInv => MkdirTells
  BY DEF TreeInv, Tells, Lost, Blocked, Above, MkdirTells, Tree!MkdirTells
<1>2. PartInit => TreeInv
  BY TreeInitHolds DEF PartInit
<1> QED
  BY <1>1, <1>2, PartTree, PTL DEF PartSpec

(* A directory of any size, that others change meanwhile: the iteration    *)
(* gives what was there when it began, each entry once.                    *)
THEOREM EntriesListedOnce == PartSpec => []ListedOnce
<1>1. TreeInv => ListedOnce
  <2> SUFFICES ASSUME TreeInv, NEW t \in Threads, dir[t] # None
               PROVE  /\ Tree!IsInjective(dir[t].list)
                      /\ dir[t].ended => {dir[t].list[i] : i \in DOMAIN dir[t].list} = dir[t].all
    BY DEF ListedOnce, Tree!ListedOnce
  <2>1. dir[t] \in Listings /\ Listing(dir[t])
    BY DEF TreeInv, TreeTyped
  <2>2. DOMAIN dir[t].list = 1 .. Len(dir[t].list)
    <3>1. dir[t].list \in Seq(AllNames)
      BY <2>1 DEF Listings
    <3> QED
      BY <3>1, LenProperties
  <2>3. Tree!IsInjective(dir[t].list)
    BY <2>1, <2>2 DEF Listing, Tree!IsInjective
  <2>4. ASSUME dir[t].ended PROVE {dir[t].list[i] : i \in DOMAIN dir[t].list} = dir[t].all
    <3>1. ~dir[t].first /\ dir[t].rest = {}
      BY <2>1, <2>4 DEF Listing
    <3>2. /\ \A i \in 1 .. Len(dir[t].list) : dir[t].list[i] \in dir[t].all
          /\ \A e \in dir[t].all : \E i \in 1 .. Len(dir[t].list) : dir[t].list[i] = e
      BY <2>1, <3>1 DEF Listing
    <3> QED
      BY <2>2, <3>2
  <2> QED
    BY <2>3, <2>4
<1>2. PartInit => TreeInv
  BY TreeInitHolds DEF PartInit
<1> QED
  BY <1>1, <1>2, PartTree, PTL DEF PartSpec
===========================================================================
