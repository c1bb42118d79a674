---------------------------- MODULE SearchPaths ----------------------------
(***************************************************************************)
(* The registry of search paths of dglib/src/dg_filesystem.c.  The table   *)
(* hands out blocks of sizeof(dg_path_t) (l. 816), two machine words, for  *)
(* entries of twice that size: the id of entry i starts in block i and its *)
(* path {size, pstring} is block i + 1, where the id of entry i + 1 will   *)
(* be.  So two neighbours write over each other:                           *)
(*   - the id of a new entry lies on the path of the entry before.  One    *)
(*     shorter than a word overwrites the size, which nothing reads, and   *)
(*     leaves pstring; a longer one overwrites pstring too;                *)
(*   - a new path for an entry that is overridden lies on the id of the    *)
(*     next, which is not found any more.                                  *)
(* A pstring that holds the text of an id points nowhere: the call that    *)
(* frees or reads the string it should point to does not come to an end.   *)
(*                                                                         *)
(* Search paths are never removed, so the entries in use are the first     *)
(* num ones, all of generation 1, and a handle is an index.                *)
(***************************************************************************)
EXTENDS Integers, FiniteSets

CONSTANTS
  Threads, Ids,
  LongIds,      \* the ids of eight characters and more, which fill both words
  CutIds,       \* the ids of sixteen and more: no entry has room for them
  Paths,        \* non-empty path strings
  EmptyPath,    \* the empty string, which is also a path
  Entries,      \* MAX_SEARCH_PATHES
  MaxDepth,     \* bound of the model: how often one thread holds the mutex
  Zero, Size,   \* what a first word holds besides an id: zero, or a length
  Null,         \* pstring of an entry whose path could not be stored
  None

VARIABLES
  mem,          \* blocks: lo is the first word, hi is pstring
  num,
  mutex,        \* glob_sp_mtx, a critical section: who is inside, how often
  call,         \* the call each thread is in
  registered,   \* history: the path of each id, None if it was never added
  issued,       \* history: the handles fs_get_path_id() gave, with their ids
  spoilt        \* history: the ids that were cut or whose entry was written over

pathVars == <<mem, num, mutex, call, registered, issued, spoilt>>

Strings == Paths \cup {EmptyPath}
Calls ==
  [op : {"add"}, id : Ids, path : Strings, over : BOOLEAN]
    \cup [op : {"id"}, id : Ids]
    \cup [op : {"path"}, handle : 0 .. Entries - 1]

CallStates == [c : Calls, at : {"find", "act"}, found : 0 .. Entries - 1 \cup {None}]

\* None is nothing else, and no word but that of an id reads as one.
ASSUME SearchPathsAssumption ==
  /\ Entries \in Nat /\ MaxDepth \in Nat
  /\ None \notin Threads \cup Strings \cup {Null} /\ None \notin Nat /\ None \notin CallStates
  /\ Zero \notin Ids /\ Size \notin Ids /\ Ids \cap (Strings \cup {Null}) = {}
  /\ CutIds \subseteq LongIds /\ LongIds \subseteq Ids

\* fsi_search_path_by_id(): str_compare() with the id that was asked for,
\* which str_copy() has cut if it is too long.
Named(id) ==
  {i \in 0 .. num - 1 :
     /\ mem[i].lo = id /\ id \notin CutIds
     /\ id \in LongIds => mem[i].hi = id}
Find(id) == IF Named(id) = {} THEN None ELSE CHOOSE i \in Named(id) : \A j \in Named(id) : i <= j

\* the path an entry holds: path_get_string(), fs_open_file(), fs_build_path()
pstring(i) == mem[i + 1].hi

PathsInit ==
  /\ mem = [i \in 0 .. Entries |-> [lo |-> Zero, hi |-> Null]]
  /\ num = 0
  /\ mutex = [owner |-> None, depth |-> 0]
  /\ call = [t \in Threads |-> None]
  /\ registered = [id \in Ids |-> None]
  /\ issued = {}
  /\ spoilt = {}

\* Mutation of Lock: the mutex is not waited for.
LockUnchecked(t, c) ==
  /\ call[t] = None
  /\ mutex' = [owner |-> t, depth |-> 1]
  /\ call' = [call EXCEPT ![t] = [c |-> c, at |-> IF c.op = "path" THEN "act" ELSE "find", found |-> None]]
  /\ UNCHANGED <<mem, num, registered, issued, spoilt>>

\* A call begins with mutex_lock(), which its owner may repeat.
Lock(t, c) ==
  /\ call[t] = None
  /\ mutex.owner \in {None, t} /\ mutex.depth < MaxDepth
  /\ mutex' = [owner |-> t, depth |-> mutex.depth + 1]
  /\ call' = [call EXCEPT ![t] = [c |-> c, at |-> IF c.op = "path" THEN "act" ELSE "find", found |-> None]]
  /\ UNCHANGED <<mem, num, registered, issued, spoilt>>

Search(t) ==
  /\ call[t] # None /\ call[t].at = "find"
  /\ call' = [call EXCEPT ![t] = [c |-> @.c, at |-> "act", found |-> Find(@.c.id)]]
  /\ UNCHANGED <<mem, num, mutex, registered, issued, spoilt>>

Acts(t, op) == call[t] # None /\ call[t].at = "act" /\ call[t].c.op = op

\* mutex_unlock() and the return; LeaveCriticalSection() is external.
Unlock(t) ==
  /\ mutex' = IF mutex.depth > 1 THEN [mutex EXCEPT !.depth = @ - 1]
              ELSE [owner |-> None, depth |-> 0]
  /\ call' = [call EXCEPT ![t] = None]

\* str_copy() of the id, into the block of entry i
StoreId(m, i, id) == [m EXCEPT ![i] = [lo |-> id, hi |-> IF id \in LongIds THEN id ELSE @.hi]]

\* path_copy_string(): the string is null when malloc() fails, and then the
\* size is not written.
StorePath(m, i, p) ==
  IF p = Null THEN [m EXCEPT ![i + 1] = [lo |-> IF @.hi = Null THEN @.lo ELSE Zero, hi |-> Null]]
  ELSE [m EXCEPT ![i + 1] = [lo |-> IF p = EmptyPath THEN Zero ELSE Size, hi |-> p]]

\* fs_add_search_path(), once it has looked for the id
AddExists(t) ==
  /\ Acts(t, "add") /\ call[t].found # None /\ ~call[t].c.over
  /\ Unlock(t)
  /\ UNCHANGED <<mem, num, registered, issued, spoilt>>

\* The path there was is freed, unless the text of an id lies on it.
AddOverride(t) ==
  LET c == call[t].c  i == call[t].found IN
  /\ Acts(t, "add") /\ i # None /\ c.over
  /\ pstring(i) \notin Ids
  /\ \E p \in {c.path, Null} :
       /\ mem' = StorePath(mem, i, p)
       /\ registered' = [registered EXCEPT ![c.id] = p]
  /\ spoilt' = spoilt \cup {id \in Ids : i + 1 < num /\ mem[i + 1].lo = id /\ mem'[i + 1].lo # id}
  /\ Unlock(t)
  /\ UNCHANGED <<num, issued>>

\* When malloc() fails the call returns -1 and the entry stays, without a path.
AddNew(t) ==
  LET c == call[t].c IN
  /\ Acts(t, "add") /\ call[t].found = None /\ num < Entries
  /\ \E p \in {c.path, Null} :
       /\ mem' = StorePath(StoreId(mem, num, c.id), num, p)
       /\ registered' = [registered EXCEPT ![c.id] = p]
  /\ num' = num + 1
  /\ spoilt' = spoilt \cup ({c.id} \cap CutIds)
                     \cup {id \in Ids : num > 0 /\ mem[num - 1].lo = id /\ c.id \in LongIds}
  /\ Unlock(t)
  /\ UNCHANGED issued

\* The table is full: nothing is added and the call returns 0.
AddFull(t) ==
  /\ Acts(t, "add") /\ call[t].found = None /\ num = Entries
  /\ Unlock(t)
  /\ UNCHANGED <<mem, num, registered, issued, spoilt>>

\* fs_get_path_id()
GetPathId(t) ==
  /\ Acts(t, "id")
  /\ issued' = IF call[t].found = None THEN issued
               ELSE issued \cup {[handle |-> call[t].found, id |-> call[t].c.id]}
  /\ Unlock(t)
  /\ UNCHANGED <<mem, num, registered, spoilt>>

\* fs_get_path_by_id().  When path_copy() has nothing to copy the call returns
\* at l. 104 and leaves the mutex locked; its malloc() is taken to succeed.
GetPathById(t) ==
  LET h == call[t].c.handle IN
  /\ Acts(t, "path")
  /\ h < num => pstring(h) \notin Ids
  /\ IF h < num /\ pstring(h) \in {Null, EmptyPath}
     THEN call' = [call EXCEPT ![t] = None] /\ UNCHANGED mutex
     ELSE Unlock(t)
  /\ UNCHANGED <<mem, num, registered, issued, spoilt>>

\* Handles come from fs_get_path_id().
PathStep(t) ==
  \/ \E c \in Calls : (c.op = "path" => \E k \in issued : k.handle = c.handle) /\ Lock(t, c)
  \/ Search(t)
  \/ AddExists(t) \/ AddOverride(t) \/ AddNew(t) \/ AddFull(t)
  \/ GetPathId(t) \/ GetPathById(t)
-----------------------------------------------------------------------------
PathsOK ==
  /\ mem \in [0 .. Entries -> [lo : Ids \cup {Zero, Size}, hi : Strings \cup {Null} \cup Ids]]
  /\ num \in 0 .. Entries
  /\ mutex \in [owner : Threads \cup {None}, depth : 0 .. MaxDepth]
  /\ \A t \in Threads : call[t] # None => call[t].c \in Calls
  /\ registered \in [Ids -> Strings \cup {Null, None}]
  /\ issued \subseteq [handle : 0 .. Entries - 1, id : Ids]
  /\ spoilt \subseteq Ids

(* Two threads that add the same id at the same time make one entry of it  *)
(* (l. 53-63), whatever ids and overrides come between, and an id that was *)
(* not added is not found.  An id that was added stays with one entry,     *)
(* that of its handle, and with the path last stored under it, although    *)
(* the entries overlap in memory (l. 816), until one of two things has     *)
(* happened to it: the next entry got an id of eight characters or more,   *)
(* or the entry before got another path.                                   *)
NamesKept ==
  /\ PathsOK
  /\ \A id \in Ids : Cardinality(Named(id)) <= 1 /\ (registered[id] = None => Named(id) = {})
  /\ \A id \in Ids \ spoilt : registered[id] # None =>
       \E i \in Named(id) : pstring(i) = registered[id]
  /\ \A k \in issued : k.id \notin spoilt => Named(k.id) = {k.handle}

(* "@return if exists, returns correct handle value of existing search     *)
(* path" (dg_filesystem.h:109): an id that was added is found.             *)
NamesFound == \A id \in Ids : registered[id] # None => Named(id) # {}
=============================================================================
