------------------------------- MODULE HashMap -------------------------------
(***************************************************************************)
(* The hash map generated by DG_MAP_IMPL of dg_map.h: open addressing with *)
(* linear probing, tombstones, and a table that is rebuilt when too few    *)
(* buckets are empty or too many are tombstones.                           *)
(*                                                                         *)
(* A bucket is Empty, a tombstone, or an entry.  The control byte and the  *)
(* stored hash of a bucket only make comparisons cheaper: they and EQFN    *)
(* agree exactly when the keys are equal, so an entry is its key and its   *)
(* value.  malloc() may fail; then the table stays as it is.               *)
(***************************************************************************)
EXTENDS Integers, Sequences, FiniteSetsExt

CONSTANTS
  Keys,
  Entries,        \* the <<key, value>> pairs that are set
  HashFn,         \* HASHFN, a function on Keys
  MinCap,         \* the least capacity, 16; a power of two, from 8 on of which
                  \* 85 % leave a bucket empty
  MaxCap,         \* bound of the model: a larger table is never allocated
  Wants,          \* the sizes that are reserved
  Empty, Tomb, None

VARIABLES
  m,              \* the table: [cap, bucket, size, tombs]
  content         \* history: the value last set of each key, None if erased

End == -1         \* (size_t)-1
-----------------------------------------------------------------------------
IsEntry(b) == b \notin {Empty, Tomb}
Has(b, k) == IsEntry(b) /\ b.key = k

First(x, k) == HashFn[k] % x.cap

\* The bucket that a search for k meets after d steps, and what is there
Nth(x, k, d) == (First(x, k) + d) % x.cap
Met(x, k, d) == x.bucket[Nth(x, k, d)]

\* The bucket where a search for k ends: the first one met that Ends it
Search(x, k, Ends(_)) ==
  Nth(x, k, CHOOSE d \in 0 .. x.cap - 1 :
              Ends(Met(x, k, d)) /\ \A e \in 0 .. d - 1 : ~Ends(Met(x, k, e)))

\* that of the key, or an empty one
Stop(x, k) == Search(x, k, LAMBDA b : b = Empty \/ Has(b, k))

\* the value of k, None if it is absent: NAME_get(), NAME_get_ref()
get(x, k) ==
  LET b == x.bucket[Stop(x, k)] IN IF x.cap = 0 \/ ~Has(b, k) THEN None ELSE b.val

NewTable(cap) ==
  [cap |-> cap, bucket |-> [i \in 0 .. cap - 1 |-> Empty], size |-> 0, tombs |-> 0]

\* Entries go to the first empty bucket, in the order of the old table.
FirstEmpty(x, k) == Search(x, k, LAMBDA b : b = Empty)

Reinsert(x, e) == [x EXCEPT !.bucket[FirstEmpty(x, e.key)] = e, !.size = @ + 1]

rehash_into(x, cap) ==
  LET upto[n \in 0 .. x.cap] ==
        IF n = 0 THEN NewTable(cap)
        ELSE IF IsEntry(x.bucket[n - 1]) THEN Reinsert(upto[n - 1], x.bucket[n - 1])
        ELSE upto[n - 1]
  IN upto[x.cap]

\* dg__next_pow2_(): the least power of two from MinCap on that is at least n
next_pow2(n) ==
  LET power[i \in 0 .. n] == IF i = 0 THEN MinCap ELSE 2 * power[i - 1]
  IN Min({power[i] : i \in {j \in 0 .. n : power[j] >= n}})

should_grow(x) == (x.size + x.tombs) * 100 >= x.cap * 85
-----------------------------------------------------------------------------
(* The operations, as functions of the map *)

\* The first tombstone before the search for k ends; its last bucket if there
\* is none.
FirstTomb(x, k) == Search(x, k, LAMBDA b : ~IsEntry(b) \/ Has(b, k))

Stored(x, i, k, v) ==
  [x EXCEPT !.bucket[i] = [key |-> k, val |-> v],
            !.size = IF Has(x.bucket[i], k) THEN @ ELSE @ + 1,
            !.tombs = IF x.bucket[i] = Tomb THEN @ - 1 ELSE @]

\* Mutation of put: the search for the key ends at the first tombstone.
put_AtTomb(x, k, v) == Stored(x, FirstTomb(x, k), k, v)

\* NAME_set() after it has made room.  Only a key that is nowhere in the table
\* goes to a tombstone.
put(x, k, v) ==
  IF Has(x.bucket[Stop(x, k)], k) THEN Stored(x, Stop(x, k), k, v)
  ELSE Stored(x, FirstTomb(x, k), k, v)

emptied(x, i) == [x EXCEPT !.bucket[i] = Tomb, !.size = @ - 1, !.tombs = @ + 1]

Occupied(x) == {i \in 0 .. x.cap - 1 : IsEntry(x.bucket[i])}
iter_begin(x) == IF Occupied(x) = {} THEN End ELSE Min(Occupied(x))
iter_next(x, it) ==
  LET later == {i \in Occupied(x) : i > it} IN IF later = {} THEN End ELSE Min(later)

\* Mutation of erase_at: it rehashes like NAME_erase().
erase_at_Rehash(x, it) ==
  LET y == rehash_into(emptied(x, it), x.cap) IN [map |-> y, next |-> iter_next(y, it)]

\* NAME_erase_at() of an iterator at an entry does not rehash.
erase_at(x, it) == LET y == emptied(x, it) IN [map |-> y, next |-> iter_next(y, it)]
-----------------------------------------------------------------------------
Nothing == [k \in Keys |-> None]

\* NAME_init(m, 0)
Init ==
  /\ m = [cap |-> 0, bucket |-> <<>>, size |-> 0, tombs |-> 0]
  /\ content = Nothing

\* Only a table of at most MaxCap buckets can be allocated, and not always.
Allocated(cap) == cap <= MaxCap

\* Without the memory for a larger table nothing is set.
set(k, v) ==
  LET cap == IF m.cap = 0 THEN MinCap ELSE 2 * m.cap IN
  /\ \/ m.cap > 0 /\ ~should_grow(m) /\ m' = put(m, k, v)
     \/ /\ m.cap = 0 \/ should_grow(m)
        /\ Allocated(cap)
        /\ m' = put(rehash_into(m, cap), k, v)
  /\ content' = [content EXCEPT ![k] = v]

\* NAME_erase() rehashes when more than half of the buckets are tombstones.
erase(k) ==
  LET x == emptied(m, Stop(m, k)) IN
  /\ get(m, k) # None
  /\ \/ m' = x
     \/ x.tombs * 2 > x.cap /\ m' = rehash_into(x, x.cap)
  /\ content' = [content EXCEPT ![k] = None]

EraseAt ==
  \E i \in Occupied(m) :
    /\ m' = erase_at(m, i).map
    /\ content' = [content EXCEPT ![m.bucket[i].key] = None]

compact == m.tombs > 0 /\ m' = rehash_into(m, m.cap) /\ UNCHANGED content

reserve(want) ==
  LET need == next_pow2((want * 100) \div 85 + 1) IN
  /\ need > m.cap /\ Allocated(need)
  /\ m' = rehash_into(m, need)
  /\ UNCHANGED content

clear == m.cap > 0 /\ m' = NewTable(m.cap) /\ content' = Nothing

destroy ==
  /\ m' = [cap |-> 0, bucket |-> <<>>, size |-> 0, tombs |-> 0]
  /\ content' = Nothing

Next ==
  \/ \E k \in Keys : erase(k)
  \/ \E e \in Entries : set(e[1], e[2])
  \/ EraseAt \/ compact \/ clear \/ destroy
  \/ \E want \in Wants : reserve(want)

Spec == Init /\ [][Next]_<<m, content>>
-----------------------------------------------------------------------------
(* Every search ends: there is an empty bucket, which the loops of set,    *)
(* get and erase and of a rehash rely on, because the counters that decide *)
(* when to rebuild the table are right.                                    *)
ProbesEnd ==
  /\ m.cap > 0 => \E i \in 0 .. m.cap - 1 : m.bucket[i] = Empty
  /\ m.size = Cardinality(Occupied(m))
  /\ m.tombs = Cardinality({i \in 0 .. m.cap - 1 : m.bucket[i] = Tomb})

(* NAME_get() finds what was last set and not erased, in one bucket only,  *)
(* whatever collisions, tombstones and rebuilt tables do; NAME_size()      *)
(* counts it.                                                              *)
FindsContent ==
  /\ \A k \in Keys : get(m, k) = content[k]
  /\ m.size = Cardinality({k \in Keys : content[k] # None})

\* A loop that erases the entries of E and goes over the others, after a turn
Turn(w, E) ==
  LET k == w.map.bucket[w.it].key  gone == erase_at(w.map, w.it) IN
  IF w.it = End THEN w
  ELSE [map |-> IF k \in E THEN gone.map ELSE w.map,
        it  |-> IF k \in E THEN gone.next ELSE iter_next(w.map, w.it),
        met |-> Append(w.met, k)]

(* "keep iteration stable" (dg_map.h:358): a loop that erases some of the  *)
(* entries it meets with NAME_erase_at() meets every entry once and ends.  *)
LoopsMeetAll ==
  LET present == {k \in Keys : content[k] # None}
      n == Cardinality(present)
  IN \A E \in SUBSET present :
       LET loop[i \in 0 .. n] ==
             IF i = 0 THEN [map |-> m, it |-> iter_begin(m), met |-> <<>>]
             ELSE Turn(loop[i - 1], E)
           last == loop[n]
       IN last.it = End /\ Range(last.met) = present
=============================================================================
