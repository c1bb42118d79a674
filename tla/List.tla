-------------------------------- MODULE List --------------------------------
(***************************************************************************)
(* The doubly linked list of dg_list.h and dg_list.c.  A node holds one    *)
(* element; list_node_insert_before() and list_node_insert_after() link a  *)
(* node without the list, whose ends they leave: the list does not see a   *)
(* node before its first, and loses its end behind one after its last.     *)
(***************************************************************************)
EXTENDS Integers, Sequences

CONSTANTS Nodes, None

VARIABLES
  pbegin, pend,
  node,           \* the links of the nodes that are allocated
  content,        \* history: the nodes of the list, first to last
  outside         \* history: a node was linked before the first or after the last

vars == <<pbegin, pend, node, content, outside>>

\* calloc(), which may fail, gives any node that is free.
Free == Nodes \ DOMAIN node
Alloc(n, last, next) ==
  [m \in DOMAIN node \cup {n} |-> IF m = n THEN [plast |-> last, pnext |-> next] ELSE node[m]]

Init ==
  /\ pbegin = None /\ pend = None /\ node = <<>>
  /\ content = <<>> /\ outside = FALSE
-----------------------------------------------------------------------------
\* list_add_node_ex(back) with the assertion that the end is an end
add_back(n) ==
  /\ n \in Free
  /\ pend # None => node[pend].pnext = None
  /\ node' = LET new == Alloc(n, pend, None) IN
             IF pend = None THEN new ELSE [new EXCEPT ![pend].pnext = n]
  /\ pbegin' = IF pend = None THEN n ELSE pbegin
  /\ pend' = n
  /\ content' = Append(content, n)
  /\ UNCHANGED outside

add_front(n) ==
  /\ n \in Free
  /\ pbegin # None => node[pbegin].plast = None
  /\ node' = LET new == Alloc(n, None, pbegin) IN
             IF pbegin = None THEN new ELSE [new EXCEPT ![pbegin].plast = n]
  /\ pend' = IF pbegin = None THEN n ELSE pend
  /\ pbegin' = n
  /\ content' = <<n>> \o content
  /\ UNCHANGED outside

\* node n between two neighbours
Between(n, last, next) ==
  LET new == Alloc(n, last, next)
      from == IF last = None THEN new ELSE [new EXCEPT ![last].pnext = n]
  IN IF next = None THEN from ELSE [from EXCEPT ![next].plast = n]

\* Both are given a node of the list, the k-th.
insert_before(k, n) ==
  /\ n \in Free /\ ~outside
  /\ node' = Between(n, node[content[k]].plast, content[k])
  /\ content' = SubSeq(content, 1, k - 1) \o <<n>> \o SubSeq(content, k, Len(content))
  /\ outside' = (content[k] = pbegin)
  /\ UNCHANGED <<pbegin, pend>>

insert_after(k, n) ==
  /\ n \in Free /\ ~outside
  /\ node' = Between(n, content[k], node[content[k]].pnext)
  /\ content' = SubSeq(content, 1, k) \o <<n>> \o SubSeq(content, k + 1, Len(content))
  /\ outside' = (content[k] = pend)
  /\ UNCHANGED <<pbegin, pend>>

\* s is what a loop meets that starts at n and goes along one side.
Walk(n, side, s) ==
  /\ n = IF s = <<>> THEN None ELSE s[1]
  /\ \A i \in DOMAIN s : node[s[i]][side] = IF i < Len(s) THEN s[i + 1] ELSE None

\* the nodes that a loop meets which starts at the first
Met ==
  {n \in DOMAIN node :
     \A S \in SUBSET DOMAIN node :
       pbegin \in S /\ (\A m \in S : node[m].pnext \in S \cup {None}) => n \in S}

\* list_free() frees the nodes from the first on.
list_free ==
  /\ pbegin # None
  /\ node' = [n \in DOMAIN node \ Met |-> node[n]]
  /\ pbegin' = None /\ pend' = None
  /\ content' = <<>> /\ outside' = FALSE

Next ==
  \/ \E n \in Nodes : add_back(n) \/ add_front(n)
  \/ \E n \in Nodes, k \in DOMAIN content : insert_before(k, n) \/ insert_after(k, n)
  \/ list_free

Spec == Init /\ [][Next]_vars
-----------------------------------------------------------------------------
(* Walked from either end, by the list's ends or by list_node_head() and   *)
(* list_node_tail(), the list is what was added, unless a node was linked  *)
(* outside of its ends.                                                    *)
HoldsContent ==
  LET n == Len(content) IN
  ~outside =>
    /\ Walk(pbegin, "pnext", content)
    /\ Walk(pend, "plast", [i \in 1 .. n |-> content[n - i + 1]])
=============================================================================
