------------------------------- MODULE TreeMap -------------------------------
(***************************************************************************)
(* The ordered map generated by DG_TMAP_IMPL of dg_treemap.h: a red-black  *)
(* tree with parent links.  A node is named by its key, which it keeps.    *)
(* The code writes every case for left and for right; here the two are one *)
(* definition with the side as a parameter.                                *)
(***************************************************************************)
EXTENDS Integers, Sequences, SequencesExt, FiniteSetsExt

CONSTANTS
  Keys,           \* integers: CMPFN orders them
  Entries,        \* the <<key, value>> pairs that are inserted
  None            \* NULL

VARIABLES
  t,              \* the tree: [root, size, node], node a function on its keys
  content         \* history: the value last set of each key, None if erased
-----------------------------------------------------------------------------
Other(side) == IF side = "left" THEN "right" ELSE "left"
IsRed(x, n) == n # None /\ x.node[n].red
Paint(x, n, red) == IF n = None THEN x ELSE [x EXCEPT !.node[n].red = red]
SideOf(x, n) == IF n = x.node[x.node[n].parent].left THEN "left" ELSE "right"

\* c becomes the child of p on that side
Link(x, p, side, c) ==
  IF c = None THEN [x EXCEPT !.node[p][side] = None]
  ELSE [x EXCEPT !.node[p][side] = c, !.node[c].parent = p]

\* NAME__transplant_(): v takes the place of u
transplant(x, u, v) ==
  LET p == x.node[u].parent IN
  IF p # None THEN Link(x, p, SideOf(x, u), v)
  ELSE IF v = None THEN [x EXCEPT !.root = None]
  ELSE [x EXCEPT !.root = v, !.node[v].parent = None]

\* NAME__rotate_left_(), NAME__rotate_right_()
rotate(x, n, side) ==
  LET up == x.node[n][Other(side)]
      between == Link(x, n, Other(side), x.node[up][side])
  IN Link(transplant(between, n, up), up, side, n)

\* The last node from n on in that direction: NAME__min_(), NAME__max_()
RECURSIVE Furthest(_, _, _)
Furthest(x, n, side) ==
  IF n = None \/ x.node[n][side] = None THEN n ELSE Furthest(x, x.node[n][side], side)

RECURSIVE Climb(_, _, _)
Climb(x, n, side) ==
  LET p == x.node[n].parent IN
  IF p # None /\ n = x.node[p][side] THEN Climb(x, p, side) ELSE p

\* NAME__succ_() for "right", NAME__pred_() for "left"
neighbour(x, n, side) ==
  IF x.node[n][side] # None THEN Furthest(x, x.node[n][side], Other(side)) ELSE Climb(x, n, side)

\* NAME__find_node_() from n on
RECURSIVE find(_, _, _)
find(x, n, k) ==
  IF n = None \/ n = k THEN n ELSE find(x, x.node[n][IF k < n THEN "left" ELSE "right"], k)

get(x, k) == LET n == find(x, x.root, k) IN IF n = None THEN None ELSE x.node[n].val

\* NAME_lower_bound(), and with strict NAME_upper_bound(), from n on; res is
\* the best node so far
RECURSIVE bound(_, _, _, _, _)
bound(x, n, k, strict, res) ==
  IF n = None THEN res
  ELSE IF k < n \/ (k = n /\ ~strict) THEN bound(x, x.node[n].left, k, strict, n)
  ELSE bound(x, x.node[n].right, k, strict, res)
-----------------------------------------------------------------------------
\* NAME__insert_fix_()
RECURSIVE insert_fix(_, _)
insert_fix(x, z) ==
  LET p == x.node[z].parent  g == x.node[p].parent
      side == SideOf(x, p)   y == x.node[g][Other(side)]
      inner == z # x.node[p][side]
      outwards == IF inner THEN rotate(x, p, side) ELSE x
      top == IF inner THEN z ELSE p
  IN IF ~IsRed(x, p) THEN Paint(x, x.root, FALSE)
     ELSE IF IsRed(x, y)
       THEN insert_fix(Paint(Paint(Paint(x, p, FALSE), y, FALSE), g, TRUE), g)
     ELSE insert_fix(rotate(Paint(Paint(outwards, top, FALSE), g, TRUE), g, Other(side)),
                     IF inner THEN p ELSE z)

\* NAME__erase_fix_(): below xp the side of n lacks a black node
RECURSIVE erase_fix(_, _, _)
erase_fix(x, n, xp) ==
  LET side == IF n = x.node[xp].left THEN "left" ELSE "right"
      far == Other(side)
      \* a red sibling is rotated up
      sibling == x.node[xp][far]
      a == IF IsRed(x, sibling)
             THEN rotate(Paint(Paint(x, sibling, FALSE), xp, TRUE), xp, side) ELSE x
      w == a.node[xp][far]
      \* the red child of the sibling is moved to its far side
      b == IF IsRed(a, a.node[w][far]) THEN a
           ELSE rotate(Paint(Paint(a, a.node[w][side], FALSE), w, TRUE), w, far)
      v == b.node[xp][far]
      c == Paint(Paint(Paint(b, v, b.node[xp].red), xp, FALSE), b.node[v][far], FALSE)
      d == rotate(c, xp, side)
  IN IF n = x.root \/ IsRed(x, n) THEN Paint(x, n, FALSE)
     ELSE IF ~IsRed(a, a.node[w].left) /\ ~IsRed(a, a.node[w].right)
       THEN erase_fix(Paint(a, w, TRUE), xp, a.node[xp].parent)
     ELSE Paint(d, d.root, FALSE)
-----------------------------------------------------------------------------
(* The operations, as functions of the tree *)

\* the parent of a new node for k: the last node of the search
RECURSIVE LastOf(_, _, _)
LastOf(x, n, k) ==
  LET next == x.node[n][IF k < n THEN "left" ELSE "right"] IN
  IF next = None THEN n ELSE LastOf(x, next, k)

Fresh(v) == [left |-> None, right |-> None, parent |-> None, red |-> TRUE, val |-> v]

\* NAME_insert(); there is memory for the node
insert_node(x, k, v) ==
  IF k \in DOMAIN x.node THEN [x EXCEPT !.node[k].val = v]
  ELSE LET y == [root |-> x.root, size |-> x.size + 1,
                 node |-> [n \in DOMAIN x.node \cup {k} |->
                             IF n = k THEN Fresh(v) ELSE x.node[n]]]
           p == LastOf(x, x.root, k)
       IN insert_fix(IF x.root = None THEN [y EXCEPT !.root = k]
                     ELSE Link(y, p, IF k < p THEN "left" ELSE "right", k), k)

Without(x, z) ==
  [x EXCEPT !.node = [n \in DOMAIN x.node \ {z} |-> x.node[n]], !.size = @ - 1]

\* Mutation of Succeed: the successor keeps its own color.
Succeed_KeepColor(x, z, y) == Link(transplant(x, z, y), y, "left", x.node[z].left)

\* y, which has no left child, takes the place, left subtree and color of z.
Succeed(x, z, y) ==
  Paint(Link(transplant(x, z, y), y, "left", x.node[z].left), y, x.node[z].red)

\* NAME__erase_node_(): z goes; if it has two children, its successor y moves
\* up and leaves a hole instead.
erase_node(x, z) ==
  LET l == x.node[z].left      r == x.node[z].right
      y == Furthest(x, r, "left")
      hole == x.node[y].right  yp == x.node[y].parent
      freed == IF yp = z THEN x ELSE Link(transplant(x, y, hole), y, "right", r)
      only == IF l = None THEN r ELSE l
      Fixed(rest, wasRed, n, xp) == IF wasRed THEN rest ELSE erase_fix(rest, n, xp)
  IN IF l = None \/ r = None
       THEN Fixed(Without(transplant(x, z, only), z), x.node[z].red, only, x.node[z].parent)
       ELSE Fixed(Without(Succeed(freed, z, y), z), x.node[y].red, hole,
                  IF yp = z THEN y ELSE yp)

\* NAME_erase_at(): the tree without the node, and the node after it
erase_at(x, it) == [map |-> erase_node(x, it), next |-> neighbour(x, it, "right")]
-----------------------------------------------------------------------------
Nothing == [k \in Keys |-> None]
EmptyTree == [root |-> None, size |-> 0, node |-> <<>>]

Init == t = EmptyTree /\ content = Nothing

insert(k, v) ==
  /\ t' = insert_node(t, k, v)
  /\ content' = [content EXCEPT ![k] = v]

\* NAME_erase(), and NAME_erase_at() of the iterator of k
erase(k) ==
  /\ find(t, t.root, k) # None
  /\ t' = erase_at(t, k).map
  /\ content' = [content EXCEPT ![k] = None]

\* NAME_clear() and NAME_destroy().  The loop climbs through nodes it has freed
\* (l. 138); their memory is taken to be as it was.
clear == t' = EmptyTree /\ content' = Nothing

Next ==
  \/ \E e \in Entries : insert(e[1], e[2])
  \/ \E k \in Keys : erase(k)
  \/ clear

Spec == Init /\ [][Next]_<<t, content>>
-----------------------------------------------------------------------------
\* the black nodes on the way from n down to any leaf, -1 if they differ
RECURSIVE BlackHeight(_, _)
BlackHeight(x, n) ==
  IF n = None THEN 0
  ELSE LET l == BlackHeight(x, x.node[n].left)  r == BlackHeight(x, x.node[n].right) IN
       IF l # r \/ l = -1 THEN -1 ELSE IF x.node[n].red THEN l ELSE l + 1

(* "O(log N) worst-case insert/find/erase" (dg_treemap.h:8): the tree is a *)
(* red-black tree after every insertion and erasure, so no path is more    *)
(* than twice as long as another; and its parent links mirror its child    *)
(* links, which the iterators climb.                                       *)
RedBlack ==
  /\ ~IsRed(t, t.root) /\ BlackHeight(t, t.root) # -1
  /\ \A n \in DOMAIN t.node, side \in {"left", "right"} :
       LET c == t.node[n][side] IN
       c # None => /\ t.node[c].parent = n
                   /\ ~(t.node[n].red /\ t.node[c].red)
  /\ t.root # None => t.node[t.root].parent = None

(* NAME_get() finds what was last inserted and not erased, the bounds are  *)
(* the least keys from or after a key, NAME_size() counts the keys: no     *)
(* rotation or transplant takes a node to where the search misses it.      *)
FindsContent ==
  LET present == {k \in Keys : content[k] # None}
      Least(S) == IF S = {} THEN None ELSE Min(S)
  IN /\ t.size = Cardinality(present)
     /\ \A k \in Keys :
          /\ get(t, k) = content[k]
          /\ bound(t, t.root, k, FALSE, None) = Least({n \in present : n >= k})
          /\ bound(t, t.root, k, TRUE, None) = Least({n \in present : n > k})

\* The keys met by a loop that erases those of E and goes over the others.
RECURSIVE Loop(_, _, _)
Loop(x, it, E) ==
  IF it = None THEN <<>>
  ELSE <<it>> \o IF it \in E THEN LET gone == erase_at(x, it) IN Loop(gone.map, gone.next, E)
                 ELSE Loop(x, neighbour(x, it, "right"), E)

\* the keys met from the last one back
RECURSIVE Backwards(_, _)
Backwards(x, it) ==
  IF it = None THEN <<>> ELSE <<it>> \o Backwards(x, neighbour(x, it, "left"))

(* "deterministic in-order iteration", "Erase-during-iteration is trivial" *)
(* (dg_treemap.h:7,9): a loop meets every key once and in order, forwards  *)
(* also while it erases some of the entries it meets.                      *)
LoopsInOrder ==
  LET present == {k \in Keys : content[k] # None}
      order == SetToSortSeq(present, LAMBDA a, b : a < b)
  IN /\ \A E \in SUBSET present : Loop(t, Furthest(t, t.root, "left"), E) = order
     /\ Backwards(t, Furthest(t, t.root, "right")) = Reverse(order)
=============================================================================
