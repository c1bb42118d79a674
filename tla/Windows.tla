------------------------------ MODULE Windows ------------------------------
(***************************************************************************)
(* The data of windows, dglib/src/dg_sys.c: a block of the heap belongs to *)
(* each window, the window refers to it in the bytes Windows keeps for it, *)
(* and the client keeps a value in each of its slots.                      *)
(*                                                                         *)
(* A block that is freed keeps what is in it, and the next window may get  *)
(* it: sysui_window_create() sets the flags only, so a slot nobody has set *)
(* holds the value of a window that is gone, or anything.                  *)
(*                                                                         *)
(* The calls come from the thread that owns the windows.  A window handle  *)
(* is not used again, but the client may use one of a window that died.    *)
(* Windows destroys the windows owned by a window before the window.       *)
(***************************************************************************)
EXTENDS Naturals, FiniteSets

CONSTANTS
  Windows,
  Blocks,    \* the memory malloc() can give
  SYSUI_MAX_USERDATA,
  Values,    \* pointers of the client, and what is in fresh memory
  Null,      \* NULL
  Unset      \* nobody has set the slot of this window

Slots == 0 .. SYSUI_MAX_USERDATA - 1
NoValues == [s \in Slots |-> Unset]

VARIABLES
  state,     \* "none", "live" or "dead"
  owner,     \* the window that owns it, or Null
  word,      \* GetWindowLongPtr(w, 0)
  used,      \* the blocks that are allocated
  puserdata, \* what is in each block
  stored     \* history: what the client has set since the window was created

vars == <<state, owner, word, used, puserdata, stored>>

Init ==
  /\ state = [w \in Windows |-> "none"]
  /\ owner = [w \in Windows |-> Null]
  /\ word = [w \in Windows |-> Null]
  /\ used = {}
  /\ puserdata \in {[b \in Blocks |-> [s \in Slots |-> v]] : v \in Values}
  /\ stored = [w \in Windows |-> NoValues]

Live(w) == state[w] = "live"
Owners == {w \in Windows : Live(w)} \cup {Null}
-----------------------------------------------------------------------------
\* Messages that come before the block is in place meet no data and are left
\* to Windows.
window_create(w, p) ==
  \E b \in Blocks \ used :
    /\ state[w] = "none" /\ p \in Owners
    /\ state' = [state EXCEPT ![w] = "live"]
    /\ owner' = [owner EXCEPT ![w] = p]
    /\ word' = [word EXCEPT ![w] = b]
    /\ used' = used \cup {b}
    /\ UNCHANGED <<puserdata, stored>>

\* There is no memory: the window is destroyed again, and WM_DESTROY meets
\* no data either.
window_create_fails(w, p) ==
  /\ state[w] = "none" /\ p \in Owners
  /\ state' = [state EXCEPT ![w] = "dead"]
  /\ UNCHANGED <<owner, word, used, puserdata, stored>>

\* The window leads to its data while it has any: a dead one to NULL.
window_data(w) == word[w]

get_userdata(w, slot) ==
  IF slot \in Slots /\ window_data(w) # Null THEN puserdata[window_data(w)][slot] ELSE Null

\* A slot there is not, or a window without data: nothing happens.
set_userdata(w, slot, v) ==
  /\ IF slot \in Slots /\ window_data(w) # Null
     THEN /\ puserdata' = [puserdata EXCEPT ![window_data(w)][slot] = v]
          /\ stored' = [stored EXCEPT ![w][slot] = v]
     ELSE UNCHANGED <<puserdata, stored>>
  /\ UNCHANGED <<state, owner, word, used>>
-----------------------------------------------------------------------------
\* w and the windows that are owned by it, by those, and so on
Owned(w) ==
  LET more[n \in 0 .. Cardinality(Windows)] ==
        IF n = 0 THEN {w} ELSE more[n - 1] \cup {x \in Windows : Live(x) /\ owner[x] \in more[n - 1]}
  IN more[Cardinality(Windows)]

\* Mutation of WM_DESTROY: the word is not cleared.
WM_DESTROY_Uncleared(dying) ==
  /\ used' = used \ {window_data(w) : w \in dying}
  /\ word' = word

\* win32_wndproc() frees the data of each and clears the word.
WM_DESTROY(dying) ==
  /\ used' = used \ {window_data(w) : w \in dying}
  /\ word' = [w \in Windows |-> IF w \in dying THEN Null ELSE word[w]]

\* IsWindow() keeps it from a window that is dead already.
kill(w) ==
  /\ Live(w)
  /\ state' = [x \in Windows |-> IF x \in Owned(w) THEN "dead" ELSE state[x]]
  /\ WM_DESTROY(Owned(w))
  /\ stored' = [x \in Windows |-> IF x \in Owned(w) THEN NoValues ELSE stored[x]]
  /\ UNCHANGED <<owner, puserdata>>

Next ==
  \E w \in Windows :
    \/ \E p \in Windows \cup {Null} : window_create(w, p) \/ window_create_fails(w, p)
    \/ \E slot \in 0 .. SYSUI_MAX_USERDATA, v \in Values : set_userdata(w, slot, v)
    \/ kill(w)

Spec == Init /\ [][Next]_vars
-----------------------------------------------------------------------------
TypeOK ==
  /\ state \in [Windows -> {"none", "live", "dead"}]
  /\ owner \in [Windows -> Windows \cup {Null}]
  /\ word \in [Windows -> Blocks \cup {Null}]
  /\ used \subseteq Blocks
  /\ puserdata \in [Blocks -> [Slots -> Values]]
  /\ stored \in [Windows -> [Slots -> Values \cup {Unset}]]

(* Every live window has data of its own, a window that is gone leads to   *)
(* none, and no data is left behind: neither when the data could not be    *)
(* allocated nor when windows die with their owner.  What the client set   *)
(* in a slot of a window is there until the window dies, whoever uses      *)
(* handles of dead windows.                                                *)
WindowsOwnData ==
  /\ TypeOK
  /\ \A w \in Windows : Live(w) <=> word[w] \in used
  /\ \A w, x \in Windows : word[w] = word[x] /\ word[w] # Null => w = x
  /\ used \subseteq {word[w] : w \in Windows}
  /\ \A w \in Windows : Live(w) /\ owner[w] # Null => Live(owner[w])
  /\ \A w \in Windows, s \in Slots : stored[w][s] # Unset => get_userdata(w, s) = stored[w][s]
  /\ \A w \in Windows, s \in Slots : ~Live(w) => get_userdata(w, s) = Null
=============================================================================
