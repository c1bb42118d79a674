------------------------------ MODULE Desktop ------------------------------
(***************************************************************************)
(* What the library shares with the other programs of the desktop, from    *)
(* dglib/src/dg_sys.c: the clipboard, and the cursor in its infinite mode. *)
(* One thread of the program is in a call of the library; the other        *)
(* programs open, fill and close the clipboard, bring windows to the       *)
(* foreground, and need none of it in order.                               *)
(*                                                                         *)
(* External: a clipboard is open for one program at a time; what it holds  *)
(* belongs to the system, and a block that SetClipboardData() refused      *)
(* stays the program's.  Windows lets go of the cursor when another window *)
(* comes to the foreground.  A text is a model value.                      *)
(***************************************************************************)
EXTENDS Integers, FiniteSets

CONSTANTS
  Blocks,     \* the global memory there is
  Texts,      \* what the program puts
  Foreign,    \* content of another program that is text
  Image,      \* content of another program that is not
  Windows,    \* windows that can be in the foreground
  MaxShow,    \* bound of the model: how far ShowCursor() counts
  Null

VARIABLES
  pc,         \* the call the program is in, and where
  arg,        \* the text it puts, or the result of the last call
  hmem,       \* its block
  text,       \* what is in each block
  mem,        \* the blocks that are allocated
  board,      \* what the clipboard holds: a block, Foreign, Image or Null
  opener,     \* who has opened the clipboard: "us", "other" or Null
  refused,    \* history: blocks that SetClipboardData() did not take
  mode,       \* glob_cursor_mode: [infinite, center]
  clip,       \* the window whose area the cursor is confined to, or Null
  foreground, \* GetForegroundWindow()
  show        \* the counter of ShowCursor(): the cursor is visible from 0 on

vars == <<pc, arg, hmem, text, mem, board, opener, refused, mode, clip, foreground, show>>
boardVars == <<pc, arg, hmem, text, mem, board, opener, refused>>
cursorVars == <<mode, clip, foreground, show>>

Init ==
  /\ pc = "client" /\ arg = Null /\ hmem = Null
  /\ text = [b \in Blocks |-> Null] /\ mem = {}
  /\ board \in {Null, Foreign, Image} /\ opener = Null /\ refused = {}
  /\ mode = [infinite |-> FALSE, center |-> Null]
  /\ clip = Null /\ show = 0
  /\ foreground \in Windows \cup {Null}

Go(from, to) == pc = from /\ pc' = to
-----------------------------------------------------------------------------
(* sys_set_clipboard_text()                                                *)

\* The block is filled before the clipboard is opened; without memory the
\* call returns 1.
SetAlloc(t) ==
  \E b \in Blocks \ mem :
    /\ Go("client", "set_open")
    /\ arg' = t /\ hmem' = b
    /\ mem' = mem \cup {b} /\ text' = [text EXCEPT ![b] = t]
    /\ UNCHANGED <<board, opener, refused, cursorVars>>

\* Mutation of SetOpen: a clipboard that is open elsewhere keeps the block.
SetOpen_Leaking ==
  /\ \/ opener = Null /\ opener' = "us" /\ Go("set_open", "set") /\ UNCHANGED <<arg, hmem, mem>>
     \/ opener # Null /\ UNCHANGED opener /\ Go("set_open", "client")
        /\ arg' = Null /\ hmem' = Null /\ mem' = mem
  /\ UNCHANGED <<text, board, refused, cursorVars>>

SetOpen ==
  /\ \/ opener = Null /\ opener' = "us" /\ Go("set_open", "set") /\ UNCHANGED <<arg, hmem, mem>>
     \/ opener # Null /\ UNCHANGED opener /\ Go("set_open", "client")
        /\ arg' = Null /\ hmem' = Null /\ mem' = mem \ {hmem}
  /\ UNCHANGED <<text, board, refused, cursorVars>>

\* EmptyClipboard() frees what was there; the result of SetClipboardData()
\* is not looked at.
SetReturn ==
  /\ Go("set", "client") /\ opener' = Null
  /\ mem' = mem \ {board}
  /\ \/ board' = hmem /\ UNCHANGED refused
     \/ board' = Null /\ refused' = refused \cup {hmem}
  /\ arg' = Null /\ hmem' = Null
  /\ UNCHANGED <<text, cursorVars>>
-----------------------------------------------------------------------------
(* sys_get_clipboard_text(), sys_get_clipboard_data_type()                 *)

Get(call) ==
  /\ opener = Null /\ Go("client", call) /\ opener' = "us"
  /\ arg' = Null
  /\ UNCHANGED <<hmem, text, mem, board, refused, cursorVars>>

Text(c) == IF c \in Blocks THEN text[c] ELSE c

\* All three exits close it: no text, no memory behind it, and the copy.
GetText ==
  /\ Go("get", "client") /\ opener' = Null
  /\ arg' \in IF board \in {Null, Image} THEN {Null} ELSE {Null, Text(board)}
  /\ UNCHANGED <<hmem, text, mem, board, refused, cursorVars>>

\* SYS_CLIPBOARD_DATA_TEXT, ..._IMAGE, ..._NONE
DataType == IF board = Image THEN "image" ELSE IF board = Null THEN "none" ELSE "text"

GetType ==
  /\ Go("type", "client") /\ opener' = Null
  /\ arg' = DataType
  /\ UNCHANGED <<hmem, text, mem, board, refused, cursorVars>>

\* Another program opens the clipboard, leaves it as it is or fills it, and
\* closes it.
OtherOpens ==
  /\ opener = Null /\ opener' = "other"
  /\ UNCHANGED <<pc, arg, hmem, text, mem, board, refused, cursorVars>>

OtherCloses ==
  /\ opener = "other" /\ opener' = Null
  /\ board' \in {board, Foreign, Image}
  /\ mem' = IF board' = board THEN mem ELSE mem \ {board}
  /\ UNCHANGED <<pc, arg, hmem, text, refused, cursorVars>>
-----------------------------------------------------------------------------
(* sys_set_cursor_mode(), sys_show_cursor()                                *)

ShowCursor(n) == show' = show + n /\ show' \in -MaxShow .. MaxShow

\* The mode is stored in any case; the centre follows if there is a window in
\* the foreground.
set_cursor_infinite ==
  /\ mode' = [infinite |-> TRUE, center |-> Null]
  /\ IF foreground = Null THEN UNCHANGED <<pc, arg>> ELSE Go("client", "confine") /\ arg' = foreground
  /\ UNCHANGED <<hmem, text, mem, board, opener, refused, clip, foreground, show>>

\* The cursor is confined to the window, moved to its centre and hidden,
\* unless GetClientRect() finds no window any more.  The window need not be
\* in the foreground by now.
Confine ==
  /\ Go("confine", "client")
  /\ \/ mode' = [mode EXCEPT !.center = arg] /\ clip' = arg /\ ShowCursor(-1)
     \/ UNCHANGED <<mode, clip, show>>
  /\ arg' = Null
  /\ UNCHANGED <<hmem, text, mem, board, opener, refused, foreground>>

set_cursor_none ==
  /\ mode' = [infinite |-> FALSE, center |-> Null]
  /\ clip' = Null /\ ShowCursor(1)
  /\ UNCHANGED <<foreground, boardVars>>

show_cursor(on) ==
  /\ ShowCursor(IF on THEN 1 ELSE -1)
  /\ UNCHANGED <<mode, clip, foreground, boardVars>>

\* Another window comes to the foreground, or none.
Switch ==
  /\ foreground' \in (Windows \cup {Null}) \ {foreground}
  /\ clip' = Null
  /\ UNCHANGED <<mode, show, boardVars>>
-----------------------------------------------------------------------------
Clipboard ==
  \/ \E t \in Texts : SetAlloc(t)
  \/ SetOpen \/ SetReturn
  \/ \E call \in {"get", "type"} : Get(call)
  \/ GetText \/ GetType
  \/ OtherOpens \/ OtherCloses

Cursor ==
  \/ Confine
  \/ pc = "client" /\ (set_cursor_infinite \/ set_cursor_none \/ \E on \in BOOLEAN : show_cursor(on))
  \/ Switch

Next == Clipboard \/ Cursor

Spec == Init /\ [][Next]_vars
-----------------------------------------------------------------------------
TypeOK ==
  /\ pc \in {"client", "set_open", "set", "get", "type", "confine"}
  /\ hmem \in Blocks \cup {Null} /\ mem \subseteq Blocks
  /\ text \in [Blocks -> Texts \cup {Null}]
  /\ board \in Blocks \cup {Foreign, Image, Null}
  /\ opener \in {"us", "other", Null}
  /\ mode \in [infinite : BOOLEAN, center : Windows \cup {Null}]
  /\ clip \in Windows \cup {Null} /\ foreground \in Windows \cup {Null}
  /\ show \in -MaxShow .. MaxShow

(* Whatever the other programs do between its steps, the library gives     *)
(* back what it takes from the desktop: outside its calls it does not hold *)
(* the clipboard open, every block it made is in the clipboard, freed, or  *)
(* one that was refused, and is never freed while the clipboard has it;    *)
(* and only in the infinite mode is the cursor confined, to the window     *)
(* whose centre the mode tells, unless the mode has just been set again.   *)
DesktopGivenBack ==
  /\ TypeOK
  /\ opener = "us" <=> pc \in {"set", "get", "type"}
  /\ mem = (({board, hmem} \cap Blocks) \cup refused)
  /\ board \in Blocks => board # hmem /\ board \notin refused
  /\ clip # Null => mode.infinite /\ (pc = "client" => mode.center \in {clip, Null})
=============================================================================
