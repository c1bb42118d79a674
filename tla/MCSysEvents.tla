---------------------------- MODULE MCSysEvents ----------------------------
(***************************************************************************)
(* The rest of dg_sys.c and dg_main.c beside the events: `part` says which *)
(* a behaviour exercises.  The others are as they begin.                   *)
(***************************************************************************)
EXTENDS SysEvents

CONSTANTS
  Objects, Blocks, Null, Unset,
  Values, Texts, Foreign, Image,
  SYSUI_MAX_USERDATA,
  Files, Broken, Symbols, Exported, Handles,
  MaxShow, MaxCount   \* bounds of the model: see Desktop and DynLibs

VARIABLES
  part,
  pc, events, paths, tls, freq, class, live, ready, shut, repeated,
  state, owner, word, used, puserdata, stored,
  deskPc, arg, hmem, text, mem, board, opener, refused, mode, clip, foreground, show,
  count, punused, symbols, procs, loads

libraryVars == <<pc, events, paths, tls, freq, class, live, ready, shut, repeated>>
windowVars == <<state, owner, word, used, puserdata, stored>>
desktopVars == <<deskPc, arg, hmem, text, mem, board, opener, refused, mode, clip, foreground, show>>
dlVars == <<count, punused, symbols, procs, loads>>

Lib == INSTANCE Library
Data == INSTANCE Windows WITH Windows <- Handles
Desk == INSTANCE Desktop WITH pc <- deskPc, Windows <- Files
Dl == INSTANCE DynLibs WITH NULL <- Null, got <- symbols, lost <- loads

OneSymbol == [file : Files, name : {CHOOSE n \in Symbols : TRUE}]

ASSUME RestAssumption ==
  /\ Null \notin Objects \cup Blocks \cup Files \cup {"us", "other"}
  /\ Foreign \notin Blocks /\ Image \notin Blocks
  /\ IsFiniteSet(Handles)
  /\ MaxShow \in Nat /\ MaxCount \in Nat

Parts == {"events", "library", "windows", "clipboard", "cursor", "libraries"}

PartInit ==
  /\ part \in Parts
  /\ Init /\ Lib!Init /\ Data!Init /\ Desk!Init /\ Dl!Init
  /\ part # "windows" => \A b \in Blocks, s \in Data!Slots : puserdata[b][s] = CHOOSE v \in Values : TRUE
  /\ part # "clipboard" => board = Null
  /\ part # "cursor" => foreground = Null

PartNext ==
  /\ part' = part
  /\ IF part = "events" THEN Next ELSE UNCHANGED vars
  /\ IF part = "library" THEN Lib!Next ELSE UNCHANGED libraryVars
  /\ IF part = "windows" THEN Data!Next ELSE UNCHANGED windowVars
  /\ CASE part = "clipboard" -> Desk!Clipboard
       [] part = "cursor" -> Desk!Cursor
       [] OTHER -> UNCHANGED desktopVars
  /\ IF part = "libraries" THEN Dl!Next ELSE UNCHANGED dlVars

PartSpec ==
  /\ PartInit
  /\ [][PartNext]_<<part, vars, libraryVars, windowVars, desktopVars, dlVars>>
  /\ part = "events" => Fairness

(* Whatever fails in dg_initialize(), and however often it and             *)
(* dg_deinitialize() are called, a part has what it uses and nothing of it *)
(* is left when the library has ended.                                     *)
PartsWhole == Lib!PartsWhole

(* Every live window has data of its own, with what the client put there.  *)
WindowsOwnData == Data!WindowsOwnData

(* What the library takes from the desktop it gives back.                  *)
DesktopGivenBack == Desk!DesktopGivenBack

(* A symbol can be called while what it came from is loaded.               *)
ProcsCallable == Dl!ProcsCallable
=============================================================================
