----------------------------- MODULE SysEvents -----------------------------
(***************************************************************************)
(* The event queue and the window procedure of dglib/src/dg_sys.c.  The    *)
(* thread UI owns the windows: it takes messages from the system, whose    *)
(* handler win32_wndproc() puts events into a ring, and it takes events    *)
(* out of the ring for the client.  Other threads put events of their own. *)
(* While the user moves or sizes a window the system runs a message loop   *)
(* inside the one of sysui_poll_events(): messages are handled but the     *)
(* call does not return.                                                   *)
(*                                                                         *)
(* The system is external: it sends any message to any window, and shows   *)
(* the size of a window as the last WM_SIZE had it.  Events of the mouse,  *)
(* of characters and of the focus are alike here, "other": the handler     *)
(* only passes them on.  A window handle is not used again.                *)
(***************************************************************************)
EXTENDS Integers, Sequences, FiniteSets

CONSTANTS
  Size,      \* SYSUI_EVENT_QUEUE_SIZE
  UI, Pushers,
  Windows, Keys, Sizes,
  MaxEvents, \* bound of the model: the events that are made
  None       \* no event, no owner, no window

Threads == {UI} \cup Pushers

Events ==
  [win : Windows, evt : {"SYSUI_EVENT_RESIZE"}, size : Sizes]
    \cup [win : Windows, evt : {"SYSUI_EVENT_KEYDOWN", "SYSUI_EVENT_KEYUP"}, key : Keys]
    \cup [win : Windows, evt : {"SYSUI_EVENT_CLOSE", "SYSUI_EVENT_DIE"}]
    \cup [win : Windows \cup {None}, evt : {"other"}]

\* The call of sysui_push_event(): its event, and the slot after tail when it
\* has the mutex.
Calls == [ev : Events, next : 0 .. Size - 1 \cup {None}]

ASSUME SysEventsAssumption ==
  /\ Size \in Nat \ {0}
  /\ UI \notin Pushers /\ None \notin Threads \cup Windows \cup Calls \cup (0 .. Size - 1)
  /\ Sizes # {} /\ MaxEvents \in Nat

VARIABLES
  queue, head, tail,
  mutex,     \* who is inside glob_events_queue.mutex
  push,      \* the call of sysui_push_event() each thread is in
  ui,        \* where the UI thread is: "client", or inside sysui_poll_events()
             \* ("poll") or sysui_wait_events() ("wait"), or taking an event
  modal,     \* the system's own message loop runs
  win,       \* the windows: [state, sizemove, size]
  keyarray,  \* glob_keyarray: is the key pressed
  got,       \* the event the last call gave the client
  seen,      \* history: what the client knows from the events it got
  lost,      \* history: the subjects whose last event found the ring full
  made       \* history: the number of events

vars == <<queue, head, tail, mutex, push, ui, modal, win, keyarray, got, seen, lost, made>>
ring == <<queue, head, tail, mutex>>
client == <<got, seen>>

\* initialize_sysui()
Init ==
  /\ queue = [i \in 0 .. Size - 1 |-> None]
  /\ head = 0 /\ tail = 0 /\ mutex = None
  /\ push = [t \in Threads |-> None]
  /\ ui = "client" /\ modal = FALSE
  /\ win = [w \in Windows |-> [state |-> "none", sizemove |-> FALSE, size |-> CHOOSE s \in Sizes : TRUE]]
  /\ keyarray = [k \in Keys |-> FALSE]
  /\ got = None
  /\ seen = [keys |-> keyarray, size |-> [w \in Windows |-> win[w].size], dead |-> {}]
  /\ lost = {}
  /\ made = 0
-----------------------------------------------------------------------------
(* sysui_push_event()                                                      *)

\* the call begins
Start(t, ev) ==
  /\ made < MaxEvents /\ made' = made + 1
  /\ push' = [push EXCEPT ![t] = [ev |-> ev, next |-> None]]

\* Mutation of PushLock: the mutex is not waited for.
PushUnlocked(t) ==
  /\ push[t] # None /\ push[t].next = None
  /\ mutex' = t
  /\ push' = [push EXCEPT ![t].next = (tail + 1) % Size]
  /\ UNCHANGED <<queue, head, tail, ui, modal, win, keyarray, client, lost, made>>

PushLock(t) ==
  /\ push[t] # None /\ push[t].next = None
  /\ mutex = None /\ mutex' = t
  /\ push' = [push EXCEPT ![t].next = (tail + 1) % Size]
  /\ UNCHANGED <<queue, head, tail, ui, modal, win, keyarray, client, lost, made>>

Full(next) == next = head

\* what the client learns from an event, if it is anything
Subject(ev) ==
  CASE ev.evt = "SYSUI_EVENT_RESIZE" -> {<<"size", ev.win>>}
    [] ev.evt \in {"SYSUI_EVENT_KEYDOWN", "SYSUI_EVENT_KEYUP"} -> {<<"key", ev.key>>}
    [] ev.evt = "SYSUI_EVENT_DIE" -> {<<"dead", ev.win>>}
    [] OTHER -> {}

\* Mutation of PushReturn: WM_DESTROY does not clear the window's data.
PushReturnAlive(t) ==
  /\ push[t] # None /\ push[t].next # None
  /\ IF Full(push[t].next)
     THEN UNCHANGED <<queue, tail>> /\ lost' = lost \cup Subject(push[t].ev)
     ELSE /\ queue' = [queue EXCEPT ![tail] = push[t].ev]
          /\ tail' = push[t].next
          /\ lost' = lost \ Subject(push[t].ev)
  /\ mutex' = None
  /\ push' = [push EXCEPT ![t] = None]
  /\ UNCHANGED <<win, head, ui, modal, keyarray, client, made>>

\* The event is stored or dropped; after SYSUI_EVENT_DIE the handler frees
\* the data of the window (l. 347), and ignores its messages from then on.
PushReturn(t) ==
  /\ push[t] # None /\ push[t].next # None
  /\ IF Full(push[t].next)
     THEN UNCHANGED <<queue, tail>> /\ lost' = lost \cup Subject(push[t].ev)
     ELSE /\ queue' = [queue EXCEPT ![tail] = push[t].ev]
          /\ tail' = push[t].next
          /\ lost' = lost \ Subject(push[t].ev)
  /\ win' = IF push[t].ev.evt = "SYSUI_EVENT_DIE"
            THEN [win EXCEPT ![push[t].ev.win].state = "dead"] ELSE win
  /\ mutex' = None
  /\ push' = [push EXCEPT ![t] = None]
  /\ UNCHANGED <<head, ui, modal, keyarray, client, made>>

\* A thread of the application puts an event of its own.
Post(t) ==
  /\ push[t] = None
  /\ Start(t, [win |-> None, evt |-> "other"])
  /\ UNCHANGED <<ring, ui, modal, win, keyarray, client, lost>>
-----------------------------------------------------------------------------
(* The client: windows, sysui_poll_events(), sysui_wait_events().          *)

Idle == ui = "client" /\ push[UI] = None

\* What the system sends while it creates the window meets no data yet.
window_create(w, s) ==
  /\ Idle /\ win[w].state = "none"
  /\ win' = [win EXCEPT ![w] = [state |-> "live", sizemove |-> FALSE, size |-> s]]
  /\ seen' = [seen EXCEPT !.size[w] = s]
  /\ UNCHANGED <<ring, push, ui, modal, keyarray, got, lost, made>>

\* sysui_kill(): the handler gets WM_DESTROY inside the call.
kill(w) ==
  /\ Idle /\ win[w].state = "live"
  /\ Start(UI, [win |-> w, evt |-> "SYSUI_EVENT_DIE"])
  /\ UNCHANGED <<ring, ui, modal, win, keyarray, client, lost>>

Call ==
  /\ Idle
  /\ ui' \in {"poll", "wait"}
  /\ UNCHANGED <<ring, push, modal, win, keyarray, client, lost, made>>

\* PeekMessageA() has no more messages.
PollEmpty ==
  /\ ui = "poll" /\ push[UI] = None /\ ~modal
  /\ ui' = "get"
  /\ UNCHANGED <<ring, push, modal, win, keyarray, client, lost, made>>

\* sysui_get_queue_event()
GetLock ==
  /\ ui = "get" /\ push[UI] = None
  /\ mutex = None /\ mutex' = UI
  /\ ui' = "take"
  /\ UNCHANGED <<queue, head, tail, push, modal, win, keyarray, client, lost, made>>

\* what the client knows after an event
After(s, ev) ==
  CASE ev.evt = "SYSUI_EVENT_RESIZE" -> [s EXCEPT !.size[ev.win] = ev.size]
    [] ev.evt = "SYSUI_EVENT_KEYDOWN" -> [s EXCEPT !.keys[ev.key] = TRUE]
    [] ev.evt = "SYSUI_EVENT_KEYUP" -> [s EXCEPT !.keys[ev.key] = FALSE]
    [] ev.evt = "SYSUI_EVENT_DIE" -> [s EXCEPT !.dead = @ \cup {ev.win}]
    [] OTHER -> s

\* Mutation of GetReturn: full and empty are told apart at the wrong end.
GetReturnLater ==
  /\ ui = "take"
  /\ LET next == (head + 1) % Size  empty == head = tail \/ next = tail IN
     /\ got' = IF empty THEN None ELSE queue[head]
     /\ head' = IF empty THEN head ELSE next
     /\ seen' = IF empty THEN seen ELSE After(seen, queue[head])
  /\ mutex' = None
  /\ ui' = "client"
  /\ UNCHANGED <<queue, tail, push, modal, win, keyarray, lost, made>>

GetReturn ==
  /\ ui = "take"
  /\ got' = IF head = tail THEN None ELSE queue[head]
  /\ head' = IF head = tail THEN head ELSE (head + 1) % Size
  /\ seen' = IF head = tail THEN seen ELSE After(seen, queue[head])
  /\ mutex' = None
  /\ ui' = "client"
  /\ UNCHANGED <<queue, tail, push, modal, win, keyarray, lost, made>>
-----------------------------------------------------------------------------
(* Messages for win32_wndproc().  A window without data is left alone.     *)

\* The handler is called for window w; sysui_wait_events() takes one message.
Message(w) ==
  /\ ui \in {"poll", "wait"} /\ push[UI] = None
  /\ win[w].state = "live"
  /\ ui' = IF ui = "wait" /\ ~modal' THEN "get" ELSE ui

\* GetMessageA() has returned with a message the handler has no use for.
Ignored ==
  /\ ui = "wait" /\ push[UI] = None /\ ~modal
  /\ ui' = "get"
  /\ UNCHANGED <<ring, push, modal, win, keyarray, client, lost, made>>

WM_ENTERSIZEMOVE(w) ==
  /\ ~modal /\ modal' = TRUE
  /\ Message(w)
  /\ win' = [win EXCEPT ![w].sizemove = TRUE]
  /\ UNCHANGED <<ring, push, keyarray, client, lost, made>>

\* Mutation of WM_EXITSIZEMOVE: the size is not told.
ExitSilently(w) ==
  /\ modal /\ modal' = FALSE /\ win[w].sizemove
  /\ Message(w)
  /\ win' = [win EXCEPT ![w].sizemove = FALSE]
  /\ UNCHANGED <<ring, push, keyarray, client, lost, made>>

WM_EXITSIZEMOVE(w) ==
  /\ modal /\ modal' = FALSE /\ win[w].sizemove
  /\ Message(w)
  /\ win' = [win EXCEPT ![w].sizemove = FALSE]
  /\ Start(UI, [win |-> w, evt |-> "SYSUI_EVENT_RESIZE", size |-> win[w].size])
  /\ UNCHANGED <<ring, keyarray, client, lost>>

WM_SIZE(w, s) ==
  /\ UNCHANGED modal
  /\ Message(w)
  /\ win' = [win EXCEPT ![w].size = s]
  /\ IF win[w].sizemove THEN UNCHANGED <<push, made>>
     ELSE Start(UI, [win |-> w, evt |-> "SYSUI_EVENT_RESIZE", size |-> s])
  /\ UNCHANGED <<ring, keyarray, client, lost>>

WM_KEYDOWN(w, k) ==
  /\ UNCHANGED modal
  /\ Message(w)
  /\ keyarray' = [keyarray EXCEPT ![k] = TRUE]
  /\ Start(UI, [win |-> w, evt |-> "SYSUI_EVENT_KEYDOWN", key |-> k])
  /\ UNCHANGED <<ring, win, client, lost>>

WM_KEYUP(w, k) ==
  /\ UNCHANGED modal
  /\ Message(w)
  /\ keyarray' = [keyarray EXCEPT ![k] = FALSE]
  /\ Start(UI, [win |-> w, evt |-> "SYSUI_EVENT_KEYUP", key |-> k])
  /\ UNCHANGED <<ring, win, client, lost>>

\* WM_CLOSE, WM_CHAR, the mouse and the focus
PassOn(w, evt) ==
  /\ UNCHANGED modal
  /\ Message(w)
  /\ Start(UI, [win |-> w, evt |-> evt])
  /\ UNCHANGED <<ring, win, keyarray, client, lost>>
-----------------------------------------------------------------------------
Next ==
  \/ \E t \in Threads : PushLock(t) \/ PushReturn(t)
  \/ \E t \in Pushers : Post(t)
  \/ Call \/ PollEmpty \/ Ignored \/ GetLock \/ GetReturn
  \/ \E w \in Windows :
       \/ \E s \in Sizes : window_create(w, s) \/ WM_SIZE(w, s)
       \/ kill(w)
       \/ WM_ENTERSIZEMOVE(w) \/ WM_EXITSIZEMOVE(w)
       \/ \E k \in Keys : WM_KEYDOWN(w, k) \/ WM_KEYUP(w, k)
       \/ \E evt \in {"SYSUI_EVENT_CLOSE", "other"} : PassOn(w, evt)

Spec == Init /\ [][Next]_vars

\* The client keeps polling, and threads that run come to the end of a call:
\* each holds the mutex for a moment only.
Fairness ==
  /\ WF_vars(Call /\ ui' = "poll")
  /\ WF_vars(PollEmpty) /\ WF_vars(GetLock) /\ WF_vars(GetReturn)
  /\ \A t \in Threads : WF_vars(PushLock(t)) /\ WF_vars(PushReturn(t))
-----------------------------------------------------------------------------
TypeOK ==
  /\ queue \in [0 .. Size - 1 -> Events \cup {None}]
  /\ head \in 0 .. Size - 1 /\ tail \in 0 .. Size - 1
  /\ mutex \in Threads \cup {None}
  /\ \A t \in Threads : push[t] # None => push[t].ev \in Events
  /\ ui \in {"client", "poll", "wait", "get", "take"} /\ modal \in BOOLEAN
  /\ win \in [Windows -> [state : {"none", "live", "dead"}, sizemove : BOOLEAN, size : Sizes]]
  /\ keyarray \in [Keys -> BOOLEAN]
  /\ got \in Events \cup {None}
  /\ lost \subseteq ({"size", "dead"} \X Windows) \cup ({"key"} \X Keys)
  /\ made \in 0 .. MaxEvents

\* the events in the ring, the oldest first
Pending == [i \in 1 .. (tail - head + Size) % Size |-> queue[(head + i - 1) % Size]]

(* The ring is a queue of Size - 1 events between the threads that put     *)
(* events and the one that takes them: none is lost once it is stored,     *)
(* doubled, or overtaken, whoever waits for the mutex.                     *)
Fifo == INSTANCE BoundedDeque WITH
  Threads <- {UI}, Values <- Events, Capacity <- Size - 1,
  dq <- Pending, out <- [t \in {UI} |-> got]
FifoSpec == Fifo!Spec

\* what the client will know once it has taken the pending events
Foreseen ==
  LET f[i \in 0 .. Len(Pending)] == IF i = 0 THEN seen ELSE After(f[i - 1], Pending[i])
  IN f[Len(Pending)]

(* Between messages the client will know, once it has taken the pending    *)
(* events, the size of every window that is not being sized ("push size    *)
(* event once", dg_sys.c:353) and the keys that sysin_get_key_state()      *)
(* shows, through any number of sizing loops.  A full ring costs the       *)
(* client no more than the event it refuses: about another window, key or  *)
(* matter the client is still right, and the next event of the same kind   *)
(* puts it right again.                                                    *)
EventsTell ==
  push[UI] = None =>
    /\ \A w \in Windows :
         win[w].state = "live" /\ ~win[w].sizemove /\ <<"size", w>> \notin lost =>
           Foreseen.size[w] = win[w].size
    /\ \A k \in Keys : <<"key", k>> \notin lost => Foreseen.keys[k] = keyarray[k]

(* "add last event" (dg_sys.c:342): after SYSUI_EVENT_DIE of a window no   *)
(* event of it comes, and a window that was killed has told so.            *)
DeathIsLast ==
  /\ TypeOK
  /\ \A i \in DOMAIN Pending : Pending[i].win \notin seen.dead
  /\ \A i, j \in DOMAIN Pending :
       i < j /\ Pending[i].evt = "SYSUI_EVENT_DIE" => Pending[j].win # Pending[i].win
  /\ \A w \in Windows :
       win[w].state = "dead" => (w \in Foreseen.dead <=> <<"dead", w>> \notin lost)

(* A client that keeps polling gets every event the ring holds, whoever    *)
(* else is in it, unless it is in sysui_wait_events(), which sleeps until  *)
(* there is a message, or the user never stops sizing a window.            *)
EventsArrive ==
  [](ui # "wait") /\ []<>~modal =>
    \A i \in 0 .. Size - 1 : head = i /\ head # tail ~> head # i
=============================================================================
