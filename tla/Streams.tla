------------------------------ MODULE Streams ------------------------------
(***************************************************************************)
(* Files and memory buffers opened as files, dglib/src/dg_filesystem.c: a  *)
(* table of handles (module HandleAlloc) whose blocks hold the position    *)
(* and the object of a stream, and two sets of I/O functions, win32_* for  *)
(* files and buf_* for buffers.                                            *)
(*                                                                         *)
(* A stored value of Width bytes is the sequence of its bytes, the most    *)
(* significant first; the host is little endian.  The position of a file   *)
(* is kept by the operating system, here in the same field.  What          *)
(* CreateFileW(), ReadFile(), WriteFile() and SetFilePointerEx() do is     *)
(* taken from how the code uses them.                                      *)
(*                                                                         *)
(* The table has no lock: its calls are taken to come from one thread.     *)
(* Callers do no I/O on a handle whose open failed.                        *)
(***************************************************************************)
EXTENDS Integers, Sequences, SequencesExt

CONSTANTS
  nhandles, GenSize, MaxTurns,  \* see HandleAlloc
  Buffers, BufSize,             \* memory buffers and their size
  Files,                        \* full names of files
  MaxFile,                      \* bound of the model: the length of a file
  SizeMod,                      \* the number of values of a size_t
  Values,                       \* the values that are stored
  Offsets,                      \* the offsets given to fs_seek()
  Nothing                       \* no object, no content, no value

VARIABLES
  pgenerations, turns, held, freed,
  body,     \* the blocks: [file, write, pos, obj]
  data,     \* the content of each object, Nothing for a file there is not
  opened,   \* history: the object of each held handle, Nothing if that failed
  written   \* history: the value stored at each place, as it was stored

streamVars == <<pgenerations, turns, held, freed, body, data, opened, written>>

H == INSTANCE HandleAlloc

Objects == Buffers \cup Files
Endians == {"FS_LE", "FS_BE"}
StoredValues == [value : Values, endian : Endians]

ASSUME StreamsAssumption ==
  /\ H!HandleAssumption
  /\ BufSize \in Nat /\ MaxFile \in Nat /\ BufSize <= MaxFile /\ SizeMod \in Nat \ {0}
  /\ Values \subseteq Seq(0 .. 255) /\ Offsets \subseteq Int
  /\ Buffers \cap Files = {}
  /\ Nothing \notin Objects \cup StoredValues /\ Nothing \notin Seq(0 .. 255)

Streams == {h \in held : opened[h] # Nothing}
Block(h) == body[h.index]

\* htole16() ... htobe64(), and back
Encode(v, e) == IF e = "FS_LE" THEN Reverse(v) ELSE v

\* Mutation of Decode: values are read in the order of the host.
DecodeHost(b, e) == Reverse(b)
Decode(b, e) == IF e = "FS_LE" THEN Reverse(b) ELSE b

\* s with b written at place p, which may lie behind the end
Overlay(s, p, b) ==
  [i \in 1 .. IF Len(s) > p + Len(b) THEN Len(s) ELSE p + Len(b) |->
     IF i > p /\ i <= p + Len(b) THEN b[i - p] ELSE IF i <= Len(s) THEN s[i] ELSE 0]

\* the bytes of s from place p, at most n
Part(s, p, n) == SubSeq(s, p + 1, IF p + n < Len(s) THEN p + n ELSE Len(s))

\* n bytes at place p of o have been overwritten, and v is stored there
Store(o, p, n, v) ==
  [written EXCEPT ![o] =
     [q \in DOMAIN @ |-> IF q = p /\ v # Nothing THEN v
                         ELSE IF @[q] # Nothing /\ q < p + n /\ p < q + Len(@[q].value) THEN Nothing
                         ELSE @[q]]]

\* a block that is not in use; Close leaves it so because no one reads it
Unused == [file |-> FALSE, write |-> FALSE, pos |-> 0, obj |-> Nothing]

StreamsInit ==
  /\ H!Init
  /\ body = [i \in H!Indices |-> Unused]
  /\ data = [o \in Objects |-> IF o \in Buffers THEN [i \in 1 .. BufSize |-> 0] ELSE Nothing]
  /\ opened = <<>>
  /\ written = [o \in Objects |-> [p \in 0 .. MaxFile |-> Nothing]]

\* the handle just allocated is for object o
Opened(o) == opened' = [h \in held' |-> IF h \in held THEN opened[h] ELSE o]
-----------------------------------------------------------------------------
(* fs_open_buffer(), fs_open_file(), fs_close(); when the table is full    *)
(* both opens return 0 and change nothing.                                 *)

OpenBuffer(b) ==
  \E i \in H!Indices :
    /\ H!alloc_handle(i)
    /\ body' = [body EXCEPT ![i] = [file |-> FALSE, write |-> TRUE, pos |-> 0, obj |-> b]]
    /\ Opened(b)
    /\ UNCHANGED <<data, written>>

\* win32_init(): a file opened for writing is created, or emptied.
OpenFile(f, w) ==
  \E i \in H!Indices :
    /\ w \/ data[f] # Nothing
    /\ H!alloc_handle(i)
    /\ body' = [body EXCEPT ![i] = [file |-> TRUE, write |-> w, pos |-> 0, obj |-> f]]
    /\ data' = IF w THEN [data EXCEPT ![f] = <<>>] ELSE data
    /\ written' = IF w THEN Store(f, 0, MaxFile, Nothing) ELSE written
    /\ Opened(f)

\* There is no such file: the call fails, and the handle stays allocated.
OpenFileFails(f) ==
  \E i \in H!Indices :
    /\ data[f] = Nothing
    /\ H!alloc_handle(i)
    /\ Opened(Nothing)
    /\ UNCHANGED <<body, data, written>>

\* Mutation of Close: the slot is freed whatever the generation of the handle.
CloseSlot(h) ==
  /\ H!free_handle_Unchecked(h)
  /\ opened' = [k \in held' |-> opened[k]]
  /\ body' = [body EXCEPT ![h.index] = Unused]
  /\ UNCHANGED <<data, written>>

\* A handle that is not valid is left alone.
Close(h) ==
  /\ H!free_handle(h)
  /\ opened' = [k \in held' |-> opened[k]]
  /\ body' = [body EXCEPT ![h.index] = Unused]
  /\ UNCHANGED <<data, written>>
-----------------------------------------------------------------------------
(* win32_write(), buf_write() and the typed writes on top of them.  v is   *)
(* the value the bytes b stand for.  A file opened for reading refuses     *)
(* them; a buffer takes what fits, whatever its access.                    *)

Unmoved == UNCHANGED <<pgenerations, turns, held, freed, opened>>

Fits(h) == IF Block(h).file THEN MaxFile - Block(h).pos ELSE BufSize - Block(h).pos

Write(h, b, v) ==
  LET k == Block(h)  n == IF Len(b) < Fits(h) THEN Len(b) ELSE Fits(h) IN
  /\ k.write
  /\ k.file => n = Len(b)
  /\ data' = [data EXCEPT ![k.obj] = Overlay(@, k.pos, SubSeq(b, 1, n))]
  /\ written' = Store(k.obj, k.pos, n, IF n = Len(b) THEN v ELSE Nothing)
  /\ body' = [body EXCEPT ![h.index].pos = @ + n]
  /\ Unmoved

WriteValue(h, v, e) == Write(h, Encode(v, e), [value |-> v, endian |-> e])

\* fs_write_string(): byte by byte and up to the first that is refused, which
\* leaves what one write of the whole string leaves.
WriteString(h, s) == WriteValue(h, s, "FS_BE")

(* win32_read() and buf_read(): the status and the bytes of a read of n    *)
(* bytes.  CreateFileW() was asked for one access only, so a file opened   *)
(* for writing cannot be read.                                             *)
ReadResult(h, n) ==
  LET k == Block(h)  got == Part(data[k.obj], k.pos, n) IN
  CASE k.file /\ k.write -> [status |-> "DGERR_INTERNAL_ERROR", bytes |-> <<>>]
    [] k.file /\ Len(got) < n -> [status |-> "DGERR_PARTIAL_COMPLETE", bytes |-> got]
    [] OTHER -> [status |-> "DGERR_SUCCESS", bytes |-> got]

\* A value of two bytes comes out of letoh16() or betoh16() as a uint16_t,
\* also one that was read as an int16_t, and goes into the four of an int32_t.
Widened(v) == IF Len(v) = 2 THEN <<0, 0>> \o v ELSE v

\* win32_read_s16() ... win32_read_u64(), buf_read_s16() ... buf_read_u64()
ReadValue(h, n, e) == Widened(Decode(ReadResult(h, n).bytes, e))

(* fs_read_string(): how many bytes it asks for, one at a time, and what    *)
(* it returns.  A file that ends before gives Nothing, with the position   *)
(* moved to its end; a buffer that ends before, what there was.  A length  *)
(* of maxlen and more is read all the same, and stored behind the memory.  *)
Asked(maxlen, length) == IF length # 0 THEN length ELSE maxlen - 1

ReadString(h, maxlen, length) ==
  LET r == ReadResult(h, Asked(maxlen, length)) IN
  IF Asked(maxlen, length) # 0 /\ r.status # "DGERR_SUCCESS" THEN Nothing
  ELSE SubSeq(r.bytes, 1, IF Len(r.bytes) < maxlen THEN Len(r.bytes) ELSE maxlen - 1)

Read(h, n) ==
  /\ body' = [body EXCEPT ![h.index].pos = @ + Len(ReadResult(h, n).bytes)]
  /\ UNCHANGED <<data, written>> /\ Unmoved

(* win32_seek() and buf_seek().  A negative offset is converted to size_t  *)
(* and the sum wraps.                                                      *)
From(h, mode) ==
  CASE mode = "FS_SET" -> 0
    [] mode = "FS_CUR" -> Block(h).pos
    [] OTHER -> Len(data[Block(h).obj])

MayMove(h, p) == IF Block(h).file THEN p \in 0 .. MaxFile ELSE p <= BufSize

Seek(h, off, mode) ==
  LET sum == From(h, mode) + off
      p == IF Block(h).file THEN sum ELSE (sum + SizeMod) % SizeMod
  IN /\ MayMove(h, p)
     /\ body' = [body EXCEPT ![h.index].pos = p]
     /\ UNCHANGED <<data, written>> /\ Unmoved

(* A call that opens a file and closes it again uses a slot twice.         *)
OpenedAndClosed ==
  \E i \in H!Indices :
    /\ ~H!Busy(i) /\ \A j \in H!Indices : j < i => H!Busy(j)
    /\ turns[i] + 2 <= MaxTurns
    /\ turns' = [turns EXCEPT ![i] = @ + 2]
    /\ pgenerations' = [pgenerations EXCEPT ![i] = (@ + 2) % GenSize]
    /\ UNCHANGED <<held, freed, body, data, opened, written>>

(* fs_ftomem(): open, to the end and back, read the whole content, close.  *)
(* Of an empty file nothing is read.  If there is no such file it returns  *)
(* as OpenFileFails leaves it.                                             *)
FileToMemory(f) == data[f] # Nothing /\ OpenedAndClosed

(* fs_memtof() takes the bytes of the name for wide characters (l. 755):   *)
(* it writes a file that is none of Files, or Windows refuses that name    *)
(* and the handle stays allocated.                                         *)
MemoryToFile ==
  \/ OpenedAndClosed
  \/ \E i \in H!Indices :
       /\ H!alloc_handle(i)
       /\ Opened(Nothing)
       /\ UNCHANGED <<body, data, written>>
-----------------------------------------------------------------------------
OpenOrClose ==
  \/ \E b \in Buffers : OpenBuffer(b)
  \/ \E h \in Streams \cup freed : Close(h)

Transfer ==
  \E h \in Streams :
    \/ \E v \in Values, e \in Endians : WriteValue(h, v, e)
    \/ \E v \in Values : WriteString(h, v)
    \/ \E n \in {Len(v) : v \in Values} : Read(h, n)
    \/ \E off \in Offsets, mode \in {"FS_SET", "FS_CUR", "FS_END"} : Seek(h, off, mode)
-----------------------------------------------------------------------------
StreamsOK ==
  /\ H!TypeOK
  /\ body \in [H!Indices -> [file : BOOLEAN, write : BOOLEAN, pos : 0 .. MaxFile,
                             obj : Objects \cup {Nothing}]]
  /\ \A o \in Objects : data[o] # Nothing => \A i \in DOMAIN data[o] : data[o][i] \in 0 .. 255
  /\ \A b \in Buffers : Len(data[b]) = BufSize
  /\ DOMAIN opened = held

(* A handle works on the object it was opened on, also after others were   *)
(* closed, opened in the same slot, or closed twice, and no sequence of    *)
(* seeks, reads and writes brings its position past the end of a buffer,   *)
(* where the size that is left would wrap (l. 368, 384).  The table is     *)
(* never fuller than that: a slot in use is that of an open handle or of   *)
(* an open that failed (l. 539).                                           *)
OwnObject ==
  /\ StreamsOK
  /\ \A h \in Streams : H!is_valid_handle(h) /\ Block(h).obj = opened[h]
  /\ \A h \in Streams : ~Block(h).file => Block(h).pos <= BufSize
  /\ \A i \in H!Indices : H!Busy(i) => \E h \in held : h.index = i /\ H!is_valid_handle(h)

(* A typed read at a place where a value was stored and not overwritten    *)
(* since gives that value, with the byte order it was stored in, through   *)
(* whatever handle it comes.  A value of two bytes comes with zeros above  *)
(* it: what fs_write_u16() was given, and what fs_write_s16() was given    *)
(* unless that was negative.  Of a string stored there fs_read_string()    *)
(* gives as much as the memory it is given holds with the terminator.      *)
ReadsBack ==
  \A h \in Streams :
    LET k == Block(h)  w == written[k.obj][k.pos]  n == Len(w.value) IN
    w # Nothing /\ ~(k.file /\ k.write) =>
      /\ ReadResult(h, n).status = "DGERR_SUCCESS"
      /\ ReadValue(h, n, w.endian) = IF n = 2 THEN <<0, 0>> \o w.value ELSE w.value
      /\ w.endian = "FS_BE" =>
           /\ \A maxlen \in 1 .. n + 1 : ReadString(h, maxlen, 0) = SubSeq(w.value, 1, maxlen - 1)
           /\ ReadString(h, n + 1, n) = w.value
=============================================================================
