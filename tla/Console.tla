------------------------------- MODULE Console -------------------------------
(***************************************************************************)
(* Console input of src/kern/dev/console.c and the sys_readline system     *)
(* call of src/kern/trap/TSyscall/TSyscall.c.                              *)
(*                                                                         *)
(* Interrupt handlers (serial_intr, keyboard_intr, also polled by          *)
(* cons_getc) run cons_intr, which drains a device into the ring cons.buf  *)
(* at wpos.  Readers in sys_readline run readline, which takes characters  *)
(* one at a time with cons_getc and edits the shared static linebuf;       *)
(* sys_readline then copies linebuf out to the user.  cons_intr and        *)
(* cons_getc each run under cons_lk and are atomic steps; readline's       *)
(* editing and the copy-out take no lock.                                  *)
(*                                                                         *)
(* Characters are byte values 0..255; char is signed, so a byte of 128 or  *)
(* more reads as a negative char in readline.                              *)
(***************************************************************************)
EXTENDS Naturals, Integers, Sequences, SequencesExt

CONSTANTS
  Readers,              \* threads calling sys_readline
  CONSOLE_BUFFER_SIZE,  \* slots of cons.buf
  BUFLEN,               \* size of readline's linebuf
  Bursts,               \* byte sequences a device's proc() returns before -1
  MaxTyped,             \* bound on the bytes stored by cons_intr
  MaxLines,             \* bound on sys_readline calls per reader
  MaxAhead              \* bytes the typist may get ahead of the readers

ASSUME /\ CONSOLE_BUFFER_SIZE \in Nat \ {0} /\ BUFLEN \in Nat \ {0, 1}
       /\ Bursts \subseteq Seq(0 .. 255)
       /\ MaxTyped \in Nat /\ MaxLines \in Nat /\ MaxAhead \in Nat

NUL == 0
BS  == 8
NL  == 10
CR  == 13
DEL == 127

\* the value of a byte read back as a (signed) char
SignedChar(b) == IF b >= 128 THEN b - 256 ELSE b

Slots == 0 .. CONSOLE_BUFFER_SIZE - 1

VARIABLES
  buf, rpos, wpos,   \* struct cons
  linebuf,           \* readline's static line buffer
  rd,                \* reader -> [pc, i, got, n]: got = bytes this call
                     \* consumed, n = sys_readline calls made
  last,              \* reader -> [line, want] of its last sys_readline
  ntyped,            \* bytes stored so far (for the bound)
  consumed           \* every byte cons_getc returned, in order

vars == <<buf, rpos, wpos, linebuf, rd, last, ntyped, consumed>>

-----------------------------------------------------------------------------

\* (fault variants) a ring index that never wraps, and one that wraps
\* a slot early
NextPosNoWrap(p) == p + 1
NextPosEarly(p) == IF p + 1 = CONSOLE_BUFFER_SIZE - 1 THEN 0 ELSE p + 1

\* position after p: "if (++pos == CONSOLE_BUFFER_SIZE) pos = 0"
NextPos(p) == IF p + 1 = CONSOLE_BUFFER_SIZE THEN 0 ELSE p + 1

\* the bytes of a burst that cons_intr stores (it skips 0)
Stored(s) == SelectSeq(s, LAMBDA c : c # NUL)

\* cons_intr's loop: store each byte at wpos and advance, with no check
\* against rpos
RECURSIVE IntrLoop(_, _, _)
IntrLoop(b, w, s) ==
  IF s = <<>> THEN <<b, w>>
  ELSE IF Head(s) = NUL THEN IntrLoop(b, w, Tail(s))
  ELSE IntrLoop([b EXCEPT ![w] = Head(s)], NextPos(w), Tail(s))

\* the unread bytes, as cons_getc will return them
Pending ==
  [k \in 1 .. (wpos - rpos + CONSOLE_BUFFER_SIZE) % CONSOLE_BUFFER_SIZE |->
     buf[(rpos + k - 1) % CONSOLE_BUFFER_SIZE]]

\* the C string at the start of linebuf, as strnlen(kernbuf, 100) sees it
CString(lb) ==
  LET ends == {k \in 0 .. BUFLEN - 1 : lb[k] = NUL}
      n    == IF ends = {} THEN BUFLEN
              ELSE CHOOSE k \in ends : \A j \in ends : k <= j
  IN [j \in 1 .. IF n > 100 THEN 100 ELSE n |-> lb[j - 1]]

-----------------------------------------------------------------------------
(* Reference line editor: the line a user means by a sequence of key      *)
(* bytes.  An erase key (BS or DEL) removes the last kept character; a    *)
(* key of value 32 or more is kept while the line has room for it and a   *)
(* terminator; other keys are ignored.  An erase on an empty line keeps   *)
(* nothing for BS; for DEL (127 >= ' ') the byte itself is kept.          *)

EditKey(line, b) ==
  LET c == SignedChar(b) IN
  IF c \in {BS, DEL} /\ line # <<>> THEN Front(line)
  ELSE IF c >= 32 /\ Len(line) < BUFLEN - 1 THEN Append(line, b)
  ELSE line

RefLine(keys) == FoldLeft(EditKey, <<>>, SelectSeq(keys, LAMBDA b : b \notin {NL, CR}))

-----------------------------------------------------------------------------

\* An interrupt handler runs cons_intr over the bytes its device holds.
\* The typist stays within MaxAhead bytes of the readers.
Intr(s) ==
  LET res == IntrLoop(buf, wpos, s) IN
  /\ ntyped + Len(Stored(s)) <= MaxTyped
  /\ ntyped - Len(consumed) + Len(Stored(s)) <= MaxAhead
  /\ buf' = res[1]
  /\ wpos' = res[2]
  /\ ntyped' = ntyped + Len(Stored(s))
  /\ UNCHANGED <<rpos, linebuf, rd, last, consumed>>

\* sys_readline calls readline(">:"), which starts with i = 0
StartReadline(r) ==
  /\ rd[r].pc = "user"
  /\ rd[r].n < MaxLines
  /\ rd' = [rd EXCEPT ![r].pc = "readline", ![r].i = 0, ![r].got = <<>>, ![r].n = @ + 1]
  /\ UNCHANGED <<buf, rpos, wpos, linebuf, last, ntyped, consumed>>

\* (fault variant) readline ending a line without writing its NUL
ReadCharNoNul(r) ==
  LET b == buf[rpos]
      c == SignedChar(b)
      i == rd[r].i
  IN /\ rd[r].pc = "readline"
     /\ rpos # wpos
     /\ rpos' = NextPos(rpos)
     /\ consumed' = Append(consumed, b)
     /\ CASE c < 0 ->
               /\ rd' = [rd EXCEPT ![r].pc = "null", ![r].got = Append(@, b)]
               /\ UNCHANGED linebuf
          [] c \in {BS, DEL} /\ i > 0 ->
               /\ rd' = [rd EXCEPT ![r].i = i - 1, ![r].got = Append(@, b)]
               /\ UNCHANGED linebuf
          [] c >= 32 /\ i < BUFLEN - 1 ->
               /\ linebuf' = [linebuf EXCEPT ![i] = b]
               /\ rd' = [rd EXCEPT ![r].i = i + 1, ![r].got = Append(@, b)]
          [] c \in {NL, CR} ->
               /\ rd' = [rd EXCEPT ![r].pc = "copyout", ![r].got = Append(@, b)]
               /\ UNCHANGED linebuf
          [] OTHER ->
               /\ rd' = [rd EXCEPT ![r].got = Append(@, b)]
               /\ UNCHANGED linebuf
     /\ UNCHANGED <<buf, wpos, last, ntyped>>

\* (fault variant) cons_getc that returns the byte at rpos without
\* advancing rpos
ReadCharNoAdvance(r) ==
  LET b == buf[rpos]
      c == SignedChar(b)
      i == rd[r].i
  IN /\ rd[r].pc = "readline"
     /\ rpos # wpos
     /\ consumed' = Append(consumed, b)
     /\ CASE c < 0 ->
               /\ rd' = [rd EXCEPT ![r].pc = "null", ![r].got = Append(@, b)]
               /\ UNCHANGED linebuf
          [] c \in {BS, DEL} /\ i > 0 ->
               /\ rd' = [rd EXCEPT ![r].i = i - 1, ![r].got = Append(@, b)]
               /\ UNCHANGED linebuf
          [] c >= 32 /\ i < BUFLEN - 1 ->
               /\ linebuf' = [linebuf EXCEPT ![i] = b]
               /\ rd' = [rd EXCEPT ![r].i = i + 1, ![r].got = Append(@, b)]
          [] c \in {NL, CR} ->
               /\ linebuf' = [linebuf EXCEPT ![i] = NUL]
               /\ rd' = [rd EXCEPT ![r].pc = "copyout", ![r].got = Append(@, b)]
          [] OTHER ->
               /\ rd' = [rd EXCEPT ![r].got = Append(@, b)]
               /\ UNCHANGED linebuf
     /\ UNCHANGED <<buf, rpos, wpos, last, ntyped>>

\* getchar: cons_getc returns the byte at rpos (getchar spins while the
\* ring is empty), and readline applies it to linebuf: a negative char
\* is a read error (NULL is returned), an erase key with i > 0 steps
\* back, a char >= ' ' is stored while i < BUFLEN - 1, a newline or
\* return ends the line, anything else is ignored.
ReadChar(r) ==
  LET b == buf[rpos]
      c == SignedChar(b)
      i == rd[r].i
  IN /\ rd[r].pc = "readline"
     /\ rpos # wpos
     /\ rpos' = NextPos(rpos)
     /\ consumed' = Append(consumed, b)
     /\ CASE c < 0 ->
               /\ rd' = [rd EXCEPT ![r].pc = "null", ![r].got = Append(@, b)]
               /\ UNCHANGED linebuf
          [] c \in {BS, DEL} /\ i > 0 ->
               /\ rd' = [rd EXCEPT ![r].i = i - 1, ![r].got = Append(@, b)]
               /\ UNCHANGED linebuf
          [] c >= 32 /\ i < BUFLEN - 1 ->
               /\ linebuf' = [linebuf EXCEPT ![i] = b]
               /\ rd' = [rd EXCEPT ![r].i = i + 1, ![r].got = Append(@, b)]
          [] c \in {NL, CR} ->
               /\ linebuf' = [linebuf EXCEPT ![i] = NUL]
               /\ rd' = [rd EXCEPT ![r].pc = "copyout", ![r].got = Append(@, b)]
          [] OTHER ->
               /\ rd' = [rd EXCEPT ![r].got = Append(@, b)]
               /\ UNCHANGED linebuf
     /\ UNCHANGED <<buf, wpos, last, ntyped>>

\* sys_readline: strnlen(kernbuf, 100) + 1 bytes of linebuf go to the user
Copyout(r) ==
  /\ rd[r].pc = "copyout"
  /\ last' = [last EXCEPT ![r] = [line |-> CString(linebuf), want |-> RefLine(rd[r].got)]]
  /\ rd' = [rd EXCEPT ![r].pc = "user"]
  /\ UNCHANGED <<buf, rpos, wpos, linebuf, ntyped, consumed>>

-----------------------------------------------------------------------------

Init ==
  /\ buf = [k \in Slots |-> NUL]          \* cons_init: memset(&cons, 0, ...)
  /\ rpos = 0 /\ wpos = 0
  /\ linebuf = [k \in 0 .. BUFLEN - 1 |-> NUL]
  /\ rd = [r \in Readers |-> [pc |-> "user", i |-> 0, got |-> <<>>, n |-> 0]]
  /\ last = [r \in Readers |-> [line |-> <<>>, want |-> <<>>]]
  /\ ntyped = 0
  /\ consumed = <<>>

Next ==
  \/ \E s \in Bursts : Intr(s)
  \/ \E r \in Readers : StartReadline(r) \/ ReadChar(r) \/ Copyout(r)

Spec == Init /\ [][Next]_vars

\* A reader in readline spins in getchar, polling cons_getc (which also
\* drains the devices itself), for as long as it takes: while a byte is
\* pending it is eventually taken.  The typist is not fair: no one has to
\* type.
FairSpec == Spec /\ \A r \in Readers : WF_vars(ReadChar(r))

-----------------------------------------------------------------------------
(* Properties                                                              *)

TypeOK ==
  /\ buf \in [Slots -> 0 .. 255] /\ rpos \in Slots /\ wpos \in Slots
  /\ linebuf \in [0 .. BUFLEN - 1 -> 0 .. 255]
  /\ rd \in [Readers -> [pc : {"user", "readline", "copyout", "null"},
                         i : 0 .. BUFLEN - 1, got : Seq(0 .. 255), n : Nat]]
  /\ ntyped \in Nat /\ consumed \in Seq(0 .. 255)

\* The ring of cons_intr / cons_getc is a FIFO queue of the bytes the
\* devices delivered: mapping the unread slots rpos..wpos to the queue
\* and the bytes cons_getc returned to the taken sequence, every step
\* is a Put, a Take or leaves both unchanged.  (A step that loses or
\* reorders input is none of these.)
Queue == INSTANCE ConsoleQueue WITH q <- Pending, taken <- consumed
QueueRefinement == Queue!Spec

\* readline returns once a line end is pending: a reader in readline while
\* NL or CR is among the unread bytes eventually leaves readline, with
\* its line or (for a byte >= 0x80 before it) with NULL.  Every byte
\* before the line end, erase keys and ignored bytes included, must be
\* taken from the ring, and none may be lost or read twice.
LineReturns ==
  \A r \in Readers :
    (rd[r].pc = "readline" /\ \E k \in DOMAIN Pending : Pending[k] \in {NL, CR})
      ~> rd[r].pc # "readline"

\* The line sys_readline copies out is the line the reader typed: the
\* reference editor applied to exactly the bytes this call consumed.
LineMatchesEdit == \A r \in Readers : last[r].line = last[r].want

=============================================================================
