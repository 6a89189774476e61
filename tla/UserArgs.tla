------------------------------ MODULE UserArgs ------------------------------
(***************************************************************************)
(* The user-buffer checks of the system calls that copy bytes between a    *)
(* user buffer and the kernel: sys_read, sys_write and sys_fstat of        *)
(* src/kern/fs/sysfile.c and sys_puts of src/kern/trap/TSyscall/TSyscall.c,*)
(* with sys_puts's page-by-page copy loop.                                 *)
(*                                                                         *)
(* The handlers receive raw register values.  Addresses and lengths are    *)
(* unsigned W-bit integers and every sum wraps modulo 2^W, as the C        *)
(* unsigned arithmetic does.  The constants are the kernel's, scaled to W  *)
(* bits (see MCUserArgs).                                                  *)
(***************************************************************************)
EXTENDS Naturals, Integers, Sequences

CONSTANTS
  W,               \* width of unsigned int (32 in the kernel)
  VM_USERLO,       \* lowest user address
  VM_USERHI,       \* first address above user space
  KBUF,            \* sizeof(kernel_buf)
  STATSIZE,        \* sizeof(struct file_stat)
  PAGESIZE,        \* size of a sys_buf row
  NOFILE,          \* TCB openfiles[] slots
  AddrArgs,        \* user addresses passed in a register
  FdArgs,          \* descriptor values passed in a register
  LenArgs,         \* byte counts passed to sys_read / sys_write
  PutsLenArgs      \* string lengths passed to sys_puts

ASSUME /\ W \in Nat \ {0} /\ VM_USERLO < VM_USERHI /\ VM_USERHI < 2^W
       /\ PAGESIZE > 1 /\ NOFILE \in Nat \ {0} /\ AddrArgs \subseteq 0 .. 2^W - 1

Word == 0 .. 2^W - 1

\* unsigned addition of two words
Add(a, b) == (a + b) % 2^W

\* the addresses pt_copyin / pt_copyout walk for n bytes from va
Span(va, n) == {Add(va, k) : k \in 0 .. n - 1}

VARIABLES
  pc,        \* "user", or "puts" inside sys_puts's copy loop
  touched,   \* user addresses the current call passed to pt_copyin/out
  puts,      \* sys_puts: [uva, len] of the call, remain, cur_pos, nbytes
  printed    \* the addresses whose bytes sys_puts has printed, in order

vars == <<pc, touched, puts, printed>>

NoPuts == [uva |-> 0, len |-> 0, remain |-> 0, cur_pos |-> 0, nbytes |-> 0]

\* a register value read as the int fd of sys_read and sys_write
SignedInt(v) == IF v >= 2^(W - 1) THEN v - 2^W ELSE v

\* sys_read and sys_write reject the call before touching the buffer:
\* n too large (n < 0 is never true for unsigned n), fd out of range,
\* user_buf + n past VM_USERHI (in unsigned arithmetic), or no file.
RWAccepts(fd, ub, n, hasFile) ==
  /\ ~(n > KBUF)
  /\ ~(SignedInt(fd) < 0 \/ SignedInt(fd) >= NOFILE)
  /\ ~(ub < VM_USERLO \/ Add(ub, n) > VM_USERHI)
  /\ hasFile

\* sys_read: file_read returns some size_read <= n, and if it is positive
\* pt_copyout writes size_read bytes to user_buf
Read(fd, ub, n, hasFile, size_read) ==
  /\ pc = "user"
  /\ size_read <= n
  /\ touched' = IF RWAccepts(fd, ub, n, hasFile) /\ size_read > 0
                THEN Span(ub, size_read) ELSE {}
  /\ puts' = NoPuts /\ printed' = <<>>
  /\ UNCHANGED pc

\* sys_write: pt_copyin of n bytes from user_buf, then file_write
Write(fd, ub, n, hasFile) ==
  /\ pc = "user"
  /\ touched' = IF RWAccepts(fd, ub, n, hasFile) THEN Span(ub, n) ELSE {}
  /\ puts' = NoPuts /\ printed' = <<>>
  /\ UNCHANGED pc

\* sys_fstat: fd >= NOFILE (fd is unsigned), the user_stat check, no file,
\* then pt_copyin of sizeof(struct file_stat) bytes
Fstat(fd, us, hasFile) ==
  LET ok == /\ ~(fd < 0 \/ fd >= NOFILE)
            /\ ~(us < VM_USERLO \/ Add(us, STATSIZE) > VM_USERHI)
            /\ hasFile
  IN /\ pc = "user"
     /\ touched' = IF ok THEN Span(us, STATSIZE) ELSE {}
     /\ puts' = NoPuts /\ printed' = <<>>
     /\ UNCHANGED pc

\* sys_puts: the string check, then the loop starts
PutsBegin(uva, len) ==
  /\ pc = "user"
  /\ touched' = {}
  /\ printed' = <<>>
  /\ IF VM_USERLO <= uva /\ Add(uva, len) <= VM_USERHI
     THEN /\ pc' = "puts"
          /\ puts' = [NoPuts EXCEPT !.uva = uva, !.len = len, !.remain = len, !.cur_pos = uva]
     ELSE UNCHANGED pc /\ puts' = NoPuts

\* (fault variants) a loop that never advances cur_pos, and one that
\* copies a whole page into the PAGESIZE row
PutsChunkNoAdvance ==
  LET p      == puts
      nbytes == IF p.remain < PAGESIZE - 1 THEN p.remain ELSE PAGESIZE - 1
  IN /\ pc = "puts" /\ p.remain # 0
     /\ touched' = touched \cup Span(p.cur_pos, nbytes)
     /\ printed' = printed \o [k \in 1 .. nbytes |-> Add(p.cur_pos, k - 1)]
     /\ puts' = [p EXCEPT !.remain = @ - nbytes, !.nbytes = nbytes]
     /\ UNCHANGED pc
PutsChunkFullPage ==
  LET p      == puts
      nbytes == IF p.remain < PAGESIZE THEN p.remain ELSE PAGESIZE
  IN /\ pc = "puts" /\ p.remain # 0
     /\ touched' = touched \cup Span(p.cur_pos, nbytes)
     /\ printed' = printed \o [k \in 1 .. nbytes |-> Add(p.cur_pos, k - 1)]
     /\ puts' = [p EXCEPT !.remain = @ - nbytes, !.cur_pos = Add(@, nbytes),
                          !.nbytes = nbytes]
     /\ UNCHANGED pc

\* one iteration of sys_puts's loop: copy at most PAGESIZE - 1 bytes into
\* sys_buf[cur_pid], NUL-terminate at [nbytes] and print them
PutsChunk ==
  LET p      == puts
      nbytes == IF p.remain < PAGESIZE - 1 THEN p.remain ELSE PAGESIZE - 1
  IN /\ pc = "puts" /\ p.remain # 0
     /\ touched' = touched \cup Span(p.cur_pos, nbytes)
     /\ printed' = printed \o [k \in 1 .. nbytes |-> Add(p.cur_pos, k - 1)]
     /\ puts' = [p EXCEPT !.remain = @ - nbytes, !.cur_pos = Add(@, nbytes),
                          !.nbytes = nbytes]
     /\ UNCHANGED pc

\* pt_copyin copies fewer than nbytes (an unmapped page): sys_puts
\* returns E_MEM from inside the loop
PutsCopyFail ==
  /\ pc = "puts" /\ puts.remain # 0
  /\ pc' = "user"
  /\ puts' = NoPuts
  /\ UNCHANGED <<touched, printed>>

\* the loop ends when nothing remains
PutsEnd ==
  /\ pc = "puts" /\ puts.remain = 0
  /\ pc' = "user"
  /\ UNCHANGED <<touched, puts, printed>>

Init ==
  /\ pc = "user"
  /\ touched = {}
  /\ puts = NoPuts
  /\ printed = <<>>

Next ==
  \/ \E fd \in FdArgs, ub \in AddrArgs, n \in LenArgs, f \in BOOLEAN :
        \/ \E sz \in 0 .. n : Read(fd, ub, n, f, sz)
        \/ Write(fd, ub, n, f)
  \/ \E fd \in FdArgs, us \in AddrArgs, f \in BOOLEAN : Fstat(fd, us, f)
  \/ \E uva \in AddrArgs, len \in PutsLenArgs : PutsBegin(uva, len)
  \/ PutsChunk
  \/ PutsCopyFail
  \/ PutsEnd

Spec == Init /\ [][Next]_vars

-----------------------------------------------------------------------------
(* Properties                                                              *)

TypeOK ==
  /\ pc \in {"user", "puts"}
  /\ touched \subseteq Word
  /\ puts \in [uva : Word, len : Word, remain : Word, cur_pos : Word, nbytes : 0 .. PAGESIZE - 1]
  /\ printed \in Seq(Word)

\* Every address a system call hands to pt_copyin / pt_copyout lies in
\* [VM_USERLO, VM_USERHI): the range checks of sys_read, sys_write,
\* sys_fstat and sys_puts admit only user buffers.
CopiesInUserSpace == \A a \in touched : VM_USERLO <= a /\ a < VM_USERHI

\* sys_puts prints the string's bytes exactly once each, in order: when
\* its loop ends, the chunks it printed are the len bytes from uva.
PutsPrintsString ==
  pc = "user" /\ puts.len > 0 =>
    printed = [k \in 1 .. puts.len |-> Add(puts.uva, k - 1)]

=============================================================================
