----------------------------- MODULE MCUserArgs -----------------------------
(***************************************************************************)
(* UserArgs at W = 8 bits.  The kernel's 32-bit layout is scaled down by   *)
(* 2^24: VM_USERLO = 0x40000000 -> 64, VM_USERHI = 0xF0000000 -> 240.      *)
(* What the checks are about is kept: a buffer size (KBUF) and a stat size *)
(* smaller than the gap 2^W - VM_USERHI above user space, so that a sum    *)
(* can wrap past 2^W only from an address above VM_USERHI; a page larger   *)
(* than the largest chunk; and string lengths both below and above a page. *)
(***************************************************************************)
EXTENDS UserArgs

MC_W == 8
MC_VM_USERLO == 64
MC_VM_USERHI == 240

\* addresses: below user space, its first byte, inside it, near its top,
\* at VM_USERHI, and above it close enough to 2^W for a sum to wrap
MCAddrArgs == {0, 64, 100, 236, 240, 253}

\* descriptors: valid, one past the table, and -1 as a register value
MCFdArgs == {0, 1, 2^MC_W - 1}

\* sys_read / sys_write sizes: empty, small, kernel_buf exactly, one over
MCLenArgs == {0, 3, 8, 9}

\* sys_puts lengths: empty, under a page, a page, over two pages, and one
\* so long that uva + len wraps
MCPutsLenArgs == {0, 5, 15, 33, 200}

=============================================================================
