------------------------------ MODULE MCConsole ------------------------------
EXTENDS Console

\* Key bytes: 'A', 'B', backspace, DEL, newline, a NUL skipped by
\* cons_intr, a control byte readline ignores, and a byte >= 0x80
KeyA == 65
KeyB == 66
Ctl  == 1
High == 200

\* A reader typing letters, erasing and ending lines, one key per
\* interrupt, and a device returning two keys in one drain.
TypingBursts == {<<KeyA>>, <<KeyB>>, <<BS>>, <<DEL>>, <<NL>>, <<NUL, Ctl>>, <<KeyA, NL>>, <<High>>}
=============================================================================
