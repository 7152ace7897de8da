---------------------------- MODULE MCRemainLen ----------------------------
(* Values around every size class of the field, and the 140 of main.c.     *)
EXTENDS RemainLen
Around(n) == (n - 3) .. (n + 3)
MCLens == (0 .. 300) \cup Around(16384) \cup Around(32768) \cup Around(2097152)
\* Both sides of the last class (TLC's integers are 32 bits wide).
MCLensAll == MCLens \cup Around(4194304) \cup Around(268435456)
=============================================================================
