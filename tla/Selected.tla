------------------------------ MODULE Selected ------------------------------
(***************************************************************************)
(* The elements of a sequence that are in a set, in their order: what      *)
(* SelectSeq selects, as a recursive function, which can be proved about.  *)
(***************************************************************************)
EXTENDS Naturals, Sequences

Only(s, S) ==
  LET pick[i \in 0 .. Len(s)] ==
        IF i = 0 THEN <<>>
        ELSE IF s[i] \in S THEN Append(pick[i - 1], s[i]) ELSE pick[i - 1]
  IN  pick[Len(s)]
=============================================================================
