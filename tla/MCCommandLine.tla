--------------------------- MODULE MCCommandLine ---------------------------
(***************************************************************************)
(* Requests for CommandLine, into a buffer of nine characters: the         *)
(* commands help, pub and sub with and without their arguments, an empty   *)
(* and an unknown line, a backspace, a line that fills the buffer and one  *)
(* that does not fit; and what a read() may return before the line it ends *)
(* in: nothing, a line, and two, of which the second is empty.             *)
(***************************************************************************)
EXTENDS CommandLine

p == <<"p">>
s == <<"s">>
t == <<"t">>
u == <<"t", "u">>
one == <<"1">>
MCRequests ==
  {<<>>, <<<<"h">>>>, <<t>>, <<p>>, <<p, t>>, <<p, t, t, one>>, <<p, t, u, one>>, <<p, t, u, u>>,
   <<s>>, <<s, t>>, <<s, t, one>>, <<<<"h", BS>>>>}
MCChar == {NUL, NL, BS, SP, "h", "p", "s", "t", "u", "1"}
MCGarbage == {0, 255}
MCAhead == {<<>>, <<<<<<"h">>>>>>, <<<<s>>, <<>>>>}
MCGarbageText == {<<>>, u}
=============================================================================
