---------------------------- MODULE CommandLine ----------------------------
(***************************************************************************)
(* The command line thread of mqttnox_commandline.c: how commandline_task  *)
(* gathers what read() returns in read_buffer and what the handlers make   *)
(* of a line.  read() may return a whole line (a console), any part of one *)
(* (a terminal in raw mode), the end of one, several more and the          *)
(* beginning of another (a pipe), or nothing (end of file, an error).      *)
(*                                                                         *)
(* Characters are strings.  A command's name is abstracted to one          *)
(* character, a number to one digit, and NL stands for '\n' and '\r'.      *)
(***************************************************************************)
EXTENDS Naturals, Sequences, SequencesExt

CONSTANTS
  Char,      \* the characters that may be typed, and NUL
  Requests,  \* what the user may enter: sequences of words
  BufLen,    \* sizeof(read_buffer) (128)
  CntMod,    \* values of a uint16_t (65536)
  Garbage,   \* values an uninitialized int may have
  GarbageText, \* strings an uninitialized array of char may hold
  Ahead,     \* bound: requests a read() may return whole before the one it ends in
  MaxReads   \* bound: calls of read()

VARIABLES
  phase,       \* "read", "got", or "beyond" (read_buffer was left)
  read_buffer,
  read_cnt,
  rest,        \* what the user typed and read() has not returned
  line,        \* history: the last request that read() returned something of
  called,      \* history: the command the last line ran
  inStep,      \* history: "yes" when each read() since the buffer was last clear
               \* returned one line, "no" when not, "again" when it has just been cleared
  newlines,    \* history: NLs returned by read()
  commands,    \* history: commands run
  reads        \* calls of read()

buffer == <<read_buffer, read_cnt>>
input == <<rest, line, newlines, reads>>
outcome == <<called, commands>>
vars == <<phase, buffer, input, outcome, inStep>>

----------------------------------------------------------------------------
(* Characters, words and lines                                             *)

NUL == "nul"
NL == "nl"
BS == "bs"
SP == " "
Digit == [d \in {"0", "1", "2"} |-> CASE d = "0" -> 0 [] d = "1" -> 1 [] d = "2" -> 2]
Delims == {SP, NL, NUL}

\* A word, or a number: its characters end no word, and the first is a digit only
\* when it is the only one.
IsWord(w) ==
  /\ w # <<>> /\ \A i \in 1 .. Len(w) : w[i] \notin Delims
  /\ w[1] \in DOMAIN Digit => Len(w) = 1
Word == {w \in Seq(Char) : IsWord(w)}

ASSUME CommandLineAssumption ==
  /\ {NUL, NL, BS, SP} \subseteq Char /\ Requests \subseteq Seq(Word)
  /\ BufLen \in Nat \ {0} /\ CntMod \in Nat /\ CntMod > BufLen
  /\ Garbage # {} /\ GarbageText # {} /\ MaxReads \in Nat
  /\ Ahead \subseteq Seq(Requests)

\* What the user types for a request.
Spaced(words) == FlattenSeq([i \in 1 .. Len(words) |-> <<SP>> \o words[i]])
Text(words) ==
  (IF words = <<>> THEN <<>> ELSE Head(words) \o Spaced(Tail(words))) \o <<NL>>

\* The words sscanf's %s takes from a string, one after the other: taken[n] is
\* what it has of them after n characters.
Words(s) ==
  LET Blank(i) == i = 0 \/ s[i] \in {SP, NL}
      taken[n \in 0 .. Len(s)] ==
        IF n = 0 THEN <<>>
        ELSE IF Blank(n) THEN taken[n - 1]
        ELSE IF Blank(n - 1) THEN Append(taken[n - 1], <<s[n]>>)
        ELSE [taken[n - 1] EXCEPT ![Len(taken[n - 1])] = Append(@, s[n])]
  IN taken[Len(s)]

\* The values %s and %u may leave in a variable that had one of the values in Old.
ScannedText(words, n, Old) == IF n <= Len(words) THEN {words[n]} ELSE Old
Scanned(words, n, Old) ==
  IF n <= Len(words) /\ words[n][1] \in DOMAIN Digit THEN {Digit[words[n][1]]} ELSE Old

----------------------------------------------------------------------------
(* The handlers                                                            *)

NoCommand == [fn |-> "none"]

pub_cmd_handler(buf) ==
  IF buf = <<>> THEN {NoCommand}
  ELSE [fn : {"publish"}, topic : ScannedText(Words(buf), 1, {<<>>}),
        msg : ScannedText(Words(buf), 2, {<<>>}), qos : Scanned(Words(buf), 3, {0})]

\* param_topic and param_qos are not initialized.
SubOld == Garbage
sub_cmd_handler(buf) ==
  IF buf = <<>> THEN {NoCommand}
  ELSE [fn : {"subscribe"}, topic : ScannedText(Words(buf), 1, GarbageText),
        qos : Scanned(Words(buf), 2, SubOld)]

Handler(name, buf) ==
  CASE name = <<"h">> -> {[fn |-> "help"]}
    [] name = <<"p">> -> pub_cmd_handler(buf)
    [] name = <<"s">> -> sub_cmd_handler(buf)
    [] name = <<"e">> -> {[fn |-> "exit"]}
    [] OTHER -> {NoCommand}

\* The C string at index i of a buffer, when it ends inside.
Terminated(b, i) == \E j \in i .. BufLen - 1 : b[j] = NUL
FirstOf(b, i, chars) ==
  CHOOSE j \in i .. BufLen - 1 : b[j] \in chars /\ \A k \in i .. j - 1 : b[k] \notin chars
CString(b, i) == LET e == FirstOf(b, i, {NUL}) IN [k \in 1 .. e - i |-> b[i + k - 1]]

string_find_end(b) == FirstOf(b, 0, Delims)
NameOf(b) == CString([b EXCEPT ![string_find_end(b)] = NUL], 0)
ArgsAt(b) == string_find_end(b) + 1
TakesArgs(name) == name \in {<<"p">>, <<"s">>}
Args(b) == IF TakesArgs(NameOf(b)) THEN CString(b, ArgsAt(b)) ELSE <<>>

----------------------------------------------------------------------------
(* commandline_task                                                        *)

\* What the user may have typed when read() is called, as far as read() returns of
\* it: what is wholly returned, with its ends of lines, and the line of which it
\* returns the beginning or all.  Lines behind it are typed again, as it were, for
\* the next read().
Lines(rs) == FlattenSeq([i \in 1 .. Len(rs) |-> Text(rs[i])])
EndOfRest == IF rest = <<>> THEN 0 ELSE 1
Input ==
  {[whole |-> <<>>, ends |-> 0, line |-> line, last |-> t] : t \in {rest} \ {<<>>}} \cup
  {[whole |-> rest \o Lines(rs), ends |-> EndOfRest + Len(rs), line |-> r, last |-> Text(r)] :
     rs \in Ahead, r \in Requests}
Returned(in, m) == in.whole \o SubSeq(in.last, 1, m)

\* read(0, &read_buffer[read_cnt++], sizeof(read_buffer)): the address moves
\* with read_cnt, the size does not.
ReadAt == read_cnt
Full_Off(n) == n > BufLen
Full(n) == n >= BufLen
CntAfterRead(n) == IF Full(n) THEN 0 ELSE n

IsLine(in, m) == rest = <<>> /\ in.whole = <<>> /\ m = Len(in.last) /\ m < BufLen
InStepAfter(in, m) == IF inStep # "no" /\ IsLine(in, m) THEN "yes" ELSE "no"

Store(text) ==
  LET n == Len(text)
  IN IF ReadAt + n <= BufLen
     THEN /\ read_buffer' = [j \in 0 .. BufLen - 1 |->
               IF j \in ReadAt .. ReadAt + n - 1 THEN text[j - ReadAt + 1] ELSE read_buffer[j]]
          /\ read_cnt' = CntAfterRead(n) /\ phase' = "got"
     ELSE phase' = "beyond" /\ UNCHANGED buffer

read_input ==
  /\ phase = "read" /\ reads < MaxReads
  /\ \E in \in Input : \E m \in 1 .. Len(in.last) :
       /\ Len(in.whole) + m <= BufLen
       /\ Store(Returned(in, m))
       /\ line' = in.line /\ rest' = SubSeq(in.last, m + 1, Len(in.last))
       /\ newlines' = newlines + in.ends + (IF m = Len(in.last) THEN 1 ELSE 0)
       /\ inStep' = InStepAfter(in, m)
  /\ reads' = reads + 1 /\ called' = NoCommand
  /\ UNCHANGED commands

\* End of file or an error: read_cnt has been incremented all the same.
read_nothing ==
  /\ phase = "read" /\ reads < MaxReads
  /\ read_cnt' = (read_cnt + 1) % CntMod
  /\ reads' = reads + 1 /\ inStep' = "no"
  /\ UNCHANGED <<phase, read_buffer, rest, line, newlines, outcome>>

LineEnd_OrNul == {NL, NUL}
LineEnd == {NL}
LastRead == read_buffer[read_cnt - 1]
Got(chars) == phase = "got" /\ read_cnt > 0 /\ LastRead \in chars

\* read_buffer[-1] is looked at after a read() that filled the buffer.
before_buffer ==
  /\ phase = "got" /\ read_cnt = 0
  /\ phase' = "beyond" /\ UNCHANGED <<buffer, input, outcome, inStep>>

\* The line without its end.
Line == [read_buffer EXCEPT ![read_cnt - 1] = NUL]

\* MEMZERO(read_buffer) and read_cnt = 0.
ClearedBuffer_Kept == Line
ClearedBuffer == [j \in 0 .. BufLen - 1 |-> NUL]
CntAfterLine_Kept == read_cnt
CntAfterLine == 0

clear ==
  /\ read_buffer' = ClearedBuffer /\ read_cnt' = CntAfterLine /\ phase' = "read"
  /\ inStep' = IF inStep = "no" /\ rest = <<>> THEN "again" ELSE inStep

line_empty ==
  /\ Got(LineEnd) /\ Line[0] = NUL
  /\ clear /\ UNCHANGED <<input, outcome>>

commandline_process_cmd ==
  /\ Got(LineEnd) /\ Line[0] # NUL
  /\ ~TakesArgs(NameOf(Line)) \/ Terminated(Line, ArgsAt(Line))
  /\ called' \in Handler(NameOf(Line), Args(Line))
  /\ commands' = commands + (IF called' = NoCommand THEN 0 ELSE 1)
  /\ clear /\ UNCHANGED input

\* The arguments have no end in read_buffer.
process_cmd_beyond ==
  /\ Got(LineEnd) /\ Line[0] # NUL
  /\ TakesArgs(NameOf(Line)) /\ ~Terminated(Line, ArgsAt(Line))
  /\ phase' = "beyond" /\ UNCHANGED <<buffer, input, outcome, inStep>>

backspace ==
  /\ Got({BS})
  /\ read_cnt' = read_cnt - 1
  /\ read_buffer' = [read_buffer EXCEPT ![read_cnt - 1] = NUL]
  /\ phase' = "read" /\ UNCHANGED <<input, outcome, inStep>>

\* Any other character: back to read().
line_goes_on ==
  /\ phase = "got" /\ read_cnt > 0 /\ LastRead \notin LineEnd \cup {BS}
  /\ phase' = "read" /\ UNCHANGED <<buffer, input, outcome, inStep>>

----------------------------------------------------------------------------
Init ==
  /\ phase = "read" /\ read_buffer = [j \in 0 .. BufLen - 1 |-> NUL] /\ read_cnt = 0
  /\ rest = <<>> /\ line = <<>> /\ called = NoCommand /\ inStep = "again"
  /\ newlines = 0 /\ commands = 0 /\ reads = 0

commandline_task ==
  \/ read_input \/ read_nothing \/ before_buffer \/ line_empty
  \/ commandline_process_cmd \/ process_cmd_beyond \/ backspace \/ line_goes_on

Next == commandline_task

Spec == Init /\ [][Next]_vars

----------------------------------------------------------------------------
(* Properties                                                              *)

TypeOK ==
  /\ phase \in {"read", "got", "beyond"}
  /\ read_buffer \in [0 .. BufLen - 1 -> Char]
  /\ read_cnt \in 0 .. BufLen - 1 + MaxReads /\ (phase = "got" => read_cnt < BufLen)
  /\ line \in Requests \cup {<<>>} /\ rest \in Seq(Char)
  /\ called.fn \in {"none", "help", "exit", "publish", "subscribe"}
  /\ inStep \in {"yes", "no", "again"}
  /\ newlines \in Nat /\ commands \in Nat /\ reads \in 0 .. MaxReads

\* What a request asks for, word by word.
Asked(words) ==
  LET Has(n) == Len(words) >= n
      Number(n, otherwise) ==
        IF Has(n) /\ words[n] \in {<<d>> : d \in DOMAIN Digit}
        THEN {Digit[words[n][1]]} ELSE otherwise
  IN CASE words = <<>> -> {NoCommand}
       [] words # <<>> /\ words[1] = <<"h">> -> {[fn |-> "help"]}
       [] words # <<>> /\ words[1] = <<"e">> -> {[fn |-> "exit"]}
       [] Has(2) /\ words[1] = <<"p">> ->
            [fn : {"publish"}, topic : {words[2]},
             msg : {IF Has(3) THEN words[3] ELSE <<>>}, qos : Number(4, {0})]
       [] Has(2) /\ words[1] = <<"s">> ->
            [fn : {"subscribe"}, topic : {words[2]}, qos : Number(3, Garbage)]
       [] OTHER -> {NoCommand}

\* From the start, and again from any line after which the buffer was cleared
\* with nothing of it left over, every line that read() returns alone and in one
\* piece runs what was entered, with the arguments of that line and of no other.
LineHandled ==
  phase = "read" /\ inStep = "yes" => called \in Asked(line)

\* However read() cuts or joins the lines of the input, no end of a line runs two commands.
OncePerNewline == commands <= newlines

\* The thread leaves its buffer only after a read() that did not return one
\* whole line that fits.
StaysInBuffer == phase = "beyond" => inStep = "no"
=============================================================================
