----------------------------- MODULE ConfigFile -----------------------------
(***************************************************************************)
(* Reading a configuration file (httpserv_config_load, src/src/config.c)    *)
(* and the helpers that strip strings (src/src/stringh.c).  Characters are  *)
(* taken by what the parser tells apart; the tree of libtree is the         *)
(* sequence of what is added to it.                                         *)
(***************************************************************************)
EXTENDS Integers, Sequences, SequencesExt

CONSTANTS
  Letters,    \* characters without a meaning to the parser
  MaxChars    \* bound: characters of a file

VARIABLES
  text,       \* history: the characters read so far
  phase,      \* "load", or "line" in httpserv_config_process_line
  linebuf,    \* the line being collected
  i,          \* where its loop is, from one on
  cfg,        \* its locals label, value and label_read
  cfg_tree,   \* what has been added to the tree
  underread   \* a byte in front of a string has been read

vars == <<text, phase, linebuf, i, cfg, cfg_tree, underread>>

Newline == "nl"
Blanks == {" ", Newline}
Chars == Letters \cup Blanks \cup {"#", "="}

-----------------------------------------------------------------------------
(***************************************************************************)
(* stringh.c                                                               *)
(***************************************************************************)
\* Shifts the string until its first character is no blank.
strstriplw(s) ==
  LET first == SelectInSeq(s, LAMBDA ch : ch \notin Blanks)
  IN  IF first = 0 THEN <<>> ELSE SubSeq(s, first, Len(s))

\* Cuts the string until its last character is no blank.
strstriptw(s) == SubSeq(s, 1, SelectLastInSeq(s, LAMBDA ch : ch \notin Blanks))

strstripltw(s) == strstriptw(strstriplw(s))

\* When nothing is left, strstriptw looks at s[-1].  In the mutated form the
\* empty string alone is a problem.
ReadsBeforeEmpty(s) == s = <<>>
ReadsBefore(s) == strstripltw(s) = <<>>

-----------------------------------------------------------------------------
(***************************************************************************)
(* httpserv_config_load                                                    *)
(***************************************************************************)
\* label_read is 1 before an '=', 0 behind it, and -1 from a '#' on.
NewCfg == [label |-> <<>>, value |-> <<>>, label_read |-> 1]

Init ==
  /\ text = <<>>
  /\ phase = "load"
  /\ linebuf = <<>>
  /\ i = 1
  /\ cfg = NewCfg
  /\ cfg_tree = <<>>
  /\ underread = FALSE

\* A newline, which is part of the line, has it processed.
ReadChar(ch) ==
  /\ phase = "load" /\ Len(text) < MaxChars
  /\ text' = Append(text, ch)
  /\ linebuf' = Append(linebuf, ch)
  /\ \/ ch # Newline /\ UNCHANGED <<phase, i, cfg>>
     \/ ch = Newline /\ phase' = "line" /\ i' = 1 /\ cfg' = NewCfg
  /\ UNCHANGED <<cfg_tree, underread>>

-----------------------------------------------------------------------------
(***************************************************************************)
(* httpserv_config_process_line, a character at a time.                    *)
(***************************************************************************)
InLine == phase = "line" /\ i <= Len(linebuf)
At(ch) == linebuf[i] = ch
Stay == UNCHANGED <<text, phase, linebuf, cfg_tree, underread>>

\* break
Comment ==
  /\ InLine /\ At("#")
  /\ cfg' = [cfg EXCEPT !.label_read = -1]
  /\ i' = Len(linebuf) + 1
  /\ Stay

Assign ==
  /\ InLine /\ ~At("#") /\ cfg.label_read = 1 /\ At("=")
  /\ cfg' = [cfg EXCEPT !.label_read = 0]
  /\ i' = i + 1
  /\ Stay

LabelChar ==
  /\ InLine /\ ~At("#") /\ cfg.label_read = 1 /\ ~At("=")
  /\ cfg' = [cfg EXCEPT !.label = Append(@, linebuf[i])]
  /\ i' = i + 1
  /\ Stay

ValueChar ==
  /\ InLine /\ ~At("#") /\ cfg.label_read # 1
  /\ cfg' = [cfg EXCEPT !.value = Append(@, linebuf[i])]
  /\ i' = i + 1
  /\ Stay

KeepLine == linebuf                 \* mutated form of ClearedLine
ClearedLine == <<>>

\* Lines without an assignment and lines with a '#' add nothing.
LineEnd ==
  /\ phase = "line" /\ i > Len(linebuf)
  /\ \/ /\ cfg.label_read = 0
        /\ cfg_tree' = Append(cfg_tree, <<strstripltw(cfg.label), strstripltw(cfg.value)>>)
        /\ underread' = (underread \/ ReadsBefore(cfg.label) \/ ReadsBefore(cfg.value))
     \/ /\ cfg.label_read # 0
        /\ UNCHANGED <<cfg_tree, underread>>
  /\ linebuf' = ClearedLine
  /\ phase' = "load"
  /\ UNCHANGED <<text, i, cfg>>

Next ==
  \/ \E ch \in Chars : ReadChar(ch)
  \/ Comment
  \/ Assign
  \/ LabelChar
  \/ ValueChar
  \/ LineEnd

Spec == Init /\ [][Next]_vars

-----------------------------------------------------------------------------
(***************************************************************************)
(* Properties.                                                             *)
(***************************************************************************)
TypeOK ==
  /\ {text, linebuf} \subseteq Seq(Chars)
  /\ phase \in {"load", "line"}
  /\ i \in 1 .. (Len(text) + 1)
  /\ cfg \in [label : Seq(Chars), value : Seq(Chars), label_read : {-1, 0, 1}]
  /\ cfg_tree \in Seq(Seq(Chars) \X Seq(Chars))
  /\ underread \in BOOLEAN

\* Where the assignments of the file are: in a line that begins at first, the
\* first '=' is at sign, the newline at last.
Assignments ==
  {a \in [first : DOMAIN text, sign : DOMAIN text, last : DOMAIN text] :
     /\ a.first = 1 \/ text[a.first - 1] = Newline
     /\ a.first <= a.sign /\ text[a.sign] = "="
     /\ a.sign < a.last /\ text[a.last] = Newline
     /\ \A n \in a.first .. (a.last - 1) : text[n] \notin {Newline, "#"}
     /\ \A n \in a.first .. (a.sign - 1) : text[n] # "="}

\* t is s without the blanks around it.
Stripped(t, s) ==
  \E first \in 0 .. Len(s) : \E last \in first .. Len(s) :
    /\ t = SubSeq(s, first + 1, last)
    /\ \A n \in DOMAIN s : n <= first \/ n > last => s[n] \in Blanks
    /\ t # <<>> => t[1] \notin Blanks /\ t[Len(t)] \notin Blanks

\* What an assignment says.
Says(entry, a) ==
  /\ Stripped(entry[1], SubSeq(text, a.first, a.sign - 1))
  /\ Stripped(entry[2], SubSeq(text, a.sign + 1, a.last))

\* The tree holds exactly the assignments of the complete lines, in order,
\* whatever surrounds them: no line leaks into the next through linebuf
\* (config.c:94), and a comment takes nothing but its own line.
ConfigReadAsWritten ==
  phase = "load" => \E at \in [DOMAIN cfg_tree -> Assignments] :
    /\ Assignments = {at[n] : n \in DOMAIN at}
    /\ \A m, n \in DOMAIN at : m < n => at[m].last < at[n].first
    /\ \A n \in DOMAIN at : Says(cfg_tree[n], at[n])

\* The byte in front of a string is read for an assignment that lacks its
\* label or its value and for no other (stringh.c:24).
UnderreadOnlyForBlanks ==
  phase = "load" => (underread <=> \E a \in Assignments :
    \/ \A n \in a.first .. (a.sign - 1) : text[n] = " "
    \/ \A n \in (a.sign + 1) .. (a.last - 1) : text[n] = " ")
=============================================================================
