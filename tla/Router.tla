------------------------------- MODULE Router -------------------------------
(***************************************************************************)
(* Reading the file of routes (src/src/router.c) into the table, before the *)
(* server starts.  The word behind a '|' is one symbol.  A line is a word   *)
(* of the file, because fscanf("%ms") stops at blanks.                      *)
(***************************************************************************)
EXTENDS RouteTable

CONSTANTS
  Symbols,  \* characters, and words whose characters are not told apart
  Lines,    \* lines a file of routes may have: what they are meant to say
  MaxLines, \* bound: lines of a file
  Queries,  \* paths that are looked up
  NoTarget  \* a line without "=>"

VARIABLES
  file,     \* history: the lines read so far
  scan,     \* the locals of __httpserv_parse_line
  phase,    \* "word", "parse" or "done"
  table,    \* router->head and its next fields: the routes, first to last
  router    \* "live", or "freed" or "undefined" after a file gone wrong

vars == <<file, scan, phase, table, router>>

\* "<regex>=><routesto>[|<kind>]" (README.md:77).
Text(line) ==
  line.pattern
  \o (IF line.to = NoTarget THEN <<>> ELSE <<"=", ">">> \o line.to)
  \o (IF line.kind = "" THEN <<>> ELSE <<"|", line.kind>>)

-----------------------------------------------------------------------------
(***************************************************************************)
(* __httpserv_parse_line, a character at a time.                           *)
(***************************************************************************)
Begin(line) ==
  [line |-> line, i |-> 1, pattern |-> <<>>, to |-> <<>>, kind |-> "alias",
   pattern_read |-> FALSE]

At(ch) == scan.i <= Len(scan.line) /\ scan.line[scan.i] = ch
AtArrow == At("=") /\ scan.i < Len(scan.line) /\ scan.line[scan.i + 1] = ">"
Scanning == phase = "parse" /\ scan.i <= Len(scan.line)
Keep == UNCHANGED <<file, phase, table, router>>

ReadPattern ==
  /\ Scanning /\ ~scan.pattern_read /\ ~AtArrow
  /\ scan' = [scan EXCEPT !.pattern = Append(@, scan.line[scan.i]), !.i = @ + 1]
  /\ Keep

ReadArrow ==
  /\ Scanning /\ ~scan.pattern_read /\ AtArrow
  /\ scan' = [scan EXCEPT !.pattern_read = TRUE, !.i = @ + 2]
  /\ Keep

ReadTarget ==
  /\ Scanning /\ scan.pattern_read /\ ~At("|")
  /\ scan' = [scan EXCEPT !.to = Append(@, scan.line[scan.i]), !.i = @ + 1]
  /\ Keep

\* strncmp(..., "route", 0) is 0 whatever follows; then break.
ReadKind ==
  /\ Scanning /\ scan.pattern_read /\ At("|")
  /\ scan' = [scan EXCEPT !.kind = "route", !.i = Len(scan.line) + 1]
  /\ Keep

-----------------------------------------------------------------------------
(***************************************************************************)
(* httpserv_router_parse_from_file                                         *)
(***************************************************************************)
Init ==
  /\ file = <<>>
  /\ scan = Begin(<<>>)
  /\ phase = "word"
  /\ table = <<>>
  /\ router = "live"

ReadWord(line) ==
  /\ phase = "word" /\ Len(file) < MaxLines
  /\ file' = Append(file, line)
  /\ scan' = Begin(Text(line))
  /\ phase' = "parse"
  /\ UNCHANGED <<table, router>>

LineParsed ==
  /\ phase = "parse" /\ scan.i > Len(scan.line)
  /\ Compiles(scan.pattern)
  /\ table' = AddRoute(table, [pattern |-> scan.pattern, to |-> scan.to, kind |-> scan.kind])
  /\ phase' = "word"
  /\ UNCHANGED <<file, scan, router>>

\* The router is destroyed, the rest of the file ignored, and the pointer
\* returned all the same.
LineRefused ==
  /\ phase = "parse" /\ scan.i > Len(scan.line)
  /\ ~Compiles(scan.pattern)
  /\ table' = <<>>
  /\ router' = "freed"
  /\ phase' = "done"
  /\ UNCHANGED <<file, scan>>

\* Without a single word the pointer that is freed at the end has no value.
EndOfFile ==
  /\ phase = "word"
  /\ phase' = "done"
  /\ router' = IF file = <<>> THEN "undefined" ELSE router
  /\ UNCHANGED <<file, scan, table>>

Next ==
  \/ \E line \in Lines : ReadWord(line)
  \/ ReadPattern
  \/ ReadArrow
  \/ ReadTarget
  \/ ReadKind
  \/ LineParsed
  \/ LineRefused
  \/ EndOfFile

Spec == Init /\ [][Next]_vars

-----------------------------------------------------------------------------
(***************************************************************************)
(* Properties.                                                             *)
(***************************************************************************)
Kinds == {"alias", "redirect", "route"}
Route == [pattern : Seq(Symbols), to : Seq(Symbols), kind : Kinds]

TypeOK ==
  /\ file \in Seq(Lines)
  /\ scan \in [line : Seq(Symbols), i : Nat, pattern : Seq(Symbols), to : Seq(Symbols),
               kind : Kinds, pattern_read : BOOLEAN]
  /\ phase \in {"word", "parse", "done"}
  /\ table \in Seq(Route)
  /\ router \in {"live", "freed", "undefined"}

\* What a line leads to.
Target(line) == IF line.to = NoTarget THEN <<>> ELSE line.to

\* Of the lines that match a path the last one decides where it leads, with
\* the target as it is written, whatever "=", ">" and "|" occur in pattern and
\* target; when it leads to the path itself no other line does
\* (router.c:30-31, 38-46, 113-127).
LastMatchDecides ==
  phase = "word" => \A query \in Queries :
    LET hits == {i \in DOMAIN file : Matches(file[i].pattern, query)}
        route == Lookup(table, query)
        target == Target(file[Max(hits)])
    IN  IF hits = {} \/ target = query THEN route = NoRoute
        ELSE route # NoRoute /\ route.to = target

\* A file whose patterns all compile gives a router with every line of it.
GoodFileGivesRouter ==
  phase = "done" /\ file # <<>> /\ (\A i \in DOMAIN file : Compiles(file[i].pattern)) =>
    router = "live" /\ Len(table) = Len(file)

\* A line that names a kind gives a route of this kind (README.md:78-84).
KindsAsDocumented ==
  phase = "word" => \A i \in DOMAIN file :
    file[i].kind \in {"", table[Len(file) + 1 - i].kind}
=============================================================================
