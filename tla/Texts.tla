------------------------------- MODULE Texts -------------------------------
(***************************************************************************)
(* The sequential parts of the program that take texts apart or put them    *)
(* together: each behaviour is one of a response, a request, a              *)
(* configuration file or a file of routes (what).                           *)
(***************************************************************************)
EXTENDS HttpResponse, Sequences

CONSTANTS
  Letters, MaxChars,                              \* ConfigFile
  RouteLines, MaxRoutes, Queries, NoRoute, NoTarget, \* Router
  RequestLines, HeaderLines, MaxHeaders, Keys, NoHeader, \* HttpRequest
  Symbols                                         \* what routes and requests consist of

VARIABLES
  what,
  text, loading, linebuf, pos, cfg, cfg_tree, underread, \* ConfigFile
  file, scan, reading, table, router,            \* Router
  sent, content, parsing, here, req, header      \* HttpRequest

cfgVars == <<text, loading, linebuf, pos, cfg, cfg_tree, underread>>
routeVars == <<file, scan, reading, table, router>>
reqVars == <<sent, content, parsing, here, req, header>>

Config == INSTANCE ConfigFile WITH phase <- loading, i <- pos
Routes == INSTANCE Router WITH Lines <- RouteLines, MaxLines <- MaxRoutes, phase <- reading
Request == INSTANCE HttpRequest WITH MaxLines <- MaxHeaders, phase <- parsing, i <- here

ASSUME SymbolsAssumption ==
  {"=", ">", "|", "CR", "LF", " ", ":", "GET"} \subseteq Symbols

\* How a line of routes is written, not which lines there are: the pattern ends
\* where the first "=>" begins, the target where the first "|" behind it does,
\* and in a line without "=>" everything is pattern.
ASSUME RoutesAssumption ==
  /\ \A line \in RouteLines :
       /\ line.pattern \in Seq(Symbols) /\ line.kind \in Symbols \cup {""}
       /\ \A n \in DOMAIN line.pattern :
            line.pattern[n] = "=" => n = Len(line.pattern) \/ line.pattern[n + 1] # ">"
       /\ \/ line.to = NoTarget /\ line.kind = ""
          \/ line.to \in Seq(Symbols) /\ \A n \in DOMAIN line.to : line.to[n] # "|"
  /\ NoRoute \notin Routes!Route /\ NoTarget \notin Seq(Symbols)

\* A line of a request is what lies between two line ends.
ASSUME RequestAssumption ==
  /\ \A line \in RequestLines \cup HeaderLines :
       /\ line \in Seq(Symbols)
       /\ \A n \in DOMAIN line : line[n] = "CR" => n = Len(line) \/ line[n + 1] # "LF"
  /\ Keys \subseteq Seq(Symbols)
  /\ NoHeader \notin Seq(Symbols)

TextsInit ==
  /\ what \in {"response", "config", "routes", "request"}
  /\ Init
  /\ what # "response" => created = 200
  /\ Config!Init
  /\ Routes!Init
  /\ Request!Init

TextsNext ==
  /\ UNCHANGED what
  /\ \/ what = "response" /\ Next /\ UNCHANGED <<cfgVars, routeVars, reqVars>>
     \/ what = "config" /\ Config!Next /\ UNCHANGED <<vars, routeVars, reqVars>>
     \/ what = "routes" /\ Routes!Next /\ UNCHANGED <<vars, cfgVars, reqVars>>
     \/ what = "request" /\ Request!Next /\ UNCHANGED <<vars, cfgVars, routeVars>>

TextsSpec == TextsInit /\ [][TextsNext]_<<what, vars, cfgVars, routeVars, reqVars>>

-----------------------------------------------------------------------------
\* The type invariants of the four modules.
TextsTypeOK == TypeOK /\ Config!TypeOK /\ Routes!TypeOK /\ Request!TypeOK

\* What the modules say about config.c and stringh.c,
ConfigReadAsWritten == Config!ConfigReadAsWritten
UnderreadOnlyForBlanks == Config!UnderreadOnlyForBlanks

\* about router.c,
LastMatchDecides == Routes!LastMatchDecides
GoodFileGivesRouter == Routes!GoodFileGivesRouter
KindsAsDocumented == Routes!KindsAsDocumented

\* and about request.c.
RequestReadAsSent == Request!RequestReadAsSent
HeadersWereSent == Request!HeadersWereSent
HeaderFound == Request!HeaderFound
=============================================================================
