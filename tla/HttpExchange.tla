---------------------------- MODULE HttpExchange ----------------------------
(***************************************************************************)
(* What the server promises to each client: at most one answer, only to a   *)
(* request it has sent and only before the server is done with it, and the  *)
(* one the file of routes and the files on disk call for.                   *)
(***************************************************************************)
EXTENDS RouteTable

CONSTANTS
  Clients,
  Paths,      \* paths clients ask for, and routes lead to
  RouteFile,  \* the lines of the file of routes, in its order
  Files,      \* paths of files that can be served
  BadRequest, \* a request without a path
  Silence,    \* no request, or no answer
  Nothing     \* no contents, no location

VARIABLES
  asks,    \* what each client has asked for
  answers, \* what it has been told
  over     \* the clients the server is done with

vars == <<asks, answers, over>>

Answer(status, res, location) == [status |-> status, res |-> res, location |-> location]

\* The line that decides about a path: the last one that matches it.
Deciding(path) ==
  LET hits == {n \in DOMAIN RouteFile : Matches(RouteFile[n].pattern, path)}
  IN  {n \in hits : (\A m \in hits : m <= n) /\ RouteFile[n].to # path}

\* The contents of a file, or that there is none: a server short of
\* descriptors may say so of a file that exists.
Contents(path) ==
  {Answer(404, Nothing, Nothing)} \cup
  (IF path \in Files THEN {Answer(200, path, Nothing)} ELSE {})

Permitted(path) ==
  IF path = BadRequest THEN {}
  ELSE IF Deciding(path) = {} THEN Contents(path)
  ELSE UNION {LET r == RouteFile[n]
              IN  CASE r.kind = "alias" -> Contents(r.to)
                    [] r.kind = "redirect" -> {Answer(301, Nothing, r.to)}
                    [] r.kind = "route" -> {Answer(302, Nothing, r.to)} : n \in Deciding(path)}

Init ==
  /\ asks = [c \in Clients |-> Silence]
  /\ answers = [c \in Clients |-> Silence]
  /\ over = {}

Ask(c) ==
  /\ asks[c] = Silence
  /\ \E path \in Paths \cup {BadRequest} : asks' = [asks EXCEPT ![c] = path]
  /\ UNCHANGED <<answers, over>>

Tell(c) ==
  /\ asks[c] # Silence /\ answers[c] = Silence /\ c \notin over
  /\ \E a \in Permitted(asks[c]) : answers' = [answers EXCEPT ![c] = a]
  /\ UNCHANGED <<asks, over>>

Finish(c) ==
  /\ over' = over \cup {c}
  /\ UNCHANGED <<asks, answers>>

Next == \E c \in Clients : Ask(c) \/ Tell(c) \/ Finish(c)

Spec == Init /\ [][Next]_vars
=============================================================================
