---------------------------- MODULE MCHttpWorker ----------------------------
(***************************************************************************)
(* Paths for each way a request can go, and two routes that overlap.       *)
(***************************************************************************)
EXTENDS HttpWorker

Page == <<"p">>
Index == <<"p", "q">>

MCRoutes ==
  <<[pattern |-> <<"q">>, to |-> Page, kind |-> "alias"],
    [pattern |-> <<"r">>, to |-> Page, kind |-> "redirect"],
    [pattern |-> <<"r", "q">>, to |-> <<"r", "q">>, kind |-> "route"],
    [pattern |-> <<"s">>, to |-> Index, kind |-> "route"]>>

MCFiles == {Page}
MCEmpty == {<<"r", "q">>}

RequestList ==
  <<[path |-> Index, body |-> "none"], [path |-> <<"s">>, body |-> "some"],
    [path |-> <<"r", "q">>, body |-> "none"],
    [path |-> Page, body |-> "zero"], [path |-> BadRequest, body |-> "none"],
    [path |-> Page, body |-> "vast"]>>

MCRequests == Range(RequestList)

\* Pairs of requests in one order: nothing tells the clients apart.  The three
\* requests that are never answered meet only the first two.
MCTalks ==
  LET first == CHOOSE c \in Clients : TRUE
  IN  {t \in [Clients -> MCRequests] :
         \E m, n \in DOMAIN RequestList :
           /\ m <= n /\ (n > 3 => m <= 2)
           /\ \A c \in Clients : t[c] = RequestList[IF c = first THEN m ELSE n]}
=============================================================================
