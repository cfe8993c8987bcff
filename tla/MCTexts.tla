------------------------------ MODULE MCTexts ------------------------------
(***************************************************************************)
(* Small texts with the parsers' own characters in every place.            *)
(***************************************************************************)
EXTENDS Texts

MCLetters == {"a"}

MCSymbols ==
  {"=", ">", "|", "CR", "LF", " ", ":", "GET", "/", "[", "alias", "redirect",
   "p", "q", "k", "x", "v", "V"}

\* Lines with and without kind, target or arrow; patterns with the parser's own
\* characters, one that does not compile, and the one that matches everything.
MCRouteLines ==
  [pattern : {<<"p">>, <<"p", "=", "|">>, <<"[">>, <<>>},
   to : {<<"q">>, <<"p", "=", ">", "q">>, <<"p">>},
   kind : {"", "alias", "redirect"}]
  \cup [pattern : {<<"p">>, <<"q", "=">>}, to : {NoTarget}, kind : {""}]

MCQueries == {<<"p">>, <<"q">>, <<"q", "p", "=", "|">>, <<>>}

\* First lines with all, and with too few, of their parts.
MCRequestLines ==
  {<<"GET", " ", "/", " ", "V">>, <<"GET", " ", "/", "x", " ", "V">>,
   <<"GET", " ", " ", "V">>, <<"GET", " ", "/">>, <<"GET", " ", "/", " ">>,
   <<"GET">>, <<"x", " ", "/", " ", "V">>, <<>>}

\* Headers, one whose name continues that of another, and lines without value,
\* name, blank or colon.
MCHeaderLines ==
  {<<"k", ":", " ", "v">>, <<"k", "x", ":", " ", "v">>, <<"k", ":", "v">>,
   <<"k", ":", " ">>, <<":", " ", "v">>, <<":", " ">>, <<"k">>}

MCKeys == {<<"k">>, <<"k", "x">>}
=============================================================================
