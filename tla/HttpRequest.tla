---------------------------- MODULE HttpRequest ----------------------------
(***************************************************************************)
(* The head of a request: the loop of the connection handler that reads it  *)
(* (src/src/net/server.c:51-67), the parser (httpserv_http_request_from_raw,*)
(* src/src/http/request.c:68-155) and the search for a header (180-193).    *)
(*                                                                          *)
(* A symbol is a character, or a word whose characters are not told apart:  *)
(* "GET" is any of the eight methods of request.h.  Positions are those of  *)
(* the code plus one.                                                       *)
(***************************************************************************)
EXTENDS Naturals, Sequences, SequencesExt

CONSTANTS
  Symbols,      \* characters and words
  RequestLines, \* first lines clients send, as sequences of symbols
  HeaderLines,  \* header lines clients send
  MaxLines,     \* bound: header lines of a request
  Keys,         \* keys that are looked up
  NoHeader      \* NULL

VARIABLES
  sent,     \* history: the lines of the request, without their line ends
  content,  \* rawreq->content
  phase,    \* "reading", the loop of the parser that runs, "parsed", "refused"
  i,        \* where this loop is
  req,      \* smethod and the request under construction
  header    \* key, value and keyread

vars == <<sent, content, phase, i, req, header>>

CRLF == <<"CR", "LF">>
NoKey == [key |-> <<>>, value |-> <<>>, keyread |-> FALSE]

Init ==
  /\ sent = <<>>
  /\ content = <<>>
  /\ phase = "reading"
  /\ i = 1
  /\ req = [smethod |-> <<>>, path |-> <<>>, headers |-> <<>>]
  /\ header = NoKey

-----------------------------------------------------------------------------
(***************************************************************************)
(* Reading.  The loop tests after each byte; only the last one of a line   *)
(* can end it.  It wants five bytes at least.                              *)
(***************************************************************************)
Complete(bytes) == Len(bytes) >= 5 /\ IsSuffix(CRLF \o CRLF, bytes)

Receive(line) ==
  /\ phase = "reading"
  /\ sent' = Append(sent, line)
  /\ content' = content \o line \o CRLF
  /\ phase' = IF Complete(content') THEN "method" ELSE "reading"
  /\ UNCHANGED <<i, req, header>>

ReceiveSome ==
  \/ sent = <<>> /\ \E line \in RequestLines : Receive(line)
  \/ sent # <<>> /\ Len(sent) <= MaxLines /\ \E line \in HeaderLines : Receive(line)
  \/ sent # <<>> /\ Receive(<<>>)

-----------------------------------------------------------------------------
(***************************************************************************)
(* The parser: four loops over the content.                                *)
(***************************************************************************)
\* The content is followed by a NUL.
At(n) == IF n <= Len(content) THEN content[n] ELSE "NUL"
Byte == At(i)
AtCRLF == Byte = "CR" /\ At(i + 1) = "LF"
InLoop(loop) == phase = loop /\ i <= Len(content)
Skip(n) == i' = i + n
Refuse == phase' = "refused" /\ UNCHANGED <<sent, content, i, req, header>>

MethodChar ==
  /\ InLoop("method") /\ Byte # " "
  /\ req' = [req EXCEPT !.smethod = Append(@, Byte)]
  /\ Skip(1)
  /\ UNCHANGED <<sent, content, phase, header>>

\* httpserv_http_strtomethod compares the whole word.
MethodEnd ==
  /\ phase = "method"
  /\ i > Len(content) \/ Byte = " "
  /\ \/ req.smethod # <<"GET">> /\ Refuse
     \/ /\ req.smethod = <<"GET">>
        /\ phase' = "path"
        /\ Skip(1)
        /\ UNCHANGED <<sent, content, req, header>>

PathChar ==
  /\ InLoop("path") /\ i < Len(content) /\ Byte # " "
  /\ req' = [req EXCEPT !.path = Append(@, Byte)]
  /\ Skip(1)
  /\ UNCHANGED <<sent, content, phase, header>>

\* pos is counted up twice, so that the next loop misses a character.
PathEnd ==
  /\ InLoop("path") /\ i < Len(content) /\ Byte = " "
  /\ phase' = "version"
  /\ Skip(2)
  /\ UNCHANGED <<sent, content, req, header>>

PathUnended == InLoop("path") /\ i = Len(content) /\ Refuse

Version ==
  /\ phase = "version"
  /\ \/ InLoop("version") /\ ~AtCRLF /\ Skip(1) /\ UNCHANGED phase
     \/ InLoop("version") /\ AtCRLF /\ Skip(2) /\ phase' = "headers"
     \/ i > Len(content) /\ Skip(0) /\ phase' = "headers"
  /\ UNCHANGED <<sent, content, req, header>>

-----------------------------------------------------------------------------
\* The loop over the headers; it may not use the last byte.
InHeaders == InLoop("headers") /\ i < Len(content)
HeadEnds == header.key = <<>> /\ header.value = <<>> /\ AtCRLF
AtColon == Byte = ":" /\ At(i + 1) = " "

HeadersEnd ==
  /\ phase = "headers"
  /\ \/ i > Len(content)
     \/ InHeaders /\ HeadEnds
  /\ phase' = "parsed"
  /\ UNCHANGED <<sent, content, i, req, header>>

HeadersUnended == InLoop("headers") /\ i = Len(content) /\ Refuse

KeyChar ==
  /\ InHeaders /\ ~HeadEnds /\ ~header.keyread /\ ~AtColon
  /\ header' = [header EXCEPT !.key = Append(@, Byte)]
  /\ Skip(1)
  /\ UNCHANGED <<sent, content, phase, req>>

KeyEnd ==
  /\ InHeaders /\ ~HeadEnds /\ ~header.keyread /\ AtColon
  /\ header' = [header EXCEPT !.keyread = TRUE]
  /\ Skip(2)
  /\ UNCHANGED <<sent, content, phase, req>>

ValueChar ==
  /\ InHeaders /\ ~HeadEnds /\ header.keyread /\ ~AtCRLF
  /\ header' = [header EXCEPT !.value = Append(@, Byte)]
  /\ Skip(1)
  /\ UNCHANGED <<sent, content, phase, req>>

\* httpserv_http_request_add_header
Formatted(key, value) == key \o <<":", " ">> \o value
\* KeepKey and KeepValue are mutated forms of Cleared.
KeepKey == [header EXCEPT !.value = <<>>, !.keyread = FALSE]
KeepValue == [header EXCEPT !.key = <<>>, !.keyread = FALSE]
Cleared == NoKey

ValueEnd ==
  /\ InHeaders /\ ~HeadEnds /\ header.keyread /\ AtCRLF
  /\ req' = [req EXCEPT !.headers = Append(@, Formatted(header.key, header.value))]
  /\ header' = Cleared
  /\ Skip(2)
  /\ UNCHANGED <<sent, content, phase>>

Parse ==
  \/ MethodChar
  \/ MethodEnd
  \/ PathChar
  \/ PathEnd
  \/ PathUnended
  \/ Version
  \/ HeadersEnd
  \/ HeadersUnended
  \/ KeyChar
  \/ KeyEnd
  \/ ValueChar
  \/ ValueEnd

Next == ReceiveSome \/ Parse

Spec == Init /\ [][Next]_vars

-----------------------------------------------------------------------------
(***************************************************************************)
(* httpserv_http_request_get_header: the first header that begins with the *)
(* key, from two characters behind it on.  The first form is one character  *)
(* short of it.                                                            *)
(***************************************************************************)
GetHeaderWithBlank(headers, key) ==
  LET n == SelectInSeq(headers, LAMBDA h : IsPrefix(key, h))
  IN  IF n = 0 THEN NoHeader
      ELSE SubSeq(headers[n], Len(key) + 2, Len(headers[n]))

GetHeader(headers, key) ==
  LET n == SelectInSeq(headers, LAMBDA h : IsPrefix(key, h))
  IN  IF n = 0 THEN NoHeader
      ELSE SubSeq(headers[n], Len(key) + 3, Len(headers[n]))

-----------------------------------------------------------------------------
(***************************************************************************)
(* Properties.                                                             *)
(***************************************************************************)
TypeOK ==
  /\ sent \in Seq(RequestLines \cup HeaderLines \cup {<<>>})
  /\ content \in Seq(Symbols)
  /\ phase \in {"reading", "method", "path", "version", "headers", "parsed", "refused"}
  /\ i \in 1 .. (Len(content) + 2)
  /\ req \in [smethod : Seq(Symbols), path : Seq(Symbols), headers : Seq(Seq(Symbols))]
  /\ header \in [key : Seq(Symbols), value : Seq(Symbols), keyread : BOOLEAN]

\* What the client meant: a method, a path without blanks and a version between
\* blanks, and headers with a name, a colon, a blank and perhaps a value.
SaysPath(path) == \E version \in Symbols : sent[1] = <<"GET", " ">> \o path \o <<" ", version>>
IsHeader(line) == Len(line) > 2 /\ line[1] # ":" /\ \E n \in DOMAIN line :
                    n < Len(line) /\ line[n] = ":" /\ line[n + 1] = " "
Named(line, key) == IsPrefix(Formatted(key, <<>>), line)

WellFormed ==
  /\ \E n \in DOMAIN sent[1] :
       SaysPath(SubSeq(sent[1], 3, n)) /\ \A m \in 3 .. n : sent[1][m] # " "
  /\ \A n \in 2 .. (Len(sent) - 1) : IsHeader(sent[n])

\* A well-formed request is read as it was sent, path and headers, in order,
\* and never refused: no step of one or of two characters in the four loops
\* (request.c:73-148) passes over anything, the end of the head is recognised
\* behind any header, and nothing is left of one header when the next begins
\* (143-144).
RequestReadAsSent ==
  phase \in {"parsed", "refused"} /\ WellFormed =>
    /\ phase = "parsed"
    /\ SaysPath(req.path)
    /\ req.headers = SubSeq(sent, 2, Len(sent) - 1)

\* Also from a request that is not well-formed, whatever lines it runs
\* together, the parser keeps only text the client has sent in one piece, and
\* it keeps the headers in the order in which they were sent.
HeadersWereSent ==
  phase # "refused" =>
  \E at \in [DOMAIN req.headers -> DOMAIN content] :
    /\ \A n \in DOMAIN at : IsPrefix(req.headers[n] \o CRLF, SubSeq(content, at[n], Len(content)))
    /\ \A n, m \in DOMAIN at : n < m => at[n] + Len(req.headers[n]) < at[m]

\* The value that is found is that of the first header of this name, unless a
\* header whose name only begins with the key comes first (request.c:186).
HeaderFound ==
  phase = "parsed" => \A key \in Keys :
    LET named == SelectInSeq(req.headers, LAMBDA h : Named(h, key))
        similar == SelectInSeq(req.headers, LAMBDA h : IsPrefix(key, h) /\ ~Named(h, key))
        found == GetHeader(req.headers, key)
    IN  /\ found = NoHeader <=> named = 0 /\ similar = 0
        /\ named # 0 /\ (similar = 0 \/ named < similar) =>
             Formatted(key, found) = req.headers[named]
=============================================================================
