---------------------------- MODULE HttpResponse ----------------------------
(***************************************************************************)
(* A response object (src/src/http/response.c) and the table of status      *)
(* texts it is built with (src/src/http/status.c), by lengths: what the     *)
(* library adds up in response->lenght while the object is filled, against  *)
(* what httpserv_http_response_build writes.                                *)
(*                                                                          *)
(* The array of headers is abstracted to its number and the total length of *)
(* its strings, the body to its length and to how much of it precedes a NUL *)
(* (text), which is where strncat stops.                                    *)
(***************************************************************************)
EXTENDS Naturals

CONSTANTS
  NewCodes, \* status codes responses are created with
  Codes,    \* status codes that are assigned later, valid or not
  Lengths,  \* lengths of keys, values and bodies
  MaxHeads  \* bound: headers added to one response

ASSUME CodesAssumption == Codes \subseteq Nat
ASSUME LengthsAssumption == Lengths \subseteq Nat

\* The array of headers is grown to as many bytes as it has pointers
\* (response.c:30): the smallest block malloc hands out has room for three, and
\* what the fourth overwrites is outside the model.
ASSUME MaxHeadsAssumption == MaxHeads \in 0 .. 3

VARIABLES
  resp,     \* the response object
  created,  \* history: the status it was created with
  result,   \* what the last httpserv_http_response_set_body returned
  raw       \* what httpserv_http_response_build has returned

vars == <<resp, created, result, raw>>

\* The codes of status.h.
Status ==
  (100 .. 101) \cup (200 .. 206) \cup (300 .. 304) \cup (307 .. 308) \cup
  (400 .. 401) \cup (403 .. 418) \cup {426} \cup (428 .. 429) \cup {431, 451} \cup
  (500 .. 506) \cup (510 .. 511)

\* strlen(httpserv_http_strstatus(s)).
TextLength[s \in Status] ==
  CASE s = 200 -> 2
    [] s = 410 -> 4
    [] s = 302 -> 5
    [] s = 201 -> 7
    [] s \in {100, 202, 409} -> 8
    [] s \in {303, 403, 404} -> 9
    [] s = 204 -> 10
    [] s \in {400, 502} -> 11
    [] s \in {304, 401, 414, 418, 510} -> 12
    [] s = 205 -> 13
    [] s = 406 -> 14
    [] s \in {206, 408, 411, 501, 504} -> 15
    [] s \in {300, 426} -> 16
    [] s \in {301, 413, 429} -> 17
    [] s \in {307, 308, 405, 417} -> 18
    [] s \in {101, 412, 503} -> 19
    [] s \in {416, 428, 500} -> 21
    [] s = 415 -> 22
    [] s = 506 -> 23
    [] s = 505 -> 26
    [] s \in {203, 407, 451} -> 29
    [] s \in {431, 511} -> 31

\* httpserv_http_response_new takes the length of the text of its status
\* without a test: for a code that has none it would follow NULL.  The
\* connection handler creates responses with 200 and 400 only.
ASSUME NewCodesAssumption == NewCodes \subseteq Status

-----------------------------------------------------------------------------
(***************************************************************************)
(* The operations on a response.                                           *)
(***************************************************************************)
\* "HTTP/1.1 ", "XXX ", the text, and two line ends.
New(s) ==
  [status |-> s, heads |-> 0, headtext |-> 0, allocated |-> FALSE,
   bodylength |-> 0, bodytext |-> 0, length |-> 9 + 4 + TextLength[s] + 4]

\* The mutated form of WithHeader: the line end is not counted.
WithBareHeader(r, k, v) ==
  [r EXCEPT !.heads = @ + 1, !.headtext = @ + k + v + 2, !.length = @ + k + v + 2]
WithHeader(r, k, v) ==
  [r EXCEPT !.heads = @ + 1, !.headtext = @ + k + v + 2, !.length = @ + k + v + 4]

\* The old body stops counting, the new one is counted; the first form takes
\* the new one off.
WithBodyTaken(r, n, text) ==
  [r EXCEPT !.allocated = TRUE, !.bodylength = n, !.bodytext = text, !.length = @ - n]
WithBody(r, n, text) ==
  [r EXCEPT !.allocated = TRUE, !.bodylength = n, !.bodytext = text,
            !.length = (@ - r.bodylength) + n]

\* realloc returns NULL: the array is gone and its length is kept.
WithoutBody(r) == [r EXCEPT !.allocated = FALSE]

WithStatus(r, s) == [r EXCEPT !.status = s]

\* What build writes: status line, headers, empty line, body.
Content(r) ==
  9 + 3 + 1 + TextLength[r.status] + 2 + (r.headtext + 2 * r.heads) + 2 + r.bodytext

NotBuilt == [kind |-> "none", len |-> 0, written |-> 0]
Refused == [kind |-> "null", len |-> 0, written |-> 0]
Crash == [kind |-> "crash", len |-> 0, written |-> 0]

\* strncat from a missing body reads NULL, unless it is to copy nothing; and
\* it ends what it writes with a NUL, one byte beyond the content.
Raw(r) ==
  IF r.status \notin Status THEN Refused
  ELSE IF ~r.allocated /\ r.bodylength > 0 THEN Crash
  ELSE [kind |-> "built", len |-> r.length, written |-> Content(r) + 1]

-----------------------------------------------------------------------------
(***************************************************************************)
(* A response is created with a code that has a text; then come any calls, *)
(* in any order, and assignments of any code.                              *)
(***************************************************************************)
Init ==
  /\ created \in NewCodes
  /\ resp = New(created)
  /\ result = 0
  /\ raw = NotBuilt

AddHeader ==
  /\ resp.heads < MaxHeads
  /\ \E k, v \in Lengths : resp' = WithHeader(resp, k, v)
  /\ UNCHANGED <<created, result, raw>>

\* realloc may fail, and realloc(body, 0) of an allocated body always returns
\* NULL, which set_body takes for a failure.
SetBody ==
  /\ \E n, text \in Lengths :
       /\ text <= n
       /\ n > 0 \/ ~resp.allocated
       /\ resp' = WithBody(resp, n, text)
  /\ result' = 0

Unnoticed == resp' = WithoutBody(resp) /\ result' = 0   \* mutated form of SetBodyFails
SetBodyFails == resp' = WithoutBody(resp) /\ result' = 1

\* Users assign the field, as the connection handler does.
SetStatus ==
  /\ \E s \in Codes : resp' = WithStatus(resp, s)
  /\ UNCHANGED <<created, result, raw>>

Build ==
  /\ raw' = Raw(resp)
  /\ UNCHANGED <<resp, created, result>>

Next ==
  /\ raw.kind # "crash"
  /\ \/ AddHeader
     \/ (SetBody \/ SetBodyFails) /\ UNCHANGED <<created, raw>>
     \/ SetStatus
     \/ Build

Spec == Init /\ [][Next]_vars

-----------------------------------------------------------------------------
(***************************************************************************)
(* Properties.                                                             *)
(***************************************************************************)
Response ==
  [status : Nat, heads : Nat, headtext : Nat, allocated : BOOLEAN,
   bodylength : Nat, bodytext : Nat, length : Nat]

RawData == [kind : {"none", "null", "crash", "built"}, len : Nat, written : Nat]

TypeOK ==
  /\ created \in Status
  /\ resp \in Response
  /\ result \in {0, 1}
  /\ raw \in RawData

\* lenght, kept up to date call by call over headers and over any
\* number of bodies that replace each other (response.c:16, 31, 40-42), is the length of
\* the content but for two things nobody tells it: the text of a status
\* assigned later, and a NUL inside the body, behind which build writes zeros.
LengthAccounted ==
  resp.status \in Status =>
    resp.length + TextLength[resp.status] + resp.bodytext
      = Content(resp) + TextLength[created] + resp.bodylength

\* build follows the missing body into NULL only when the caller has not
\* looked at what set_body returned (response.h:26-29): a failure leaves the old
\* length without the old body, and so does an empty body put over another.
CrashWasAnnounced == raw.kind = "crash" => result = 1

\* "the raw content of some response [...] and its length" (response.h:17-18).
RawLengthIsContentLength ==
  raw.kind = "built" /\ resp.bodytext = resp.bodylength => raw.len = raw.written - 1
=============================================================================
