----------------------------- MODULE TextProofs -----------------------------
(***************************************************************************)
(* Proofs about the response object and about the readers of the file of    *)
(* routes and of the configuration file, for texts of any length.           *)
(***************************************************************************)
EXTENDS Texts, SequenceLemmas, Integers

(***************************************************************************)
(* The response object: whatever calls are made, in whatever order, the     *)
(* length it keeps is accounted for.                                        *)
(*                                                                          *)
(* The type invariant is not inductive: set_body subtracts the length of    *)
(* the old body, and only the account of what has been added so far says    *)
(* that there is as much to subtract from.                                  *)
(***************************************************************************)
\* The length is what the response was created with, plus headers and body.
Account ==
  resp.length = 17 + TextLength[created] + (resp.headtext + 2 * resp.heads) + resp.bodylength

\* A length without a body is the sign of a failure.
MissingBody == ~resp.allocated /\ resp.bodylength > 0 => result = 1

ResponseInv == TypeOK /\ Account /\ MissingBody /\ CrashWasAnnounced

\* The table of status.c has a text for every valid code.
LEMMA TextLengthNat ==
  ASSUME NEW s \in Status
  PROVE  TextLength[s] \in Nat
BY DEF TextLength, Status

\* Codes are numbers.
LEMMA StatusNat == Status \subseteq Nat
BY DEF Status

LEMMA ResponseInit == Init => ResponseInv
<1> SUFFICES ASSUME Init PROVE ResponseInv
  OBVIOUS
<1>1. created \in Status /\ created \in Nat
  BY StatusNat, NewCodesAssumption DEF Init
<1>2. TextLength[created] \in Nat
  BY <1>1, TextLengthNat
<1>3. resp = [status |-> created, heads |-> 0, headtext |-> 0, allocated |-> FALSE,
              bodylength |-> 0, bodytext |-> 0, length |-> 9 + 4 + TextLength[created] + 4]
  BY DEF Init, New
<1>4. TypeOK
  BY <1>1, <1>2, <1>3 DEF Init, TypeOK, Response, RawData, NotBuilt
<1>5. Account /\ MissingBody /\ CrashWasAnnounced
  BY <1>2, <1>3 DEF Init, Account, MissingBody, CrashWasAnnounced, NotBuilt
<1> QED
  BY <1>4, <1>5 DEF ResponseInv

\* Each call keeps the account.
LEMMA ResponseNext == ResponseInv /\ [Next]_vars => ResponseInv'
<1> SUFFICES ASSUME ResponseInv, [Next]_vars PROVE ResponseInv'
  OBVIOUS
<1> USE DEF ResponseInv
<1>1. /\ resp.heads \in Nat /\ resp.headtext \in Nat /\ resp.bodylength \in Nat
      /\ resp.bodytext \in Nat /\ resp.length \in Nat /\ resp.allocated \in BOOLEAN
      /\ resp \in Response /\ created \in Status /\ result \in {0, 1} /\ raw \in RawData
      /\ TextLength[created] \in Nat
  BY TextLengthNat DEF TypeOK, Response
<1>2. CASE AddHeader
  <2>1. PICK k \in Lengths, v \in Lengths : resp' = WithHeader(resp, k, v)
    BY <1>2 DEF AddHeader
  <2>2. k \in Nat /\ v \in Nat
    BY LengthsAssumption
  <2>3. /\ resp' \in Response
        /\ resp'.heads = resp.heads + 1 /\ resp'.headtext = resp.headtext + k + v + 2
        /\ resp'.length = resp.length + k + v + 4
        /\ resp'.bodylength = resp.bodylength /\ resp'.allocated = resp.allocated
    <3>1. resp' = [status |-> resp.status, heads |-> resp.heads + 1,
                   headtext |-> resp.headtext + k + v + 2, allocated |-> resp.allocated,
                   bodylength |-> resp.bodylength, bodytext |-> resp.bodytext,
                   length |-> resp.length + k + v + 4]
      BY <1>1, <2>1 DEF WithHeader, Response
    <3> QED
      BY <1>1, <2>2, <3>1 DEF Response
  <2>4. UNCHANGED <<created, result, raw>>
    BY <1>2 DEF AddHeader
  <2>5. Account'
    BY <1>1, <2>2, <2>3, <2>4 DEF Account
  <2> QED
    BY <1>1, <2>3, <2>4, <2>5 DEF TypeOK, MissingBody, CrashWasAnnounced
<1>3. CASE SetBody /\ UNCHANGED <<created, raw>> /\ raw.kind # "crash"
  <2>1. PICK n \in Lengths, entity \in Lengths : resp' = WithBody(resp, n, entity)
    BY <1>3 DEF SetBody
  <2>2. n \in Nat /\ entity \in Nat
    BY LengthsAssumption
  <2>3. resp.length - resp.bodylength \in Nat
    BY <1>1 DEF Account
  <2>4. /\ resp' \in Response
        /\ resp'.heads = resp.heads /\ resp'.headtext = resp.headtext
        /\ resp'.length = (resp.length - resp.bodylength) + n
        /\ resp'.bodylength = n /\ resp'.allocated = TRUE
    <3>1. resp' = [status |-> resp.status, heads |-> resp.heads, headtext |-> resp.headtext,
                   allocated |-> TRUE, bodylength |-> n, bodytext |-> entity,
                   length |-> (resp.length - resp.bodylength) + n]
      BY <1>1, <2>1 DEF WithBody, Response
    <3> QED
      BY <1>1, <2>2, <2>3, <3>1 DEF Response
  <2>5. Account'
    BY <1>1, <1>3, <2>2, <2>4 DEF Account
  <2> QED
    BY <1>1, <1>3, <2>4, <2>5 DEF TypeOK, MissingBody, CrashWasAnnounced, SetBody
<1>4. CASE SetBodyFails /\ UNCHANGED <<created, raw>>
  <2>1. /\ resp' \in Response
        /\ resp'.heads = resp.heads /\ resp'.headtext = resp.headtext
        /\ resp'.length = resp.length /\ resp'.bodylength = resp.bodylength
    BY <1>1, <1>4 DEF SetBodyFails, WithoutBody, Response
  <2>2. Account'
    BY <1>1, <1>4, <2>1 DEF Account
  <2> QED
    BY <1>1, <1>4, <2>1, <2>2 DEF TypeOK, MissingBody, CrashWasAnnounced, SetBodyFails
<1>5. CASE SetStatus
  <2>1. PICK s \in Codes : resp' = WithStatus(resp, s)
    BY <1>5 DEF SetStatus
  <2>2. s \in Nat
    BY CodesAssumption
  <2>3. /\ resp' \in Response
        /\ resp'.heads = resp.heads /\ resp'.headtext = resp.headtext
        /\ resp'.length = resp.length /\ resp'.bodylength = resp.bodylength
        /\ resp'.allocated = resp.allocated
    BY <1>1, <2>1, <2>2 DEF WithStatus, Response
  <2>4. UNCHANGED <<created, result, raw>>
    BY <1>5 DEF SetStatus
  <2>5. Account'
    BY <1>1, <2>3, <2>4 DEF Account
  <2> QED
    BY <1>1, <2>3, <2>4, <2>5 DEF TypeOK, MissingBody, CrashWasAnnounced
<1>6. CASE Build
  <2>1. raw' = Raw(resp) /\ UNCHANGED <<resp, created, result>>
    BY <1>6 DEF Build
  <2>2. resp.status \in Status => Content(resp) + 1 \in Nat
    BY <1>1, TextLengthNat DEF Content
  <2>3. raw' \in RawData
    BY <1>1, <2>1, <2>2 DEF Raw, RawData, Refused, Crash
  <2>4. raw'.kind = "crash" => ~resp.allocated /\ resp.bodylength > 0
    BY <2>1 DEF Raw, Refused, Crash
  <2> QED
    BY <1>1, <2>1, <2>3, <2>4 DEF TypeOK, Account, MissingBody, CrashWasAnnounced
<1>7. CASE UNCHANGED vars
  BY <1>7 DEF vars, TypeOK, Account, MissingBody, CrashWasAnnounced
<1> QED
  BY <1>2, <1>3, <1>4, <1>5, <1>6, <1>7 DEF Next

\* The account, the mark a failure leaves, and the types hold in every
\* reachable state.
LEMMA ResponseAlways == Spec => []ResponseInv
BY ResponseInit, ResponseNext, PTL DEF Spec

\* Types: in particular no length ever falls below zero, although set_body
\* subtracts (response.c:42).
THEOREM ResponseTypeCorrect == Spec => []TypeOK
<1>1. ResponseInv => TypeOK
  BY DEF ResponseInv
<1> QED
  BY <1>1, ResponseAlways, PTL

\* For every set of codes and lengths, the length the object keeps is that of
\* what build writes, but for a status assigned later and a NUL in the body.
THEOREM LengthCorrect == Spec => []LengthAccounted
<1>1. ResponseInv => LengthAccounted
  <2> SUFFICES ASSUME ResponseInv, resp.status \in Status
               PROVE  resp.length + TextLength[resp.status] + resp.bodytext
                        = Content(resp) + TextLength[created] + resp.bodylength
    BY DEF LengthAccounted
  <2>1. /\ resp.heads \in Nat /\ resp.headtext \in Nat /\ resp.bodylength \in Nat
        /\ resp.bodytext \in Nat /\ TextLength[created] \in Nat
        /\ TextLength[resp.status] \in Nat
    BY TextLengthNat DEF ResponseInv, TypeOK, Response
  <2> QED
    BY <2>1 DEF ResponseInv, Account, Content
<1> QED
  BY <1>1, ResponseAlways, PTL

\* build reads a missing body only after a call of set_body that has failed.
THEOREM CrashAnnounced == Spec => []CrashWasAnnounced
<1>1. ResponseInv => CrashWasAnnounced
  BY DEF ResponseInv
<1> QED
  BY <1>1, ResponseAlways, PTL

-----------------------------------------------------------------------------
(***************************************************************************)
(* The file of routes.                                                     *)
(***************************************************************************)
\* A text that is put together from three others.
LEMMA ThreePieces ==
  ASSUME NEW S, NEW s \in Seq(S), NEW t \in Seq(S), NEW u \in Seq(S)
  PROVE  /\ s \o t \o u \in Seq(S) /\ Len(s \o t \o u) = Len(s) + Len(t) + Len(u)
         /\ \A n \in 1..Len(s) : (s \o t \o u)[n] = s[n]
         /\ \A n \in 1..Len(t) : (s \o t \o u)[Len(s) + n] = t[n]
         /\ \A n \in 1..Len(u) : (s \o t \o u)[Len(s) + Len(t) + n] = u[n]
<1> DEFINE v == s \o t
           w == v \o u
           a == Len(s)
           b == Len(t)
           c == Len(u)
<1>1. a \in Nat /\ b \in Nat /\ c \in Nat
  BY LenProperties
<1>2. /\ v \in Seq(S) /\ Len(v) = a + b
      /\ \A n \in 1..a + b : v[n] = IF n <= a THEN s[n] ELSE t[n - a]
  BY ConcatProperties
<1> HIDE DEF v
<1>3. /\ w \in Seq(S) /\ Len(w) = (a + b) + c
      /\ \A n \in 1..(a + b) + c : w[n] = IF n <= a + b THEN v[n] ELSE u[n - (a + b)]
  <2>1. v \in Seq(S)
    BY <1>2
  <2>2. /\ w \in Seq(S) /\ Len(w) = Len(v) + Len(u)
        /\ \A n \in 1..Len(v) + Len(u) : w[n] = IF n <= Len(v) THEN v[n] ELSE u[n - Len(v)]
    BY <2>1, ConcatProperties, Zenon
  <2> QED
    BY <1>2, <2>2
<1> HIDE DEF w, a, b, c
<1>4. ASSUME NEW n \in 1..a PROVE w[n] = s[n]
  BY <1>1, <1>2, <1>3
<1>5. ASSUME NEW n \in 1..b PROVE w[a + n] = t[n]
  <2>1. a + n \in 1..a + b /\ a + n \in 1..(a + b) + c /\ ~(a + n <= a) /\ (a + n) - a = n
    BY <1>1
  <2> QED
    BY <1>2, <1>3, <2>1
<1>6. ASSUME NEW n \in 1..c PROVE w[a + b + n] = u[n]
  <2>1. /\ a + b + n \in 1..(a + b) + c /\ ~(a + b + n <= a + b)
        /\ (a + b + n) - (a + b) = n
    BY <1>1
  <2> QED
    BY <1>3, <2>1
<1> QED
  BY <1>3, <1>4, <1>5, <1>6 DEF v, w, a, b, c

\* The shape of a text of a line, character by character.
Shape(T, P, to, p, q) ==
  /\ T \in Seq(Symbols) /\ P \in Seq(Symbols) /\ Len(P) = p
  /\ \A n \in 1..p : T[n] = P[n]
  /\ \A n \in 1..p : ~(T[n] = "=" /\ T[n + 1] = ">" /\ n < Len(T))
  /\ to = NoTarget => Len(T) = p
  /\ to # NoTarget =>
       /\ to \in Seq(Symbols) /\ Len(to) = q
       /\ T[p + 1] = "=" /\ T[p + 2] = ">"
       /\ \A n \in 1..q : T[p + 2 + n] = to[n] /\ to[n] # "|"
       /\ \/ Len(T) = p + 2 + q
          \/ Len(T) > p + 2 + q /\ T[p + 2 + q + 1] = "|"

LEMMA TextOfLine ==
  ASSUME NEW line \in RouteLines
  PROVE  \E p, q \in Nat : Shape(Routes!Text(line), line.pattern, line.to, p, q)
<1>1. PICK P \in Seq(Symbols) : P = line.pattern
  BY RoutesAssumption
<1>2. PICK p \in Nat : /\ Len(P) = p
                     /\ \A n \in 1..p : P[n] = "=" => n = p \/ P[n + 1] # ">"
  BY <1>1, RoutesAssumption, LenProperties
<1>3. CASE line.to = NoTarget
  <2>1. line.kind = ""
    BY <1>3, RoutesAssumption
  <2>2. Routes!Text(line) = P \o <<>> \o <<>>
    BY <1>1, <1>3, <2>1 DEF Routes!Text
  <2>3. Routes!Text(line) = P
    BY <2>2, ConcatEmptySeq
  <2>4. Shape(Routes!Text(line), P, line.to, p, 0)
    BY <1>1, <1>2, <1>3, <2>3 DEF Shape
  <2> QED
    BY <1>1, <2>4
<1>4. CASE line.to # NoTarget
  <2>1. PICK to \in Seq(Symbols) : to = line.to
    BY <1>4, RoutesAssumption
  <2>2. PICK q \in Nat : Len(to) = q /\ \A n \in 1..q : to[n] # "|"
    BY <1>4, <2>1, RoutesAssumption, LenProperties
  <2>3. PICK sign \in Seq(Symbols) : sign = <<"=", ">">>
    <3>1. "=" \in Symbols /\ ">" \in Symbols
      BY SymbolsAssumption
    <3>2. <<"=", ">">> \in Seq(Symbols)
      BY <3>1
    <3> QED
      BY <3>2
  <2>4. Len(sign) = 2 /\ sign[1] = "=" /\ sign[2] = ">"
    BY <2>3
  <2> DEFINE bar == IF line.kind = "" THEN <<>> ELSE <<"|", line.kind>>
  <2>5. bar \in Seq(Symbols) /\ (Len(bar) = 0 \/ (Len(bar) = 2 /\ bar[1] = "|"))
    <3>1. CASE line.kind = ""
      <4>1. bar = <<>>
        BY <3>1
      <4>2. <<>> \in Seq(Symbols) /\ Len(<<>>) = 0
        OBVIOUS
      <4> HIDE DEF bar
      <4> QED
        BY <4>1, <4>2, Zenon
    <3>2. CASE line.kind # ""
      <4>1. bar = <<"|", line.kind>> /\ line.kind \in Symbols /\ "|" \in Symbols
        BY <3>2, RoutesAssumption, SymbolsAssumption
      <4> HIDE DEF bar
      <4>2. /\ <<"|", line.kind>> \in Seq(Symbols) /\ Len(<<"|", line.kind>>) = 2
            /\ <<"|", line.kind>>[1] = "|"
        BY <4>1
      <4> QED
        BY <4>1, <4>2, Zenon
    <3> QED
      BY <3>1, <3>2
  <2>6. PICK arrow \in Seq(Symbols) : arrow = sign \o to
    BY ConcatProperties
  <2>7. PICK T \in Seq(Symbols) : T = P \o arrow \o bar
    BY <2>5, ConcatProperties
  <2>8. Routes!Text(line) = T
    BY <1>1, <1>4, <2>1, <2>3, <2>5, <2>6, <2>7 DEF Routes!Text, bar
  <2> HIDE DEF bar
  <2>9. Len(arrow) = 2 + q /\ \A n \in 1..2 + q : arrow[n] = IF n <= 2 THEN sign[n] ELSE to[n - 2]
    <3>1. /\ Len(arrow) = Len(sign) + Len(to)
          /\ \A n \in 1..Len(sign) + Len(to) :
               arrow[n] = IF n <= Len(sign) THEN sign[n] ELSE to[n - Len(sign)]
      BY <2>6, ConcatProperties, Zenon
    <3> QED
      BY <2>2, <2>4, <3>1
  <2>10. PICK c \in Nat : Len(bar) = c
    BY <2>5, LenProperties
  <2>11. /\ Len(T) = p + (2 + q) + c
         /\ \A n \in 1..p : T[n] = P[n]
         /\ \A n \in 1..2 + q : T[p + n] = arrow[n]
         /\ \A n \in 1..c : T[p + (2 + q) + n] = bar[n]
    <3>1. 2 + q \in Nat
      OBVIOUS
    <3> DEFINE w == P \o arrow \o bar
    <3>2. /\ Len(w) = Len(P) + Len(arrow) + Len(bar)
          /\ \A n \in 1..Len(P) : w[n] = P[n]
          /\ \A n \in 1..Len(arrow) : w[Len(P) + n] = arrow[n]
          /\ \A n \in 1..Len(bar) : w[Len(P) + Len(arrow) + n] = bar[n]
      <4>1. P \in Seq(Symbols) /\ arrow \in Seq(Symbols) /\ bar \in Seq(Symbols)
        BY <2>5
      <4> QED
        BY <4>1, ThreePieces, SMTT(60)
    <3>3. w = T
      BY <2>7
    <3> HIDE DEF w
    <3> QED
      BY <1>2, <2>9, <2>10, <3>1, <3>2, <3>3
  <2>12. T[p + 1] = "=" /\ T[p + 2] = ">"
    <3>1. 1 \in 1..2 + q /\ 2 \in 1..2 + q
      OBVIOUS
    <3> QED
      BY <2>4, <2>9, <2>11, <3>1
  <2>13. ASSUME NEW n \in 1..q PROVE T[p + 2 + n] = to[n]
    <3>1. 2 + n \in 1..2 + q /\ ~(2 + n <= 2) /\ (2 + n) - 2 = n /\ p + 2 + n = p + (2 + n)
      OBVIOUS
    <3> QED
      BY <2>9, <2>11, <3>1, ZenonT(60)
  <2>14. \/ Len(T) = p + 2 + q
         \/ Len(T) > p + 2 + q /\ T[p + 2 + q + 1] = "|"
    <3>1. CASE Len(bar) = 0
      <4>1. c = 0
        BY <2>10, <3>1
      <4>2. Len(T) = p + (2 + q) + c
        BY <2>11
      <4> QED
        BY <1>2, <2>2, <2>7, <4>1, <4>2
    <3>2. CASE Len(bar) = 2 /\ bar[1] = "|"
      <4>1. 1 \in 1..c /\ p + 2 + q + 1 = p + (2 + q) + 1
        BY <2>10, <3>2
      <4> QED
        BY <2>10, <2>11, <3>2, <4>1
    <3> QED
      BY <2>5, <3>1, <3>2
  <2>15. ASSUME NEW n \in 1..p, T[n] = "=", T[n + 1] = ">" PROVE FALSE
    <3>1. CASE n = p
      BY <2>12, <2>15, <3>1
    <3>2. CASE n # p
      <4>1. n + 1 \in 1..p
        BY <3>2
      <4> QED
        BY <1>2, <2>11, <2>15, <3>2, <4>1
    <3> QED
      BY <3>1, <3>2
  <2>16. Shape(T, P, to, p, q)
    BY <1>2, <1>4, <2>1, <2>2, <2>11, <2>12, <2>13, <2>14, <2>15 DEF Shape
  <2> QED
    BY <1>1, <2>1, <2>8, <2>16
<1> QED
  BY <1>3, <1>4

-----------------------------------------------------------------------------
\* How far the parser has come in a line: in its pattern, in its target, or
\* behind a '|'.
Follows(s, line, T, p, q) ==
  /\ s.line = T /\ s.i \in 1..Len(T) + 1
  /\ ~s.pattern_read =>
       s.i <= p + 1 /\ s.pattern = SubSeq(line.pattern, 1, s.i - 1) /\ s.to = <<>>
  /\ s.pattern_read =>
       /\ line.to # NoTarget /\ s.pattern = line.pattern
       /\ \/ /\ s.i >= p + 3 /\ s.i <= p + q + 3
             /\ s.to = SubSeq(line.to, 1, s.i - (p + 3))
          \/ s.i = Len(T) + 1 /\ s.to = line.to

Scans == [line : Seq(Symbols), i : Nat, pattern : Seq(Symbols), to : Seq(Symbols),
          kind : Routes!Kinds, pattern_read : BOOLEAN]

\* The four steps of the loop over a line (router.c:101-131).
LEMMA LoopFollows ==
  ASSUME NEW line \in RouteLines, NEW T, NEW p \in Nat, NEW q \in Nat,
         Shape(T, line.pattern, line.to, p, q), Follows(scan, line, T, p, q), scan \in Scans,
         Routes!ReadPattern \/ Routes!ReadArrow \/ Routes!ReadTarget \/ Routes!ReadKind
  PROVE  Follows(scan', line, T, p, q) /\ scan' \in Scans
<1> USE DEF Routes!Scanning, Routes!At, Routes!AtArrow
<1>1. /\ T \in Seq(Symbols) /\ Len(T) \in Nat /\ line.pattern \in Seq(Symbols)
      /\ Len(line.pattern) = p
      /\ line.to # NoTarget => line.to \in Seq(Symbols) /\ Len(line.to) = q
  BY LenProperties DEF Shape
<1>2. scan.line = T /\ scan.i \in Nat /\ scan.i >= 1
  BY <1>1 DEF Follows
<1>3. CASE Routes!ReadPattern
  <2>1. ~scan.pattern_read /\ scan.i <= Len(T) /\ scan.i <= p + 1
    BY <1>2, <1>3 DEF Routes!ReadPattern, Follows
  <2>2. scan.i <= p
    <3>1. ASSUME scan.i = p + 1 PROVE FALSE
      <4>1. line.to # NoTarget /\ Len(T) >= p + 2
        BY <1>1, <2>1, <3>1 DEF Shape
      <4>2. T[p + 1] = "=" /\ T[p + 2] = ">" /\ (p + 1) + 1 = p + 2
        BY <4>1 DEF Shape
      <4>3. scan.i < Len(T)
        BY <1>1, <3>1, <4>1
      <4> QED
        BY <1>2, <1>3, <2>1, <3>1, <4>2, <4>3 DEF Routes!ReadPattern
    <3> QED
      BY <1>2, <2>1, <3>1
  <2>3. T[scan.i] = line.pattern[scan.i] /\ T[scan.i] \in Symbols
    BY <1>1, <1>2, <2>1, <2>2, ElementOfSeq DEF Shape
  <2>4. Append(scan.pattern, T[scan.i]) = SubSeq(line.pattern, 1, (scan.i + 1) - 1)
    <3>1. scan.i \in 1..Len(line.pattern) /\ 1 \in 1..Len(line.pattern) /\ (scan.i + 1) - 1 = scan.i
      BY <1>1, <1>2, <2>2
    <3>2. scan.pattern = SubSeq(line.pattern, 1, scan.i - 1)
      BY <2>1 DEF Follows
    <3> QED
      BY <1>1, <2>3, <3>1, <3>2, PieceGrows
  <2>5. scan' = [scan EXCEPT !.pattern = Append(@, scan.line[scan.i]), !.i = @ + 1]
    BY <1>3 DEF Routes!ReadPattern
  <2>6. /\ scan'.line = T /\ scan'.i = scan.i + 1 /\ scan'.pattern = Append(scan.pattern, T[scan.i])
        /\ scan'.to = <<>> /\ ~scan'.pattern_read /\ scan' \in Scans
    <3>1. scan.to = <<>> /\ Append(scan.pattern, T[scan.i]) \in Seq(Symbols) /\ scan.i + 1 \in Nat
      BY <1>2, <2>1, <2>3, AppendProperties DEF Follows, Scans
    <3>2. scan' = [scan EXCEPT !.pattern = Append(scan.pattern, T[scan.i]), !.i = scan.i + 1]
      BY <1>2, <2>5
    <3> QED
      BY <1>2, <2>1, <3>1, <3>2 DEF Scans
  <2> QED
    BY <1>1, <1>2, <2>1, <2>2, <2>4, <2>6 DEF Follows
<1>4. CASE Routes!ReadArrow
  <2>1. ~scan.pattern_read /\ scan.i < Len(T) /\ scan.i <= p + 1 /\ T[scan.i] = "=" /\ T[scan.i + 1] = ">"
    BY <1>2, <1>4 DEF Routes!ReadArrow, Follows
  <2>2. scan.i = p + 1 /\ line.to # NoTarget
    BY <1>1, <1>2, <2>1 DEF Shape
  <2>3. scan.pattern = line.pattern
    <3>1. scan.pattern = SubSeq(line.pattern, 1, scan.i - 1) /\ scan.i - 1 = Len(line.pattern)
      BY <1>1, <2>1, <2>2 DEF Follows
    <3> QED
      BY <1>1, <3>1, SubSeqFull
  <2>4. SubSeq(line.to, 1, 0) = <<>> /\ scan.to = <<>>
    BY <2>1, SubSeqEmpty DEF Follows
  <2>5. scan' = [scan EXCEPT !.pattern_read = TRUE, !.i = @ + 2]
    BY <1>4 DEF Routes!ReadArrow
  <2>6. /\ scan'.line = T /\ scan'.i = p + 3 /\ scan'.pattern = line.pattern
        /\ scan'.to = <<>> /\ scan'.pattern_read /\ scan' \in Scans
    <3>1. scan' = [scan EXCEPT !.pattern_read = TRUE, !.i = p + 3]
      <4>1. scan.i + 2 = p + 3
        BY <2>2
      <4> QED
        BY <2>5, <4>1
    <3>2. p + 3 \in Nat /\ TRUE \in BOOLEAN
      OBVIOUS
    <3>3. scan' \in Scans
      BY <3>1, <3>2 DEF Scans
    <3>4. /\ scan'.line = scan.line /\ scan'.pattern = scan.pattern /\ scan'.to = scan.to
          /\ scan'.i = p + 3 /\ scan'.pattern_read = TRUE
      BY <3>1 DEF Scans
    <3> QED
      BY <1>2, <2>3, <2>4, <3>3, <3>4
  <2>7. p + 3 <= Len(T) + 1 /\ scan'.i - (p + 3) = 0
    BY <1>1, <2>1, <2>2, <2>6
  <2> QED
    BY <1>1, <2>2, <2>4, <2>6, <2>7 DEF Follows
<1>5. CASE Routes!ReadTarget
  <2>1. /\ scan.pattern_read /\ scan.i <= Len(T) /\ T[scan.i] # "|"
        /\ line.to # NoTarget /\ scan.pattern = line.pattern
        /\ scan.i >= p + 3 /\ scan.i <= p + q + 3 /\ scan.to = SubSeq(line.to, 1, scan.i - (p + 3))
    BY <1>1, <1>2, <1>5 DEF Routes!ReadTarget, Follows
  <2>2. PICK k \in Nat : scan.i = p + 3 + k
    <3>1. scan.i - (p + 3) \in Nat /\ scan.i = p + 3 + (scan.i - (p + 3))
      BY <1>2, <2>1
    <3> QED
      BY <3>1
  <2>3. k < q
    <3>1. ASSUME k = q PROVE FALSE
      <4>1. scan.i = p + 2 + q + 1
        BY <2>2, <3>1
      <4> QED
        BY <1>1, <2>1, <4>1 DEF Shape
    <3> QED
      BY <2>1, <2>2, <3>1
  <2>4. T[scan.i] = line.to[k + 1] /\ T[scan.i] \in Symbols
    <3>1. k + 1 \in 1..q /\ p + 2 + (k + 1) = scan.i /\ scan.i \in 1..Len(T)
      BY <1>1, <1>2, <2>1, <2>2, <2>3
    <3> QED
      BY <1>1, <2>1, <3>1, ElementOfSeq DEF Shape
  <2>5. Append(scan.to, T[scan.i]) = SubSeq(line.to, 1, k + 1)
    <3>1. k + 1 \in 1..Len(line.to) /\ 1 \in 1..Len(line.to) /\ (k + 1) - 1 = scan.i - (p + 3)
      BY <1>1, <2>1, <2>2, <2>3
    <3>2. Append(SubSeq(line.to, 1, (k + 1) - 1), line.to[k + 1]) = SubSeq(line.to, 1, k + 1)
      BY <1>1, <2>1, <3>1, PieceGrows
    <3> QED
      BY <2>1, <2>4, <3>1, <3>2
  <2>6. scan' = [scan EXCEPT !.to = Append(@, scan.line[scan.i]), !.i = @ + 1]
    BY <1>5 DEF Routes!ReadTarget
  <2>7. /\ scan'.line = T /\ scan'.i = scan.i + 1 /\ scan'.pattern = line.pattern
        /\ scan'.to = Append(scan.to, T[scan.i]) /\ scan'.pattern_read /\ scan' \in Scans
    <3>1. Append(scan.to, T[scan.i]) \in Seq(Symbols) /\ scan.i + 1 \in Nat
      BY <1>2, <2>4, AppendProperties DEF Scans
    <3>2. scan' = [scan EXCEPT !.to = Append(scan.to, T[scan.i]), !.i = scan.i + 1]
      BY <1>2, <2>6
    <3> QED
      BY <1>2, <2>1, <3>1, <3>2 DEF Scans
  <2>8. /\ scan'.i >= p + 3 /\ scan'.i <= p + q + 3 /\ scan'.i - (p + 3) = k + 1
        /\ scan'.i \in 1..Len(T) + 1
    BY <1>1, <1>2, <2>1, <2>2, <2>3, <2>7
  <2> QED
    BY <2>1, <2>5, <2>7, <2>8 DEF Follows
<1>6. CASE Routes!ReadKind
  <2>1. /\ scan.pattern_read /\ scan.i <= Len(T) /\ T[scan.i] = "|"
        /\ line.to # NoTarget /\ scan.pattern = line.pattern
        /\ scan.i >= p + 3 /\ scan.i <= p + q + 3 /\ scan.to = SubSeq(line.to, 1, scan.i - (p + 3))
    BY <1>1, <1>2, <1>6 DEF Routes!ReadKind, Follows
  <2>2. scan.i - (p + 3) = q
    <3>1. ASSUME scan.i < p + q + 3 PROVE FALSE
      <4> DEFINE n == scan.i - (p + 2)
      <4>1. n \in 1..q /\ p + 2 + n = scan.i
        BY <1>2, <2>1, <3>1
      <4>2. T[p + 2 + n] = line.to[n] /\ line.to[n] # "|"
        BY <2>1, <4>1 DEF Shape
      <4> QED
        BY <2>1, <4>1, <4>2
    <3> QED
      BY <1>2, <2>1, <3>1
  <2>3. scan.to = line.to
    BY <1>1, <2>1, <2>2, SubSeqFull
  <2>4. scan' = [scan EXCEPT !.kind = "route", !.i = Len(scan.line) + 1]
    BY <1>6 DEF Routes!ReadKind
  <2>5. /\ scan'.line = T /\ scan'.i = Len(T) + 1 /\ scan'.pattern = line.pattern
        /\ scan'.to = line.to /\ scan'.pattern_read /\ scan' \in Scans
    <3>1. scan' = [scan EXCEPT !.kind = "route", !.i = Len(T) + 1]
      BY <1>2, <2>4
    <3>2. Len(T) + 1 \in Nat /\ "route" \in Routes!Kinds
      BY <1>1 DEF Routes!Kinds
    <3>3. scan' \in Scans
      BY <3>1, <3>2 DEF Scans
    <3>4. /\ scan'.line = scan.line /\ scan'.pattern = scan.pattern /\ scan'.to = scan.to
          /\ scan'.i = Len(T) + 1 /\ scan'.pattern_read = scan.pattern_read
      BY <3>1 DEF Scans
    <3> QED
      BY <1>2, <2>1, <2>3, <3>3, <3>4
  <2> QED
    BY <1>1, <2>1, <2>5 DEF Follows
<1> QED
  BY <1>3, <1>4, <1>5, <1>6

\* Behind the last character pattern and target are those of the line.
LEMMA LineFollowed ==
  ASSUME NEW line \in RouteLines, NEW T, NEW p \in Nat, NEW q \in Nat,
         Shape(T, line.pattern, line.to, p, q), Follows(scan, line, T, p, q), scan \in Scans,
         scan.i > Len(T)
  PROVE  scan.pattern = line.pattern /\ scan.to = Routes!Target(line)
<1>1. /\ T \in Seq(Symbols) /\ Len(T) \in Nat /\ line.pattern \in Seq(Symbols)
      /\ Len(line.pattern) = p /\ Len(T) >= p
      /\ line.to # NoTarget => line.to \in Seq(Symbols) /\ Len(line.to) = q /\ Len(T) >= p + 2 + q
  BY LenProperties DEF Shape
<1>2. scan.i = Len(T) + 1
  BY <1>1 DEF Follows
<1>3. CASE ~scan.pattern_read
  <2>1. /\ scan.i <= p + 1 /\ scan.pattern = SubSeq(line.pattern, 1, scan.i - 1) /\ scan.to = <<>>
    BY <1>3 DEF Follows
  <2>2. scan.i - 1 = p /\ line.to = NoTarget
    BY <1>1, <1>2, <2>1
  <2> QED
    BY <1>1, <2>1, <2>2, SubSeqFull DEF Routes!Target
<1>4. CASE scan.pattern_read
  <2>1. /\ line.to # NoTarget /\ scan.pattern = line.pattern
        /\ \/ scan.i <= p + q + 3 /\ scan.to = SubSeq(line.to, 1, scan.i - (p + 3))
           \/ scan.to = line.to
    BY <1>4 DEF Follows
  <2>2. scan.i <= p + q + 3 => scan.i - (p + 3) = q
    BY <1>1, <1>2, <2>1, SMTT(30)
  <2>3. scan.to = line.to
    BY <1>1, <2>1, <2>2, SubSeqFull
  <2> QED
    BY <2>1, <2>3 DEF Routes!Target
<1> QED
  BY <1>3, <1>4

\* The number of lines that have been parsed, and the table as these lines
\* backwards.
Parsed == IF reading = "parse" THEN Len(file) - 1 ELSE Len(file)
LineRead(s, line) ==
  \E p, q \in Nat : /\ Shape(Routes!Text(line), line.pattern, line.to, p, q)
                    /\ Follows(s, line, Routes!Text(line), p, q)
RouteSays(r, line) == r.pattern = line.pattern /\ r.to = Routes!Target(line)

RouteTypes ==
  /\ file \in Seq(RouteLines)
  /\ scan \in Scans
  /\ reading \in {"word", "parse", "done"}
  /\ table \in Seq(Routes!Route)
  /\ router \in {"live", "freed", "undefined"}

TableBackwards ==
  /\ Len(table) = Parsed
  /\ \A n \in 1..Len(table) : RouteSays(table[n], file[Parsed + 1 - n])

RouterState ==
  /\ reading # "done" => router = "live"
  /\ router = "freed" => \E n \in DOMAIN file : ~Routes!Compiles(file[n].pattern)
  /\ router = "undefined" => file = <<>>

RoutesInv ==
  /\ RouteTypes
  /\ reading = "parse" => Len(file) > 0 /\ LineRead(scan, file[Len(file)])
  /\ router # "freed" => TableBackwards
  /\ RouterState

LEMMA RoutesInit == Routes!Init => RoutesInv
<1> SUFFICES ASSUME Routes!Init PROVE RoutesInv
  OBVIOUS
<1> USE DEF Routes!Init
<1>1. RouteTypes
  <2>1. /\ <<>> \in Seq(Symbols) /\ <<>> \in Seq(RouteLines) /\ <<>> \in Seq(Routes!Route)
    OBVIOUS
  <2>2. scan = [line |-> <<>>, i |-> 1, pattern |-> <<>>, to |-> <<>>, kind |-> "alias",
                pattern_read |-> FALSE]
    BY DEF Routes!Begin
  <2>3. "alias" \in Routes!Kinds
    BY DEF Routes!Kinds
  <2>4. ASSUME NEW e \in Seq(Symbols)
        PROVE  [line |-> e, i |-> 1, pattern |-> e, to |-> e, kind |-> "alias",
                pattern_read |-> FALSE] \in Scans
    BY <2>3 DEF Scans
  <2>5. scan \in Scans
    BY <2>1, <2>2, <2>4
  <2> QED
    BY <2>1, <2>5 DEF RouteTypes
<1>2. TableBackwards /\ RouterState
  BY DEF TableBackwards, RouterState, Parsed
<1> QED
  BY <1>1, <1>2 DEF RoutesInv

\* A word is taken from the file.
LEMMA ReadWordKeeps ==
  ASSUME RoutesInv, NEW line \in RouteLines, Routes!ReadWord(line)
  PROVE  RoutesInv'
<1>1. /\ reading = "word" /\ file' = Append(file, line) /\ scan' = Routes!Begin(Routes!Text(line))
      /\ reading' = "parse" /\ UNCHANGED <<table, router>>
  BY DEF Routes!ReadWord
<1>2. /\ file' \in Seq(RouteLines) /\ Len(file') = Len(file) + 1 /\ Len(file) \in Nat
      /\ \A n \in 1..Len(file) : file'[n] = file[n]
      /\ file'[Len(file')] = line
      /\ file \in Seq(RouteLines)
  BY <1>1, AppendProperties, LenProperties DEF RoutesInv, RouteTypes
<1>3. PICK p \in Nat, q \in Nat : Shape(Routes!Text(line), line.pattern, line.to, p, q)
  BY TextOfLine
<1> DEFINE T == Routes!Text(line)
<1>4. T \in Seq(Symbols) /\ Len(T) \in Nat
  BY <1>3, LenProperties DEF Shape
<1>5. scan' = [line |-> T, i |-> 1, pattern |-> <<>>, to |-> <<>>, kind |-> "alias",
               pattern_read |-> FALSE]
  BY <1>1 DEF Routes!Begin
<1> HIDE DEF T
<1>6. scan' \in Scans
  <2>1. "alias" \in Routes!Kinds /\ <<>> \in Seq(Symbols)
    BY DEF Routes!Kinds
  <2> QED
    BY <1>4, <1>5, <2>1 DEF Scans
<1>7. Follows(scan', line, T, p, q)
  <2>1. SubSeq(line.pattern, 1, 1 - 1) = <<>>
    BY SubSeqEmpty
  <2> QED
    BY <1>4, <1>5, <2>1 DEF Follows
<1>8. LineRead(scan', line)
  BY <1>3, <1>7 DEF LineRead, T
<1>9. TableBackwards'
  <2>1. TableBackwards /\ Parsed = Len(file) /\ Parsed' = Len(file)
    BY <1>1, <1>2 DEF RoutesInv, RouterState, Parsed
  <2>2. \A n \in 1..Len(table) : Len(file) + 1 - n \in 1..Len(file)
    BY <1>2, <2>1 DEF TableBackwards
  <2> QED
    BY <1>1, <1>2, <2>1, <2>2 DEF TableBackwards
<1>10. RouteTypes' /\ RouterState'
  BY <1>1, <1>2, <1>6 DEF RoutesInv, RouteTypes, RouterState
<1> QED
  BY <1>1, <1>2, <1>8, <1>9, <1>10 DEF RoutesInv

\* The loop over a line leaves everything but its locals alone.
LEMMA LoopKeeps ==
  ASSUME RoutesInv,
         Routes!ReadPattern \/ Routes!ReadArrow \/ Routes!ReadTarget \/ Routes!ReadKind
  PROVE  RoutesInv'
<1>1. reading = "parse" /\ UNCHANGED <<file, reading, table, router>>
  BY DEF Routes!ReadPattern, Routes!ReadArrow, Routes!ReadTarget, Routes!ReadKind,
         Routes!Keep, Routes!Scanning
<1> DEFINE line == file[Len(file)]
           T == Routes!Text(line)
<1>2. /\ file \in Seq(RouteLines) /\ Len(file) > 0 /\ LineRead(scan, line) /\ scan \in Scans
  BY <1>1 DEF RoutesInv, RouteTypes
<1>3. line \in RouteLines
  BY <1>2, LenProperties, ElementOfSeq
<1> HIDE DEF line
<1>4. PICK p \in Nat, q \in Nat :
        Shape(T, line.pattern, line.to, p, q) /\ Follows(scan, line, T, p, q)
  BY <1>2 DEF LineRead
<1> HIDE DEF T
<1>5. Follows(scan', line, T, p, q) /\ scan' \in Scans
  BY <1>2, <1>3, <1>4, LoopFollows
<1>6. LineRead(scan', line)
  BY <1>4, <1>5 DEF LineRead, T
<1>7. RouteTypes' /\ RouterState' /\ (router # "freed" => TableBackwards')
  BY <1>1, <1>5 DEF RoutesInv, RouteTypes, RouterState, TableBackwards, Parsed
<1> QED
  BY <1>1, <1>2, <1>6, <1>7 DEF RoutesInv, line

\* A route is put in front of the table.
LEMMA LineParsedKeeps ==
  ASSUME RoutesInv, Routes!LineParsed
  PROVE  RoutesInv'
<1>1. /\ reading = "parse" /\ scan.i > Len(scan.line) /\ reading' = "word"
      /\ table' = Routes!AddRoute(table, [pattern |-> scan.pattern, to |-> scan.to, kind |-> scan.kind])
      /\ UNCHANGED <<file, scan, router>>
  BY DEF Routes!LineParsed
<1> DEFINE line == file[Len(file)]
           T == Routes!Text(line)
<1>2. /\ file \in Seq(RouteLines) /\ Len(file) > 0 /\ LineRead(scan, line) /\ scan \in Scans
      /\ table \in Seq(Routes!Route)
  BY <1>1 DEF RoutesInv, RouteTypes
<1>3. line \in RouteLines
  BY <1>2, LenProperties, ElementOfSeq
<1> HIDE DEF line
<1>4. PICK p \in Nat, q \in Nat :
        Shape(T, line.pattern, line.to, p, q) /\ Follows(scan, line, T, p, q)
  BY <1>2 DEF LineRead
<1>5. scan.line = T
  BY <1>4 DEF Follows
<1> HIDE DEF T
<1>6. scan.pattern = line.pattern /\ scan.to = Routes!Target(line)
  BY <1>1, <1>2, <1>3, <1>4, <1>5, LineFollowed
<1> DEFINE r == [pattern |-> scan.pattern, to |-> scan.to, kind |-> scan.kind]
<1>7. r \in Routes!Route /\ RouteSays(r, line)
  BY <1>2, <1>6 DEF Scans, Routes!Route, RouteSays
<1> HIDE DEF r
<1>8. table' = <<r>> \o table
  BY <1>1 DEF Routes!AddRoute, r
<1>9. <<r>> \in Seq(Routes!Route) /\ Len(<<r>>) = 1 /\ <<r>>[1] = r
  BY <1>7
<1>10. /\ table' \in Seq(Routes!Route) /\ Len(table') = 1 + Len(table)
       /\ \A n \in 1..1 + Len(table) : table'[n] = IF n <= 1 THEN <<r>>[n] ELSE table[n - 1]
  BY <1>2, <1>8, <1>9, ConcatProperties
<1>11. TableBackwards'
  <2>1. TableBackwards /\ Parsed = Len(file) - 1 /\ Parsed' = Len(file)
    BY <1>1 DEF RoutesInv, RouterState, Parsed
  <2>2. Len(file) \in Nat /\ Len(table) = Len(file) - 1 /\ Len(table') = Len(file)
    BY <1>2, <1>10, <2>1, LenProperties DEF TableBackwards
  <2>3. ASSUME NEW n \in 1..Len(table') PROVE RouteSays(table'[n], file[Len(file) + 1 - n])
    <3>1. CASE n = 1
      <4>1. Len(file) + 1 - n = Len(file)
        BY <2>2, <3>1
      <4>2. table'[n] = r
        BY <1>9, <1>10, <2>2, <3>1
      <4> QED
        BY <1>7, <4>1, <4>2 DEF line
    <3>2. CASE n # 1
      <4>1. n - 1 \in 1..Len(table) /\ table'[n] = table[n - 1]
        BY <1>10, <2>2, <3>2
      <4>2. (Len(file) - 1) + 1 - (n - 1) = Len(file) + 1 - n
        BY <2>2
      <4> QED
        BY <2>1, <4>1, <4>2 DEF TableBackwards
    <3> QED
      BY <3>1, <3>2
  <2> QED
    BY <1>1, <2>1, <2>2, <2>3 DEF TableBackwards
<1>12. RouteTypes' /\ RouterState'
  BY <1>1, <1>2, <1>10 DEF RoutesInv, RouteTypes, RouterState
<1> QED
  BY <1>1, <1>11, <1>12 DEF RoutesInv

LEMMA RoutesNext == RoutesInv /\ [Routes!Next]_(Routes!vars) => RoutesInv'
<1> SUFFICES ASSUME RoutesInv, [Routes!Next]_(Routes!vars) PROVE RoutesInv'
  OBVIOUS
<1>1. ASSUME NEW line \in RouteLines, Routes!ReadWord(line) PROVE RoutesInv'
  BY <1>1, ReadWordKeeps
<1>2. CASE Routes!ReadPattern \/ Routes!ReadArrow \/ Routes!ReadTarget \/ Routes!ReadKind
  BY <1>2, LoopKeeps
<1>3. CASE Routes!LineParsed
  BY <1>3, LineParsedKeeps
<1>4. CASE Routes!LineRefused
  <2>1. /\ reading = "parse" /\ scan.i > Len(scan.line) /\ ~Routes!Compiles(scan.pattern)
        /\ table' = <<>> /\ router' = "freed" /\ reading' = "done" /\ UNCHANGED <<file, scan>>
    BY <1>4 DEF Routes!LineRefused
  <2> DEFINE line == file[Len(file)]
  <2>2. /\ file \in Seq(RouteLines) /\ Len(file) > 0 /\ LineRead(scan, line) /\ scan \in Scans
    BY <2>1 DEF RoutesInv, RouteTypes
  <2>3. line \in RouteLines /\ Len(file) \in DOMAIN file
    BY <2>2, LenProperties, ElementOfSeq
  <2> HIDE DEF line
  <2>4. PICK p \in Nat, q \in Nat : /\ Shape(Routes!Text(line), line.pattern, line.to, p, q)
                                    /\ Follows(scan, line, Routes!Text(line), p, q)
    BY <2>2 DEF LineRead
  <2>5. scan.line = Routes!Text(line)
    BY <2>4 DEF Follows
  <2>6. scan.pattern = line.pattern
    BY <2>1, <2>2, <2>3, <2>4, <2>5, LineFollowed
  <2>7. RouterState'
    BY <2>1, <2>3, <2>6 DEF RouterState, line
  <2>8. table' \in Seq(Routes!Route)
    BY <2>1
  <2> QED
    BY <2>1, <2>7, <2>8 DEF RoutesInv, RouteTypes
<1>5. CASE Routes!EndOfFile
  <2>1. /\ reading = "word" /\ reading' = "done" /\ UNCHANGED <<file, scan, table>>
        /\ router' = IF file = <<>> THEN "undefined" ELSE router
    BY <1>5 DEF Routes!EndOfFile
  <2> QED
    BY <2>1 DEF RoutesInv, RouteTypes, RouterState, TableBackwards, Parsed
<1>6. CASE UNCHANGED Routes!vars
  BY <1>6 DEF Routes!vars, RoutesInv, RouteTypes, RouterState, TableBackwards, Parsed
<1> QED
  BY <1>1, <1>2, <1>3, <1>4, <1>5, <1>6 DEF Routes!Next

\* The route a lookup finds is that of the last line that matches
\* (httpserv_router_lookup, router.c:38-46).
LEMMA LookupFindsLast ==
  ASSUME RoutesInv, reading = "word", NEW query
  PROVE  LET hits == {n \in DOMAIN file : Routes!Matches(file[n].pattern, query)}
             route == Routes!Lookup(table, query)
             target == Routes!Target(file[Routes!Max(hits)])
         IN  IF hits = {} \/ target = query THEN route = NoRoute
             ELSE route # NoRoute /\ route.to = target
<1> DEFINE L == Len(file)
           hit == {n \in 1..Len(table) : Routes!Matches(table[n].pattern, query)}
           hits == {n \in DOMAIN file : Routes!Matches(file[n].pattern, query)}
           first == IF hit # {} THEN Routes!Min(hit) ELSE 0
<1>1. /\ L \in Nat /\ Len(table) = L /\ DOMAIN file = 1..L
      /\ \A n \in 1..L : RouteSays(table[n], file[L + 1 - n])
      /\ table \in Seq(Routes!Route)
  BY LenProperties DEF RoutesInv, RouteTypes, RouterState, TableBackwards, Parsed
<1>2. \A n \in 1..L : n \in hit <=> L + 1 - n \in hits
  BY <1>1 DEF RouteSays
<1>3. Routes!Lookup(table, query) = IF first = 0 THEN NoRoute
                                    ELSE IF table[first].to = query THEN NoRoute
                                    ELSE table[first]
  BY DEF Routes!Lookup, Routes!SelectInSeq
<1>4. hit \subseteq 1..L /\ hits \subseteq 1..L
  BY <1>1
<1>5. ASSUME hit # {} PROVE first \in hit /\ \A n \in hit : first <= n
  <2> HIDE DEF hit
  <2>1. hit \subseteq Nat
    BY <1>1, <1>4
  <2>2. \E n \in hit : \A m \in hit : n <= m
    BY <1>5, <2>1, LeastOf
  <2> QED
    BY <1>5, <2>2 DEF Routes!Min
<1> HIDE DEF hit, hits, first, L
<1>6. CASE hit = {}
  <2>1. hits = {}
    <3> SUFFICES ASSUME NEW n \in hits PROVE FALSE
      OBVIOUS
    <3>1. L + 1 - n \in 1..L /\ L + 1 - (L + 1 - n) = n
      BY <1>1, <1>4
    <3> QED
      BY <1>2, <1>6, <3>1
  <2> QED
    BY <1>3, <1>6, <2>1 DEF first, hits
<1>7. CASE hit # {}
  <2> DEFINE n == L + 1 - first
  <2>1. first \in 1..L /\ n \in 1..L /\ n \in hits /\ first # 0
    <3>1. first \in hit /\ first \in 1..L
      BY <1>4, <1>5, <1>7
    <3>2. L + 1 - first \in 1..L /\ first # 0
      BY <1>1, <3>1
    <3> QED
      BY <1>2, <3>1, <3>2
  <2>2. ASSUME NEW m \in hits PROVE m <= n
    <3>1. L + 1 - m \in 1..L /\ L + 1 - (L + 1 - m) = m /\ m \in 1..L
      BY <1>1, <1>4
    <3>2. L + 1 - m \in hit
      BY <1>2, <3>1
    <3> QED
      BY <1>1, <1>5, <1>7, <2>1, <3>1, <3>2
  <2>3. Routes!Max(hits) = n
    <3>1. \A m \in hits : (\A k \in hits : m >= k) <=> m = n
      BY <1>1, <1>4, <2>1, <2>2
    <3> HIDE DEF n
    <3> QED
      BY <2>1, <3>1 DEF Routes!Max
  <2>4. table[first].to = Routes!Target(file[n]) /\ table[first] # NoRoute
    <3>1. table[first] \in Routes!Route
      BY <1>1, <2>1, ElementOfSeq
    <3> QED
      BY <1>1, <2>1, <3>1, RoutesAssumption DEF RouteSays
  <2> HIDE DEF n
  <2> QED
    BY <1>3, <2>1, <2>3, <2>4 DEF hits
<1> QED
  BY <1>6, <1>7

\* The strengthened invariant holds in every reachable state.
LEMMA RoutesAlways == Routes!Spec => []RoutesInv
BY RoutesInit, RoutesNext, PTL DEF Routes!Spec

LEMMA RoutesTypeOK == RoutesInv => Routes!TypeOK
BY DEF RoutesInv, RouteTypes, Scans, Routes!TypeOK

LEMMA RoutesDecide == RoutesInv => Routes!LastMatchDecides
BY LookupFindsLast DEF Routes!LastMatchDecides

LEMMA RoutesGood == RoutesInv => Routes!GoodFileGivesRouter
<1> SUFFICES ASSUME RoutesInv, reading = "done", file # <<>>,
                    \A n \in DOMAIN file : Routes!Compiles(file[n].pattern)
             PROVE  router = "live" /\ Len(table) = Len(file)
  BY DEF Routes!GoodFileGivesRouter
<1> QED
  BY DEF RoutesInv, RouteTypes, RouterState, TableBackwards, Parsed
-----------------------------------------------------------------------------
(***************************************************************************)
(* The configuration file.                                                 *)
(***************************************************************************)
\* Some positions of a text, if any, have a last one.
LEMMA LastOf ==
  ASSUME NEW k \in Nat, NEW S, S \subseteq 1..k, S # {}
  PROVE  \E n \in S : \A m \in S : n >= m
<1> DEFINE R == {k - n : n \in S}
<1>1. R \subseteq Nat /\ R # {}
  <2>1. \A n \in S : n \in 1..k
    OBVIOUS
  <2>2. \A n \in S : k - n \in Nat
    BY <2>1
  <2>3. PICK n \in S : TRUE
    OBVIOUS
  <2> QED
    BY <2>2, <2>3
<1> HIDE DEF R
<1>2. PICK r \in R : \A x \in R : r <= x
  BY <1>1, LeastOf
<1>3. PICK n \in S : r = k - n
  BY <1>2 DEF R
<1>4. \A m \in S : k - n <= k - m
  BY <1>2, <1>3 DEF R
<1>5. \A m \in S : n >= m
  BY <1>4
<1> QED
  BY <1>5

\* A text that is stripped (stringh.c:16-38) has lost the blanks around it and
\* nothing else; nothing is left of it when it is blank.
LEMMA StripStrips ==
  ASSUME NEW s \in Seq(Config!Chars)
  PROVE  /\ Config!strstripltw(s) \in Seq(Config!Chars)
         /\ Config!Stripped(Config!strstripltw(s), s)
         /\ Config!strstripltw(s) = <<>> <=> \A n \in 1..Len(s) : s[n] \in Config!Blanks
<1> DEFINE C == Config!Chars
           B == Config!Blanks
           k == Len(s)
           dark == {n \in 1..Len(s) : s[n] \notin B}
           first == IF dark # {} THEN Config!Min(dark) ELSE 0
           u == Config!strstriplw(s)
           ends == {n \in 1..Len(u) : u[n] \notin B}
           last == IF ends # {} THEN Config!Max(ends) ELSE 0
           t == Config!strstripltw(s)
<1>1. k \in Nat /\ DOMAIN s = 1..k
  BY LenProperties
<1>2. u = IF first = 0 THEN <<>> ELSE SubSeq(s, first, Len(s))
  BY DEF Config!strstriplw, Config!SelectInSeq
<1>3. t = SubSeq(u, 1, last)
  BY DEF Config!strstripltw, Config!strstriptw, Config!SelectLastInSeq
<1>4. ASSUME dark # {} PROVE first \in dark /\ \A n \in dark : first <= n
  <2>1. dark \subseteq Nat
    BY <1>1
  <2> HIDE DEF dark
  <2>2. \E n \in dark : \A m \in dark : n <= m
    BY <1>4, <2>1, LeastOf
  <2> QED
    BY <1>4, <2>2 DEF Config!Min
<1>5. ASSUME Len(u) \in Nat, ends # {} PROVE last \in ends /\ \A n \in ends : n <= last
  <2>1. ends \subseteq 1..Len(u)
    OBVIOUS
  <2> HIDE DEF ends, u
  <2>2. \E n \in ends : \A m \in ends : n >= m
    BY <1>5, <2>1, LastOf
  <2> QED
    BY <1>5, <2>1, <2>2 DEF Config!Max
<1>6. dark \subseteq 1..k /\ \A n \in 1..k : n \notin dark => s[n] \in B
  BY <1>1
<1> HIDE DEF first, last, B
<1>7. CASE dark = {}
  <2>1. u = <<>>
    BY <1>2, <1>7 DEF first
  <2> HIDE DEF u
  <2>2. last = 0
    BY <2>1 DEF last
  <2> HIDE DEF t
  <2>3. t = <<>>
    BY <1>3, <2>2, SubSeqEmpty
  <2> HIDE DEF dark, k
  <2>4. Config!Stripped(<<>>, s)
    <3>1. 0 \in 0..k /\ <<>> = SubSeq(s, 0 + 1, 0)
      BY <1>1, SubSeqEmpty
    <3>2. \A n \in 1..k : s[n] \in B
      BY <1>6, <1>7
    <3> QED
      BY <1>1, <3>1, <3>2 DEF Config!Stripped, B, k
  <2> QED
    BY <1>6, <1>7, <2>3, <2>4 DEF t, B, k
<1>8. CASE dark # {}
  <2>1. first \in 1..k /\ s[first] \notin B /\ \A n \in 1..k : n < first => s[n] \in B
    <3>1. first \in dark /\ first \in 1..k
      BY <1>4, <1>6, <1>8
    <3>2. \A n \in 1..k : n < first => n \notin dark
      BY <1>1, <1>4, <1>8, <3>1
    <3> QED
      BY <1>6, <3>1, <3>2
  <2>2. u = SubSeq(s, first, k)
    BY <1>1, <1>2, <2>1
  <2> HIDE DEF u, dark, k
  <2>3. /\ u \in Seq(C) /\ Len(u) = k - first + 1
        /\ \A n \in 1..(k - first + 1) : u[n] = s[first + n - 1]
    <3>1. first \in 1..(Len(s) + 1) /\ k \in (first - 1)..Len(s)
      BY <1>1, <2>1 DEF k
    <3> QED
      BY <2>2, <3>1, PieceOf
  <2>4. 1 \in ends
    <3>1. 1 \in 1..Len(u) /\ first + 1 - 1 = first
      BY <1>1, <2>1, <2>3
    <3> QED
      BY <2>1, <2>3, <3>1
  <2>5. /\ last \in 1..Len(u) /\ u[last] \notin B
        /\ \A n \in 1..Len(u) : n > last => u[n] \in B
    <3>1. Len(u) \in Nat
      BY <2>3, LenProperties
    <3>2. last \in ends /\ \A n \in ends : n <= last
      BY <1>5, <2>4, <3>1
    <3> QED
      BY <3>1, <3>2
  <2> HIDE DEF ends
  <2> DEFINE b == first + last - 1
  <2>6. b \in first..k /\ b \in 1..k /\ b - first + 1 = last
    BY <1>1, <2>1, <2>3, <2>5
  <2>7. /\ t \in Seq(C) /\ Len(t) = last /\ \A n \in 1..last : t[n] = u[n]
    <3>1. 1 \in 1..(Len(u) + 1) /\ last \in (1 - 1)..Len(u) /\ last - 1 + 1 = last
          /\ \A n \in 1..last : 1 + n - 1 = n
      BY <2>3, <2>5
    <3> QED
      BY <1>3, <2>3, <3>1, PieceOf
  <2>8. /\ SubSeq(s, first, b) \in Seq(C) /\ Len(SubSeq(s, first, b)) = b - first + 1
        /\ \A n \in 1..(b - first + 1) : SubSeq(s, first, b)[n] = s[first + n - 1]
    <3>1. first \in 1..(Len(s) + 1) /\ b \in (first - 1)..Len(s)
      BY <1>1, <2>1, <2>6 DEF k
    <3> HIDE DEF b
    <3> QED
      BY <3>1, PieceOf
  <2> HIDE DEF t, b
  <2>9. t = SubSeq(s, first, b)
    <3>1. \A n \in 1..last : n \in 1..(k - first + 1)
      BY <1>1, <2>1, <2>3, <2>5
    <3> QED
      BY <2>3, <2>6, <2>7, <2>8, <3>1, SeqEqual
  <2>10. t[1] = s[first] /\ t[Len(t)] = u[last] /\ t # <<>> /\ Len(t) = last
    <3>1. 1 \in 1..last /\ last \in 1..last /\ 1 \in 1..(k - first + 1) /\ first + 1 - 1 = first
      BY <1>1, <2>1, <2>3, <2>5
    <3> QED
      BY <2>3, <2>5, <2>7, <3>1, EmptySeq
  <2>11. \A n \in 1..k : n <= first - 1 \/ n > b => s[n] \in B
    <3> SUFFICES ASSUME NEW n \in 1..k, n <= first - 1 \/ n > b PROVE s[n] \in B
      OBVIOUS
    <3>1. CASE n <= first - 1
      BY <1>1, <2>1, <3>1
    <3>2. CASE n > b
      <4>1. n - first + 1 \in 1..(k - first + 1) /\ first + (n - first + 1) - 1 = n
            /\ n - first + 1 > last
        BY <1>1, <2>1, <2>6, <3>2
      <4> QED
        BY <2>3, <2>5, <4>1
    <3> QED
      BY <3>1, <3>2
  <2>12. Config!Stripped(t, s)
    <3>1. first - 1 \in 0..k /\ b \in (first - 1)..k /\ (first - 1) + 1 = first
      BY <1>1, <2>1, <2>6
    <3>2. t = SubSeq(s, (first - 1) + 1, b)
      BY <2>9, <3>1
    <3>3. t # <<>> => t[1] \notin B /\ t[Len(t)] \notin B
      BY <2>1, <2>5, <2>10
    <3> QED
      BY <1>1, <2>11, <3>1, <3>2, <3>3 DEF Config!Stripped, B, k
  <2>13. ~ \A n \in 1..k : s[n] \in B
    BY <2>1
  <2> QED
    BY <2>7, <2>10, <2>12, <2>13 DEF t, B, k
<1> QED
  BY <1>7, <1>8

NL == Config!Newline

\* The line that is being collected begins behind this position of the text.
From == Len(text) - Len(linebuf)

ConfigTypes ==
  /\ text \in Seq(Config!Chars) /\ linebuf \in Seq(Config!Chars)
  /\ loading \in {"load", "line"}
  /\ pos \in 1..(Len(text) + 1)
  /\ cfg \in [label : Seq(Config!Chars), value : Seq(Config!Chars), label_read : {-1, 0, 1}]
  /\ cfg_tree \in Seq(Seq(Config!Chars) \X Seq(Config!Chars))
  /\ underread \in BOOLEAN

\* linebuf is the end of the text, from the line's begin on.
Collected ==
  /\ Len(linebuf) <= Len(text)
  /\ \A n \in 1..Len(linebuf) : linebuf[n] = text[From + n]
  /\ From = 0 \/ text[From] = NL
  /\ loading = "load" => \A n \in 1..Len(linebuf) : linebuf[n] # NL
  /\ loading = "line" =>
       /\ Len(linebuf) > 0 /\ linebuf[Len(linebuf)] = NL
       /\ \A n \in 1..Len(linebuf) - 1 : linebuf[n] # NL

\* What has been found in the line before position i.
LineSays(c, i) ==
  /\ i \in 1..Len(linebuf) + 1
  /\ c.label_read = 1 =>
       /\ c.label = SubSeq(linebuf, 1, i - 1) /\ c.value = <<>>
       /\ \A n \in 1..i - 1 : linebuf[n] \notin {"=", "#"}
  /\ c.label_read = 0 =>
       \E j \in 1..i - 1 :
         /\ linebuf[j] = "="
         /\ c.label = SubSeq(linebuf, 1, j - 1) /\ c.value = SubSeq(linebuf, j + 1, i - 1)
         /\ \A n \in 1..j - 1 : linebuf[n] \notin {"=", "#"}
         /\ \A n \in j..i - 1 : linebuf[n] # "#"
  /\ c.label_read = -1 => \E n \in 1..Len(linebuf) : linebuf[n] = "#"

\* The assignments of the lines that have been processed.
Done == {a \in Config!Assignments : a.last <= From}

\* An assignment of a text, that its label or its value is missing, and what it says.
IsAssignment(a, t) ==
  /\ a \in [first : 1..Len(t), sign : 1..Len(t), last : 1..Len(t)]
  /\ a.first = 1 \/ t[a.first - 1] = NL
  /\ a.first <= a.sign /\ t[a.sign] = "="
  /\ a.sign < a.last /\ t[a.last] = NL
  /\ \A n \in a.first .. (a.last - 1) : t[n] \notin {NL, "#"}
  /\ \A n \in a.first .. (a.sign - 1) : t[n] # "="

Lacks(a, t) ==
  \/ \A n \in a.first .. (a.sign - 1) : t[n] = " "
  \/ \A n \in (a.sign + 1) .. (a.last - 1) : t[n] = " "

Means(entry, a, t) ==
  /\ Config!Stripped(entry[1], SubSeq(t, a.first, a.sign - 1))
  /\ Config!Stripped(entry[2], SubSeq(t, a.sign + 1, a.last))

Enumerates(at, tree, S, t) ==
  /\ at \in [1..Len(tree) -> S]
  /\ \A a \in S : \E n \in 1..Len(tree) : at[n] = a
  /\ \A m, n \in 1..Len(tree) : m < n => at[m].last < at[n].first
  /\ \A n \in 1..Len(tree) : Means(tree[n], at[n], t)

Enumerated == \E at \in [1..Len(cfg_tree) -> Done] : Enumerates(at, cfg_tree, Done, text)

Underread == underread <=> \E a \in Done : Lacks(a, text)

ConfigInv ==
  /\ ConfigTypes
  /\ Collected
  /\ loading = "line" => LineSays(cfg, pos)
  /\ Enumerated
  /\ Underread

LEMMA ConfigInit == Config!Init => ConfigInv
<1> SUFFICES ASSUME Config!Init PROVE ConfigInv
  OBVIOUS
<1> USE DEF Config!Init
<1>1. ConfigTypes
  <2>1. <<>> \in Seq(Config!Chars) /\ <<>> \in Seq(Seq(Config!Chars) \X Seq(Config!Chars))
        /\ Len(<<>>) = 0
    OBVIOUS
  <2>2. cfg = [label |-> <<>>, value |-> <<>>, label_read |-> 1]
    BY DEF Config!NewCfg
  <2>3. cfg \in [label : Seq(Config!Chars), value : Seq(Config!Chars), label_read : {-1, 0, 1}]
    BY <2>1, <2>2
  <2>4. text \in Seq(Config!Chars) /\ linebuf \in Seq(Config!Chars)
        /\ cfg_tree \in Seq(Seq(Config!Chars) \X Seq(Config!Chars)) /\ Len(text) = 0
    BY <2>1
  <2>5. pos \in 1..(Len(text) + 1)
    BY <2>4
  <2>6. loading \in {"load", "line"} /\ underread \in BOOLEAN
    OBVIOUS
  <2> QED
    BY <2>3, <2>4, <2>5, <2>6 DEF ConfigTypes
<1>2. From = 0 /\ Len(text) = 0 /\ Len(linebuf) = 0 /\ Len(cfg_tree) = 0
  BY DEF From
<1>3. Collected
  BY <1>2 DEF Collected
<1>4. Done = {}
  <2> SUFFICES ASSUME NEW a \in Done PROVE FALSE
    OBVIOUS
  <2>1. a.last \in DOMAIN text /\ DOMAIN text = 1..0
    BY <1>1, <1>2, LenProperties DEF Done, Config!Assignments, ConfigTypes
  <2> QED
    BY <2>1
<1>5. PICK at : at = [n \in 1..Len(cfg_tree) |-> n]
  OBVIOUS
<1>6. at \in [1..Len(cfg_tree) -> Done] /\ Enumerates(at, cfg_tree, Done, text)
  <2>1. 1..Len(cfg_tree) = {}
    BY <1>2
  <2> QED
    BY <1>4, <1>5, <2>1 DEF Enumerates
<1> QED
  BY <1>1, <1>3, <1>4, <1>6 DEF ConfigInv, Enumerated, Underread

\* An assignment by its parts.
LEMMA AssignmentIs ==
  ASSUME text \in Seq(Config!Chars)
  PROVE  \A a : a \in Config!Assignments <=> IsAssignment(a, text)
BY LenProperties DEF Config!Assignments, IsAssignment, NL

LEMMA AssignmentIsNext ==
  ASSUME text' \in Seq(Config!Chars)
  PROVE  \A a : a \in Config!Assignments' <=> IsAssignment(a, text')
BY LenProperties DEF Config!Assignments, IsAssignment, NL

\* Two texts have the pieces in common that both have.
LEMMA CommonPiece ==
  ASSUME NEW S, NEW t \in Seq(S), NEW u \in Seq(S),
         NEW a \in 1..(Len(t) + 1), NEW b \in (a - 1)..Len(t),
         NEW d \in Nat, d + Len(t) <= Len(u),
         \A n \in a..b : u[d + n] = t[n]
  PROVE  SubSeq(u, d + a, d + b) = SubSeq(t, a, b)
<1>1. Len(t) \in Nat /\ Len(u) \in Nat
  BY LenProperties
<1>2. d + a \in 1..(Len(u) + 1) /\ d + b \in (d + a - 1)..Len(u) /\ (d + b) - (d + a) + 1 = b - a + 1
  BY <1>1
<1> DEFINE P == SubSeq(t, a, b)
           Q == SubSeq(u, d + a, d + b)
<1>3. /\ P \in Seq(S) /\ Len(P) = b - a + 1
      /\ \A n \in 1..(b - a + 1) : P[n] = t[a + n - 1]
  BY PieceOf
<1>4. /\ Q \in Seq(S) /\ Len(Q) = b - a + 1
      /\ \A n \in 1..(b - a + 1) : Q[n] = u[d + a + n - 1]
  <2> DEFINE x == d + a
             y == d + b
  <2>1. x \in 1..(Len(u) + 1) /\ y \in (x - 1)..Len(u) /\ y - x + 1 = b - a + 1 /\ x = d + a
        /\ Q = SubSeq(u, x, y)
    BY <1>2
  <2> HIDE DEF x, y, Q
  <2> QED
    BY <2>1, PieceOf
<1>5. \A n \in 1..(b - a + 1) : P[n] = Q[n]
  <2> SUFFICES ASSUME NEW n \in 1..(b - a + 1) PROVE P[n] = Q[n]
    OBVIOUS
  <2>1. a + n - 1 \in a..b /\ d + (a + n - 1) = d + a + n - 1
    BY <1>1
  <2> HIDE DEF P, Q
  <2> QED
    BY <1>3, <1>4, <2>1
<1> HIDE DEF P, Q
<1>6. P = Q
  BY <1>3, <1>4, <1>5, SeqEqual
<1> QED
  BY <1>6 DEF P, Q

\* What a text says up to a position stays when it grows.
LEMMA Grown ==
  ASSUME NEW t \in Seq(Config!Chars), NEW u \in Seq(Config!Chars), Len(t) <= Len(u),
         \A n \in 1..Len(t) : u[n] = t[n],
         NEW a
  PROVE  /\ IsAssignment(a, t) => IsAssignment(a, u)
         /\ IsAssignment(a, u) /\ a.last <= Len(t) => IsAssignment(a, t)
         /\ IsAssignment(a, t) => (Lacks(a, t) <=> Lacks(a, u))
         /\ \A entry : IsAssignment(a, t) => (Means(entry, a, t) <=> Means(entry, a, u))
<1>1. Len(t) \in Nat /\ Len(u) \in Nat
  BY LenProperties
<1>0. ASSUME a \in [first : 1..Len(t), sign : 1..Len(t), last : 1..Len(t)],
             a.first <= a.sign, a.sign < a.last
      PROVE  /\ a \in [first : 1..Len(u), sign : 1..Len(u), last : 1..Len(u)]
             /\ a.first = 1 \/ (a.first - 1 \in 1..Len(t) /\ u[a.first - 1] = t[a.first - 1])
             /\ u[a.sign] = t[a.sign] /\ u[a.last] = t[a.last]
             /\ \A n \in a.first .. (a.last - 1) : u[n] = t[n]
             /\ \A n \in a.first .. (a.sign - 1) : u[n] = t[n]
             /\ \A n \in (a.sign + 1) .. (a.last - 1) : u[n] = t[n]
  <2>1. a.first \in 1..Len(t) /\ a.sign \in 1..Len(t) /\ a.last \in 1..Len(t)
    BY <1>0
  <2>2. a.first \in 1..Len(u) /\ a.sign \in 1..Len(u) /\ a.last \in 1..Len(u)
    BY <1>1, <2>1
  <2>3. a \in [first : 1..Len(u), sign : 1..Len(u), last : 1..Len(u)]
    BY <1>0, <2>2
  <2>4. a.first = 1 \/ a.first - 1 \in 1..Len(t)
    BY <1>1, <2>1
  <2>5. /\ \A n \in a.first .. (a.last - 1) : n \in 1..Len(t)
        /\ \A n \in a.first .. (a.sign - 1) : n \in 1..Len(t)
        /\ \A n \in (a.sign + 1) .. (a.last - 1) : n \in 1..Len(t)
    BY <1>0, <1>1, <2>1
  <2> QED
    BY <2>1, <2>3, <2>4, <2>5
<1>2. IsAssignment(a, t) => IsAssignment(a, u)
  <2> SUFFICES ASSUME IsAssignment(a, t) PROVE IsAssignment(a, u)
    OBVIOUS
  <2>1. /\ a \in [first : 1..Len(t), sign : 1..Len(t), last : 1..Len(t)]
        /\ a.first <= a.sign /\ a.sign < a.last
    BY DEF IsAssignment
  <2> QED
    BY <1>0, <2>1, Zenon DEF IsAssignment
<1>3. IsAssignment(a, u) /\ a.last <= Len(t) => IsAssignment(a, t)
  <2> SUFFICES ASSUME IsAssignment(a, u), a.last <= Len(t) PROVE IsAssignment(a, t)
    OBVIOUS
  <2>1. a.first \in 1..Len(t) /\ a.sign \in 1..Len(t) /\ a.last \in 1..Len(t)
    BY <1>1 DEF IsAssignment
  <2>2. /\ a \in [first : 1..Len(t), sign : 1..Len(t), last : 1..Len(t)]
        /\ a.first <= a.sign /\ a.sign < a.last
    BY <2>1 DEF IsAssignment
  <2> QED
    BY <1>0, <2>2, Zenon DEF IsAssignment
<1>4. IsAssignment(a, t) => (Lacks(a, t) <=> Lacks(a, u))
  <2> SUFFICES ASSUME IsAssignment(a, t) PROVE Lacks(a, t) <=> Lacks(a, u)
    OBVIOUS
  <2>1. /\ a \in [first : 1..Len(t), sign : 1..Len(t), last : 1..Len(t)]
        /\ a.first <= a.sign /\ a.sign < a.last
    BY DEF IsAssignment
  <2> QED
    BY <1>0, <2>1, Zenon DEF Lacks
<1>5. ASSUME IsAssignment(a, t)
      PROVE  /\ SubSeq(u, a.first, a.sign - 1) = SubSeq(t, a.first, a.sign - 1)
             /\ SubSeq(u, a.sign + 1, a.last) = SubSeq(t, a.sign + 1, a.last)
  <2> DEFINE p == a.sign - 1
             q == a.sign + 1
  <2>1. /\ a.first \in 1..(Len(t) + 1) /\ p \in (a.first - 1)..Len(t)
        /\ q \in 1..(Len(t) + 1) /\ a.last \in (q - 1)..Len(t)
        /\ 0 + a.first = a.first /\ 0 + p = p /\ 0 + q = q /\ 0 + a.last = a.last
    <3>1. /\ a \in [first : 1..Len(t), sign : 1..Len(t), last : 1..Len(t)]
          /\ a.first <= a.sign /\ a.sign < a.last
      BY <1>5 DEF IsAssignment
    <3>2. a.first \in 1..Len(t) /\ a.sign \in 1..Len(t) /\ a.last \in 1..Len(t)
      BY <3>1
    <3> QED
      BY <1>1, <3>1, <3>2
  <2>2. \A n \in 1..Len(t) : u[0 + n] = t[n]
    OBVIOUS
  <2>3. (\A n \in a.first..p : u[0 + n] = t[n]) /\ (\A n \in q..a.last : u[0 + n] = t[n])
    BY <1>1, <2>1, <2>2
  <2>4. 0 \in Nat /\ 0 + Len(t) <= Len(u)
    BY <1>1
  <2> HIDE DEF p, q
  <2>5. SubSeq(u, 0 + a.first, 0 + p) = SubSeq(t, a.first, p)
    BY <2>1, <2>3, <2>4, CommonPiece
  <2>6. SubSeq(u, 0 + q, 0 + a.last) = SubSeq(t, q, a.last)
    BY <2>1, <2>3, <2>4, CommonPiece
  <2> QED
    BY <2>1, <2>5, <2>6 DEF p, q
<1>6. \A entry : IsAssignment(a, t) => (Means(entry, a, t) <=> Means(entry, a, u))
  BY <1>5 DEF Means
<1> QED
  BY <1>2, <1>3, <1>4, <1>6

\* While a line is collected and taken apart nothing changes about the lines before it.
LEMMA LinesBefore ==
  ASSUME ConfigInv, From' = From, UNCHANGED <<cfg_tree, underread>>,
         text' \in Seq(Config!Chars), Len(text) <= Len(text'),
         \A n \in 1..Len(text) : text'[n] = text[n]
  PROVE  Enumerated' /\ Underread'
<1>1. text \in Seq(Config!Chars) /\ From \in 0..Len(text) /\ Len(text) \in Nat
  BY LenProperties DEF ConfigInv, ConfigTypes, Collected, From
<1>2. \A a : a \in Done <=> IsAssignment(a, text) /\ a.last <= From
  BY <1>1, AssignmentIs DEF Done
<1>3. \A a : a \in Done' <=> IsAssignment(a, text') /\ a.last <= From
  BY AssignmentIsNext DEF Done
<1>4. \A a : IsAssignment(a, text') /\ a.last <= From => a.last <= Len(text)
  BY <1>1 DEF IsAssignment
<1>5. Done' = Done
  <2>1. \A a : a \in Done' <=> a \in Done
    BY <1>1, <1>2, <1>3, <1>4, Grown
  <2> QED
    BY <2>1
<1>6. \A a \in Done : /\ Lacks(a, text) <=> Lacks(a, text')
                      /\ \A entry : Means(entry, a, text) <=> Means(entry, a, text')
  BY <1>1, <1>2, Grown
<1>7. Underread'
  BY <1>5, <1>6 DEF ConfigInv, Underread
<1>8. PICK at \in [1..Len(cfg_tree) -> Done] : Enumerates(at, cfg_tree, Done, text)
  BY DEF ConfigInv, Enumerated
<1>9. Enumerates(at, cfg_tree, Done, text')
  BY <1>6, <1>8 DEF Enumerates
<1> QED
  BY <1>5, <1>7, <1>8, <1>9 DEF Enumerated

\* A character is read (config.c:76-98): the line grows, where it begins stays.
LEMMA CharRead ==
  ASSUME ConfigInv, NEW ch \in Config!Chars, Config!ReadChar(ch)
  PROVE  ConfigInv'
<1> USE DEF Config!ReadChar
<1>1. /\ text \in Seq(Config!Chars) /\ linebuf \in Seq(Config!Chars)
      /\ Len(text) \in Nat /\ Len(linebuf) \in Nat
      /\ text' = Append(text, ch) /\ linebuf' = Append(linebuf, ch) /\ loading = "load"
      /\ UNCHANGED <<cfg_tree, underread>>
  BY LenProperties DEF ConfigInv, ConfigTypes
<1>2. /\ text' \in Seq(Config!Chars) /\ Len(text') = Len(text) + 1 /\ text'[Len(text) + 1] = ch
      /\ \A n \in 1..Len(text) : text'[n] = text[n]
  BY <1>1, AppendProperties
<1>3. /\ linebuf' \in Seq(Config!Chars) /\ Len(linebuf') = Len(linebuf) + 1
      /\ linebuf'[Len(linebuf) + 1] = ch
      /\ \A n \in 1..Len(linebuf) : linebuf'[n] = linebuf[n]
  BY <1>1, AppendProperties
<1>4. From' = From /\ From \in Nat /\ From + Len(linebuf) = Len(text)
  BY <1>1, <1>2, <1>3 DEF From, ConfigInv, Collected
<1>5. Enumerated' /\ Underread'
  BY <1>1, <1>2, <1>4, LinesBefore
<1>6. \/ ch # NL /\ UNCHANGED <<loading, pos, cfg>>
      \/ ch = NL /\ loading' = "line" /\ pos' = 1 /\ cfg' = Config!NewCfg
  BY DEF NL
<1>7. ConfigTypes'
  <2>1. Config!NewCfg \in [label : Seq(Config!Chars), value : Seq(Config!Chars), label_read : {-1, 0, 1}]
    <3>1. <<>> \in Seq(Config!Chars)
      OBVIOUS
    <3>2. ASSUME NEW e \in Seq(Config!Chars)
          PROVE  [label |-> e, value |-> e, label_read |-> 1]
                   \in [label : Seq(Config!Chars), value : Seq(Config!Chars), label_read : {-1, 0, 1}]
      OBVIOUS
    <3> QED
      BY <3>1, <3>2 DEF Config!NewCfg
  <2>2. pos' \in 1..(Len(text') + 1)
    BY <1>1, <1>2, <1>6 DEF ConfigInv, ConfigTypes
  <2>3. loading' \in {"load", "line"} /\ cfg_tree' = cfg_tree /\ underread' = underread
    BY <1>1, <1>6
  <2>4. cfg' \in [label : Seq(Config!Chars), value : Seq(Config!Chars), label_read : {-1, 0, 1}]
    BY <1>6, <2>1 DEF ConfigInv, ConfigTypes
  <2> QED
    BY <1>2, <1>3, <2>2, <2>3, <2>4 DEF ConfigInv, ConfigTypes
<1>8. Collected'
  <2>1. Len(linebuf') <= Len(text')
    BY <1>1, <1>2, <1>3, <1>4
  <2>2. \A n \in 1..Len(linebuf') : linebuf'[n] = text'[From' + n]
    <3> SUFFICES ASSUME NEW n \in 1..Len(linebuf') PROVE linebuf'[n] = text'[From + n]
      BY <1>4
    <3>1. CASE n = Len(linebuf) + 1
      BY <1>1, <1>2, <1>3, <1>4, <3>1
    <3>2. CASE n \in 1..Len(linebuf)
      <4>1. From + n \in 1..Len(text) /\ linebuf[n] = text[From + n]
        BY <1>1, <1>4, <3>2 DEF ConfigInv, Collected
      <4> QED
        BY <1>2, <1>3, <3>2, <4>1
    <3>3. n = Len(linebuf) + 1 \/ n \in 1..Len(linebuf)
      BY <1>1, <1>3
    <3> QED
      BY <3>1, <3>2, <3>3
  <2>3. From' = 0 \/ text'[From'] = NL
    <3>1. From = 0 \/ (From \in 1..Len(text) /\ text[From] = NL)
      BY <1>1, <1>4 DEF ConfigInv, Collected
    <3> QED
      BY <1>2, <1>4, <3>1
  <2>4. \A n \in 1..Len(linebuf) : linebuf'[n] # NL
    BY <1>1, <1>3 DEF ConfigInv, Collected
  <2>5. CASE ch # NL
    <3>1. \A n \in 1..Len(linebuf') : linebuf'[n] # NL
      BY <1>1, <1>3, <2>4, <2>5
    <3>2. loading' = "load"
      BY <1>1, <1>6, <2>5
    <3> QED
      BY <2>1, <2>2, <2>3, <3>1, <3>2 DEF Collected
  <2>6. CASE ch = NL
    <3>1. Len(linebuf') > 0 /\ linebuf'[Len(linebuf')] = NL /\ loading' = "line"
          /\ Len(linebuf') - 1 = Len(linebuf)
      BY <1>1, <1>3, <1>6, <2>6
    <3>2. \A n \in 1..Len(linebuf') - 1 : linebuf'[n] # NL
      BY <2>4, <3>1
    <3> QED
      BY <2>1, <2>2, <2>3, <3>1, <3>2 DEF Collected
  <2> QED
    BY <2>5, <2>6
<1>9. loading' = "line" => LineSays(cfg, pos)'
  <2> SUFFICES ASSUME loading' = "line" PROVE LineSays(cfg, pos)'
    OBVIOUS
  <2>1. pos' = 1 /\ cfg' = [label |-> <<>>, value |-> <<>>, label_read |-> 1]
    BY <1>1, <1>6 DEF Config!NewCfg
  <2>2. cfg'.label = <<>> /\ cfg'.value = <<>> /\ cfg'.label_read = 1
    BY <2>1
  <2>3. SubSeq(linebuf', 1, 0) = <<>>
    BY SubSeqEmpty
  <2>4. 1 \in 1..Len(linebuf') + 1 /\ 1 - 1 = 0
    BY <1>1, <1>3
  <2> QED
    BY <2>1, <2>2, <2>3, <2>4 DEF LineSays
<1> QED
  BY <1>5, <1>7, <1>8, <1>9 DEF ConfigInv

\* A step of the loop touches nothing but its own variables.
LEMMA LoopKeepsConfig ==
  ASSUME ConfigInv, UNCHANGED <<text, loading, linebuf, cfg_tree, underread>>, loading = "line",
         cfg' \in [label : Seq(Config!Chars), value : Seq(Config!Chars), label_read : {-1, 0, 1}],
         LineSays(cfg, pos)'
  PROVE  ConfigInv'
<1>1. text \in Seq(Config!Chars) /\ Len(text) \in Nat /\ Len(linebuf) \in Nat /\ Len(linebuf) <= Len(text)
  BY LenProperties DEF ConfigInv, ConfigTypes, Collected
<1>2. From' = From
  BY DEF From
<1>3. Enumerated' /\ Underread'
  <2>1. text' \in Seq(Config!Chars) /\ Len(text) <= Len(text') /\ \A n \in 1..Len(text) : text'[n] = text[n]
    BY <1>1
  <2> QED
    BY <1>2, <2>1, LinesBefore
<1>4. pos' \in 1..(Len(text') + 1)
  BY <1>1 DEF LineSays
<1>5. ConfigTypes'
  BY <1>4 DEF ConfigInv, ConfigTypes
<1>6. Collected'
  BY <1>2 DEF ConfigInv, Collected
<1> QED
  BY <1>3, <1>5, <1>6 DEF ConfigInv

\* The loop of httpserv_config_process_line (config.c:26-44), a character at a time.
LEMMA LoopStepKeeps ==
  ASSUME ConfigInv, Config!Comment \/ Config!Assign \/ Config!LabelChar \/ Config!ValueChar
  PROVE  ConfigInv'
<1>1. /\ loading = "line" /\ pos <= Len(linebuf)
      /\ UNCHANGED <<text, loading, linebuf, cfg_tree, underread>>
  BY DEF Config!Comment, Config!Assign, Config!LabelChar, Config!ValueChar, Config!InLine, Config!Stay
<1>2. /\ linebuf \in Seq(Config!Chars) /\ Len(linebuf) \in Nat
      /\ cfg \in [label : Seq(Config!Chars), value : Seq(Config!Chars), label_read : {-1, 0, 1}]
      /\ LineSays(cfg, pos)
  BY <1>1, LenProperties DEF ConfigInv, ConfigTypes
<1>3. pos \in 1..Len(linebuf) /\ linebuf[pos] \in Config!Chars
  BY <1>1, <1>2, ElementOfSeq DEF LineSays
<1>4. cfg.label \in Seq(Config!Chars) /\ cfg.value \in Seq(Config!Chars) /\ cfg.label_read \in {-1, 0, 1}
  BY <1>2
<1> DEFINE Kinds == [label : Seq(Config!Chars), value : Seq(Config!Chars), label_read : {-1, 0, 1}]
<1>5. CASE Config!Comment
  <2>1. cfg' = [label |-> cfg.label, value |-> cfg.value, label_read |-> -1]
        /\ linebuf[pos] = "#" /\ pos' = Len(linebuf) + 1
    BY <1>2, <1>5 DEF Config!Comment, Config!At
  <2>2. cfg' \in Kinds /\ cfg'.label_read = -1
    BY <1>4, <2>1
  <2>3. pos' \in 1..Len(linebuf) + 1
    BY <1>2, <2>1
  <2>4. LineSays(cfg, pos)'
    BY <1>1, <1>3, <2>1, <2>2, <2>3 DEF LineSays
  <2> QED
    BY <1>1, <2>2, <2>4, LoopKeepsConfig
<1>6. CASE Config!Assign
  <2>1. cfg' = [label |-> cfg.label, value |-> cfg.value, label_read |-> 0]
        /\ linebuf[pos] = "=" /\ pos' = pos + 1 /\ cfg.label_read = 1
    BY <1>2, <1>6 DEF Config!Assign, Config!At
  <2>2. cfg' \in Kinds /\ cfg'.label_read = 0 /\ cfg'.label = cfg.label /\ cfg'.value = cfg.value
    BY <1>4, <2>1
  <2>3. /\ cfg.label = SubSeq(linebuf, 1, pos - 1) /\ cfg.value = <<>>
        /\ \A n \in 1..pos - 1 : linebuf[n] \notin {"=", "#"}
    BY <1>2, <2>1 DEF LineSays
  <2>4. SubSeq(linebuf, pos + 1, pos) = <<>>
    BY <1>3, SubSeqEmpty
  <2>5. /\ pos' \in 1..Len(linebuf) + 1 /\ pos' - 1 = pos /\ pos \in 1..pos' - 1
        /\ \A n \in pos..pos' - 1 : linebuf[n] # "#"
    BY <1>2, <1>3, <2>1
  <2>6. LineSays(cfg, pos)'
    <3>1. \E j \in 1..pos' - 1 :
            /\ linebuf[j] = "="
            /\ cfg'.label = SubSeq(linebuf, 1, j - 1) /\ cfg'.value = SubSeq(linebuf, j + 1, pos' - 1)
            /\ \A n \in 1..j - 1 : linebuf[n] \notin {"=", "#"}
            /\ \A n \in j..pos' - 1 : linebuf[n] # "#"
      BY <2>1, <2>2, <2>3, <2>4, <2>5
    <3>2. linebuf' = linebuf /\ cfg'.label_read # 1 /\ cfg'.label_read # -1
      BY <1>1, <2>2
    <3> QED
      BY <2>5, <3>1, <3>2, Zenon DEF LineSays
  <2> QED
    BY <1>1, <2>2, <2>6, LoopKeepsConfig
<1>7. CASE Config!LabelChar
  <2>1. cfg' = [label |-> Append(cfg.label, linebuf[pos]), value |-> cfg.value, label_read |-> cfg.label_read]
        /\ linebuf[pos] # "=" /\ linebuf[pos] # "#" /\ pos' = pos + 1 /\ cfg.label_read = 1
    BY <1>2, <1>7 DEF Config!LabelChar, Config!At
  <2>2. Append(cfg.label, linebuf[pos]) \in Seq(Config!Chars)
    BY <1>3, <1>4, AppendProperties
  <2>3. /\ cfg' \in Kinds /\ cfg'.label_read = 1 /\ cfg'.label = Append(cfg.label, linebuf[pos])
        /\ cfg'.value = cfg.value
    BY <1>4, <2>1, <2>2
  <2>4. /\ cfg.label = SubSeq(linebuf, 1, pos - 1) /\ cfg.value = <<>>
        /\ \A n \in 1..pos - 1 : linebuf[n] \notin {"=", "#"}
    BY <1>2, <2>1 DEF LineSays
  <2>5. Append(SubSeq(linebuf, 1, pos - 1), linebuf[pos]) = SubSeq(linebuf, 1, pos)
    <3>1. 1 \in 1..Len(linebuf)
      BY <1>2, <1>3
    <3> QED
      BY <1>2, <1>3, <3>1, PieceGrows
  <2>6. /\ pos' \in 1..Len(linebuf) + 1 /\ pos' - 1 = pos
        /\ \A n \in 1..pos' - 1 : linebuf[n] \notin {"=", "#"}
    BY <1>2, <1>3, <2>1, <2>4
  <2>7. LineSays(cfg, pos)'
    <3>1. linebuf' = linebuf /\ cfg'.label_read # 0 /\ cfg'.label_read # -1
      BY <1>1, <2>3
    <3>2. cfg'.label = SubSeq(linebuf, 1, pos' - 1) /\ cfg'.value = <<>>
      BY <2>3, <2>4, <2>5, <2>6, Zenon
    <3> QED
      BY <2>6, <3>1, <3>2, Zenon DEF LineSays
  <2> QED
    BY <1>1, <2>3, <2>7, LoopKeepsConfig
<1>8. CASE Config!ValueChar
  <2>1. cfg' = [label |-> cfg.label, value |-> Append(cfg.value, linebuf[pos]), label_read |-> cfg.label_read]
        /\ linebuf[pos] # "#" /\ pos' = pos + 1 /\ cfg.label_read # 1
    BY <1>2, <1>8 DEF Config!ValueChar, Config!At
  <2>2. Append(cfg.value, linebuf[pos]) \in Seq(Config!Chars)
    BY <1>3, <1>4, AppendProperties
  <2>3. /\ cfg' \in Kinds /\ cfg'.label_read = cfg.label_read /\ cfg'.label = cfg.label
        /\ cfg'.value = Append(cfg.value, linebuf[pos])
    BY <1>4, <2>1, <2>2
  <2>4. pos' \in 1..Len(linebuf) + 1 /\ pos' - 1 = pos
    BY <1>2, <1>3, <2>1
  <2>5. LineSays(cfg, pos)'
    <3>1. CASE cfg.label_read = -1
      BY <1>1, <1>2, <2>3, <2>4, <3>1 DEF LineSays
    <3>2. CASE cfg.label_read = 0
      <4>1. PICK j \in 1..pos - 1 :
              /\ linebuf[j] = "="
              /\ cfg.label = SubSeq(linebuf, 1, j - 1) /\ cfg.value = SubSeq(linebuf, j + 1, pos - 1)
              /\ \A n \in 1..j - 1 : linebuf[n] \notin {"=", "#"}
              /\ \A n \in j..pos - 1 : linebuf[n] # "#"
        BY <1>2, <3>2 DEF LineSays
      <4>2. Append(SubSeq(linebuf, j + 1, pos - 1), linebuf[pos]) = SubSeq(linebuf, j + 1, pos)
        <5> DEFINE x == j + 1
        <5>1. x \in 1..Len(linebuf) /\ pos \in x..Len(linebuf)
          BY <1>2, <1>3
        <5> HIDE DEF x
        <5>2. Append(SubSeq(linebuf, x, pos - 1), linebuf[pos]) = SubSeq(linebuf, x, pos)
          BY <1>2, <5>1, PieceGrows
        <5> QED
          BY <5>2 DEF x
      <4>3. j \in 1..pos' - 1 /\ \A n \in j..pos' - 1 : linebuf[n] # "#"
        BY <1>3, <2>1, <2>4, <4>1
      <4>4. \E m \in 1..pos' - 1 :
              /\ linebuf[m] = "="
              /\ cfg'.label = SubSeq(linebuf, 1, m - 1) /\ cfg'.value = SubSeq(linebuf, m + 1, pos' - 1)
              /\ \A n \in 1..m - 1 : linebuf[n] \notin {"=", "#"}
              /\ \A n \in m..pos' - 1 : linebuf[n] # "#"
        BY <2>3, <2>4, <4>1, <4>2, <4>3
      <4> QED
        <5>1. linebuf' = linebuf /\ cfg'.label_read # 1 /\ cfg'.label_read # -1
          BY <1>1, <2>3, <3>2
        <5> QED
          BY <2>4, <4>4, <5>1, Zenon DEF LineSays
    <3> QED
      BY <1>4, <2>1, <3>1, <3>2
  <2> QED
    BY <1>1, <2>3, <2>5, LoopKeepsConfig
<1> QED
  BY <1>5, <1>6, <1>7, <1>8

\* An assignment in the line that is processed is an assignment of this line
\* alone: it begins where the line does and ends with its newline.
LEMMA InThisLine ==
  ASSUME ConfigInv, loading = "line", NEW a, IsAssignment(a, text), a.last > From
  PROVE  /\ a.first = From + 1 /\ a.last = Len(text)
         /\ \A n \in 1..Len(linebuf) - 1 : From + n < a.last /\ linebuf[n] # "#"
         /\ \A n \in 1..(a.sign - From - 1) : linebuf[n] # "="
         /\ a.sign - From \in 1..Len(linebuf) /\ linebuf[a.sign - From] = "="
<1>1. /\ Len(text) \in Nat /\ Len(linebuf) \in Nat /\ From \in Nat /\ From + Len(linebuf) = Len(text)
      /\ \A n \in 1..Len(linebuf) : linebuf[n] = text[From + n]
      /\ Len(linebuf) > 0 /\ linebuf[Len(linebuf)] = NL
      /\ \A n \in 1..Len(linebuf) - 1 : linebuf[n] # NL
      /\ From = 0 \/ text[From] = NL
  BY LenProperties DEF ConfigInv, ConfigTypes, Collected, From
<1>2. /\ a.first \in 1..Len(text) /\ a.sign \in 1..Len(text) /\ a.last \in 1..Len(text)
      /\ a.first = 1 \/ text[a.first - 1] = NL
      /\ a.first <= a.sign /\ text[a.sign] = "="
      /\ a.sign < a.last /\ text[a.last] = NL
      /\ \A n \in a.first .. (a.last - 1) : text[n] # NL /\ text[n] # "#"
      /\ \A n \in a.first .. (a.sign - 1) : text[n] # "="
  BY DEF IsAssignment
<1>3. a.last = Len(text)
  <2> DEFINE m == a.last - From
  <2>1. m \in 1..Len(linebuf) /\ From + m = a.last
    BY <1>1, <1>2
  <2>2. linebuf[m] = NL
    BY <1>1, <1>2, <2>1
  <2> HIDE DEF m
  <2>3. m = Len(linebuf)
    BY <1>1, <2>1, <2>2
  <2> QED
    BY <1>1, <2>1, <2>3
<1>4. a.first > From
  <2> SUFFICES ASSUME a.first <= From PROVE FALSE
    BY <1>1, <1>2
  <2>1. From \in a.first .. (a.last - 1) /\ From # 0
    BY <1>1, <1>2
  <2> QED
    BY <1>1, <1>2, <2>1
<1>5. a.first = From + 1
  <2> SUFFICES ASSUME a.first # From + 1 PROVE FALSE
    OBVIOUS
  <2> DEFINE m == a.first - 1 - From
  <2>1. m \in 1..Len(linebuf) - 1 /\ m \in 1..Len(linebuf) /\ From + m = a.first - 1 /\ a.first # 1
    BY <1>1, <1>2, <1>4, SMTT(30)
  <2> HIDE DEF m
  <2>2. linebuf[m] = text[a.first - 1]
    BY <1>1, <2>1
  <2> QED
    BY <1>1, <1>2, <2>1, <2>2
<1>6. \A n \in 1..Len(linebuf) - 1 : From + n < a.last /\ linebuf[n] # "#"
  <2> SUFFICES ASSUME NEW n \in 1..Len(linebuf) - 1 PROVE From + n < a.last /\ linebuf[n] # "#"
    OBVIOUS
  <2>1. n \in 1..Len(linebuf) /\ From + n \in a.first .. (a.last - 1)
    BY <1>1, <1>3, <1>5
  <2> QED
    BY <1>1, <1>2, <2>1, SMTT(30)
<1>7. \A n \in 1..(a.sign - From - 1) : linebuf[n] # "="
  <2> SUFFICES ASSUME NEW n \in 1..(a.sign - From - 1) PROVE linebuf[n] # "="
    OBVIOUS
  <2>1. n \in 1..Len(linebuf) /\ From + n \in a.first .. (a.sign - 1)
    BY <1>1, <1>2, <1>5
  <2> QED
    BY <1>1, <1>2, <2>1
<1>8. a.sign - From \in 1..Len(linebuf) /\ linebuf[a.sign - From] = "="
  <2> DEFINE m == a.sign - From
  <2>1. m \in 1..Len(linebuf) /\ From + m = a.sign
    BY <1>1, <1>2, <1>5
  <2> HIDE DEF m
  <2>2. linebuf[m] = "="
    BY <1>1, <1>2, <2>1
  <2> QED
    BY <2>1, <2>2 DEF m
<1> QED
  BY <1>3, <1>5, <1>6, <1>7, <1>8

\* What is left of a label or a value is nothing when the characters that are no
\* newline are blank.
LEMMA BlankPiece ==
  ASSUME NEW t \in Seq(Config!Chars), NEW x \in 1..(Len(t) + 1), NEW y \in (x - 1)..Len(t),
         NEW z \in (x - 1)..y, \A n \in x..z : t[n] # NL, \A n \in (z + 1)..y : t[n] = NL
  PROVE  Config!ReadsBefore(SubSeq(t, x, y)) <=> \A n \in x..z : t[n] = " "
<1> DEFINE s == SubSeq(t, x, y)
<1>1. Len(t) \in Nat
  BY LenProperties
<1>2. s \in Seq(Config!Chars) /\ Len(s) = y - x + 1 /\ \A n \in 1..(y - x + 1) : s[n] = t[x + n - 1]
  BY PieceOf
<1> HIDE DEF s
<1>3. Config!ReadsBefore(s) <=> \A n \in 1..Len(s) : s[n] \in Config!Blanks
  BY <1>2, StripStrips DEF Config!ReadsBefore
<1>4. \A c : c \in Config!Blanks <=> c = " " \/ c = NL
  BY DEF Config!Blanks, NL
<1>5. ASSUME \A n \in 1..Len(s) : s[n] \in Config!Blanks, NEW n \in x..z PROVE t[n] = " "
  <2> DEFINE m == n - x + 1
  <2>1. m \in 1..(y - x + 1) /\ x + m - 1 = n
    BY <1>1
  <2> HIDE DEF m
  <2>2. s[m] = t[n]
    BY <1>2, <2>1
  <2>3. t[n] = " " \/ t[n] = NL
    BY <1>2, <1>4, <1>5, <2>1, <2>2
  <2> QED
    BY <2>3
<1>6. ASSUME \A n \in x..z : t[n] = " ", NEW n \in 1..Len(s) PROVE s[n] \in Config!Blanks
  <2> DEFINE m == x + n - 1
  <2>1. (m \in x..z \/ m \in (z + 1)..y) /\ n \in 1..(y - x + 1)
    BY <1>1, <1>2
  <2>2. s[n] = t[m]
    BY <1>2, <2>1
  <2> HIDE DEF m
  <2>3. t[m] = " " \/ t[m] = NL
    BY <1>6, <2>1
  <2> QED
    BY <1>4, <2>2, <2>3
<1> QED
  BY <1>3, <1>5, <1>6 DEF s

\* The assignments of the lines that are complete, and those of the line at hand.
LEMMA DoneIs ==
  ASSUME ConfigInv
  PROVE  /\ \A a : a \in Done <=> IsAssignment(a, text) /\ a.last <= From
         /\ \A a \in Config!Assignments : a.last <= Len(text)
<1>1. text \in Seq(Config!Chars) /\ Len(text) \in Nat
  BY LenProperties DEF ConfigInv, ConfigTypes
<1>2. \A a : a \in Config!Assignments <=> IsAssignment(a, text)
  BY <1>1, AssignmentIs
<1>3. \A a : IsAssignment(a, text) => a.last \in 1..Len(text)
  BY DEF IsAssignment
<1>4. \A a \in Config!Assignments : a.last <= Len(text)
  BY <1>1, <1>2, <1>3
<1> QED
  BY <1>2, <1>4 DEF Done

\* A line without an assignment adds none.
LEMMA NothingAdded ==
  ASSUME ConfigInv, loading = "line", pos > Len(linebuf), cfg.label_read # 0,
         NEW a, IsAssignment(a, text)
  PROVE  a.last <= From
<1> SUFFICES ASSUME a.last > From PROVE FALSE
  <2>1. a.last \in Int /\ From \in Int
    BY LenProperties DEF ConfigInv, ConfigTypes, IsAssignment, From
  <2> QED
    BY <2>1
<1>1. /\ cfg.label_read \in {-1, 0, 1} /\ Len(linebuf) \in Nat /\ LineSays(cfg, pos)
      /\ Len(linebuf) > 0 /\ linebuf[Len(linebuf)] = NL
  BY LenProperties DEF ConfigInv, ConfigTypes, Collected
<1>2. /\ \A n \in 1..Len(linebuf) - 1 : linebuf[n] # "#"
      /\ a.sign - From \in 1..Len(linebuf) /\ linebuf[a.sign - From] = "="
  BY InThisLine
<1>3. NL # "#"
  BY DEF NL, Config!Newline
<1>4. CASE cfg.label_read = 1
  <2>1. \A n \in 1..pos - 1 : linebuf[n] # "="
    BY <1>1, <1>4 DEF LineSays
  <2>2. pos - 1 = Len(linebuf)
    BY <1>1 DEF LineSays
  <2> QED
    BY <1>2, <2>1, <2>2
<1>5. CASE cfg.label_read = -1
  <2>1. PICK n \in 1..Len(linebuf) : linebuf[n] = "#"
    BY <1>1, <1>5 DEF LineSays
  <2> QED
    BY <1>1, <1>2, <1>3, <2>1
<1> QED
  BY <1>1, <1>4, <1>5

\* The assignment of the line at hand.
IsAdded(a0) ==
  /\ IsAssignment(a0, text) /\ a0.first = From + 1 /\ a0.last = Len(text)
  /\ \A a : IsAssignment(a, text) /\ a.last > From => a = a0
  /\ cfg.label = SubSeq(text, a0.first, a0.sign - 1)
  /\ cfg.value = SubSeq(text, a0.sign + 1, a0.last)

\* A line with one adds just that one.
LEMMA OneAdded ==
  ASSUME ConfigInv, loading = "line", pos > Len(linebuf), cfg.label_read = 0
  PROVE  \E a0 : IsAdded(a0)
<1>1. /\ text \in Seq(Config!Chars) /\ linebuf \in Seq(Config!Chars)
      /\ Len(text) \in Nat /\ Len(linebuf) \in Nat /\ From \in Nat /\ From + Len(linebuf) = Len(text)
      /\ \A n \in 1..Len(linebuf) : linebuf[n] = text[From + n]
      /\ Len(linebuf) > 0 /\ linebuf[Len(linebuf)] = NL
      /\ \A n \in 1..Len(linebuf) - 1 : linebuf[n] # NL
      /\ From = 0 \/ text[From] = NL
      /\ LineSays(cfg, pos)
  BY LenProperties DEF ConfigInv, ConfigTypes, Collected, From
<1>2. pos - 1 = Len(linebuf)
  BY <1>1 DEF LineSays
<1>3. PICK j \in 1..pos - 1 :
         /\ linebuf[j] = "="
         /\ cfg.label = SubSeq(linebuf, 1, j - 1) /\ cfg.value = SubSeq(linebuf, j + 1, pos - 1)
         /\ \A n \in 1..j - 1 : linebuf[n] \notin {"=", "#"}
         /\ \A n \in j..pos - 1 : linebuf[n] # "#"
  BY <1>1 DEF LineSays
<1>4. NL # "="
  BY DEF NL, Config!Newline
<1>5. j \in 1..Len(linebuf) - 1 /\ j \in 1..Len(linebuf)
  BY <1>1, <1>2, <1>3, <1>4
<1> DEFINE f == From + 1
           g == From + j
           l == Len(text)
           a0 == [first |-> f, sign |-> g, last |-> l]
<1>6. f \in 1..l /\ g \in 1..l /\ l \in 1..l /\ f <= g /\ g < l /\ From < l /\ f - 1 = From
  BY <1>1, <1>5
<1>7. \A n \in f..l : n - From \in 1..Len(linebuf) /\ text[n] = linebuf[n - From]
  <2> SUFFICES ASSUME NEW n \in f..l PROVE n - From \in 1..Len(linebuf) /\ text[n] = linebuf[n - From]
    OBVIOUS
  <2> DEFINE m == n - From
  <2>1. m \in 1..Len(linebuf) /\ From + m = n
    BY <1>1
  <2> HIDE DEF m
  <2>2. linebuf[m] = text[n]
    BY <1>1, <2>1
  <2> QED
    BY <2>1, <2>2 DEF m
<1>8. /\ text[g] = "=" /\ text[l] = NL
      /\ f = 1 \/ text[f - 1] = NL
      /\ \A n \in f .. (l - 1) : text[n] # NL /\ text[n] # "#"
      /\ \A n \in f .. (g - 1) : text[n] # "="
  <2>1. text[g] = "=" /\ text[l] = NL
    <3>1. Len(linebuf) \in 1..Len(linebuf) /\ From + Len(linebuf) = l
      BY <1>1
    <3>2. linebuf[j] = text[From + j] /\ linebuf[Len(linebuf)] = text[From + Len(linebuf)]
      BY <1>1, <1>5, <3>1
    <3> QED
      BY <1>1, <1>3, <3>1, <3>2
  <2>2. f = 1 \/ text[f - 1] = NL
    BY <1>1, <1>6
  <2>3. \A n \in f .. (l - 1) : n \in f..l /\ n - From \in 1..Len(linebuf) - 1 
                              /\ (n - From \in 1..j - 1 \/ n - From \in j..pos - 1)
    BY <1>1, <1>2, <1>5
  <2>4. \A n \in f .. (g - 1) : n \in f..l /\ n - From \in 1..j - 1
    BY <1>1, <1>5
  <2>5. \A n \in f .. (l - 1) : text[n] # NL /\ text[n] # "#"
    BY <1>1, <1>3, <1>7, <2>3
  <2>6. \A n \in f .. (g - 1) : text[n] # "="
    BY <1>3, <1>7, <2>4
  <2> QED
    BY <2>1, <2>2, <2>5, <2>6
<1> HIDE DEF f, g, l
<1>9. a0 \in [first : 1..l, sign : 1..l, last : 1..l] /\ a0.first = f /\ a0.sign = g /\ a0.last = l
  BY <1>6
<1>10. IsAssignment(a0, text)
  <2> HIDE DEF a0
  <2>1. /\ a0 \in [first : 1..Len(text), sign : 1..Len(text), last : 1..Len(text)]
        /\ a0.first = 1 \/ text[a0.first - 1] = NL
    BY <1>8, <1>9 DEF l
  <2>2. /\ a0.first <= a0.sign /\ text[a0.sign] = "="
        /\ a0.sign < a0.last /\ text[a0.last] = NL
    BY <1>6, <1>8, <1>9
  <2>3. /\ \A n \in a0.first .. (a0.last - 1) : text[n] \notin {NL, "#"}
        /\ \A n \in a0.first .. (a0.sign - 1) : text[n] # "="
    BY <1>8, <1>9
  <2> QED
    BY <2>1, <2>2, <2>3, Zenon DEF IsAssignment
<1>11. ASSUME NEW a, IsAssignment(a, text), a.last > From PROVE a = a0
  <2>1. /\ a.first = f /\ a.last = l
        /\ \A n \in 1..(a.sign - From - 1) : linebuf[n] # "="
        /\ a.sign - From \in 1..Len(linebuf) /\ linebuf[a.sign - From] = "="
    BY <1>11, InThisLine DEF f, l
  <2>2. a.sign \in Nat
    BY <1>11 DEF IsAssignment
  <2>3. ~(a.sign - From < j)
    <3> SUFFICES ASSUME a.sign - From < j PROVE FALSE
      OBVIOUS
    <3>1. a.sign - From \in 1..j - 1
      BY <1>1, <1>5, <2>1, <2>2
    <3> QED
      BY <1>3, <2>1, <3>1
  <2>4. ~(a.sign - From > j)
    <3> SUFFICES ASSUME a.sign - From > j PROVE FALSE
      OBVIOUS
    <3>1. j \in 1..(a.sign - From - 1)
      BY <1>1, <1>5, <2>1, <2>2
    <3> QED
      BY <1>3, <2>1, <3>1
  <2>5. a.sign = g
    <3> DEFINE x == a.sign - From
    <3>1. x \in Int /\ j \in Int /\ x + From = a.sign
      BY <1>1, <1>5, <2>2
    <3>2. x = j
      <4> HIDE DEF x
      <4>1. ~(x < j) /\ ~(x > j)
        BY <2>3, <2>4 DEF x
      <4> QED
        BY <3>1, <4>1
    <3> QED
      BY <1>1, <3>1, <3>2 DEF g
  <2> QED
    BY <1>11, <2>1, <2>5 DEF IsAssignment
<1>12. cfg.label = SubSeq(text, f, From + j - 1)
  <2> DEFINE p == j - 1
  <2>1. p \in Nat /\ 1 \in 1..(Len(linebuf) + 1) /\ p \in (1 - 1)..Len(linebuf) /\ From + p = From + j - 1
        /\ From + Len(linebuf) <= Len(text)
    BY <1>1, <1>5
  <2>2. \A n \in 1..p : text[From + n] = linebuf[n]
    BY <1>1, <2>1
  <2> HIDE DEF p
  <2>3. SubSeq(text, From + 1, From + p) = SubSeq(linebuf, 1, p)
    BY <1>1, <2>1, <2>2, CommonPiece
  <2> QED
    BY <1>3, <2>1, <2>3 DEF p, f
<1>13. cfg.value = SubSeq(text, From + j + 1, l)
  <2> DEFINE q == j + 1
             r == Len(linebuf)
  <2>1. q \in 1..(Len(linebuf) + 1) /\ r \in (q - 1)..Len(linebuf) /\ From + q = From + j + 1
        /\ From + Len(linebuf) <= Len(text) /\ From + r = l
    <3>1. From + r = l
      BY <1>1 DEF l
    <3> QED
      BY <1>1, <1>5, <3>1
  <2>2. \A n \in q..r : text[From + n] = linebuf[n]
    BY <1>1, <1>5
  <2>3. cfg.value = SubSeq(linebuf, q, r)
    BY <1>2, <1>3
  <2> HIDE DEF q, r
  <2>4. SubSeq(text, From + q, From + r) = SubSeq(linebuf, q, r)
    BY <1>1, <2>1, <2>2, CommonPiece
  <2> QED
    BY <2>1, <2>3, <2>4
<1> HIDE DEF a0
<1>14. \A a : IsAssignment(a, text) /\ a.last > From => a = a0
  BY <1>11
<1>15. From + j - 1 = g - 1 /\ From + j + 1 = g + 1 /\ f = From + 1 /\ l = Len(text)
  BY <1>1, <1>5 DEF f, g, l
<1>16. cfg.label = SubSeq(text, a0.first, a0.sign - 1) /\ cfg.value = SubSeq(text, a0.sign + 1, a0.last)
  BY <1>9, <1>12, <1>13, <1>15
<1>17. a0.first = From + 1 /\ a0.last = Len(text)
  BY <1>9, <1>15
<1> QED
  BY <1>10, <1>14, <1>16, <1>17, Zenon DEF IsAdded

\* The end of a line (config.c:45-66, 86-94).
LEMMA LineEndKeeps ==
  ASSUME ConfigInv, Config!LineEnd
  PROVE  ConfigInv'
<1>1. /\ loading = "line" /\ pos > Len(linebuf)
      /\ linebuf' = <<>> /\ loading' = "load" /\ UNCHANGED <<text, pos, cfg>>
  BY DEF Config!LineEnd, Config!ClearedLine
<1>2. /\ text \in Seq(Config!Chars) /\ linebuf \in Seq(Config!Chars)
      /\ cfg_tree \in Seq(Seq(Config!Chars) \X Seq(Config!Chars)) /\ Len(cfg_tree) \in Nat
      /\ Len(text) \in Nat /\ Len(linebuf) \in Nat /\ From \in Nat /\ From + Len(linebuf) = Len(text)
      /\ Len(linebuf) > 0 /\ linebuf[Len(linebuf)] = NL
      /\ \A n \in 1..Len(linebuf) : linebuf[n] = text[From + n]
      /\ \A n \in 1..Len(linebuf) - 1 : linebuf[n] # NL
      /\ cfg.label \in Seq(Config!Chars) /\ cfg.value \in Seq(Config!Chars)
      /\ underread \in BOOLEAN
  BY <1>1, LenProperties DEF ConfigInv, ConfigTypes, Collected, From
<1>3. Len(linebuf') = 0 /\ linebuf' \in Seq(Config!Chars)
  BY <1>1
<1>4. From' = Len(text)
  BY <1>1, <1>2, <1>3 DEF From
<1>5. text[Len(text)] = NL
  <2>1. Len(linebuf) \in 1..Len(linebuf)
    BY <1>2
  <2> QED
    BY <1>2, <2>1
<1>6. Collected'
  BY <1>1, <1>2, <1>3, <1>4, <1>5 DEF Collected
<1>7. \A a : a \in Done' <=> IsAssignment(a, text)
  <2>1. \A a : a \in Config!Assignments' <=> IsAssignment(a, text)
    BY <1>1, <1>2, AssignmentIsNext
  <2>2. \A a : IsAssignment(a, text) => a.last <= Len(text)
    BY <1>2 DEF IsAssignment
  <2> QED
    BY <1>4, <2>1, <2>2 DEF Done
<1>8. \A a : a \in Done <=> IsAssignment(a, text) /\ a.last <= From
  BY DoneIs
<1>9. PICK at \in [1..Len(cfg_tree) -> Done] : Enumerates(at, cfg_tree, Done, text)
  BY DEF ConfigInv, Enumerated
<1>10. pos' \in 1..(Len(text') + 1) /\ loading' \in {"load", "line"}
       /\ cfg' \in [label : Seq(Config!Chars), value : Seq(Config!Chars), label_read : {-1, 0, 1}]
  BY <1>1 DEF ConfigInv, ConfigTypes
<1>11. CASE cfg.label_read # 0
  <2>1. UNCHANGED <<cfg_tree, underread>>
    BY <1>11 DEF Config!LineEnd
  <2>2. \A a : IsAssignment(a, text) => a.last <= From
    BY <1>1, <1>11, NothingAdded
  <2>3. Done' = Done
    <3>1. \A a : a \in Done' <=> a \in Done
      BY <1>7, <1>8, <2>2
    <3> QED
      BY <3>1
  <2>4. Enumerated' /\ Underread'
    BY <1>1, <1>9, <2>1, <2>3 DEF ConfigInv, Enumerated, Underread
  <2>5. ConfigTypes'
    BY <1>1, <1>2, <1>3, <1>10, <2>1 DEF ConfigTypes
  <2> QED
    BY <1>1, <1>6, <2>4, <2>5 DEF ConfigInv
<1>12. CASE cfg.label_read = 0
  <2> DEFINE e == <<Config!strstripltw(cfg.label), Config!strstripltw(cfg.value)>>
  <2>1. /\ cfg_tree' = Append(cfg_tree, e)
        /\ underread' = (underread \/ Config!ReadsBefore(cfg.label) \/ Config!ReadsBefore(cfg.value))
    BY <1>12 DEF Config!LineEnd
  <2>2. PICK a0 : IsAdded(a0)
    BY <1>1, <1>12, OneAdded
  <2> DEFINE f == a0.first
             g == a0.sign
             l == Len(text)
  <2>3. /\ IsAssignment(a0, text)
        /\ \A a : IsAssignment(a, text) /\ a.last > From => a = a0
        /\ cfg.label = SubSeq(text, f, g - 1) /\ cfg.value = SubSeq(text, g + 1, l)
        /\ a0.first = f /\ a0.sign = g /\ a0.last = l
    BY <2>2 DEF IsAdded
  <2>4. /\ f \in 1..l /\ g \in 1..l /\ l \in Nat /\ f = From + 1 /\ From < l /\ f <= g /\ g < l
        /\ \A n \in f..(l - 1) : text[n] # NL
        /\ text[l] = NL
    <3>1. /\ a0.first \in 1..l /\ a0.sign \in 1..l /\ a0.first <= a0.sign /\ a0.sign < a0.last
          /\ \A n \in a0.first .. (a0.last - 1) : text[n] # NL
      BY <2>3 DEF IsAssignment
    <3> QED
      BY <1>2, <1>5, <2>2, <2>3, <3>1 DEF IsAdded
  <2> HIDE DEF f, g, l, e
  <2>5. \A a : a \in Done' <=> a \in Done \/ a = a0
    <3>1. \A a : IsAssignment(a, text) => a.last \in Int
      BY DEF IsAssignment
    <3>2. \A a : IsAssignment(a, text) => a.last <= From \/ a.last > From
      BY <1>2, <3>1
    <3> QED
      BY <1>7, <1>8, <2>3, <3>2
  <2>6. Done' = Done \cup {a0}
    BY <2>5
  <2>7. Means(e, a0, text)
    <3>1. Config!Stripped(Config!strstripltw(cfg.label), cfg.label)
          /\ Config!Stripped(Config!strstripltw(cfg.value), cfg.value)
      BY <1>2, StripStrips
    <3> QED
      BY <2>3, <3>1 DEF Means, e
  <2>8. e \in Seq(Config!Chars) \X Seq(Config!Chars)
    BY <1>2, StripStrips DEF e
  <2>9. /\ cfg_tree' \in Seq(Seq(Config!Chars) \X Seq(Config!Chars))
        /\ Len(cfg_tree') = Len(cfg_tree) + 1 /\ cfg_tree'[Len(cfg_tree) + 1] = e
        /\ \A n \in 1..Len(cfg_tree) : cfg_tree'[n] = cfg_tree[n]
    BY <1>2, <2>1, <2>8, AppendProperties
  <2>10. ConfigTypes'
    <3>1. underread' \in BOOLEAN
      BY <2>1
    <3> QED
      BY <1>1, <1>2, <1>3, <1>10, <2>9, <3>1 DEF ConfigTypes
  <2>11. Enumerated'
    <3> DEFINE k == Len(cfg_tree)
               D == Done \cup {a0}
               new == [n \in 1..(k + 1) |-> IF n = k + 1 THEN a0 ELSE at[n]]
    <3>1. new[k + 1] = a0 /\ \A n \in 1..k : new[n] = at[n]
      BY <1>2
    <3>2. \A n \in 1..(k + 1) : n = k + 1 \/ n \in 1..k
      BY <1>2
    <3>3. /\ \A n \in 1..k : at[n] \in Done
          /\ \A a \in Done : \E n \in 1..k : at[n] = a
          /\ \A m, n \in 1..k : m < n => at[m].last < at[n].first
          /\ \A n \in 1..k : Means(cfg_tree[n], at[n], text)
      BY <1>9 DEF Enumerates
    <3>4. new \in [1..(k + 1) -> D]
      BY <1>2, <3>3, SMTT(30)
    <3> HIDE DEF new, k, D
    <3>5. \A a \in D : \E n \in 1..(k + 1) : new[n] = a
      <4>1. k + 1 \in 1..(k + 1) /\ \A n \in 1..k : n \in 1..(k + 1)
        BY <1>2 DEF k
      <4> QED
        BY <3>1, <3>3, <4>1 DEF D
    <3>6. \A m, n \in 1..(k + 1) : m < n => new[m].last < new[n].first
      <4> SUFFICES ASSUME NEW m \in 1..(k + 1), NEW n \in 1..(k + 1), m < n
                   PROVE  new[m].last < new[n].first
        OBVIOUS
      <4>1. m \in 1..k
        BY <1>2 DEF k
      <4>2. CASE n \in 1..k
        BY <3>1, <3>3, <4>1, <4>2
      <4>3. CASE n = k + 1
        <5>1. at[m].last <= From /\ at[m].last \in Int
          BY <1>8, <3>3, <4>1 DEF IsAssignment
        <5>2. new[m] = at[m] /\ new[n] = a0
          BY <3>1, <4>1, <4>3
        <5> QED
          BY <1>2, <2>3, <2>4, <5>1, <5>2, SMTT(30)
      <4> QED
        BY <3>2, <4>2, <4>3
    <3>7. \A n \in 1..(k + 1) : Means(cfg_tree'[n], new[n], text)
      BY <2>7, <2>9, <3>1, <3>2, <3>3 DEF k
    <3>8. Len(cfg_tree') = k + 1
      BY <2>9 DEF k
    <3>9. Enumerates(new, cfg_tree', D, text)
      BY <3>4, <3>5, <3>6, <3>7, <3>8 DEF Enumerates
    <3>10. Done' = D /\ text' = text
      BY <1>1, <2>6 DEF D
    <3> QED
      BY <3>4, <3>8, <3>9, <3>10 DEF Enumerated
  <2>12. Underread'
    <3>1. Config!ReadsBefore(cfg.label) <=> \A n \in f..(g - 1) : text[n] = " "
      <4> DEFINE y == g - 1
      <4>1. f \in 1..(Len(text) + 1) /\ y \in (f - 1)..Len(text) /\ y \in (f - 1)..y
        BY <1>2, <2>4 DEF l
      <4>2. (\A n \in f..y : text[n] # NL) /\ \A n \in (y + 1)..y : text[n] = NL
        BY <2>4
      <4> HIDE DEF y
      <4>3. Config!ReadsBefore(SubSeq(text, f, y)) <=> \A n \in f..y : text[n] = " "
        BY <1>2, <4>1, <4>2, BlankPiece, ZenonT(60)
      <4> QED
        BY <2>3, <4>3 DEF y
    <3>2. Config!ReadsBefore(cfg.value) <=> \A n \in (g + 1)..(l - 1) : text[n] = " "
      <4> DEFINE x == g + 1
                 z == l - 1
      <4>1. x \in 1..(Len(text) + 1) /\ l \in (x - 1)..Len(text) /\ z \in (x - 1)..l
        BY <1>2, <2>4 DEF l
      <4>2. (\A n \in x..z : text[n] # NL) /\ \A n \in (z + 1)..l : text[n] = NL
        BY <2>4
      <4> HIDE DEF x, z
      <4>3. Config!ReadsBefore(SubSeq(text, x, l)) <=> \A n \in x..z : text[n] = " "
        BY <1>2, <4>1, <4>2, BlankPiece, ZenonT(60)
      <4> QED
        BY <2>3, <4>3 DEF x, z
    <3>3. Lacks(a0, text) <=> Config!ReadsBefore(cfg.label) \/ Config!ReadsBefore(cfg.value)
      BY <2>3, <3>1, <3>2, Zenon DEF Lacks
    <3>4. underread <=> \E a \in Done : Lacks(a, text)
      BY DEF ConfigInv, Underread
    <3>5. (\E a \in Done' : Lacks(a, text)) <=> (\E a \in Done : Lacks(a, text)) \/ Lacks(a0, text)
      BY <2>5
    <3> QED
      BY <1>1, <2>1, <3>3, <3>4, <3>5 DEF Underread
  <2> QED
    BY <1>1, <1>6, <2>10, <2>11, <2>12 DEF ConfigInv
<1> QED
  BY <1>11, <1>12

\* Every step of config.c keeps the invariant.
LEMMA ConfigNext == ConfigInv /\ [Config!Next]_cfgVars => ConfigInv'
<1> SUFFICES ASSUME ConfigInv, [Config!Next]_cfgVars PROVE ConfigInv'
  OBVIOUS
<1>1. CASE UNCHANGED cfgVars
  <2>1. /\ UNCHANGED <<text, loading, linebuf, pos, cfg, cfg_tree, underread>>
        /\ text' \in Seq(Config!Chars) /\ Len(text) <= Len(text') /\ \A n \in 1..Len(text) : text'[n] = text[n]
    BY <1>1, LenProperties DEF cfgVars, ConfigInv, ConfigTypes
  <2>2. From' = From
    BY <2>1 DEF From
  <2>3. Enumerated' /\ Underread'
    BY <2>1, <2>2, LinesBefore
  <2>4. ConfigTypes' /\ Collected'
    BY <2>1, <2>2 DEF ConfigInv, ConfigTypes, Collected
  <2>5. loading' = "line" => LineSays(cfg, pos)'
    BY <2>1 DEF ConfigInv, LineSays
  <2> QED
    BY <2>3, <2>4, <2>5 DEF ConfigInv
<1>2. CASE \E ch \in Config!Chars : Config!ReadChar(ch)
  BY <1>2, CharRead
<1>3. CASE Config!Comment \/ Config!Assign \/ Config!LabelChar \/ Config!ValueChar
  BY <1>3, LoopStepKeeps
<1>4. CASE Config!LineEnd
  BY <1>4, LineEndKeeps
<1> QED
  BY <1>1, <1>2, <1>3, <1>4 DEF Config!Next

\* Between two lines nothing but the complete ones counts.
LEMMA BetweenLines ==
  ASSUME ConfigInv, loading = "load"
  PROVE  Done = Config!Assignments
<1>1. /\ text \in Seq(Config!Chars) /\ Len(text) \in Nat /\ Len(linebuf) \in Nat
      /\ From \in Nat /\ From + Len(linebuf) = Len(text)
      /\ \A n \in 1..Len(linebuf) : linebuf[n] = text[From + n] /\ linebuf[n] # NL
  BY LenProperties DEF ConfigInv, ConfigTypes, Collected, From
<1> SUFFICES ASSUME NEW a \in Config!Assignments, a.last > From PROVE FALSE
  <2>1. \A a \in Config!Assignments : a.last \in Int
    BY <1>1, AssignmentIs DEF IsAssignment
  <2>2. \A a \in Config!Assignments : a.last <= From
    BY <1>1, <2>1
  <2> QED
    BY <2>2 DEF Done
<1>2. a.last \in 1..Len(text) /\ text[a.last] = NL
  BY <1>1, AssignmentIs DEF IsAssignment
<1> DEFINE m == a.last - From
<1>3. m \in 1..Len(linebuf) /\ From + m = a.last
  BY <1>1, <1>2
<1> HIDE DEF m
<1> QED
  BY <1>1, <1>2, <1>3

LEMMA ConfigWell == ConfigInv => Config!TypeOK /\ Config!ConfigReadAsWritten /\ Config!UnderreadOnlyForBlanks
<1> SUFFICES ASSUME ConfigInv
             PROVE  Config!TypeOK /\ Config!ConfigReadAsWritten /\ Config!UnderreadOnlyForBlanks
  OBVIOUS
<1>1. Config!TypeOK
  BY DEF ConfigInv, ConfigTypes, Config!TypeOK
<1>2. ASSUME loading = "load"
      PROVE  \E at \in [DOMAIN cfg_tree -> Config!Assignments] :
               /\ Config!Assignments = {at[n] : n \in DOMAIN at}
               /\ \A m, n \in DOMAIN at : m < n => at[m].last < at[n].first
               /\ \A n \in DOMAIN at : Config!Says(cfg_tree[n], at[n])
  <2>1. Done = Config!Assignments /\ DOMAIN cfg_tree = 1..Len(cfg_tree)
    BY <1>2, BetweenLines, LenProperties DEF ConfigInv, ConfigTypes
  <2>2. PICK at \in [1..Len(cfg_tree) -> Done] : Enumerates(at, cfg_tree, Done, text)
    BY DEF ConfigInv, Enumerated
  <2>3. /\ at \in [DOMAIN cfg_tree -> Config!Assignments] /\ DOMAIN at = 1..Len(cfg_tree)
        /\ Config!Assignments = {at[n] : n \in DOMAIN at}
    BY <2>1, <2>2 DEF Enumerates
  <2>4. \A n \in DOMAIN at : Config!Says(cfg_tree[n], at[n])
    BY <2>2, <2>3 DEF Enumerates, Means, Config!Says
  <2>5. \A m, n \in DOMAIN at : m < n => at[m].last < at[n].first
    BY <2>2, <2>3 DEF Enumerates
  <2> QED
    BY <2>3, <2>4, <2>5
<1>3. Config!ConfigReadAsWritten
  BY <1>2 DEF Config!ConfigReadAsWritten
<1>4. Config!UnderreadOnlyForBlanks
  BY BetweenLines DEF ConfigInv, Underread, Lacks, Config!UnderreadOnlyForBlanks
<1> QED
  BY <1>1, <1>3, <1>4

LEMMA ConfigAlways == Config!Spec => []ConfigInv
<1>1. Config!Init => ConfigInv
  BY ConfigInit
<1>2. ConfigInv /\ [Config!Next]_Config!vars => ConfigInv'
  BY ConfigNext DEF Config!vars, cfgVars
<1> QED
  BY <1>1, <1>2, PTL DEF Config!Spec

-----------------------------------------------------------------------------
(***************************************************************************)
(* A behaviour of Texts is one of each of the four modules.                 *)
(***************************************************************************)
LEMMA Behaviours ==
  TextsSpec => Spec /\ Config!Spec /\ Routes!Spec /\ Request!Spec
<1>1. TextsInit => Init /\ Config!Init /\ Routes!Init /\ Request!Init
  BY DEF TextsInit
<1> DEFINE all == <<what, vars, cfgVars, routeVars, reqVars>>
<1>2. [TextsNext]_all => [Next]_vars
  BY DEF TextsNext
<1>3. [TextsNext]_all => [Config!Next]_Config!vars
  BY DEF TextsNext, Config!vars, cfgVars
<1>4. [TextsNext]_all => [Routes!Next]_Routes!vars
  BY DEF TextsNext, Routes!vars, routeVars
<1>5. [TextsNext]_all => [Request!Next]_Request!vars
  BY DEF TextsNext, Request!vars, reqVars
<1> QED
  BY <1>1, <1>2, <1>3, <1>4, <1>5, PTL DEF TextsSpec, Spec, Config!Spec, Routes!Spec, Request!Spec

\* Whatever a configuration file contains, after each of its lines the tree
\* holds the assignments of the complete lines, stripped, each once and in
\* their order (httpserv_config_load and httpserv_config_process_line).
THEOREM ConfigCorrect == TextsSpec => []ConfigReadAsWritten
<1>1. ConfigInv => ConfigReadAsWritten
  BY ConfigWell DEF ConfigReadAsWritten
<1> QED
  BY <1>1, Behaviours, ConfigAlways, PTL

\* The byte in front of a string is read (strstriptw, stringh.c:24) exactly when
\* an assignment without a label or without a value has been processed.
THEOREM UnderreadCorrect == TextsSpec => []UnderreadOnlyForBlanks
<1>1. ConfigInv => UnderreadOnlyForBlanks
  BY ConfigWell DEF UnderreadOnlyForBlanks
<1> QED
  BY <1>1, Behaviours, ConfigAlways, PTL

\* Of the lines of a file of routes that match a path the last one decides, with
\* the target as it is written (__httpserv_parse_line, httpserv_router_parse_from_file,
\* httpserv_router_add_route and httpserv_router_lookup).
THEOREM LookupCorrect == TextsSpec => []LastMatchDecides
<1>1. RoutesInv => LastMatchDecides
  BY RoutesDecide DEF LastMatchDecides
<1> QED
  BY <1>1, Behaviours, RoutesAlways, PTL

\* A file of routes whose patterns all compile gives a router with all of them.
THEOREM GoodRouter == TextsSpec => []GoodFileGivesRouter
<1>1. RoutesInv => GoodFileGivesRouter
  BY RoutesGood DEF GoodFileGivesRouter
<1> QED
  BY <1>1, Behaviours, RoutesAlways, PTL
=============================================================================
