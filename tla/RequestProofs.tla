---------------------------- MODULE RequestProofs ----------------------------
(***************************************************************************)
(* Proofs about the reader of a request, for lines and requests of any     *)
(* length.                                                                  *)
(*                                                                          *)
(* The parser keeps positions, not lines, and its invariant says where they *)
(* are.  Of any request: what has been collected ends where the parser is,  *)
(* and the headers kept so far stand in the content, in order, before it    *)
(* (HeadersInv).  Of a well-formed one also: the lines lie in the content   *)
(* one behind the other (Layout), the parser is in one of them, has read it *)
(* from its first symbol on and has kept all before it (ReadSoFar).         *)
(***************************************************************************)
EXTENDS TextProofs

-----------------------------------------------------------------------------
(***************************************************************************)
(* The head of a request.                                                   *)
(***************************************************************************)
CRLF == Request!CRLF
BeforeHeaders == {"reading", "method", "path", "version"}

\* What is collected of a header.
Piece == IF header.keyread THEN Request!Formatted(header.key, header.value) ELSE header.key

\* t stands in c from position p on.
StandsAt(t, p, c) ==
  /\ p \in 1..Len(c) + 1 /\ p + Len(t) <= Len(c) + 1
  /\ \A n \in 1..Len(t) : c[p + n - 1] = t[n]

RequestTypes ==
  /\ sent \in Seq(RequestLines \cup HeaderLines \cup {<<>>})
  /\ content \in Seq(Symbols)
  /\ parsing \in {"reading", "method", "path", "version", "headers", "parsed", "refused"}
  /\ here \in 1 .. (Len(content) + 2)
  /\ req \in [smethod : Seq(Symbols), path : Seq(Symbols), headers : Seq(Seq(Symbols))]
  /\ header \in [key : Seq(Symbols), value : Seq(Symbols), keyread : BOOLEAN]

\* Where the headers that were kept stand in the content.
Kept(at) ==
  /\ at \in [1..Len(req.headers) -> 1..Len(content)]
  /\ \A n \in 1..Len(req.headers) :
       /\ StandsAt(req.headers[n] \o CRLF, at[n], content)
       /\ at[n] + Len(req.headers[n]) + 2 <= here - Len(Piece)
  /\ \A n, m \in 1..Len(req.headers) : n < m => at[n] + Len(req.headers[n]) < at[m]

HeadersInv ==
  /\ ~header.keyread => header.value = <<>>
  /\ parsing \in BeforeHeaders => header = Request!NoKey /\ req.headers = <<>>
  /\ parsing \in {"reading", "method", "version"} => here <= Len(content) + 1
  /\ parsing \in {"headers", "parsed"} =>
       /\ Len(Piece) < here /\ StandsAt(Piece, here - Len(Piece), content)
       /\ \E at \in [1..Len(req.headers) -> 1..Len(content)] : Kept(at)

\* Line n of the request begins at off[n].
Layout(off) ==
  /\ off \in [1..Len(sent) + 1 -> Nat]
  /\ off[1] = 1 /\ off[Len(sent) + 1] = Len(content) + 1
  /\ \A n \in 1..Len(sent) : /\ off[n + 1] = off[n] + (Len(sent[n]) + 2)
                             /\ StandsAt(sent[n] \o CRLF, off[n], content)

\* The parts of the first line: the path is p symbols long.
FirstLine(p) ==
  /\ Len(sent[1]) = p + 4
  /\ sent[1][1] = "GET" /\ sent[1][2] = " " /\ sent[1][p + 3] = " "
  /\ \A m \in 3..p + 2 : sent[1][m] # " "
  /\ Request!SaysPath(SubSeq(sent[1], 3, p + 2))

\* How much of line k has been read.
InLine(k) ==
  /\ req.headers = SubSeq(sent, 2, k - 1)
  /\ Len(Piece) <= Len(sent[k]) /\ Piece = SubSeq(sent[k], 1, Len(Piece))
  /\ header.keyread => header.key # <<>>
  /\ ~header.keyread => \A n \in 1..Len(Piece) :
       ~(n < Len(sent[k]) /\ sent[k][n] = ":" /\ sent[k][n + 1] = " ")

ReadSoFar(off, p) ==
  /\ parsing # "refused"
  /\ parsing = "method" => (here = 1 /\ req.smethod = <<>>) \/ (here = 2 /\ req.smethod = <<"GET">>)
  /\ parsing = "path" => here \in 3..p + 3 /\ req.path = SubSeq(sent[1], 3, here - 1)
  /\ parsing \in {"version", "headers", "parsed"} => req.path = SubSeq(sent[1], 3, p + 2)
  /\ parsing = "version" => here = p + 5
  /\ parsing = "headers" => \E k \in 2..Len(sent) : here = off[k] + Len(Piece) /\ InLine(k)
  /\ parsing = "parsed" => req.headers = SubSeq(sent, 2, Len(sent) - 1)

Position ==
  /\ sent = <<>> => parsing = "reading"
  /\ parsing = "reading" => here = 1 /\ req.smethod = <<>> /\ req.path = <<>>
  /\ parsing = "method" => req.path = <<>>
  /\ parsing # "reading" => Len(sent) >= 2 /\ sent[Len(sent)] = <<>>

RequestInv ==
  /\ RequestTypes
  /\ HeadersInv
  /\ Position
  /\ \E off \in [1..Len(sent) + 1 -> Nat] :
       /\ Layout(off)
       /\ parsing # "reading" /\ Request!WellFormed => \E p \in Nat : FirstLine(p) /\ ReadSoFar(off, p)

\* Where SelectInSeq looks: the least of the positions, if there is any.
LEMMA MinOf ==
  ASSUME NEW S, S \subseteq Nat, S # {}
  PROVE  Request!Min(S) \in S /\ \A n \in S : Request!Min(S) <= n
<1>1. \E n \in S : \A m \in S : n <= m
  BY LeastOf
<1> QED
  BY <1>1 DEF Request!Min

\* A prefix, by its characters.
LEMMA PrefixIs ==
  ASSUME NEW S, NEW s \in Seq(S), NEW t \in Seq(S)
  PROVE  Request!IsPrefix(s, t) <=> Len(s) <= Len(t) /\ \A n \in 1..Len(s) : s[n] = t[n]
<1>1. Len(s) \in Nat /\ Len(t) \in Nat
  BY LenProperties
<1>2. SubSeq(s, 1, Len(s)) = s
  BY SubSeqFull
<1> SUFFICES ASSUME Len(s) <= Len(t)
             PROVE  s = SubSeq(t, 1, Len(s)) <=> \A n \in 1..Len(s) : s[n] = t[n]
  BY <1>2 DEF Request!IsPrefix
<1> DEFINE P == SubSeq(t, 1, Len(s))
<1>3. /\ P \in Seq(S) /\ Len(P) = Len(s) /\ \A n \in 1..Len(s) : P[n] = t[n]
  <2>1. 1 \in 1..(Len(t) + 1) /\ Len(s) \in (1 - 1)..Len(t) /\ Len(s) - 1 + 1 = Len(s)
        /\ \A n \in 1..Len(s) : 1 + n - 1 = n
    BY <1>1
  <2> QED
    BY <2>1, PieceOf
<1> HIDE DEF P
<1>4. (\A n \in 1..Len(s) : s[n] = t[n]) => s = P
  BY <1>3, SeqEqual
<1>5. s = P => \A n \in 1..Len(s) : s[n] = t[n]
  BY <1>3
<1> QED
  BY <1>4, <1>5 DEF P

\* A header of this name is the name, the two characters and what is found.
LEMMA FoundText ==
  ASSUME NEW h \in Seq(Symbols), NEW key \in Seq(Symbols), Request!Named(h, key)
  PROVE  Request!IsPrefix(key, h)
         /\ Request!Formatted(key, SubSeq(h, Len(key) + 3, Len(h))) = h
<1> DEFINE colon == <<":", " ">>
<1>1. colon \in Seq(Symbols) /\ Len(colon) = 2 /\ colon[1] = ":" /\ colon[2] = " "
  <2>1. ":" \in Symbols /\ " " \in Symbols
    BY SymbolsAssumption, Zenon
  <2>2. ASSUME NEW x \in Symbols, NEW y \in Symbols PROVE <<x, y>> \in Seq(Symbols)
    OBVIOUS
  <2>3. Len(colon) = 2 /\ colon[1] = ":" /\ colon[2] = " "
    OBVIOUS
  <2> QED
    BY <2>1, <2>2, <2>3, Zenon
<1> HIDE DEF colon
<1>2. Request!Formatted(key, <<>>) = key \o colon
  <2>1. key \o colon \in Seq(Symbols)
    BY <1>1, ConcatProperties, Zenon
  <2> QED
    BY <2>1, ConcatEmptySeq, Zenon DEF Request!Formatted, colon
<1>3. /\ key \o colon \in Seq(Symbols) /\ Len(key \o colon) = Len(key) + 2
      /\ \A n \in 1..Len(key) : (key \o colon)[n] = key[n]
      /\ (key \o colon)[Len(key) + 1] = ":" /\ (key \o colon)[Len(key) + 2] = " "
  <2>1. /\ key \o colon \in Seq(Symbols) /\ Len(key \o colon) = Len(key) + Len(colon)
        /\ \A n \in 1..Len(key) + Len(colon) :
             (key \o colon)[n] = IF n <= Len(key) THEN key[n] ELSE colon[n - Len(key)]
    BY <1>1, ConcatProperties, Zenon
  <2>2. Len(key) \in Nat
    BY LenProperties
  <2>3. /\ Len(key) + 1 - Len(key) = 1 /\ Len(key) + 2 - Len(key) = 2
        /\ Len(key) + 1 \in 1..Len(key) + 2 /\ Len(key) + 2 \in 1..Len(key) + 2
        /\ ~(Len(key) + 1 <= Len(key)) /\ ~(Len(key) + 2 <= Len(key))
        /\ \A n \in 1..Len(key) : n \in 1..Len(key) + 2 /\ n <= Len(key)
    BY <2>2
  <2> DEFINE K == key \o colon
  <2>4. \A n \in 1..Len(key) + 2 : K[n] = IF n <= Len(key) THEN key[n] ELSE colon[n - Len(key)]
    BY <1>1, <2>1, Zenon
  <2>5. K \in Seq(Symbols) /\ Len(K) = Len(key) + 2
    BY <1>1, <2>1, Zenon
  <2> HIDE DEF K
  <2>6. \A n \in 1..Len(key) : K[n] = key[n]
    BY <2>3, <2>4
  <2>7. K[Len(key) + 1] = ":" /\ K[Len(key) + 2] = " "
    <3> DEFINE x == Len(key) + 1
               y == Len(key) + 2
    <3>1. /\ x \in 1..Len(key) + 2 /\ ~(x <= Len(key)) /\ x - Len(key) = 1
          /\ y \in 1..Len(key) + 2 /\ ~(y <= Len(key)) /\ y - Len(key) = 2
      BY <2>3
    <3> HIDE DEF x, y
    <3>2. K[x] = colon[1] /\ K[y] = colon[2]
      BY <2>4, <3>1
    <3> QED
      BY <1>1, <3>2, Zenon DEF x, y
  <2> QED
    BY <2>5, <2>6, <2>7, Zenon DEF K
<1> DEFINE K == key \o colon
<1>4. Len(key) \in Nat /\ Len(h) \in Nat
  BY LenProperties
<1>5. Len(key) + 2 <= Len(h) /\ \A n \in 1..Len(key) + 2 : K[n] = h[n]
  <2>1. Request!IsPrefix(K, h) /\ K \in Seq(Symbols) /\ Len(K) = Len(key) + 2
    BY <1>2, <1>3, Zenon DEF Request!Named
  <2> HIDE DEF K
  <2>2. Len(K) <= Len(h) /\ \A n \in 1..Len(K) : K[n] = h[n]
    BY <2>1, PrefixIs
  <2> QED
    BY <2>1, <2>2
<1>6. Request!IsPrefix(key, h)
  <2>1. Len(key) <= Len(h) /\ \A n \in 1..Len(key) : n \in 1..Len(key) + 2
    BY <1>4, <1>5
  <2> QED
    BY <1>3, <1>5, <2>1, PrefixIs, Zenon
<1> DEFINE rest == SubSeq(h, Len(key) + 3, Len(h))
<1>7. /\ rest \in Seq(Symbols) /\ Len(rest) = Len(h) - (Len(key) + 2)
      /\ \A n \in 1..Len(h) - (Len(key) + 2) : rest[n] = h[Len(key) + 2 + n]
  <2> DEFINE x == Len(key) + 3
  <2>1. x \in 1..(Len(h) + 1) /\ Len(h) \in (x - 1)..Len(h) /\ Len(h) - x + 1 = Len(h) - (Len(key) + 2)
        /\ \A n \in 1..Len(h) - (Len(key) + 2) : x + n - 1 = Len(key) + 2 + n
    BY <1>4, <1>5
  <2> HIDE DEF x
  <2>2. /\ SubSeq(h, x, Len(h)) \in Seq(Symbols) /\ Len(SubSeq(h, x, Len(h))) = Len(h) - x + 1
        /\ \A n \in 1..Len(h) - x + 1 : SubSeq(h, x, Len(h))[n] = h[x + n - 1]
    BY <2>1, PieceOf
  <2>3. rest = SubSeq(h, x, Len(h))
    BY DEF x
  <2> QED
    BY <2>1, <2>2, <2>3
<1> HIDE DEF rest, K
<1>8. K \o rest = h
  <2>1. /\ K \o rest \in Seq(Symbols) /\ Len(K \o rest) = Len(K) + Len(rest)
        /\ \A n \in 1..Len(K) + Len(rest) :
             (K \o rest)[n] = IF n <= Len(K) THEN K[n] ELSE rest[n - Len(K)]
    BY <1>3, <1>7, ConcatProperties, Zenon DEF K
  <2>2. Len(K) = Len(key) + 2 /\ Len(K) + Len(rest) = Len(h)
    <3>1. Len(K) = Len(key) + 2
      BY <1>3, Zenon DEF K
    <3> QED
      BY <1>4, <1>5, <1>7, <3>1
  <2>3. \A n \in 1..Len(h) : (K \o rest)[n] = h[n]
    <3> SUFFICES ASSUME NEW n \in 1..Len(h) PROVE (K \o rest)[n] = h[n]
      OBVIOUS
    <3>1. CASE n <= Len(K)
      BY <1>4, <1>5, <2>1, <2>2, <3>1
    <3>2. CASE ~(n <= Len(K))
      <4>1. n - Len(K) \in 1..Len(h) - (Len(key) + 2) /\ Len(key) + 2 + (n - Len(K)) = n
        BY <1>4, <2>2, <3>2
      <4> QED
        BY <1>7, <2>1, <2>2, <3>2, <4>1
    <3> QED
      BY <3>1, <3>2
  <2> QED
    BY <2>1, <2>2, <2>3, SeqEqual
<1>9. Request!Formatted(key, rest) = K \o rest
  BY DEF Request!Formatted, K, colon
<1> QED
  BY <1>6, <1>8, <1>9 DEF rest

\* The search for a header (request.c:180-193).
LEMMA HeaderIsFound ==
  ASSUME RequestTypes
  PROVE  Request!HeaderFound
<1>1. req.headers \in Seq(Seq(Symbols)) /\ Len(req.headers) \in Nat
  BY LenProperties DEF RequestTypes
<1> SUFFICES ASSUME NEW key \in Keys
             PROVE  LET named == Request!SelectInSeq(req.headers, LAMBDA h : Request!Named(h, key))
                        similar == Request!SelectInSeq(req.headers,
                                     LAMBDA h : Request!IsPrefix(key, h) /\ ~Request!Named(h, key))
                        found == Request!GetHeader(req.headers, key)
                    IN  /\ found = NoHeader <=> named = 0 /\ similar = 0
                        /\ named # 0 /\ (similar = 0 \/ named < similar) =>
                             Request!Formatted(key, found) = req.headers[named]
  BY DEF Request!HeaderFound
<1> DEFINE hs == req.headers
           N == {n \in 1..Len(hs) : Request!Named(hs[n], key)}
           M == {n \in 1..Len(hs) : Request!IsPrefix(key, hs[n]) /\ ~Request!Named(hs[n], key)}
           F == {n \in 1..Len(hs) : Request!IsPrefix(key, hs[n])}
           first(S) == IF S # {} THEN Request!Min(S) ELSE 0
           found == Request!GetHeader(hs, key)
<1>2. /\ Request!SelectInSeq(hs, LAMBDA h : Request!Named(h, key)) = first(N)
      /\ Request!SelectInSeq(hs, LAMBDA h : Request!IsPrefix(key, h) /\ ~Request!Named(h, key)) = first(M)
  BY DEF Request!SelectInSeq
<1>3. found = IF first(F) = 0 THEN NoHeader ELSE SubSeq(hs[first(F)], Len(key) + 3, Len(hs[first(F)]))
  BY DEF Request!GetHeader, Request!SelectInSeq
<1>4. key \in Seq(Symbols) /\ \A n \in 1..Len(hs) : hs[n] \in Seq(Symbols)
  BY <1>1, RequestAssumption, ElementOfSeq
<1>5. F = N \cup M /\ N \cap M = {} /\ F \subseteq Nat \ {0}
  <2>1. \A n \in 1..Len(hs) : Request!Named(hs[n], key) => Request!IsPrefix(key, hs[n])
    BY <1>4, FoundText
  <2>2. F \subseteq Nat \ {0}
    BY <1>1
  <2>3. N \cap M = {}
    OBVIOUS
  <2>4. \A n \in 1..Len(hs) : n \in F <=> n \in N \/ n \in M
    BY <2>1
  <2>5. F \subseteq 1..Len(hs) /\ N \subseteq 1..Len(hs) /\ M \subseteq 1..Len(hs)
    OBVIOUS
  <2> HIDE DEF F, N, M
  <2> QED
    BY <2>2, <2>3, <2>4, <2>5
<1> DEFINE value == SubSeq(hs[first(F)], Len(key) + 3, Len(hs[first(F)]))
<1>6. ASSUME F # {} PROVE first(F) \in F /\ value # NoHeader
  <2>1. first(F) \in F
    BY <1>5, <1>6, MinOf
  <2> DEFINE g == hs[first(F)]
  <2>2. g \in Seq(Symbols) /\ Len(g) \in Nat /\ Len(key) \in Nat
    BY <1>4, <2>1, LenProperties
  <2> HIDE DEF g, first, F
  <2>3. SubSeq(g, Len(key) + 3, Len(g)) \in Seq(Symbols)
    <3> DEFINE x == Len(key) + 3
    <3>1. CASE x <= Len(g) + 1
      <4>1. x \in 1..(Len(g) + 1) /\ Len(g) \in (x - 1)..Len(g)
        BY <2>2, <3>1
      <4> HIDE DEF x
      <4>2. SubSeq(g, x, Len(g)) \in Seq(Symbols)
        BY <2>2, <4>1, PieceOf
      <4> QED
        BY <4>2 DEF x
    <3>2. CASE ~(x <= Len(g) + 1)
      <4>1. x \in Int /\ Len(g) \in Int /\ Len(g) < x
        BY <2>2, <3>2
      <4> HIDE DEF x
      <4>2. SubSeq(g, x, Len(g)) = <<>>
        BY <4>1, SubSeqEmpty
      <4>3. <<>> \in Seq(Symbols)
        OBVIOUS
      <4> QED
        BY <4>2, <4>3 DEF x
    <3> QED
      BY <3>1, <3>2
  <2> QED
    BY <2>1, <2>3, RequestAssumption DEF g
<1>7. found = NoHeader <=> first(N) = 0 /\ first(M) = 0
  <2>1. \A S : S \subseteq F => (first(S) = 0 <=> S = {})
    <3> SUFFICES ASSUME NEW S, S \subseteq F, S # {} PROVE first(S) # 0
      OBVIOUS
    <3>1. S \subseteq Nat
      BY <1>5
    <3>2. Request!Min(S) \in S
      BY <3>1, MinOf
    <3> QED
      BY <1>5, <3>2
  <2>2. (first(N) = 0 <=> N = {}) /\ (first(M) = 0 <=> M = {}) /\ (first(F) = 0 <=> F = {})
    BY <1>5, <2>1
  <2> HIDE DEF first, F, N, M
  <2> QED
    BY <1>3, <1>5, <1>6, <2>2
<1>8. ASSUME first(N) # 0, first(M) = 0 \/ first(N) < first(M)
      PROVE  Request!Formatted(key, found) = hs[first(N)]
  <2>1. N # {} /\ N \subseteq Nat /\ M \subseteq Nat /\ F # {}
    BY <1>5, <1>8
  <2>2. first(N) \in N /\ \A n \in N : first(N) <= n
    BY <2>1, MinOf
  <2>3. \A n \in M : first(N) < n
    <3> SUFFICES ASSUME NEW n \in M PROVE first(N) < n
      OBVIOUS
    <3>1. first(M) \in M /\ first(M) <= n
      BY <2>1, MinOf
    <3>2. first(M) # 0
      BY <1>5, <3>1
    <3> HIDE DEF first, N, M, F
    <3>3. first(N) \in Nat /\ first(M) \in Nat /\ n \in Nat
      BY <2>1, <2>2, <3>1
    <3> QED
      BY <1>8, <3>1, <3>2, <3>3
  <2>4. first(F) \in F /\ \A n \in F : first(F) <= n
    BY <1>5, <2>1, MinOf
  <2> HIDE DEF first, N, M, F
  <2>5. first(F) = first(N)
    <3>1. first(N) \in F /\ first(F) \in Nat /\ first(N) \in Nat
      BY <1>5, <2>1, <2>2, <2>4
    <3>2. first(F) <= first(N)
      BY <2>4, <3>1
    <3>3. first(N) <= first(F)
      BY <1>5, <2>2, <2>3, <2>4, <3>1
    <3> QED
      BY <3>1, <3>2, <3>3
  <2>6. hs[first(N)] \in Seq(Symbols) /\ Request!Named(hs[first(N)], key)
    BY <1>4, <2>2 DEF N
  <2>7. Request!Formatted(key, SubSeq(hs[first(N)], Len(key) + 3, Len(hs[first(N)]))) = hs[first(N)]
    BY <1>4, <2>6, FoundText
  <2>8. first(F) # 0
    BY <1>5, <2>4
  <2> QED
    BY <1>3, <2>5, <2>7, <2>8
<1> HIDE DEF first, N, M, F, found
<1> QED
  BY <1>2, <1>7, <1>8 DEF found

\* A character that is looked at and is not the NUL is one of the content.
LEMMA AtIs ==
  ASSUME RequestTypes, NEW n \in Nat, Request!At(n) \in {"CR", "LF", " ", ":"}
  PROVE  n <= Len(content) /\ content[n] = Request!At(n)
BY Zenon DEF Request!At

LEMMA ByteIs ==
  ASSUME RequestTypes, here <= Len(content)
  PROVE  Request!Byte = content[here] /\ content[here] \in Symbols /\ here \in 1..Len(content)
<1>1. content \in Seq(Symbols) /\ Len(content) \in Nat /\ here \in Nat /\ here >= 1
  BY LenProperties DEF RequestTypes
<1>2. here \in 1..Len(content)
  BY <1>1
<1> QED
  BY <1>1, <1>2, ElementOfSeq DEF Request!Byte, Request!At

LEMMA CRLFIs ==
  /\ CRLF \in Seq(Symbols) /\ Len(CRLF) = 2 /\ CRLF[1] = "CR" /\ CRLF[2] = "LF"
<1>1. "CR" \in Symbols /\ "LF" \in Symbols
  BY SymbolsAssumption, Zenon
<1>2. ASSUME NEW x \in Symbols, NEW y \in Symbols PROVE <<x, y>> \in Seq(Symbols)
  OBVIOUS
<1>3. CRLF = <<"CR", "LF">>
  BY DEF CRLF, Request!CRLF
<1> QED
  BY <1>1, <1>2, <1>3

\* The end of a line stands where the parser sees it.
LEMMA AtLineEnd ==
  ASSUME RequestTypes, Request!AtCRLF
  PROVE  /\ here \in 1..Len(content) /\ here + 1 \in 1..Len(content)
         /\ content[here] = "CR" /\ content[here + 1] = "LF"
         /\ StandsAt(CRLF, here, content)
<1>1. here \in Nat /\ here >= 1 /\ Len(content) \in Nat
  BY LenProperties DEF RequestTypes
<1>2. here <= Len(content) /\ content[here] = "CR"
  BY <1>1, AtIs, Zenon DEF Request!AtCRLF, Request!Byte
<1>3. here + 1 <= Len(content) /\ content[here + 1] = "LF"
  <2> DEFINE x == here + 1
  <2>1. x \in Nat /\ Request!At(x) = "LF"
    BY <1>1 DEF Request!AtCRLF
  <2> HIDE DEF x
  <2>2. x <= Len(content) /\ content[x] = "LF"
    BY <2>1, AtIs, Zenon
  <2> QED
    BY <2>2 DEF x
<1>4. \A n \in 1..2 : content[here + n - 1] = CRLF[n]
  <2>1. \A n \in 1..2 : (n = 1 /\ here + n - 1 = here) \/ (n = 2 /\ here + n - 1 = here + 1)
    BY <1>1
  <2> QED
    BY <1>2, <1>3, <2>1, CRLFIs
<1>5. here \in 1..Len(content) + 1 /\ here + 2 <= Len(content) + 1
  BY <1>1, <1>3
<1> QED
  BY <1>1, <1>2, <1>3, <1>4, <1>5, CRLFIs DEF StandsAt

\* Texts that stand one behind the other stand there as one text.
LEMMA StandsJoined ==
  ASSUME NEW S, NEW t \in Seq(S), NEW u \in Seq(S), NEW c \in Seq(S), NEW p \in Nat,
         StandsAt(t, p, c), StandsAt(u, p + Len(t), c)
  PROVE  StandsAt(t \o u, p, c) /\ Len(t \o u) = Len(t) + Len(u) /\ t \o u \in Seq(S)
<1> DEFINE v == t \o u
<1>1. /\ v \in Seq(S) /\ Len(v) = Len(t) + Len(u)
      /\ \A n \in 1..Len(t) + Len(u) : v[n] = IF n <= Len(t) THEN t[n] ELSE u[n - Len(t)]
  BY ConcatProperties
<1>2. Len(t) \in Nat /\ Len(u) \in Nat /\ Len(c) \in Nat
  BY LenProperties
<1> HIDE DEF v
<1>3. /\ p \in 1..Len(c) + 1 /\ p + Len(t) <= Len(c) + 1 /\ p + Len(t) + Len(u) <= Len(c) + 1
      /\ \A n \in 1..Len(t) : c[p + n - 1] = t[n]
      /\ \A n \in 1..Len(u) : c[p + Len(t) + n - 1] = u[n]
  BY DEF StandsAt
<1>4. \A n \in 1..Len(v) : c[p + n - 1] = v[n]
  <2> SUFFICES ASSUME NEW n \in 1..Len(t) + Len(u) PROVE c[p + n - 1] = v[n]
    BY <1>1
  <2>1. CASE n <= Len(t)
    <3>1. n \in 1..Len(t)
      BY <1>2, <2>1
    <3> QED
      BY <1>1, <1>3, <2>1, <3>1
  <2>2. CASE ~(n <= Len(t))
    <3>1. n - Len(t) \in 1..Len(u) /\ p + Len(t) + (n - Len(t)) - 1 = p + n - 1
      BY <1>2, <2>2
    <3> QED
      BY <1>1, <1>3, <2>2, <3>1
  <2> QED
    BY <2>1, <2>2
<1>5. p + Len(v) <= Len(c) + 1
  BY <1>1, <1>2, <1>3
<1> QED
  BY <1>1, <1>3, <1>4, <1>5 DEF StandsAt, v

\* A text that stands somewhere is a piece of the content.
LEMMA StandsPiece ==
  ASSUME NEW S, NEW t \in Seq(S), NEW c \in Seq(S), NEW p \in Nat, StandsAt(t, p, c)
  PROVE  Request!IsPrefix(t, SubSeq(c, p, Len(c)))
<1>1. Len(t) \in Nat /\ Len(c) \in Nat
  BY LenProperties
<1>2. /\ p \in 1..Len(c) + 1 /\ p + Len(t) <= Len(c) + 1
      /\ \A n \in 1..Len(t) : c[p + n - 1] = t[n]
  BY DEF StandsAt
<1> DEFINE r == SubSeq(c, p, Len(c))
<1>3. /\ r \in Seq(S) /\ Len(r) = Len(c) - p + 1
      /\ \A n \in 1..(Len(c) - p + 1) : r[n] = c[p + n - 1]
  <2>1. p \in 1..(Len(c) + 1) /\ Len(c) \in (p - 1)..Len(c)
    BY <1>1, <1>2
  <2> QED
    BY <2>1, PieceOf
<1> HIDE DEF r
<1>4. Len(t) <= Len(r) /\ \A n \in 1..Len(t) : t[n] = r[n]
  <2>1. Len(t) <= Len(r) /\ \A n \in 1..Len(t) : n \in 1..(Len(c) - p + 1)
    BY <1>1, <1>2, <1>3
  <2> QED
    BY <1>2, <1>3, <2>1
<1> QED
  BY <1>3, <1>4, PrefixIs DEF r

\* One character more.
LEMMA StandsLonger ==
  ASSUME NEW S, NEW t \in Seq(S), NEW c \in Seq(S), NEW p \in Nat, StandsAt(t, p, c),
         p + Len(t) <= Len(c)
  PROVE  /\ StandsAt(Append(t, c[p + Len(t)]), p, c)
         /\ Len(Append(t, c[p + Len(t)])) = Len(t) + 1
         /\ Append(t, c[p + Len(t)]) \in Seq(S)
<1>1. Len(t) \in Nat /\ Len(c) \in Nat
  BY LenProperties
<1>2. p \in 1..Len(c) + 1 /\ \A n \in 1..Len(t) : c[p + n - 1] = t[n]
  BY DEF StandsAt
<1> DEFINE e == c[p + Len(t)]
           v == Append(t, e)
<1>3. e \in S
  <2> DEFINE x == p + Len(t)
  <2>1. x \in 1..Len(c)
    BY <1>1, <1>2
  <2> HIDE DEF x
  <2>2. c[x] \in S
    BY <2>1, ElementOfSeq
  <2> QED
    BY <2>2 DEF x
<1> HIDE DEF e
<1>4. v \in Seq(S) /\ Len(v) = Len(t) + 1 /\ v[Len(t) + 1] = e /\ \A n \in 1..Len(t) : v[n] = t[n]
  BY <1>3, AppendProperties
<1> HIDE DEF v
<1>5. \A n \in 1..Len(t) + 1 : c[p + n - 1] = v[n]
  <2> SUFFICES ASSUME NEW n \in 1..Len(t) + 1 PROVE c[p + n - 1] = v[n]
    OBVIOUS
  <2>1. CASE n \in 1..Len(t)
    BY <1>2, <1>4, <2>1
  <2>2. CASE n = Len(t) + 1
    <3>1. p + n - 1 = p + Len(t)
      BY <1>1, <2>2
    <3> QED
      BY <1>4, <2>2, <3>1 DEF e
  <2>3. n \in 1..Len(t) \/ n = Len(t) + 1
    BY <1>1
  <2> QED
    BY <2>1, <2>2, <2>3
<1>6. p + (Len(t) + 1) <= Len(c) + 1
  BY <1>1
<1> QED
  BY <1>2, <1>4, <1>5, <1>6 DEF StandsAt, v, e

\* A header is written as its key, the colon with the blank, and its value.
LEMMA FormattedIs ==
  ASSUME NEW key \in Seq(Symbols), NEW value \in Seq(Symbols)
  PROVE  /\ <<":", " ">> \in Seq(Symbols) /\ Len(<<":", " ">>) = 2
         /\ Request!Formatted(key, value) \in Seq(Symbols)
         /\ Request!Formatted(key, value) = (key \o <<":", " ">>) \o value
         /\ Request!Formatted(key, <<>>) = key \o <<":", " ">>
         /\ \A b \in Symbols : Request!Formatted(key, Append(value, b)) = Append(Request!Formatted(key, value), b)
<1>1. ":" \in Symbols /\ " " \in Symbols
  BY SymbolsAssumption, Zenon
<1>2. ASSUME NEW x \in Symbols, NEW y \in Symbols PROVE <<x, y>> \in Seq(Symbols) /\ Len(<<x, y>>) = 2
  OBVIOUS
<1>3. <<":", " ">> \in Seq(Symbols) /\ Len(<<":", " ">>) = 2
  BY <1>1, <1>2, Zenon
<1>4. PICK colon \in Seq(Symbols) : colon = <<":", " ">>
  BY <1>3, Zenon
<1> DEFINE K == key \o colon
<1>5. K \in Seq(Symbols)
  BY ConcatProperties
<1>6. \A v : Request!Formatted(key, v) = K \o v
  BY <1>4, Zenon DEF Request!Formatted
<1> HIDE DEF K
<1>7. K \o value \in Seq(Symbols)
  BY <1>5, ConcatProperties
<1>8. K \o <<>> = K
  BY <1>5, ConcatEmptySeq
<1>9. ASSUME NEW b \in Symbols PROVE K \o Append(value, b) = Append(K \o value, b)
  <2>1. <<b>> \in Seq(Symbols)
    OBVIOUS
  <2>2. Append(value, b) = value \o <<b>> /\ Append(K \o value, b) = (K \o value) \o <<b>>
    BY <1>7, AppendIsConcat
  <2>3. (K \o value) \o <<b>> = K \o (value \o <<b>>)
    BY <1>5, <2>1, ConcatAssociative
  <2> QED
    BY <2>2, <2>3
<1> QED
  BY <1>3, <1>4, <1>6, <1>7, <1>8, <1>9, Zenon DEF K

LEMMA PieceTyped ==
  ASSUME RequestTypes
  PROVE  Piece \in Seq(Symbols) /\ Len(Piece) \in Nat
<1>1. header.key \in Seq(Symbols) /\ header.value \in Seq(Symbols) /\ header.keyread \in BOOLEAN
  BY DEF RequestTypes
<1>2. Piece \in Seq(Symbols)
  BY <1>1, FormattedIs, Zenon DEF Piece
<1> QED
  BY <1>2, LenProperties

\* What has been kept stays where it stands as long as what is collected begins
\* where it did.
LEMMA KeptStays ==
  ASSUME HeadersInv, parsing \in {"headers", "parsed"}, content' = content, req'.headers = req.headers,
         here' - Len(Piece') = here - Len(Piece), Len(Piece') < here',
         ~header'.keyread => header'.value = <<>>,
         parsing' \in {"headers", "parsed", "refused"},
         StandsAt(Piece, here - Len(Piece), content)'
  PROVE  HeadersInv'
<1>1. PICK at \in [1..Len(req.headers) -> 1..Len(content)] : Kept(at)
  BY DEF HeadersInv
<1>2. Kept(at)'
  BY <1>1 DEF Kept
<1> QED
  BY <1>1, <1>2 DEF HeadersInv, BeforeHeaders

\* A step that collects no header and does not touch the content.
LEMMA BeforeStays ==
  ASSUME HeadersInv, parsing \in BeforeHeaders, UNCHANGED header, req'.headers = req.headers,
         parsing' \in {"reading", "method", "path", "version", "refused"},
         parsing' \in {"reading", "method", "version"} => here' <= Len(content') + 1
  PROVE  HeadersInv'
BY DEF HeadersInv, BeforeHeaders

\* The parser's steps before the headers.
LEMMA EarlyStep ==
  ASSUME RequestTypes, HeadersInv,
         Request!MethodChar \/ Request!MethodEnd \/ Request!PathChar \/ Request!PathEnd
           \/ Request!PathUnended
  PROVE  RequestTypes' /\ HeadersInv'
<1>1. /\ content \in Seq(Symbols) /\ Len(content) \in Nat /\ here \in 1..Len(content) + 2 /\ here \in Nat
      /\ req.smethod \in Seq(Symbols) /\ req.path \in Seq(Symbols) /\ req.headers \in Seq(Seq(Symbols))
  BY LenProperties DEF RequestTypes
<1> DEFINE Reqs == [smethod : Seq(Symbols), path : Seq(Symbols), headers : Seq(Seq(Symbols))]
<1>2. CASE Request!MethodChar
  <2>1. /\ here <= Len(content) /\ here' = here + 1 /\ UNCHANGED <<sent, content, parsing, header>>
        /\ parsing = "method"
        /\ req' = [smethod |-> Append(req.smethod, Request!Byte), path |-> req.path, headers |-> req.headers]
    BY <1>2, Zenon DEF Request!MethodChar, Request!InLoop, Request!Skip, RequestTypes
  <2>2. Append(req.smethod, Request!Byte) \in Seq(Symbols)
    BY <1>1, <2>1, ByteIs, AppendProperties
  <2>3. req' \in Reqs /\ req'.headers = req.headers
    BY <1>1, <2>1, <2>2
  <2>4. here' \in 1..Len(content') + 2
    BY <1>1, <2>1
  <2> QED
    BY <2>1, <2>3, <2>4, BeforeStays DEF RequestTypes, BeforeHeaders
<1>3. CASE Request!MethodEnd
  <2>1. parsing = "method" /\ UNCHANGED <<sent, content, req, header>>
        /\ ((parsing' = "refused" /\ here' = here) \/ (parsing' = "path" /\ here' = here + 1))
    BY <1>3, Zenon DEF Request!MethodEnd, Request!Refuse, Request!Skip
  <2>2. here' \in 1..Len(content') + 2 /\ parsing' \notin {"reading", "method", "version"}
    BY <1>1, <2>1 DEF HeadersInv
  <2> QED
    BY <2>1, <2>2, BeforeStays DEF RequestTypes, BeforeHeaders
<1>4. CASE Request!PathChar
  <2>1. /\ here < Len(content) /\ here' = here + 1 /\ UNCHANGED <<sent, content, parsing, header>>
        /\ parsing = "path"
        /\ req' = [smethod |-> req.smethod, path |-> Append(req.path, Request!Byte), headers |-> req.headers]
    BY <1>4, Zenon DEF Request!PathChar, Request!InLoop, Request!Skip, RequestTypes
  <2>2. Append(req.path, Request!Byte) \in Seq(Symbols)
    BY <1>1, <2>1, ByteIs, AppendProperties
  <2>3. req' \in Reqs /\ req'.headers = req.headers
    BY <1>1, <2>1, <2>2
  <2>4. here' \in 1..Len(content') + 2
    BY <1>1, <2>1
  <2> QED
    BY <2>1, <2>3, <2>4, BeforeStays DEF RequestTypes, BeforeHeaders
<1>5. CASE Request!PathEnd
  <2>1. /\ here < Len(content) /\ here' = here + 2 /\ UNCHANGED <<sent, content, req, header>>
        /\ parsing = "path" /\ parsing' = "version"
    BY <1>5, Zenon DEF Request!PathEnd, Request!InLoop, Request!Skip
  <2>2. here' \in 1..Len(content') + 2 /\ here' <= Len(content') + 1
    BY <1>1, <2>1
  <2> QED
    BY <2>1, <2>2, BeforeStays DEF RequestTypes, BeforeHeaders
<1>6. CASE Request!PathUnended
  <2>1. UNCHANGED <<sent, content, here, req, header>> /\ parsing = "path" /\ parsing' = "refused"
    BY <1>6 DEF Request!PathUnended, Request!InLoop, Request!Refuse
  <2> QED
    BY <2>1, BeforeStays DEF RequestTypes, BeforeHeaders
<1> QED
  BY <1>2, <1>3, <1>4, <1>5, <1>6

\* The step from the first line to the headers.
LEMMA VersionStep ==
  ASSUME RequestTypes, HeadersInv, Request!Version
  PROVE  RequestTypes' /\ HeadersInv'
<1>1. /\ content \in Seq(Symbols) /\ Len(content) \in Nat /\ here \in 1..Len(content) + 1
      /\ parsing = "version" /\ UNCHANGED <<sent, content, req, header>>
      /\ header = Request!NoKey /\ req.headers = <<>>
  BY LenProperties DEF RequestTypes, HeadersInv, BeforeHeaders, Request!Version
<1>2. /\ here' \in 1..Len(content) + 1
      /\ parsing' \in {"version", "headers"}
  <2>1. CASE Request!InLoop("version") /\ ~Request!AtCRLF /\ Request!Skip(1) /\ UNCHANGED parsing
    BY <1>1, <2>1 DEF Request!InLoop, Request!Skip
  <2>2. CASE Request!InLoop("version") /\ Request!AtCRLF /\ Request!Skip(2) /\ parsing' = "headers"
    <3>1. here + 1 \in 1..Len(content)
      BY <2>2, AtLineEnd
    <3> QED
      BY <1>1, <2>2, <3>1 DEF Request!Skip
  <2>3. CASE here > Len(content) /\ Request!Skip(0) /\ parsing' = "headers"
    BY <1>1, <2>3 DEF Request!Skip
  <2> QED
    BY <2>1, <2>2, <2>3 DEF Request!Version
<1>3. RequestTypes'
  BY <1>1, <1>2 DEF RequestTypes
<1>4. CASE parsing' = "version"
  BY <1>1, <1>2, <1>3, <1>4, BeforeStays DEF BeforeHeaders
<1>5. CASE parsing' = "headers"
  <2>1. header' = [key |-> <<>>, value |-> <<>>, keyread |-> FALSE]
    BY <1>1 DEF Request!NoKey
  <2>2. Piece' = <<>> /\ header'.value = <<>>
    BY <2>1 DEF Piece
  <2>3. Len(Piece') = 0 /\ here' - Len(Piece') = here' /\ Len(Piece') < here'
    <3>1. Len(<<>>) = 0
      OBVIOUS
    <3>2. Len(Piece') = 0
      BY <2>2, <3>1, Zenon
    <3>3. here' - 0 = here' /\ 0 < here'
      <4>1. \A k \in Nat : \A n \in 1..k + 1 : n - 0 = n /\ 0 < n
        OBVIOUS
      <4> QED
        BY <1>1, <1>2, <4>1, Zenon
    <3> QED
      BY <3>2, <3>3, Zenon
  <2>4. StandsAt(Piece, here - Len(Piece), content)'
    <3>1. ASSUME NEW t, NEW q, Len(t) = 0, q \in 1..Len(content) + 1
          PROVE  StandsAt(t, q, content)
      BY <1>1, <3>1 DEF StandsAt
    <3>2. StandsAt(Piece', here', content)
      BY <1>2, <2>3, <3>1
    <3> QED
      BY <1>1, <2>3, <3>2, Zenon
  <2>5. Len(req'.headers) = 0
    BY <1>1
  <2>6. PICK at : at = [n \in 1..0 |-> n]
    OBVIOUS
  <2>7. 1..Len(req'.headers) = {}
    BY <2>5
  <2>8. at \in [1..Len(req'.headers) -> 1..Len(content')] /\ Kept(at)'
    BY <2>6, <2>7 DEF Kept
  <2> QED
    <3>1. parsing' \notin {"reading", "method", "path", "version"}
      BY <1>5
    <3> QED
      BY <1>3, <2>2, <2>3, <2>4, <2>8, <3>1 DEF HeadersInv, BeforeHeaders
<1> QED
  BY <1>2, <1>4, <1>5

\* The parser's steps in the headers.
LEMMA HeaderStep ==
  ASSUME RequestTypes, HeadersInv, Request!KeyChar \/ Request!KeyEnd \/ Request!ValueChar
  PROVE  /\ RequestTypes' /\ HeadersInv' /\ UNCHANGED <<sent, content, parsing, req>> /\ parsing = "headers"
         /\ here' - Len(Piece') = here - Len(Piece) /\ here' > here
<1>1. /\ content \in Seq(Symbols) /\ Len(content) \in Nat /\ here \in Nat
      /\ header.key \in Seq(Symbols) /\ header.value \in Seq(Symbols) /\ header.keyread \in BOOLEAN
      /\ Piece \in Seq(Symbols) /\ Len(Piece) \in Nat
  BY LenProperties, PieceTyped DEF RequestTypes
<1>2. /\ parsing = "headers" /\ here < Len(content) /\ UNCHANGED <<sent, content, parsing, req>>
  BY DEF Request!KeyChar, Request!KeyEnd, Request!ValueChar, Request!InHeaders, Request!InLoop
<1>3. Len(Piece) < here /\ StandsAt(Piece, here - Len(Piece), content)
  BY <1>2 DEF HeadersInv
<1> DEFINE p == here - Len(Piece)
           Heads == [key : Seq(Symbols), value : Seq(Symbols), keyread : BOOLEAN]
<1>4. p \in Nat /\ p + Len(Piece) = here /\ StandsAt(Piece, p, content) /\ p > 0
  BY <1>1, <1>3
<1>5. Request!Byte = content[here] /\ content[here] \in Symbols /\ here \in 1..Len(content)
  BY <1>1, <1>2, ByteIs
<1>6. ASSUME header' \in Heads, ~header'.keyread => header'.value = <<>>,
             Piece' \in Seq(Symbols), here' - Len(Piece') = p, here' \in Nat, here' <= Len(content) + 1,
             StandsAt(Piece', p, content), here' > here
      PROVE  /\ RequestTypes' /\ HeadersInv' /\ UNCHANGED <<sent, content, parsing, req>> /\ parsing = "headers"
             /\ here' - Len(Piece') = here - Len(Piece) /\ here' > here
  <2>1. Len(Piece') \in Nat
    BY <1>6, LenProperties
  <2>2. Len(Piece') < here' /\ here' \in 1..Len(content') + 2
    BY <1>1, <1>2, <1>4, <1>6, <2>1
  <2>3. RequestTypes'
    BY <1>2, <1>6, <2>2 DEF RequestTypes
  <2>4. StandsAt(Piece, here - Len(Piece), content)'
    BY <1>2, <1>6
  <2>5. HeadersInv'
    BY <1>2, <1>6, <2>2, <2>4, KeptStays
  <2> QED
    BY <1>2, <1>6, <2>3, <2>5
<1>7. /\ StandsAt(Append(Piece, content[here]), p, content)
      /\ Len(Append(Piece, content[here])) = Len(Piece) + 1
      /\ Append(Piece, content[here]) \in Seq(Symbols)
  <2> HIDE DEF p
  <2>1. p + Len(Piece) <= Len(content)
    BY <1>2, <1>4
  <2>2. /\ StandsAt(Append(Piece, content[p + Len(Piece)]), p, content)
        /\ Len(Append(Piece, content[p + Len(Piece)])) = Len(Piece) + 1
        /\ Append(Piece, content[p + Len(Piece)]) \in Seq(Symbols)
    BY <1>1, <1>4, <2>1, StandsLonger
  <2> QED
    BY <1>4, <2>2
<1> HIDE DEF Heads
<1>8. CASE Request!KeyChar
  <2>1. /\ ~header.keyread /\ here' = here + 1
        /\ header' = [key |-> Append(header.key, content[here]), value |-> header.value, keyread |-> header.keyread]
    BY <1>5, <1>8 DEF Request!KeyChar, Request!Skip, RequestTypes
  <2>2. Append(header.key, content[here]) \in Seq(Symbols)
    BY <1>1, <1>5, AppendProperties
  <2>3. header' \in Heads /\ header'.key = Append(header.key, content[here]) /\ header'.keyread = FALSE
        /\ header'.value = header.value
    BY <1>1, <2>1, <2>2 DEF Heads
  <2>4. Piece' = Append(Piece, content[here])
    BY <2>1, <2>3 DEF Piece
  <2>5. here' - Len(Piece') = p /\ here' \in Nat /\ here' <= Len(content) + 1 /\ here' > here
    BY <1>1, <1>2, <1>7, <2>1, <2>4
  <2>6. ~header'.keyread => header'.value = <<>>
    BY <2>1, <2>3 DEF HeadersInv
  <2> QED
    BY <1>6, <1>7, <2>3, <2>4, <2>5, <2>6
<1>9. CASE Request!KeyEnd
  <2>1. /\ ~header.keyread /\ here' = here + 2 /\ Request!AtColon
        /\ header' = [key |-> header.key, value |-> header.value, keyread |-> TRUE]
    BY <1>9 DEF Request!KeyEnd, Request!Skip, RequestTypes
  <2>2. header' \in Heads /\ header'.key = header.key /\ header'.keyread = TRUE
        /\ header'.value = <<>>
    BY <1>1, <2>1 DEF Heads, HeadersInv
  <2>3. PICK colon \in Seq(Symbols) : colon = <<":", " ">>
    BY <1>1, FormattedIs, Zenon
  <2>4. Len(colon) = 2 /\ colon[1] = ":" /\ colon[2] = " "
    BY <2>3, Zenon
  <2>5. Piece = header.key
    BY <2>1 DEF Piece
  <2>6. Piece' = Piece \o colon
    <3>1. Piece' = Request!Formatted(header.key, <<>>)
      BY <2>2 DEF Piece
    <3> QED
      BY <1>1, <2>3, <2>5, <3>1, FormattedIs, Zenon
  <2>7. here + 1 <= Len(content) /\ content[here] = ":" /\ content[here + 1] = " "
    <3>1. content[here] = ":" /\ Request!At(here + 1) = " "
      BY <1>5, <2>1, Zenon DEF Request!AtColon
    <3>2. here + 1 \in Nat /\ here + 1 <= Len(content)
      BY <1>1, <1>2
    <3> QED
      BY <3>1, <3>2, Zenon DEF Request!At
  <2>8. StandsAt(colon, here, content)
    <3>1. \A n \in 1..2 : (n = 1 /\ here + n - 1 = here) \/ (n = 2 /\ here + n - 1 = here + 1)
      BY <1>1
    <3>2. here \in 1..Len(content) + 1 /\ here + 2 <= Len(content) + 1
      <4> DEFINE k == Len(content)
      <4>1. k \in Nat /\ here \in 1..k /\ here < k
        BY <1>1, <1>2, <1>5
      <4> HIDE DEF k
      <4>2. here \in 1..k + 1 /\ here + 2 <= k + 1
        BY <4>1
      <4> QED
        BY <4>2 DEF k
    <3>3. \A n \in 1..2 : content[here + n - 1] = colon[n]
      BY <2>4, <2>7, <3>1, Zenon
    <3> QED
      BY <2>4, <3>2, <3>3, Zenon DEF StandsAt
  <2>9. StandsAt(Piece \o colon, p, content) /\ Len(Piece \o colon) = Len(Piece) + 2 
        /\ Piece \o colon \in Seq(Symbols)
    <3> HIDE DEF p
    <3> QED
      BY <1>1, <1>4, <2>4, <2>8, StandsJoined, Zenon
  <2>10. here' - Len(Piece') = p /\ here' \in Nat /\ here' <= Len(content) + 1 /\ here' > here
    <3>1. Len(Piece') = Len(Piece) + 2
      BY <2>6, <2>9
    <3>2. (here + 2) - (Len(Piece) + 2) = p /\ here + 2 \in Nat /\ here + 2 <= Len(content) + 1 /\ here + 2 > here
      <4> DEFINE k == Len(content)
                 l == Len(Piece)
      <4>1. k \in Nat /\ here \in Nat /\ here < k /\ l \in Nat
        BY <1>1, <1>2
      <4> HIDE DEF k, l
      <4>2. (here + 2) - (l + 2) = here - l /\ here + 2 \in Nat /\ here + 2 <= k + 1 /\ here + 2 > here
        BY <4>1
      <4> QED
        BY <4>2 DEF k, l
    <3> QED
      BY <2>1, <3>1, <3>2
  <2> QED
    BY <1>6, <2>2, <2>6, <2>9, <2>10
<1>10. CASE Request!ValueChar
  <2>1. /\ header.keyread /\ here' = here + 1
        /\ header' = [key |-> header.key, value |-> Append(header.value, content[here]), keyread |-> header.keyread]
    BY <1>5, <1>10 DEF Request!ValueChar, Request!Skip, RequestTypes
  <2>2. Append(header.value, content[here]) \in Seq(Symbols)
    BY <1>1, <1>5, AppendProperties
  <2>3. header' \in Heads /\ header'.value = Append(header.value, content[here]) /\ header'.keyread = TRUE
        /\ header'.key = header.key
    BY <1>1, <2>1, <2>2 DEF Heads
  <2>4. Piece' = Append(Piece, content[here])
    <3>1. /\ Piece' = Request!Formatted(header.key, Append(header.value, content[here]))
          /\ Piece = Request!Formatted(header.key, header.value)
      BY <2>1, <2>3 DEF Piece
    <3> QED
      BY <1>1, <1>5, <3>1, FormattedIs, Zenon
  <2>5. here' - Len(Piece') = p /\ here' \in Nat /\ here' <= Len(content) + 1 /\ here' > here
    BY <1>1, <1>2, <1>7, <2>1, <2>4
  <2> QED
    BY <1>6, <1>7, <2>3, <2>4, <2>5
<1> QED
  BY <1>8, <1>9, <1>10

\* A header is complete: it is kept where it stands.
LEMMA ValueEndStep ==
  ASSUME RequestTypes, HeadersInv, Request!ValueEnd
  PROVE  /\ RequestTypes' /\ HeadersInv' /\ UNCHANGED <<sent, content, parsing>> /\ parsing = "headers"
         /\ req' = [smethod |-> req.smethod, path |-> req.path, headers |-> Append(req.headers, Piece)]
         /\ Piece' = <<>> /\ here' = here + 2 /\ header' = Request!NoKey
<1>1. /\ content \in Seq(Symbols) /\ Len(content) \in Nat /\ here \in Nat
      /\ req.smethod \in Seq(Symbols) /\ req.path \in Seq(Symbols)
      /\ req.headers \in Seq(Seq(Symbols)) /\ Len(req.headers) \in Nat
      /\ Piece \in Seq(Symbols) /\ Len(Piece) \in Nat
  BY LenProperties, PieceTyped DEF RequestTypes
<1>2. /\ parsing = "headers" /\ here' = here + 2 /\ UNCHANGED <<sent, content, parsing>>
      /\ header' = Request!NoKey /\ header.keyread /\ Request!AtCRLF
      /\ req' = [smethod |-> req.smethod, path |-> req.path, headers |-> Append(req.headers, Piece)]
  BY DEF Request!ValueEnd, Request!InHeaders, Request!InLoop, Request!Skip, Request!Cleared, Piece, RequestTypes
<1> DEFINE p == here - Len(Piece)
           k == Len(req.headers)
<1>3. /\ p \in Nat /\ p > 0 /\ p + Len(Piece) = here /\ StandsAt(Piece, p, content)
      /\ p \in 1..Len(content)
  <2>1. Len(Piece) < here /\ StandsAt(Piece, here - Len(Piece), content)
    BY <1>2 DEF HeadersInv
  <2>2. here \in 1..Len(content)
    BY <1>2, AtLineEnd
  <2> QED
    BY <1>1, <2>1, <2>2
<1>4. PICK at \in [1..k -> 1..Len(content)] : Kept(at)
  BY <1>2 DEF HeadersInv
<1>5. \A n \in 1..k : /\ StandsAt(req.headers[n] \o CRLF, at[n], content)
                      /\ at[n] + Len(req.headers[n]) + 2 <= p
  BY <1>4 DEF Kept
<1>6. \A n, m \in 1..k : n < m => at[n] + Len(req.headers[n]) < at[m]
  BY <1>4 DEF Kept
<1>7. \A n \in 1..k : at[n] \in Nat /\ Len(req.headers[n]) \in Nat
  <2>1. \A n \in 1..k : at[n] \in 1..Len(content)
    BY <1>4
  <2>2. \A m \in Nat : \A x \in 1..m : x \in Nat
    OBVIOUS
  <2>3. \A n \in 1..k : req.headers[n] \in Seq(Symbols)
    BY <1>1, ElementOfSeq
  <2>4. \A n \in 1..k : Len(req.headers[n]) \in Nat
    BY <2>3, LenProperties
  <2> QED
    BY <1>1, <2>1, <2>2, <2>4, Zenon
<1> DEFINE hs == Append(req.headers, Piece)
<1>8. /\ hs \in Seq(Seq(Symbols)) /\ Len(hs) = k + 1 /\ hs[k + 1] = Piece
      /\ \A n \in 1..k : hs[n] = req.headers[n]
  BY <1>1, AppendProperties
<1>9. req'.headers = hs
  BY <1>2
<1> HIDE DEF hs
<1>10. StandsAt(Piece \o CRLF, p, content)
  <2> HIDE DEF p
  <2>1. StandsAt(CRLF, p + Len(Piece), content)
    BY <1>2, <1>3, AtLineEnd
  <2> QED
    BY <1>1, <1>3, <2>1, CRLFIs, StandsJoined
<1>11. header' = [key |-> <<>>, value |-> <<>>, keyread |-> FALSE]
  BY <1>2 DEF Request!NoKey
<1>12. Piece' = <<>> /\ header'.value = <<>> /\ header'.keyread = FALSE
  BY <1>11 DEF Piece
<1>13. Len(Piece') = 0 /\ here' - Len(Piece') = here + 2 /\ Len(Piece') < here'
  <2>1. Len(<<>>) = 0
    OBVIOUS
  <2>2. Len(Piece') = 0
    BY <1>12, <2>1, Zenon
  <2>3. (here + 2) - 0 = here + 2 /\ 0 < here + 2
    BY <1>1
  <2> QED
    BY <1>2, <2>2, <2>3
<1>14. here + 2 \in 1..Len(content) + 1
  <2>1. here + 1 \in 1..Len(content)
    BY <1>2, AtLineEnd
  <2> QED
    BY <1>1, <2>1
<1>15. RequestTypes'
  <2>1. req' \in [smethod : Seq(Symbols), path : Seq(Symbols), headers : Seq(Seq(Symbols))]
    BY <1>1, <1>2, <1>8 DEF hs
  <2>2. header' \in [key : Seq(Symbols), value : Seq(Symbols), keyread : BOOLEAN]
    <3>1. <<>> \in Seq(Symbols)
      OBVIOUS
    <3>2. ASSUME NEW e \in Seq(Symbols)
          PROVE  [key |-> e, value |-> e, keyread |-> FALSE] \in [key : Seq(Symbols), value : Seq(Symbols), keyread : BOOLEAN]
      OBVIOUS
    <3> QED
      BY <1>11, <3>1, <3>2
  <2>3. here' \in 1..Len(content') + 2
    BY <1>1, <1>2, <1>14
  <2> QED
    BY <1>2, <2>1, <2>2, <2>3 DEF RequestTypes
<1>16. StandsAt(Piece, here - Len(Piece), content)'
  <2>1. ASSUME NEW t, NEW q, Len(t) = 0, q \in 1..Len(content) + 1
        PROVE  StandsAt(t, q, content)
    BY <1>1, <2>1 DEF StandsAt
  <2>2. StandsAt(Piece', here + 2, content)
    BY <1>13, <1>14, <2>1
  <2> QED
    BY <1>2, <1>13, <2>2, Zenon
<1>30. PICK new : new = [n \in 1..k + 1 |-> IF n = k + 1 THEN p ELSE at[n]]
  OBVIOUS
<1> HIDE DEF k, p
<1>17. /\ k \in Nat /\ new[k + 1] = p /\ \A n \in 1..k : new[n] = at[n]
       /\ \A n \in 1..k + 1 : n = k + 1 \/ n \in 1..k
  <2>1. k \in Nat /\ \A n \in 1..k : n \in 1..k + 1 /\ n # k + 1
    BY <1>1 DEF k
  <2> QED
    BY <1>30, <2>1
<1>18. new \in [1..k + 1 -> 1..Len(content)]
  <2>1. \A n \in 1..k : at[n] \in 1..Len(content)
    BY <1>4
  <2> QED
    BY <1>3, <1>17, <1>30, <2>1
<1>19. \A n \in 1..k + 1 : StandsAt(hs[n] \o CRLF, new[n], content) /\ new[n] + Len(hs[n]) + 2 <= here + 2
  <2> SUFFICES ASSUME NEW n \in 1..k + 1
               PROVE  StandsAt(hs[n] \o CRLF, new[n], content) /\ new[n] + Len(hs[n]) + 2 <= here + 2
    OBVIOUS
  <2>1. CASE n = k + 1
    <3>1. p + Len(Piece) + 2 <= here + 2
      BY <1>1, <1>3
    <3> QED
      BY <1>8, <1>10, <1>17, <2>1, <3>1
  <2>2. CASE n \in 1..k
    <3>1. hs[n] = req.headers[n] /\ new[n] = at[n]
      BY <1>8, <1>17, <2>2
    <3>2. at[n] + Len(req.headers[n]) + 2 <= here + 2
      BY <1>1, <1>3, <1>5, <1>7, <2>2
    <3> QED
      BY <1>5, <2>2, <3>1, <3>2
  <2> QED
    BY <1>17, <2>1, <2>2
<1>20. \A n, m \in 1..k + 1 : n < m => new[n] + Len(hs[n]) < new[m]
  <2> SUFFICES ASSUME NEW n \in 1..k + 1, NEW m \in 1..k + 1, n < m
               PROVE  new[n] + Len(hs[n]) < new[m]
    OBVIOUS
  <2>1. n \in 1..k
    BY <1>17
  <2>2. hs[n] = req.headers[n] /\ new[n] = at[n]
    BY <1>8, <1>17, <2>1
  <2>3. CASE m \in 1..k
    BY <1>6, <1>17, <2>1, <2>2, <2>3
  <2>4. CASE m = k + 1
    <3>1. at[n] + Len(req.headers[n]) < p
      BY <1>3, <1>5, <1>7, <2>1
    <3> QED
      BY <1>17, <2>2, <2>4, <3>1
  <2> QED
    BY <1>17, <2>3, <2>4
<1>21. /\ 1..Len(req'.headers) = 1..k + 1 /\ content' = content /\ here' - Len(Piece') = here + 2
  BY <1>2, <1>8, <1>9, <1>13
<1>22. new \in [1..Len(req'.headers) -> 1..Len(content')] /\ Kept(new)'
  <2>1. new \in [1..Len(req'.headers) -> 1..Len(content')]
    BY <1>18, <1>21, Zenon
  <2>2. \A n \in 1..Len(req'.headers) : /\ StandsAt(req'.headers[n] \o CRLF, new[n], content')
                                       /\ new[n] + Len(req'.headers[n]) + 2 <= here' - Len(Piece')
    BY <1>9, <1>19, <1>21, Zenon
  <2>3. \A n, m \in 1..Len(req'.headers) : n < m => new[n] + Len(req'.headers[n]) < new[m]
    BY <1>9, <1>20, <1>21, Zenon
  <2>4. CRLF' = CRLF
    BY DEF CRLF, Request!CRLF
  <2>5. Kept(new)' <=>
          /\ new \in [1..Len(req'.headers) -> 1..Len(content')]
          /\ \A n \in 1..Len(req'.headers) : /\ StandsAt(req'.headers[n] \o CRLF, new[n], content')
                                            /\ new[n] + Len(req'.headers[n]) + 2 <= here' - Len(Piece')
          /\ \A n, m \in 1..Len(req'.headers) : n < m => new[n] + Len(req'.headers[n]) < new[m]
    BY <2>4 DEF Kept
  <2> QED
    BY <2>1, <2>2, <2>3, <2>5, Zenon
<1>23. HeadersInv'
  <2>1. parsing' \notin {"reading", "method", "path", "version"}
    BY <1>2
  <2> QED
    BY <1>12, <1>13, <1>16, <1>22, <2>1 DEF HeadersInv, BeforeHeaders
<1> QED
  BY <1>2, <1>12, <1>15, <1>23

LEMMA EndStep ==
  ASSUME RequestTypes, HeadersInv, Request!HeadersEnd \/ Request!HeadersUnended
  PROVE  RequestTypes' /\ HeadersInv'
<1>1. /\ parsing = "headers" /\ parsing' \in {"parsed", "refused"}
      /\ UNCHANGED <<sent, content, here, req, header>>
  BY DEF Request!HeadersEnd, Request!HeadersUnended, Request!Refuse, Request!InLoop
<1>2. Piece' = Piece
  BY <1>1 DEF Piece
<1>3. RequestTypes'
  BY <1>1 DEF RequestTypes
<1>4. Len(Piece) < here /\ StandsAt(Piece, here - Len(Piece), content)
  BY <1>1 DEF HeadersInv
<1>5. StandsAt(Piece, here - Len(Piece), content)'
  BY <1>1, <1>2, <1>4
<1>6. ~header'.keyread => header'.value = <<>>
  BY <1>1 DEF HeadersInv
<1>7. HeadersInv'
  BY <1>1, <1>2, <1>4, <1>5, <1>6, KeptStays
<1> QED
  BY <1>3, <1>7

\* A line more is received.
LEMMA ReceiveStep ==
  ASSUME RequestTypes, HeadersInv, NEW line \in RequestLines \cup HeaderLines \cup {<<>>},
         Request!Receive(line)
  PROVE  /\ RequestTypes' /\ HeadersInv'
         /\ line \in Seq(Symbols) /\ content' = content \o (line \o CRLF)
         /\ Len(content') = Len(content) + (Len(line) + 2)
         /\ line \o CRLF \in Seq(Symbols) /\ Len(line \o CRLF) = Len(line) + 2
<1>1. /\ parsing = "reading" /\ UNCHANGED <<here, req, header>> /\ parsing' \in {"method", "reading"}
      /\ sent' = Append(sent, line) /\ content' = (content \o line) \o CRLF
  BY DEF Request!Receive, CRLF
<1>2. /\ content \in Seq(Symbols) /\ Len(content) \in Nat /\ here \in 1..Len(content) + 1
      /\ sent \in Seq(RequestLines \cup HeaderLines \cup {<<>>})
  BY <1>1, LenProperties DEF RequestTypes, HeadersInv
<1>3. line \in Seq(Symbols) /\ Len(line) \in Nat
  <2>1. <<>> \in Seq(Symbols)
    OBVIOUS
  <2>2. line \in Seq(Symbols)
    BY <2>1, RequestAssumption
  <2> QED
    BY <2>2, LenProperties
<1>4. line \o CRLF \in Seq(Symbols) /\ Len(line \o CRLF) = Len(line) + 2
  <2>1. CRLF \in Seq(Symbols) /\ Len(CRLF) = 2
    BY CRLFIs
  <2>2. PICK e \in Seq(Symbols) : e = CRLF
    BY <2>1
  <2>3. line \o e \in Seq(Symbols) /\ Len(line \o e) = Len(line) + Len(e)
    BY <1>3, ConcatProperties
  <2> QED
    BY <2>1, <2>2, <2>3, Zenon
<1>5. content' = content \o (line \o CRLF)
  <2>1. CRLF \in Seq(Symbols) /\ content \in Seq(Symbols) /\ line \in Seq(Symbols)
    BY <1>2, <1>3, CRLFIs
  <2>2. (content \o line) \o CRLF = content \o (line \o CRLF)
    BY <2>1, ConcatAssociative
  <2> QED
    BY <1>1, <2>2, Zenon
<1>6. content' \in Seq(Symbols) /\ Len(content') = Len(content) + (Len(line) + 2)
  <2>1. PICK l \in Seq(Symbols) : l = line \o CRLF
    BY <1>4
  <2>2. content \o l \in Seq(Symbols) /\ Len(content \o l) = Len(content) + Len(l)
    BY <1>2, ConcatProperties
  <2> QED
    BY <1>4, <1>5, <2>1, <2>2, Zenon
<1>7. sent' \in Seq(RequestLines \cup HeaderLines \cup {<<>>})
  BY <1>1, <1>2, AppendProperties
<1>8. here' \in 1..Len(content') + 2 /\ here' <= Len(content') + 1
  BY <1>1, <1>2, <1>3, <1>6
<1>9. RequestTypes'
  BY <1>1, <1>6, <1>7, <1>8 DEF RequestTypes
<1>10. HeadersInv'
  BY <1>1, <1>8, BeforeStays DEF BeforeHeaders
<1> QED
  BY <1>3, <1>4, <1>5, <1>6, <1>9, <1>10

\* What the parser has kept was sent.
LEMMA HeadersSent == RequestTypes /\ HeadersInv => Request!HeadersWereSent
<1> SUFFICES ASSUME RequestTypes, HeadersInv, parsing # "refused"
             PROVE  \E at \in [DOMAIN req.headers -> DOMAIN content] :
                      /\ \A n \in DOMAIN at : Request!IsPrefix(req.headers[n] \o CRLF,
                                                               SubSeq(content, at[n], Len(content)))
                      /\ \A n, m \in DOMAIN at : n < m => at[n] + Len(req.headers[n]) < at[m]
  BY DEF Request!HeadersWereSent, CRLF
<1>1. /\ content \in Seq(Symbols) /\ req.headers \in Seq(Seq(Symbols))
      /\ DOMAIN content = 1..Len(content) /\ DOMAIN req.headers = 1..Len(req.headers)
  BY LenProperties DEF RequestTypes
<1>2. CASE parsing \in BeforeHeaders
  <2>1. 1..Len(req.headers) = {}
    BY <1>2 DEF HeadersInv
  <2>2. PICK at : at = [n \in {} |-> n]
    OBVIOUS
  <2>3. \A T : at \in [{} -> T]
    BY <2>2
  <2>4. at \in [DOMAIN req.headers -> DOMAIN content]
    BY <1>1, <2>1, <2>3, Zenon
  <2>5. DOMAIN at = {}
    BY <2>2
  <2> QED
    BY <2>4, <2>5
<1>3. CASE parsing \in {"headers", "parsed"}
  <2>1. PICK at \in [1..Len(req.headers) -> 1..Len(content)] : Kept(at)
    BY <1>3 DEF HeadersInv
  <2>2. \A n \in 1..Len(req.headers) :
          Request!IsPrefix(req.headers[n] \o CRLF, SubSeq(content, at[n], Len(content)))
    <3> SUFFICES ASSUME NEW n \in 1..Len(req.headers)
                 PROVE  Request!IsPrefix(req.headers[n] \o CRLF, SubSeq(content, at[n], Len(content)))
      OBVIOUS
    <3>1. req.headers[n] \o CRLF \in Seq(Symbols)
      BY <1>1, ElementOfSeq, CRLFIs, ConcatProperties
    <3>2. at[n] \in Nat /\ StandsAt(req.headers[n] \o CRLF, at[n], content)
      BY <2>1 DEF Kept
    <3> QED
      BY <1>1, <3>1, <3>2, StandsPiece
  <2>3. \A n, m \in 1..Len(req.headers) : n < m => at[n] + Len(req.headers[n]) < at[m]
    BY <2>1 DEF Kept
  <2> QED
    BY <1>1, <2>1, <2>2, <2>3
<1> QED
  BY <1>2, <1>3 DEF RequestTypes, BeforeHeaders

LEMMA RequestInit ==
  ASSUME Request!Init
  PROVE  RequestTypes /\ HeadersInv
<1>1. /\ sent = <<>> /\ content = <<>> /\ parsing = "reading" /\ here = 1
      /\ req = [smethod |-> <<>>, path |-> <<>>, headers |-> <<>>] /\ header = Request!NoKey
  BY DEF Request!Init
<1>2. /\ \A S : <<>> \in Seq(S)
      /\ Len(content) = 0
  BY <1>1
<1>3. header = [key |-> <<>>, value |-> <<>>, keyread |-> FALSE]
  BY <1>1 DEF Request!NoKey
<1>4. /\ req \in [smethod : Seq(Symbols), path : Seq(Symbols), headers : Seq(Seq(Symbols))]
      /\ header \in [key : Seq(Symbols), value : Seq(Symbols), keyread : BOOLEAN]
  <2>1. ASSUME NEW e, e \in Seq(Symbols), e \in Seq(Seq(Symbols))
        PROVE  /\ [smethod |-> e, path |-> e, headers |-> e]
                    \in [smethod : Seq(Symbols), path : Seq(Symbols), headers : Seq(Seq(Symbols))]
               /\ [key |-> e, value |-> e, keyread |-> FALSE]
                    \in [key : Seq(Symbols), value : Seq(Symbols), keyread : BOOLEAN]
    BY <2>1
  <2> QED
    BY <1>1, <1>2, <1>3, <2>1, Zenon
<1>5. here \in 1..Len(content) + 2 /\ here <= Len(content) + 1
  BY <1>1, <1>2
<1>6. RequestTypes
  BY <1>1, <1>2, <1>4, <1>5 DEF RequestTypes
<1>7. HeadersInv
  BY <1>1, <1>3, <1>5 DEF HeadersInv
<1> QED
  BY <1>6, <1>7

\* The lines a step can receive.
LEMMA ReceivesLine ==
  ASSUME Request!ReceiveSome
  PROVE  \E line \in RequestLines \cup HeaderLines \cup {<<>>} : Request!Receive(line)
BY DEF Request!ReceiveSome

LEMMA RequestNext ==
  ASSUME RequestTypes, HeadersInv, [Request!Next]_reqVars
  PROVE  RequestTypes' /\ HeadersInv'
<1>1. CASE Request!ReceiveSome
  BY <1>1, ReceivesLine, ReceiveStep
<1>2. CASE Request!MethodChar \/ Request!MethodEnd \/ Request!PathChar \/ Request!PathEnd
           \/ Request!PathUnended
  BY <1>2, EarlyStep
<1>3. CASE Request!Version
  BY <1>3, VersionStep
<1>4. CASE Request!KeyChar \/ Request!KeyEnd \/ Request!ValueChar
  BY <1>4, HeaderStep
<1>5. CASE Request!ValueEnd
  BY <1>5, ValueEndStep
<1>6. CASE Request!HeadersEnd \/ Request!HeadersUnended
  BY <1>6, EndStep
<1>7. CASE UNCHANGED reqVars
  BY <1>7, Zenon DEF reqVars, RequestTypes, HeadersInv, Kept, Piece
<1> QED
  BY <1>1, <1>2, <1>3, <1>4, <1>5, <1>6, <1>7 DEF Request!Next, Request!Parse

LEMMA RequestAlways == Request!Spec => [](RequestTypes /\ HeadersInv)
<1>1. Request!Init => RequestTypes /\ HeadersInv
  BY RequestInit
<1>2. RequestTypes /\ HeadersInv /\ [Request!Next]_Request!vars => (RequestTypes /\ HeadersInv)'
  BY RequestNext DEF Request!vars, reqVars
<1> QED
  BY <1>1, <1>2, PTL DEF Request!Spec

\* Whatever lines are received, what the parser keeps was sent in one piece and
\* in this order (httpserv_http_request_from_raw).
THEOREM HeadersSentCorrect == TextsSpec => []HeadersWereSent
<1>1. RequestTypes /\ HeadersInv => HeadersWereSent
  BY HeadersSent DEF HeadersWereSent
<1> QED
  BY <1>1, Behaviours, RequestAlways, PTL

\* The search finds the value of the first header of the name, unless one whose
\* name only begins with it comes first (httpserv_http_request_get_header).
THEOREM HeaderFoundCorrect == TextsSpec => []HeaderFound
<1>1. RequestTypes => HeaderFound
  BY HeaderIsFound DEF HeaderFound
<1> QED
  BY <1>1, Behaviours, RequestAlways, PTL

\* All four keep their types; in particular the steps of two characters
\* (request.c:95, 104, 130, 139) never take the parser further than one behind the NUL.
THEOREM TextsTypeCorrect == TextsSpec => []TextsTypeOK
<1>1. RequestTypes => Request!TypeOK
  BY DEF RequestTypes, Request!TypeOK
<1>2. ResponseInv /\ ConfigInv /\ RoutesInv /\ RequestTypes => TextsTypeOK
  BY <1>1, ConfigWell, RoutesTypeOK DEF TextsTypeOK, ResponseInv
<1> QED
  BY <1>2, Behaviours, ResponseAlways, ConfigAlways, RoutesAlways, RequestAlways, PTL

-----------------------------------------------------------------------------
(***************************************************************************)
(* A well-formed request is read as it was sent.                            *)
(***************************************************************************)
\* No line that is sent contains the end of a line.
NoLineEnd(line) == \A n \in 1..Len(line) : line[n] = "CR" => n = Len(line) \/ line[n + 1] # "LF"

LEMMA LineIs ==
  ASSUME NEW line \in RequestLines \cup HeaderLines \cup {<<>>}
  PROVE  line \in Seq(Symbols) /\ Len(line) \in Nat /\ NoLineEnd(line)
<1>1. <<>> \in Seq(Symbols) /\ NoLineEnd(<<>>)
  BY DEF NoLineEnd
<1>2. ASSUME line \in RequestLines \cup HeaderLines
      PROVE  line \in Seq(Symbols) /\ NoLineEnd(line)
  <2>1. line \in Seq(Symbols) /\ \A n \in DOMAIN line : line[n] = "CR" => n = Len(line) \/ line[n + 1] # "LF"
    BY <1>2, RequestAssumption
  <2>2. DOMAIN line = 1..Len(line)
    BY <2>1, LenProperties
  <2> QED
    BY <2>1, <2>2, Zenon DEF NoLineEnd
<1>3. line \in Seq(Symbols) /\ NoLineEnd(line)
  BY <1>1, <1>2
<1> QED
  BY <1>3, LenProperties

\* A line and its end, where the layout puts them.
LEMMA LineStands ==
  ASSUME RequestTypes, NEW off, Layout(off), NEW k \in 1..Len(sent)
  PROVE  /\ sent[k] \in Seq(Symbols) /\ Len(sent[k]) \in Nat /\ NoLineEnd(sent[k])
         /\ off[k] \in Nat /\ off[k] >= 1 /\ off[k] + (Len(sent[k]) + 1) <= Len(content)
         /\ off[k + 1] = off[k] + (Len(sent[k]) + 2)
         /\ \A n \in 1..Len(sent[k]) : content[off[k] + (n - 1)] = sent[k][n]
         /\ content[off[k] + Len(sent[k])] = "CR" /\ content[off[k] + (Len(sent[k]) + 1)] = "LF"
<1>1. sent[k] \in RequestLines \cup HeaderLines \cup {<<>>} /\ Len(content) \in Nat
  BY ElementOfSeq, LenProperties DEF RequestTypes
<1>2. sent[k] \in Seq(Symbols) /\ Len(sent[k]) \in Nat /\ NoLineEnd(sent[k])
  BY <1>1, LineIs
<1> DEFINE s == sent[k]
           t == s \o CRLF
           p == off[k]
           l == Len(s)
           c == Len(content)
<1>3. StandsAt(t, p, content) /\ off[k + 1] = p + (l + 2)
  BY DEF Layout
<1> HIDE DEF s, p
<1>4. l \in Nat /\ s \in Seq(Symbols) /\ c \in Nat
  BY <1>1, <1>2 DEF s
<1>5. PICK e \in Seq(Symbols) : e = CRLF
  BY CRLFIs
<1>6. /\ Len(t) = l + 2
      /\ \A n \in 1..l + 2 : t[n] = IF n <= l THEN s[n] ELSE CRLF[n - l]
  <2>1. /\ Len(s \o e) = Len(s) + Len(e)
        /\ \A n \in 1..Len(s) + Len(e) : (s \o e)[n] = IF n <= Len(s) THEN s[n] ELSE e[n - Len(s)]
    BY <1>4, ConcatProperties
  <2>2. Len(e) = 2
    BY <1>5, CRLFIs
  <2> QED
    BY <1>5, <2>1, <2>2
<1> HIDE DEF t, l, c
<1>7. /\ p \in 1..c + 1 /\ p + (l + 2) <= c + 1
      /\ \A n \in 1..l + 2 : content[p + n - 1] = t[n]
  BY <1>3, <1>6 DEF StandsAt, c
<1>8. p \in Nat /\ p >= 1 /\ p + (l + 1) <= c
  BY <1>4, <1>7
<1>9. ASSUME NEW n \in 1..l PROVE content[p + (n - 1)] = s[n]
  <2>1. n \in 1..l + 2 /\ n <= l /\ p + n - 1 = p + (n - 1)
    BY <1>4, <1>8
  <2> QED
    BY <1>6, <1>7, <2>1
<1>10. content[p + l] = "CR" /\ content[p + (l + 1)] = "LF"
  <2> DEFINE x == l + 1
             y == l + 2
  <2>1. /\ x \in 1..l + 2 /\ ~(x <= l) /\ x - l = 1 /\ p + x - 1 = p + l
        /\ y \in 1..l + 2 /\ ~(y <= l) /\ y - l = 2 /\ p + y - 1 = p + (l + 1)
    BY <1>4, <1>8
  <2> HIDE DEF x, y
  <2>2. /\ content[p + x - 1] = t[x] /\ t[x] = CRLF[1]
        /\ content[p + y - 1] = t[y] /\ t[y] = CRLF[2]
    BY <1>6, <1>7, <2>1
  <2> QED
    BY <2>1, <2>2, CRLFIs
<1> QED
  BY <1>2, <1>3, <1>8, <1>9, <1>10 DEF s, p, l, c

\* What the parser sees behind the first m symbols of a line.
LEMMA Seen ==
  ASSUME RequestTypes, NEW off, Layout(off), NEW k \in 1..Len(sent),
         NEW m \in 0..Len(sent[k]), here = off[k] + m
  PROVE  /\ here < Len(content)
         /\ m < Len(sent[k]) => Request!Byte = sent[k][m + 1] /\ content[here] = sent[k][m + 1]
         /\ m = Len(sent[k]) => Request!Byte = "CR" /\ Request!AtCRLF
         /\ m + 1 < Len(sent[k]) => Request!At(here + 1) = sent[k][m + 2]
         /\ Request!AtCRLF => m = Len(sent[k])
         /\ Request!AtColon => m + 2 <= Len(sent[k]) /\ sent[k][m + 1] = ":" /\ sent[k][m + 2] = " "
<1> DEFINE s == sent[k]
           p == off[k]
           l == Len(s)
           c == Len(content)
<1>1. /\ l \in Nat /\ NoLineEnd(s) /\ p \in Nat /\ p >= 1 /\ p + (l + 1) <= c
      /\ \A n \in 1..l : content[p + (n - 1)] = s[n]
      /\ content[p + l] = "CR" /\ content[p + (l + 1)] = "LF"
  BY LineStands
<1>2. c \in Nat
  BY LenProperties DEF RequestTypes
<1>3. \A n \in 1..l : s[n] = "CR" => n = l \/ s[n + 1] # "LF"
  BY <1>1 DEF NoLineEnd
<1>4. here = p + m /\ m \in Nat /\ m <= l
  BY <1>1
<1>5. \A n : n <= c => Request!At(n) = content[n]
  BY DEF Request!At
<1> HIDE DEF s, p, l, c
<1>6. here < c /\ here <= c /\ here + 1 <= c
  BY <1>1, <1>2, <1>4
<1>7. Request!Byte = content[here] /\ Request!At(here + 1) = content[here + 1]
  BY <1>5, <1>6 DEF Request!Byte
<1>8. m < l => content[here] = s[m + 1]
  <2> SUFFICES ASSUME m < l PROVE content[here] = s[m + 1]
    OBVIOUS
  <2> DEFINE n == m + 1
  <2>1. n \in 1..l /\ p + (n - 1) = here
    BY <1>1, <1>4
  <2> HIDE DEF n
  <2>2. content[p + (n - 1)] = s[n]
    BY <1>1, <2>1
  <2> QED
    BY <2>1, <2>2 DEF n
<1>9. m + 1 < l => content[here + 1] = s[m + 2]
  <2> SUFFICES ASSUME m + 1 < l PROVE content[here + 1] = s[m + 2]
    OBVIOUS
  <2> DEFINE n == m + 2
  <2>1. n \in 1..l /\ p + (n - 1) = here + 1
    BY <1>1, <1>4
  <2> HIDE DEF n
  <2>2. content[p + (n - 1)] = s[n]
    BY <1>1, <2>1
  <2> QED
    BY <2>1, <2>2 DEF n
<1>10. m = l => content[here] = "CR" /\ content[here + 1] = "LF"
  <2>1. m = l => here = p + l /\ here + 1 = p + (l + 1)
    BY <1>1, <1>4
  <2> QED
    BY <1>1, <2>1
<1>11. m + 1 = l => content[here + 1] = "CR"
  <2>1. m + 1 = l => here + 1 = p + l
    BY <1>1, <1>4
  <2> QED
    BY <1>1, <2>1
<1>12. m = l \/ m + 1 = l \/ m + 1 < l
  BY <1>1, <1>4
<1>13. ASSUME Request!AtCRLF PROVE m = l
  <2>1. content[here] = "CR" /\ content[here + 1] = "LF"
    BY <1>7, <1>13 DEF Request!AtCRLF
  <2>2. CASE m + 1 = l
    BY <1>11, <2>1, <2>2
  <2>3. CASE m + 1 < l
    <3>1. s[m + 1] = "CR" /\ s[m + 2] = "LF"
      BY <1>1, <1>4, <1>8, <1>9, <2>1, <2>3
    <3> DEFINE n == m + 1
    <3>2. n \in 1..l /\ n # l /\ n + 1 = m + 2 /\ s[n] = "CR"
      BY <1>1, <1>4, <2>3, <3>1
    <3> HIDE DEF n
    <3>3. s[n + 1] # "LF"
      BY <1>3, <3>2
    <3> QED
      BY <3>1, <3>2, <3>3
  <2> QED
    BY <1>12, <2>2, <2>3
<1>14. ASSUME Request!AtColon PROVE m + 2 <= l /\ s[m + 1] = ":" /\ s[m + 2] = " "
  <2>1. content[here] = ":" /\ content[here + 1] = " "
    BY <1>7, <1>14, Zenon DEF Request!AtColon
  <2>2. m + 1 < l
    BY <1>10, <1>11, <1>12, <2>1, Zenon
  <2> QED
    <3>1. m < l /\ m + 2 <= l
      BY <1>1, <1>4, <2>2
    <3> QED
      BY <1>8, <1>9, <2>1, <2>2, <3>1, Zenon
<1>15. /\ m < l => Request!Byte = s[m + 1] /\ content[here] = s[m + 1]
       /\ m = l => Request!Byte = "CR" /\ Request!AtCRLF
       /\ m + 1 < l => Request!At(here + 1) = s[m + 2]
  BY <1>7, <1>8, <1>9, <1>10 DEF Request!AtCRLF
<1> QED
  BY <1>6, <1>13, <1>14, <1>15, Zenon DEF s, l, c

\* The first line is what the parser has before it until the headers.
LEMMA FirstLineStands ==
  ASSUME RequestTypes, Position, NEW off, Layout(off), NEW p \in Nat, FirstLine(p), parsing # "reading"
  PROVE  /\ 1 \in 1..Len(sent) /\ 2 \in 1..Len(sent) /\ Len(sent) \in Nat
         /\ off[1] = 1 /\ sent[1] \in Seq(Symbols) /\ Len(sent[1]) = p + 4
         /\ off[2] = p + 7
         /\ sent[1][1] = "GET" /\ sent[1][2] = " " /\ sent[1][p + 3] = " "
         /\ \A m \in 3..p + 2 : sent[1][m] # " "
<1>1. Len(sent) \in Nat /\ Len(sent) >= 2 /\ off[1] = 1
  BY LenProperties DEF RequestTypes, Position, Layout
<1>2. 1 \in 1..Len(sent) /\ 2 \in 1..Len(sent)
  BY <1>1
<1>3. sent[1] \in Seq(Symbols) /\ off[1 + 1] = off[1] + (Len(sent[1]) + 2)
  BY <1>2, LineStands
<1>4. Len(sent[1]) = p + 4
  BY Zenon DEF FirstLine
<1>5. off[2] = p + 7
  <2>1. 1 + 1 = 2 /\ 1 + ((p + 4) + 2) = p + 7
    OBVIOUS
  <2> QED
    BY <1>1, <1>3, <1>4, <2>1, Zenon
<1> QED
  BY <1>1, <1>2, <1>3, <1>4, <1>5, Zenon DEF FirstLine

\* What the parser sees in the first line.
LEMMA FirstSeen ==
  ASSUME RequestTypes, Position, NEW off, Layout(off), NEW p \in Nat, FirstLine(p), parsing # "reading",
         here \in 1..p + 5
  PROVE  /\ here < Len(content)
         /\ here < p + 5 => Request!Byte = sent[1][here]
         /\ here = p + 5 => Request!AtCRLF
<1>1. 1 \in 1..Len(sent) /\ off[1] = 1 /\ Len(sent[1]) = p + 4
  BY FirstLineStands, Zenon
<1> DEFINE m == here - 1
<1>2. m \in 0..p + 4 /\ 1 + m = here /\ m + 1 = here
  BY DEF m
<1>3. m < p + 4 <=> here < p + 5
  BY DEF m
<1>4. m = p + 4 <=> here = p + 5
  BY DEF m
<1> HIDE DEF m
<1>5. m \in 0..Len(sent[1]) /\ here = off[1] + m
  BY <1>1, <1>2
<1>6. /\ here < Len(content)
      /\ m < Len(sent[1]) => Request!Byte = sent[1][m + 1]
      /\ m = Len(sent[1]) => Request!AtCRLF
  BY <1>1, <1>5, Seen, Zenon
<1> QED
  BY <1>1, <1>2, <1>3, <1>4, <1>6

LEMMA MethodRead ==
  ASSUME RequestTypes, Position, NEW off, Layout(off), NEW p \in Nat, FirstLine(p), ReadSoFar(off, p),
         Request!MethodChar \/ Request!MethodEnd
  PROVE  ReadSoFar(off, p)'
<1>1. parsing = "method" /\ UNCHANGED <<sent, content, header>>
      /\ ((here = 1 /\ req.smethod = <<>>) \/ (here = 2 /\ req.smethod = <<"GET">>))
      /\ req.path = <<>>
  BY Zenon DEF ReadSoFar, Position, Request!MethodChar, Request!MethodEnd, Request!InLoop, Request!Refuse
<1>2. here \in 1..p + 5 /\ here < p + 5
  BY <1>1
<1>3. Request!Byte = sent[1][here] /\ here < Len(content)
  BY <1>1, <1>2, FirstSeen
<1>4. sent[1][1] = "GET" /\ sent[1][2] = " " /\ sent[1] \in Seq(Symbols)
  BY <1>1, FirstLineStands, Zenon
<1>5. CASE Request!MethodChar
  <2>1. here = 1 /\ req.smethod = <<>> /\ Request!Byte = "GET"
    BY <1>1, <1>3, <1>4, <1>5, Zenon DEF Request!MethodChar
  <2>2. here' = 2 /\ parsing' = "method"
    BY <1>1, <1>5, <2>1 DEF Request!MethodChar, Request!Skip
  <2>3. Append(<<>>, "GET") = <<"GET">>
    OBVIOUS
  <2>4. req' = [req EXCEPT !.smethod = Append(@, Request!Byte)] /\ req.smethod = <<>>
    BY <1>5, <2>1 DEF Request!MethodChar
  <2>5. req'.smethod = Append(<<>>, "GET")
    BY <2>1, <2>4 DEF RequestTypes
  <2> QED
    BY <2>2, <2>3, <2>5 DEF ReadSoFar
<1>6. CASE Request!MethodEnd
  <2>1. here = 2 /\ req.smethod = <<"GET">>
    <3> SUFFICES ASSUME here = 1 PROVE FALSE
      BY <1>1
    <3>1. Request!Byte = "GET" /\ ~(here > Len(content))
      <4>1. \A c \in Nat : here < c => ~(here > c)
        BY <1>1
      <4>2. Len(content) \in Nat
        BY LenProperties DEF RequestTypes
      <4> QED
        BY <1>3, <1>4, <4>1, <4>2, Zenon
    <3> QED
      BY <1>6, <3>1 DEF Request!MethodEnd
  <2>2. parsing' = "path" /\ here' = 3 /\ req' = req
    <3>1. parsing' = "path" /\ here' = here + 1 /\ req' = req
      BY <1>6, <2>1, Zenon DEF Request!MethodEnd, Request!Skip
    <3>2. 2 + 1 = 3
      OBVIOUS
    <3> QED
      BY <2>1, <3>1, <3>2, Zenon
  <2>3. SubSeq(sent[1], 3, 2) = <<>>
    BY SubSeqEmpty
  <2>4. here' - 1 = 2 /\ here' \in 3..p + 3
    BY <2>2
  <2> QED
    BY <1>1, <2>2, <2>3, <2>4 DEF ReadSoFar
<1> QED
  BY <1>5, <1>6

LEMMA PathRead ==
  ASSUME RequestTypes, Position, NEW off, Layout(off), NEW p \in Nat, FirstLine(p), ReadSoFar(off, p),
         Request!PathChar \/ Request!PathEnd \/ Request!PathUnended
  PROVE  ReadSoFar(off, p)'
<1>1. /\ parsing = "path" /\ UNCHANGED <<sent, content, header>>
      /\ here \in 3..p + 3 /\ req.path = SubSeq(sent[1], 3, here - 1)
  BY Zenon DEF ReadSoFar, Request!PathChar, Request!PathEnd, Request!PathUnended, Request!InLoop, Request!Refuse
<1>2. here \in 1..p + 5 /\ here < p + 5 /\ here \in Nat
  BY <1>1
<1>3. Request!Byte = sent[1][here] /\ here < Len(content)
  BY <1>1, <1>2, FirstSeen
<1>4. /\ sent[1][p + 3] = " " /\ \A m \in 3..p + 2 : sent[1][m] # " "
      /\ sent[1] \in Seq(Symbols) /\ Len(sent[1]) = p + 4
  BY <1>1, FirstLineStands, Zenon
<1>5. CASE Request!PathChar
  <2>1. here # p + 3
    BY <1>3, <1>4, <1>5, Zenon DEF Request!PathChar
  <2>2. here' = here + 1 /\ parsing' = "path"
    BY <1>1, <1>5, Zenon DEF Request!PathChar, Request!Skip
  <2>3. here' \in 3..p + 3 /\ here' - 1 = here
    BY <1>1, <2>1, <2>2
  <2>4. req'.path = Append(SubSeq(sent[1], 3, here - 1), sent[1][here])
    BY <1>1, <1>3, <1>5, Zenon DEF Request!PathChar, RequestTypes
  <2>5. 3 \in 1..Len(sent[1]) /\ here \in 3..Len(sent[1])
    <3>1. 3 \in 1..p + 4 /\ here \in 3..p + 4
      BY <1>1
    <3> QED
      BY <1>4, <3>1, Zenon
  <2>6. req'.path = SubSeq(sent[1], 3, here)
    BY <1>4, <2>4, <2>5, PieceGrows, Zenon
  <2> QED
    BY <1>1, <2>2, <2>3, <2>6 DEF ReadSoFar
<1>6. CASE Request!PathEnd
  <2>1. here \notin 3..p + 2
    BY <1>3, <1>4, <1>6, Zenon DEF Request!PathEnd
  <2>2. here = p + 3
    BY <1>1, <2>1
  <2>3. here' = p + 5 /\ parsing' = "version" /\ req' = req
    <3>1. here' = here + 2 /\ parsing' = "version" /\ req' = req
      BY <1>6, Zenon DEF Request!PathEnd, Request!Skip
    <3>2. (p + 3) + 2 = p + 5
      OBVIOUS
    <3> QED
      BY <2>2, <3>1, <3>2, Zenon
  <2>4. here - 1 = p + 2
    BY <2>2
  <2> QED
    BY <1>1, <2>3, <2>4 DEF ReadSoFar
<1>7. CASE Request!PathUnended
  <2>1. here = Len(content)
    BY <1>7 DEF Request!PathUnended
  <2> QED
    BY <1>2, <1>3, <2>1
<1> QED
  BY <1>5, <1>6, <1>7

\* The headers begin with the second line.
LEMMA VersionRead ==
  ASSUME RequestTypes, HeadersInv, Position, NEW off, Layout(off), NEW p \in Nat, FirstLine(p), ReadSoFar(off, p),
         Request!Version
  PROVE  ReadSoFar(off, p)'
<1>1. /\ parsing = "version" /\ UNCHANGED <<sent, content, header, req>>
      /\ here = p + 5 /\ req.path = SubSeq(sent[1], 3, p + 2)
      /\ header = Request!NoKey /\ req.headers = <<>>
  BY DEF ReadSoFar, HeadersInv, BeforeHeaders, Request!Version
<1>2. here \in 1..p + 5
  BY <1>1
<1>3. Request!AtCRLF /\ here < Len(content) /\ Len(content) \in Nat
  BY <1>1, <1>2, FirstSeen, LenProperties DEF RequestTypes
<1>4. ~(here > Len(content))
  BY <1>1, <1>3
<1>5. here' = p + 7 /\ parsing' = "headers"
  BY <1>1, <1>3, <1>4 DEF Request!Version, Request!Skip
<1>6. /\ 2 \in 1..Len(sent) /\ Len(sent) \in Nat /\ off[2] = p + 7
  BY <1>1, FirstLineStands, Zenon
<1>7. sent[2] \in Seq(Symbols) /\ Len(sent[2]) \in Nat
  BY <1>6, LineStands
<1>8. Piece' = <<>> /\ header'.keyread = FALSE
  BY <1>1 DEF Piece, Request!NoKey
<1>9. Len(Piece') = 0
  <2>1. Len(<<>>) = 0
    OBVIOUS
  <2> QED
    BY <1>8, <2>1, Zenon
<1>10. Piece' = SubSeq(sent'[2], 1, Len(Piece'))
  <2>1. SubSeq(sent[2], 1, 0) = <<>>
    BY SubSeqEmpty
  <2> QED
    BY <1>1, <1>8, <1>9, <2>1, Zenon
<1>11. req'.headers = SubSeq(sent', 2, 2 - 1)
  <2>1. SubSeq(sent, 2, 1) = <<>> /\ 2 - 1 = 1
    BY SubSeqEmpty
  <2> QED
    BY <1>1, <2>1
<1>12. InLine(2)'
  <2>1. Len(Piece') <= Len(sent'[2]) /\ \A n \in 1..Len(Piece') : FALSE
    BY <1>1, <1>7, <1>9
  <2> QED
    BY <1>8, <1>10, <1>11, <2>1 DEF InLine
<1>13. here' = off[2] + Len(Piece') /\ 2 \in 2..Len(sent')
  BY <1>1, <1>5, <1>6, <1>9
<1> QED
  BY <1>1, <1>5, <1>12, <1>13 DEF ReadSoFar

LEMMA TwoMore == \A n \in Nat : (n + 1) + 1 = n + 2
OBVIOUS

LEMMA PairIs ==
  ASSUME NEW x, NEW y
  PROVE  <<x>> \o <<y>> = <<x, y>>
<1>1. /\ <<x>> \in Seq({x, y}) /\ <<y>> \in Seq({x, y}) /\ <<x, y>> \in Seq({x, y})
      /\ Len(<<x>>) = 1 /\ Len(<<y>>) = 1 /\ Len(<<x, y>>) = 2
  OBVIOUS
<1>2. PICK s \in Seq({x, y}) : s = <<x>>
  BY <1>1
<1>3. PICK t \in Seq({x, y}) : t = <<y>>
  BY <1>1
<1>4. s[1] = x /\ t[1] = y /\ Len(s) = 1 /\ Len(t) = 1
  BY <1>2, <1>3
<1>5. /\ s \o t \in Seq({x, y}) /\ Len(s \o t) = Len(s) + Len(t)
      /\ \A n \in 1..Len(s) + Len(t) : (s \o t)[n] = IF n <= Len(s) THEN s[n] ELSE t[n - Len(s)]
  BY ConcatProperties
<1>6. PICK u \in Seq({x, y}) : u = s \o t
  BY <1>5
<1>7. Len(u) = 2 /\ u[1] = x /\ u[2] = y
  BY <1>4, <1>5, <1>6
<1>8. PICK v \in Seq({x, y}) : v = <<x, y>>
  BY <1>1
<1>9. Len(v) = 2 /\ v[1] = x /\ v[2] = y
  BY <1>8
<1>10. \A n \in 1..2 : n = 1 \/ n = 2
  OBVIOUS
<1>11. u = v
  BY <1>7, <1>9, <1>10, SeqEqual
<1> QED
  BY <1>2, <1>3, <1>6, <1>8, <1>11

\* Behind the colon something has been collected.
LEMMA KeyReadLong ==
  ASSUME RequestTypes, header.keyread
  PROVE  Len(Piece) >= 2
<1>1. header.key \in Seq(Symbols) /\ header.value \in Seq(Symbols)
  BY DEF RequestTypes
<1>2. PICK colon \in Seq(Symbols) : colon = <<":", " ">>
  BY <1>1, FormattedIs, Zenon
<1>3. Len(colon) = 2
  BY <1>2, Zenon
<1>4. Piece = (header.key \o colon) \o header.value
  BY <1>1, <1>2, FormattedIs, Zenon DEF Piece
<1>5. PICK K \in Seq(Symbols) : K = header.key \o colon /\ Len(K) = Len(header.key) + Len(colon)
  BY <1>1, ConcatProperties
<1>6. Len(K \o header.value) = Len(K) + Len(header.value)
  BY <1>1, <1>5, ConcatProperties
<1>7. Len(header.key) \in Nat /\ Len(header.value) \in Nat
  BY <1>1, LenProperties
<1>8. Len(Piece) = (Len(header.key) + 2) + Len(header.value)
  BY <1>3, <1>4, <1>5, <1>6, Zenon
<1>9. \A a, b \in Nat : (a + 2) + b >= 2
  OBVIOUS
<1> QED
  BY <1>7, <1>8, <1>9, Zenon

\* The parser in the headers of a well-formed request.
AtLine(off, k) ==
  /\ Layout(off) /\ Request!WellFormed /\ parsing = "headers"
  /\ k \in 2..Len(sent) /\ here = off[k] + Len(Piece) /\ InLine(k)

LEMMA AtLineIs ==
  ASSUME RequestTypes, HeadersInv, Position, NEW off, NEW k, AtLine(off, k)
  PROVE  /\ Len(sent) \in Nat /\ k \in Nat /\ k \in 1..Len(sent) /\ k >= 2
         /\ Len(Piece) \in 0..Len(sent[k]) /\ Len(Piece) \in Nat /\ Len(sent[k]) \in Nat
         /\ sent[k] \in Seq(Symbols)
         /\ k < Len(sent) => Request!IsHeader(sent[k])
<1>1. Len(sent) \in Nat /\ k \in 2..Len(sent) /\ InLine(k) /\ Layout(off)
  BY LenProperties DEF AtLine, RequestTypes
<1>2. k \in Nat /\ k \in 1..Len(sent) /\ k >= 2
  BY <1>1
<1>3. sent[k] \in Seq(Symbols) /\ Len(sent[k]) \in Nat
  BY <1>1, <1>2, LineStands
<1>4. Len(Piece) \in 0..Len(sent[k]) /\ Len(Piece) \in Nat
  <2>1. Len(Piece) \in Nat /\ Len(Piece) <= Len(sent[k])
    BY <1>1, PieceTyped, Zenon DEF InLine
  <2> QED
    BY <1>3, <2>1
<1>5. k < Len(sent) => Request!IsHeader(sent[k])
  <2>1. k < Len(sent) => k \in 2..(Len(sent) - 1)
    BY <1>1
  <2> QED
    BY <2>1, Zenon DEF AtLine, Request!WellFormed
<1> QED
  BY <1>1, <1>2, <1>3, <1>4, <1>5

\* What the parser sees there.
LEMMA AtLineSeen ==
  ASSUME RequestTypes, HeadersInv, Position, NEW off, NEW k, AtLine(off, k)
  PROVE  LET m == Len(Piece)
             s == sent[k]
         IN  /\ here < Len(content)
             /\ m < Len(s) => Request!Byte = s[m + 1]
             /\ m = Len(s) => Request!Byte = "CR" /\ Request!AtCRLF
             /\ m + 1 < Len(s) => Request!At(here + 1) = s[m + 2]
             /\ Request!AtCRLF => m = Len(s)
             /\ Request!AtColon => m + 2 <= Len(s) /\ s[m + 1] = ":" /\ s[m + 2] = " "
<1>1. PICK m \in 0..Len(sent[k]) : m = Len(Piece)
  BY AtLineIs
<1>2. k \in 1..Len(sent) /\ Layout(off) /\ here = off[k] + m
  BY <1>1, AtLineIs DEF AtLine
<1>3. /\ here < Len(content)
      /\ m < Len(sent[k]) => Request!Byte = sent[k][m + 1]
      /\ m = Len(sent[k]) => Request!Byte = "CR" /\ Request!AtCRLF
      /\ m + 1 < Len(sent[k]) => Request!At(here + 1) = sent[k][m + 2]
      /\ Request!AtCRLF => m = Len(sent[k])
      /\ Request!AtColon => m + 2 <= Len(sent[k]) /\ sent[k][m + 1] = ":" /\ sent[k][m + 2] = " "
  BY <1>2, Seen, Zenon
<1> QED
  BY <1>1, <1>3, Zenon

\* The head ends with the empty line and nowhere else.
LEMMA HeadEndsThere ==
  ASSUME RequestTypes, HeadersInv, Position, NEW off, NEW k, AtLine(off, k)
  PROVE  Request!HeadEnds <=> k = Len(sent)
<1> DEFINE m == Len(Piece)
           s == sent[k]
<1>1. /\ Len(sent) \in Nat /\ k \in 1..Len(sent) /\ s \in Seq(Symbols) /\ m \in Nat /\ Len(s) \in Nat /\ m <= Len(s)
      /\ k < Len(sent) => Request!IsHeader(s)
  BY AtLineIs
<1>2. InLine(k) /\ parsing = "headers"
  BY DEF AtLine
<1>3. /\ m = Len(s) => Request!AtCRLF
      /\ Request!AtCRLF => m = Len(s)
  BY AtLineSeen, Zenon
<1>4. Piece \in Seq(Symbols)
  BY PieceTyped
<1>5. ASSUME k = Len(sent) PROVE Request!HeadEnds
  <2>1. s = <<>>
    BY <1>2, <1>5 DEF Position
  <2>2. Len(s) = 0
    <3>1. Len(<<>>) = 0
      OBVIOUS
    <3> QED
      BY <2>1, <3>1, Zenon
  <2>3. m = 0
    BY <1>1, <2>2
  <2>4. Request!AtCRLF
    BY <1>3, <2>2, <2>3
  <2>5. Piece = <<>>
    BY <1>4, <2>3, EmptySeq
  <2>6. ~header.keyread
    BY <2>3, KeyReadLong
  <2> QED
    BY <2>4, <2>5, <2>6 DEF Request!HeadEnds, Piece, HeadersInv
<1>6. ASSUME k # Len(sent), Request!HeadEnds PROVE FALSE
  <2>1. Request!IsHeader(s)
    BY <1>1, <1>6
  <2>2. ~header.keyread /\ Piece = <<>> /\ Request!AtCRLF
    BY <1>2, <1>6, Zenon DEF Request!HeadEnds, InLine, Piece
  <2>3. m = 0
    <3>1. Len(<<>>) = 0
      OBVIOUS
    <3> QED
      BY <2>2, <3>1, Zenon
  <2>4. Len(s) > 2
    BY <2>1, Zenon DEF Request!IsHeader
  <2>5. m = Len(s)
    BY <1>3, <2>2
  <2> QED
    BY <2>3, <2>4, <2>5
<1> QED
  BY <1>5, <1>6

\* In a header that is not yet complete.
LEMMA KeyCharRead ==
  ASSUME RequestTypes, HeadersInv, Position, NEW off, NEW k, AtLine(off, k), Request!KeyChar
  PROVE  here' = off[k] + Len(Piece') /\ InLine(k)'
<1> DEFINE m == Len(Piece)
           s == sent[k]
<1>1. /\ k \in 1..Len(sent) /\ s \in Seq(Symbols) /\ m \in Nat /\ Len(s) \in Nat /\ m <= Len(s)
      /\ k < Len(sent) => Request!IsHeader(s)
      /\ Len(sent) \in Nat
  BY AtLineIs
<1>2. /\ InLine(k) /\ parsing = "headers" /\ here = off[k] + m /\ Layout(off)
      /\ ~header.keyread /\ ~Request!AtColon /\ ~Request!HeadEnds
      /\ here' = here + 1 /\ UNCHANGED <<sent, content, parsing, req>>
      /\ header' = [header EXCEPT !.key = Append(@, Request!Byte)]
  BY DEF AtLine, Request!KeyChar, Request!Skip
<1>3. off[k] \in Nat
  BY <1>1, <1>2, LineStands
<1>4. Request!IsHeader(s)
  BY <1>1, <1>2, HeadEndsThere
<1>5. Piece = SubSeq(s, 1, m) /\ \A n \in 1..m : ~(n < Len(s) /\ s[n] = ":" /\ s[n + 1] = " ")
  BY <1>2, Zenon DEF InLine
<1>6. m < Len(s)
  <2> SUFFICES ASSUME m = Len(s) PROVE FALSE
    BY <1>1
  <2>1. PICK n \in DOMAIN s : n < Len(s) /\ s[n] = ":" /\ s[n + 1] = " "
    BY <1>4, Zenon DEF Request!IsHeader
  <2>2. n \in 1..m
    BY <1>1, <2>1, LenProperties, Zenon
  <2> QED
    BY <1>5, <2>1, <2>2, Zenon
<1>7. /\ Request!Byte = s[m + 1]
      /\ m + 1 < Len(s) => Request!At(here + 1) = s[m + 2]
  BY <1>6, AtLineSeen, Zenon
<1>8. /\ header'.keyread = FALSE /\ header'.key = Append(header.key, Request!Byte) /\ header'.value = header.value
  BY <1>2 DEF RequestTypes
<1>9. Piece' = Append(Piece, s[m + 1])
  BY <1>2, <1>7, <1>8 DEF Piece
<1>10. /\ Piece' = SubSeq(s, 1, m + 1) /\ Len(Piece') = m + 1
  <2> DEFINE x == m + 1
  <2>1. 1 \in 1..Len(s) /\ x \in 1..Len(s) /\ x - 1 = m /\ x - 1 + 1 = x /\ 1 \in 1..(Len(s) + 1) /\ x \in (1 - 1)..Len(s)
    BY <1>1, <1>6
  <2>2. Piece' = Append(SubSeq(s, 1, x - 1), s[x])
    BY <1>5, <1>9, <2>1, Zenon
  <2> HIDE DEF x, s, m
  <2>3. Append(SubSeq(s, 1, x - 1), s[x]) = SubSeq(s, 1, x)
    BY <1>1, <2>1, PieceGrows
  <2>4. Len(SubSeq(s, 1, x)) = x - 1 + 1
    BY <1>1, <2>1, PieceOf
  <2> QED
    BY <2>1, <2>2, <2>3, <2>4 DEF x
<1>11. ASSUME NEW n \in 1..m + 1 PROVE ~(n < Len(s) /\ s[n] = ":" /\ s[n + 1] = " ")
  <2>1. CASE n \in 1..m
    BY <1>5, <2>1, Zenon
  <2>2. CASE n = m + 1
    <3> SUFFICES ASSUME m + 1 < Len(s), s[m + 1] = ":", s[m + 2] = " " PROVE FALSE
      <4>2. n + 1 = m + 2
        BY <1>1, <2>2, TwoMore, Zenon
      <4> QED
        BY <2>2, <4>2, Zenon
    <3> QED
      BY <1>2, <1>7, Zenon DEF Request!AtColon
  <2>3. \A a \in Nat : \A b \in 1..a + 1 : b \in 1..a \/ b = a + 1
    OBVIOUS
  <2> QED
    BY <1>1, <2>1, <2>2, <2>3, Zenon
<1>12. here' = off[k] + (m + 1) /\ m + 1 <= Len(s)
  BY <1>1, <1>2, <1>3, <1>6
<1>13. sent' = sent /\ req'.headers = SubSeq(sent, 2, k - 1)
  BY <1>2, Zenon DEF InLine
<1> HIDE DEF m
<1>14. InLine(k)'
  BY <1>8, <1>10, <1>11, <1>12, <1>13, Zenon DEF InLine
<1> QED
  BY <1>10, <1>12, <1>14

LEMMA KeyEndRead ==
  ASSUME RequestTypes, HeadersInv, Position, NEW off, NEW k, AtLine(off, k), Request!KeyEnd
  PROVE  here' = off[k] + Len(Piece') /\ InLine(k)'
<1> DEFINE m == Len(Piece)
           s == sent[k]
<1>1. /\ k \in 1..Len(sent) /\ s \in Seq(Symbols) /\ m \in Nat /\ Len(s) \in Nat /\ m <= Len(s)
      /\ k < Len(sent) => Request!IsHeader(s)
      /\ Len(sent) \in Nat
  BY AtLineIs
<1>2. /\ InLine(k) /\ parsing = "headers" /\ here = off[k] + m /\ Layout(off)
      /\ ~header.keyread /\ Request!AtColon /\ ~Request!HeadEnds
      /\ here' = here + 2 /\ UNCHANGED <<sent, content, parsing, req>>
      /\ header' = [header EXCEPT !.keyread = TRUE]
  BY DEF AtLine, Request!KeyEnd, Request!Skip
<1>3. off[k] \in Nat
  BY <1>1, <1>2, LineStands
<1>4. Request!IsHeader(s)
  BY <1>1, <1>2, HeadEndsThere
<1>5. Piece = SubSeq(s, 1, m) /\ Piece = header.key
  BY <1>2, Zenon DEF InLine, Piece
<1>6. m + 2 <= Len(s) /\ s[m + 1] = ":" /\ s[m + 2] = " "
  BY <1>2, AtLineSeen, Zenon
<1>7. /\ header'.keyread = TRUE /\ header'.key = header.key /\ header'.value = <<>>
  BY <1>2 DEF RequestTypes, HeadersInv
<1>8. header.key # <<>>
  <2> SUFFICES ASSUME Piece = <<>> PROVE FALSE
    BY <1>5
  <2>1. m = 0
    <3>1. Len(<<>>) = 0
      OBVIOUS
    <3> QED
      BY <3>1, Zenon
  <2>2. s[1] = ":"
    <3>1. 0 + 1 = 1
      OBVIOUS
    <3> QED
      BY <1>6, <2>1, <3>1, Zenon
  <2> QED
    BY <1>4, <2>2, Zenon DEF Request!IsHeader
<1>9. Piece' = Append(Append(Piece, s[m + 1]), s[m + 2])
  <2>1. header.key \in Seq(Symbols) /\ ":" \in Symbols /\ " " \in Symbols
    BY SymbolsAssumption, Zenon DEF RequestTypes
  <2>2. Piece' = header.key \o <<":", " ">>
    BY <1>7, <2>1, FormattedIs, Zenon DEF Piece
  <2>3. ASSUME NEW key \in Seq(Symbols), NEW x \in Symbols, NEW y \in Symbols
        PROVE  key \o <<x, y>> = Append(Append(key, x), y)
    <3>1. <<x>> \in Seq(Symbols) /\ <<y>> \in Seq(Symbols) /\ <<x>> \o <<y>> = <<x, y>>
      <4>1. <<x>> \in Seq(Symbols) /\ <<y>> \in Seq(Symbols)
        OBVIOUS
      <4> QED
        BY <4>1, PairIs
    <3>2. Append(key, x) = key \o <<x>> /\ Append(key, x) \in Seq(Symbols)
      BY AppendIsConcat, AppendProperties
    <3>3. Append(Append(key, x), y) = Append(key, x) \o <<y>>
      BY <3>2, AppendIsConcat
    <3>4. (key \o <<x>>) \o <<y>> = key \o (<<x>> \o <<y>>)
      BY <3>1, ConcatAssociative
    <3> QED
      BY <3>1, <3>2, <3>3, <3>4, Zenon
  <2> QED
    BY <1>5, <1>6, <2>1, <2>2, <2>3, Zenon
<1>10. /\ Piece' = SubSeq(s, 1, m + 2) /\ Len(Piece') = m + 2
  <2> DEFINE x == m + 1
             y == m + 2
  <2>1. /\ 1 \in 1..Len(s) /\ x \in 1..Len(s) /\ x - 1 = m
        /\ y \in 1..Len(s) /\ y - 1 = x /\ y - 1 + 1 = y /\ 1 \in 1..(Len(s) + 1) /\ y \in (1 - 1)..Len(s)
    <3>1. \A a, b \in Nat : a + 2 <= b =>
            /\ 1 \in 1..b /\ a + 1 \in 1..b /\ (a + 1) - 1 = a
            /\ a + 2 \in 1..b /\ (a + 2) - 1 = a + 1 /\ (a + 2) - 1 + 1 = a + 2
            /\ 1 \in 1..(b + 1) /\ a + 2 \in (1 - 1)..b
      OBVIOUS
    <3> QED
      BY <1>1, <1>6, <3>1, Zenon
  <2>2. Piece' = Append(Append(SubSeq(s, 1, x - 1), s[x]), s[y])
    BY <1>5, <1>9, <2>1
  <2> HIDE DEF x, y, s, m
  <2>3. Append(SubSeq(s, 1, x - 1), s[x]) = SubSeq(s, 1, x)
    BY <1>1, <2>1, PieceGrows
  <2>4. Append(SubSeq(s, 1, y - 1), s[y]) = SubSeq(s, 1, y)
    BY <1>1, <2>1, PieceGrows
  <2>5. Len(SubSeq(s, 1, y)) = y - 1 + 1
    BY <1>1, <2>1, PieceOf
  <2> QED
    BY <2>1, <2>2, <2>3, <2>4, <2>5 DEF y
<1>11. here' = off[k] + (m + 2) /\ m + 2 <= Len(s)
  <2>1. \A a, b \in Nat : (a + b) + 2 = a + (b + 2)
    OBVIOUS
  <2> QED
    BY <1>1, <1>2, <1>3, <1>6, <2>1, Zenon
<1>12. sent' = sent /\ req'.headers = SubSeq(sent, 2, k - 1)
  BY <1>2, Zenon DEF InLine
<1> HIDE DEF m
<1>13. InLine(k)'
  BY <1>7, <1>8, <1>10, <1>11, <1>12, Zenon DEF InLine
<1> QED
  BY <1>10, <1>11, <1>13

LEMMA ValueCharRead ==
  ASSUME RequestTypes, HeadersInv, Position, NEW off, NEW k, AtLine(off, k), Request!ValueChar
  PROVE  here' = off[k] + Len(Piece') /\ InLine(k)'
<1> DEFINE m == Len(Piece)
           s == sent[k]
<1>1. /\ k \in 1..Len(sent) /\ s \in Seq(Symbols) /\ m \in Nat /\ Len(s) \in Nat /\ m <= Len(s)
  BY AtLineIs
<1>2. /\ InLine(k) /\ parsing = "headers" /\ here = off[k] + m /\ Layout(off)
      /\ header.keyread /\ ~Request!AtCRLF
      /\ here' = here + 1 /\ UNCHANGED <<sent, content, parsing, req>>
      /\ header' = [header EXCEPT !.value = Append(@, Request!Byte)]
  BY DEF AtLine, Request!ValueChar, Request!Skip
<1>3. off[k] \in Nat
  BY <1>1, <1>2, LineStands
<1>5. Piece = SubSeq(s, 1, m) /\ header.key # <<>>
  BY <1>2 DEF InLine
<1>6. m < Len(s)
  <2>1. m # Len(s)
    BY <1>2, AtLineSeen, Zenon
  <2> QED
    BY <1>1, <2>1
<1>7. Request!Byte = s[m + 1]
  BY <1>6, AtLineSeen, Zenon
<1>8. /\ header'.keyread = header.keyread /\ header'.key = header.key /\ header'.value = Append(header.value, Request!Byte)
  BY <1>2 DEF RequestTypes
<1>9. Piece' = Append(Piece, s[m + 1])
  <2>1. m + 1 \in 1..Len(s)
    BY <1>1, <1>6
  <2>2. Request!Byte \in Symbols
    BY <1>1, <1>7, <2>1, ElementOfSeq
  <2>3. header.key \in Seq(Symbols) /\ header.value \in Seq(Symbols)
    BY DEF RequestTypes
  <2>4. /\ Piece' = Request!Formatted(header.key, Append(header.value, Request!Byte))
        /\ Piece = Request!Formatted(header.key, header.value)
    BY <1>2, <1>8 DEF Piece
  <2> QED
    BY <1>7, <2>2, <2>3, <2>4, FormattedIs, Zenon
<1>10. /\ Piece' = SubSeq(s, 1, m + 1) /\ Len(Piece') = m + 1
  <2> DEFINE x == m + 1
  <2>1. 1 \in 1..Len(s) /\ x \in 1..Len(s) /\ x - 1 = m /\ x - 1 + 1 = x /\ 1 \in 1..(Len(s) + 1) /\ x \in (1 - 1)..Len(s)
    BY <1>1, <1>6
  <2>2. Piece' = Append(SubSeq(s, 1, x - 1), s[x])
    BY <1>5, <1>9, <2>1
  <2> HIDE DEF x, s, m
  <2>3. Append(SubSeq(s, 1, x - 1), s[x]) = SubSeq(s, 1, x)
    BY <1>1, <2>1, PieceGrows
  <2>4. Len(SubSeq(s, 1, x)) = x - 1 + 1
    BY <1>1, <2>1, PieceOf
  <2> QED
    BY <2>1, <2>2, <2>3, <2>4 DEF x
<1>12. here' = off[k] + (m + 1) /\ m + 1 <= Len(s)
  BY <1>1, <1>2, <1>3, <1>6
<1>13. sent' = sent /\ req'.headers = SubSeq(sent, 2, k - 1)
  BY <1>2 DEF InLine
<1> HIDE DEF m
<1>14. InLine(k)'
  BY <1>2, <1>5, <1>8, <1>10, <1>12, <1>13, Zenon DEF InLine
<1> QED
  BY <1>10, <1>12, <1>14

\* The line is complete and has been read as a whole.
LEMMA ValueEndRead ==
  ASSUME RequestTypes, HeadersInv, Position, NEW off, NEW k, AtLine(off, k), Request!ValueEnd
  PROVE  k + 1 \in 2..Len(sent) /\ here' = off[k + 1] + Len(Piece') /\ InLine(k + 1)'
<1> DEFINE m == Len(Piece)
           s == sent[k]
<1>1. /\ k \in 1..Len(sent) /\ k \in Nat /\ k >= 2 /\ s \in Seq(Symbols) /\ m \in Nat /\ Len(s) \in Nat
      /\ Len(sent) \in Nat
  BY AtLineIs
<1>2. /\ InLine(k) /\ parsing = "headers" /\ here = off[k] + m /\ Layout(off)
      /\ Request!AtCRLF /\ ~Request!HeadEnds
  BY DEF AtLine, Request!ValueEnd
<1>3. /\ UNCHANGED <<sent, content, parsing>> /\ Piece' = <<>> /\ here' = here + 2
      /\ req' = [smethod |-> req.smethod, path |-> req.path, headers |-> Append(req.headers, Piece)]
      /\ header' = Request!NoKey
  BY ValueEndStep
<1>4. off[k] \in Nat /\ off[k + 1] = off[k] + (Len(s) + 2)
  BY <1>1, <1>2, LineStands
<1>5. k + 1 \in 2..Len(sent) /\ k < Len(sent)
  <2>1. k # Len(sent)
    BY <1>2, HeadEndsThere
  <2> QED
    BY <1>1, <2>1
<1>6. m = Len(s)
  BY <1>2, AtLineSeen, Zenon
<1>7. Piece = s
  <2>1. Piece = SubSeq(s, 1, m)
    BY <1>2, Zenon DEF InLine
  <2>2. SubSeq(s, 1, Len(s)) = s
    BY <1>1, SubSeqFull
  <2> QED
    BY <1>6, <2>1, <2>2, Zenon
<1>8. Append(req.headers, Piece) = SubSeq(sent, 2, k)
  <2>1. 2 \in 1..Len(sent) /\ k \in 2..Len(sent)
    BY <1>1
  <2>2. Append(SubSeq(sent, 2, k - 1), sent[k]) = SubSeq(sent, 2, k)
    BY <2>1, PieceGrows DEF RequestTypes
  <2> QED
    BY <1>2, <1>7, <2>2, Zenon DEF InLine
<1>9. Len(Piece') = 0
  <2>1. Len(<<>>) = 0
    OBVIOUS
  <2> QED
    BY <1>3, <2>1, Zenon
<1>10. here' = off[k + 1] + Len(Piece')
  <2>1. \A a, b \in Nat : (a + b) + 2 = (a + (b + 2)) + 0
    OBVIOUS
  <2>2. here' = (off[k] + Len(s)) + 2
    BY <1>2, <1>3, <1>6, Zenon
  <2> QED
    BY <1>1, <1>4, <1>9, <2>1, <2>2, Zenon
<1>11. header'.keyread = FALSE
  BY <1>3 DEF Request!NoKey
<1>12. req'.headers = SubSeq(sent', 2, (k + 1) - 1)
  <2>1. (k + 1) - 1 = k
    BY <1>1
  <2> QED
    BY <1>3, <1>8, <2>1
<1>13. Piece' = SubSeq(sent'[k + 1], 1, Len(Piece'))
  <2>1. SubSeq(sent[k + 1], 1, 0) = <<>>
    BY SubSeqEmpty
  <2> QED
    BY <1>3, <1>9, <2>1, Zenon
<1>14. Len(Piece') <= Len(sent'[k + 1]) /\ \A n \in 1..Len(Piece') : FALSE
  <2>1. k + 1 \in 1..Len(sent)
    BY <1>5
  <2>2. Len(sent[k + 1]) \in Nat
    BY <1>2, <2>1, LineStands
  <2> QED
    BY <1>3, <1>9, <2>2
<1>15. InLine(k + 1)'
  <2> DEFINE x == k + 1
  <2>1. /\ req'.headers = SubSeq(sent', 2, x - 1)
        /\ Len(Piece') <= Len(sent'[x]) /\ Piece' = SubSeq(sent'[x], 1, Len(Piece'))
        /\ \A n \in 1..Len(Piece') : FALSE
    BY <1>12, <1>13, <1>14
  <2> HIDE DEF x
  <2>2. InLine(x)'
    BY <1>11, <2>1, Zenon DEF InLine
  <2> QED
    BY <2>2 DEF x
<1> QED
  BY <1>5, <1>10, <1>15

\* The head is recognised as complete when all headers have been read, and
\* never given up.
LEMMA HeadRead ==
  ASSUME RequestTypes, HeadersInv, Position, NEW off, NEW k, AtLine(off, k),
         Request!HeadersEnd \/ Request!HeadersUnended
  PROVE  parsing' = "parsed" /\ req.headers = SubSeq(sent, 2, Len(sent) - 1)
         /\ UNCHANGED <<sent, req>>
<1>1. here < Len(content) /\ Len(content) \in Nat /\ here \in Nat
  <2>1. here < Len(content)
    BY AtLineSeen, Zenon
  <2>2. Len(content) \in Nat /\ here \in 1..Len(content) + 2
    BY LenProperties DEF RequestTypes
  <2>3. \A c \in Nat : \A n \in 1..c + 2 : n \in Nat
    OBVIOUS
  <2> QED
    BY <2>1, <2>2, <2>3, Zenon
<1>2. ~(here > Len(content)) /\ here # Len(content)
  BY <1>1
<1>3. Request!HeadersEnd /\ Request!HeadEnds
  BY <1>2 DEF Request!HeadersEnd, Request!HeadersUnended
<1>4. k = Len(sent)
  BY <1>3, HeadEndsThere
<1> QED
  BY <1>3, <1>4, Zenon DEF Request!HeadersEnd, AtLine, InLine

\* The steps of the parser in the headers.
LEMMA HeadersRead ==
  ASSUME RequestTypes, HeadersInv, Position, NEW off, Layout(off), Request!WellFormed, NEW p \in Nat,
         ReadSoFar(off, p),
         \/ Request!KeyChar \/ Request!KeyEnd \/ Request!ValueChar \/ Request!ValueEnd
         \/ Request!HeadersEnd \/ Request!HeadersUnended
  PROVE  ReadSoFar(off, p)'
<1>1. parsing = "headers" /\ UNCHANGED sent
  BY DEF Request!KeyChar, Request!KeyEnd, Request!ValueChar, Request!ValueEnd, Request!InHeaders, Request!InLoop,
         Request!HeadersEnd, Request!HeadersUnended, Request!Refuse
<1>2. req.path = SubSeq(sent[1], 3, p + 2)
  BY <1>1 DEF ReadSoFar
<1>3. PICK k \in 2..Len(sent) : here = off[k] + Len(Piece) /\ InLine(k)
  BY <1>1 DEF ReadSoFar
<1>4. AtLine(off, k)
  BY <1>1, <1>3 DEF AtLine
<1>5. CASE Request!KeyChar \/ Request!KeyEnd \/ Request!ValueChar
  <2>1. here' = off[k] + Len(Piece') /\ InLine(k)'
    BY <1>4, <1>5, KeyCharRead, KeyEndRead, ValueCharRead
  <2>2. parsing' = "headers" /\ req' = req
    BY <1>1, <1>5, HeaderStep
  <2> QED
    BY <1>1, <1>2, <1>3, <2>1, <2>2 DEF ReadSoFar
<1>6. CASE Request!ValueEnd
  <2>1. k + 1 \in 2..Len(sent) /\ here' = off[k + 1] + Len(Piece') /\ InLine(k + 1)'
    BY <1>4, <1>6, ValueEndRead
  <2>2. parsing' = "headers" /\ req'.path = req.path
    BY <1>1, <1>6, ValueEndStep
  <2>3. \E x \in 2..Len(sent') : here' = off[x] + Len(Piece') /\ InLine(x)'
    BY <1>1, <2>1
  <2> QED
    BY <1>1, <1>2, <2>2, <2>3 DEF ReadSoFar
<1>7. CASE Request!HeadersEnd \/ Request!HeadersUnended
  <2>1. /\ parsing' = "parsed" /\ req.headers = SubSeq(sent, 2, Len(sent) - 1)
        /\ req' = req
    BY <1>4, <1>7, HeadRead
  <2> QED
    BY <1>1, <1>2, <2>1 DEF ReadSoFar
<1> QED
  BY <1>5, <1>6, <1>7

\* What has been received stays where it stands when more is received.
LEMMA StandsStill ==
  ASSUME NEW S, NEW c \in Seq(S), NEW d \in Seq(S), NEW t, Len(t) \in Nat, NEW p, StandsAt(t, p, c)
  PROVE  StandsAt(t, p, c \o d)
<1>1. Len(c) \in Nat /\ Len(d) \in Nat
  BY LenProperties
<1> DEFINE e == c \o d
<1>2. /\ Len(e) = Len(c) + Len(d)
      /\ \A n \in 1..Len(c) + Len(d) : e[n] = IF n <= Len(c) THEN c[n] ELSE d[n - Len(c)]
  BY ConcatProperties
<1> HIDE DEF e
<1>3. /\ p \in 1..Len(c) + 1 /\ p + Len(t) <= Len(c) + 1
      /\ \A n \in 1..Len(t) : c[p + n - 1] = t[n]
  BY DEF StandsAt
<1>4. p \in 1..Len(e) + 1 /\ p + Len(t) <= Len(e) + 1
  BY <1>1, <1>2, <1>3
<1>5. ASSUME NEW n \in 1..Len(t) PROVE e[p + n - 1] = t[n]
  <2> DEFINE x == p + n - 1
  <2>1. x \in 1..Len(c) + Len(d) /\ x <= Len(c)
    BY <1>1, <1>3
  <2>2. c[x] = t[n]
    BY <1>3
  <2> HIDE DEF x
  <2>3. e[x] = c[x]
    BY <1>2, <2>1
  <2> QED
    BY <2>2, <2>3 DEF x
<1> QED
  BY <1>4, <1>5 DEF StandsAt, e

LEMMA StandsLast ==
  ASSUME NEW S, NEW c \in Seq(S), NEW d \in Seq(S)
  PROVE  StandsAt(d, Len(c) + 1, c \o d)
<1>1. Len(c) \in Nat /\ Len(d) \in Nat
  BY LenProperties
<1> DEFINE e == c \o d
<1>2. /\ Len(e) = Len(c) + Len(d)
      /\ \A n \in 1..Len(c) + Len(d) : e[n] = IF n <= Len(c) THEN c[n] ELSE d[n - Len(c)]
  BY ConcatProperties
<1> HIDE DEF e
<1>3. Len(c) + 1 \in 1..Len(e) + 1 /\ (Len(c) + 1) + Len(d) <= Len(e) + 1
  BY <1>1, <1>2
<1>4. ASSUME NEW n \in 1..Len(d) PROVE e[(Len(c) + 1) + n - 1] = d[n]
  <2> DEFINE x == (Len(c) + 1) + n - 1
  <2>1. x \in 1..Len(c) + Len(d) /\ ~(x <= Len(c)) /\ x - Len(c) = n
    BY <1>1
  <2> HIDE DEF x
  <2>2. e[x] = d[n]
    BY <1>2, <2>1
  <2> QED
    BY <2>2 DEF x
<1> QED
  BY <1>3, <1>4 DEF StandsAt, e

\* The layout of the lines, with one line more.
LEMMA LayoutGrows ==
  ASSUME RequestTypes, HeadersInv, NEW off, Layout(off),
         NEW line \in RequestLines \cup HeaderLines \cup {<<>>}, Request!Receive(line)
  PROVE  \E new \in [1..Len(sent') + 1 -> Nat] : Layout(new)'
<1> DEFINE q == Len(sent)
           c == Len(content)
           l == Len(line)
<1>1. /\ q \in Nat /\ c \in Nat /\ l \in Nat /\ content \in Seq(Symbols)
      /\ sent \in Seq(RequestLines \cup HeaderLines \cup {<<>>})
      /\ line \in Seq(Symbols) /\ NoLineEnd(line)
  BY LenProperties, LineIs DEF RequestTypes
<1>2. /\ content' = content \o (line \o CRLF) /\ Len(content') = c + (l + 2)
      /\ line \o CRLF \in Seq(Symbols) /\ sent' = Append(sent, line)
  BY ReceiveStep DEF Request!Receive
<1>3. /\ off \in [1..q + 1 -> Nat] /\ off[1] = 1 /\ off[q + 1] = c + 1
      /\ \A n \in 1..q : /\ off[n + 1] = off[n] + (Len(sent[n]) + 2)
                         /\ StandsAt(sent[n] \o CRLF, off[n], content)
  BY DEF Layout
<1>4. /\ Len(sent') = q + 1 /\ sent'[q + 1] = line
      /\ \A n \in 1..q : sent'[n] = sent[n]
  BY <1>1, <1>2, AppendProperties
<1>5. PICK new : new = [n \in 1..(q + 1) + 1 |-> IF n = (q + 1) + 1 THEN (c + (l + 2)) + 1 ELSE off[n]]
  OBVIOUS
<1> HIDE DEF q, c, l
<1>6. /\ new[(q + 1) + 1] = (c + (l + 2)) + 1
      /\ \A n \in 1..q + 1 : new[n] = off[n] /\ n \in 1..(q + 1) + 1
      /\ \A n \in 1..(q + 1) + 1 : n \in 1..q + 1 \/ n = (q + 1) + 1
  <2>1. /\ (q + 1) + 1 \in 1..(q + 1) + 1
        /\ \A n \in 1..q + 1 : n \in 1..(q + 1) + 1 /\ n # (q + 1) + 1
        /\ \A n \in 1..(q + 1) + 1 : n \in 1..q + 1 \/ n = (q + 1) + 1
    BY <1>1
  <2> QED
    BY <1>5, <2>1, Zenon
<1>7. new \in [1..(q + 1) + 1 -> Nat]
  <2>1. \A n \in 1..q + 1 : off[n] \in Nat
    BY <1>3
  <2>2. (c + (l + 2)) + 1 \in Nat
    BY <1>1
  <2>3. \A n \in 1..(q + 1) + 1 : new[n] \in Nat
    BY <1>6, <2>1, <2>2, Zenon
  <2> QED
    BY <1>5, <2>3
<1>8. new[1] = 1
  <2>1. 1 \in 1..q + 1
    BY <1>1
  <2> QED
    BY <1>3, <1>6, <2>1
<1>9. new[(q + 1) + 1] = Len(content') + 1
  BY <1>2, <1>6
<1>10. ASSUME NEW n \in 1..q + 1
       PROVE  /\ new[n + 1] = new[n] + (Len(sent'[n]) + 2)
              /\ StandsAt(sent'[n] \o CRLF, new[n], content')
  <2>1. CASE n \in 1..q
    <3>1. n \in 1..q + 1 /\ n + 1 \in 1..q + 1
      BY <1>1, <2>1
    <3>2. /\ new[n + 1] = off[n + 1] /\ new[n] = off[n] /\ sent'[n] = sent[n]
      BY <1>4, <1>6, <2>1, <3>1
    <3>3. sent[n] \in RequestLines \cup HeaderLines \cup {<<>>}
      BY <1>1, <2>1, ElementOfSeq DEF q
    <3>4. sent[n] \in Seq(Symbols)
      BY <3>3, LineIs
    <3>5. PICK e \in Seq(Symbols) : e = CRLF
      BY CRLFIs
    <3>6. sent[n] \o e \in Seq(Symbols)
      BY <3>4, ConcatProperties
    <3>7. Len(sent[n] \o e) \in Nat
      BY <3>6, LenProperties
    <3>8. StandsAt(sent[n] \o e, off[n], content)
      BY <1>3, <2>1, <3>5
    <3>9. StandsAt(sent[n] \o e, off[n], content \o (line \o CRLF))
      BY <1>1, <1>2, <3>7, <3>8, StandsStill
    <3> QED
      BY <1>2, <1>3, <2>1, <3>2, <3>5, <3>9
  <2>2. CASE n = q + 1
    <3>1. sent'[n] = line /\ new[n] = c + 1 /\ new[n + 1] = (c + (l + 2)) + 1
      BY <1>3, <1>4, <1>6, <2>2
    <3>2. (c + (l + 2)) + 1 = (c + 1) + (l + 2)
      BY <1>1
    <3>3. StandsAt(line \o CRLF, c + 1, content \o (line \o CRLF))
      BY <1>1, <1>2, StandsLast DEF c
    <3> QED
      BY <1>2, <3>1, <3>2, <3>3 DEF l
  <2> QED
    BY <1>1, <2>1, <2>2
<1>11. CRLF' = CRLF
  BY DEF CRLF, Request!CRLF
<1>12. Layout(new)'
  BY <1>4, <1>7, <1>8, <1>9, <1>10, <1>11 DEF Layout
<1> QED
  BY <1>4, <1>7, <1>12

\* The end of a text, by its characters.
LEMMA SuffixIs ==
  ASSUME NEW S, NEW s \in Seq(S), NEW t \in Seq(S), Request!IsSuffix(s, t)
  PROVE  Len(s) <= Len(t) /\ \A n \in 1..Len(s) : t[(Len(t) - n) + 1] = s[(Len(s) - n) + 1]
<1>1. Len(s) \in Nat /\ Len(t) \in Nat
  BY LenProperties
<1>2. ASSUME NEW u \in Seq(S)
      PROVE  /\ Request!Reverse(u) \in Seq(S) /\ Len(Request!Reverse(u)) = Len(u)
             /\ \A n \in 1..Len(u) : Request!Reverse(u)[n] = u[(Len(u) - n) + 1]
  <2>1. Len(u) \in Nat
    BY LenProperties
  <2>2. \A n \in 1..Len(u) : (Len(u) - n) + 1 \in 1..Len(u)
    BY <2>1
  <2>3. \A n \in 1..Len(u) : u[(Len(u) - n) + 1] \in S
    BY <2>2, ElementOfSeq
  <2> QED
    BY <2>1, <2>3 DEF Request!Reverse
<1>3. Request!IsPrefix(Request!Reverse(s), Request!Reverse(t))
  BY DEF Request!IsSuffix
<1>4. PICK a \in Seq(S) : a = Request!Reverse(s)
  BY <1>2
<1>5. PICK b \in Seq(S) : b = Request!Reverse(t)
  BY <1>2
<1>6. Len(a) <= Len(b) /\ \A n \in 1..Len(a) : a[n] = b[n]
  BY <1>3, <1>4, <1>5, PrefixIs
<1>7. \A n \in 1..Len(s) : n \in 1..Len(t)
  BY <1>1, <1>2, <1>4, <1>5, <1>6
<1> QED
  <2>1. /\ Len(a) = Len(s) /\ \A n \in 1..Len(s) : a[n] = s[(Len(s) - n) + 1]
        /\ Len(b) = Len(t) /\ \A n \in 1..Len(t) : b[n] = t[(Len(t) - n) + 1]
    BY <1>2, <1>4, <1>5, Zenon
  <2>2. \A n \in 1..Len(s) : a[n] = b[n]
    BY <1>6, <2>1, Zenon
  <2>3. \A n \in 1..Len(s) : t[(Len(t) - n) + 1] = s[(Len(s) - n) + 1]
    <3> SUFFICES ASSUME NEW n \in 1..Len(s) PROVE t[(Len(t) - n) + 1] = s[(Len(s) - n) + 1]
      OBVIOUS
    <3>1. a[n] = s[(Len(s) - n) + 1] /\ a[n] = b[n] /\ b[n] = t[(Len(t) - n) + 1]
      BY <1>7, <2>1, <2>2, Zenon
    <3> QED
      BY <3>1, Zenon
  <2> QED
    BY <1>6, <2>1, <2>3, Zenon

\* The two line ends the reading loop waits for.
LEMMA TwoEnds ==
  /\ Request!CRLF \o Request!CRLF \in Seq(Symbols) /\ Len(Request!CRLF \o Request!CRLF) = 4
  /\ (Request!CRLF \o Request!CRLF)[1] = "CR" /\ (Request!CRLF \o Request!CRLF)[2] = "LF"
<1>1. PICK e \in Seq(Symbols) : e = Request!CRLF /\ Len(e) = 2 /\ e[1] = "CR" /\ e[2] = "LF"
  BY CRLFIs DEF CRLF
<1>2. /\ e \o e \in Seq(Symbols) /\ Len(e \o e) = Len(e) + Len(e)
      /\ \A n \in 1..Len(e) + Len(e) : (e \o e)[n] = IF n <= Len(e) THEN e[n] ELSE e[n - Len(e)]
  BY ConcatProperties
<1>3. 2 + 2 = 4 /\ 1 \in 1..4 /\ 1 <= 2 /\ 2 \in 1..4 /\ 2 <= 2
  OBVIOUS
<1>4. Len(e \o e) = 4 /\ (e \o e)[1] = "CR" /\ (e \o e)[2] = "LF"
  BY <1>1, <1>2, <1>3
<1> QED
  BY <1>1, <1>2, <1>4

\* The head is complete when an empty line behind another one has been received:
\* no other line lets the loop see two line ends.
LEMMA CompleteLine ==
  ASSUME RequestTypes, HeadersInv, NEW off, Layout(off),
         NEW line \in RequestLines \cup HeaderLines \cup {<<>>}, Request!Receive(line),
         Request!Complete(content')
  PROVE  line = <<>> /\ Len(sent) >= 1
<1> DEFINE l == Len(line)
           c == Len(content)
           d == content'
           t == line \o CRLF
<1>1. /\ Len(sent) \in Nat /\ c \in Nat /\ l \in Nat /\ content \in Seq(Symbols)
      /\ line \in Seq(Symbols) /\ NoLineEnd(line)
  BY LenProperties, LineIs DEF RequestTypes
<1>2. /\ d = content \o t /\ Len(d) = c + (l + 2) /\ d \in Seq(Symbols) /\ t \in Seq(Symbols) /\ Len(t) = l + 2
  BY ReceiveStep DEF RequestTypes
<1>3. /\ \A n \in 1..c : d[n] = content[n]
      /\ \A n \in 1..l + 2 : d[c + n] = t[n]
      /\ \A n \in 1..l : t[n] = line[n]
  <2>1. \A n \in 1..c + (l + 2) : d[n] = IF n <= c THEN content[n] ELSE t[n - c]
    <3>1. \A n \in 1..Len(content) + Len(t) : (content \o t)[n] = IF n <= Len(content) THEN content[n] ELSE t[n - Len(content)]
      BY <1>1, <1>2, ConcatProperties
    <3> QED
      BY <1>2, <3>1
  <2>2. \A n \in 1..l : t[n] = line[n]
    <3>1. PICK e \in Seq(Symbols) : e = CRLF
      BY CRLFIs
    <3>2. \A n \in 1..Len(line) + Len(e) : (line \o e)[n] = IF n <= Len(line) THEN line[n] ELSE e[n - Len(line)]
      BY <1>1, ConcatProperties
    <3>3. \A n \in 1..l : n \in 1..Len(line) + Len(e) /\ n <= l
      BY <1>1, <3>1, LenProperties
    <3> QED
      BY <3>1, <3>2, <3>3
  <2> HIDE DEF l, c, d, t
  <2>3. \A n \in 1..c : n \in 1..c + (l + 2) /\ n <= c
    BY <1>1
  <2>4. \A n \in 1..l + 2 : c + n \in 1..c + (l + 2) /\ ~(c + n <= c) /\ (c + n) - c = n
    BY <1>1
  <2> QED
    BY <2>1, <2>2, <2>3, <2>4
<1>4. /\ Len(d) >= 5 /\ d[(Len(d) - 4) + 1] = "CR" /\ d[(Len(d) - 3) + 1] = "LF"
  <2>1. Len(d) >= 5 /\ Request!IsSuffix(Request!CRLF \o Request!CRLF, d)
    BY DEF Request!Complete
  <2>2. PICK s \in Seq(Symbols) : s = Request!CRLF \o Request!CRLF
    BY TwoEnds
  <2>3. Len(s) = 4 /\ s[1] = "CR" /\ s[2] = "LF"
    BY <2>2, TwoEnds
  <2>4. \A n \in 1..Len(s) : d[(Len(d) - n) + 1] = s[(Len(s) - n) + 1]
    BY <1>2, <2>1, <2>2, SuffixIs
  <2>5. 4 \in 1..4 /\ 3 \in 1..4 /\ (4 - 4) + 1 = 1 /\ (4 - 3) + 1 = 2
    OBVIOUS
  <2> QED
    BY <2>1, <2>3, <2>4, <2>5
<1> HIDE DEF l, c, d, t
<1>5. ASSUME l >= 2 PROVE FALSE
  <2> DEFINE x == l - 1
  <2>1. /\ x \in 1..l /\ l \in 1..l /\ x \in 1..l + 2 /\ l \in 1..l + 2 /\ x + 1 = l /\ x # l
        /\ c + x = ((c + (l + 2)) - 4) + 1 /\ c + l = ((c + (l + 2)) - 3) + 1
    BY <1>1, <1>5
  <2> HIDE DEF x
  <2>2. d[c + x] = line[x] /\ d[c + l] = line[l]
    BY <1>3, <2>1
  <2>3. line[x] = "CR" /\ line[x + 1] = "LF"
    BY <1>2, <1>4, <2>1, <2>2, Zenon
  <2>4. \A n \in 1..l : line[n] = "CR" => n = l \/ line[n + 1] # "LF"
    BY <1>1 DEF NoLineEnd, l
  <2> QED
    BY <2>1, <2>3, <2>4, Zenon
<1>6. off[1] = 1 /\ off[Len(sent) + 1] = c + 1
  BY DEF Layout, c
<1>7. ASSUME Len(sent) = 0 PROVE FALSE
  <2>1. 0 + 1 = 1 /\ \A n \in Nat : 1 = n + 1 => n = 0
    OBVIOUS
  <2>2. c = 0
    BY <1>1, <1>6, <1>7, <2>1, Zenon
  <2>3. l >= 3
    BY <1>1, <1>2, <1>4, <2>2
  <2> QED
    BY <1>1, <1>5, <2>3
<1>8. ASSUME l = 1 PROVE FALSE
  <2>1. PICK k \in Nat : k = Len(sent) /\ k \in 1..Len(sent)
    BY <1>1, <1>7
  <2>2. /\ Len(sent[k]) \in Nat /\ off[k] \in Nat /\ off[k] >= 1
        /\ off[k + 1] = off[k] + (Len(sent[k]) + 2)
        /\ content[off[k] + (Len(sent[k]) + 1)] = "LF"
    BY <2>1, LineStands
  <2> DEFINE a == off[k]
             b == Len(sent[k])
  <2>3. a \in Nat /\ b \in Nat /\ a >= 1 /\ a + (b + 2) = c + 1 /\ content[a + (b + 1)] = "LF"
    BY <1>6, <2>1, <2>2
  <2> HIDE DEF a, b
  <2>4. a + (b + 1) = c /\ c \in 1..c
    BY <1>1, <2>3
  <2>5. d[c] = "LF"
    BY <1>3, <2>3, <2>4
  <2>6. ((c + (1 + 2)) - 4) + 1 = c
    BY <1>1
  <2>7. d[c] = "CR"
    BY <1>2, <1>4, <1>8, <2>6, Zenon
  <2> QED
    BY <2>5, <2>7
<1>9. l = 0 /\ Len(sent) >= 1
  BY <1>1, <1>5, <1>7, <1>8
<1>10. line = <<>>
  BY <1>1, <1>9, EmptySeq DEF l
<1> QED
  BY <1>9, <1>10

\* The first line of a well-formed request, by its characters.
LEMMA FirstLineIs ==
  RequestTypes /\ Len(sent) >= 1 /\ Request!WellFormed => \E p \in Nat : FirstLine(p)
<1> SUFFICES ASSUME RequestTypes, Len(sent) >= 1, Request!WellFormed
             PROVE  \E p \in Nat : FirstLine(p)
  OBVIOUS
<1> DEFINE s == sent[1]
<1>1. s \in Seq(Symbols) /\ Len(s) \in Nat /\ DOMAIN s = 1..Len(s)
  <2>1. Len(sent) \in Nat /\ sent \in Seq(RequestLines \cup HeaderLines \cup {<<>>})
    BY LenProperties DEF RequestTypes
  <2>2. 1 \in 1..Len(sent)
    BY <2>1
  <2>3. s \in RequestLines \cup HeaderLines \cup {<<>>}
    BY <2>1, <2>2, ElementOfSeq
  <2>4. s \in Seq(Symbols)
    BY <2>3, LineIs
  <2> QED
    BY <2>4, LenProperties
<1>2. PICK n \in DOMAIN s : Request!SaysPath(SubSeq(s, 3, n)) /\ \A m \in 3..n : s[m] # " "
  BY Zenon DEF Request!WellFormed
<1>3. PICK version \in Symbols : s = (<<"GET", " ">> \o SubSeq(s, 3, n)) \o <<" ", version>>
  BY <1>2, Zenon DEF Request!SaysPath
<1>4. "GET" \in Symbols /\ " " \in Symbols
  BY SymbolsAssumption, Zenon
<1>5. ASSUME NEW x \in Symbols, NEW y \in Symbols
      PROVE  <<x, y>> \in Seq(Symbols) /\ Len(<<x, y>>) = 2 /\ <<x, y>>[1] = x /\ <<x, y>>[2] = y
  OBVIOUS
<1>6. PICK g \in Seq(Symbols) : g = <<"GET", " ">> /\ Len(g) = 2 /\ g[1] = "GET" /\ g[2] = " "
  <2>1. <<"GET", " ">> \in Seq(Symbols)
    BY <1>4, <1>5, Zenon
  <2>2. Len(<<"GET", " ">>) = 2 /\ <<"GET", " ">>[1] = "GET" /\ <<"GET", " ">>[2] = " "
    OBVIOUS
  <2> QED
    BY <2>1, <2>2, Zenon
<1>7. PICK v \in Seq(Symbols) : v = <<" ", version>> /\ Len(v) = 2 /\ v[1] = " "
  <2>1. /\ <<" ", version>> \in Seq(Symbols) /\ Len(<<" ", version>>) = 2
        /\ <<" ", version>>[1] = " "
    BY <1>4, <1>5, Zenon
  <2> QED
    BY <2>1, Zenon
<1> DEFINE p == IF n >= 2 THEN n - 2 ELSE 0
<1>8. n \in 1..Len(s) /\ n \in Nat
  BY <1>1
<1>9. p \in Nat /\ (n >= 2 => p + 2 = n) /\ (n < 2 => p = 0 /\ p + 2 = 2)
  BY <1>8
<1> HIDE DEF p, s
<1>10. PICK path \in Seq(Symbols) : path = SubSeq(s, 3, n) /\ path = SubSeq(s, 3, p + 2) /\ Len(path) = p
  <2>1. CASE n >= 2
    <3>1. n - 3 + 1 = p /\ 3 \in 1..(Len(s) + 1) /\ n \in (3 - 1)..Len(s)
      BY <1>1, <1>8, <1>9, <2>1
    <3>2. SubSeq(s, 3, n) \in Seq(Symbols) /\ Len(SubSeq(s, 3, n)) = n - 3 + 1
      BY <1>1, <3>1, PieceOf
    <3> QED
      BY <1>9, <2>1, <3>1, <3>2
  <2>2. CASE n < 2
    <3>1. n \in Int /\ 3 \in Int /\ n < 3 /\ 2 \in Int /\ 2 < 3
      BY <1>8, <2>2
    <3>2. SubSeq(s, 3, n) = <<>> /\ SubSeq(s, 3, 2) = <<>>
      BY <3>1, SubSeqEmpty
    <3>3. <<>> \in Seq(Symbols) /\ Len(<<>>) = 0
      OBVIOUS
    <3> QED
      BY <1>9, <2>2, <3>2, <3>3
  <2> QED
    BY <1>8, <2>1, <2>2
<1>11. PICK a \in Seq(Symbols) : /\ a = g \o path /\ Len(a) = Len(g) + Len(path)
                                 /\ \A m \in 1..Len(g) + Len(path) :
                                      a[m] = IF m <= Len(g) THEN g[m] ELSE path[m - Len(g)]
  <2>1. /\ g \o path \in Seq(Symbols) /\ Len(g \o path) = Len(g) + Len(path)
        /\ \A m \in 1..Len(g) + Len(path) :
             (g \o path)[m] = IF m <= Len(g) THEN g[m] ELSE path[m - Len(g)]
    BY ConcatProperties
  <2> QED
    BY <2>1, Zenon
<1>12. PICK b \in Seq(Symbols) : /\ b = a \o v /\ Len(b) = Len(a) + Len(v)
                                 /\ \A m \in 1..Len(a) + Len(v) :
                                      b[m] = IF m <= Len(a) THEN a[m] ELSE v[m - Len(a)]
  <2>1. /\ a \o v \in Seq(Symbols) /\ Len(a \o v) = Len(a) + Len(v)
        /\ \A m \in 1..Len(a) + Len(v) :
             (a \o v)[m] = IF m <= Len(a) THEN a[m] ELSE v[m - Len(a)]
    BY ConcatProperties
  <2> QED
    BY <2>1, Zenon
<1>13. s = b
  BY <1>3, <1>6, <1>7, <1>10, <1>11, <1>12, Zenon
<1>14. Len(a) = p + 2 /\ \A m \in 1..p + 2 : a[m] = IF m <= 2 THEN g[m] ELSE path[m - 2]
  <2>1. 2 + p = p + 2
    BY <1>9
  <2> QED
    BY <1>6, <1>10, <1>11, <2>1, Zenon
<1>15. Len(b) = p + 4 /\ \A m \in 1..p + 4 : b[m] = IF m <= p + 2 THEN a[m] ELSE v[m - (p + 2)]
  <2>1. (p + 2) + 2 = p + 4
    BY <1>9
  <2> QED
    BY <1>7, <1>12, <1>14, <2>1, Zenon
<1>16. s[1] = "GET" /\ s[2] = " "
  <2>1. 1 \in 1..p + 4 /\ 1 <= p + 2 /\ 1 \in 1..p + 2 /\ 1 <= 2 /\ 2 \in 1..p + 4 /\ 2 <= p + 2 /\ 2 \in 1..p + 2 /\ 2 <= 2
    BY <1>9
  <2>2. b[1] = g[1] /\ b[2] = g[2]
    BY <1>14, <1>15, <2>1
  <2> QED
    BY <1>6, <1>13, <2>2, Zenon
<1>17. s[p + 3] = " "
  <2> DEFINE x == p + 3
  <2>1. x \in 1..p + 4 /\ ~(x <= p + 2) /\ x - (p + 2) = 1
    BY <1>9
  <2> HIDE DEF x
  <2>2. b[x] = v[1]
    BY <1>15, <2>1
  <2> QED
    BY <1>7, <1>13, <2>2, Zenon DEF x
<1>18. \A m \in 3..p + 2 : s[m] # " "
  <2>1. \A m \in 3..p + 2 : m \in 3..n
    BY <1>8, <1>9
  <2> QED
    BY <1>2, <2>1, Zenon DEF s
<1>19. Request!SaysPath(SubSeq(s, 3, p + 2))
  BY <1>2, <1>10, Zenon DEF s
<1>20. FirstLine(p)
  BY <1>13, <1>15, <1>16, <1>17, <1>18, <1>19, Zenon DEF FirstLine, s
<1> QED
  BY <1>9, <1>20

\* Where the reader of the request is, between the steps.
LEMMA PositionStays ==
  ASSUME RequestTypes, Position, Request!Parse
  PROVE  Position' /\ UNCHANGED <<sent, content>> /\ parsing # "reading"
<1>1. UNCHANGED <<sent, content>> /\ parsing # "reading" /\ parsing' # "reading"
      /\ (parsing' = "method" => parsing = "method" /\ req'.path = req.path)
  BY Zenon DEF RequestTypes, Request!Parse, Request!MethodChar, Request!MethodEnd, Request!PathChar, Request!PathEnd,
         Request!PathUnended, Request!Version, Request!KeyChar, Request!KeyEnd, Request!ValueChar, Request!ValueEnd,
         Request!HeadersEnd, Request!HeadersUnended, Request!Refuse, Request!InHeaders, Request!InLoop
<1> QED
  BY <1>1 DEF Position

LEMMA PositionReceive ==
  ASSUME RequestTypes, HeadersInv, Position, NEW off, Layout(off),
         NEW line \in RequestLines \cup HeaderLines \cup {<<>>}, Request!Receive(line)
  PROVE  Position' /\ (parsing' # "reading" => Len(sent') >= 1 /\ parsing' = "method" /\ here' = 1 /\ req'.smethod = <<>>)
<1>1. /\ parsing = "reading" /\ UNCHANGED <<here, req>> /\ sent' = Append(sent, line)
      /\ parsing' = IF Request!Complete(content') THEN "method" ELSE "reading"
      /\ here = 1 /\ req.smethod = <<>> /\ req.path = <<>>
  BY DEF Request!Receive, Position
<1>2. /\ Len(sent) \in Nat /\ Len(sent') = Len(sent) + 1 /\ sent'[Len(sent) + 1] = line /\ sent' # <<>>
  <2> DEFINE Lines == RequestLines \cup HeaderLines \cup {<<>>}
  <2>1. sent \in Seq(Lines) /\ line \in Lines
    BY DEF RequestTypes
  <2> HIDE DEF Lines
  <2> QED
    BY <1>1, <2>1, LenProperties, AppendProperties
<1>3. parsing' # "reading" => line = <<>> /\ Len(sent) >= 1
  BY <1>1, CompleteLine
<1>4. parsing' # "reading" => Len(sent') >= 2 /\ sent'[Len(sent')] = <<>> /\ Len(sent') >= 1
  BY <1>2, <1>3
<1> QED
  BY <1>1, <1>2, <1>4 DEF Position

LEMMA RequestInvInit == Request!Init => RequestInv
<1> SUFFICES ASSUME Request!Init PROVE RequestInv
  OBVIOUS
<1>1. RequestTypes /\ HeadersInv
  BY RequestInit
<1>2. /\ sent = <<>> /\ content = <<>> /\ parsing = "reading" /\ here = 1
      /\ req = [smethod |-> <<>>, path |-> <<>>, headers |-> <<>>]
  BY DEF Request!Init
<1>3. Position
  BY <1>2 DEF Position
<1>4. PICK off : off = [n \in 1..1 |-> 1]
  OBVIOUS
<1>5. Len(sent) = 0 /\ Len(content) = 0
  BY <1>2
<1>6. off \in [1..1 -> Nat] /\ off[1] = 1
  BY <1>4
<1>7. 0 + 1 = 1 /\ 1..0 = {}
  OBVIOUS
<1>8. off \in [1..Len(sent) + 1 -> Nat] /\ Layout(off)
  BY <1>5, <1>6, <1>7 DEF Layout
<1> QED
  BY <1>1, <1>2, <1>3, <1>8 DEF RequestInv

LEMMA RequestInvNext == RequestInv /\ [Request!Next]_reqVars => RequestInv'
<1> SUFFICES ASSUME RequestInv, [Request!Next]_reqVars PROVE RequestInv'
  OBVIOUS
<1>1. RequestTypes /\ HeadersInv /\ Position /\ RequestTypes' /\ HeadersInv'
  BY RequestNext DEF RequestInv
<1>2. PICK off \in [1..Len(sent) + 1 -> Nat] :
        /\ Layout(off)
        /\ parsing # "reading" /\ Request!WellFormed => \E p \in Nat : FirstLine(p) /\ ReadSoFar(off, p)
  BY DEF RequestInv
<1>3. CASE Request!ReceiveSome
  <2>1. PICK line \in RequestLines \cup HeaderLines \cup {<<>>} : Request!Receive(line)
    BY <1>3, ReceivesLine
  <2>2. Position' /\ (parsing' # "reading" => Len(sent') >= 1 /\ parsing' = "method" /\ here' = 1 /\ req'.smethod = <<>>)
    BY <1>1, <1>2, <2>1, PositionReceive
  <2>3. PICK new \in [1..Len(sent') + 1 -> Nat] : Layout(new)'
    BY <1>1, <1>2, <2>1, LayoutGrows
  <2>4. (RequestTypes /\ Len(sent) >= 1 /\ Request!WellFormed => \E p \in Nat : FirstLine(p))'
    BY FirstLineIs, PTL
  <2>5. parsing' # "reading" /\ Request!WellFormed' => \E p \in Nat : FirstLine(p)' /\ ReadSoFar(new, p)'
    <3> SUFFICES ASSUME parsing' # "reading", Request!WellFormed'
                 PROVE  \E p \in Nat : FirstLine(p)' /\ ReadSoFar(new, p)'
      OBVIOUS
    <3>1. PICK p \in Nat : FirstLine(p)'
      BY <1>1, <2>2, <2>4
    <3>2. ReadSoFar(new, p)'
      BY <2>2 DEF ReadSoFar
    <3> QED
      BY <3>1, <3>2
  <2> QED
    BY <1>1, <2>2, <2>3, <2>5 DEF RequestInv
<1>4. CASE Request!Parse
  <2>1. Position' /\ UNCHANGED <<sent, content>> /\ parsing # "reading"
    BY <1>1, <1>4, PositionStays
  <2>2. Layout(off)' /\ (Request!WellFormed' => Request!WellFormed) /\ off \in [1..Len(sent') + 1 -> Nat]
    BY <1>2, <2>1, Zenon DEF Layout, Request!WellFormed, Request!SaysPath, CRLF, Request!CRLF
  <2>3. ASSUME Request!WellFormed' PROVE \E p \in Nat : FirstLine(p)' /\ ReadSoFar(off, p)'
    <3>1. PICK p \in Nat : FirstLine(p) /\ ReadSoFar(off, p)
      BY <1>2, <2>1, <2>2, <2>3
    <3>2. FirstLine(p)'
      BY <2>1, <3>1, Zenon DEF FirstLine, Request!SaysPath
    <3>3. CASE Request!MethodChar \/ Request!MethodEnd
      BY <1>1, <1>2, <3>1, <3>2, <3>3, MethodRead
    <3>4. CASE Request!PathChar \/ Request!PathEnd \/ Request!PathUnended
      BY <1>1, <1>2, <3>1, <3>2, <3>4, PathRead
    <3>5. CASE Request!Version
      BY <1>1, <1>2, <3>1, <3>2, <3>5, VersionRead
    <3>6. CASE \/ Request!KeyChar \/ Request!KeyEnd \/ Request!ValueChar \/ Request!ValueEnd
               \/ Request!HeadersEnd \/ Request!HeadersUnended
      BY <1>1, <1>2, <2>2, <2>3, <3>1, <3>2, <3>6, HeadersRead
    <3> QED
      BY <1>4, <3>3, <3>4, <3>5, <3>6 DEF Request!Parse
  <2> QED
    BY <1>1, <2>1, <2>2, <2>3 DEF RequestInv
<1>5. CASE UNCHANGED reqVars
  <2>1. UNCHANGED <<sent, content, parsing, here, req, header>>
    BY <1>5 DEF reqVars
  <2>2. Position'
    BY <1>1, <2>1 DEF Position
  <2>3. Layout(off)' /\ off \in [1..Len(sent') + 1 -> Nat]
    BY <1>2, <2>1 DEF Layout, CRLF, Request!CRLF
  <2>4. ASSUME parsing' # "reading", Request!WellFormed'
        PROVE  \E p \in Nat : FirstLine(p)' /\ ReadSoFar(off, p)'
    <3>1. parsing # "reading" /\ Request!WellFormed
      BY <2>1, <2>4, Zenon DEF Request!WellFormed, Request!SaysPath
    <3>2. PICK p \in Nat : FirstLine(p) /\ ReadSoFar(off, p)
      BY <1>2, <3>1
    <3>3. FirstLine(p)'
      BY <2>1, <3>2, Zenon DEF FirstLine, Request!SaysPath
    <3>4. \A k : InLine(k) => InLine(k)'
      BY <2>1, Zenon DEF InLine, Piece
    <3>5. Piece' = Piece
      BY <2>1 DEF Piece
    <3>6. ReadSoFar(off, p)'
      BY <2>1, <3>2, <3>4, <3>5 DEF ReadSoFar
    <3> QED
      BY <3>3, <3>6
  <2> QED
    BY <1>1, <2>2, <2>3, <2>4 DEF RequestInv
<1> QED
  BY <1>3, <1>4, <1>5 DEF Request!Next

\* What a well-formed request says is what is read.
LEMMA ReadAsSent == RequestInv => Request!RequestReadAsSent
<1> SUFFICES ASSUME RequestInv, parsing \in {"parsed", "refused"}, Request!WellFormed
             PROVE  /\ parsing = "parsed"
                    /\ Request!SaysPath(req.path)
                    /\ req.headers = SubSeq(sent, 2, Len(sent) - 1)
  BY DEF Request!RequestReadAsSent
<1>1. PICK off : \E p \in Nat : FirstLine(p) /\ ReadSoFar(off, p)
  BY DEF RequestInv
<1>2. PICK p \in Nat : FirstLine(p) /\ ReadSoFar(off, p)
  BY <1>1
<1> QED
  BY <1>2, Zenon DEF FirstLine, ReadSoFar

LEMMA RequestInvAlways == Request!Spec => []RequestInv
<1>1. RequestInv /\ [Request!Next]_Request!vars => RequestInv'
  BY RequestInvNext DEF Request!vars, reqVars
<1> QED
  BY <1>1, RequestInvInit, PTL DEF Request!Spec

\* A well-formed request is never refused, and its path and its headers are read
\* as they were sent, in order (httpserv_http_request_from_raw).
THEOREM ReadAsSentCorrect == TextsSpec => []RequestReadAsSent
<1>1. RequestInv => RequestReadAsSent
  BY ReadAsSent DEF RequestReadAsSent
<1> QED
  BY <1>1, Behaviours, RequestInvAlways, PTL
=============================================================================
