-------------------------- MODULE RouteNamesProofs --------------------------
(***************************************************************************)
(* What holds of routing keys for text of any length and any limits: no    *)
(* Host header is taken for a TCP tunnel's key, custom domains and         *)
(* reserved names go to the accounts that were granted them, plain names   *)
(* are found however they are written, the edge's own names lead back to   *)
(* the labels they were made from and are told apart from custom domains,  *)
(* and the records of the routing table are read as they were written.     *)
(***************************************************************************)
EXTENDS RouteNames, FiniteSetTheorems, WellFoundedInduction, TLAPS

(* Least and greatest positions *)

\* A set of positions has a least one, and Min is it.
LEMMA MinExists ==
    ASSUME NEW S \in SUBSET Nat, S # {}
    PROVE  Min(S) \in S /\ \A x \in S : Min(S) <= x
<1> DEFINE R == OpToRel(<, Nat)
<1>1. IsWellFoundedOn(R, Nat)
  BY NatLessThanWellFounded
<1>2. \A x, y \in Nat : <<y, x>> \in R <=> y < x
  BY DEF OpToRel
<1> HIDE DEF R
<1>3. PICK m \in S : \A y \in S : <<y, m>> \notin R
  BY <1>1, WFMin
<1>4. ASSUME NEW y \in S PROVE m <= y
  <2>1. m \in Nat /\ y \in Nat
    OBVIOUS
  <2>2. ~(y < m)
    BY <1>2, <1>3, <2>1
  <2> QED
    BY <2>1, <2>2
<1> QED
  BY <1>4 DEF Min

\* A bounded set of positions has a greatest one, and Max is it.
LEMMA MaxExists ==
    ASSUME NEW n \in Nat, NEW S \in SUBSET (0 .. n), S # {}
    PROVE  Max(S) \in S /\ \A x \in S : Max(S) >= x
<1> DEFINE D == {n - x : x \in S}
<1>1. D \in SUBSET Nat /\ D # {}
  <2>1. \A x \in S : n - x \in Nat
    OBVIOUS
  <2>2. PICK x \in S : TRUE
    OBVIOUS
  <2>3. n - x \in D
    OBVIOUS
  <2> QED
    BY <2>1, <2>3
<1> HIDE DEF D
<1>2. Min(D) \in D /\ \A x \in D : Min(D) <= x
  BY <1>1, MinExists
<1>3. PICK m \in S : Min(D) = n - m
  BY <1>2 DEF D
<1>4. \A x \in S : n - m <= n - x
  BY <1>2, <1>3 DEF D
<1>5. \A x \in S : m >= x
  BY <1>4
<1> QED
  BY <1>5 DEF Max

-----------------------------------------------------------------------------
(* Text *)

\* Trimmed text is text.
LEMMA TrimText ==
    ASSUME NEW s \in Seq(Alphabet)
    PROVE  Trim(s) \in Seq(Alphabet)
<1> DEFINE kept == Positions(s, Alphabet \ Blanks)
<1>1. /\ Len(s) \in Nat
      /\ kept \in SUBSET (1 .. Len(s))
  BY DEF Positions
<1>2. CASE kept # {}
  <2>1. Min(kept) \in 1 .. Len(s) /\ Max(kept) \in 1 .. Len(s)
    <3> HIDE DEF kept
    <3>1. kept \in SUBSET Nat /\ kept \in SUBSET (0 .. Len(s))
      BY <1>1
    <3>2. Min(kept) \in kept
      BY <1>2, <3>1, MinExists
    <3>3. Max(kept) \in kept
      BY <1>1, <1>2, <3>1, MaxExists
    <3> QED
      BY <1>1, <3>2, <3>3
  <2>2. Trim(s) = SubSeq(s, Min(kept), Max(kept))
    BY <1>2 DEF Trim
  <2> HIDE DEF kept
  <2> QED
    BY <2>1, <2>2
<1>3. CASE kept = {}
  BY <1>3 DEF Trim
<1> QED
  BY <1>2, <1>3

\* What is left without root dots is the front of the text.
LEMMA TrimDotsFront ==
    ASSUME NEW s \in Seq(Alphabet)
    PROVE  \E m \in 0 .. Len(s) : TrimDots(s) = SubSeq(s, 1, m)
<1> DEFINE P == {0} \cup Positions(s, Alphabet \ {"."})
<1>1. P \in SUBSET (0 .. Len(s)) /\ P # {}
  BY DEF Positions
<1>2. Max(P) \in 0 .. Len(s)
  <2> HIDE DEF P
  <2>1. Len(s) \in Nat
    OBVIOUS
  <2>2. Max(P) \in P
    BY <1>1, <2>1, MaxExists
  <2> QED
    BY <1>1, <2>2
<1> QED
  BY <1>2 DEF TrimDots

\* A colon is left only in an address in brackets.
LEMMA WithoutPortColon ==
    ASSUME NEW s \in Seq(Alphabet)
    PROVE  /\ WithoutPort(s) \in Seq(Alphabet)
           /\ \/ \A i \in 1 .. Len(WithoutPort(s)) : WithoutPort(s)[i] # ":"
              \/ WithoutPort(s)[1] = "["
<1> DEFINE colon == Positions(s, {":"})
           close == Positions(s, {"]"})
           w == WithoutPort(s)
<1>1. /\ colon \in SUBSET (1 .. Len(s)) /\ close \in SUBSET (1 .. Len(s))
      /\ \A i \in 1 .. Len(s) : s[i] = ":" <=> i \in colon
  BY DEF Positions
<1>2. CASE s # <<>> /\ Head(s) = "["
  <2>1. CASE close = {}
    <3>1. w = <<>>
      BY <1>2, <2>1 DEF WithoutPort, Err
    <3> QED
      BY <3>1
  <2>2. CASE close # {}
    <3>1. w = SubSeq(s, 1, Min(close))
      BY <1>2, <2>2 DEF WithoutPort
    <3>2. Min(close) \in 1 .. Len(s)
      BY <1>1, <2>2, MinExists
    <3> DEFINE m == Min(close)
    <3> HIDE DEF m, w, close
    <3> QED
      BY <1>2, <3>1, <3>2 DEF m, w
  <2> QED
    BY <2>1, <2>2
<1>3. CASE s # <<>> /\ Head(s) # "[" /\ colon # {}
  <2> DEFINE m == Min(colon)
  <2>1. w = SubSeq(s, 1, m - 1) \/ w = <<>>
    BY <1>3 DEF WithoutPort, Err
  <2>2. m \in 1 .. Len(s) /\ \A i \in colon : m <= i
    BY <1>1, <1>3, MinExists
  <2>3. \A i \in 1 .. m - 1 : s[i] # ":"
    BY <1>1, <2>2
  <2> HIDE DEF m, w, colon
  <2>4. CASE w = SubSeq(s, 1, m - 1)
    <3>1. w \in Seq(Alphabet) /\ Len(w) = m - 1 /\ \A i \in 1 .. m - 1 : w[i] = s[i]
      BY <2>2, <2>4
    <3> QED
      BY <2>3, <3>1 DEF w
  <2>5. CASE w = <<>>
    BY <2>5 DEF w
  <2> QED
    BY <2>1, <2>4, <2>5
<1>4. CASE s = <<>> \/ (Head(s) # "[" /\ colon = {})
  <2>1. w = s
    BY <1>4 DEF WithoutPort
  <2> QED
    BY <1>1, <1>4, <2>1
<1> QED
  BY <1>2, <1>3, <1>4

\* A normalised host is the front of the text without its port, in lower case.
LEMMA NormalizeHostFront ==
    ASSUME NEW s \in Seq(Alphabet)
    PROVE  /\ NormalizeHost(s) \in Seq(Alphabet)
           /\ \A i \in 1 .. Len(NormalizeHost(s)) :
                 LET w == WithoutPort(Trim(s))
                 IN i \in 1 .. Len(w) /\ NormalizeHost(s)[i] = IF w[i] = "N" THEN "n" ELSE w[i]
<1> DEFINE w == WithoutPort(Trim(s))
           name == TrimDots(w)
           h == NormalizeHost(s)
<1>1. w \in Seq(Alphabet)
  BY TrimText, WithoutPortColon
<1>2. h = ToLower(name) \/ h = <<>>
  BY DEF NormalizeHost, Err
<1> HIDE DEF w, h
<1>3. PICK m \in 0 .. Len(w) : name = SubSeq(w, 1, m)
  BY <1>1, TrimDotsFront
<1>4. name \in Seq(Alphabet) /\ Len(name) = m /\ \A i \in 1 .. m : name[i] = w[i]
  BY <1>1, <1>3
<1>5. CASE h = ToLower(name)
  <2> HIDE DEF name
  <2>1. h = [i \in 1 .. m |-> IF name[i] = "N" THEN "n" ELSE name[i]]
    BY <1>4, <1>5 DEF ToLower
  <2>2. "n" \in Alphabet
    BY DEF Alphabet, Lower
  <2>3. \A i \in 1 .. m : name[i] \in Alphabet
    BY <1>4
  <2>4. m \in Nat /\ m <= Len(w) /\ Len(w) \in Nat
    BY <1>1, <1>3
  <2>5. h \in Seq(Alphabet) /\ Len(h) = m
    BY <2>1, <2>2, <2>3, <2>4
  <2>6. \A i \in 1 .. m : i \in 1 .. Len(w) /\ h[i] = IF w[i] = "N" THEN "n" ELSE w[i]
    BY <1>4, <2>1, <2>4
  <2> QED
    BY <2>5, <2>6 DEF h, w
<1>6. CASE h = <<>>
  BY <1>6 DEF h
<1> QED
  BY <1>2, <1>5, <1>6

\* strip_suffix: what is left and the suffix make the text.
LEMMA StripSuffixParts ==
    ASSUME NEW S, NEW s \in Seq(S), NEW t \in Seq(S), StripSuffix(s, t) # <<>>
    PROVE  /\ Len(s) - Len(t) \in 1 .. Len(s)
           /\ Len(StripSuffix(s, t)) = Len(s) - Len(t)
           /\ \A i \in 1 .. Len(s) - Len(t) : StripSuffix(s, t)[i] = s[i]
           /\ \A i \in 1 .. Len(t) : t[i] = s[(Len(s) - Len(t)) + i]
<1> DEFINE n == Len(s) - Len(t)
           a == Reverse(t)
           b == Reverse(s)
           front == StripSuffix(s, t)
<1>1. IsSuffix(t, s) /\ front = SubSeq(s, 1, n)
  BY DEF StripSuffix
<1>2. /\ a = [i \in 1 .. Len(t) |-> t[(Len(t) - i) + 1]]
      /\ b = [i \in 1 .. Len(s) |-> s[(Len(s) - i) + 1]]
  BY DEF Reverse
<1>3. /\ a \in Seq(S) /\ Len(a) = Len(t)
      /\ b \in Seq(S) /\ Len(b) = Len(s)
      /\ Len(s) \in Nat /\ Len(t) \in Nat
  BY <1>2
<1>4. \A i \in 1 .. Len(t) : a[i] = t[(Len(t) - i) + 1]
  BY <1>2
<1>5. \A i \in 1 .. Len(s) : b[i] = s[(Len(s) - i) + 1]
  BY <1>2
<1>6. Len(a) <= Len(b) /\ SubSeq(a, 1, Len(a)) = SubSeq(b, 1, Len(a))
  BY <1>1 DEF IsSuffix, IsPrefix
<1> HIDE DEF a, b
<1>7. \A i \in 1 .. Len(t) : a[i] = b[i]
  <2> SUFFICES ASSUME NEW i \in 1 .. Len(t) PROVE a[i] = b[i]
    OBVIOUS
  <2>1. SubSeq(a, 1, Len(a))[i] = a[i]
    BY <1>3
  <2>2. SubSeq(b, 1, Len(a))[i] = b[i]
    BY <1>3, <1>6
  <2> QED
    BY <1>6, <2>1, <2>2
<1>8. n \in 1 .. Len(s)
  BY <1>1, <1>3, <1>6
<1>9. \A i \in 1 .. Len(t) : t[i] = s[n + i]
  <2> SUFFICES ASSUME NEW i \in 1 .. Len(t) PROVE t[i] = s[n + i]
    OBVIOUS
  <2> DEFINE k == (Len(t) - i) + 1
  <2>1. /\ k \in 1 .. Len(t) /\ k \in 1 .. Len(s)
        /\ (Len(t) - k) + 1 = i /\ (Len(s) - k) + 1 = n + i
    BY <1>3, <1>6
  <2> HIDE DEF k, n
  <2>2. a[k] = t[i] /\ b[k] = s[n + i]
    BY <1>4, <1>5, <2>1
  <2> QED
    BY <1>7, <2>1, <2>2
<1>10. Len(front) = n /\ \A i \in 1 .. n : front[i] = s[i]
  <2> HIDE DEF n, front
  <2> QED
    BY <1>1, <1>8
<1> QED
  BY <1>8, <1>9, <1>10

-----------------------------------------------------------------------------
(* Spellings of a name *)

PlainSymbols == LabelSymbols \cup {"."}

\* A host name as DNS knows it: no blanks, no colons, no brackets, no upper case.
PlainName(k) == All(k, PlainSymbols)

\* The least position is the one that none precedes.
LEMMA MinIs ==
    ASSUME NEW S \in SUBSET Nat, NEW m \in S, \A x \in S : m <= x
    PROVE  Min(S) = m
<1>1. Min(S) \in S /\ \A x \in S : Min(S) <= x
  BY MinExists
<1>2. Min(S) \in Nat /\ m \in Nat /\ Min(S) <= m /\ m <= Min(S)
  BY <1>1
<1> QED
  BY <1>2

\* The greatest position is the one that none follows.
LEMMA MaxIs ==
    ASSUME NEW n \in Nat, NEW S \in SUBSET (0 .. n), NEW m \in S, \A x \in S : m >= x
    PROVE  Max(S) = m
<1>1. Max(S) \in S /\ \A x \in S : Max(S) >= x
  BY MaxExists
<1>2. Max(S) \in 0 .. n /\ m \in 0 .. n /\ m >= Max(S) /\ Max(S) >= m
  BY <1>1
<1> QED
  BY <1>2

\* Texts of one length with the same symbols are the same.
LEMMA SameText ==
    ASSUME NEW s \in Seq(Alphabet), NEW t \in Seq(Alphabet), Len(s) = Len(t),
           \A i \in 1 .. Len(t) : s[i] = t[i]
    PROVE  s = t
  OBVIOUS

\* What kinds of symbols there are, and that they differ.
LEMMA Symbols ==
    /\ PlainSymbols \subseteq Alphabet /\ "N" \in Alphabet /\ ":" \in Alphabet
    /\ Blanks \subseteq Alphabet /\ "." \in Alphabet /\ "1" \in Alphabet
    /\ "N" \notin Blanks /\ ":" \notin Blanks /\ "." \notin Blanks /\ "1" \notin Blanks
    /\ \A c \in PlainSymbols : /\ c \notin Blanks /\ c # ":" /\ c # "[" /\ c # "N"
                               /\ c \notin NonAscii
    /\ "N" \notin NonAscii
  BY DEF PlainSymbols, LabelSymbols, Alphabet, Lower, Digits, Blanks, NonAscii, Tab

\* Text is put together in any order.
LEMMA Concat3 ==
    ASSUME NEW a \in Seq(Alphabet), NEW b \in Seq(Alphabet), NEW c \in Seq(Alphabet)
    PROVE  (a \o b) \o c = a \o (b \o c)
  OBVIOUS

\* What a port is made of.
LEMMA PortSymbols ==
    ASSUME NEW port \in Ports
    PROVE  /\ port \in Seq(Alphabet)
           /\ port # <<>> => Len(port) \in 1 .. 2 /\ port[1] = ":"
           /\ \A i \in 2 .. Len(port) : port[i] = "1"
           /\ \A i \in 1 .. Len(port) : port[i] \notin Blanks
<1>1. CASE port = <<>>
  BY <1>1
<1>2. CASE port = <<":">>
  BY <1>2, Symbols
<1>3. CASE port = <<":", "1">>
  BY <1>3, Symbols
<1> QED
  BY <1>1, <1>2, <1>3 DEF Ports

\* What a root dot is made of.
LEMMA DotSymbols ==
    ASSUME NEW dot \in RootDots
    PROVE  /\ dot \in Seq(Alphabet) /\ Len(dot) \in 0 .. 1
           /\ \A i \in 1 .. Len(dot) : dot[i] = "."
<1>1. CASE dot = <<>>
  BY <1>1
<1>2. CASE dot = <<".">>
  BY <1>2, Symbols
<1> QED
  BY <1>1, <1>2 DEF RootDots

\* A text in two parts has the symbols of both.
LEMMA ConcatSymbols ==
    ASSUME NEW a \in Seq(Alphabet), NEW b \in Seq(Alphabet), NEW S,
           \A i \in 1 .. Len(a) : a[i] \in S, \A i \in 1 .. Len(b) : b[i] \in S
    PROVE  /\ a \o b \in Seq(Alphabet)
           /\ \A i \in 1 .. Len(a \o b) : (a \o b)[i] \in S
<1>1. a \o b \in Seq(Alphabet) /\ Len(a \o b) = Len(a) + Len(b)
  OBVIOUS
<1>2. ASSUME NEW i \in 1 .. Len(a) + Len(b) PROVE (a \o b)[i] \in S
  <2>1. CASE i \in 1 .. Len(a)
    BY <2>1
  <2>2. CASE i > Len(a)
    <3>1. i - Len(a) \in 1 .. Len(b) /\ (a \o b)[i] = b[i - Len(a)]
      BY <2>2
    <3> QED
      BY <3>1
  <2> QED
    BY <2>1, <2>2
<1> QED
  BY <1>1, <1>2

\* Blanks around a text without blanks go.
LEMMA TrimAround ==
    ASSUME NEW b \in Seq(Blanks), NEW s \in Seq(Alphabet), NEW e \in Seq(Blanks),
           s # <<>>, \A i \in 1 .. Len(s) : s[i] \notin Blanks
    PROVE  Trim(b \o s \o e) = s
<1> DEFINE h == b \o s \o e
           kept == Positions(h, Alphabet \ Blanks)
           p == Len(b)
           q == Len(s)
<1>1. b \in Seq(Alphabet) /\ e \in Seq(Alphabet)
  <2>1. \A i \in 1 .. Len(b) : b[i] \in Alphabet
    BY Symbols
  <2>2. \A i \in 1 .. Len(e) : e[i] \in Alphabet
    BY Symbols
  <2> QED
    BY <2>1, <2>2
<1>2. /\ p \in Nat /\ q \in Nat /\ q >= 1 /\ Len(e) \in Nat
      /\ h \in Seq(Alphabet) /\ Len(h) = p + q + Len(e)
  BY <1>1
<1>3. \A i \in 1 .. p : h[i] = b[i]
  BY <1>1
<1>4. \A i \in 1 .. q : h[p + i] = s[i]
  BY <1>1
<1>5. \A i \in 1 .. Len(e) : h[(p + q) + i] = e[i]
  BY <1>1
<1>6. \A i \in 1 .. Len(h) : i \in kept <=> h[i] \notin Blanks
  BY <1>2 DEF Positions
<1>7. kept \in SUBSET (1 .. Len(h))
  BY <1>2 DEF Positions
<1>8. \A i \in 1 .. p : h[i] \in Blanks
  BY <1>3
<1>9. \A i \in 1 .. Len(e) : h[(p + q) + i] \in Blanks
  BY <1>5
<1>10. \A i \in 1 .. q : h[p + i] \notin Blanks
  BY <1>4
<1>11. Trim(h) = IF kept = {} THEN <<>> ELSE SubSeq(h, Min(kept), Max(kept))
  BY DEF Trim
<1> HIDE DEF h, kept, p, q
<1>12. p + 1 \in kept /\ p + q \in kept
  <2>1. /\ 1 \in 1 .. q /\ q \in 1 .. q
        /\ p + 1 \in 1 .. Len(h) /\ p + q \in 1 .. Len(h)
    BY <1>2
  <2> QED
    BY <1>6, <1>10, <2>1
<1>13. ASSUME NEW i \in kept PROVE i >= p + 1 /\ i <= p + q
  <2>1. i \in 1 .. Len(h) /\ h[i] \notin Blanks
    BY <1>6, <1>7
  <2>2. ~(i \in 1 .. p)
    BY <1>8, <2>1
  <2>3. i <= p + q
    <3> SUFFICES ASSUME i > p + q PROVE FALSE
      BY <1>2, <2>1
    <3> DEFINE k == i - (p + q)
    <3>1. k \in 1 .. Len(e) /\ (p + q) + k = i
      BY <1>2, <2>1
    <3> HIDE DEF k
    <3> QED
      BY <1>9, <2>1, <3>1
  <2> QED
    BY <1>2, <2>1, <2>2, <2>3
<1>14. Min(kept) = p + 1
  <2>1. kept \in SUBSET Nat
    BY <1>2, <1>7
  <2> QED
    BY <1>2, <1>12, <1>13, <2>1, MinIs
<1>15. Max(kept) = p + q
  <2>1. kept \in SUBSET (0 .. Len(h)) /\ Len(h) \in Nat
    BY <1>2, <1>7
  <2>2. \A i \in kept : p + q >= i
    BY <1>2, <1>7, <1>13
  <2> QED
    BY <1>12, <2>1, <2>2, MaxIs
<1>16. Trim(h) = SubSeq(h, p + 1, p + q)
  BY <1>11, <1>12, <1>14, <1>15
<1> DEFINE u == SubSeq(h, p + 1, p + q)
<1>17. u \in Seq(Alphabet) /\ Len(u) = q
  BY <1>2
<1>18. ASSUME NEW i \in 1 .. q PROVE u[i] = s[i]
  <2>1. u[i] = h[(p + 1) + i - 1]
    BY <1>2
  <2>2. (p + 1) + i - 1 = p + i
    BY <1>2
  <2> QED
    BY <1>4, <2>1, <2>2
<1> HIDE DEF u
<1>19. u = s
  BY <1>17, <1>18, SameText DEF q
<1> QED
  BY <1>16, <1>19 DEF h, u

\* A port goes, and so does a colon without one.
LEMMA PortGoes ==
    ASSUME NEW s \in Seq(Alphabet), s # <<>>, s[1] # "[",
           \A i \in 1 .. Len(s) : s[i] # ":",
           NEW port \in Ports
    PROVE  WithoutPort(s \o port) = s
<1> DEFINE t == s \o port
           n == Len(s)
           colon == Positions(t, {":"})
<1>1. /\ port \in Seq(Alphabet)
      /\ port # <<>> => Len(port) \in 1 .. 2 /\ port[1] = ":"
      /\ \A i \in 2 .. Len(port) : port[i] = "1"
  BY PortSymbols
<1>2. /\ n \in Nat /\ n >= 1 /\ t \in Seq(Alphabet) /\ Len(t) = n + Len(port)
      /\ \A i \in 1 .. n : t[i] = s[i]
      /\ \A i \in 1 .. Len(port) : t[n + i] = port[i]
  BY <1>1
<1>3. /\ colon \in SUBSET (1 .. Len(t))
      /\ \A i \in 1 .. Len(t) : i \in colon <=> t[i] = ":"
  BY <1>2 DEF Positions
<1>4. t # <<>> /\ Head(t) # "["
  BY <1>2
<1>5. CASE port = <<>>
  <2>1. t = s
    BY <1>5
  <2>2. colon = {}
    BY <1>2, <1>3, <2>1
  <2> QED
    BY <1>4, <2>1, <2>2 DEF WithoutPort
<1>6. CASE port # <<>>
  <2>1. Len(port) \in 1 .. 2
    BY <1>1, <1>6
  <2> HIDE DEF colon, t, n
  <2>2. n + 1 \in colon
    <3>1. 1 \in 1 .. Len(port) /\ n + 1 \in 1 .. Len(t) /\ port[1] = ":"
      BY <1>1, <1>2, <2>1
    <3> QED
      BY <1>2, <1>3, <3>1
  <2>3. \A i \in colon : n + 1 <= i
    BY <1>2, <1>3 DEF n
  <2>4. Min(colon) = n + 1
    <3>1. colon \in SUBSET Nat
      BY <1>3
    <3> QED
      BY <2>2, <2>3, <3>1, MinIs
  <2>5. All(SubSeq(t, (n + 1) + 1, Len(t)), Digits)
    <3> DEFINE r == SubSeq(t, (n + 1) + 1, Len(t))
    <3>1. /\ r \in Seq(Alphabet) /\ Len(r) = Len(port) - 1
          /\ \A i \in 1 .. Len(port) - 1 : r[i] = t[n + 1 + i]
      <4>1. (n + 1) + 1 \in 1 .. Len(t) + 1 /\ Len(t) \in Nat
        <5> DEFINE k == Len(port)
                   m == Len(t)
        <5>1. n \in Nat /\ k \in 1 .. 2 /\ m = n + k
          BY <1>2, <2>1
        <5> HIDE DEF k, m, r
        <5>2. (n + 1) + 1 \in 1 .. m + 1 /\ m \in Nat
          BY ONLY <5>1
        <5> QED
          BY <5>2 DEF m
      <4>2. r \in Seq(Alphabet) /\ Len(r) = Len(port) - 1
        BY <1>2, <2>1, <4>1
      <4>3. ASSUME NEW i \in 1 .. Len(port) - 1 PROVE r[i] = t[n + 1 + i]
        <5>1. r[i] = t[((n + 1) + 1) + i - 1]
          BY <1>2, <2>1, <4>1, <4>2
        <5>2. ((n + 1) + 1) + i - 1 = n + 1 + i
          BY <1>2
        <5> QED
          BY <5>1, <5>2
      <4> QED
        BY <4>2, <4>3
    <3>2. \A i \in 1 .. Len(port) - 1 : t[n + 1 + i] = "1"
      <4> SUFFICES ASSUME NEW i \in 1 .. Len(port) - 1 PROVE t[n + 1 + i] = "1"
        OBVIOUS
      <4>1. i + 1 \in 1 .. Len(port) /\ i + 1 \in 2 .. Len(port) /\ n + (i + 1) = n + 1 + i
        BY <1>2, <2>1
      <4> QED
        BY <1>1, <1>2, <4>1
    <3> HIDE DEF r
    <3>3. DOMAIN r = 1 .. Len(port) - 1
      BY <3>1
    <3>4. All(r, Digits)
      BY <3>1, <3>2, <3>3 DEF All, Digits
    <3> QED
      BY <3>4 DEF r
  <2>6. WithoutPort(t) = SubSeq(t, 1, (n + 1) - 1)
    BY <1>4, <2>2, <2>4, <2>5 DEF WithoutPort, colon
  <2>7. SubSeq(t, 1, (n + 1) - 1) = s
    <3>1. (n + 1) - 1 = n /\ n <= Len(t)
      BY <1>1, <1>2
    <3>2. SubSeq(t, 1, n) \in Seq(Alphabet) /\ Len(SubSeq(t, 1, n)) = n
      BY <1>2, <3>1
    <3>3. \A i \in 1 .. n : SubSeq(t, 1, n)[i] = s[i]
      BY <1>2, <3>1
    <3> QED
      BY <3>1, <3>2, <3>3 DEF n
  <2> QED
    BY <2>6, <2>7 DEF t
<1> QED
  BY <1>5, <1>6

\* The root dot goes.
LEMMA DotGoes ==
    ASSUME NEW s \in Seq(Alphabet), s # <<>>, s[Len(s)] # ".", NEW dot \in RootDots
    PROVE  TrimDots(s \o dot) = s
<1> DEFINE t == s \o dot
           n == Len(s)
           P == {0} \cup Positions(t, Alphabet \ {"."})
<1>1. dot \in Seq(Alphabet) /\ Len(dot) \in 0 .. 1 /\ \A i \in 1 .. Len(dot) : dot[i] = "."
  BY DotSymbols
<1>2. /\ n \in Nat /\ n >= 1 /\ t \in Seq(Alphabet) /\ Len(t) = n + Len(dot)
      /\ \A i \in 1 .. n : t[i] = s[i]
      /\ \A i \in 1 .. Len(dot) : t[n + i] = "."
  BY <1>1
<1>3. /\ P \in SUBSET (0 .. Len(t))
      /\ \A i \in 1 .. Len(t) : i \in P <=> t[i] # "."
  BY <1>2 DEF Positions
<1>4. TrimDots(t) = SubSeq(t, 1, Max(P))
  BY DEF TrimDots
<1> HIDE DEF P, t
<1>5. n \in P
  BY <1>1, <1>2, <1>3
<1> HIDE DEF n
<1>6. ASSUME NEW i \in P PROVE n >= i
  <2>1. i \in 0 .. Len(t)
    BY <1>3
  <2>2. CASE i > n
    <3>1. i = n + 1 /\ 1 \in 1 .. Len(dot)
      BY <1>1, <1>2, <2>1, <2>2
    <3>2. t[i] = "."
      BY <1>2, <3>1
    <3> QED
      BY <1>2, <1>3, <2>1, <2>2, <3>2
  <2> QED
    BY <1>2, <2>1, <2>2
<1>7. Max(P) = n
  <2>1. Len(t) \in Nat
    BY <1>2
  <2> QED
    BY <1>3, <1>5, <1>6, <2>1, MaxIs
<1>8. SubSeq(t, 1, n) = s
  <2>1. n <= Len(t)
    BY <1>1, <1>2
  <2>2. /\ SubSeq(t, 1, n) \in Seq(Alphabet) /\ Len(SubSeq(t, 1, n)) = n
        /\ \A i \in 1 .. n : SubSeq(t, 1, n)[i] = s[i]
    BY <1>2, <2>1
  <2> QED
    BY <2>2 DEF n
<1> QED
  BY <1>4, <1>7, <1>8 DEF t

\* What is registered for HTTP: text within the limit that does not end in a dot.
HostName(k) == k \in Seq(Alphabet) /\ k # <<>> /\ Len(k) <= MaxHost /\ k[Len(k)] # "."

\* However a plain name is written, normalize_host gives it back.
LEMMA SpellingFound ==
    ASSUME NEW k, HostName(k), PlainName(k), NEW w \in Seq(Alphabet), Len(w) = Len(k),
           \A i \in 1 .. Len(k) : w[i] = k[i] \/ (k[i] = "n" /\ w[i] = "N"),
           NEW before \in Seq(Blanks), NEW after \in Seq(Blanks),
           NEW dot \in RootDots, NEW port \in Ports
    PROVE  NormalizeHost(before \o w \o dot \o port \o after) = k
<1> DEFINE n == Len(k)
           h == before \o w \o dot \o port \o after
<1>1. /\ n \in Nat /\ n >= 1 /\ DOMAIN k = 1 .. n
      /\ \A i \in 1 .. n : k[i] \in PlainSymbols
  <2>1. k \in Seq(Alphabet) /\ k # <<>>
    BY DEF HostName
  <2>2. n \in Nat /\ n >= 1 /\ DOMAIN k = 1 .. n
    BY <2>1
  <2>3. \A i \in DOMAIN k : k[i] \in PlainSymbols
    BY DEF PlainName, All
  <2> QED
    BY <2>2, <2>3
<1>3. dot \in Seq(Alphabet) /\ port \in Seq(Alphabet)
  BY DotSymbols, PortSymbols
<1>4. /\ w \in Seq(Alphabet) /\ Len(w) = n
      /\ \A i \in 1 .. n : w[i] = k[i] \/ (k[i] = "n" /\ w[i] = "N")
  OBVIOUS
<1>5. \A i \in 1 .. n : w[i] \in PlainSymbols \cup {"N"}
  BY <1>1, <1>4
<1>6. h = (((before \o w) \o dot) \o port) \o after
  OBVIOUS
<1> HIDE DEF n, h
<1>7. w # <<>> /\ w[1] # "[" /\ w[n] # "."
  <2>1. w # <<>>
    BY <1>1, <1>4
  <2>2. w[1] # "["
    BY <1>1, <1>5, Symbols
  <2>3. w[n] # "."
    BY <1>1, <1>4 DEF HostName, n
  <2> QED
    BY <2>1, <2>2, <2>3
<1> DEFINE v == w \o dot
           s == v \o port
<1>8. /\ v \in Seq(Alphabet)
      /\ \A i \in 1 .. Len(v) : v[i] \in PlainSymbols \cup {"N"}
  <2>1. \A i \in 1 .. Len(dot) : dot[i] \in PlainSymbols \cup {"N"}
    BY DotSymbols DEF PlainSymbols
  <2> QED
    BY <1>3, <1>4, <1>5, <2>1, ConcatSymbols
<1>9. v # <<>> /\ v[1] # "[" /\ \A i \in 1 .. Len(v) : v[i] # ":" /\ v[i] \notin Blanks
  <2>1. v # <<>> /\ v[1] = w[1]
    BY <1>3, <1>4, <1>7
  <2> QED
    BY <1>7, <1>8, <2>1, Symbols
<1>10. /\ s \in Seq(Alphabet) /\ s # <<>>
       /\ \A i \in 1 .. Len(s) : s[i] \notin Blanks
  <2> HIDE DEF v
  <2>1. \A i \in 1 .. Len(v) : v[i] \in Alphabet \ Blanks
    BY <1>8, <1>9
  <2>2. \A i \in 1 .. Len(port) : port[i] \in Alphabet \ Blanks
    BY <1>3, PortSymbols
  <2>3. /\ s \in Seq(Alphabet)
        /\ \A i \in 1 .. Len(s) : s[i] \in Alphabet \ Blanks
    BY <1>3, <1>8, <2>1, <2>2, ConcatSymbols
  <2>4. s # <<>>
    BY <1>3, <1>8, <1>9
  <2> QED
    BY <2>3, <2>4
<1>11. h = before \o s \o after
  <2>1. before \in Seq(Alphabet)
    <3>1. \A i \in 1 .. Len(before) : before[i] \in Alphabet
      BY Symbols
    <3> QED
      BY <3>1
  <2>2. (before \o w) \o dot = before \o v
    BY <1>3, <1>4, <2>1, Concat3
  <2> HIDE DEF v
  <2>3. (before \o v) \o port = before \o s
    BY <1>3, <1>8, <2>1, Concat3
  <2> QED
    BY <1>6, <2>2, <2>3
<1>12. Trim(h) = s
  <2> HIDE DEF s
  <2> QED
    BY <1>3, <1>10, <1>11, TrimAround
<1>13. WithoutPort(s) = v
  <2> HIDE DEF v
  <2> QED
    BY <1>8, <1>9, PortGoes
<1>14. TrimDots(v) = w
  BY <1>4, <1>7, DotGoes
<1>15. TrimDots(WithoutPort(Trim(h))) = w
  BY <1>12, <1>13, <1>14
<1>16. All(w, Alphabet \ NonAscii) /\ Len(w) <= MaxHost
  <2>1. \A i \in 1 .. n : w[i] \in Alphabet /\ w[i] \notin NonAscii
    BY <1>5, Symbols
  <2>2. DOMAIN w = 1 .. n
    BY <1>4
  <2> QED
    BY <1>4, <2>1, <2>2 DEF All, HostName, n
<1>17. ToLower(w) = k
  <2>1. ToLower(w) = [i \in 1 .. n |-> IF w[i] = "N" THEN "n" ELSE w[i]]
    BY <1>4 DEF ToLower
  <2>2. ASSUME NEW i \in 1 .. n PROVE (IF w[i] = "N" THEN "n" ELSE w[i]) = k[i]
    BY <1>1, <1>4, Symbols
  <2>3. k = [i \in 1 .. n |-> k[i]]
    BY <1>1 DEF HostName
  <2> QED
    BY <2>1, <2>2, <2>3
<1>18. NormalizeHost(h) = k
  BY <1>15, <1>16, <1>17 DEF NormalizeHost
<1> QED
  BY <1>18 DEF h

\* The same for the spellings clients use.
LEMMA SpellingsFound ==
    ASSUME NEW k, HostName(k), PlainName(k), NEW h \in Spellings(k)
    PROVE  NormalizeHost(h) = k
<1>1. " " \in Blanks /\ Tab \in Blanks
  BY DEF Blanks
<1>2. <<>> \in Seq(Blanks) /\ \A c \in Blanks : <<c>> \in Seq(Blanks)
  OBVIOUS
<1>3. Leading \subseteq Seq(Blanks) /\ Trailing \subseteq Seq(Blanks)
  BY <1>1, <1>2 DEF Leading, Trailing
<1>4. PICK before \in Leading, w \in EitherCase(k), dot \in RootDots, port \in Ports,
           after \in Trailing : h = Spelling(before, w, dot, port, after)
  BY DEF Spellings
<1>5. before \in Seq(Blanks) /\ after \in Seq(Blanks)
  BY <1>3
<1>6. PICK upper \in SUBSET Positions(k, {"n"}) :
         w = [i \in DOMAIN k |-> IF i \in upper THEN "N" ELSE k[i]]
  BY DEF EitherCase
<1>7. /\ k \in Seq(Alphabet) /\ DOMAIN k = 1 .. Len(k) /\ Len(k) \in Nat
      /\ \A i \in 1 .. Len(k) : k[i] \in Alphabet
  BY DEF HostName
<1>8. \A i \in upper : k[i] = "n"
  BY DEF Positions
<1>9. w = [i \in 1 .. Len(k) |-> IF i \in upper THEN "N" ELSE k[i]]
  BY <1>6, <1>7
<1>10. w \in Seq(Alphabet) /\ Len(w) = Len(k)
  BY <1>7, <1>9, Symbols
<1>11. \A i \in 1 .. Len(k) : w[i] = k[i] \/ (k[i] = "n" /\ w[i] = "N")
  BY <1>8, <1>9
<1>12. NormalizeHost(before \o w \o dot \o port \o after) = k
  BY <1>5, <1>10, <1>11, SpellingFound
<1> QED
  BY <1>4, <1>12 DEF Spelling

-----------------------------------------------------------------------------
(* What is registered *)

\* What normalize_host accepts has the form of a registered name.
LEMMA NormalizeHostName ==
    ASSUME NEW s \in Seq(Alphabet), NormalizeHost(s) # <<>>
    PROVE  HostName(NormalizeHost(s))
<1> DEFINE w == WithoutPort(Trim(s))
           P == {0} \cup Positions(w, Alphabet \ {"."})
           m == Max(P)
           name == TrimDots(w)
           h == NormalizeHost(s)
<1>1. w \in Seq(Alphabet)
  BY TrimText, WithoutPortColon
<1>2. h = ToLower(name) /\ Len(name) <= MaxHost
  BY DEF NormalizeHost, Err
<1>3. h \in Seq(Alphabet)
  BY NormalizeHostFront
<1>4. name = SubSeq(w, 1, m)
  BY DEF TrimDots
<1> HIDE DEF w, h, name
<1>5. /\ P \in SUBSET (0 .. Len(w)) /\ Len(w) \in Nat /\ P # {}
      /\ \A i \in P : i = 0 \/ w[i] # "."
  BY <1>1 DEF Positions
<1> HIDE DEF P
<1>6. m \in P
  BY <1>5, MaxExists
<1>7. m \in 0 .. Len(w) /\ (m = 0 \/ w[m] # ".")
  BY <1>5, <1>6
<1> HIDE DEF m
<1>8. name \in Seq(Alphabet) /\ Len(name) = m /\ \A i \in 1 .. m : name[i] = w[i]
  BY <1>1, <1>4, <1>7
<1>9. h = [i \in 1 .. m |-> IF name[i] = "N" THEN "n" ELSE name[i]]
  BY <1>2, <1>8 DEF ToLower
<1>10. Len(h) = m /\ m \in Nat
  BY <1>3, <1>7, <1>9
<1>11. h # <<>>
  BY DEF h
<1>12. m # 0
  BY <1>3, <1>10, <1>11
<1>13. h[m] # "."
  <2>1. m \in 1 .. m /\ name[m] # "."
    BY <1>7, <1>8, <1>10, <1>12
  <2> QED
    BY <1>9, <2>1
<1>14. HostName(h)
  BY <1>2, <1>3, <1>8, <1>10, <1>11, <1>13 DEF HostName
<1> QED
  BY <1>14 DEF h

\* A valid label is text.
LEMMA LabelText ==
    ASSUME NEW raw \in Seq(Alphabet)
    PROVE  ValidateSubdomainSyntax(raw) \in Seq(Alphabet)
<1> DEFINE s == Trim(raw)
           label == ToLower(s)
<1>1. s \in Seq(Alphabet)
  BY TrimText
<1> HIDE DEF s
<1>2. label \in Seq(Alphabet)
  <2>1. \A i \in 1 .. Len(s) : s[i] \in Alphabet
    BY <1>1
  <2>2. "n" \in Alphabet
    BY DEF Alphabet, Lower
  <2>3. label = [i \in 1 .. Len(s) |-> IF s[i] = "N" THEN "n" ELSE s[i]] /\ Len(s) \in Nat
    BY <1>1 DEF ToLower
  <2> QED
    BY <2>1, <2>2, <2>3
<1>3. ValidateSubdomainSyntax(raw) = label \/ ValidateSubdomainSyntax(raw) = <<>>
  BY DEF ValidateSubdomainSyntax, Err, s
<1>4. <<>> \in Seq(Alphabet)
  OBVIOUS
<1> HIDE DEF label
<1> QED
  BY <1>2, <1>3, <1>4

\* What public_host makes has the form of a registered name.
LEMMA PublicHostName ==
    ASSUME NEW raw \in Seq(Alphabet), PublicHost(raw) # <<>>
    PROVE  HostName(PublicHost(raw))
<1> DEFINE label == ValidateSubdomainSyntax(raw)
           base == NormalizeHost(BaseDomain)
           front == label \o <<".">>
           name == label \o <<".">> \o base
<1>1. PublicHost(raw) = name /\ base # <<>> /\ Len(name) <= MaxHost
  BY DEF PublicHost, Err
<1>2. label \in Seq(Alphabet)
  BY LabelText
<1>3. BaseDomain \in Seq(Alphabet)
  BY TextAssumption
<1>4. HostName(base)
  BY <1>1, <1>3, NormalizeHostName
<1> HIDE DEF label, base
<1>5. front \in Seq(Alphabet) /\ Len(front) \in Nat
  BY <1>2, Symbols
<1>6. base \in Seq(Alphabet) /\ Len(base) \in Nat /\ Len(base) >= 1 /\ base[Len(base)] # "."
  BY <1>4 DEF HostName
<1>7. name = front \o base
  OBVIOUS
<1> HIDE DEF front, name
<1>8. /\ name \in Seq(Alphabet) /\ Len(name) = Len(front) + Len(base)
      /\ name[Len(front) + Len(base)] = base[Len(base)]
  BY <1>5, <1>6, <1>7
<1>9. name # <<>>
  BY <1>5, <1>6, <1>8
<1>10. HostName(name)
  BY <1>1, <1>6, <1>8, <1>9 DEF HostName
<1> QED
  BY <1>1, <1>10

\* Below a plain base domain public_host makes plain names.
LEMMA PublicHostPlain ==
    ASSUME NEW raw \in Seq(Alphabet), PlainName(NormalizeHost(BaseDomain))
    PROVE  PlainName(PublicHost(raw))
<1> DEFINE label == ValidateSubdomainSyntax(raw)
           base == NormalizeHost(BaseDomain)
           front == label \o <<".">>
           name == label \o <<".">> \o base
<1>1. label \in Seq(Alphabet) /\ base \in Seq(Alphabet)
  BY LabelText, NormalizeHostFront, TextAssumption
<1>2. label # <<>> => All(label, LabelSymbols)
  BY DEF ValidateSubdomainSyntax, Err
<1>3. (PublicHost(raw) = name /\ label # <<>>) \/ PublicHost(raw) = <<>>
  BY DEF PublicHost, Err
<1> HIDE DEF label, base
<1>4. CASE label # <<>>
  <2>1. \A i \in 1 .. Len(label) : label[i] \in PlainSymbols
    <3>1. DOMAIN label = 1 .. Len(label)
      BY <1>1
    <3> QED
      BY <1>2, <1>4, <3>1 DEF All, PlainSymbols, LabelSymbols
  <2>2. \A i \in 1 .. Len(base) : base[i] \in PlainSymbols
    <3>1. DOMAIN base = 1 .. Len(base)
      BY <1>1
    <3> QED
      BY <3>1 DEF PlainName, All, base
  <2>3. /\ <<".">> \in Seq(Alphabet)
        /\ \A i \in 1 .. Len(<<".">>) : <<".">>[i] \in PlainSymbols
    BY Symbols DEF PlainSymbols
  <2>4. /\ front \in Seq(Alphabet)
        /\ \A i \in 1 .. Len(front) : front[i] \in PlainSymbols
    BY <1>1, <2>1, <2>3, ConcatSymbols
  <2>5. name = front \o base
    OBVIOUS
  <2> HIDE DEF front
  <2>6. /\ name \in Seq(Alphabet)
        /\ \A i \in 1 .. Len(name) : name[i] \in PlainSymbols
    BY <1>1, <2>2, <2>4, <2>5, ConcatSymbols
  <2> HIDE DEF name
  <2>7. PlainName(name)
    BY <2>6 DEF PlainName, All
  <2>8. PlainName(<<>>)
    BY DEF PlainName, All
  <2> QED
    BY <1>3, <2>7, <2>8
<1>5. CASE label = <<>>
  BY <1>3, <1>5 DEF PlainName, All
<1> QED
  BY <1>4, <1>5

-----------------------------------------------------------------------------
(* Grants *)

\* A granted wildcard covers names of which it is the end, from a dot on.
LEMMA CoveredByGrant ==
    ASSUME NEW d \in Seq(Alphabet), NEW g \in Seq(Alphabet \cup {"*"}), Covers(g, d)
    PROVE  \/ ToLower(g) = d
           \/ \E i \in 2 .. Len(d) :
                 d[i] = "." /\ <<"*">> \o SubSeq(d, i, Len(d)) = g
<1> SUFFICES ASSUME IsPrefix(<<"*", ".">>, g)
             PROVE  \E i \in 2 .. Len(d) :
                       d[i] = "." /\ <<"*">> \o SubSeq(d, i, Len(d)) = g
  BY DEF Covers
<1> DEFINE S == Alphabet \cup {"*"}
           t == SubSeq(g, 3, Len(g))
           head == StripSuffix(d, t)
           n == Len(d) - Len(t)
<1>1. Len(g) >= 2 /\ g[1] = "*" /\ g[2] = "."
  <2>1. Len(<<"*", ".">>) = 2
    OBVIOUS
  <2>2. 2 <= Len(g) /\ SubSeq(<<"*", ".">>, 1, 2) = SubSeq(g, 1, 2)
    BY <2>1 DEF IsPrefix
  <2>3. /\ SubSeq(<<"*", ".">>, 1, 2)[1] = "*" /\ SubSeq(<<"*", ".">>, 1, 2)[2] = "."
        /\ SubSeq(g, 1, 2)[1] = g[1] /\ SubSeq(g, 1, 2)[2] = g[2]
    BY <2>2
  <2> QED
    BY <2>2, <2>3
<1>2. Len(head) > 1 /\ head[Len(head)] = "."
  BY DEF Covers, Last
<1>3. /\ t \in Seq(S) /\ Len(t) = Len(g) - 2
      /\ \A i \in 1 .. Len(t) : t[i] = g[i + 2]
  BY <1>1
<1>4. d \in Seq(S) /\ head # <<>>
  BY <1>2
<1> HIDE DEF t, head, S
<1>5. /\ n \in 1 .. Len(d) /\ Len(head) = n
      /\ \A i \in 1 .. n : head[i] = d[i]
      /\ \A i \in 1 .. Len(t) : t[i] = d[n + i]
  <2>1. StripSuffix(d, t) # <<>>
    BY <1>4 DEF head
  <2>2. t \in Seq(S) /\ d \in Seq(S)
    BY <1>3, <1>4
  <2> QED
    BY <2>1, <2>2, StripSuffixParts DEF head
<1>6. /\ n \in 2 .. Len(d) /\ d[n] = "." /\ Len(d) = n + Len(t)
      /\ Len(t) \in Nat /\ Len(g) = Len(t) + 2
  BY <1>2, <1>3, <1>5
<1> DEFINE u == SubSeq(d, n, Len(d))
           v == <<"*">> \o u
<1> HIDE DEF n
<1>7. /\ u \in Seq(Alphabet) /\ Len(u) = Len(t) + 1
      /\ \A i \in 1 .. Len(t) + 1 : u[i] = d[n + i - 1]
  BY <1>6
<1> HIDE DEF u
<1>8. /\ v \in Seq(S) /\ Len(v) = Len(t) + 2
      /\ v[1] = "*" /\ \A i \in 2 .. Len(t) + 2 : v[i] = u[i - 1]
  BY <1>6, <1>7 DEF S
<1> HIDE DEF v
<1>9. \A i \in 1 .. Len(t) + 2 : v[i] = g[i]
  <2> SUFFICES ASSUME NEW i \in 1 .. Len(t) + 2 PROVE v[i] = g[i]
    OBVIOUS
  <2>1. CASE i = 1
    BY <1>1, <1>8, <2>1
  <2>2. CASE i = 2
    <3>1. v[2] = u[1] /\ u[1] = d[n]
      BY <1>6, <1>7, <1>8
    <3> QED
      BY <1>1, <1>6, <2>2, <3>1
  <2>3. CASE i > 2
    <3> DEFINE k == i - 2
    <3>1. k \in 1 .. Len(t) /\ i = k + 2 /\ i - 1 \in 1 .. Len(t) + 1
          /\ i \in 2 .. Len(t) + 2 /\ n + (i - 1) - 1 = n + k
      BY <1>6, <2>3
    <3> HIDE DEF k
    <3>2. v[i] = u[i - 1] /\ u[i - 1] = d[n + (i - 1) - 1]
      BY <1>7, <1>8, <3>1
    <3>3. t[k] = g[k + 2] /\ t[k] = d[n + k]
      BY <1>3, <1>5, <3>1
    <3> QED
      BY <3>1, <3>2, <3>3
  <2> QED
    BY <1>6, <2>1, <2>2, <2>3
<1>10. v = g
  <2>1. g \in Seq(S) /\ Len(g) = Len(v)
    BY <1>6, <1>8 DEF S
  <2> QED
    BY <1>6, <1>8, <1>9, <2>1
<1> QED
  BY <1>6, <1>10 DEF v, u

-----------------------------------------------------------------------------
(* Theorems *)

\* What an agent sends is text of the alphabet, and a custom domain was granted.
Granted == principal \in Principals /\ text \in Seq(Alphabet) /\ CustomDomainsGranted

\* Every step keeps Granted: only OpenCustomDomain gives out custom domains.
LEMMA GrantedNext == Granted /\ [Next]_vars => Granted'
<1> SUFFICES ASSUME Granted, [Next]_vars PROVE Granted'
  OBVIOUS
<1> USE DEF Granted
<1>1. CASE UNCHANGED vars
  BY <1>1 DEF vars, CustomDomainsGranted
<1>2. ASSUME NEW c \in Alphabet, Type(c) PROVE Granted'
  <2>1. text' \in Seq(Alphabet)
    BY <1>2 DEF Type
  <2> QED
    BY <1>2, <2>1 DEF Type, CustomDomainsGranted
<1>3. ASSUME NEW kind \in {"subdomain", "random", "tcp"}, NEW k, Registered(kind, k)
      PROVE  Granted'
  BY <1>3 DEF Registered, CustomDomainsGranted
<1>4. CASE OpenCustomDomain
  <2> DEFINE d == NormalizeHost(text)
  <2>1. d \in Seq(Alphabet)
    BY NormalizeHostFront
  <2>2. /\ principal' = principal /\ text' = <<>>
        /\ key' # Err => key' = d /\ MayUseCustomDomain(principal, d)
    BY <1>4 DEF OpenCustomDomain, Registered
  <2> HIDE DEF d
  <2>3. ASSUME key' # Err
        PROVE  \E g \in principal.domains :
                  \/ ToLower(g) = d
                  \/ \E i \in 2 .. Len(d) :
                        d[i] = "." /\ <<"*">> \o SubSeq(d, i, Len(d)) = g
    <3>1. PICK g \in principal.domains : Covers(g, d)
      BY <2>2, <2>3 DEF MayUseCustomDomain
    <3>2. g \in Seq(Alphabet \cup {"*"})
      BY TextAssumption
    <3> QED
      BY <2>1, <3>1, <3>2, CoveredByGrant
  <2>4. CustomDomainsGranted'
    BY <2>2, <2>3 DEF CustomDomainsGranted
  <2> QED
    BY <2>2, <2>4
<1>5. CASE OpenSubdomain
  BY <1>3, <1>5 DEF OpenSubdomain
<1>6. CASE OpenRandom
  BY <1>3, <1>6 DEF OpenRandom
<1>7. CASE OpenTcp
  BY <1>3, <1>7 DEF OpenTcp
<1>8. CASE Visit
  BY <1>8 DEF Visit, CustomDomainsGranted
<1> QED
  BY <1>1, <1>2, <1>4, <1>5, <1>6, <1>7, <1>8 DEF Next

OwnKinds == {"subdomain", "random"}
HttpKinds == OwnKinds \cup {"custom"}

\* Names are registered in the form that HostName says, and visitors ask for them.
Registrable ==
    /\ principal \in Principals /\ text \in Seq(Alphabet)
    /\ ask \in HttpKinds /\ key # Err => HostName(key)
    /\ PlainName(NormalizeHost(BaseDomain)) /\ ask \in OwnKinds => PlainName(key)
    /\ ask = "none" => host = <<>>
    /\ host # <<>> => ask \in HttpKinds /\ key # Err /\ host \in Spellings(key)

\* A generated label is text of its length.
LEMMA RandomText ==
    ASSUME NEW label \in RandomSubdomains
    PROVE  /\ label \in Seq(LabelSymbols) /\ Len(label) = RandomLen
           /\ label \in Seq(Alphabet)
<1>1. RandomAlphabet \subseteq LabelSymbols /\ RandomAlphabet \subseteq Alphabet
  BY DEF RandomAlphabet, LabelSymbols, Alphabet, Lower
<1>2. /\ label \in [1 .. RandomLen -> LabelSymbols]
      /\ label \in [1 .. RandomLen -> Alphabet]
      /\ RandomLen \in Nat
  BY <1>1, RandomAssumption DEF RandomSubdomains
<1> QED
  BY <1>2

\* Every step keeps Registrable.
LEMMA RegistrableNext == Registrable /\ [Next]_vars => Registrable'
<1> SUFFICES ASSUME Registrable, [Next]_vars PROVE Registrable'
  OBVIOUS
<1> USE DEF Registrable
<1>1. CASE UNCHANGED vars
  BY <1>1 DEF vars
<1>2. ASSUME NEW c \in Alphabet, Type(c) PROVE Registrable'
  <2>1. text' \in Seq(Alphabet)
    BY <1>2 DEF Type
  <2> QED
    BY <1>2, <2>1 DEF Type, HttpKinds, OwnKinds
<1>3. ASSUME NEW kind \in HttpKinds \cup {"tcp"}, NEW k, Registered(kind, k),
             kind \in HttpKinds /\ k # Err => HostName(k),
             PlainName(NormalizeHost(BaseDomain)) /\ kind \in OwnKinds => PlainName(k)
      PROVE  Registrable'
  <2>1. /\ principal' = principal /\ text' = <<>> /\ host' = host /\ host = <<>>
        /\ ask' = kind /\ key' = k
    BY <1>3 DEF Registered
  <2>2. text' \in Seq(Alphabet) /\ ask' # "none"
    BY <2>1 DEF HttpKinds, OwnKinds
  <2> QED
    BY <1>3, <2>1, <2>2
<1>4. CASE OpenSubdomain
  <2> DEFINE label == ValidateSubdomainSyntax(text)
  <2>1. label \in Seq(Alphabet)
    BY LabelText
  <2> HIDE DEF label
  <2>2. PICK k \in {PublicHost(label), Err} : Registered("subdomain", k)
    BY <1>4 DEF OpenSubdomain, label
  <2>3. k # Err => HostName(k)
    BY <2>1, <2>2, PublicHostName DEF Err
  <2>4. PlainName(NormalizeHost(BaseDomain)) => PlainName(k)
    <3>1. PlainName(Err)
      BY DEF PlainName, All, Err
    <3> QED
      BY <2>1, <2>2, <3>1, PublicHostPlain
  <2>5. "subdomain" \in HttpKinds
    BY DEF HttpKinds, OwnKinds
  <2> QED
    BY <1>3, <2>2, <2>3, <2>4, <2>5
<1>5. CASE OpenCustomDomain
  <2> DEFINE domain == NormalizeHost(text)
  <2>1. domain # <<>> => HostName(domain)
    BY NormalizeHostName
  <2> HIDE DEF domain
  <2>2. PICK k \in {domain, Err} : Registered("custom", k)
    BY <1>5 DEF OpenCustomDomain, domain
  <2>3. k # Err => HostName(k)
    BY <2>1, <2>2 DEF Err
  <2>4. "custom" \in HttpKinds /\ "custom" \notin OwnKinds
    BY DEF HttpKinds, OwnKinds
  <2> QED
    BY <1>3, <2>2, <2>3, <2>4
<1>6. CASE OpenRandom
  <2>1. PICK label \in RandomSubdomains : Registered("random", PublicHost(label))
    BY <1>6 DEF OpenRandom
  <2>2. label \in Seq(Alphabet)
    BY RandomText
  <2>3. PublicHost(label) # Err => HostName(PublicHost(label))
    BY <2>2, PublicHostName DEF Err
  <2>4. PlainName(NormalizeHost(BaseDomain)) => PlainName(PublicHost(label))
    BY <2>2, PublicHostPlain
  <2>5. "random" \in HttpKinds
    BY DEF HttpKinds, OwnKinds
  <2> QED
    BY <1>3, <2>1, <2>3, <2>4, <2>5
<1>7. CASE OpenTcp
  <2>1. PICK k : Registered("tcp", k)
    BY <1>7 DEF OpenTcp
  <2>2. "tcp" \notin HttpKinds /\ "tcp" \notin OwnKinds
    BY DEF HttpKinds, OwnKinds
  <2> QED
    BY <1>3, <2>1, <2>2
<1>8. CASE Visit
  BY <1>8 DEF Visit, HttpKinds, OwnKinds
<1> QED
  BY <1>1, <1>2, <1>4, <1>5, <1>6, <1>7, <1>8 DEF Next

\* Granted holds at all times (register_tunnel).
THEOREM Invariance == Spec => []Granted
<1>1. Init => Granted
  BY DEF Init, Granted, CustomDomainsGranted
<1> QED
  BY <1>1, GrantedNext, PTL DEF Spec

\* A custom domain goes to an account that was granted it or a wildcard above it,
\* whatever the agent sent and whatever the grants are (resolve_http_target,
\* may_use_custom_domain).
THEOREM CustomDomainsChecked == Spec => []CustomDomainsGranted
<1>1. Granted => CustomDomainsGranted
  BY DEF Granted
<1> QED
  BY <1>1, Invariance, PTL

\* No Host header, however long, is looked up as the key of a TCP tunnel, for any
\* port: only an address in brackets keeps a colon (normalize_host, RoutingKey).
THEOREM NoHostIsTcpKey == Spec => []TcpKeysApart
<1>1. Granted => TcpKeysApart
  <2> SUFFICES ASSUME text \in Seq(Alphabet), NEW port \in 1 .. MaxPort,
                      NormalizeHost(text) = TcpKey(port)
               PROVE  FALSE
    BY DEF Granted, TcpKeysApart
  <2> DEFINE h == NormalizeHost(text)
             w == WithoutPort(Trim(text))
  <2>1. Len(h) = 3 /\ h[1] = "tcp" /\ h[2] = ":"
    BY DEF TcpKey
  <2>2. \A i \in 1 .. Len(h) : i \in 1 .. Len(w) /\ h[i] = IF w[i] = "N" THEN "n" ELSE w[i]
    BY NormalizeHostFront
  <2>3. (\A i \in 1 .. Len(w) : w[i] # ":") \/ w[1] = "["
    BY TrimText, WithoutPortColon
  <2> HIDE DEF h, w
  <2>4. w[1] # "[" /\ w[2] = ":" /\ 2 \in 1 .. Len(w)
    BY <2>1, <2>2
  <2> QED
    BY <2>3, <2>4
<1> QED
  BY <1>1, Invariance, PTL

\* Registrable holds at all times.
LEMMA RegistrableInvariant == Spec => []Registrable
<1>1. Init => Registrable
  BY DEF Init, Registrable, HttpKinds, OwnKinds
<1> QED
  BY <1>1, RegistrableNext, PTL DEF Spec

\* "the key produced when a tunnel is registered must be byte-identical to the key
\* derived from an inbound request's Host header": whatever the agent asked for, a
\* name that was registered and is a plain host name is found under each of its
\* spellings, for names of any length (normalize_host, public_host).
THEOREM PlainNamesFound == Spec => [](PlainName(key) => VisitorsFindTunnel)
<1>1. Registrable => (PlainName(key) => VisitorsFindTunnel)
  BY SpellingsFound DEF Registrable, VisitorsFindTunnel
<1> QED
  BY <1>1, RegistrableInvariant, PTL

\* On an edge whose base domain is a plain host name, that covers every name of its
\* own that it gives out, asked for or random (public_host, random_subdomain).
THEOREM SubdomainsFound ==
    ASSUME PlainName(NormalizeHost(BaseDomain))
    PROVE  Spec => [](ask \in {"subdomain", "random"} => VisitorsFindTunnel)
<1>1. Registrable => (ask \in {"subdomain", "random"} => VisitorsFindTunnel)
  BY SpellingsFound DEF Registrable, VisitorsFindTunnel, OwnKinds
<1> QED
  BY <1>1, RegistrableInvariant, PTL

-----------------------------------------------------------------------------
(* The edge's own names *)

\* Labels are kept by trimming and lower-casing.
LEMMA LabelKept ==
    ASSUME NEW s \in Seq(LabelSymbols), s # <<>>
    PROVE  s \in Seq(Alphabet) /\ ToLower(Trim(s)) = s
<1>1. LabelSymbols \subseteq PlainSymbols
  BY DEF PlainSymbols
<1>2. /\ Len(s) \in Nat /\ s = [i \in 1 .. Len(s) |-> s[i]] /\ DOMAIN s = 1 .. Len(s)
      /\ \A i \in 1 .. Len(s) : s[i] \in LabelSymbols
  OBVIOUS
<1>3. \A i \in 1 .. Len(s) : s[i] \in Alphabet /\ s[i] \notin Blanks /\ s[i] # "N"
  BY <1>1, <1>2, Symbols
<1>4. s \in Seq(Alphabet)
  BY <1>2, <1>3
<1>5. <<>> \in Seq(Blanks) /\ <<>> \o s \o <<>> = s
  BY <1>4
<1>6. Trim(<<>> \o s \o <<>>) = s
  BY <1>3, <1>4, <1>5, TrimAround
<1>7. ToLower(s) = s
  BY <1>2, <1>3 DEF ToLower
<1> QED
  BY <1>4, <1>5, <1>6, <1>7

\* A valid label has the symbols of one, and validation keeps it.
LEMMA LabelForm ==
    ASSUME NEW raw \in Seq(Alphabet), ValidateSubdomainSyntax(raw) # <<>>
    PROVE  LET label == ValidateSubdomainSyntax(raw)
           IN label \in Seq(LabelSymbols) /\ ValidateSubdomainSyntax(label) = label
<1> DEFINE label == ValidateSubdomainSyntax(raw)
<1>1. /\ label # <<>> /\ Len(label) <= MaxLabel
      /\ All(label, LabelSymbols)
      /\ Head(label) # "-" /\ Last(label) # "-"
      /\ ~IsPrefix(Punycode, label)
  BY DEF ValidateSubdomainSyntax, Err
<1>2. label \in Seq(Alphabet)
  BY LabelText
<1> HIDE DEF label
<1>3. label \in Seq(LabelSymbols)
  <2>1. DOMAIN label = 1 .. Len(label)
    BY <1>2
  <2>2. \A i \in 1 .. Len(label) : label[i] \in LabelSymbols
    BY <1>1, <2>1 DEF All
  <2> QED
    BY <1>2, <2>2
<1>4. ToLower(Trim(label)) = label
  BY <1>1, <1>3, LabelKept
<1>5. ValidateSubdomainSyntax(label) = label
  BY <1>1, <1>4 DEF ValidateSubdomainSyntax
<1> QED
  BY <1>3, <1>5 DEF label

\* A text with the symbols of a label is a label as it stands, or none.
LEMMA LabelOrNone ==
    ASSUME NEW s \in Seq(LabelSymbols)
    PROVE  ValidateSubdomainSyntax(s) \in {s, <<>>}
<1>1. CASE s # <<>>
  BY <1>1, LabelKept DEF ValidateSubdomainSyntax, Err
<1>2. CASE s = <<>>
  <2>1. Positions(<<>>, Alphabet \ Blanks) = {}
    BY DEF Positions
  <2>2. Trim(<<>>) = <<>>
    BY <2>1 DEF Trim
  <2>3. ToLower(<<>>) = <<>>
    BY DEF ToLower
  <2> QED
    BY <1>2, <2>2, <2>3 DEF ValidateSubdomainSyntax, Err
<1> QED
  BY <1>1, <1>2

\* public_host puts the label and a dot before the base domain.
LEMMA OwnNameParts ==
    ASSUME NEW raw \in Seq(Alphabet), PublicHost(raw) # <<>>
    PROVE  LET label == ValidateSubdomainSyntax(raw)
               base == NormalizeHost(BaseDomain)
           IN /\ label \in Seq(LabelSymbols) /\ label # <<>>
              /\ ValidateSubdomainSyntax(label) = label
              /\ base \in Seq(Alphabet)
              /\ PublicHost(raw) = label \o (<<".">> \o base)
<1> DEFINE label == ValidateSubdomainSyntax(raw)
           base == NormalizeHost(BaseDomain)
           name == label \o <<".">> \o base
<1>1. PublicHost(raw) = name /\ label # <<>>
  BY DEF PublicHost, Err
<1>2. /\ label \in Seq(LabelSymbols) /\ ValidateSubdomainSyntax(label) = label
      /\ label \in Seq(Alphabet)
  BY <1>1, LabelForm, LabelText
<1>3. base \in Seq(Alphabet)
  BY NormalizeHostFront, TextAssumption
<1>4. <<".">> \in Seq(Alphabet)
  BY Symbols
<1> HIDE DEF label, base
<1>5. name = label \o (<<".">> \o base)
  BY <1>2, <1>3, <1>4, Concat3
<1> QED
  BY <1>1, <1>2, <1>3, <1>5 DEF label, base

\* Names below the base domain are as different as their labels.
LEMMA SameLabel ==
    ASSUME NEW a \in Seq(Alphabet), NEW b \in Seq(Alphabet), NEW t \in Seq(Alphabet),
           a \o t = b \o t
    PROVE  a = b
<1>1. Len(a \o t) = Len(a) + Len(t) /\ Len(b \o t) = Len(b) + Len(t)
  OBVIOUS
<1>2. Len(a) = Len(b) /\ Len(a) \in Nat
  BY <1>1
<1>3. \A i \in 1 .. Len(a) : (a \o t)[i] = a[i]
  OBVIOUS
<1>4. \A i \in 1 .. Len(b) : (b \o t)[i] = b[i]
  OBVIOUS
<1>5. \A i \in 1 .. Len(b) : a[i] = b[i]
  BY <1>2, <1>3, <1>4
<1> QED
  BY <1>2, <1>5, SameText

\* normalize_host keeps a plain name.
LEMMA PlainKept ==
    ASSUME NEW k, HostName(k), PlainName(k)
    PROVE  NormalizeHost(k) = k
<1>1. k \in Seq(Alphabet)
  BY DEF HostName
<1>2. PICK none : none = <<>>
  OBVIOUS
<1>3. none \in Seq(Blanks) /\ none \o k \o none \o none \o none = k
  BY <1>1, <1>2
<1>4. none \in RootDots /\ none \in Ports
  BY <1>2 DEF RootDots, Ports
<1>5. Len(k) = Len(k) /\ \A i \in 1 .. Len(k) : k[i] = k[i] \/ (k[i] = "n" /\ k[i] = "N")
  OBVIOUS
<1>6. none \in Seq(Blanks)
  BY <1>3
<1>7. NormalizeHost(none \o k \o none \o none \o none) = k
  BY <1>1, <1>4, <1>5, <1>6, SpellingFound
<1> QED
  BY <1>3, <1>7

\* strip_suffix takes off what was appended.
LEMMA SuffixGoes ==
    ASSUME NEW s \in Seq(Alphabet), NEW t \in Seq(Alphabet)
    PROVE  StripSuffix(s \o t, t) = s
<1> DEFINE h == s \o t
           n == Len(s)
           a == Reverse(t)
           b == Reverse(h)
<1>1. /\ h \in Seq(Alphabet) /\ Len(h) = n + Len(t) /\ n \in Nat /\ Len(t) \in Nat
      /\ \A i \in 1 .. n : h[i] = s[i]
      /\ \A i \in 1 .. Len(t) : h[n + i] = t[i]
  OBVIOUS
<1>2. /\ a = [i \in 1 .. Len(t) |-> t[(Len(t) - i) + 1]]
      /\ b = [i \in 1 .. Len(h) |-> h[(Len(h) - i) + 1]]
  BY DEF Reverse
<1> HIDE DEF h, n
<1>3. a \in Seq(Alphabet) /\ Len(a) = Len(t) /\ b \in Seq(Alphabet) /\ Len(b) = Len(h)
  BY <1>1, <1>2
<1>4. \A i \in 1 .. Len(t) : a[i] = t[(Len(t) - i) + 1]
  BY <1>2
<1>5. \A i \in 1 .. Len(h) : b[i] = h[(Len(h) - i) + 1]
  BY <1>2
<1> HIDE DEF a, b
<1>6. ASSUME NEW i \in 1 .. Len(t) PROVE a[i] = b[i]
  <2> DEFINE k == (Len(t) - i) + 1
  <2>1. k \in 1 .. Len(t) /\ i \in 1 .. Len(h) /\ (Len(h) - i) + 1 = n + k
    BY <1>1
  <2>2. a[i] = t[k]
    BY <1>4
  <2> HIDE DEF k
  <2>3. b[i] = h[n + k]
    BY <1>5, <2>1
  <2> QED
    BY <1>1, <2>1, <2>2, <2>3
<1>7. IsPrefix(a, b)
  <2> DEFINE u == SubSeq(a, 1, Len(a))
             v == SubSeq(b, 1, Len(a))
  <2>1. Len(a) \in Nat /\ Len(a) <= Len(b)
    BY <1>1, <1>3
  <2>2. u \in Seq(Alphabet) /\ Len(u) = Len(a) /\ \A i \in 1 .. Len(a) : u[i] = a[i]
    BY <1>3, <2>1
  <2>3. v \in Seq(Alphabet) /\ Len(v) = Len(a) /\ \A i \in 1 .. Len(a) : v[i] = b[i]
    BY <1>3, <2>1
  <2> HIDE DEF u, v
  <2>4. \A i \in 1 .. Len(v) : u[i] = v[i]
    BY <1>3, <1>6, <2>2, <2>3
  <2>5. u = v
    BY <2>2, <2>3, <2>4, SameText
  <2> QED
    BY <2>1, <2>5 DEF IsPrefix, u, v
<1>8. StripSuffix(h, t) = SubSeq(h, 1, Len(h) - Len(t))
  BY <1>7 DEF StripSuffix, IsSuffix, a, b
<1>9. Len(h) - Len(t) = n /\ n <= Len(h)
  BY <1>1
<1> DEFINE u == SubSeq(h, 1, n)
<1>10. u \in Seq(Alphabet) /\ Len(u) = n /\ \A i \in 1 .. n : u[i] = h[i]
  BY <1>1, <1>9
<1>11. \A i \in 1 .. Len(s) : u[i] = s[i]
  BY <1>1, <1>10 DEF n
<1> HIDE DEF u
<1>12. u = s
  BY <1>10, <1>11, SameText DEF n
<1> QED
  BY <1>8, <1>9, <1>12 DEF h, u

\* The edge's own names come from valid labels, and a reserved label is one the account
\* may have.
OwnNames ==
    /\ principal \in Principals /\ text \in Seq(Alphabet)
    /\ ask \in OwnKinds /\ key # Err =>
          \E label \in Seq(LabelSymbols) :
             /\ label # Err /\ ValidateSubdomainSyntax(label) = label
             /\ key = PublicHost(label)
             /\ IsReserved(label) => MayClaimSubdomain(principal, label)

\* Every step keeps OwnNames.
LEMMA OwnNamesNext == OwnNames /\ [Next]_vars => OwnNames'
<1> SUFFICES ASSUME OwnNames, [Next]_vars PROVE OwnNames'
  OBVIOUS
<1>1. CASE UNCHANGED vars
  BY <1>1 DEF OwnNames, vars
<1>2. ASSUME NEW c \in Alphabet, Type(c) PROVE OwnNames'
  <2>1. text' \in Seq(Alphabet)
    BY <1>2 DEF Type, OwnNames
  <2> QED
    BY <1>2, <2>1 DEF Type, OwnNames
<1>3. ASSUME NEW label \in Seq(LabelSymbols), NEW kind, NEW k, Registered(kind, k),
             kind \in OwnKinds /\ k # Err =>
                /\ label # Err /\ ValidateSubdomainSyntax(label) = label
                /\ k = PublicHost(label)
                /\ IsReserved(label) => MayClaimSubdomain(principal, label)
      PROVE  OwnNames'
  <2>1. principal' = principal /\ text' = <<>> /\ ask' = kind /\ key' = k
    BY <1>3 DEF Registered
  <2>2. principal \in Principals /\ text' \in Seq(Alphabet)
    BY <2>1 DEF OwnNames
  <2> QED
    BY <1>3, <2>1, <2>2 DEF OwnNames
<1>4. CASE OpenSubdomain
  <2> DEFINE label == ValidateSubdomainSyntax(text)
             allowed == IsReserved(label) => MayClaimSubdomain(principal, label)
             k == IF label # Err /\ allowed THEN PublicHost(label) ELSE Err
  <2>1. Registered("subdomain", k)
    BY <1>4 DEF OpenSubdomain
  <2>2. text \in Seq(Alphabet)
    BY DEF OwnNames
  <2>3. CASE label # Err
    <3>1. label \in Seq(LabelSymbols) /\ ValidateSubdomainSyntax(label) = label
      BY <2>2, <2>3, LabelForm DEF Err
    <3>2. k # Err => k = PublicHost(label) /\ allowed
      OBVIOUS
    <3> HIDE DEF label, k
    <3> QED
      BY <1>3, <2>1, <2>3, <3>1, <3>2
  <2>4. CASE label = Err
    <3>1. k = Err /\ <<>> \in Seq(LabelSymbols)
      BY <2>4
    <3> HIDE DEF k
    <3> QED
      BY <1>3, <2>1, <3>1
  <2> QED
    BY <2>3, <2>4
<1>5. CASE OpenRandom
  <2>1. PICK label \in RandomSubdomains : Registered("random", PublicHost(label))
    BY <1>5 DEF OpenRandom
  <2>2. label \in Seq(LabelSymbols) /\ Len(label) = RandomLen
    BY RandomText
  <2>3. ~IsReserved(label)
    BY <2>2, RandomAssumption DEF IsReserved
  <2>4. PublicHost(label) # Err => label # Err /\ ValidateSubdomainSyntax(label) = label
    <3>1. PublicHost(label) # Err => ValidateSubdomainSyntax(label) # Err
      BY DEF PublicHost
    <3> QED
      BY <2>2, <3>1, LabelOrNone DEF Err
  <2> QED
    BY <1>3, <2>1, <2>2, <2>3, <2>4
<1>6. ASSUME NEW kind \in {"custom", "tcp"}, NEW k, Registered(kind, k) PROVE OwnNames'
  <2>1. kind \notin OwnKinds /\ <<>> \in Seq(LabelSymbols)
    BY DEF OwnKinds
  <2> QED
    BY <1>3, <1>6, <2>1
<1>7. CASE OpenCustomDomain
  BY <1>6, <1>7 DEF OpenCustomDomain
<1>8. CASE OpenTcp
  BY <1>6, <1>8 DEF OpenTcp
<1>9. CASE Visit
  BY <1>9 DEF Visit, OwnNames
<1> QED
  BY <1>1, <1>2, <1>4, <1>5, <1>7, <1>8, <1>9 DEF Next

\* OwnNames holds at all times.
LEMMA OwnNamesInvariant == Spec => []OwnNames
<1>1. Init => OwnNames
  BY DEF Init, OwnNames, OwnKinds
<1> QED
  BY <1>1, OwnNamesNext, PTL DEF Spec

\* A name below the base domain whose label is reserved goes to an account that was
\* granted it, for any list of reserved labels and any grants, however the agent wrote
\* what it asked for (resolve_http_target, random_subdomain).
LEMMA ReservedNamesKept ==
    Spec => [](ask \in {"subdomain", "random"} => ReservedGuarded)
<1>1. OwnNames => (ask \in {"subdomain", "random"} => ReservedGuarded)
  <2> SUFFICES ASSUME OwnNames, ask \in OwnKinds, key # Err,
                      NEW r \in Reserved, key = PublicHost(r)
               PROVE  MayClaimSubdomain(principal, r)
    BY DEF OwnKinds, ReservedGuarded, MayClaimSubdomain
  <2> DEFINE t == <<".">> \o NormalizeHost(BaseDomain)
  <2>1. PICK label \in Seq(LabelSymbols) :
           /\ label # Err /\ ValidateSubdomainSyntax(label) = label
           /\ key = PublicHost(label)
           /\ IsReserved(label) => MayClaimSubdomain(principal, label)
    BY DEF OwnNames
  <2>2. r \in Seq(LabelSymbols)
    BY ReservedAssumption
  <2>3. Seq(LabelSymbols) \subseteq Seq(Alphabet)
    <3>1. LabelSymbols \subseteq Alphabet
      BY Symbols DEF PlainSymbols
    <3> QED
      BY <3>1
  <2>4. /\ r \in Seq(Alphabet) /\ label \in Seq(Alphabet)
        /\ PublicHost(r) # <<>> /\ PublicHost(label) # <<>>
    BY <2>1, <2>2, <2>3 DEF Err
  <2>5. ValidateSubdomainSyntax(r) = r
    BY <2>2, <2>4, LabelOrNone, OwnNameParts
  <2>6. PublicHost(r) = r \o t /\ NormalizeHost(BaseDomain) \in Seq(Alphabet)
    BY <2>4, <2>5, OwnNameParts
  <2>7. PublicHost(label) = label \o t
    BY <2>1, <2>4, OwnNameParts
  <2>8. t \in Seq(Alphabet)
    BY <2>6, Symbols
  <2> HIDE DEF t
  <2>9. r = label
    BY <2>1, <2>4, <2>6, <2>7, <2>8, SameLabel
  <2> QED
    BY <2>1, <2>9 DEF IsReserved
<1> QED
  BY <1>1, OwnNamesInvariant, PTL

\* On an edge whose base domain is a plain host name, subdomain_of finds in each of its
\* own names the label that public_host made it from.
LEMMA OwnNamesRecognised ==
    ASSUME PlainName(NormalizeHost(BaseDomain))
    PROVE  Spec => [](ask \in {"subdomain", "random"} => NamesToldApart)
<1>1. OwnNames /\ Registrable => (ask \in {"subdomain", "random"} => NamesToldApart)
  <2> SUFFICES ASSUME OwnNames, Registrable, ask \in OwnKinds, key # Err
               PROVE  SubdomainOf(key) # Err /\ PublicHost(SubdomainOf(key)) = key
    BY DEF OwnKinds, NamesToldApart
  <2> DEFINE base == NormalizeHost(BaseDomain)
             t == <<".">> \o base
  <2>1. PICK label \in Seq(LabelSymbols) :
           /\ label # Err /\ ValidateSubdomainSyntax(label) = label
           /\ key = PublicHost(label)
    BY DEF OwnNames
  <2>2. label \in Seq(Alphabet)
    BY <2>1, LabelKept DEF Err
  <2>3. key = label \o t /\ base \in Seq(Alphabet)
    BY <2>1, <2>2, OwnNameParts DEF Err
  <2>4. t \in Seq(Alphabet)
    BY <2>3, Symbols
  <2>5. HostName(key) /\ PlainName(key)
    BY DEF Registrable, HttpKinds
  <2>6. NormalizeHost(key) = key
    BY <2>5, PlainKept
  <2> HIDE DEF t, base
  <2>7. StripSuffix(NormalizeHost(key), t) = label
    BY <2>2, <2>3, <2>4, <2>6, SuffixGoes
  <2>8. ~Contains(label, ".")
    <3>1. "." \notin LabelSymbols
      BY DEF LabelSymbols, Lower, Digits
    <3> QED
      BY <3>1 DEF Contains
  <2>9. SubdomainOf(key) = label
    BY <2>7, <2>8 DEF SubdomainOf, t, base
  <2> QED
    BY <2>1, <2>9
<1> QED
  BY <1>1, OwnNamesInvariant, RegistrableInvariant, PTL

-----------------------------------------------------------------------------
(* Types *)

\* normalize_host gives lower-case ASCII text.
LEMMA NormalizeHostSymbols ==
    ASSUME NEW s \in Seq(Alphabet)
    PROVE  NormalizeHost(s) \in Seq(KeySymbols)
<1> DEFINE w == WithoutPort(Trim(s))
           name == TrimDots(w)
<1>1. w \in Seq(Alphabet)
  BY TrimText, WithoutPortColon
<1>2. \/ All(name, Alphabet \ NonAscii) /\ NormalizeHost(s) = ToLower(name)
      \/ NormalizeHost(s) = <<>>
  BY DEF NormalizeHost, Err
<1> HIDE DEF w
<1>3. name \in Seq(Alphabet)
  <2>1. PICK m \in 0 .. Len(w) : name = SubSeq(w, 1, m)
    BY <1>1, TrimDotsFront
  <2> HIDE DEF name
  <2> QED
    BY <1>1, <2>1
<1> HIDE DEF name
<1>4. ASSUME All(name, Alphabet \ NonAscii) PROVE ToLower(name) \in Seq(KeySymbols)
  <2>1. DOMAIN name = 1 .. Len(name) /\ Len(name) \in Nat
    BY <1>3
  <2>2. "n" \in KeySymbols
    BY DEF KeySymbols, Alphabet, Lower, NonAscii
  <2>3. \A i \in 1 .. Len(name) : name[i] \in Alphabet \ NonAscii
    BY <1>4, <2>1 DEF All
  <2>4. \A i \in 1 .. Len(name) : (IF name[i] = "N" THEN "n" ELSE name[i]) \in KeySymbols
    BY <2>2, <2>3 DEF KeySymbols
  <2>5. ToLower(name) = [i \in 1 .. Len(name) |-> IF name[i] = "N" THEN "n" ELSE name[i]]
    BY <2>1 DEF ToLower
  <2> QED
    BY <2>1, <2>4, <2>5
<1>5. <<>> \in Seq(KeySymbols)
  OBVIOUS
<1> QED
  BY <1>2, <1>4, <1>5

\* public_host does, too.
LEMMA PublicHostSymbols ==
    ASSUME NEW raw \in Seq(Alphabet)
    PROVE  PublicHost(raw) \in Seq(KeySymbols)
<1>1. CASE PublicHost(raw) # <<>>
  <2> DEFINE label == ValidateSubdomainSyntax(raw)
             base == NormalizeHost(BaseDomain)
  <2>1. label \in Seq(LabelSymbols) /\ PublicHost(raw) = label \o (<<".">> \o base)
    BY <1>1, OwnNameParts
  <2>2. base \in Seq(KeySymbols)
    BY NormalizeHostSymbols, TextAssumption
  <2> HIDE DEF label, base
  <2>3. LabelSymbols \subseteq KeySymbols /\ "." \in KeySymbols
    BY DEF LabelSymbols, KeySymbols, Alphabet, Lower, Digits, NonAscii
  <2>4. label \in Seq(KeySymbols)
    BY <2>1, <2>3
  <2>5. <<".">> \o base \in Seq(KeySymbols)
    BY <2>2, <2>3
  <2> QED
    BY <2>1, <2>4, <2>5
<1>2. CASE PublicHost(raw) = <<>>
  BY <1>2
<1> QED
  BY <1>1, <1>2

\* However a name is written, it is text.
LEMMA SpellingsText ==
    ASSUME NEW k \in Seq(Alphabet), NEW h \in Spellings(k)
    PROVE  h \in Seq(Alphabet)
<1>1. PICK before \in Leading, w \in EitherCase(k), dot \in RootDots, port \in Ports,
           after \in Trailing : h = Spelling(before, w, dot, port, after)
  BY DEF Spellings
<1>2. before \in Seq(Alphabet) /\ after \in Seq(Alphabet)
  <2>1. " " \in Alphabet /\ Tab \in Alphabet
    BY DEF Alphabet, Blanks
  <2>2. <<>> \in Seq(Alphabet) /\ \A c \in Alphabet : <<c>> \in Seq(Alphabet)
    OBVIOUS
  <2> QED
    BY <2>1, <2>2 DEF Leading, Trailing
<1>3. w \in Seq(Alphabet)
  <2>1. PICK upper \in SUBSET Positions(k, {"n"}) :
           w = [i \in DOMAIN k |-> IF i \in upper THEN "N" ELSE k[i]]
    BY DEF EitherCase
  <2>2. /\ DOMAIN k = 1 .. Len(k) /\ Len(k) \in Nat
        /\ \A i \in 1 .. Len(k) : k[i] \in Alphabet
    OBVIOUS
  <2> QED
    BY <2>1, <2>2, Symbols
<1>4. dot \in Seq(Alphabet) /\ port \in Seq(Alphabet)
  BY DotSymbols, PortSymbols
<1>5. Spelling(before, w, dot, port, after) \in Seq(Alphabet)
  BY <1>2, <1>3, <1>4 DEF Spelling
<1> QED
  BY <1>1, <1>5

\* Every step keeps TypeOK.
LEMMA TypeNext == TypeOK /\ [Next]_vars => TypeOK'
<1> SUFFICES ASSUME TypeOK, [Next]_vars PROVE TypeOK'
  OBVIOUS
<1>1. CASE UNCHANGED vars
  BY <1>1 DEF TypeOK, vars
<1>2. ASSUME NEW c \in Alphabet, Type(c) PROVE TypeOK'
  <2>1. text' \in Seq(Alphabet) /\ Len(text') = Len(text) + 1 /\ Len(text) < MaxLen
    BY <1>2 DEF Type, TypeOK
  <2>2. Len(text') <= MaxLen
    BY <2>1, BoundAssumption DEF TypeOK
  <2> QED
    BY <1>2, <2>1, <2>2 DEF Type, TypeOK
<1>3. ASSUME NEW kind \in {"subdomain", "custom", "random", "tcp"}, NEW k, Registered(kind, k),
             IF kind = "tcp" THEN k \in {Err} \cup {TcpKey(port) : port \in RemotePorts}
                             ELSE k \in Seq(KeySymbols)
      PROVE  TypeOK'
  <2>1. /\ principal' = principal /\ text' = <<>> /\ ask' = kind /\ key' = k /\ host' = host
    BY <1>3 DEF Registered
  <2>2. text' \in Seq(Alphabet) /\ Len(text') <= MaxLen
    BY <2>1, BoundAssumption
  <2> QED
    BY <1>3, <2>1, <2>2 DEF TypeOK
<1>4. text \in Seq(Alphabet) /\ Err \in Seq(KeySymbols)
  BY DEF TypeOK, Err
<1>5. CASE OpenSubdomain
  <2> DEFINE label == ValidateSubdomainSyntax(text)
  <2>1. PublicHost(label) \in Seq(KeySymbols)
    BY <1>4, LabelText, PublicHostSymbols
  <2>2. PICK k \in {PublicHost(label), Err} : Registered("subdomain", k)
    BY <1>5 DEF OpenSubdomain
  <2> QED
    BY <1>3, <1>4, <2>1, <2>2
<1>6. CASE OpenCustomDomain
  <2>1. NormalizeHost(text) \in Seq(KeySymbols)
    BY <1>4, NormalizeHostSymbols
  <2>2. PICK k \in {NormalizeHost(text), Err} : Registered("custom", k)
    BY <1>6 DEF OpenCustomDomain
  <2> QED
    BY <1>3, <1>4, <2>1, <2>2
<1>7. CASE OpenRandom
  <2>1. PICK label \in RandomSubdomains : Registered("random", PublicHost(label))
    BY <1>7 DEF OpenRandom
  <2>2. label \in Seq(Alphabet)
    BY RandomText
  <2>3. PublicHost(label) \in Seq(KeySymbols)
    BY <2>2, PublicHostSymbols
  <2> QED
    BY <1>3, <2>1, <2>3
<1>8. CASE OpenTcp
  <2>1. PICK port \in RemotePorts :
           Registered("tcp", IF port \in 1 .. MaxPort THEN TcpKey(port) ELSE Err)
    BY <1>8 DEF OpenTcp
  <2> DEFINE k == IF port \in 1 .. MaxPort THEN TcpKey(port) ELSE Err
  <2>2. k \in {Err} \cup {TcpKey(p) : p \in RemotePorts}
    OBVIOUS
  <2> HIDE DEF k
  <2> QED
    BY <1>3, <2>1, <2>2 DEF k
<1>9. CASE Visit
  <2>1. ask # "tcp" /\ host' \in Spellings(key) /\ UNCHANGED <<principal, text, ask, key>>
    BY <1>9 DEF Visit
  <2>2. KeySymbols \subseteq Alphabet
    BY DEF KeySymbols
  <2>3. key \in Seq(Alphabet)
    BY <2>1, <2>2 DEF TypeOK
  <2>4. host' \in Seq(Alphabet)
    BY <2>1, <2>3, SpellingsText
  <2> QED
    BY <2>1, <2>4 DEF TypeOK
<1> QED
  BY <1>1, <1>2, <1>5, <1>6, <1>7, <1>8, <1>9 DEF Next

\* Keys of HTTP tunnels are lower-case ASCII text, whatever was asked for
\* (normalize_host, public_host), and everything else is text.
THEOREM TypeCorrect == Spec => []TypeOK
<1>1. Init => TypeOK
  BY BoundAssumption DEF Init, TypeOK, Err
<1> QED
  BY <1>1, TypeNext, PTL DEF Spec

-----------------------------------------------------------------------------
(* Custom domains beside the edge's own names *)

\* Keys are given out by register_tunnel.
KeysGiven == ask = "none" => key = Err

\* KeysGiven holds at all times.
LEMMA KeysGivenInvariant == Spec => []KeysGiven
<1>1. Init => KeysGiven
  BY DEF Init, KeysGiven
<1>2. KeysGiven /\ [Next]_vars => KeysGiven'
  <2> SUFFICES ASSUME KeysGiven, [Next]_vars PROVE KeysGiven'
    OBVIOUS
  <2>1. ASSUME ask' = ask, key' = key PROVE KeysGiven'
    BY <2>1 DEF KeysGiven
  <2>2. ASSUME NEW kind \in {"subdomain", "random", "tcp", "custom"}, NEW k, Registered(kind, k)
        PROVE  KeysGiven'
    BY <2>2 DEF Registered, KeysGiven
  <2>3. CASE UNCHANGED vars
    BY <2>1, <2>3 DEF vars
  <2>4. ASSUME NEW c \in Alphabet, Type(c) PROVE KeysGiven'
    BY <2>1, <2>4 DEF Type
  <2>5. CASE OpenCustomDomain
    BY <2>2, <2>5 DEF OpenCustomDomain
  <2>6. CASE OpenSubdomain
    BY <2>2, <2>6 DEF OpenSubdomain
  <2>7. CASE OpenRandom
    BY <2>2, <2>7 DEF OpenRandom
  <2>8. CASE OpenTcp
    BY <2>2, <2>8 DEF OpenTcp
  <2>9. CASE Visit
    BY <2>1, <2>9 DEF Visit
  <2> QED
    BY <2>3, <2>4, <2>5, <2>6, <2>7, <2>8, <2>9 DEF Next
<1> QED
  BY <1>1, <1>2, PTL DEF Spec

\* The name of a reserved label: the label, a dot and the base domain.
LEMMA ReservedName ==
    ASSUME NEW r \in Reserved, PublicHost(r) # <<>>
    PROVE  /\ r \in Seq(LabelSymbols) /\ r # <<>> /\ NormalizeHost(BaseDomain) \in Seq(Alphabet)
           /\ PublicHost(r) = r \o (<<".">> \o NormalizeHost(BaseDomain))
<1>1. r \in Seq(LabelSymbols)
  BY ReservedAssumption
<1>2. r \in Seq(Alphabet)
  <2>1. LabelSymbols \subseteq Alphabet
    BY Symbols DEF PlainSymbols
  <2> QED
    BY <1>1, <2>1
<1>3. ValidateSubdomainSyntax(r) = r
  BY <1>1, <1>2, LabelOrNone, OwnNameParts
<1> QED
  BY <1>1, <1>2, <1>3, OwnNameParts

\* No name of the edge's own is the key of a TCP tunnel: its second symbol is part of
\* the label or the dot after it.
LEMMA TcpKeyNoName ==
    ASSUME NEW label \in Seq(LabelSymbols), label # <<>>, NEW base \in Seq(Alphabet), NEW port
    PROVE  label \o (<<".">> \o base) # TcpKey(port)
<1> DEFINE t == <<".">> \o base
           m == Len(label)
<1>1. t \in Seq(Alphabet) /\ Len(t) >= 1 /\ t[1] = "."
  BY Symbols
<1>2. label \in Seq(Alphabet) /\ Len(label) \in Nat /\ Len(label) >= 1
  <2>1. LabelSymbols \subseteq Alphabet
    BY Symbols DEF PlainSymbols
  <2> QED
    BY <2>1
<1>3. ":" \notin LabelSymbols /\ ":" # "."
  BY DEF LabelSymbols, Lower, Digits
<1> HIDE DEF t
<1>4. (label \o t)[2] # ":"
  <2>1. /\ \A i \in 1 .. m : (label \o t)[i] = label[i] /\ label[i] \in LabelSymbols
        /\ \A i \in 1 .. Len(t) : (label \o t)[m + i] = t[i]
        /\ 1 \in 1 .. Len(t)
    BY <1>1, <1>2
  <2>2. m \in Nat /\ m >= 1
    BY <1>2
  <2> HIDE DEF m
  <2>3. CASE m >= 2
    <3>1. 2 \in 1 .. m
      BY <2>2, <2>3
    <3> QED
      BY <1>3, <2>1, <3>1
  <2>4. CASE m = 1
    <3>1. (label \o t)[m + 1] = t[1] /\ m + 1 = 2
      BY <2>1, <2>4
    <3> QED
      BY <1>1, <1>3, <3>1
  <2>5. m = 1 \/ m >= 2
    BY <2>2
  <2> QED
    BY <2>3, <2>4, <2>5, Zenon
<1>5. TcpKey(port)[2] = ":"
  BY DEF TcpKey
<1> QED
  BY <1>4, <1>5 DEF t

\* The end of a text in two parts, from a place in the second part on.
LEMMA EndOfSecond ==
    ASSUME NEW a \in Seq(Alphabet), NEW t \in Seq(Alphabet), NEW j \in 1 .. Len(t)
    PROVE  /\ (a \o t)[Len(a) + j] = t[j]
           /\ SubSeq(a \o t, Len(a) + j, Len(a \o t)) = SubSeq(t, j, Len(t))
<1> DEFINE k == a \o t
           m == Len(a)
           n == Len(t)
<1>1. /\ m \in Nat /\ n \in Nat /\ k \in Seq(Alphabet) /\ Len(k) = m + n
      /\ \A i \in 1 .. n : k[m + i] = t[i]
  OBVIOUS
<1>2. t \in Seq(Alphabet) /\ Len(t) = n /\ j \in 1 .. n
  OBVIOUS
<1> HIDE DEF k, m, n
<1> DEFINE u == SubSeq(k, m + j, m + n)
           v == SubSeq(t, j, n)
<1>3. /\ u \in Seq(Alphabet) /\ Len(u) = n - j + 1
      /\ v \in Seq(Alphabet) /\ Len(v) = n - j + 1
  BY <1>1, <1>2
<1>4. ASSUME NEW i \in 1 .. n - j + 1 PROVE u[i] = v[i]
  <2>1. u[i] = k[(m + j) + i - 1]
    BY <1>1, <1>2
  <2>2. v[i] = t[j + i - 1]
    BY <1>1, <1>2
  <2>3. j + i - 1 \in 1 .. n /\ (m + j) + i - 1 = m + (j + i - 1)
    BY <1>1, <1>2
  <2> QED
    BY <1>1, <2>1, <2>2, <2>3
<1> HIDE DEF u, v
<1>5. u = v
  BY <1>3, <1>4, SameText
<1> QED
  BY <1>1, <1>2, <1>5 DEF k, m, n, u, v

\* A grant that covers a child of the base domain is for that name, or a wildcard that
\* begins in the base domain or with the dot before it: a label has no dot.
LEMMA GrantReaches ==
    ASSUME NEW label \in Seq(LabelSymbols), NormalizeHost(BaseDomain) \in Seq(Alphabet),
           NEW k, k = label \o (<<".">> \o NormalizeHost(BaseDomain)), NEW g,
           \/ ToLower(g) = k
           \/ \E i \in 2 .. Len(k) : k[i] = "." /\ <<"*">> \o SubSeq(k, i, Len(k)) = g
    PROVE  ReachesBelow(g, k)
<1> DEFINE t == <<".">> \o NormalizeHost(BaseDomain)
           m == Len(label)
<1>1. CASE ToLower(g) = k
  BY <1>1 DEF ReachesBelow
<1>2. ASSUME NEW i \in 2 .. Len(k), k[i] = ".", <<"*">> \o SubSeq(k, i, Len(k)) = g
      PROVE  ReachesBelow(g, k)
  <2>1. "." \notin LabelSymbols /\ LabelSymbols \subseteq Alphabet
    BY Symbols DEF PlainSymbols, LabelSymbols, Lower, Digits
  <2>2. label \in Seq(Alphabet)
    BY <2>1
  <2>3. t \in Seq(Alphabet) /\ DOMAIN t = 1 .. Len(t)
    BY Symbols
  <2>4. k = label \o t
    OBVIOUS
  <2>5. ASSUME NEW j \in DOMAIN t, t[j] = ".", <<"*">> \o SubSeq(t, j, Len(t)) = g
        PROVE  ReachesBelow(g, k)
    BY <2>5 DEF ReachesBelow
  <2> HIDE DEF t
  <2>6. m \in Nat /\ Len(t) \in Nat /\ Len(label \o t) = m + Len(t)
    BY <2>2, <2>3
  <2>7. \A n \in 1 .. m : (label \o t)[n] = label[n]
    BY <2>2, <2>3
  <2>8. \A n \in 1 .. m : label[n] \in LabelSymbols
    OBVIOUS
  <2>9. ~(i \in 1 .. m)
    BY <1>2, <2>1, <2>4, <2>7, <2>8
  <2> DEFINE j == i - m
  <2>10. i \in 2 .. m + Len(t)
    BY <2>4, <2>6
  <2> HIDE DEF m
  <2>11. j \in 1 .. Len(t) /\ m + j = i
    BY <2>6, <2>9, <2>10
  <2> HIDE DEF j
  <2>12. /\ (label \o t)[m + j] = t[j]
         /\ SubSeq(label \o t, m + j, Len(label \o t)) = SubSeq(t, j, Len(t))
    BY <2>2, <2>3, <2>11, EndOfSecond DEF m
  <2>13. t[j] = k[i] /\ SubSeq(k, i, Len(k)) = SubSeq(t, j, Len(t))
    BY <2>4, <2>11, <2>12
  <2> QED
    BY <1>2, <2>3, <2>5, <2>11, <2>13
<1> QED
  BY <1>1, <1>2

\* For any reserved list, base domain and grants: a reserved name is the key of nobody
\* but an account that was granted its label, or one that asked for it as a custom domain
\* and holds a grant at or above it that reaches below the base domain.  No spelling,
\* random label or TCP port leads to it (resolve_http_target, resolve_tcp_target).
THEOREM ReservedNamesGuarded == Spec => []ReservedGuarded
<1> DEFINE Own == ask \in {"subdomain", "random"} => ReservedGuarded
<1>1. TypeOK /\ KeysGiven /\ CustomDomainsGranted /\ Own => ReservedGuarded
  <2> SUFFICES ASSUME TypeOK, KeysGiven, CustomDomainsGranted,
                      ask \notin {"subdomain", "random"}, key # Err,
                      NEW r \in Reserved, key = PublicHost(r)
               PROVE  ask = "custom" /\ \E g \in principal.domains : ReachesBelow(g, key)
    BY DEF ReservedGuarded
  <2> DEFINE base == NormalizeHost(BaseDomain)
  <2>1. /\ r \in Seq(LabelSymbols) /\ r # <<>> /\ base \in Seq(Alphabet)
        /\ key = r \o (<<".">> \o base)
    BY ReservedName DEF Err
  <2>2. ask = "tcp" \/ ask = "custom"
    BY DEF TypeOK, KeysGiven
  <2>3. ask # "tcp"
    <3> SUFFICES ASSUME ask = "tcp" PROVE FALSE
      OBVIOUS
    <3>1. PICK port \in RemotePorts : key = TcpKey(port)
      BY DEF TypeOK
    <3> HIDE DEF base
    <3> QED
      BY <2>1, <3>1, TcpKeyNoName
  <2>4. PICK g \in principal.domains :
           \/ ToLower(g) = key
           \/ \E i \in 2 .. Len(key) :
                 key[i] = "." /\ <<"*">> \o SubSeq(key, i, Len(key)) = g
    BY <2>2, <2>3 DEF CustomDomainsGranted
  <2>5. ReachesBelow(g, key)
    BY <2>1, <2>4, GrantReaches
  <2> QED
    BY <2>2, <2>3, <2>5
<1>2. Spec => []Own
  BY ReservedNamesKept
<1> HIDE DEF Own
<1> QED
  BY <1>1, <1>2, TypeCorrect, KeysGivenInvariant, CustomDomainsChecked, PTL

\* What subdomain_of finds in a plain name is a label, and the name is made from it.
LEMMA SubdomainParts ==
    ASSUME NEW k, HostName(k), PlainName(k), SubdomainOf(k) # <<>>
    PROVE  /\ SubdomainOf(k) \in Seq(LabelSymbols)
           /\ k = SubdomainOf(k) \o (<<".">> \o NormalizeHost(BaseDomain))
<1> DEFINE t == <<".">> \o NormalizeHost(BaseDomain)
           front == StripSuffix(k, t)
           n == Len(k) - Len(t)
<1>1. k \in Seq(Alphabet) /\ NormalizeHost(k) = k
  BY PlainKept DEF HostName
<1>2. t \in Seq(Alphabet)
  <2>1. NormalizeHost(BaseDomain) \in Seq(Alphabet)
    BY NormalizeHostFront, TextAssumption
  <2> QED
    BY <2>1, Symbols
<1>3. SubdomainOf(k) = front /\ front # <<>> /\ ~Contains(front, ".")
  BY <1>1 DEF SubdomainOf, Err
<1> HIDE DEF t, n
<1>4. /\ n \in 1 .. Len(k) /\ Len(front) = n
      /\ \A i \in 1 .. n : front[i] = k[i]
      /\ \A i \in 1 .. Len(t) : t[i] = k[n + i]
  BY <1>1, <1>2, <1>3, StripSuffixParts DEF n
<1>5. front = SubSeq(k, 1, n)
  BY <1>3 DEF StripSuffix, n
<1> HIDE DEF front
<1>6. front \in Seq(Alphabet) /\ n \in Nat /\ Len(t) \in Nat /\ Len(k) = n + Len(t)
  BY <1>1, <1>2, <1>4, <1>5 DEF n
<1>7. front \in Seq(LabelSymbols)
  <2>1. ASSUME NEW i \in 1 .. n PROVE front[i] \in LabelSymbols
    <3>1. front[i] \in PlainSymbols
      BY <1>1, <1>4 DEF PlainName, All
    <3>2. front[i] # "."
      BY <1>3, <1>4 DEF Contains
    <3> QED
      BY <3>1, <3>2 DEF PlainSymbols
  <2> QED
    BY <1>4, <1>6, <2>1
<1>8. k = front \o t
  <2> DEFINE w == front \o t
  <2>1. /\ w \in Seq(Alphabet) /\ Len(w) = n + Len(t)
        /\ \A i \in 1 .. n : w[i] = front[i]
        /\ \A i \in 1 .. Len(t) : w[n + i] = t[i]
    BY <1>2, <1>4, <1>6
  <2> HIDE DEF w
  <2>2. ASSUME NEW i \in 1 .. Len(k) PROVE w[i] = k[i]
    <3>1. CASE i <= n
      BY <1>4, <1>6, <2>1, <3>1
    <3>2. CASE i > n
      <4>1. i - n \in 1 .. Len(t) /\ n + (i - n) = i
        BY <1>6, <3>2
      <4>2. w[n + (i - n)] = t[i - n] /\ t[i - n] = k[n + (i - n)]
        BY <1>4, <2>1, <4>1
      <4> QED
        BY <4>1, <4>2
    <3> QED
      BY <1>6, <3>1, <3>2
  <2>3. w = k
    BY <1>1, <1>6, <2>1, <2>2, SameText
  <2> QED
    BY <2>3 DEF w
<1> QED
  BY <1>3, <1>7, <1>8 DEF t

\* On an edge with a plain base domain subdomain_of finds the label in every name of the
\* edge's own, and in a plain custom domain it finds one only for an account with a grant
\* that reaches below the base domain, whatever the account asked for.
THEOREM PlainNamesToldApart ==
    ASSUME PlainName(NormalizeHost(BaseDomain))
    PROVE  Spec => [](PlainName(key) => NamesToldApart)
<1> DEFINE Own == ask \in {"subdomain", "random"} => NamesToldApart
<1>1. CustomDomainsGranted /\ Registrable /\ Own => (PlainName(key) => NamesToldApart)
  <2> SUFFICES ASSUME CustomDomainsGranted, Registrable, ask = "custom", key # Err,
                      PlainName(key), SubdomainOf(key) # Err
               PROVE  \E g \in principal.domains : ReachesBelow(g, key)
    BY DEF NamesToldApart
  <2>1. HostName(key)
    BY DEF Registrable, HttpKinds
  <2>2. /\ SubdomainOf(key) \in Seq(LabelSymbols)
        /\ key = SubdomainOf(key) \o (<<".">> \o NormalizeHost(BaseDomain))
    BY <2>1, SubdomainParts DEF Err
  <2>3. NormalizeHost(BaseDomain) \in Seq(Alphabet)
    BY NormalizeHostFront, TextAssumption
  <2>4. PICK g \in principal.domains :
           \/ ToLower(g) = key
           \/ \E i \in 2 .. Len(key) :
                 key[i] = "." /\ <<"*">> \o SubSeq(key, i, Len(key)) = g
    BY DEF CustomDomainsGranted
  <2>5. ReachesBelow(g, key)
    BY <2>2, <2>3, <2>4, GrantReaches
  <2> QED
    BY <2>5
<1>2. Spec => []Own
  BY OwnNamesRecognised
<1> HIDE DEF Own
<1> QED
  BY <1>1, <1>2, CustomDomainsChecked, RegistrableInvariant, PTL

-----------------------------------------------------------------------------
(* Records *)

\* Text without a tab.
TabFree(a) == \A i \in 1 .. Len(a) : a[i] # Tab

\* The parts of Fields: where the tabs are, the number of the field at a position,
\* and the positions of a field.
Tabs(s) == Positions(s, {Tab})
Before(s, i) == {t \in Tabs(s) : t < i}
FieldAt(s, n) == {i \in DOMAIN s \ Tabs(s) : 1 + Cardinality(Before(s, i)) = n}
Field(s, n) ==
    IF FieldAt(s, n) = {} THEN <<>> ELSE SubSeq(s, Min(FieldAt(s, n)), Max(FieldAt(s, n)))

\* Fields is made of them.
LEMMA FieldsParts ==
    ASSUME NEW s
    PROVE  Fields(s) = [n \in 1 .. Cardinality(Tabs(s)) + 1 |-> Field(s, n)]
  BY DEF Fields, Field, FieldAt, Before, Tabs

\* A set of positions is as large as the same set further on.
LEMMA Shifted ==
    ASSUME NEW n \in Nat, NEW S \in SUBSET (1 .. n), NEW d \in Nat
    PROVE  /\ IsFiniteSet(S) /\ IsFiniteSet({d + x : x \in S})
           /\ Cardinality({d + x : x \in S}) = Cardinality(S)
           /\ Cardinality(S) \in Nat
<1> DEFINE T == {d + x : x \in S}
           f == [x \in S |-> d + x]
<1>1. IsFiniteSet(S)
  <2>1. IsFiniteSet(1 .. n)
    BY FS_Interval
  <2> QED
    BY <2>1, FS_Subset
<1>2. f \in Bijection(S, T)
  <2>1. \A x \in S : x \in Int
    OBVIOUS
  <2>2. \A x, y \in S : f[x] = f[y] => x = y
    BY <2>1
  <2>3. f \in [S -> T] /\ \A t \in T : \E x \in S : f[x] = t
    OBVIOUS
  <2> QED
    BY <2>2, <2>3 DEF Bijection, Injection, Surjection, IsInjective
<1>3. ExistsBijection(S, T)
  BY <1>2 DEF ExistsBijection
<1> HIDE DEF T, f
<1>4. IsFiniteSet(T) /\ Cardinality(T) = Cardinality(S) /\ Cardinality(S) \in Nat
  BY <1>1, <1>3, FS_Bijection, FS_CardinalityType
<1> QED
  BY <1>1, <1>4 DEF T
\* Where the symbols of a field and of what follows it are in the text.
LEMMA ThenText ==
    ASSUME NEW S, Tab \in S, NEW a \in Seq(S), NEW b \in Seq(S)
    PROVE  /\ Then(a, b) \in Seq(S)
           /\ Len(Then(a, b)) = Len(a) + 1 + Len(b)
           /\ \A i \in 1 .. Len(a) : Then(a, b)[i] = a[i]
           /\ Then(a, b)[Len(a) + 1] = Tab
           /\ \A j \in 1 .. Len(b) : Then(a, b)[Len(a) + 1 + j] = b[j]
<1> DEFINE at == a \o <<Tab>>
<1>1. /\ at \in Seq(S) /\ Len(at) = Len(a) + 1
      /\ \A i \in 1 .. Len(a) : at[i] = a[i]
      /\ at[Len(a) + 1] = Tab
  OBVIOUS
<1>2. Then(a, b) = at \o b
  BY DEF Then
<1> HIDE DEF at
<1>3. /\ at \o b \in Seq(S)
      /\ Len(at \o b) = Len(at) + Len(b)
      /\ \A i \in 1 .. Len(at) : (at \o b)[i] = at[i]
      /\ \A j \in 1 .. Len(b) : (at \o b)[Len(at) + j] = b[j]
  BY <1>1
<1> QED
  BY <1>1, <1>2, <1>3

\* The tabs of such a text: the one after the field, and those of the rest.
LEMMA ThenTabs ==
    ASSUME NEW S, Tab \in S, NEW a \in Seq(S), NEW b \in Seq(S), TabFree(a)
    PROVE  Tabs(Then(a, b)) = {Len(a) + 1 + t : t \in Tabs(b)} \cup {Len(a) + 1}
<1> DEFINE s == Then(a, b)
           d == Len(a) + 1
<1>1. /\ s \in Seq(S) /\ Len(s) = d + Len(b)
      /\ \A i \in 1 .. Len(a) : s[i] # Tab
      /\ s[d] = Tab
      /\ \A j \in 1 .. Len(b) : s[d + j] = b[j]
  <2>1. s \in Seq(S) /\ Len(s) = d + Len(b) /\ s[d] = Tab
    BY ThenText
  <2>2. \A i \in 1 .. Len(a) : s[i] = a[i]
    BY ThenText
  <2>3. \A j \in 1 .. Len(b) : s[d + j] = b[j]
    BY ThenText
  <2>4. \A i \in 1 .. Len(a) : a[i] # Tab
    BY DEF TabFree
  <2> HIDE DEF s, d
  <2> QED
    BY <2>1, <2>2, <2>3, <2>4
<1>2. /\ Tabs(s) = {i \in 1 .. Len(s) : s[i] = Tab}
      /\ Tabs(b) = {j \in 1 .. Len(b) : b[j] = Tab}
  BY <1>1 DEF Tabs, Positions
<1>3. Len(a) \in Nat /\ Len(b) \in Nat /\ d \in Nat /\ d = Len(a) + 1
  OBVIOUS
<1> HIDE DEF s, d
<1>4. ASSUME NEW i \in Tabs(s) PROVE i \in {d + t : t \in Tabs(b)} \cup {d}
  <2>1. i \in 1 .. d + Len(b) /\ s[i] = Tab /\ i \notin 1 .. Len(a)
    BY <1>1, <1>2
  <2>2. CASE i > d
    <3>1. i - d \in 1 .. Len(b) /\ i = d + (i - d)
      BY <1>3, <2>1, <2>2
    <3>2. i - d \in Tabs(b)
      BY <1>1, <1>2, <2>1, <3>1
    <3> QED
      BY <3>1, <3>2
  <2>3. CASE i = d
    BY <2>3
  <2> QED
    BY <1>3, <2>1, <2>2, <2>3
<1>5. d \in Tabs(s)
  BY <1>1, <1>2, <1>3
<1>6. ASSUME NEW t \in Tabs(b) PROVE d + t \in Tabs(s)
  <2>1. t \in 1 .. Len(b) /\ b[t] = Tab
    BY <1>2
  <2>2. d + t \in 1 .. Len(s)
    BY <1>1, <1>3, <2>1
  <2> QED
    BY <1>1, <1>2, <2>1, <2>2
<1> QED
  BY <1>4, <1>5, <1>6 DEF s, d

\* A set of positions counted from further on, with one more in front of it.
LEMMA ShiftedAndOne ==
    ASSUME NEW n \in Nat, NEW S \in SUBSET (1 .. n), NEW d \in Nat
    PROVE  Cardinality({d + x : x \in S} \cup {d}) = Cardinality(S) + 1
<1> DEFINE T == {d + x : x \in S}
<1>1. d \notin T
  OBVIOUS
<1>2. IsFiniteSet(T) /\ Cardinality(T) = Cardinality(S)
  BY Shifted
<1> HIDE DEF T
<1>3. Cardinality(T \cup {d}) = Cardinality(T) + 1
  BY <1>1, <1>2, FS_AddElement
<1> QED
  BY <1>2, <1>3 DEF T

\* The first field ends at the first tab; the others are those of the rest.
LEMMA ThenFieldAt ==
    ASSUME NEW S, Tab \in S, NEW a \in Seq(S), NEW b \in Seq(S), TabFree(a)
    PROVE  /\ FieldAt(Then(a, b), 1) = 1 .. Len(a)
           /\ \A n \in Nat \ {0} :
                 FieldAt(Then(a, b), n + 1) = {Len(a) + 1 + j : j \in FieldAt(b, n)}
<1> DEFINE s == Then(a, b)
           d == Len(a) + 1
<1>1. s \in Seq(S) /\ Len(s) = d + Len(b)
  BY ThenText
<1>2. Tabs(s) = {d + t : t \in Tabs(b)} \cup {d}
  BY ThenTabs
<1>3. Tabs(b) \in SUBSET (1 .. Len(b))
  BY DEF Tabs, Positions
<1>4. Len(a) \in Nat /\ Len(b) \in Nat /\ d \in Nat /\ d = Len(a) + 1
  OBVIOUS
<1>5. DOMAIN s = 1 .. d + Len(b) /\ DOMAIN b = 1 .. Len(b)
  BY <1>1
<1> HIDE DEF s, d
<1>6. ASSUME NEW i \in 1 .. Len(a)
      PROVE  i \notin Tabs(s) /\ Cardinality(Before(s, i)) = 0
  <2>1. \A t \in Tabs(s) : t \in Int /\ t >= d
    BY <1>2, <1>3, <1>4
  <2>2. Before(s, i) = {} /\ i \notin Tabs(s)
    BY <1>4, <2>1 DEF Before
  <2> QED
    BY <2>2, FS_EmptySet
<1>7. ASSUME NEW j \in 1 .. Len(b)
      PROVE  /\ d + j \in Tabs(s) <=> j \in Tabs(b)
             /\ Cardinality(Before(s, d + j)) = Cardinality(Before(b, j)) + 1
             /\ Cardinality(Before(b, j)) \in Nat
  <2>1. d + j \in Tabs(s) <=> j \in Tabs(b)
    BY <1>2, <1>3, <1>4
  <2>2. Before(b, j) \in SUBSET (1 .. Len(b))
    BY <1>3 DEF Before
  <2>3. Before(s, d + j) = {d + t : t \in Before(b, j)} \cup {d}
    BY <1>2, <1>3, <1>4 DEF Before
  <2>4. Cardinality({d + t : t \in Before(b, j)} \cup {d}) = Cardinality(Before(b, j)) + 1
    BY <1>4, <2>2, ShiftedAndOne
  <2>5. Cardinality(Before(b, j)) \in Nat
    BY <1>4, <2>2, Shifted
  <2> QED
    BY <2>1, <2>3, <2>4, <2>5
<1>8. FieldAt(s, 1) = 1 .. Len(a)
  <2>1. ASSUME NEW i \in 1 .. Len(a) PROVE i \in FieldAt(s, 1)
    BY <1>4, <1>5, <1>6 DEF FieldAt
  <2>2. ASSUME NEW i \in FieldAt(s, 1) PROVE i \in 1 .. Len(a)
    <3>1. i \in 1 .. d + Len(b) /\ i \notin Tabs(s) /\ 1 + Cardinality(Before(s, i)) = 1
      BY <1>5 DEF FieldAt
    <3>2. i # d
      BY <1>2, <3>1
    <3>3. CASE i > d
      <4>1. i - d \in 1 .. Len(b) /\ d + (i - d) = i
        BY <1>4, <3>1, <3>3
      <4>2. /\ Cardinality(Before(s, i)) = Cardinality(Before(b, i - d)) + 1
            /\ Cardinality(Before(b, i - d)) \in Nat
        BY <1>7, <4>1
      <4> QED
        BY <3>1, <4>2
    <3> QED
      BY <1>4, <3>1, <3>2, <3>3
  <2> QED
    BY <2>1, <2>2
<1>9. ASSUME NEW n \in Nat \ {0}
      PROVE  FieldAt(s, n + 1) = {d + j : j \in FieldAt(b, n)}
  <2>1. ASSUME NEW j \in FieldAt(b, n) PROVE d + j \in FieldAt(s, n + 1)
    <3>1. j \in 1 .. Len(b) /\ j \notin Tabs(b) /\ 1 + Cardinality(Before(b, j)) = n
      BY <1>5 DEF FieldAt
    <3>2. d + j \in 1 .. d + Len(b)
      BY <1>4, <3>1
    <3>3. d + j \notin Tabs(s) /\ 1 + Cardinality(Before(s, d + j)) = n + 1
      BY <1>7, <3>1
    <3> QED
      BY <1>5, <3>2, <3>3 DEF FieldAt
  <2>2. ASSUME NEW i \in FieldAt(s, n + 1) PROVE i \in {d + j : j \in FieldAt(b, n)}
    <3>1. /\ i \in 1 .. d + Len(b) /\ i \notin Tabs(s)
          /\ 1 + Cardinality(Before(s, i)) = n + 1
      BY <1>5 DEF FieldAt
    <3>2. i # d
      BY <1>2, <3>1
    <3>3. ~(i \in 1 .. Len(a))
      BY <1>6, <3>1
    <3>4. i - d \in 1 .. Len(b) /\ d + (i - d) = i
      BY <1>4, <3>1, <3>2, <3>3
    <3>5. /\ i - d \notin Tabs(b)
          /\ Cardinality(Before(s, i)) = Cardinality(Before(b, i - d)) + 1
          /\ Cardinality(Before(b, i - d)) \in Nat
      BY <1>7, <3>1, <3>4
    <3>6. 1 + Cardinality(Before(b, i - d)) = n
      BY <3>1, <3>5
    <3>7. i - d \in FieldAt(b, n)
      BY <1>5, <3>4, <3>5, <3>6 DEF FieldAt
    <3> QED
      BY <3>4, <3>7
  <2> QED
    BY <2>1, <2>2
<1> QED
  BY <1>8, <1>9 DEF s, d

\* The fields of such a text: the first one, and those of the rest.
LEMMA ThenFields ==
    ASSUME NEW S, Tab \in S, NEW a \in Seq(S), NEW b \in Seq(S), TabFree(a)
    PROVE  /\ Cardinality(Tabs(Then(a, b))) = Cardinality(Tabs(b)) + 1
           /\ Field(Then(a, b), 1) = a /\ Then(a, b) \in Seq(S)
           /\ \A n \in Nat \ {0} : Field(Then(a, b), n + 1) = Field(b, n)
<1> DEFINE s == Then(a, b)
           d == Len(a) + 1
<1>1. /\ s \in Seq(S) /\ Len(s) = d + Len(b)
      /\ \A i \in 1 .. Len(a) : s[i] = a[i]
      /\ \A j \in 1 .. Len(b) : s[d + j] = b[j]
  <2>1. s \in Seq(S) /\ Len(s) = d + Len(b) /\ s[d] = Tab
    BY ThenText
  <2>2. \A i \in 1 .. Len(a) : s[i] = a[i]
    BY ThenText
  <2>3. \A j \in 1 .. Len(b) : s[d + j] = b[j]
    BY ThenText
  <2> HIDE DEF s, d
  <2> QED
    BY <2>1, <2>2, <2>3
<1>2. /\ FieldAt(s, 1) = 1 .. Len(a)
      /\ \A n \in Nat \ {0} : FieldAt(s, n + 1) = {d + j : j \in FieldAt(b, n)}
  BY ThenFieldAt
<1>3. Tabs(b) \in SUBSET (1 .. Len(b)) /\ \A n : FieldAt(b, n) \in SUBSET (1 .. Len(b))
  BY DEF Tabs, Positions, FieldAt
<1>4. Len(a) \in Nat /\ Len(b) \in Nat /\ d \in Nat /\ d = Len(a) + 1
  OBVIOUS
<1>5. Cardinality(Tabs(s)) = Cardinality(Tabs(b)) + 1
  <2>1. Tabs(s) = {d + t : t \in Tabs(b)} \cup {d}
    BY ThenTabs
  <2> HIDE DEF s, d
  <2>2. Cardinality({d + t : t \in Tabs(b)} \cup {d}) = Cardinality(Tabs(b)) + 1
    BY <1>3, <1>4, ShiftedAndOne
  <2> QED
    BY <2>1, <2>2
<1> HIDE DEF s, d
<1>6. Field(s, 1) = a
  <2>1. CASE Len(a) = 0
    <3>1. FieldAt(s, 1) = {}
      BY <1>2, <2>1
    <3> QED
      BY <2>1, <3>1 DEF Field
  <2>2. CASE Len(a) > 0
    <3>1. 1 \in 1 .. Len(a) /\ Len(a) \in 1 .. Len(a)
      BY <1>4, <2>2
    <3>2. Min(1 .. Len(a)) = 1
      BY <3>1, MinIs
    <3>3. Max(1 .. Len(a)) = Len(a)
      <4>1. 1 .. Len(a) \in SUBSET (0 .. Len(a)) /\ \A x \in 1 .. Len(a) : Len(a) >= x
        BY <1>4
      <4> QED
        BY <1>4, <3>1, <4>1, MaxIs
    <3>4. Field(s, 1) = SubSeq(s, 1, Len(a))
      BY <1>2, <3>1, <3>2, <3>3 DEF Field
    <3>5. SubSeq(s, 1, Len(a)) = a
      BY <1>1, <1>4
    <3> QED
      BY <3>4, <3>5
  <2> QED
    BY <1>4, <2>1, <2>2
<1>7. ASSUME NEW n \in Nat \ {0} PROVE Field(s, n + 1) = Field(b, n)
  <2> DEFINE F == FieldAt(b, n)
             G == FieldAt(s, n + 1)
  <2>1. G = {d + j : j \in F} /\ F \in SUBSET (1 .. Len(b))
    BY <1>2, <1>3
  <2>2. /\ Field(s, n + 1) = IF G = {} THEN <<>> ELSE SubSeq(s, Min(G), Max(G))
        /\ Field(b, n) = IF F = {} THEN <<>> ELSE SubSeq(b, Min(F), Max(F))
    BY DEF Field
  <2> HIDE DEF F, G
  <2>3. CASE F = {}
    BY <2>1, <2>2, <2>3
  <2>4. CASE F # {}
    <3> DEFINE lo == Min(F)
               hi == Max(F)
    <3>1. /\ lo \in F /\ \A x \in F : lo <= x
          /\ hi \in F /\ \A x \in F : hi >= x
      <4>1. F \in SUBSET Nat /\ F \in SUBSET (0 .. Len(b))
        BY <1>4, <2>1
      <4> QED
        BY <1>4, <2>4, <4>1, MinExists, MaxExists
    <3> HIDE DEF lo, hi
    <3>2. lo \in 1 .. Len(b) /\ hi \in 1 .. Len(b) /\ lo <= hi
      BY <2>1, <3>1
    <3>3. /\ G \in SUBSET Nat /\ G \in SUBSET (0 .. d + Len(b))
          /\ d + lo \in G /\ d + hi \in G
          /\ \A x \in G : d + lo <= x
          /\ \A x \in G : d + hi >= x
      <4>1. \A x \in G : \E j \in F : x = d + j
        BY <2>1
      <4>2. \A j \in F : j \in 1 .. Len(b) /\ lo <= j /\ hi >= j
        BY <2>1, <3>1
      <4>3. d + lo \in G /\ d + hi \in G
        BY <2>1, <3>1
      <4>4. ASSUME NEW x \in G
            PROVE  x \in Nat /\ x \in 0 .. d + Len(b) /\ d + lo <= x /\ d + hi >= x
        <5>1. PICK j \in F : x = d + j
          BY <4>1
        <5>2. j \in 1 .. Len(b) /\ lo <= j /\ hi >= j
          BY <4>2
        <5> QED
          BY <1>4, <3>2, <5>1, <5>2
      <4> QED
        BY <4>3, <4>4
    <3>4. Min(G) = d + lo
      BY <3>3, MinIs
    <3>5. Max(G) = d + hi
      <4>1. d + Len(b) \in Nat
        BY <1>4
      <4> QED
        BY <3>3, <4>1, MaxIs
    <3>6. SubSeq(s, d + lo, d + hi) = SubSeq(b, lo, hi)
      <4>1. /\ SubSeq(s, d + lo, d + hi) \in Seq(S) /\ SubSeq(b, lo, hi) \in Seq(S)
            /\ Len(SubSeq(s, d + lo, d + hi)) = hi - lo + 1
            /\ Len(SubSeq(b, lo, hi)) = hi - lo + 1
        BY <1>1, <1>4, <3>2
      <4>2. ASSUME NEW i \in 1 .. hi - lo + 1
            PROVE  SubSeq(s, d + lo, d + hi)[i] = SubSeq(b, lo, hi)[i]
        <5>1. SubSeq(s, d + lo, d + hi)[i] = s[d + lo + i - 1]
          BY <1>1, <1>4, <3>2
        <5>2. SubSeq(b, lo, hi)[i] = b[lo + i - 1]
          BY <1>1, <1>4, <3>2
        <5>3. lo + i - 1 \in 1 .. Len(b) /\ d + lo + i - 1 = d + (lo + i - 1)
          BY <1>4, <3>2
        <5> QED
          BY <1>1, <5>1, <5>2, <5>3
      <4> DEFINE left == SubSeq(s, d + lo, d + hi)
                 right == SubSeq(b, lo, hi)
      <4> HIDE DEF left, right
      <4>3. left \in Seq(S) /\ right \in Seq(S) /\ Len(left) = Len(right)
        BY <4>1 DEF left, right
      <4>4. \A i \in 1 .. Len(left) : left[i] = right[i]
        BY <4>1, <4>2 DEF left, right
      <4>5. left = right
        BY <4>3, <4>4
      <4> QED
        BY <4>5 DEF left, right
    <3>7. G # {}
      BY <3>3
    <3> QED
      BY <2>2, <2>4, <3>4, <3>5, <3>6, <3>7 DEF lo, hi
  <2> QED
    BY <2>3, <2>4
<1> QED
  BY <1>1, <1>5, <1>6, <1>7 DEF s

\* Text without a tab is one field.
LEMMA LastField ==
    ASSUME NEW S, NEW a \in Seq(S), TabFree(a)
    PROVE  Cardinality(Tabs(a)) = 0 /\ Field(a, 1) = a
<1>1. Tabs(a) = {} /\ DOMAIN a = 1 .. Len(a) /\ Len(a) \in Nat
  BY DEF Tabs, Positions, TabFree
<1>2. \A i \in 1 .. Len(a) : Before(a, i) = {}
  BY <1>1 DEF Before
<1>3. Cardinality({}) = 0
  BY FS_EmptySet
<1>4. FieldAt(a, 1) = 1 .. Len(a)
  <2>1. ASSUME NEW i \in 1 .. Len(a) PROVE 1 + Cardinality(Before(a, i)) = 1
    <3>1. Cardinality(Before(a, i)) = 0
      BY <1>2, <1>3
    <3> QED
      BY <3>1
  <2> QED
    BY <1>1, <2>1 DEF FieldAt
<1>5. CASE Len(a) = 0
  BY <1>1, <1>3, <1>4, <1>5 DEF Field
<1>6. CASE Len(a) > 0
  <2>1. 1 \in 1 .. Len(a) /\ Len(a) \in 1 .. Len(a)
    BY <1>1, <1>6
  <2>2. Min(1 .. Len(a)) = 1
    BY <2>1, MinIs
  <2>3. Max(1 .. Len(a)) = Len(a)
    <3>1. 1 .. Len(a) \in SUBSET (0 .. Len(a)) /\ \A x \in 1 .. Len(a) : Len(a) >= x
      BY <1>1
    <3> QED
      BY <1>1, <2>1, <3>1, MaxIs
  <2>4. Field(a, 1) = SubSeq(a, 1, Len(a))
    BY <1>4, <2>1, <2>2, <2>3 DEF Field
  <2> QED
    BY <1>1, <1>3, <2>4
<1> QED
  BY <1>1, <1>5, <1>6

\* The fields of s are x and those of y.
Heads(s, x, y) ==
    /\ Cardinality(Tabs(s)) = Cardinality(Tabs(y)) + 1
    /\ Field(s, 1) = x
    /\ \A n \in Nat \ {0} : Field(s, n + 1) = Field(y, n)

\* Then puts a field in front.
LEMMA ThenHeads ==
    ASSUME NEW S, Tab \in S
    PROVE  \A x, y \in Seq(S) : TabFree(x) => Then(x, y) \in Seq(S) /\ Heads(Then(x, y), x, y)
  BY ThenFields DEF Heads

\* What was written by RouteRecord::encode is read back by decode, field by field and
\* whatever the fields say, as long as none contains a tab; and the pattern of the
\* Lua scripts finds the session in it.
THEOREM RecordsRoundTrip ==
    ASSUME NEW S, Tab \in S,
           NEW a \in Seq(S), NEW b \in Seq(S), NEW c \in Seq(S),
           NEW d \in Seq(S), NEW e \in Seq(S), NEW f \in Seq(S),
           TabFree(a), TabFree(b), TabFree(c), TabFree(d), TabFree(e), TabFree(f)
    PROVE  LET r == <<a, b, c, d, e, f>>
           IN Decode(Encode(r)) = r /\ OwnerOf(Encode(r)) = d
<1> DEFINE s5 == Then(e, f)
           s4 == Then(d, s5)
           s3 == Then(c, s4)
           s2 == Then(b, s3)
           s1 == Then(a, s2)
           r == <<a, b, c, d, e, f>>
<1>2. Encode(r) = s1
  BY DEF Encode
<1>3. Cardinality(Tabs(f)) = 0 /\ Field(f, 1) = f
  BY LastField
<1>t. \A x, y \in Seq(S) : TabFree(x) => Then(x, y) \in Seq(S) /\ Heads(Then(x, y), x, y)
  BY ThenHeads
<1>4. /\ s5 \in Seq(S) /\ Cardinality(Tabs(s5)) = 1
      /\ Field(s5, 1) = e /\ Field(s5, 2) = f
  <2>1. s5 \in Seq(S) /\ Heads(s5, e, f)
    BY <1>t
  <2> HIDE DEF s5
  <2>2. /\ Field(s5, 1 + 1) = Field(f, 1)
    BY <2>1 DEF Heads
  <2> QED
    BY <1>3, <2>1, <2>2 DEF Heads
<1> HIDE DEF s5
<1>5. /\ s4 \in Seq(S) /\ Cardinality(Tabs(s4)) = 2
      /\ Field(s4, 1) = d /\ Field(s4, 2) = e
      /\ Field(s4, 3) = f
  <2>0. s5 \in Seq(S)
    BY <1>4
  <2>1. s4 \in Seq(S) /\ Heads(s4, d, s5)
    BY <1>t, <2>0
  <2> HIDE DEF s4
  <2>2. /\ Field(s4, 1 + 1) = Field(s5, 1) /\ Field(s4, 2 + 1) = Field(s5, 2)
    BY <2>1 DEF Heads
  <2> QED
    BY <1>4, <2>1, <2>2 DEF Heads
<1> HIDE DEF s4
<1>6. /\ s3 \in Seq(S) /\ Cardinality(Tabs(s3)) = 3
      /\ Field(s3, 1) = c /\ Field(s3, 2) = d
      /\ Field(s3, 3) = e /\ Field(s3, 4) = f
  <2>0. s4 \in Seq(S)
    BY <1>5
  <2>1. s3 \in Seq(S) /\ Heads(s3, c, s4)
    BY <1>t, <2>0
  <2> HIDE DEF s3
  <2>2. /\ Field(s3, 1 + 1) = Field(s4, 1) /\ Field(s3, 2 + 1) = Field(s4, 2)
        /\ Field(s3, 3 + 1) = Field(s4, 3)
    BY <2>1 DEF Heads
  <2> QED
    BY <1>5, <2>1, <2>2 DEF Heads
<1> HIDE DEF s3
<1>7. /\ s2 \in Seq(S) /\ Cardinality(Tabs(s2)) = 4
      /\ Field(s2, 1) = b /\ Field(s2, 2) = c
      /\ Field(s2, 3) = d /\ Field(s2, 4) = e
      /\ Field(s2, 5) = f
  <2>0. s3 \in Seq(S)
    BY <1>6
  <2>1. s2 \in Seq(S) /\ Heads(s2, b, s3)
    BY <1>t, <2>0
  <2> HIDE DEF s2
  <2>2. /\ Field(s2, 1 + 1) = Field(s3, 1) /\ Field(s2, 2 + 1) = Field(s3, 2)
        /\ Field(s2, 3 + 1) = Field(s3, 3) /\ Field(s2, 4 + 1) = Field(s3, 4)
    BY <2>1 DEF Heads
  <2> QED
    BY <1>6, <2>1, <2>2 DEF Heads
<1> HIDE DEF s2
<1>8. /\ s1 \in Seq(S) /\ Cardinality(Tabs(s1)) = 5
      /\ Field(s1, 1) = a /\ Field(s1, 2) = b
      /\ Field(s1, 3) = c /\ Field(s1, 4) = d
      /\ Field(s1, 5) = e /\ Field(s1, 6) = f
  <2>0. s2 \in Seq(S)
    BY <1>7
  <2>1. s1 \in Seq(S) /\ Heads(s1, a, s2)
    BY <1>t, <2>0
  <2> HIDE DEF s1
  <2>2. /\ Field(s1, 1 + 1) = Field(s2, 1) /\ Field(s1, 2 + 1) = Field(s2, 2)
        /\ Field(s1, 3 + 1) = Field(s2, 3) /\ Field(s1, 4 + 1) = Field(s2, 4)
        /\ Field(s1, 5 + 1) = Field(s2, 5)
    BY <2>1 DEF Heads
  <2> QED
    BY <1>7, <2>1, <2>2 DEF Heads
<1> HIDE DEF s1
<1>9. \A n \in 1 .. 6 : Field(s1, n) = r[n]
  <2>1. \A n \in 1 .. 6 : n = 1 \/ n = 2 \/ n = 3 \/ n = 4 \/ n = 5 \/ n = 6
    OBVIOUS
  <2> QED
    BY <1>8, <2>1
<1>10. Fields(s1) = r
  <2>1. Cardinality(Tabs(s1)) + 1 = 6
    BY <1>8
  <2>2. Fields(s1) = [n \in 1 .. 6 |-> Field(s1, n)]
    BY <2>1, FieldsParts
  <2>3. r = [n \in 1 .. 6 |-> r[n]]
    OBVIOUS
  <2> QED
    BY <1>9, <2>2, <2>3
<1>11. Len(r) = 6 /\ r[4] = d /\ r \in Seq(Seq(S))
  OBVIOUS
<1> HIDE DEF r
<1>12. SubSeq(r, 1, 6) = r
  BY <1>11
<1>13. Decode(Encode(r)) = r /\ OwnerOf(Encode(r)) = d
  BY <1>2, <1>10, <1>11, <1>12 DEF Decode, OwnerOf
<1> QED
  BY <1>13 DEF r

\* The fields besides the key are texts without tabs.
LEMMA OtherFields ==
    ASSUME NEW S, Alphabet \subseteq S, NEW a \in {NodeId, NodeAddr, SessionId, TunnelId, AccountId}
    PROVE  a \in Seq(S) /\ TabFree(a)
<1>1. {"n", "1", ":", "tcp", "xn"} \subseteq S
  BY DEF Alphabet, Lower, Digits
<1>2. "n" # Tab /\ "1" # Tab /\ ":" # Tab /\ "tcp" # Tab /\ "xn" # Tab
  BY DEF Tab
<1>3. CASE a = NodeId
  BY <1>1, <1>2, <1>3 DEF NodeId, TabFree
<1>4. CASE a = NodeAddr
  BY <1>1, <1>2, <1>4 DEF NodeAddr, TabFree
<1>5. CASE a = SessionId
  BY <1>1, <1>2, <1>5 DEF SessionId, TabFree
<1>6. CASE a = TunnelId
  BY <1>1, <1>2, <1>6 DEF TunnelId, TabFree
<1>7. CASE a = AccountId
  BY <1>1, <1>2, <1>7 DEF AccountId, TabFree
<1> QED
  BY <1>3, <1>4, <1>5, <1>6, <1>7

\* Every routing key is text, of symbols of the alphabet and, for a TCP tunnel, a port.
LEMMA KeyText ==
    ASSUME TypeOK
    PROVE  \E S : Alphabet \subseteq S /\ key \in Seq(S)
<1>1. CASE ask # "tcp"
  <2>1. key \in Seq(KeySymbols) /\ KeySymbols \subseteq Alphabet
    BY <1>1 DEF TypeOK, KeySymbols
  <2>2. key \in Seq(Alphabet)
    BY <2>1
  <2> QED
    BY <2>2
<1>2. CASE ask = "tcp"
  <2>1. key \in {Err} \cup {TcpKey(port) : port \in RemotePorts}
    BY <1>2 DEF TypeOK
  <2>2. CASE key = Err
    <3>1. key \in Seq(Alphabet)
      BY <2>2 DEF Err
    <3> QED
      BY <3>1
  <2>3. CASE key # Err
    <3>1. PICK port \in RemotePorts : key = TcpKey(port)
      BY <2>1, <2>3
    <3> DEFINE S == Alphabet \cup {ToString(port)}
    <3>2. "tcp" \in S /\ ":" \in S /\ ToString(port) \in S
      BY DEF Alphabet, Lower
    <3>3. Alphabet \subseteq S
      OBVIOUS
    <3> HIDE DEF S
    <3>4. key \in Seq(S)
      BY <3>1, <3>2 DEF TcpKey
    <3> QED
      BY <3>3, <3>4
  <2> QED
    BY <2>2, <2>3
<1> QED
  BY <1>1, <1>2

\* The record of every key without a tab survives the table: decode gives back what
\* encode was given, and the scripts of claim, renew and release compare the session
\* of the record, whatever name or port it is for.
THEOREM RecordsSurvive == Spec => []RecordSurvives
<1>1. TypeOK => RecordSurvives
  <2>1. SUFFICES ASSUME TypeOK, ~Contains(key, Tab)
                 PROVE  /\ Decode(Encode(Record(key))) = Record(key)
                        /\ OwnerOf(Encode(Record(key))) = SessionId
    BY <2>1 DEF RecordSurvives
  <2>2. PICK S : Alphabet \subseteq S /\ key \in Seq(S)
    BY <2>1, KeyText
  <2>3. TabFree(key)
    BY <2>1 DEF TabFree, Contains
  <2>4. Tab \in S
    BY <2>2 DEF Alphabet, Blanks
  <2>5. /\ NodeId \in Seq(S) /\ TabFree(NodeId) /\ NodeAddr \in Seq(S) /\ TabFree(NodeAddr)
        /\ SessionId \in Seq(S) /\ TabFree(SessionId)
        /\ TunnelId \in Seq(S) /\ TabFree(TunnelId)
        /\ AccountId \in Seq(S) /\ TabFree(AccountId)
    BY <2>2, OtherFields
  <2> QED
    BY <2>2, <2>3, <2>4, <2>5, RecordsRoundTrip DEF Record
<1> QED
  BY <1>1, TypeCorrect, PTL
=============================================================================
