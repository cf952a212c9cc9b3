------------------------- MODULE TokenStreamsProofs -------------------------
(***************************************************************************)
(* What holds of TokenStreams for any documents, texts and tokens: deltas  *)
(* between any two streams, and answers in any order.                      *)
(***************************************************************************)
EXTENDS TokenStreams, TLAPS, SequenceTheorems, WellFoundedInduction

-----------------------------------------------------------------------------
(* The invariants.                                                         *)

Stream == [id : Nat, tokens : Seq(Token), data : Seq(Nat)]

Whole(h) == h = NoStream \/ (h \in Stream /\ h.data = Data(h.tokens))

Named(d, s) == [doc |-> d, id |-> s.id, tokens |-> s.tokens]

(* The streams that the cache, the client, the requests and the answers    *)
(* know by an id.                                                          *)
Streams ==
    {Named(d, cache[d]) : d \in {e \in Documents : cache[e] # NoStream}}
        \cup {Named(d, held[d]) : d \in {e \in Documents : held[e] # NoStream}}
        \cup {Named(r.doc, r.base) : r \in {q \in requests : q.base # NoStream}}
        \cup {Named(a.doc, a) : a \in answers}
        \cup {Named(a.doc, a.base) : a \in {b \in answers : b.base # NoStream}}

StreamsNamed ==
    /\ Streams \subseteq [doc : Documents, id : 1 .. lastId, tokens : Seq(Token)]
    /\ \A s, t \in Streams : s.id = t.id => s = t

RequestSound(r) == r.number \in 1 .. asked /\ r.doc \in Documents /\ Whole(r.base)

AnswerSound(a) ==
    /\ a.number \in 1 .. asked /\ a.doc \in Documents /\ Whole(a.base)
    /\ a.tokens \in Seq(Token) /\ a.id \in Nat /\ a.delta \in BOOLEAN
    /\ a.delta => /\ a.base # NoStream
                  /\ a.edits = DeltaEdits(a.base.tokens, a.tokens)

Typed ==
    /\ text \in [Documents -> Texts \cup {NoStream}] /\ loaded \in BOOLEAN
    /\ toAsk \subseteq Documents
    /\ asked \in 0 .. MaxRequests /\ applied \in [Documents -> 0 .. asked]
    /\ cache \in [Documents -> [id : Nat, tokens : Seq(Token)] \cup {NoStream}]
    /\ held \in [Documents -> Stream \cup {NoStream}] /\ lastId \in Nat
    /\ edits \in 0 .. MaxEdits /\ restarts \in 0 .. MaxRestarts

TokensInv ==
    /\ Typed /\ StreamsNamed
    /\ \A d \in Documents : Whole(held[d])
    /\ \A r \in requests : RequestSound(r)
    /\ \A a \in answers : AnswerSound(a)

-----------------------------------------------------------------------------
(* Common prefixes.                                                        *)

LEMMA LongestIsCommon ==
    ASSUME NEW S, NEW s \in Seq(S), NEW t \in Seq(S)
    PROVE  /\ LongestCommonPrefix({s, t}) \in CommonPrefixes({s, t})
           /\ \A c \in CommonPrefixes({s, t}) :
                 c \in Seq(S) /\ Len(c) \in Nat /\ IsPrefix(c, s) /\ IsPrefix(c, t)
<1>. DEFINE C == CommonPrefixes({s, t})
<1>1. Len(s) \in Nat /\ Len(t) \in Nat
  BY LenProperties
<1>2. \A c \in C : /\ c \in Prefixes(s) \cup Prefixes(t)
                   /\ IsPrefix(c, s) /\ IsPrefix(c, t)
  BY DEF CommonPrefixes
<1>3. \A u \in {s, t} : \A l \in 0..Len(u) :
          SubSeq(u, 1, l) \in Seq(S) /\ Len(SubSeq(u, 1, l)) = l
  <2>. SUFFICES ASSUME NEW u \in {s, t}, NEW l \in 0..Len(u)
                PROVE  SubSeq(u, 1, l) \in Seq(S) /\ Len(SubSeq(u, 1, l)) = l
    OBVIOUS
  <2>1. u \in Seq(S) /\ Len(u) \in Nat
    BY <1>1
  <2>2. \A i \in 1..l : u[i] \in S
    BY <2>1, ElementOfSeq
  <2>. QED
    BY <2>1, <2>2, SubSeqProperties
<1>4. \A c \in C : c \in Seq(S) /\ Len(c) \in Nat
  BY <1>2, <1>3, LenProperties DEF Prefixes
<1>5. SubSeq(s, 1, 0) \in C
  <2>1. SubSeq(s, 1, 0) \in Prefixes(s)
    BY <1>1 DEF Prefixes
  <2>2. Len(SubSeq(s, 1, 0)) = 0
    BY <1>1, <1>3
  <2>3. \A u \in {s, t} : IsPrefix(SubSeq(s, 1, 0), u)
    BY <1>1, <2>2, SubSeqEmpty DEF IsPrefix
  <2>. QED
    BY <2>1, <2>3 DEF CommonPrefixes
<1>6. \A c \in C : Len(c) <= Len(s)
  BY <1>2 DEF IsPrefix
<1>. HIDE DEF C
<1>. DEFINE T == {Len(s) - Len(c) : c \in C}
<1>7. T \subseteq Nat /\ T # {}
  BY <1>1, <1>4, <1>5, <1>6
<1>8. PICK k \in T : \A y \in T : ~ (<<y, k>> \in OpToRel(<, Nat))
  <2>. HIDE DEF T
  <2>. QED
    BY <1>7, NatLessThanWellFounded, WFMin
<1>9. \A y \in T : y >= k
  <2>. HIDE DEF T
  <2>1. ASSUME NEW y \in T
        PROVE  ~(y < k)
    BY <1>7, <1>8 DEF OpToRel
  <2>. QED
    BY <1>7, <2>1
<1>10. PICK longest \in C : k = Len(s) - Len(longest)
  OBVIOUS
<1>11. \A other \in C : Len(other) <= Len(longest)
  <2>. SUFFICES ASSUME NEW other \in C
                PROVE  Len(other) <= Len(longest)
    OBVIOUS
  <2>1. Len(s) - Len(other) \in T
    OBVIOUS
  <2>2. Len(s) - Len(other) >= Len(s) - Len(longest)
    BY <1>9, <1>10, <2>1
  <2>3. Len(other) \in Nat /\ Len(longest) \in Nat
    BY <1>4
  <2>. QED
    BY <1>1, <2>2, <2>3
<1>12. \E c \in C : \A other \in C : Len(other) <= Len(c)
  BY <1>11
<1>13. LongestCommonPrefix({s, t}) \in C
  BY <1>12 DEF LongestCommonPrefix, C
<1>. QED
  BY <1>2, <1>4, <1>13 DEF C

(* Two streams share as many tokens as are shared, and have no fewer.      *)
LEMMA SharedBounds ==
    ASSUME NEW S, NEW s \in Seq(S), NEW t \in Seq(S)
    PROVE  /\ Shared(s, t) \in Nat /\ Shared(s, t) <= Len(s) /\ Shared(s, t) <= Len(t)
           /\ \A i \in 1..Shared(s, t) : s[i] = t[i]
<1>. DEFINE c == LongestCommonPrefix({s, t})
            n == Len(c)
<1>1. c \in Seq(S) /\ n \in Nat /\ IsPrefix(c, s) /\ IsPrefix(c, t)
  BY LongestIsCommon
<1>2. /\ n <= Len(s) /\ n <= Len(t)
      /\ SubSeq(s, 1, n) = SubSeq(t, 1, n)
  BY <1>1 DEF IsPrefix
<1>3. Len(s) \in Nat /\ Len(t) \in Nat
  BY LenProperties
<1>4. Shared(s, t) = n
  BY DEF Shared
<1>. HIDE DEF c, n
<1>5. \A i \in 1..n : s[i] \in S /\ t[i] \in S
  BY <1>1, <1>2, <1>3, ElementOfSeq
<1>6. \A i \in 1..n - 1 + 1 : SubSeq(s, 1, n)[i] = s[1 + i - 1] /\ SubSeq(t, 1, n)[i] = t[1 + i - 1]
  BY <1>1, <1>5, SubSeqProperties
<1>7. \A i \in 1..n : s[i] = t[i]
  <2>. SUFFICES ASSUME NEW i \in 1..n
                PROVE  s[i] = t[i]
    OBVIOUS
  <2>1. 1 + i - 1 = i /\ i \in 1..n - 1 + 1
    BY <1>1
  <2>. QED
    BY <1>2, <1>6, <2>1
<1>. QED
  BY <1>1, <1>2, <1>4, <1>7

-----------------------------------------------------------------------------
(* Streams and deltas.                                                     *)

(* Which token a number of the wire form is of, and which field.           *)
LEMMA CellOf ==
    ASSUME NEW n \in Nat, NEW i \in 1..5 * n
    PROVE  /\ i \in Nat /\ ((i - 1) \div 5) + 1 \in 1..n /\ ((i - 1) % 5) + 1 \in 1..5
           /\ i - 1 = 5 * ((i - 1) \div 5) + ((i - 1) % 5)
<1>1. i \in Nat /\ i - 1 \in Nat /\ i - 1 < 5 * n
  OBVIOUS
<1>. DEFINE l == i - 1
            k == l \div 5
            c == l % 5
<1>2. l \in Nat /\ l < 5 * n
  BY <1>1
<1>. HIDE DEF l
<1>3. k \in Int /\ c \in 0..4 /\ l = 5 * k + c
  BY <1>2, SMTT(30)
<1>. HIDE DEF k, c
<1>4. k >= 0 /\ k < n
  BY <1>2, <1>3, SMTT(30)
<1>5. k + 1 \in 1..n /\ c + 1 \in 1..5
  BY <1>3, <1>4
<1>. QED
  BY <1>1, <1>3, <1>5 DEF k, c, l

LEMMA Cells ==
    ASSUME NEW k \in Int, NEW c \in 0..4, NEW l, l = 5 * k + c
    PROVE  l \div 5 = k /\ l % 5 = c
<1>1. l \in Int /\ l = 5 * k + c /\ 0 <= c /\ c < 5
  OBVIOUS
<1>. QED
  BY <1>1, SMTT(30)

LEMMA DataTyped ==
    ASSUME NEW s \in Seq(Token)
    PROVE  /\ Data(s) \in Seq(Nat) /\ Len(Data(s)) = 5 * Len(s)
           /\ \A i \in 1..5 * Len(s) :
                 Data(s)[i] = s[((i - 1) \div 5) + 1][((i - 1) % 5) + 1]
<1>1. Len(s) \in Nat
  BY LenProperties
<1>. DEFINE n == 5 * Len(s)
            at(i) == s[((i - 1) \div 5) + 1][((i - 1) % 5) + 1]
<1>2. n \in Nat /\ Data(s) = [i \in 1..n |-> at(i)]
  BY <1>1 DEF Data
<1>3. ASSUME NEW i \in 1..n
      PROVE  at(i) \in Nat
  <2>1. ((i - 1) \div 5) + 1 \in 1..Len(s) /\ ((i - 1) % 5) + 1 \in {1, 2, 3, 4, 5}
    <3>1. ((i - 1) \div 5) + 1 \in 1..Len(s) /\ ((i - 1) % 5) + 1 \in 1..5
      BY <1>1, CellOf
    <3>. QED
      BY <3>1
  <2>2. s[((i - 1) \div 5) + 1] \in Token
    BY <2>1, ElementOfSeq
  <2>3. \A token \in Token : \A k \in {1, 2, 3, 4, 5} : token[k] \in Nat
    BY DEF Token
  <2>. QED
    BY <2>1, <2>2, <2>3
<1>. HIDE DEF n, at
<1>4. Data(s) \in [1..n -> Nat]
  BY <1>2, <1>3
<1>5. Data(s) \in Seq(Nat)
  BY <1>2, <1>4, SeqDef
<1>6. Len(Data(s)) = n
  BY <1>2, <1>4, <1>5, LenProperties
<1>. QED
  BY <1>2, <1>5, <1>6 DEF n, at

(* Two streams that agree at their beginnings and at their ends are the    *)
(* same when that is all of them.                                          *)
LEMMA SameStream ==
    ASSUME NEW old \in Seq(Token), NEW new \in Seq(Token), NEW p \in Nat, NEW q \in Nat,
           p + q = Len(old), p + q = Len(new),
           \A i \in 1..p : old[i] = new[i],
           \A i \in 1..q : old[Len(old) + 1 - i] = new[Len(new) + 1 - i]
    PROVE  old = new
<1>1. \A i \in 1..Len(old) : old[i] = new[i]
  <2>. SUFFICES ASSUME NEW i \in 1..Len(old)
                PROVE  old[i] = new[i]
    OBVIOUS
  <2>1. CASE i <= p
    BY <2>1
  <2>2. CASE i > p
    <3>. DEFINE k == Len(old) + 1 - i
    <3>1. k \in 1..q /\ Len(old) + 1 - k = i /\ Len(new) + 1 - k = i
      BY <2>2
    <3>. HIDE DEF k
    <3>2. old[Len(old) + 1 - k] = new[Len(new) + 1 - k]
      BY <3>1
    <3>. QED
      BY <3>1, <3>2
  <2>. QED
    BY <2>1, <2>2
<1>. QED
  BY <1>1, SeqEqual

LEMMA Slice ==
    ASSUME NEW S, NEW s \in Seq(S), NEW a \in Nat, NEW b \in Nat, a <= b, b <= Len(s)
    PROVE  /\ SubSeq(s, a + 1, b) \in Seq(S) /\ Len(SubSeq(s, a + 1, b)) = b - a
           /\ \A i \in 1..b - a : SubSeq(s, a + 1, b)[i] = s[a + i]
<1>. DEFINE t == SubSeq(s, a + 1, b)
<1>1. Len(s) \in Nat
  BY LenProperties
<1>2. a + 1..b \subseteq 1..Len(s)
  BY <1>1
<1>3. \A i \in a + 1..b : s[i] \in S
  BY <1>2, ElementOfSeq
<1>4. a + 1 \in Int /\ b \in Int
  OBVIOUS
<1>5. /\ t \in Seq(S)
      /\ Len(t) = IF a + 1 <= b THEN b - (a + 1) + 1 ELSE 0
      /\ \A i \in 1..b - (a + 1) + 1 : t[i] = s[a + 1 + i - 1]
  BY <1>3, <1>4, SubSeqProperties
<1>. HIDE DEF t
<1>6. (IF a + 1 <= b THEN b - (a + 1) + 1 ELSE 0) = b - a
  OBVIOUS
<1>7. Len(t) = b - a
  BY <1>5, <1>6
<1>8. b - (a + 1) + 1 = b - a /\ \A i \in Int : a + 1 + i - 1 = a + i
  OBVIOUS
<1>9. ASSUME NEW i \in 1..b - a
      PROVE  t[i] = s[a + i]
  <2>1. t[i] = s[a + 1 + i - 1]
    BY <1>5, <1>8
  <2>2. a + 1 + i - 1 = a + i
    BY <1>8
  <2>. QED
    BY <2>1, <2>2
<1>. QED
  BY <1>5, <1>7, <1>9 DEF t

LEMMA Joined ==
    ASSUME NEW S, NEW s \in Seq(S), NEW t \in Seq(S)
    PROVE  /\ s \o t \in Seq(S) /\ Len(s \o t) = Len(s) + Len(t)
           /\ \A i \in 1..Len(s) + Len(t) :
                 /\ i <= Len(s) => (s \o t)[i] = s[i]
                 /\ i > Len(s) => (s \o t)[i] = t[i - Len(s)]
<1>1. /\ s \o t \in Seq(S) /\ Len(s \o t) = Len(s) + Len(t)
      /\ \A i \in 1..Len(s) + Len(t) : (s \o t)[i] = IF i <= Len(s) THEN s[i] ELSE t[i - Len(s)]
  BY ConcatProperties
<1>2. Len(s) \in Nat /\ Len(t) \in Nat
  BY LenProperties
<1>. QED
  BY <1>1, <1>2

(* What is put in the place of what differs makes the new stream.          *)
LEMMA SplicedStream ==
    ASSUME NEW old \in Seq(Token), NEW new \in Seq(Token), NEW p \in Nat, NEW q \in Nat,
           p + q <= Len(old), p + q <= Len(new),
           \A i \in 1..p : old[i] = new[i],
           \A i \in 1..q : old[Len(old) + 1 - i] = new[Len(new) + 1 - i]
    PROVE  SubSeq(Data(old), 1, 5 * p)
               \o Data(SubSeq(new, p + 1, Len(new) - q))
               \o SubSeq(Data(old), 5 * p + 5 * (Len(old) - p - q) + 1, Len(Data(old)))
           = Data(new)
<1>. DEFINE m == Len(old)
            n == Len(new)
            D == Data(old)
            E == Data(new)
            mid == SubSeq(new, p + 1, n - q)
            A == SubSeq(D, 1, 5 * p)
            B == Data(mid)
            first == 5 * p + 5 * (m - p - q) + 1
            C == SubSeq(D, first, Len(D))
<1>1. m \in Nat /\ n \in Nat
  BY LenProperties
<1>2. /\ D \in Seq(Nat) /\ Len(D) = 5 * m
      /\ \A i \in 1..5 * m : D[i] = old[((i - 1) \div 5) + 1][((i - 1) % 5) + 1]
  BY DataTyped
<1>3. /\ E \in Seq(Nat) /\ Len(E) = 5 * n
      /\ \A i \in 1..5 * n : E[i] = new[((i - 1) \div 5) + 1][((i - 1) % 5) + 1]
  BY DataTyped
<1>4. /\ mid \in Seq(Token) /\ Len(mid) = n - q - p
      /\ \A i \in 1..n - q - p : mid[i] = new[p + i]
  <2>1. n - q \in Nat /\ p <= n - q /\ n - q <= Len(new)
    BY <1>1
  <2>2. /\ mid \in Seq(Token) /\ Len(mid) = (n - q) - p
        /\ \A i \in 1..(n - q) - p : mid[i] = new[p + i]
    BY <2>1, Slice
  <2>. QED
    BY <2>2
<1>. HIDE DEF mid
<1>5. /\ B \in Seq(Nat) /\ Len(B) = 5 * (n - q - p)
      /\ \A i \in 1..5 * (n - q - p) : B[i] = mid[((i - 1) \div 5) + 1][((i - 1) % 5) + 1]
  <2>1. Len(mid) = n - q - p /\ mid \in Seq(Token)
    BY <1>4
  <2>. QED
    BY <2>1, DataTyped
<1>. HIDE DEF m, n, D, E, B, first
<1>6. /\ A \in Seq(Nat) /\ Len(A) = 5 * p
      /\ \A i \in 1..5 * p : A[i] = D[i]
  <2>1. 0 \in Nat /\ 5 * p \in Nat /\ 0 <= 5 * p /\ 5 * p <= Len(D) /\ 0 + 1 = 1
    BY <1>1, <1>2 DEF m
  <2>2. D \in Seq(Nat)
    BY <1>2
  <2>3. /\ SubSeq(D, 0 + 1, 5 * p) \in Seq(Nat) /\ Len(SubSeq(D, 0 + 1, 5 * p)) = 5 * p - 0
        /\ \A i \in 1..5 * p - 0 : SubSeq(D, 0 + 1, 5 * p)[i] = D[0 + i]
    BY <2>1, <2>2, Slice
  <2>. QED
    BY <2>3
<1>7. first = 5 * (m - q) + 1 /\ first \in Nat
  BY <1>1 DEF first, m
<1>8. /\ C \in Seq(Nat) /\ Len(C) = 5 * q
      /\ \A i \in 1..5 * q : C[i] = D[5 * (m - q) + i]
  <2>. DEFINE k == 5 * (m - q)
  <2>1. k \in Nat /\ Len(D) \in Nat /\ k <= Len(D) /\ first = k + 1 /\ Len(D) - k = 5 * q
    BY <1>1, <1>2, <1>7 DEF m
  <2>2. D \in Seq(Nat)
    BY <1>2
  <2>. HIDE DEF k
  <2>3. /\ SubSeq(D, k + 1, Len(D)) \in Seq(Nat) /\ Len(SubSeq(D, k + 1, Len(D))) = Len(D) - k
        /\ \A i \in 1..Len(D) - k : SubSeq(D, k + 1, Len(D))[i] = D[k + i]
    BY <2>1, <2>2, Slice
  <2>. QED
    BY <2>1, <2>3 DEF k
<1>. HIDE DEF A, C
<1>. DEFINE F == A \o B
<1>9. /\ F \in Seq(Nat) /\ Len(F) = 5 * (n - q)
      /\ \A i \in 1..5 * (n - q) : /\ i <= 5 * p => F[i] = A[i]
                                   /\ i > 5 * p => F[i] = B[i - 5 * p]
  <2>1. A \in Seq(Nat) /\ B \in Seq(Nat)
    BY <1>5, <1>6
  <2>2. /\ F \in Seq(Nat) /\ Len(F) = Len(A) + Len(B)
        /\ \A i \in 1..Len(A) + Len(B) : /\ i <= Len(A) => F[i] = A[i]
                                         /\ i > Len(A) => F[i] = B[i - Len(A)]
    BY <2>1, Joined
  <2>3. Len(A) = 5 * p /\ Len(A) + Len(B) = 5 * (n - q)
    BY <1>1, <1>5, <1>6
  <2>. HIDE DEF F
  <2>. QED
    BY <2>2, <2>3
<1>. HIDE DEF F
<1>10. /\ F \o C \in Seq(Nat) /\ Len(F \o C) = 5 * n
       /\ \A i \in 1..5 * n : /\ i <= 5 * (n - q) => (F \o C)[i] = F[i]
                              /\ i > 5 * (n - q) => (F \o C)[i] = C[i - 5 * (n - q)]
  <2>1. F \in Seq(Nat) /\ C \in Seq(Nat)
    BY <1>8, <1>9
  <2>. DEFINE G == F \o C
  <2>2. /\ G \in Seq(Nat) /\ Len(G) = Len(F) + Len(C)
        /\ \A i \in 1..Len(F) + Len(C) : /\ i <= Len(F) => G[i] = F[i]
                                         /\ i > Len(F) => G[i] = C[i - Len(F)]
    BY <2>1, Joined
  <2>3. Len(F) = 5 * (n - q) /\ Len(F) + Len(C) = 5 * n
    BY <1>1, <1>8, <1>9
  <2>. HIDE DEF G
  <2>4. /\ G \in Seq(Nat) /\ Len(G) = 5 * n
        /\ \A i \in 1..5 * n : /\ i <= 5 * (n - q) => G[i] = F[i]
                               /\ i > 5 * (n - q) => G[i] = C[i - 5 * (n - q)]
    BY <2>2, <2>3
  <2>. QED
    BY <2>4 DEF G
<1>11. \A i \in 1..5 * n : (F \o C)[i] = E[i]
  <2>. SUFFICES ASSUME NEW i \in 1..5 * n
                PROVE  (F \o C)[i] = E[i]
    OBVIOUS
  <2>. DEFINE k == ((i - 1) \div 5) + 1
              c == ((i - 1) % 5) + 1
  <2>1. /\ i \in Nat /\ k \in Nat /\ c \in Nat /\ i - 1 = 5 * (k - 1) + (c - 1) /\ k \in 1..n
        /\ c \in 1..5
    <3>1. /\ i \in Nat /\ k \in 1..n /\ c \in 1..5
          /\ i - 1 = 5 * ((i - 1) \div 5) + ((i - 1) % 5)
      BY <1>1, CellOf
    <3>2. (i - 1) \div 5 = k - 1 /\ (i - 1) % 5 = c - 1
      <4>1. i - 1 \in Int
        BY <3>1
      <4>. QED
        BY <4>1
    <3>. HIDE DEF k, c
    <3>. QED
      BY <1>1, <3>1, <3>2
  <2>2. E[i] = new[k][c]
    BY <1>3
  <2>3. CASE i <= 5 * p
    <3>1. (F \o C)[i] = D[i]
      <4>1. i <= 5 * (n - q) /\ i \in 1..5 * (n - q) /\ i \in 1..5 * p
        BY <1>1, <2>3 DEF n
      <4>. QED
        BY <1>6, <1>9, <1>10, <2>3, <4>1
    <3>2. D[i] = old[k][c]
      <4>1. i \in 1..5 * m
        BY <1>1, <2>3 DEF m
      <4>. QED
        BY <1>2, <4>1
    <3>3. k \in 1..p
      BY <2>1, <2>3
    <3>. QED
      BY <2>2, <3>1, <3>2, <3>3
  <2>4. CASE i > 5 * p /\ i <= 5 * (n - q)
    <3>. DEFINE j == i - 5 * p
    <3>1. j \in 1..5 * (n - q - p) /\ i \in 1..5 * (n - q)
      BY <1>1, <2>4
    <3>2. (F \o C)[i] = B[j]
      BY <1>9, <1>10, <2>4, <3>1
    <3>3. B[j] = mid[((j - 1) \div 5) + 1][((j - 1) % 5) + 1]
      BY <1>5, <3>1
    <3>4. ((j - 1) \div 5) + 1 = k - p /\ ((j - 1) % 5) + 1 = c
      <4>1. j - 1 = 5 * (k - 1 - p) + (c - 1) /\ k - 1 - p \in Int /\ c - 1 \in 0..4
        BY <2>1
      <4>. HIDE DEF j, k, c
      <4>2. (j - 1) \div 5 = k - 1 - p /\ (j - 1) % 5 = c - 1
        BY <4>1, Cells
      <4>. QED
        BY <2>1, <4>2
    <3>5. k - p \in 1..n - q - p /\ p + (k - p) = k
      BY <1>1, <2>1, <2>4
    <3>. HIDE DEF j, k, c
    <3>6. mid[k - p] = new[p + (k - p)]
      BY <1>4, <3>5 DEF n
    <3>. QED
      BY <2>2, <3>2, <3>3, <3>4, <3>5, <3>6
  <2>5. CASE i > 5 * (n - q)
    <3>. DEFINE j == i - 5 * (n - q)
                l == 5 * (m - q) + j
    <3>1. j \in 1..5 * q /\ l \in 1..5 * m
      BY <1>1, <2>5 DEF m, n
    <3>2. (F \o C)[i] = C[j]
      BY <1>1, <1>10, <2>5
    <3>3. C[j] = D[l]
      BY <1>8, <3>1
    <3>4. D[l] = old[((l - 1) \div 5) + 1][((l - 1) % 5) + 1]
      BY <1>2, <3>1
    <3>5. ((l - 1) \div 5) + 1 = k + m - n /\ ((l - 1) % 5) + 1 = c
      <4>1. /\ l - 1 = 5 * (k - 1 + m - n) + (c - 1) /\ k - 1 + m - n \in Int /\ c - 1 \in 0..4
        BY <1>1, <2>1
      <4>. HIDE DEF l, k, c
      <4>2. (l - 1) \div 5 = k - 1 + m - n /\ (l - 1) % 5 = c - 1
        BY <4>1, Cells
      <4>. QED
        BY <1>1, <2>1, <4>2
    <3>. DEFINE h == n + 1 - k
    <3>6. h \in 1..q /\ m + 1 - h = k + m - n /\ n + 1 - h = k
      BY <1>1, <2>1, <2>5
    <3>. HIDE DEF j, l, h, k, c
    <3>7. old[m + 1 - h] = new[n + 1 - h]
      BY <3>6 DEF m, n
    <3>. QED
      BY <2>2, <3>2, <3>3, <3>4, <3>5, <3>6, <3>7
  <2>6. i <= 5 * p \/ (i > 5 * p /\ i <= 5 * (n - q)) \/ i > 5 * (n - q)
    BY <1>1, <2>1
  <2>. QED
    BY <2>3, <2>4, <2>5, <2>6
<1>12. F \o C = E
  BY <1>3, <1>10, <1>11, SeqEqual
<1>. QED
  BY <1>12 DEF A, B, C, D, E, F, mid, m, n, first

LEMMA Reversed ==
    ASSUME NEW S, NEW s \in Seq(S)
    PROVE  /\ Reverse(s) \in Seq(S) /\ Len(Reverse(s)) = Len(s)
           /\ \A i \in 1..Len(s) : Reverse(s)[i] = s[(Len(s) - i) + 1]
<1>1. Len(s) \in Nat
  BY LenProperties
<1>2. \A i \in 1..Len(s) : s[(Len(s) - i) + 1] \in S
  <2>1. \A i \in 1..Len(s) : (Len(s) - i) + 1 \in 1..Len(s)
    BY <1>1
  <2>. QED
    BY <2>1, ElementOfSeq
<1>3. Reverse(s) \in [1..Len(s) -> S]
  BY <1>2 DEF Reverse
<1>4. Reverse(s) \in Seq(S)
  BY <1>1, <1>3, SeqDef
<1>5. Len(Reverse(s)) = Len(s)
  BY <1>1, <1>3, <1>4, LenProperties
<1>. QED
  BY <1>4, <1>5 DEF Reverse

(* The edits the server makes of two streams (compute_delta_edits) turn    *)
(* the one into the other, whatever tokens they repeat and however much of *)
(* them they share.                                                        *)
THEOREM DeltaMakesStream ==
    ASSUME NEW old \in Seq(Token), NEW new \in Seq(Token)
    PROVE  Apply(Data(old), DeltaEdits(old, new)) = Data(new)
<1>. DEFINE m == Len(old)
            n == Len(new)
            p == Shared(old, new)
            o == From(old, p)
            w == From(new, p)
            ro == Reverse(o)
            rw == Reverse(w)
            q == Shared(ro, rw)
<1>1. m \in Nat /\ n \in Nat
  BY LenProperties
<1>2. p \in Nat /\ p <= m /\ p <= n /\ \A i \in 1..p : old[i] = new[i]
  BY SharedBounds
<1>. HIDE DEF p
<1>3. /\ o \in Seq(Token) /\ Len(o) = m - p /\ \A i \in 1..m - p : o[i] = old[p + i]
      /\ w \in Seq(Token) /\ Len(w) = n - p /\ \A i \in 1..n - p : w[i] = new[p + i]
  BY <1>1, <1>2, Slice DEF From
<1>. HIDE DEF o, w
<1>4. /\ ro \in Seq(Token) /\ Len(ro) = m - p
      /\ \A i \in 1..m - p : ro[i] = o[(m - p - i) + 1]
      /\ rw \in Seq(Token) /\ Len(rw) = n - p
      /\ \A i \in 1..n - p : rw[i] = w[(n - p - i) + 1]
  <2>1. o \in Seq(Token) /\ w \in Seq(Token) /\ Len(o) = m - p /\ Len(w) = n - p
    BY <1>3
  <2>2. /\ ro \in Seq(Token) /\ Len(ro) = Len(o)
        /\ \A i \in 1..Len(o) : ro[i] = o[(Len(o) - i) + 1]
    BY <2>1, Reversed
  <2>3. /\ rw \in Seq(Token) /\ Len(rw) = Len(w)
        /\ \A i \in 1..Len(w) : rw[i] = w[(Len(w) - i) + 1]
    BY <2>1, Reversed
  <2>. QED
    BY <2>1, <2>2, <2>3
<1>. HIDE DEF ro, rw
<1>5. /\ q \in Nat /\ q <= m - p /\ q <= n - p
      /\ \A i \in 1..q : ro[i] = rw[i]
  <2>1. ro \in Seq(Token) /\ rw \in Seq(Token)
    BY <1>4
  <2>2. /\ q \in Nat /\ q <= Len(ro) /\ q <= Len(rw)
        /\ \A i \in 1..q : ro[i] = rw[i]
    BY <2>1, SharedBounds
  <2>. QED
    BY <1>4, <2>2
<1>. HIDE DEF q, m, n
<1>6. ASSUME NEW i \in 1..q
      PROVE  old[m + 1 - i] = new[n + 1 - i]
  <2>1. /\ i \in 1..m - p /\ i \in 1..n - p
        /\ (m - p - i) + 1 \in 1..m - p /\ p + ((m - p - i) + 1) = m + 1 - i
        /\ (n - p - i) + 1 \in 1..n - p /\ p + ((n - p - i) + 1) = n + 1 - i
    BY <1>1, <1>2, <1>5
  <2>2. ro[i] = o[(m - p - i) + 1] /\ rw[i] = w[(n - p - i) + 1] /\ ro[i] = rw[i]
    BY <1>4, <1>5, <2>1
  <2>3. o[(m - p - i) + 1] = old[m + 1 - i] /\ w[(n - p - i) + 1] = new[n + 1 - i]
    BY <1>3, <2>1
  <2>. QED
    BY <2>2, <2>3
<1>7. p + q <= m /\ p + q <= n
  BY <1>1, <1>2, <1>5
<1>8. DeltaEdits(old, new) = Edit(old, new, p, q)
  BY DEF DeltaEdits, p, q, o, w, ro, rw
<1>9. /\ p \in Nat /\ q \in Nat /\ p + q <= Len(old) /\ p + q <= Len(new)
      /\ \A i \in 1..p : old[i] = new[i]
      /\ \A i \in 1..q : old[Len(old) + 1 - i] = new[Len(new) + 1 - i]
  BY <1>2, <1>5, <1>6, <1>7 DEF m, n
<1>10. CASE p + q = m /\ p + q = n
  <2>1. DeltaEdits(old, new) = << >>
    BY <1>8, <1>10 DEF Edit, m, n
  <2>2. p + q = Len(old) /\ p + q = Len(new)
    BY <1>10 DEF m, n
  <2>3. old = new
    BY <1>9, <2>2, SameStream
  <2>. QED
    BY <2>1, <2>3 DEF Apply
<1>11. CASE ~(p + q = m /\ p + q = n)
  <2>. DEFINE e == [start |-> p * 5, deleteCount |-> (Len(old) - p - q) * 5,
                    data |-> Data(SubSeq(new, p + 1, Len(new) - q))]
  <2>1. DeltaEdits(old, new) = <<e>>
    BY <1>8, <1>11 DEF Edit, m, n
  <2>2. Apply(Data(old), <<e>>) =
            SubSeq(Data(old), 1, e.start) \o e.data
                \o SubSeq(Data(old), e.start + e.deleteCount + 1, Len(Data(old)))
    <3>. HIDE DEF e
    <3>1. <<e>> # << >> /\ <<e>>[1] = e
      OBVIOUS
    <3>. QED
      BY <3>1 DEF Apply
  <2>3. /\ e.start = 5 * p /\ e.start + e.deleteCount + 1 = 5 * p + 5 * (Len(old) - p - q) + 1
        /\ e.data = Data(SubSeq(new, p + 1, Len(new) - q))
    BY <1>1, <1>2, <1>5 DEF m
  <2>4. SubSeq(Data(old), 1, 5 * p)
            \o Data(SubSeq(new, p + 1, Len(new) - q))
            \o SubSeq(Data(old), 5 * p + 5 * (Len(old) - p - q) + 1, Len(Data(old)))
        = Data(new)
    BY <1>9, SplicedStream
  <2>. HIDE DEF e
  <2>. QED
    BY <2>1, <2>2, <2>3, <2>4
<1>. QED
  BY <1>10, <1>11

-----------------------------------------------------------------------------
(* What each step does to the streams that an id names.                    *)

LEMMA InStreams ==
    /\ \A d \in Documents : cache[d] # NoStream => Named(d, cache[d]) \in Streams
    /\ \A d \in Documents : held[d] # NoStream => Named(d, held[d]) \in Streams
    /\ \A r \in requests : r.base # NoStream => Named(r.doc, r.base) \in Streams
    /\ \A a \in answers : /\ Named(a.doc, a) \in Streams
                          /\ a.base # NoStream => Named(a.doc, a.base) \in Streams
BY DEF Streams

LEMMA StreamsWithin ==
    ASSUME NEW N,
           \A d \in Documents : cache'[d] # NoStream => Named(d, cache'[d]) \in N,
           \A d \in Documents : held'[d] # NoStream => Named(d, held'[d]) \in N,
           \A r \in requests' : r.base # NoStream => Named(r.doc, r.base) \in N,
           \A a \in answers' : /\ Named(a.doc, a) \in N
                               /\ a.base # NoStream => Named(a.doc, a.base) \in N
    PROVE  Streams' \subseteq N
BY DEF Streams

LEMMA StreamsKept ==
    ASSUME StreamsNamed, lastId' = lastId, Streams' \subseteq Streams
    PROVE  StreamsNamed'
BY DEF StreamsNamed

LEMMA StreamAdded ==
    ASSUME StreamsNamed, lastId \in Nat, lastId' = lastId + 1,
           NEW s, s \in [doc : Documents, id : {lastId + 1}, tokens : Seq(Token)],
           Streams' \subseteq Streams \cup {s}
    PROVE  StreamsNamed'
<1>1. \A t \in Streams : t \in [doc : Documents, id : 1 .. lastId, tokens : Seq(Token)]
  BY DEF StreamsNamed
<1>2. \A t \in Streams : t.id \in 1 .. lastId
  BY <1>1
<1>3. s.id = lastId + 1
  OBVIOUS
<1>4. \A t \in Streams : t.id # s.id
  <2>1. \A i \in 1 .. lastId : i # lastId + 1
    OBVIOUS
  <2>. QED
    BY <1>2, <1>3, <2>1
<1>5. 1 .. lastId \subseteq 1 .. lastId + 1 /\ lastId + 1 \in 1 .. lastId + 1
  OBVIOUS
<1>6. Streams \cup {s} \subseteq [doc : Documents, id : 1 .. lastId + 1, tokens : Seq(Token)]
  BY <1>1, <1>5
<1>7. \A t, u \in Streams \cup {s} : t.id = u.id => t = u
  BY <1>4 DEF StreamsNamed
<1>8. Streams' \subseteq [doc : Documents, id : 1 .. lastId', tokens : Seq(Token)]
  BY <1>6
<1>9. \A t, u \in Streams' : t.id = u.id => t = u
  BY <1>7
<1>. QED
  BY <1>8, <1>9 DEF StreamsNamed

LEMMA InitTokens ==
    ASSUME Init
    PROVE  TokensInv
<1>. USE TokenAssumption
<1>1. Typed
  <2>1. \A S : [d \in Documents |-> NoStream] \in [Documents -> S \cup {NoStream}]
    OBVIOUS
  <2>2. /\ text \in [Documents -> Texts \cup {NoStream}]
        /\ cache \in [Documents -> [id : Nat, tokens : Seq(Token)] \cup {NoStream}]
        /\ held \in [Documents -> Stream \cup {NoStream}]
    BY <2>1 DEF Init
  <2>3. 0 \in 0 .. MaxRequests /\ 0 \in 0 .. MaxEdits /\ 0 \in 0 .. MaxRestarts
    OBVIOUS
  <2>4. asked = 0 /\ applied \in [Documents -> 0 .. asked]
    BY DEF Init
  <2>. QED
    BY <2>2, <2>3, <2>4 DEF Init, Typed
<1>2. Streams = {}
  BY DEF Init, Streams
<1>3. \A d \in Documents : Whole(held[d])
  BY DEF Init, Whole
<1>4. requests = {} /\ answers = {}
  BY DEF Init
<1>. QED
  BY <1>1, <1>2, <1>3, <1>4 DEF TokensInv, StreamsNamed

(* A step that changes neither the streams of the server nor those of the  *)
(* client, makes no request and gives no answer.                           *)
LEMMA QuietKeeps ==
    ASSUME TokensInv, Typed',
           UNCHANGED <<held, asked, requests, cache, lastId>>, answers' \subseteq answers
    PROVE  TokensInv'
<1>1. Streams' \subseteq Streams
  <2>1. \A a \in answers' : /\ Named(a.doc, a) \in Streams
                            /\ a.base # NoStream => Named(a.doc, a.base) \in Streams
    BY InStreams
  <2>. QED
    BY <2>1, InStreams, StreamsWithin
<1>2. StreamsNamed'
  BY <1>1, StreamsKept DEF TokensInv
<1>3. \A d \in Documents : Whole(held'[d])
  BY DEF TokensInv
<1>4. (\A r \in requests : RequestSound(r))'
  BY DEF TokensInv, RequestSound
<1>5. (\A a \in answers : AnswerSound(a))'
  BY DEF TokensInv, AnswerSound
<1>. QED
  BY <1>2, <1>3, <1>4, <1>5 DEF TokensInv

LEMMA OpenDocumentKeeps ==
    ASSUME TokensInv, NEW d \in Documents, OpenDocument(d)
    PROVE  TokensInv'
<1>1. Typed'
  BY TokenAssumption DEF TokensInv, Typed, OpenDocument, cacheVars
<1>. QED
  BY <1>1, QuietKeeps DEF OpenDocument, cacheVars

LEMMA ChangeDocumentKeeps ==
    ASSUME TokensInv, NEW d \in Documents, ChangeDocument(d)
    PROVE  TokensInv'
<1>1. Typed'
  BY TokenAssumption DEF TokensInv, Typed, ChangeDocument, cacheVars
<1>. QED
  BY <1>1, QuietKeeps DEF ChangeDocument, cacheVars

LEMMA DropKeeps ==
    ASSUME TokensInv, NEW a \in answers, Drop(a)
    PROVE  TokensInv'
<1>1. a.doc \in Documents
  BY DEF TokensInv, AnswerSound
<1>2. Typed'
  BY <1>1 DEF TokensInv, Typed, Drop, cacheVars
<1>. QED
  BY <1>2, QuietKeeps DEF Drop, cacheVars

LEMMA ApplyGraphKeeps ==
    ASSUME TokensInv, ApplyGraph
    PROVE  TokensInv'
<1>1. Typed'
  BY DEF TokensInv, Typed, ApplyGraph, cacheVars
<1>. QED
  BY <1>1, QuietKeeps DEF ApplyGraph, cacheVars

(* The stream a request names is one that the client holds.                *)
LEMMA AskKeeps ==
    ASSUME TokensInv, NEW d \in Documents, Ask(d)
    PROVE  TokensInv'
<1>. USE TokenAssumption
<1>. DEFINE new == [number |-> asked + 1, doc |-> d, base |-> held[d]]
<1>1. /\ asked' = asked + 1 /\ requests' = requests \cup {new} /\ toAsk' = toAsk \ {d}
      /\ asked < MaxRequests
      /\ UNCHANGED <<text, loaded, held, applied, answers, cache, lastId, edits, restarts>>
  BY DEF Ask, cacheVars
<1>2. asked \in Nat /\ asked' \in 0 .. MaxRequests /\ 0 .. asked \subseteq 0 .. asked'
      /\ 1 .. asked \subseteq 1 .. asked' /\ asked' \in 1 .. asked'
  BY <1>1 DEF TokensInv, Typed
<1>3. Typed'
  <2>1. applied \in [Documents -> 0 .. asked']
    BY <1>2 DEF TokensInv, Typed
  <2>. QED
    BY <1>1, <1>2, <2>1 DEF TokensInv, Typed
<1>4. Streams' \subseteq Streams
  <2>1. \A r \in requests' : r.base # NoStream => Named(r.doc, r.base) \in Streams
    BY <1>1, InStreams
  <2>. QED
    BY <1>1, <2>1, InStreams, StreamsWithin
<1>5. StreamsNamed'
  BY <1>1, <1>4, StreamsKept DEF TokensInv
<1>6. \A e \in Documents : Whole(held'[e])
  BY <1>1 DEF TokensInv
<1>7. (\A r \in requests : RequestSound(r))'
  <2>1. \A r : r \in requests \/ r = new =>
               r.number \in 1 .. asked' /\ r.doc \in Documents /\ Whole(r.base)
    BY <1>2, <1>1 DEF TokensInv, RequestSound
  <2>. QED
    BY <1>1, <2>1 DEF RequestSound
<1>8. (\A a \in answers : AnswerSound(a))'
  BY <1>1, <1>2 DEF TokensInv, AnswerSound
<1>. QED
  BY <1>3, <1>5, <1>6, <1>7, <1>8 DEF TokensInv

LEMMA CloseDocumentKeeps ==
    ASSUME TokensInv, NEW d \in Documents, CloseDocument(d)
    PROVE  TokensInv'
<1>1. /\ text' = [text EXCEPT ![d] = NoStream] /\ held' = [held EXCEPT ![d] = NoStream]
      /\ toAsk' = toAsk \ {d} /\ cache' = [cache EXCEPT ![d] = NoStream]
      /\ UNCHANGED <<loaded, applied, asked, requests, answers, lastId, edits, restarts>>
  BY DEF CloseDocument
<1>2. Typed'
  BY <1>1 DEF TokensInv, Typed
<1>3. \A e \in Documents : /\ held'[e] # NoStream => held'[e] = held[e]
                           /\ cache'[e] # NoStream => cache'[e] = cache[e]
  BY <1>1 DEF TokensInv, Typed
<1>4. Streams' \subseteq Streams
  BY <1>1, <1>3, InStreams, StreamsWithin
<1>5. StreamsNamed'
  BY <1>1, <1>4, StreamsKept DEF TokensInv
<1>6. \A e \in Documents : Whole(held'[e])
  BY <1>3 DEF TokensInv, Whole
<1>7. (\A r \in requests : RequestSound(r))'
  BY <1>1 DEF TokensInv, RequestSound
<1>8. (\A a \in answers : AnswerSound(a))'
  BY <1>1 DEF TokensInv, AnswerSound
<1>. QED
  BY <1>2, <1>5, <1>6, <1>7, <1>8 DEF TokensInv

(* What the client puts together of an answer is the stream it is of.      *)
LEMMA AnswerIsWhole ==
    ASSUME NEW a, AnswerSound(a)
    PROVE  [id |-> a.id, tokens |-> a.tokens,
            data |-> IF a.delta THEN Apply(a.base.data, a.edits) ELSE Data(a.tokens)] \in
               {h \in Stream : h.data = Data(h.tokens)}
<1>1. a.tokens \in Seq(Token) /\ a.id \in Nat
  BY DEF AnswerSound
<1>2. Data(a.tokens) \in Seq(Nat)
  BY <1>1, DataTyped
<1>3. ASSUME a.delta
      PROVE  Apply(a.base.data, a.edits) = Data(a.tokens)
  <2>1. /\ a.base.tokens \in Seq(Token) /\ a.base.data = Data(a.base.tokens)
        /\ a.edits = DeltaEdits(a.base.tokens, a.tokens)
    BY <1>3 DEF AnswerSound, Whole, Stream
  <2>2. Apply(Data(a.base.tokens), DeltaEdits(a.base.tokens, a.tokens)) = Data(a.tokens)
    BY <1>1, <2>1, DeltaMakesStream
  <2>. QED
    BY <2>1, <2>2
<1>4. (IF a.delta THEN Apply(a.base.data, a.edits) ELSE Data(a.tokens)) = Data(a.tokens)
  BY <1>3
<1>. QED
  BY <1>1, <1>2, <1>4 DEF Stream

LEMMA ReceiveKeeps ==
    ASSUME TokensInv, NEW a \in answers, Receive(a)
    PROVE  TokensInv'
<1>. DEFINE d == a.doc
            new == [id |-> a.id, tokens |-> a.tokens,
                    data |-> IF a.delta THEN Apply(a.base.data, a.edits) ELSE Data(a.tokens)]
<1>1. /\ answers' = answers \ {a}
      /\ UNCHANGED <<text, loaded, toAsk, asked, requests, cache, lastId, edits, restarts>>
  BY DEF Receive, cacheVars
<1>2. AnswerSound(a) /\ d \in Documents
  BY DEF TokensInv, AnswerSound
<1>3. CASE UNCHANGED <<applied, held>>
  <2>1. Typed'
    BY <1>1, <1>3 DEF TokensInv, Typed
  <2>. QED
    BY <1>1, <1>3, <2>1, QuietKeeps
<1>4. CASE applied' = [applied EXCEPT ![d] = a.number] /\ held' = [held EXCEPT ![d] = new]
  <2>1. new \in Stream /\ new.data = Data(new.tokens)
    BY <1>2, AnswerIsWhole
  <2>2. Named(d, new) = Named(d, a)
    BY DEF Named
  <2>. HIDE DEF new
  <2>3. Typed'
    <3>1. a.number \in 0 .. asked
      BY <1>2 DEF TokensInv, Typed, AnswerSound
    <3>. QED
      BY <1>1, <1>2, <1>4, <2>1, <3>1 DEF TokensInv, Typed
  <2>4. \A e \in Documents : held'[e] = IF e = d THEN new ELSE held[e]
    BY <1>4 DEF TokensInv, Typed
  <2>5. Streams' \subseteq Streams
    <3>1. \A e \in Documents : held'[e] # NoStream => Named(e, held'[e]) \in Streams
      BY <2>2, <2>4, InStreams
    <3>2. \A b \in answers' : /\ Named(b.doc, b) \in Streams
                              /\ b.base # NoStream => Named(b.doc, b.base) \in Streams
      BY <1>1, InStreams
    <3>. QED
      BY <1>1, <3>1, <3>2, InStreams, StreamsWithin
  <2>6. StreamsNamed'
    BY <1>1, <2>5, StreamsKept DEF TokensInv
  <2>7. \A e \in Documents : Whole(held'[e])
    BY <2>1, <2>4 DEF TokensInv, Whole
  <2>8. (\A r \in requests : RequestSound(r))'
    BY <1>1 DEF TokensInv, RequestSound
  <2>9. (\A b \in answers : AnswerSound(b))'
    BY <1>1 DEF TokensInv, AnswerSound
  <2>. QED
    BY <2>3, <2>6, <2>7, <2>8, <2>9 DEF TokensInv
<1>. QED
  BY <1>3, <1>4 DEF Receive

LEMMA CurrentTyped ==
    ASSUME Typed, NEW d \in Documents, text[d] # NoStream
    PROVE  Current(d) \in Seq(Token)
<1>1. text[d] \in Texts /\ loaded \in BOOLEAN
  BY DEF Typed
<1>2. <<text[d], loaded>> \in Texts \X BOOLEAN
  BY <1>1
<1>. QED
  BY <1>2, TokenAssumption DEF Current

(* The stream a request names is the cached one when they have one id.     *)
LEMMA PreviousIsBase ==
    ASSUME TokensInv, NEW r \in requests, Previous(r.doc, r.base)
    PROVE  r.base # NoStream /\ cache[r.doc].tokens = r.base.tokens
<1>1. /\ r.doc \in Documents /\ cache[r.doc] # NoStream /\ r.base # NoStream
      /\ cache[r.doc].id = r.base.id
  BY DEF TokensInv, RequestSound, Previous
<1>2. Named(r.doc, cache[r.doc]) \in Streams /\ Named(r.doc, r.base) \in Streams
  BY <1>1, InStreams
<1>3. Named(r.doc, cache[r.doc]).id = Named(r.doc, r.base).id
  BY <1>1 DEF Named
<1>4. Named(r.doc, cache[r.doc]) = Named(r.doc, r.base)
  BY <1>2, <1>3 DEF TokensInv, StreamsNamed
<1>5. Named(r.doc, cache[r.doc]).tokens = Named(r.doc, r.base).tokens
  BY <1>4
<1>. QED
  BY <1>1, <1>5 DEF Named

LEMMA OnSemanticTokensKeeps ==
    ASSUME TokensInv, NEW r \in requests, OnSemanticTokens(r)
    PROVE  TokensInv'
<1>. DEFINE d == r.doc
            tokens == Current(d)
            isDelta == Previous(d, r.base)
            new == [id |-> lastId + 1, tokens |-> tokens]
            answer == [number |-> r.number, doc |-> r.doc, base |-> r.base, id |-> lastId + 1,
                       tokens |-> tokens, delta |-> isDelta,
                       edits |-> IF isDelta THEN DeltaEdits(cache[d].tokens, tokens) ELSE << >>]
<1>1. /\ requests' = requests \ {r} /\ answers' = answers \cup {answer}
      /\ lastId' = lastId + 1 /\ cache' = [cache EXCEPT ![d] = new]
      /\ UNCHANGED <<text, loaded, toAsk, held, applied, asked, edits, restarts>>
  BY DEF OnSemanticTokens, Answer, Store, clientVars
<1>2. RequestSound(r) /\ d \in Documents /\ lastId \in Nat
  BY DEF TokensInv, RequestSound, Typed
<1>3. tokens \in Seq(Token)
  BY <1>2, CurrentTyped DEF TokensInv, OnSemanticTokens
<1>4. AnswerSound(answer)
  <2>1. isDelta \in BOOLEAN
    BY DEF Previous
  <2>2. isDelta => r.base # NoStream /\ cache[d].tokens = r.base.tokens
    BY PreviousIsBase
  <2>3. /\ answer.number = r.number /\ answer.doc = r.doc /\ answer.base = r.base
        /\ answer.id = lastId + 1 /\ answer.tokens = tokens /\ answer.delta = isDelta
        /\ isDelta => answer.edits = DeltaEdits(cache[d].tokens, tokens)
    OBVIOUS
  <2>4. lastId + 1 \in Nat
    BY <1>2
  <2>. HIDE DEF answer, tokens, isDelta
  <2>5. /\ answer.number \in 1 .. asked /\ answer.doc \in Documents /\ Whole(answer.base)
        /\ answer.tokens \in Seq(Token) /\ answer.id \in Nat /\ answer.delta \in BOOLEAN
    BY <1>2, <1>3, <2>1, <2>3, <2>4 DEF RequestSound
  <2>6. answer.delta => /\ answer.base # NoStream
                        /\ answer.edits = DeltaEdits(answer.base.tokens, answer.tokens)
    BY <2>2, <2>3
  <2>. QED
    BY <2>5, <2>6 DEF AnswerSound
<1>5. Named(d, new) = Named(answer.doc, answer)
  BY DEF Named
<1>6. Named(d, new) \in [doc : Documents, id : {lastId + 1}, tokens : Seq(Token)]
  BY <1>2, <1>3 DEF Named
<1>7. new \in [id : Nat, tokens : Seq(Token)]
  BY <1>2, <1>3
<1>8. answer.doc = r.doc /\ answer.base = r.base
  OBVIOUS
<1>. HIDE DEF new, answer, tokens, isDelta
<1>9. Typed'
  BY <1>1, <1>2, <1>7 DEF TokensInv, Typed
<1>10. \A e \in Documents : cache'[e] = IF e = d THEN new ELSE cache[e]
  BY <1>1, <1>2 DEF TokensInv, Typed
<1>11. Streams' \subseteq Streams \cup {Named(d, new)}
  <2>. DEFINE N == Streams \cup {Named(d, new)}
  <2>1. \A e \in Documents : cache'[e] # NoStream => Named(e, cache'[e]) \in N
    BY <1>10, InStreams
  <2>2. \A e \in Documents : held'[e] # NoStream => Named(e, held'[e]) \in N
    BY <1>1, InStreams
  <2>3. \A q \in requests' : q.base # NoStream => Named(q.doc, q.base) \in N
    BY <1>1, InStreams
  <2>4. \A a \in answers' : /\ Named(a.doc, a) \in N
                            /\ a.base # NoStream => Named(a.doc, a.base) \in N
    BY <1>1, <1>5, <1>8, InStreams
  <2>. HIDE DEF N
  <2>5. Streams' \subseteq N
    BY <2>1, <2>2, <2>3, <2>4, StreamsWithin
  <2>. QED
    BY <2>5 DEF N
<1>12. StreamsNamed'
  BY <1>1, <1>2, <1>6, <1>11, StreamAdded DEF TokensInv
<1>13. \A e \in Documents : Whole(held'[e])
  BY <1>1 DEF TokensInv
<1>14. (\A q \in requests : RequestSound(q))'
  BY <1>1 DEF TokensInv, RequestSound
<1>15. (\A a \in answers : AnswerSound(a))'
  BY <1>1, <1>4 DEF TokensInv, AnswerSound
<1>. QED
  BY <1>9, <1>12, <1>13, <1>14, <1>15 DEF TokensInv

LEMMA OnClosedDocumentKeeps ==
    ASSUME TokensInv, NEW r \in requests, OnClosedDocument(r)
    PROVE  TokensInv'
<1>. DEFINE d == r.doc
<1>1. PICK t \in Texts : Store(d, TokensOf[<<t, loaded>>])
  BY DEF OnClosedDocument
<1>. DEFINE new == [id |-> lastId + 1, tokens |-> TokensOf[<<t, loaded>>]]
<1>2. /\ requests' = requests \ {r}
      /\ lastId' = lastId + 1 /\ cache' = [cache EXCEPT ![d] = new]
      /\ UNCHANGED <<text, loaded, toAsk, held, applied, asked, answers, edits, restarts>>
  BY <1>1 DEF OnClosedDocument, Store, clientVars
<1>3. d \in Documents /\ lastId \in Nat /\ loaded \in BOOLEAN
  BY DEF TokensInv, RequestSound, Typed
<1>4. TokensOf[<<t, loaded>>] \in Seq(Token)
  <2>1. <<t, loaded>> \in Texts \X BOOLEAN
    BY <1>3
  <2>. QED
    BY <2>1, TokenAssumption
<1>5. Named(d, new) \in [doc : Documents, id : {lastId + 1}, tokens : Seq(Token)]
  BY <1>3, <1>4 DEF Named
<1>6. new \in [id : Nat, tokens : Seq(Token)]
  BY <1>3, <1>4
<1>. HIDE DEF new
<1>7. Typed'
  BY <1>2, <1>3, <1>6 DEF TokensInv, Typed
<1>8. \A e \in Documents : cache'[e] = IF e = d THEN new ELSE cache[e]
  BY <1>2, <1>3 DEF TokensInv, Typed
<1>9. Streams' \subseteq Streams \cup {Named(d, new)}
  <2>. DEFINE N == Streams \cup {Named(d, new)}
  <2>1. \A e \in Documents : cache'[e] # NoStream => Named(e, cache'[e]) \in N
    BY <1>8, InStreams
  <2>2. \A e \in Documents : held'[e] # NoStream => Named(e, held'[e]) \in N
    BY <1>2, InStreams
  <2>3. \A q \in requests' : q.base # NoStream => Named(q.doc, q.base) \in N
    BY <1>2, InStreams
  <2>4. \A a \in answers' : /\ Named(a.doc, a) \in N
                            /\ a.base # NoStream => Named(a.doc, a.base) \in N
    BY <1>2, InStreams
  <2>. HIDE DEF N
  <2>5. Streams' \subseteq N
    BY <2>1, <2>2, <2>3, <2>4, StreamsWithin
  <2>. QED
    BY <2>5 DEF N
<1>10. StreamsNamed'
  BY <1>2, <1>3, <1>5, <1>9, StreamAdded DEF TokensInv
<1>11. \A e \in Documents : Whole(held'[e])
  BY <1>2 DEF TokensInv
<1>12. (\A q \in requests : RequestSound(q))'
  BY <1>2 DEF TokensInv, RequestSound
<1>13. (\A a \in answers : AnswerSound(a))'
  BY <1>2 DEF TokensInv, AnswerSound
<1>. QED
  BY <1>7, <1>10, <1>11, <1>12, <1>13 DEF TokensInv

LEMMA RestartKeeps ==
    ASSUME TokensInv, Restart
    PROVE  TokensInv'
<1>1. /\ restarts < MaxRestarts /\ restarts' = restarts + 1 /\ loaded' = FALSE
      /\ cache' = [d \in Documents |-> NoStream] /\ held' = [d \in Documents |-> NoStream]
      /\ lastId' = 0 /\ requests' = {} /\ answers' = {}
      /\ toAsk' = {d \in Documents : text[d] # NoStream}
      /\ UNCHANGED <<text, applied, asked, edits>>
  BY DEF Restart
<1>2. Typed'
  <2>1. restarts' \in 0 .. MaxRestarts
    BY <1>1, TokenAssumption DEF TokensInv, Typed
  <2>2. toAsk' \subseteq Documents /\ lastId' \in Nat /\ loaded' \in BOOLEAN
    BY <1>1
  <2>3. \A S : [d \in Documents |-> NoStream] \in [Documents -> S \cup {NoStream}]
    OBVIOUS
  <2>4. /\ cache' \in [Documents -> [id : Nat, tokens : Seq(Token)] \cup {NoStream}]
        /\ held' \in [Documents -> Stream \cup {NoStream}]
    BY <1>1, <2>3
  <2>. QED
    BY <1>1, <2>1, <2>2, <2>4 DEF TokensInv, Typed
<1>3. \A e \in Documents : cache'[e] = NoStream /\ held'[e] = NoStream
  BY <1>1
<1>4. Streams' = {}
  BY <1>1, <1>3 DEF Streams
<1>5. StreamsNamed'
  BY <1>4 DEF StreamsNamed
<1>6. \A e \in Documents : Whole(held'[e])
  BY <1>3 DEF Whole
<1>. QED
  BY <1>1, <1>2, <1>5, <1>6 DEF TokensInv

LEMMA TokensStep ==
    ASSUME TokensInv, [Next]_vars
    PROVE  TokensInv'
<1>1. CASE UNCHANGED vars
  <2>1. Typed'
    BY <1>1 DEF vars, clientVars, cacheVars, TokensInv, Typed
  <2>. QED
    BY <1>1, <2>1, QuietKeeps DEF vars, clientVars, cacheVars
<1>. QED
  BY <1>1, OpenDocumentKeeps, ChangeDocumentKeeps, AskKeeps, CloseDocumentKeeps, ReceiveKeeps,
     DropKeeps, OnSemanticTokensKeeps, OnClosedDocumentKeeps, ApplyGraphKeeps, RestartKeeps
  DEF Next

-----------------------------------------------------------------------------
(* The theorems.                                                           *)

LEMMA TokensInvariant == Spec => []TokensInv
BY InitTokens, TokensStep, PTL DEF Spec

(* Every variable of the server's cache and of the client keeps its type,  *)
(* and no stream is cached under an id that the counter has yet to reach.  *)
THEOREM TypeCorrect == Spec => []TypeOK
<1>1. TokensInv => TypeOK
  <2>. SUFFICES ASSUME TokensInv
                PROVE  TypeOK
    OBVIOUS
  <2>1. \A d \in Documents : cache[d] # NoStream =>
            cache[d].id \in 1 .. lastId /\ cache[d].tokens \in Seq(Token)
    <3>. SUFFICES ASSUME NEW d \in Documents, cache[d] # NoStream
                  PROVE  cache[d].id \in 1 .. lastId /\ cache[d].tokens \in Seq(Token)
      OBVIOUS
    <3>1. Named(d, cache[d]) \in [doc : Documents, id : 1 .. lastId, tokens : Seq(Token)]
      BY InStreams DEF TokensInv, StreamsNamed
    <3>. QED
      BY <3>1 DEF Named
  <2>2. \A d \in Documents : applied[d] \in 0 .. asked
    BY DEF TokensInv, Typed
  <2>3. \A d \in Documents : held[d] # NoStream => held[d].data \in Seq(Nat)
    BY DEF TokensInv, Whole, Stream
  <2>. QED
    BY <2>1, <2>2, <2>3 DEF TokensInv, Typed, RequestSound, AnswerSound, TypeOK
<1>. QED
  BY <1>1, TokensInvariant, PTL

(* What a client puts together of full answers and of deltas, received in  *)
(* any order, is the stream the server computed and sent under that id.    *)
THEOREM ClientHoldsServersStream == Spec => []StreamIsServers
<1>1. TokensInv => StreamIsServers
  BY DEF TokensInv, Whole, StreamIsServers
<1>. QED
  BY <1>1, TokensInvariant, PTL

(* An id in the server's cache is of one document only, and a client that  *)
(* holds it holds the very stream that is cached.                          *)
THEOREM IdsNameStreams == Spec => []IdNamesStream
<1>1. TokensInv => IdNamesStream
  <2>. SUFFICES ASSUME TokensInv, NEW d \in Documents, NEW e \in Documents, cache[d] # NoStream
                PROVE  /\ d # e /\ cache[e] # NoStream => cache[d].id # cache[e].id
                       /\ held[e] # NoStream /\ held[e].id = cache[d].id =>
                             d = e /\ held[e].data = Data(cache[d].tokens)
    BY DEF IdNamesStream
  <2>1. ASSUME d # e, cache[e] # NoStream
        PROVE  cache[d].id # cache[e].id
    <3>1. Named(d, cache[d]) \in Streams /\ Named(e, cache[e]) \in Streams
      BY <2>1, InStreams
    <3>2. Named(d, cache[d]).id = Named(e, cache[e]).id =>
              Named(d, cache[d]).doc = Named(e, cache[e]).doc
      BY <3>1 DEF TokensInv, StreamsNamed
    <3>. QED
      BY <2>1, <3>2 DEF Named
  <2>2. ASSUME held[e] # NoStream, held[e].id = cache[d].id
        PROVE  d = e /\ held[e].data = Data(cache[d].tokens)
    <3>1. Named(d, cache[d]) \in Streams /\ Named(e, held[e]) \in Streams
      BY <2>2, InStreams
    <3>2. Named(d, cache[d]).id = Named(e, held[e]).id
      BY <2>2 DEF Named
    <3>3. Named(d, cache[d]) = Named(e, held[e])
      BY <3>1, <3>2 DEF TokensInv, StreamsNamed
    <3>4. /\ Named(d, cache[d]).doc = Named(e, held[e]).doc
          /\ Named(d, cache[d]).tokens = Named(e, held[e]).tokens
      BY <3>3
    <3>5. d = e /\ cache[d].tokens = held[e].tokens
      BY <3>4 DEF Named
    <3>6. held[e].data = Data(held[e].tokens)
      BY <2>2 DEF TokensInv, Whole
    <3>. QED
      BY <3>5, <3>6
  <2>. QED
    BY <2>1, <2>2
<1>. QED
  BY <1>1, TokensInvariant, PTL
=============================================================================
