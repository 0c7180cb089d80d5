------------------------- MODULE StreamServersProofs -------------------------
(***************************************************************************)
(* What a client of mp0 or mp1 writes is what its server answers, for      *)
(* every file, every size of a block and of a buffer, every number of      *)
(* connections and however recv cuts the streams; when it writes more than *)
(* that; and no child that has exited is forgotten.                        *)
(***************************************************************************)
EXTENDS StreamServers, SequenceTheorems, FiniteSetTheorems, WellFoundedInduction, TLAPS

\* x holds the symbols of stream behind the first a of them, up to the b-th.
Slice(x, stream, a, b) ==
    /\ a <= b /\ b <= Len(stream) /\ Len(x) = b - a
    /\ \A i \in 1 .. b - a : x[i] = stream[a + i]

\* One after the other, the sequences of q hold what lies behind the first a.
Pieces(q, stream, a) ==
    \E at \in [0 .. Len(q) -> Nat] :
        /\ at[0] = a /\ at[Len(q)] = Len(stream)
        /\ \A k \in 1 .. Len(q) : Slice(q[k], stream, at[k - 1], at[k])

NoNul(s) == ~Contains(s, "NUL")

\* The symbols of w are among the first n of body, in the same order, and without
\* NULs they are all of them.
Writes(w, body, n) ==
    /\ \E at \in [1 .. Len(w) -> 1 .. n] :
          /\ \A i \in 1 .. Len(w) : w[i] = body[at[i]]
          /\ \A i, j \in 1 .. Len(w) : i < j => at[i] < at[j]
    /\ NoNul(body) => Slice(w, body, 0, n)

-----------------------------------------------------------------------------
(***************************************************************************)
(* Streams that are cut and joined.                                        *)
(***************************************************************************)
LEMMA TakenIs ==
    ASSUME NEW S, NEW x \in Seq(S), NEW n \in 0 .. Len(x)
    PROVE  /\ Taken(x, n) \in Seq(S) /\ Len(Taken(x, n)) = n
           /\ \A i \in 1 .. n : Taken(x, n)[i] = x[i]
           /\ Left(x, n) \in Seq(S) /\ Len(Left(x, n)) = Len(x) - n
           /\ \A i \in 1 .. Len(x) - n : Left(x, n)[i] = x[n + i]
<1>1. Len(x) \in Nat /\ n \in Nat /\ \A i \in 1 .. Len(x) : x[i] \in S
  OBVIOUS
<1>2. /\ SubSeq(x, 1, n) \in Seq(S) /\ Len(SubSeq(x, 1, n)) = n
      /\ \A i \in 1 .. n : SubSeq(x, 1, n)[i] = x[i]
  <2>1. \A i \in 1 .. n : x[i] \in S
    BY <1>1
  <2>2. /\ SubSeq(x, 1, n) \in Seq(S)
        /\ Len(SubSeq(x, 1, n)) = IF 1 <= n THEN n - 1 + 1 ELSE 0
        /\ \A i \in 1 .. n - 1 + 1 : SubSeq(x, 1, n)[i] = x[1 + i - 1]
    BY <1>1, <2>1, SubSeqProperties
  <2> QED
    BY <1>1, <2>2
<1>3. /\ SubSeq(x, n + 1, Len(x)) \in Seq(S) /\ Len(SubSeq(x, n + 1, Len(x))) = Len(x) - n
      /\ \A i \in 1 .. Len(x) - n : SubSeq(x, n + 1, Len(x))[i] = x[n + i]
  <2>1. \A i \in n + 1 .. Len(x) : x[i] \in S
    BY <1>1
  <2>2. /\ SubSeq(x, n + 1, Len(x)) \in Seq(S)
        /\ Len(SubSeq(x, n + 1, Len(x))) = IF n + 1 <= Len(x) THEN Len(x) - (n + 1) + 1 ELSE 0
        /\ \A i \in 1 .. Len(x) - (n + 1) + 1 : SubSeq(x, n + 1, Len(x))[i] = x[n + 1 + i - 1]
    BY <1>1, <2>1, SubSeqProperties
  <2> QED
    BY <1>1, <2>2
<1> QED
  BY <1>2, <1>3 DEF Taken, Left

LEMMA SliceCut ==
    ASSUME NEW S, NEW x \in Seq(S), NEW stream \in Seq(S), NEW a \in Nat, NEW b \in Nat,
           Slice(x, stream, a, b), NEW n \in 0 .. Len(x)
    PROVE  Slice(Taken(x, n), stream, a, a + n) /\ Slice(Left(x, n), stream, a + n, b)
<1>1. Len(x) = b - a /\ n \in Nat /\ a + n <= b
  BY DEF Slice
<1>2. /\ Len(Taken(x, n)) = n /\ \A i \in 1 .. n : Taken(x, n)[i] = x[i]
      /\ Len(Left(x, n)) = Len(x) - n
      /\ \A i \in 1 .. Len(x) - n : Left(x, n)[i] = x[n + i]
  BY TakenIs
<1>3. b <= Len(stream) /\ \A i \in 1 .. b - a : x[i] = stream[a + i]
  BY DEF Slice
<1>4. Slice(Taken(x, n), stream, a, a + n)
  <2>1. \A i \in 1 .. (a + n) - a : Taken(x, n)[i] = stream[a + i]
    BY <1>1, <1>2, <1>3
  <2>2. a <= a + n /\ a + n <= Len(stream) /\ Len(Taken(x, n)) = (a + n) - a
    BY <1>1, <1>2, <1>3
  <2> QED
    BY <2>1, <2>2 DEF Slice
<1>5. Slice(Left(x, n), stream, a + n, b)
  <2>1. ASSUME NEW i \in 1 .. b - (a + n) PROVE Left(x, n)[i] = stream[a + n + i]
    <3>1. n + i \in 1 .. b - a /\ i \in 1 .. Len(x) - n /\ a + (n + i) = a + n + i
      BY <1>1
    <3>2. x[n + i] = stream[a + (n + i)]
      BY <1>3, <3>1
    <3> QED
      BY <1>2, <3>1, <3>2
  <2>2. a + n <= b /\ b <= Len(stream) /\ Len(Left(x, n)) = b - (a + n)
    BY <1>1, <1>2, <1>3
  <2> QED
    BY <2>1, <2>2 DEF Slice
<1> QED
  BY <1>4, <1>5

LEMMA SliceJoin ==
    ASSUME NEW S, NEW x \in Seq(S), NEW y \in Seq(S), NEW stream \in Seq(S),
           NEW a \in Nat, NEW b \in Nat, NEW c \in Nat,
           Slice(x, stream, a, b), Slice(y, stream, b, c)
    PROVE  x \o y \in Seq(S) /\ Slice(x \o y, stream, a, c)
<1>1. /\ x \o y \in Seq(S) /\ Len(x \o y) = Len(x) + Len(y)
      /\ \A i \in 1 .. Len(x) + Len(y) :
            (x \o y)[i] = IF i <= Len(x) THEN x[i] ELSE y[i - Len(x)]
  BY ConcatProperties
<1>2. /\ Len(x) = b - a /\ Len(y) = c - b /\ a <= b /\ b <= c /\ c <= Len(stream)
      /\ \A i \in 1 .. b - a : x[i] = stream[a + i]
      /\ \A i \in 1 .. c - b : y[i] = stream[b + i]
  BY DEF Slice
<1>3. ASSUME NEW i \in 1 .. c - a PROVE (x \o y)[i] = stream[a + i]
  <2>1. CASE i <= b - a
    BY <1>1, <1>2, <2>1
  <2>2. CASE ~(i <= b - a)
    <3>1. i - (b - a) \in 1 .. c - b /\ b + (i - (b - a)) = a + i
      BY <2>2
    <3>2. y[i - (b - a)] = stream[b + (i - (b - a))]
      BY <1>2, <3>1
    <3> QED
      BY <1>1, <1>2, <2>2, <3>1, <3>2
  <2> QED
    BY <2>1, <2>2
<1>4. a <= c /\ c <= Len(stream) /\ Len(x \o y) = c - a
  BY <1>1, <1>2
<1> QED
  BY <1>1, <1>3, <1>4 DEF Slice

\* The first piece can be sent.
LEMMA PiecesTail ==
    ASSUME NEW S, NEW q \in Seq(Seq(S)), NEW stream \in Seq(S), NEW a \in Nat,
           Pieces(q, stream, a), q # << >>
    PROVE  \E b \in Nat : /\ Head(q) \in Seq(S) /\ Slice(Head(q), stream, a, b)
                          /\ Tail(q) \in Seq(Seq(S)) /\ Pieces(Tail(q), stream, b)
<1>1. PICK at \in [0 .. Len(q) -> Nat] :
        /\ at[0] = a /\ at[Len(q)] = Len(stream)
        /\ \A k \in 1 .. Len(q) : Slice(q[k], stream, at[k - 1], at[k])
  BY DEF Pieces
<1>2. Len(q) \in Nat \ {0} /\ Head(q) = q[1] /\ q[1] \in Seq(S)
  OBVIOUS
<1>3. /\ Tail(q) \in Seq(Seq(S)) /\ Len(Tail(q)) = Len(q) - 1
      /\ \A i \in 1 .. Len(Tail(q)) : Tail(q)[i] = q[i + 1]
  BY HeadTailProperties
<1> DEFINE next == [k \in 0 .. Len(Tail(q)) |-> at[k + 1]]
           t == Tail(q)
<1>4. next \in [0 .. Len(t) -> Nat] /\ \A k \in 0 .. Len(t) : next[k] = at[k + 1]
  BY <1>2, <1>3
<1>5. Slice(q[1], stream, at[0], at[1])
  <2>1. 1 \in 1 .. Len(q) /\ 1 - 1 = 0
    BY <1>2
  <2> QED
    BY <1>1, <2>1
<1> HIDE DEF next, t
<1>6. next[0] = at[1] /\ next[Len(t)] = Len(stream)
  BY <1>1, <1>2, <1>3, <1>4 DEF t
<1>7. ASSUME NEW k \in 1 .. Len(t) PROVE Slice(t[k], stream, next[k - 1], next[k])
  <2>1. k + 1 \in 1 .. Len(q) /\ (k + 1) - 1 = k /\ k - 1 \in 0 .. Len(t) /\ (k - 1) + 1 = k
    BY <1>2, <1>3 DEF t
  <2>2. Slice(q[k + 1], stream, at[k], at[k + 1])
    BY <1>1, <2>1
  <2>3. next[k - 1] = at[k] /\ next[k] = at[k + 1]
    BY <1>4, <2>1
  <2>4. t[k] = q[k + 1]
    BY <1>3 DEF t
  <2> QED
    BY <2>2, <2>3, <2>4
<1>8. Pieces(t, stream, at[1])
  BY <1>4, <1>6, <1>7 DEF Pieces
<1>9. at[1] \in Nat
  <2>1. 1 \in 0 .. Len(q)
    BY <1>2
  <2> QED
    BY <2>1
<1> QED
  BY <1>1, <1>2, <1>3, <1>5, <1>8, <1>9 DEF t

LEMMA PiecesNone ==
    ASSUME NEW stream, NEW a, Pieces(<< >>, stream, a)
    PROVE  a = Len(stream)
BY DEF Pieces

-----------------------------------------------------------------------------
(***************************************************************************)
(* What the clients do with what they receive.                             *)
(***************************************************************************)
\* A non-empty set of naturals has a least element.
LEMMA LeastIndex ==
    ASSUME NEW T \in SUBSET Nat, T # {}
    PROVE  Min(T) \in T /\ \A y \in T : Min(T) <= y
<1> DEFINE Less == {ss \in Nat \X Nat : ss[1] < ss[2]}
<1>1. IsWellFoundedOn(Less, Nat)
  BY NatLessThanWellFounded DEF OpToRel
<1> HIDE DEF Less
<1>2. PICK x \in T : \A y \in T : <<y, x>> \notin Less
  BY <1>1, WFMin
<1>3. \A y \in T : x <= y
  <2> TAKE y \in T
  <2>1. x \in Nat /\ y \in Nat
    OBVIOUS
  <2>2. ~(y < x)
    BY <1>2, <2>1, Zenon DEF Less
  <2> QED
    BY <2>1, <2>2
<1> QED
  BY <1>3 DEF Min

LEMMA UpToNulIs ==
    ASSUME NEW S, NEW s \in Seq(S)
    PROVE  /\ UpToNul(s) \in Seq(S) /\ Len(UpToNul(s)) <= Len(s)
           /\ \A i \in 1 .. Len(UpToNul(s)) : UpToNul(s)[i] = s[i]
           /\ NoNul(UpToNul(s)) /\ (NoNul(s) => UpToNul(s) = s)
<1> DEFINE I == {i \in 1 .. Len(s) : s[i] = "NUL"}
           f == SelectInSeq(s, LAMBDA x : x = "NUL")
<1>1. f = IF I # {} THEN Min(I) ELSE 0
  BY DEF SelectInSeq
<1>2. Len(s) \in Nat /\ I \in SUBSET Nat /\ (NoNul(s) <=> I = {})
  BY DEF NoNul, Contains
<1>3. UpToNul(s) = IF f = 0 THEN s ELSE Taken(s, f - 1)
  BY DEF UpToNul, Taken
<1> HIDE DEF f
<1>4. CASE I = {}
  <2>1. NoNul(s) /\ UpToNul(s) = s
    BY <1>1, <1>2, <1>3, <1>4
  <2> QED
    BY <1>2, <2>1
<1>5. CASE I # {}
  <2>1. f \in I /\ \A i \in I : f <= i
    BY <1>1, <1>2, <1>5, LeastIndex
  <2>2. f \in 1 .. Len(s) /\ f - 1 \in 0 .. Len(s)
    BY <1>2, <2>1
  <2>3. /\ Taken(s, f - 1) \in Seq(S) /\ Len(Taken(s, f - 1)) = f - 1
        /\ \A i \in 1 .. f - 1 : Taken(s, f - 1)[i] = s[i]
    BY <2>2, TakenIs
  <2>4. UpToNul(s) = Taken(s, f - 1)
    BY <1>3, <2>2
  <2>5. \A i \in 1 .. f - 1 : s[i] # "NUL"
    BY <2>1, <2>2
  <2>6. NoNul(UpToNul(s))
    BY <2>3, <2>4, <2>5 DEF NoNul, Contains
  <2> QED
    BY <1>2, <1>5, <2>2, <2>3, <2>4, <2>6
<1> QED
  BY <1>4, <1>5

\* A client that has received the end of the head has all of the head, and what
\* comes behind belongs to the body.
LEMMA BehindHead ==
    ASSUME NEW S, NEW head \in Seq(S), NEW body \in Seq(S), NEW x \in Seq(S), NEW n \in Nat,
           Len(head) = 2, head[1] # "END", head[2] = "END",
           Slice(x, head \o body, 0, n), Contains(x, "END")
    PROVE  /\ n - 2 \in Nat
           /\ Behind(x, "END") \in Seq(S) /\ Slice(Behind(x, "END"), body, 0, n - 2)
<1> DEFINE I == {i \in 1 .. Len(x) : x[i] = "END"}
           f == SelectInSeq(x, LAMBDA y : y = "END")
<1>1. f = IF I # {} THEN Min(I) ELSE 0
  BY DEF SelectInSeq
<1>2. /\ Len(head \o body) = 2 + Len(body)
      /\ \A i \in 1 .. 2 + Len(body) : (head \o body)[i] = IF i <= 2 THEN head[i] ELSE body[i - 2]
  <2>1. /\ Len(head \o body) = Len(head) + Len(body)
        /\ \A i \in 1 .. Len(head) + Len(body) :
              (head \o body)[i] = IF i <= Len(head) THEN head[i] ELSE body[i - Len(head)]
    BY ConcatProperties
  <2>2. Len(head) = 2
    OBVIOUS
  <2> QED
    BY <2>1, <2>2, Zenon
<1>3. /\ n <= 2 + Len(body) /\ Len(x) = n /\ Len(body) \in Nat
      /\ \A i \in 1 .. n : x[i] = (head \o body)[i]
  BY <1>2 DEF Slice
<1>4. I \in SUBSET Nat /\ I # {} /\ 1 \notin I
  <2>1. I # {}
    BY DEF Contains
  <2>2. ASSUME 1 \in I PROVE FALSE
    <3>1. 1 \in 1 .. n /\ x[1] = "END" /\ 1 \in 1 .. 2 + Len(body)
      BY <1>3, <2>2
    <3>2. (head \o body)[1] = head[1]
      BY <1>2, <3>1
    <3> QED
      BY <1>3, <3>1, <3>2
  <2> QED
    BY <2>1, <2>2
<1>5. n >= 2 /\ 2 \in I
  <2>1. PICK i \in I : i # 1
    BY <1>4
  <2>2. n >= 2 /\ 2 \in 1 .. n /\ 2 \in 1 .. 2 + Len(body)
    BY <1>3, <2>1
  <2>3. x[2] = head[2]
    <3>1. (head \o body)[2] = head[2]
      BY <1>2, <2>2
    <3>2. x[2] = (head \o body)[2]
      BY <1>3, <2>2
    <3> QED
      BY <3>1, <3>2
  <2> QED
    BY <1>3, <2>2, <2>3
<1>6. f = 2
  <2>1. f \in I /\ f <= 2
    <3>1. f = Min(I)
      BY <1>1, <1>4
    <3>2. Min(I) \in I /\ \A y \in I : Min(I) <= y
      <4> HIDE DEF I
      <4> QED
        BY <1>4, LeastIndex
    <3> QED
      BY <1>5, <3>1, <3>2
  <2>2. f \in Nat /\ f # 0 /\ f # 1
    <3>1. \A i \in I : i \in Nat /\ i # 0 /\ i # 1
      BY <1>4
    <3> QED
      BY <2>1, <3>1
  <2> HIDE DEF f
  <2> QED
    BY <2>1, <2>2
<1>7. Behind(x, "END") = Left(x, 2)
  BY <1>6 DEF Behind
<1>8. /\ Left(x, 2) \in Seq(S) /\ Len(Left(x, 2)) = n - 2
      /\ \A i \in 1 .. n - 2 : Left(x, 2)[i] = x[2 + i]
  <2>1. 2 \in 0 .. Len(x)
    BY <1>3, <1>5
  <2>2. /\ Left(x, 2) \in Seq(S) /\ Len(Left(x, 2)) = Len(x) - 2
        /\ \A i \in 1 .. Len(x) - 2 : Left(x, 2)[i] = x[2 + i]
    BY <2>1, TakenIs
  <2>3. Len(x) = n
    BY <1>3
  <2> QED
    BY <2>2, <2>3
<1>9. ASSUME NEW i \in 1 .. n - 2 PROVE Left(x, 2)[i] = body[i]
  <2>1. 2 + i \in 1 .. n /\ 2 + i \in 1 .. 2 + Len(body) /\ ~(2 + i <= 2) /\ (2 + i) - 2 = i
    BY <1>3
  <2>2. (head \o body)[2 + i] = body[(2 + i) - 2]
    BY <1>2, <2>1
  <2> QED
    BY <1>3, <1>8, <2>1, <2>2
<1>10. Slice(Left(x, 2), body, 0, n - 2)
  <2>1. 0 <= n - 2 /\ n - 2 <= Len(body) /\ (n - 2) - 0 = n - 2
    BY <1>3, <1>5
  <2>2. \A i \in 1 .. (n - 2) - 0 : Left(x, 2)[i] = body[0 + i]
    BY <1>9, <2>1
  <2> QED
    BY <1>8, <2>1, <2>2 DEF Slice
<1> QED
  BY <1>5, <1>7, <1>8, <1>10

\* Nothing is written of nothing.
LEMMA WritesNothing ==
    ASSUME NEW S, NEW body \in Seq(S)
    PROVE  Writes(<< >>, body, 0)
<1>1. Len(<< >>) = 0 /\ Len(body) \in Nat
  OBVIOUS
<1>2. [i \in 1 .. Len(<< >>) |-> i] \in [1 .. Len(<< >>) -> 1 .. 0]
  BY <1>1
<1>3. Slice(<< >>, body, 0, 0)
  BY <1>1 DEF Slice
<1>4. /\ \A i \in 1 .. Len(<< >>) : << >>[i] = body[[k \in 1 .. Len(<< >>) |-> k][i]]
      /\ \A i, j \in 1 .. Len(<< >>) : FALSE
  BY <1>1
<1> QED
  BY <1>2, <1>3, <1>4 DEF Writes

\* What is written of the next symbols comes behind what was written of those
\* before them, and without NULs it is all of them.
LEMMA WritesMore ==
    ASSUME NEW S, NEW body \in Seq(S), NEW w \in Seq(S), NEW x \in Seq(S),
           NEW m \in Nat, NEW n \in Nat, Writes(w, body, m), Slice(x, body, m, n)
    PROVE  w \o UpToNul(x) \in Seq(S) /\ Writes(w \o UpToNul(x), body, n)
<1> DEFINE u == UpToNul(x)
           v == w \o u
<1>1. /\ u \in Seq(S) /\ Len(u) <= Len(x) /\ \A i \in 1 .. Len(u) : u[i] = x[i]
      /\ NoNul(x) => u = x
  BY UpToNulIs
<1> HIDE DEF u
<1>2. /\ v \in Seq(S) /\ Len(v) = Len(w) + Len(u)
      /\ \A i \in 1 .. Len(w) + Len(u) : v[i] = IF i <= Len(w) THEN w[i] ELSE u[i - Len(w)]
  BY <1>1, ConcatProperties
<1>3. /\ m <= n /\ n <= Len(body) /\ Len(x) = n - m
      /\ \A i \in 1 .. n - m : x[i] = body[m + i]
  BY DEF Slice
<1>4. Len(w) \in Nat /\ Len(u) \in Nat /\ Len(body) \in Nat
  BY <1>1
<1>5. PICK at \in [1 .. Len(w) -> 1 .. m] :
         /\ \A i \in 1 .. Len(w) : w[i] = body[at[i]]
         /\ \A i, j \in 1 .. Len(w) : i < j => at[i] < at[j]
  BY DEF Writes
<1> HIDE DEF v
<1> DEFINE to == [i \in 1 .. Len(v) |-> IF i <= Len(w) THEN at[i] ELSE m + (i - Len(w))]
<1>6. /\ \A i \in 1 .. Len(v) : to[i] = IF i <= Len(w) THEN at[i] ELSE m + (i - Len(w))
      /\ to = [i \in 1 .. Len(v) |-> to[i]]
  OBVIOUS
<1> HIDE DEF to
<1>7. ASSUME NEW i \in 1 .. Len(v), i <= Len(w)
      PROVE  /\ i \in 1 .. Len(w) /\ to[i] = at[i] /\ to[i] \in 1 .. m /\ to[i] \in 1 .. n
             /\ v[i] = body[to[i]]
  <2>1. i \in 1 .. Len(w) /\ at[i] \in 1 .. m /\ to[i] = at[i] /\ v[i] = w[i]
    BY <1>2, <1>4, <1>6, <1>7
  <2>2. w[i] = body[at[i]]
    BY <1>5, <2>1
  <2> QED
    BY <1>3, <2>1, <2>2
<1>8. ASSUME NEW i \in 1 .. Len(v), ~(i <= Len(w))
      PROVE  /\ to[i] = m + (i - Len(w)) /\ to[i] \in m + 1 .. n
             /\ v[i] = body[to[i]]
  <2>1. i - Len(w) \in 1 .. Len(u) /\ i - Len(w) \in 1 .. n - m
    BY <1>1, <1>2, <1>3, <1>4, <1>8
  <2>2. to[i] = m + (i - Len(w)) /\ v[i] = u[i - Len(w)]
    BY <1>2, <1>4, <1>6, <1>8
  <2>3. u[i - Len(w)] = x[i - Len(w)]
    BY <1>1, <2>1
  <2>4. x[i - Len(w)] = body[m + (i - Len(w))]
    BY <1>3, <2>1
  <2>5. m + (i - Len(w)) \in m + 1 .. n
    BY <1>3, <1>4, <2>1
  <2>6. to[i] \in m + 1 .. n
    BY <2>2, <2>5
  <2>7. v[i] = body[to[i]]
    BY <2>2, <2>3, <2>4
  <2> QED
    BY <2>2, <2>6, <2>7
<1>9. to \in [1 .. Len(v) -> 1 .. n]
  <2>1. ASSUME NEW i \in 1 .. Len(v) PROVE to[i] \in 1 .. n
    BY <1>7, <1>8
  <2> QED
    BY <1>6, <2>1
<1>10. ASSUME NEW i \in 1 .. Len(v), NEW j \in 1 .. Len(v), i < j
       PROVE  to[i] < to[j]
  <2>1. CASE j <= Len(w)
    <3>1. i <= Len(w) /\ i \in 1 .. Len(w) /\ j \in 1 .. Len(w)
      BY <1>4, <1>10, <2>1
    <3> QED
      BY <1>5, <1>7, <1>10, <2>1, <3>1
  <2>2. CASE i <= Len(w) /\ ~(j <= Len(w))
    <3>1. to[i] \in 1 .. m /\ to[j] \in m + 1 .. n
      BY <1>7, <1>8, <2>2
    <3> QED
      BY <3>1
  <2>3. CASE ~(i <= Len(w)) /\ ~(j <= Len(w))
    <3>1. to[i] = m + (i - Len(w)) /\ to[j] = m + (j - Len(w))
      BY <1>8, <2>3
    <3> QED
      BY <1>4, <1>10, <3>1
  <2> QED
    BY <1>4, <1>10, <2>1, <2>2, <2>3
<1>11. ASSUME NoNul(body) PROVE Slice(v, body, 0, n)
  <2>1. NoNul(x)
    <3>1. ASSUME NEW i \in 1 .. Len(x), x[i] = "NUL" PROVE FALSE
      <4>1. i \in 1 .. n - m /\ m + i \in 1 .. Len(body)
        BY <1>3, <1>4
      <4>2. body[m + i] = "NUL"
        BY <1>3, <3>1, <4>1
      <4> QED
        BY <1>11, <4>1, <4>2 DEF NoNul, Contains
    <3> QED
      BY <3>1 DEF NoNul, Contains
  <2>2. u = x
    BY <1>1, <2>1
  <2>3. Slice(w, body, 0, m)
    BY <1>11 DEF Writes
  <2>4. 0 \in Nat /\ u \in Seq(S) /\ Slice(u, body, m, n)
    BY <2>2
  <2>5. Slice(w \o u, body, 0, n)
    BY <2>3, <2>4, SliceJoin
  <2> QED
    BY <2>5 DEF v
<1>12. Writes(v, body, n)
  <2>1. \A i \in 1 .. Len(v) : v[i] = body[to[i]]
    BY <1>7, <1>8
  <2> QED
    BY <1>9, <1>10, <1>11, <2>1 DEF Writes
<1> QED
  BY <1>2, <1>12 DEF v, u

\* What is written of a body is part of whatever begins with it.
LEMMA WritesIn ==
    ASSUME NEW S, NEW body \in Seq(S), NEW w \in Seq(S), NEW n \in 0 .. Len(body),
           Writes(w, body, n), NEW bytes \in Seq(S), Len(body) <= Len(bytes),
           \A i \in 1 .. Len(body) : body[i] = bytes[i]
    PROVE  SubSequence(w, bytes) /\ (NoNul(body) => IsPrefix(w, bytes))
<1>1. Len(w) \in Nat /\ Len(body) \in Nat /\ Len(bytes) \in Nat
      /\ DOMAIN w = 1 .. Len(w) /\ DOMAIN bytes = 1 .. Len(bytes)
  OBVIOUS
<1>2. PICK at \in [1 .. Len(w) -> 1 .. n] :
         /\ \A i \in 1 .. Len(w) : w[i] = body[at[i]]
         /\ \A i, j \in 1 .. Len(w) : i < j => at[i] < at[j]
  BY DEF Writes
<1>3. SubSequence(w, bytes)
  <2>1. ASSUME NEW i \in 1 .. Len(w) PROVE at[i] \in 1 .. Len(bytes) /\ w[i] = bytes[at[i]]
    <3>1. at[i] \in 1 .. n /\ at[i] \in 1 .. Len(body) /\ at[i] \in 1 .. Len(bytes)
      BY <1>1
    <3> QED
      BY <1>2, <3>1
  <2>2. at \in [DOMAIN w -> DOMAIN bytes]
    BY <1>1, <2>1
  <2> QED
    BY <1>1, <1>2, <2>1, <2>2 DEF SubSequence
<1>4. ASSUME NoNul(body) PROVE IsPrefix(w, bytes)
  <2>1. Len(w) = n - 0 /\ \A i \in 1 .. n - 0 : w[i] = body[0 + i]
    BY <1>4 DEF Writes, Slice
  <2>2. Len(w) <= Len(bytes) /\ Len(w) \in 0 .. Len(bytes) /\ Len(w) \in 0 .. Len(w)
    BY <1>1, <2>1
  <2>3. ASSUME NEW i \in 1 .. Len(w) PROVE w[i] = bytes[i]
    <3>1. i \in 1 .. n - 0 /\ i \in 1 .. Len(body) /\ 0 + i = i
      BY <1>1, <2>1
    <3> QED
      BY <2>1, <3>1
  <2>4. /\ Taken(w, Len(w)) \in Seq(S) /\ Len(Taken(w, Len(w))) = Len(w)
        /\ \A i \in 1 .. Len(w) : Taken(w, Len(w))[i] = w[i]
    BY <2>2, TakenIs
  <2>5. /\ Taken(bytes, Len(w)) \in Seq(S) /\ Len(Taken(bytes, Len(w))) = Len(w)
        /\ \A i \in 1 .. Len(w) : Taken(bytes, Len(w))[i] = bytes[i]
    BY <2>2, TakenIs
  <2>6. Taken(w, Len(w)) = Taken(bytes, Len(w))
    <3>1. \A i \in 1 .. Len(Taken(w, Len(w))) : Taken(w, Len(w))[i] = Taken(bytes, Len(w))[i]
      BY <2>3, <2>4, <2>5
    <3>2. Len(Taken(w, Len(w))) = Len(Taken(bytes, Len(w)))
      BY <2>4, <2>5
    <3> HIDE DEF Taken
    <3> QED
      BY <2>4, <2>5, <3>1, <3>2, SeqEqual
  <2> QED
    BY <2>2, <2>6 DEF IsPrefix, Taken
<1> QED
  BY <1>3, <1>4

-----------------------------------------------------------------------------
(***************************************************************************)
(* What the servers send.                                                  *)
(***************************************************************************)
LEMMA QuotientFacts ==
    ASSUME NEW a \in Nat, NEW m \in Nat \ {0}
    PROVE  /\ a \div m \in Nat
           /\ (a \div m) * m <= a /\ a < (a \div m) * m + m
OBVIOUS

LEMMA ProductOrder ==
    ASSUME NEW a \in Nat, NEW b \in Nat, NEW m \in Nat, a <= b
    PROVE  a * m \in Nat /\ b * m \in Nat /\ a * m <= b * m
<1>1. PICK e \in Nat : b = a + e
  <2>1. b - a \in Nat /\ b = a + (b - a)
    OBVIOUS
  <2> QED
    BY <2>1
<1>2. b * m = a * m + e * m
  BY <1>1
<1>3. e * m \in Nat /\ a * m \in Nat
  OBVIOUS
<1> QED
  BY <1>2, <1>3

\* The blocks of a file cut it without gap or rest.
Cut(length, k) == IF k * MAXDATASIZE <= length THEN k * MAXDATASIZE ELSE length

LEMMA BlocksCut ==
    ASSUME NEW S, NEW bytes \in Seq(S)
    PROVE  /\ Blocks(bytes) \in Seq(Seq(S))
           /\ Cut(Len(bytes), 0) = 0 /\ Cut(Len(bytes), Len(Blocks(bytes))) = Len(bytes)
           /\ \A k \in Nat : Cut(Len(bytes), k) \in Nat
           /\ \A k \in 1 .. Len(Blocks(bytes)) :
                 Slice(Blocks(bytes)[k], bytes, Cut(Len(bytes), k - 1), Cut(Len(bytes), k))
<1> DEFINE L == Len(bytes)
           M == MAXDATASIZE
           N == (L + M - 1) \div M
           block(k) == SubSeq(bytes, (k - 1) * M + 1, Min({k * M, L}))
<1>1. L \in Nat /\ M \in Nat \ {0} /\ L + M - 1 \in Nat
  BY BlockAssumption
<1>2. N \in Nat /\ N * M <= L + M - 1 /\ L + M - 1 < N * M + M
  BY <1>1, QuotientFacts
<1> HIDE DEF N, L, M
<1>3. \A k \in Nat : k * M \in Nat
  BY <1>1, ProductOrder
<1>4. \A k \in Nat : Cut(L, k) \in Nat
  BY <1>1, <1>3 DEF Cut, M
<1>5. Cut(L, 0) = 0 /\ Cut(L, N) = L
  <2>1. 0 * M = 0
    BY <1>1
  <2>2. N * M >= L /\ N * M \in Nat
    BY <1>1, <1>2, <1>3
  <2> QED
    BY <1>1, <2>1, <2>2 DEF Cut, M
<1>6. \A k \in Nat : Min({k * M, L}) = Cut(L, k)
  <2> TAKE k \in Nat
  <2>1. k * M \in Nat /\ L \in Nat
    BY <1>1, <1>3
  <2>2. {k * M, L} \in SUBSET Nat /\ {k * M, L} # {}
    BY <2>1
  <2>3. Min({k * M, L}) \in {k * M, L} /\ \A y \in {k * M, L} : Min({k * M, L}) <= y
    BY <2>2, LeastIndex
  <2> QED
    BY <2>1, <2>3 DEF Cut, M
<1>7. ASSUME NEW k \in 1 .. N
      PROVE  block(k) \in Seq(S) /\ Slice(block(k), bytes, Cut(L, k - 1), Cut(L, k))
  <2>1. k - 1 \in Nat /\ k \in Nat /\ k <= N
    BY <1>2
  <2>2. (k - 1) * M \in Nat /\ k * M \in Nat /\ k * M = (k - 1) * M + M
    BY <1>1, <1>3, <2>1
  <2>3. k * M <= N * M
    BY <1>1, <1>2, <2>1, ProductOrder
  <2>4. (k - 1) * M < L
    BY <1>1, <1>2, <1>3, <2>2, <2>3
  <2> DEFINE a == (k - 1) * M
             b == Cut(L, k)
  <2>5. a \in Nat /\ Cut(L, k - 1) = a
    BY <1>1, <2>2, <2>4 DEF Cut, M
  <2>6. b \in Nat /\ a < b /\ b <= L
    BY <1>1, <1>4, <2>1, <2>2, <2>4 DEF Cut, M
  <2>7. block(k) = SubSeq(bytes, a + 1, b)
    BY <1>6, <2>1
  <2> HIDE DEF a, b, block
  <2>8. \A i \in a + 1 .. b : bytes[i] \in S
    BY <1>1, <2>5, <2>6 DEF L
  <2>9. /\ SubSeq(bytes, a + 1, b) \in Seq(S)
        /\ Len(SubSeq(bytes, a + 1, b)) = IF a + 1 <= b THEN b - (a + 1) + 1 ELSE 0
        /\ \A i \in 1 .. b - (a + 1) + 1 : SubSeq(bytes, a + 1, b)[i] = bytes[(a + 1) + i - 1]
    <3>1. a + 1 \in Int /\ b \in Int
      BY <2>5, <2>6
    <3> QED
      BY <2>8, <3>1, SubSeqProperties
  <2>10. Slice(block(k), bytes, a, b)
    BY <2>5, <2>6, <2>7, <2>9 DEF Slice, L
  <2> QED
    BY <2>5, <2>7, <2>9, <2>10 DEF b
<1>8. Blocks(bytes) = [k \in 1 .. N |-> block(k)]
  BY DEF Blocks, N, L, M
<1>9. \A k \in 1 .. N : block(k) \in Seq(S)
  BY <1>7
<1> HIDE DEF block
<1>10. Blocks(bytes) \in Seq(Seq(S)) /\ Len(Blocks(bytes)) = N
  BY <1>2, <1>8, <1>9
<1>11. \A k \in 1 .. N : Blocks(bytes)[k] = block(k)
  BY <1>8
<1> QED
  BY <1>4, <1>5, <1>7, <1>10, <1>11 DEF L

\* A head is sent before the pieces of what lies behind it.
LEMMA PiecesHead ==
    ASSUME NEW S, NEW h \in Seq(S), NEW body \in Seq(S), NEW q \in Seq(Seq(S)),
           Pieces(q, body, 0)
    PROVE  /\ <<h>> \o q \in Seq(Seq(S)) /\ h \o body \in Seq(S)
           /\ Pieces(<<h>> \o q, h \o body, 0)
<1> DEFINE whole == h \o body
           all == <<h>> \o q
           H == Len(h)
<1>1. /\ whole \in Seq(S) /\ Len(whole) = H + Len(body)
      /\ \A i \in 1 .. H + Len(body) : whole[i] = IF i <= H THEN h[i] ELSE body[i - H]
  BY ConcatProperties
<1>2. /\ all \in Seq(Seq(S)) /\ Len(all) = 1 + Len(q)
      /\ \A k \in 1 .. 1 + Len(q) : all[k] = IF k <= 1 THEN h ELSE q[k - 1]
  <2>1. <<h>> \in Seq(Seq(S)) /\ Len(<<h>>) = 1 /\ <<h>>[1] = h
    OBVIOUS
  <2> DEFINE s1 == <<h>>
  <2>2. s1 \in Seq(Seq(S)) /\ Len(s1) = 1 /\ s1[1] = h
    BY <2>1
  <2> HIDE DEF s1
  <2>3. /\ s1 \o q \in Seq(Seq(S)) /\ Len(s1 \o q) = Len(s1) + Len(q)
        /\ \A k \in 1 .. Len(s1) + Len(q) :
              (s1 \o q)[k] = IF k <= Len(s1) THEN s1[k] ELSE q[k - Len(s1)]
    BY <2>2, ConcatProperties
  <2>4. \A k \in 1 .. 1 + Len(q) : k <= 1 => k = 1
    OBVIOUS
  <2>5. all = s1 \o q
    BY DEF s1
  <2> HIDE DEF all
  <2> QED
    BY <2>2, <2>3, <2>4, <2>5
<1>3. PICK at \in [0 .. Len(q) -> Nat] :
         /\ at[0] = 0 /\ at[Len(q)] = Len(body)
         /\ \A k \in 1 .. Len(q) : Slice(q[k], body, at[k - 1], at[k])
  BY DEF Pieces
<1>4. H \in Nat /\ Len(body) \in Nat /\ Len(q) \in Nat
  OBVIOUS
<1> HIDE DEF whole, all, H
<1> DEFINE to == [k \in 0 .. Len(all) |-> IF k = 0 THEN 0 ELSE H + at[k - 1]]
<1>5. /\ \A k \in 0 .. Len(all) : to[k] = IF k = 0 THEN 0 ELSE H + at[k - 1]
      /\ to = [k \in 0 .. Len(all) |-> to[k]]
  OBVIOUS
<1> HIDE DEF to
<1>6. \A k \in 1 .. Len(all) : k - 1 \in 0 .. Len(q) /\ at[k - 1] \in Nat /\ to[k] = H + at[k - 1]
  <2> TAKE k \in 1 .. Len(all)
  <2>1. k - 1 \in 0 .. Len(q) /\ k \in 0 .. Len(all) /\ k # 0
    BY <1>2, <1>4
  <2> QED
    BY <1>5, <2>1
<1>7. to \in [0 .. Len(all) -> Nat]
  <2>1. ASSUME NEW k \in 0 .. Len(all) PROVE to[k] \in Nat
    <3>1. k = 0 \/ k \in 1 .. Len(all)
      BY <1>2, <1>4
    <3>2. k = 0 => to[k] = 0
      BY <1>5
    <3>3. k \in 1 .. Len(all) => to[k] \in Nat
      BY <1>4, <1>6
    <3> QED
      BY <3>1, <3>2, <3>3
  <2> QED
    BY <1>5, <2>1
<1>8. to[0] = 0 /\ to[1] = H /\ to[Len(all)] = Len(whole)
  <2>1. 0 \in 0 .. Len(all) /\ 1 \in 1 .. Len(all) /\ Len(all) \in 1 .. Len(all)
        /\ 1 - 1 = 0 /\ Len(all) - 1 = Len(q)
    BY <1>2, <1>4
  <2>2. to[0] = 0
    BY <1>5, <2>1
  <2>3. to[1] = H + at[0] /\ to[Len(all)] = H + at[Len(q)]
    BY <1>6, <2>1
  <2>4. at[0] = 0 /\ at[Len(q)] = Len(body)
    BY <1>3
  <2>5. to[1] = H + 0 /\ to[Len(all)] = H + Len(body)
    BY <2>3, <2>4
  <2> QED
    BY <1>1, <1>4, <2>2, <2>5
<1>9. ASSUME NEW k \in 1 .. Len(all) PROVE Slice(all[k], whole, to[k - 1], to[k])
  <2>1. CASE k = 1
    <3>1. all[k] = h /\ to[k - 1] = 0 /\ to[k] = H
      BY <1>2, <1>4, <1>8, <2>1
    <3>2. \A i \in 1 .. H - 0 : h[i] = whole[0 + i]
      BY <1>1, <1>4
    <3>3. Len(h) = H - 0 /\ 0 <= H /\ H <= Len(whole)
      BY <1>1, <1>4 DEF H
    <3> QED
      BY <3>1, <3>2, <3>3 DEF Slice
  <2>2. CASE k # 1
    <3> DEFINE l == k - 1
    <3>1. l \in 1 .. Len(q) /\ l \in 1 .. Len(all) /\ all[k] = q[l]
      BY <1>2, <1>4, <2>2
    <3>2. Slice(q[l], body, at[l - 1], at[l])
      BY <1>3, <3>1
    <3>3. /\ to[k - 1] = H + at[l - 1] /\ to[k] = H + at[l]
          /\ at[l - 1] \in Nat /\ at[l] \in Nat
      BY <1>6, <3>1
    <3> DEFINE a == at[l - 1]
               b == at[l]
    <3>4. /\ a <= b /\ b <= Len(body) /\ Len(q[l]) = b - a
          /\ \A i \in 1 .. b - a : q[l][i] = body[a + i]
      BY <3>2 DEF Slice
    <3>5. a \in Nat /\ b \in Nat
      BY <3>3
    <3> HIDE DEF l, a, b
    <3>6. ASSUME NEW i \in 1 .. (H + b) - (H + a) PROVE q[l][i] = whole[H + a + i]
      <4>1. i \in 1 .. b - a
        BY <1>4, <3>5
      <4>2. /\ H + a + i \in 1 .. H + Len(body) /\ ~(H + a + i <= H)
            /\ (H + a + i) - H = a + i
        BY <1>4, <3>4, <3>5, <4>1
      <4>3. whole[H + a + i] = body[(H + a + i) - H]
        BY <1>1, <4>2
      <4> QED
        BY <3>4, <4>1, <4>2, <4>3
    <3>7. /\ H + a <= H + b /\ H + b <= Len(whole) /\ Len(q[l]) = (H + b) - (H + a)
      BY <1>1, <1>4, <3>4, <3>5
    <3>8. Slice(q[l], whole, H + a, H + b)
      BY <3>6, <3>7 DEF Slice
    <3> QED
      BY <3>1, <3>3, <3>8 DEF a, b
  <2> QED
    BY <2>1, <2>2
<1>10. Pieces(all, whole, 0)
  BY <1>7, <1>8, <1>9 DEF Pieces
<1> QED
  BY <1>1, <1>2, <1>10 DEF all, whole

LEMMA PiecesOfNothing ==
    ASSUME NEW S
    PROVE  Pieces(<< >>, << >>, 0) /\ << >> \in Seq(Seq(S)) /\ << >> \in Seq(S)
<1> DEFINE at == [k \in 0 .. 0 |-> 0]
<1>1. at \in [0 .. 0 -> Nat] /\ at[0] = 0 /\ Len(<< >>) = 0
  OBVIOUS
<1> HIDE DEF at
<1>2. \A k \in 1 .. 0 : Slice(<< >>[k], << >>, at[k - 1], at[k])
  OBVIOUS
<1> QED
  BY <1>1, <1>2 DEF Pieces

\* A single piece.
LEMMA PieceAlone ==
    ASSUME NEW S, NEW h \in Seq(S)
    PROVE  <<h>> \in Seq(Seq(S)) /\ Pieces(<<h>>, h, 0)
<1> DEFINE none == << >>
<1>1. Pieces(none, none, 0) /\ none \in Seq(Seq(S)) /\ none \in Seq(S)
  BY PiecesOfNothing
<1>2. <<h>> \in Seq(Seq(S))
  OBVIOUS
<1>3. <<h>> \o none = <<h>> /\ h \o none = h
  BY <1>2, ConcatEmptySeq
<1> HIDE DEF none
<1>4. Pieces(<<h>> \o none, h \o none, 0)
  BY <1>1, PiecesHead
<1> QED
  BY <1>2, <1>3, <1>4

\* A served file; what the reply of mp1 to a request of which the child has read n
\* symbols begins with, and what comes behind that.
ServedFile(f) ==
    f \in [exists : BOOLEAN, bytes : Seq(Symbols)] /\ (~f.exists => f.bytes = << >>)

HeadOf(f, m, n) ==
    IF n < 2 \/ m # "GET" THEN BadRequest
    ELSE IF n < 3 \/ ~f.exists THEN NotFound ELSE OK

AnswerOf(f, n) == IF n < 3 \/ ~f.exists THEN NotFound ELSE OK \o f.bytes

BodyOf(f, m, n) ==
    IF n < 2 \/ m # "GET" THEN AnswerOf(f, n)
    ELSE IF n < 3 THEN << >> ELSE f.bytes

ReplyOf(f, m, n) == HeadOf(f, m, n) \o BodyOf(f, m, n)

LEMMA FourSymbols ==
    ASSUME NEW a, NEW b, NEW c, NEW d
    PROVE  /\ {a, b, c, d} \subseteq ToSet(<<a, b, c, d>>)
           /\ \A S : {a, b, c, d} \subseteq S => <<a, b, c, d>> \in Seq(S)
<1> DEFINE x == <<a, b, c, d>>
<1>1. DOMAIN x = 1 .. 4 /\ x[1] = a /\ x[2] = b /\ x[3] = c /\ x[4] = d
  OBVIOUS
<1>2. ASSUME NEW S, {a, b, c, d} \subseteq S PROVE x \in Seq(S)
  <2>1. a \in S /\ b \in S /\ c \in S /\ d \in S
    BY <1>2
  <2> QED
    BY <2>1
<1> HIDE DEF x
<1>3. \A i \in 1 .. 4 : x[i] \in ToSet(x)
  BY <1>1 DEF ToSet
<1>4. x[1] \in ToSet(x) /\ x[2] \in ToSet(x) /\ x[3] \in ToSet(x) /\ x[4] \in ToSet(x)
  BY <1>3
<1> QED
  BY <1>1, <1>2, <1>4 DEF x

LEMMA SymbolFacts ==
    /\ "200" \in Symbols /\ "400" \in Symbols /\ "404" \in Symbols /\ "length" \in Symbols
    /\ "END" \in Symbols /\ "NL" \in Symbols
    /\ OK \in Seq(Symbols) /\ NotFound \in Seq(Symbols) /\ BadRequest \in Seq(Symbols)
    /\ Request \in Seq(Symbols) /\ Len(Request) = 4 /\ Len(NotFound) = 2
    /\ \A bytes \in Contents : bytes \in Seq(Symbols)
<1>1. /\ "200" \in Symbols /\ "400" \in Symbols /\ "404" \in Symbols /\ "length" \in Symbols
      /\ "END" \in Symbols /\ "NL" \in Symbols
  BY DEF Symbols
<1>2. ToSet(Request) \subseteq Symbols /\ \A bytes \in Contents : ToSet(bytes) \subseteq Symbols
  BY DEF Symbols
<1> HIDE DEF Symbols
<1>3. OK \in Seq(Symbols) /\ NotFound \in Seq(Symbols) /\ BadRequest \in Seq(Symbols)
  BY <1>1 DEF OK, NotFound, BadRequest
<1>4. Request \in Seq(Symbols)
  <2>1. {"letter", "method /", "path ", "lines"} \subseteq Symbols
    BY <1>2, FourSymbols DEF Request
  <2> QED
    BY <2>1, FourSymbols DEF Request
<1>5. ASSUME NEW bytes \in Contents PROVE bytes \in Seq(Symbols)
  <2>1. bytes \in Seq(ToSet(bytes)) /\ ToSet(bytes) \subseteq Symbols
    BY <1>2, ContentsAssumption
  <2> QED
    BY <2>1, SeqMonotonic
<1>6. Len(Request) = 4 /\ Len(NotFound) = 2
  BY DEF Request, NotFound
<1> QED
  BY <1>1, <1>3, <1>4, <1>5, <1>6

LEMMA ReplyFacts ==
    ASSUME NEW f, ServedFile(f), NEW m, NEW n
    PROVE  /\ HeadOf(f, m, n) \in Seq(Symbols) /\ Len(HeadOf(f, m, n)) = 2
           /\ HeadOf(f, m, n)[1] # "END" /\ HeadOf(f, m, n)[2] = "END"
           /\ BodyOf(f, m, n) \in Seq(Symbols)
           /\ ReplyOf(f, m, n) \in Seq(Symbols)
           /\ Len(ReplyOf(f, m, n)) = 2 + Len(BodyOf(f, m, n))
<1>1. OK \in Seq(Symbols) /\ NotFound \in Seq(Symbols) /\ BadRequest \in Seq(Symbols)
  BY SymbolFacts
<1>2. HeadOf(f, m, n) \in Seq(Symbols)
  BY <1>1 DEF HeadOf
<1>3. /\ Len(HeadOf(f, m, n)) = 2
      /\ HeadOf(f, m, n)[1] # "END" /\ HeadOf(f, m, n)[2] = "END"
  BY DEF HeadOf, OK, NotFound, BadRequest
<1>4. BodyOf(f, m, n) \in Seq(Symbols)
  <2>1. f.bytes \in Seq(Symbols)
    BY DEF ServedFile
  <2>2. OK \o f.bytes \in Seq(Symbols)
    BY <1>1, <2>1, ConcatProperties
  <2>3. << >> \in Seq(Symbols)
    OBVIOUS
  <2> QED
    BY <1>1, <2>1, <2>2, <2>3 DEF BodyOf, AnswerOf
<1> HIDE DEF ServedFile
<1>5. /\ ReplyOf(f, m, n) \in Seq(Symbols)
      /\ Len(ReplyOf(f, m, n)) = Len(HeadOf(f, m, n)) + Len(BodyOf(f, m, n))
  BY <1>2, <1>4, ConcatProperties DEF ReplyOf
<1> QED
  BY <1>2, <1>3, <1>4, <1>5

LEMMA BlocksArePieces ==
    ASSUME NEW S, NEW bytes \in Seq(S)
    PROVE  Blocks(bytes) \in Seq(Seq(S)) /\ Pieces(Blocks(bytes), bytes, 0)
<1> DEFINE q == Blocks(bytes)
           L == Len(bytes)
           at == [k \in 0 .. Len(q) |-> Cut(L, k)]
<1>1. /\ q \in Seq(Seq(S))
      /\ Cut(L, 0) = 0 /\ Cut(L, Len(q)) = L
      /\ \A k \in Nat : Cut(L, k) \in Nat
      /\ \A k \in 1 .. Len(q) : Slice(q[k], bytes, Cut(L, k - 1), Cut(L, k))
  BY BlocksCut
<1> HIDE DEF q, L
<1>2. Len(q) \in Nat
  BY <1>1
<1>3. at \in [0 .. Len(q) -> Nat] /\ at[0] = 0 /\ at[Len(q)] = L
  BY <1>1, <1>2
<1>4. ASSUME NEW k \in 1 .. Len(q) PROVE Slice(q[k], bytes, at[k - 1], at[k])
  <2>1. k - 1 \in 0 .. Len(q) /\ k \in 0 .. Len(q)
    BY <1>2
  <2>2. at[k - 1] = Cut(L, k - 1) /\ at[k] = Cut(L, k)
    BY <2>1
  <2> QED
    BY <1>1, <2>2
<1> HIDE DEF at
<1>5. Pieces(q, bytes, 0)
  BY <1>3, <1>4 DEF Pieces, L
<1> QED
  BY <1>1, <1>5 DEF q

\* The child of mp1.
LEMMA RepliesAre ==
    ASSUME ServedFile(file), NEW n \in 1 .. 4
    PROVE  Replies(n) \in Seq(Seq(Symbols)) /\ Pieces(Replies(n), ReplyOf(file, method, n), 0)
<1> DEFINE none == << >>
           bad == n < 2 \/ method # "GET"
           missing == n < 3 \/ ~file.exists
           second == IF missing THEN <<NotFound>> ELSE <<OK>> \o Blocks(file.bytes)
           answer == AnswerOf(file, n)
<1>1. /\ OK \in Seq(Symbols) /\ NotFound \in Seq(Symbols) /\ BadRequest \in Seq(Symbols)
      /\ file.bytes \in Seq(Symbols)
  BY SymbolFacts DEF ServedFile
<1>2. second \in Seq(Seq(Symbols)) /\ answer \in Seq(Symbols) /\ Pieces(second, answer, 0)
  <2>1. CASE missing
    <3>1. <<NotFound>> \in Seq(Seq(Symbols)) /\ Pieces(<<NotFound>>, NotFound, 0)
      BY <1>1, PieceAlone
    <3>2. second = <<NotFound>> /\ answer = NotFound
      BY <2>1 DEF AnswerOf
    <3> QED
      BY <1>1, <3>1, <3>2
  <2>2. CASE ~missing
    <3>1. Blocks(file.bytes) \in Seq(Seq(Symbols)) /\ Pieces(Blocks(file.bytes), file.bytes, 0)
      BY <1>1, BlocksArePieces
    <3>2. /\ <<OK>> \o Blocks(file.bytes) \in Seq(Seq(Symbols)) /\ OK \o file.bytes \in Seq(Symbols)
          /\ Pieces(<<OK>> \o Blocks(file.bytes), OK \o file.bytes, 0)
      BY <1>1, <3>1, PiecesHead
    <3>3. second = <<OK>> \o Blocks(file.bytes) /\ answer = OK \o file.bytes
      BY <2>2 DEF AnswerOf
    <3> QED
      BY <3>2, <3>3
  <2> QED
    BY <2>1, <2>2
<1>3. CASE bad
  <2>1. Replies(n) = <<BadRequest>> \o second
    BY <1>3, Zenon DEF Replies
  <2>2. ReplyOf(file, method, n) = BadRequest \o answer
    BY <1>3, Zenon DEF ReplyOf, HeadOf, BodyOf
  <2> HIDE DEF second, answer
  <2>3. <<BadRequest>> \o second \in Seq(Seq(Symbols))
        /\ Pieces(<<BadRequest>> \o second, BadRequest \o answer, 0)
    BY <1>1, <1>2, PiecesHead
  <2> QED
    BY <2>1, <2>2, <2>3
<1>4. CASE ~bad
  <2>1. Replies(n) = none \o second
    BY <1>4, Zenon DEF Replies
  <2>2. Replies(n) = second
    <3> HIDE DEF second
    <3> QED
      BY <1>2, <2>1, ConcatEmptySeq
  <2>3. ReplyOf(file, method, n) = answer
    <3>1. CASE n < 3
      <4>1. HeadOf(file, method, n) = NotFound /\ BodyOf(file, method, n) = none
        BY <1>4, <3>1, Zenon DEF HeadOf, BodyOf
      <4>2. answer = NotFound
        BY <3>1, Zenon DEF AnswerOf
      <4> QED
        BY <1>1, <4>1, <4>2, ConcatEmptySeq DEF ReplyOf
    <3>2. CASE ~(n < 3) /\ ~file.exists
      <4>1. HeadOf(file, method, n) = NotFound /\ BodyOf(file, method, n) = file.bytes
        BY <1>4, <3>2, Zenon DEF HeadOf, BodyOf
      <4>2. answer = NotFound
        BY <3>2, Zenon DEF AnswerOf
      <4>3. file.bytes = none
        BY <3>2 DEF ServedFile
      <4> QED
        BY <1>1, <4>1, <4>2, <4>3, ConcatEmptySeq DEF ReplyOf
    <3>3. CASE ~(n < 3) /\ file.exists
      <4>1. HeadOf(file, method, n) = OK /\ BodyOf(file, method, n) = file.bytes
        BY <1>4, <3>3, Zenon DEF HeadOf, BodyOf
      <4>2. answer = OK \o file.bytes
        BY <3>3, Zenon DEF AnswerOf
      <4> QED
        BY <4>1, <4>2 DEF ReplyOf
    <3> QED
      BY <3>1, <3>2, <3>3
  <2> QED
    BY <1>2, <2>2, <2>3
<1> QED
  BY <1>3, <1>4

\* The child of mp0: the length, three newlines, and text without a NUL.
LEMMA ResultIs ==
    ASSUME ServedFile(file)
    PROVE  /\ result \in Seq(Symbols) /\ <<result>> \in Seq(Seq(Symbols))
           /\ Len(result) \in Nat /\ Len(result) >= 4 /\ result # << >>
           /\ result[1] # "NL" /\ result[2] = "NL"
           /\ Left(result, 3) \in Seq(Symbols) /\ Len(Left(result, 3)) = Len(result) - 3
           /\ \A i \in 1 .. Len(result) - 3 : Left(result, 3)[i] = result[3 + i]
           /\ NoNul(Left(result, 3))
<1> DEFINE text == UpToNul(file.bytes)
           start == <<"length", "NL", "NL", "NL">>
<1>1. text \in Seq(Symbols) /\ NoNul(text) /\ Len(text) \in Nat
  <2>1. file.bytes \in Seq(Symbols)
    BY DEF ServedFile
  <2>2. text \in Seq(Symbols) /\ NoNul(text)
    BY <2>1, UpToNulIs
  <2> HIDE DEF text
  <2> QED
    BY <2>2
<1>2. /\ start \in Seq(Symbols) /\ Len(start) = 4
      /\ start[1] = "length" /\ start[2] = "NL" /\ start[4] = "NL"
  <2>1. "length" \in Symbols /\ "NL" \in Symbols
    BY SymbolFacts
  <2>2. {"length", "NL", "NL", "NL"} \subseteq Symbols
    BY <2>1
  <2>3. start \in Seq(Symbols)
    BY <2>2, FourSymbols
  <2> QED
    BY <2>3
<1> HIDE DEF text, start
<1>3. result = start \o text
  BY DEF result, text, start
<1>4. /\ start \o text \in Seq(Symbols) /\ Len(start \o text) = 4 + Len(text)
      /\ \A i \in 1 .. 4 + Len(text) :
            (start \o text)[i] = IF i <= 4 THEN start[i] ELSE text[i - 4]
  <2>1. /\ start \o text \in Seq(Symbols) /\ Len(start \o text) = Len(start) + Len(text)
        /\ \A i \in 1 .. Len(start) + Len(text) :
              (start \o text)[i] = IF i <= Len(start) THEN start[i] ELSE text[i - Len(start)]
    BY <1>1, <1>2, ConcatProperties
  <2> QED
    BY <1>2, <2>1, Zenon
<1>5. /\ result \in Seq(Symbols) /\ Len(result) = 4 + Len(text)
      /\ \A i \in 1 .. 4 + Len(text) : result[i] = IF i <= 4 THEN start[i] ELSE text[i - 4]
  BY <1>3, <1>4, Zenon
<1> HIDE DEF result
<1>6. Len(result) \in Nat /\ Len(result) >= 4 /\ result # << >> /\ 3 \in 0 .. Len(result)
  BY <1>1, <1>5
<1>7. result[1] = "length" /\ result[2] = "NL" /\ result[4] = "NL"
  <2>1. 1 \in 1 .. 4 + Len(text) /\ 2 \in 1 .. 4 + Len(text) /\ 4 \in 1 .. 4 + Len(text)
    BY <1>1
  <2> QED
    BY <1>2, <1>5, <2>1
<1>8. /\ Left(result, 3) \in Seq(Symbols) /\ Len(Left(result, 3)) = Len(result) - 3
      /\ \A i \in 1 .. Len(result) - 3 : Left(result, 3)[i] = result[3 + i]
  <2>1. result \in Seq(Symbols) /\ 3 \in 0 .. Len(result)
    BY <1>5, <1>6
  <2>2. /\ Taken(result, 3) \in Seq(Symbols) /\ Len(Taken(result, 3)) = 3
        /\ \A i \in 1 .. 3 : Taken(result, 3)[i] = result[i]
        /\ Left(result, 3) \in Seq(Symbols) /\ Len(Left(result, 3)) = Len(result) - 3
        /\ \A i \in 1 .. Len(result) - 3 : Left(result, 3)[i] = result[3 + i]
    BY <2>1, TakenIs, Zenon
  <2> QED
    BY <2>2, Zenon
<1>9. NoNul(Left(result, 3))
  <2>1. ASSUME NEW i \in 1 .. Len(Left(result, 3)), Left(result, 3)[i] = "NUL" PROVE FALSE
    <3>1. i \in 1 .. Len(result) - 3 /\ 3 + i \in 1 .. 4 + Len(text) /\ result[3 + i] = "NUL"
      BY <1>1, <1>5, <1>8, <2>1
    <3>2. i # 1
      BY <1>7, <3>1
    <3>3. i - 1 \in 1 .. Len(text) /\ ~(3 + i <= 4) /\ (3 + i) - 4 = i - 1
      BY <1>1, <1>5, <3>1, <3>2
    <3>4. text[i - 1] = "NUL"
      BY <1>5, <3>1, <3>3
    <3> QED
      BY <1>1, <3>3, <3>4 DEF NoNul, Contains
  <2> QED
    BY <2>1 DEF NoNul, Contains
<1>10. <<result>> \in Seq(Seq(Symbols))
  BY <1>5
<1> QED
  BY <1>5, <1>6, <1>7, <1>8, <1>9, <1>10

\* What the client of mp0 prints of the first n symbols.
LEMMA OncePrinted ==
    ASSUME NEW S, NEW r \in Seq(S), Len(r) >= 4, r[1] # "NL", r[2] = "NL", NEW n \in 1 .. Len(r)
    PROVE  LET x == Taken(r, n)
           IN  /\ ~Contains(x, "NL") => n = 1
               /\ Contains(x, "NL") => /\ n >= 2 /\ PrintedFrom(x) = 4
                                      /\ SubSeq(x, 4, n) \in Seq(S)
                                      /\ Slice(SubSeq(x, 4, n), r, 3, IF n < 3 THEN 3 ELSE n)
<1> DEFINE x == Taken(r, n)
           I == {i \in 1 .. Len(x) : x[i] = "NL"}
           f == SelectInSeq(x, LAMBDA y : y = "NL")
<1>1. /\ x \in Seq(S) /\ Len(x) = n /\ \A i \in 1 .. n : x[i] = r[i]
      /\ n \in Nat /\ n >= 1 /\ n <= Len(r) /\ Len(r) \in Nat
  <2>1. n \in 0 .. Len(r) /\ Len(r) \in Nat
    OBVIOUS
  <2> QED
    BY <2>1, TakenIs
<1> HIDE DEF x
<1>2. n >= 2 => 2 \in I
  BY <1>1
<1>3. ~Contains(x, "NL") => n = 1
  BY <1>1, <1>2 DEF Contains
<1>4. ASSUME Contains(x, "NL")
      PROVE  /\ n >= 2 /\ PrintedFrom(x) = 4 /\ SubSeq(x, 4, n) \in Seq(S)
             /\ Slice(SubSeq(x, 4, n), r, 3, IF n < 3 THEN 3 ELSE n)
  <2>1. I \in SUBSET Nat /\ I # {} /\ 1 \notin I
    BY <1>1, <1>4 DEF Contains
  <2>2. n >= 2 /\ 2 \in I
    <3>1. PICK i \in I : i # 1
      BY <2>1
    <3>2. n >= 2
      BY <1>1, <3>1
    <3> QED
      BY <1>2, <3>2
  <2>3. f = Min(I)
    BY <2>1 DEF SelectInSeq
  <2>4. Min(I) \in I /\ Min(I) <= 2
    <3> HIDE DEF I
    <3> QED
      BY <2>1, <2>2, LeastIndex
  <2>5. Min(I) = 2
    <3>1. \A i \in I : i \in Nat /\ i # 0 /\ i # 1
      BY <2>1
    <3> HIDE DEF I
    <3> QED
      BY <2>4, <3>1
  <2>6. PrintedFrom(x) = 4
    BY <2>3, <2>5 DEF PrintedFrom
  <2>7. /\ SubSeq(x, 4, n) \in Seq(S)
        /\ Len(SubSeq(x, 4, n)) = IF 4 <= n THEN n - 4 + 1 ELSE 0
        /\ \A i \in 1 .. n - 4 + 1 : SubSeq(x, 4, n)[i] = x[4 + i - 1]
    <3>1. \A i \in 4 .. n : x[i] \in S
      BY <1>1
    <3> QED
      BY <1>1, <3>1, SubSeqProperties
  <2>8. CASE n < 3
    BY <1>1, <2>2, <2>6, <2>7, <2>8 DEF Slice
  <2>9. CASE ~(n < 3)
    <3>1. Len(SubSeq(x, 4, n)) = n - 3 /\ 3 <= n
      BY <1>1, <2>7, <2>9
    <3>2. ASSUME NEW i \in 1 .. n - 3 PROVE SubSeq(x, 4, n)[i] = r[3 + i]
      <4>1. i \in 1 .. n - 4 + 1 /\ 4 + i - 1 = 3 + i /\ 3 + i \in 1 .. n
        BY <1>1
      <4> QED
        BY <1>1, <2>7, <4>1
    <3>3. Slice(SubSeq(x, 4, n), r, 3, n)
      BY <1>1, <3>1, <3>2 DEF Slice
    <3> QED
      BY <2>2, <2>6, <2>7, <2>9, <3>3
  <2> QED
    BY <1>1, <2>8, <2>9
<1> QED
  BY <1>3, <1>4 DEF x

-----------------------------------------------------------------------------
(***************************************************************************)
(* The invariant of the servers and their clients.                         *)
(***************************************************************************)
ServerInv ==
    /\ program \in {"mp0", "mp1"} /\ ServedFile(file)
    /\ server \in {"binding", "accepting", "forking", "closing", "exited"}
    /\ p \in 0 .. Addresses + 1 /\ sockets \in 0 .. 1
    /\ server = "binding" => sockets = 0
    /\ newFd = {} \/ \E c \in Conns : newFd = {c}
    /\ server \notin {"forking", "closing"} => newFd = {}
    /\ pending \in BOOLEAN /\ handling \in BOOLEAN /\ faults \in 0 .. MaxFaults
    /\ Zombies # {} => pending \/ handling

\* A connection waits for accept at most once.
BacklogInv ==
    /\ backlog \in Seq(Conns)
    /\ \A i, j \in 1 .. Len(backlog) : i # j => backlog[i] # backlog[j]

Waiting(c) == \E i \in 1 .. Len(backlog) : backlog[i] = c

ConnTypes ==
    /\ client \in [Conns -> {"new", "connected", "first", "more", "done", "crashed", "dead", "refused"}]
    /\ holders \in [Conns -> SUBSET {"backlog", "parent", "child"}]
    /\ toServer \in [Conns -> Seq(Symbols)] /\ toClient \in [Conns -> Seq(Symbols)]
    /\ reset \in [Conns -> BOOLEAN]
    /\ child \in [Conns -> {"none", "started", "replying", "zombie", "reaped"}]
    /\ out \in [Conns -> Seq(Seq(Symbols))]
    /\ asked \in [Conns -> 0 .. 4] /\ output \in [Conns -> Seq(Symbols)]
    /\ stray \in [Conns -> BOOLEAN]

\* Who holds a descriptor of the server's end: a connection that has lost its
\* last one never gets another.
Held(c) ==
    /\ "backlog" \in holders[c] <=> Waiting(c)
    /\ "parent" \in holders[c] <=> c \in newFd
    /\ "child" \in holders[c] <=> child[c] \in {"started", "replying"}
    /\ Waiting(c) => holders[c] = {"backlog"} /\ child[c] = "none"
    /\ client[c] \in {"new", "refused"} => holders[c] = {} /\ child[c] = "none" /\ ~reset[c]
    /\ c \in newFd /\ server = "forking" => child[c] = "none"
    /\ reset[c] => holders[c] = {}
    /\ client[c] = "done" /\ program = "mp1" => holders[c] = {}

Answering(c) == child[c] \notin {"none", "started"}

\* The request: nothing comes back before it is read.
Asking(c) ==
    /\ ~Answering(c) => /\ out[c] = << >> /\ toClient[c] = << >> /\ output[c] = << >>
                        /\ asked[c] = 0 /\ client[c] # "more" /\ toServer[c] \in {<< >>, Request}
                        /\ program = "mp1" => ~stray[c]
    /\ asked[c] # 0 => program = "mp1" /\ client[c] \notin {"new", "connected"}
    /\ client[c] = "connected" => program = "mp1"
    /\ client[c] \in {"new", "connected"} => toServer[c] = << >>
    /\ asked[c] = 4 => toServer[c] = << >> /\ ~reset[c]
    /\ Answering(c) /\ ~Gone(c) => /\ program = "mp1" => asked[c] # 0
                                   /\ child[c] # "replying" => out[c] = << >>

\* The reply of mp1: a symbols are received, those up to the b-th wait in the stream,
\* and the child still has the others to send.
Underway(c) ==
    \E a, b \in Nat :
        /\ Slice(toClient[c], ReplyOf(file, method, asked[c]), a, b)
        /\ Pieces(out[c], ReplyOf(file, method, asked[c]), b)
        /\ client[c] = "first" => a = 0 /\ output[c] = << >>
        /\ client[c] = "more" => a - 2 \in Nat /\ Writes(output[c], BodyOf(file, method, asked[c]), a - 2)

Replied(c) ==
    program = "mp1" =>
        /\ Answering(c) /\ ~Gone(c) => Underway(c)
        /\ \E n \in 0 .. Len(BodyOf(file, method, asked[c])) :
              Writes(output[c], BodyOf(file, method, asked[c]), n)
        /\ client[c] = "done" /\ asked[c] = 4 =>
              Writes(output[c], BodyOf(file, method, asked[c]),
                     Len(BodyOf(file, method, asked[c])))
        /\ stray[c] => 2 + Len(BodyOf(file, method, asked[c])) >= ClientBuffer

\* The reply of mp0, sent and received in one call: the n symbols that recv returned
\* were printed from the fourth on.
Printed(c) ==
    \E n \in 1 .. Len(result) :
        /\ toClient[c] = Left(result, n)
        /\ Slice(output[c], result, 3, IF n < 3 THEN 3 ELSE n)
        /\ stray[c] => n < 3

Once(c) ==
    program = "mp0" =>
        /\ toServer[c] = << >> /\ ~reset[c]
        /\ client[c] # "done" => output[c] = << >> /\ ~stray[c]
        /\ client[c] = "first" /\ Answering(c) =>
              \/ child[c] = "replying" /\ out[c] = <<result>> /\ toClient[c] = << >>
              \/ out[c] = << >> /\ toClient[c] = result
        /\ client[c] = "done" =>
              \/ Printed(c)
              \/ child[c] = "none" /\ holders[c] = {} /\ output[c] = << >>

StreamInv ==
    /\ ServerInv /\ BacklogInv /\ ConnTypes
    /\ \A c \in Conns : Held(c) /\ Asking(c) /\ Replied(c) /\ Once(c)

LEMMA InitInv == Init => StreamInv
<1> SUFFICES ASSUME Init PROVE StreamInv
  OBVIOUS
<1>1. ServedFile(file)
  <2>1. CASE file \in [exists : {TRUE}, bytes : Contents]
    <3>1. file.exists = TRUE /\ file.bytes \in Contents
      BY <2>1
    <3>2. file \in [exists : BOOLEAN, bytes : Seq(Symbols)]
      BY <2>1, SymbolFacts
    <3> QED
      BY <3>1, <3>2 DEF ServedFile
  <2>2. CASE file \in [exists : {FALSE}, bytes : {<< >>}]
    <3>1. file.bytes = << >> /\ file \in [exists : BOOLEAN, bytes : Seq(Symbols)]
      <4> DEFINE none == << >>
      <4>1. none \in Seq(Symbols) /\ file \in [exists : {FALSE}, bytes : {none}]
        <5>1. none \in Seq(Symbols)
          OBVIOUS
        <5>2. file \in [exists : {FALSE}, bytes : {none}]
          BY <2>2, Zenon
        <5> QED
          BY <5>1, <5>2
      <4> HIDE DEF none
      <4>2. file.bytes = none /\ file \in [exists : BOOLEAN, bytes : Seq(Symbols)]
        BY <4>1
      <4> QED
        BY <4>2 DEF none
    <3> QED
      BY <3>1 DEF ServedFile
  <2> QED
    BY <2>1, <2>2 DEF Init
<1>2. ServerInv
  <2>1. Addresses \in Nat /\ MaxFaults \in Nat
    BY ServerAssumption, StreamsAssumption
  <2>2. p \in 0 .. Addresses + 1 /\ faults \in 0 .. MaxFaults
    BY <2>1 DEF Init, ServerInit, StreamsInit
  <2>3. Zombies = {}
    BY DEF Init, ServerInit, Zombies
  <2>4. program \in {"mp0", "mp1"}
    BY DEF Init
  <2>5. server = "binding" /\ sockets = 0 /\ newFd = {} /\ pending = FALSE /\ handling = FALSE
    BY DEF Init, ServerInit
  <2>6. pending \in BOOLEAN /\ handling \in BOOLEAN
    BY <2>5, Zenon
  <2> QED
    BY <1>1, <2>2, <2>3, <2>4, <2>5, <2>6 DEF ServerInv
<1>3. BacklogInv
  BY DEF Init, StreamsInit, BacklogInv
<1>4. ConnTypes
  <2>1. << >> \in Seq(Symbols) /\ << >> \in Seq(Seq(Symbols))
    OBVIOUS
  <2> QED
    BY <2>1 DEF Init, StreamsInit, ServerInit, ConnTypes
<1>5. ASSUME NEW c \in Conns PROVE Held(c) /\ Asking(c) /\ Replied(c) /\ Once(c)
  <2>1. /\ client[c] = "new" /\ holders[c] = {} /\ toServer[c] = << >> /\ toClient[c] = << >>
        /\ reset[c] = FALSE /\ child[c] = "none" /\ out[c] = << >> /\ asked[c] = 0
        /\ output[c] = << >> /\ newFd = {} /\ Len(backlog) = 0 /\ stray[c] = FALSE
    BY DEF Init, StreamsInit, ServerInit
  <2>2. Held(c) /\ Asking(c) /\ Once(c)
    BY <2>1 DEF Held, Asking, Once, Waiting, Answering
  <2>3. BodyOf(file, method, asked[c]) \in Seq(Symbols)
    BY <1>1, ReplyFacts
  <2>4. Writes(output[c], BodyOf(file, method, asked[c]), 0)
        /\ 0 \in 0 .. Len(BodyOf(file, method, asked[c]))
    BY <2>1, <2>3, WritesNothing
  <2> QED
    BY <2>1, <2>2, <2>4 DEF Replied, Answering
<1> QED
  BY <1>2, <1>3, <1>4, <1>5 DEF StreamInv

\* What concerns the server alone, from one step to the next.
LEMMA ServerKept ==
    ASSUME StreamInv, Next
    PROVE  ServerInv'
<1>1. /\ program \in {"mp0", "mp1"} /\ ServedFile(file) /\ UNCHANGED <<program, method, file>>
      /\ ServedFile(file)'
  <2>1. UNCHANGED <<program, method, file>>
    BY DEF Next, Processes, Server, Child, Client, Parent, Handler, HttpChild, HttpClient,
           exchangeVars, Connect, FailToConnect, Kill, StartReply, ReceiveOnce, ReceiveNothing,
           ReadRequest, NoRequest, SendRequest, ReceiveHead, NoHead, ReceiveMore, ReceiveEnd
  <2> QED
    BY <2>1 DEF StreamInv, ServerInv, ServedFile
<1>2. /\ server \in {"binding", "accepting", "forking", "closing", "exited"}
      /\ p \in 0 .. Addresses + 1 /\ sockets \in 0 .. 1
      /\ server = "binding" => sockets = 0
      /\ newFd = {} \/ \E c \in Conns : newFd = {c}
      /\ server \notin {"forking", "closing"} => newFd = {}
      /\ pending \in BOOLEAN /\ handling \in BOOLEAN /\ faults \in 0 .. MaxFaults
      /\ Zombies # {} => pending \/ handling
      /\ child \in [Conns -> {"none", "started", "replying", "zombie", "reaped"}]
      /\ Addresses \in Nat /\ MaxFaults \in Nat
  BY ServerAssumption, StreamsAssumption DEF StreamInv, ServerInv, ConnTypes
<1>3. CASE Server
  <2>1. CASE TryAddress
    BY <1>1, <1>2, <2>1 DEF TryAddress, BindFails, ServerInv, Zombies, streamVars
  <2>2. CASE FailToBind
    BY <1>1, <1>2, <2>2 DEF FailToBind, ServerInv, Zombies, streamVars
  <2>3. CASE Accept
    <3>1. Head(backlog) \in Conns
      BY <2>3 DEF Accept, StreamInv, BacklogInv
    <3> QED
      BY <1>1, <1>2, <2>3, <3>1 DEF Accept, ServerInv, Zombies
  <2>4. CASE Fork
    <3>1. Zombies' \subseteq Zombies
      BY <1>2, <2>4 DEF Fork, Zombies
    <3> QED
      BY <1>1, <1>2, <2>4, <3>1 DEF Fork, ServerInv
  <2>5. CASE ForkFails
    BY <1>1, <1>2, <2>5 DEF ForkFails, Fault, ServerInv, Zombies
  <2>6. CASE ParentClose
    BY <1>1, <1>2, <2>6 DEF ParentClose, ServerInv, Zombies
  <2>7. CASE Signal
    BY <1>1, <1>2, <2>7 DEF Signal, ServerInv, Zombies, streamVars
  <2>8. CASE Reap
    <3>1. Zombies' \subseteq Zombies
      BY <1>2, <2>8 DEF Reap, Zombies
    <3> QED
      BY <1>1, <1>2, <2>8, <3>1 DEF Reap, ServerInv, streamVars
  <2>9. CASE HandlerReturns
    BY <1>1, <1>2, <2>9 DEF HandlerReturns, ServerInv, Zombies, streamVars
  <2> QED
    BY <1>3, <2>1, <2>2, <2>3, <2>4, <2>5, <2>6, <2>7, <2>8, <2>9 DEF Server, Parent, Handler
<1>4. ASSUME NEW c \in Conns, Child(c) PROVE ServerInv'
  <2>1. CASE ReadRequest(c) \/ NoRequest(c) \/ StartReply(c)
    <3>1. /\ child' = [child EXCEPT ![c] = "replying"]
          /\ UNCHANGED <<faults, server, p, sockets, newFd, pending, handling>>
      BY <2>1 DEF ReadRequest, NoRequest, StartReply, streamVars
    <3>2. Zombies' \subseteq Zombies
      BY <1>2, <3>1 DEF Zombies
    <3> QED
      BY <1>1, <1>2, <3>1, <3>2 DEF ServerInv
  <2>2. CASE ChildSend(c) \/ ChildExit(c)
    <3>1. /\ UNCHANGED <<faults, server, p, sockets, newFd, handling>>
          /\ pending' = TRUE \/ UNCHANGED <<child, pending>>
      BY <2>2 DEF ChildSend, ChildExit
    <3> QED
      BY <1>1, <1>2, <3>1 DEF ServerInv, Zombies
  <2> QED
    BY <1>4, <2>1, <2>2 DEF Child, HttpChild
<1>5. ASSUME NEW c \in Conns, Client(c) \/ Connect(c) \/ FailToConnect(c) \/ Kill(c)
      PROVE  ServerInv'
  <2>1. /\ UNCHANGED serverVars
        /\ faults' = faults \/ (faults < MaxFaults /\ faults' = faults + 1)
    BY <1>5 DEF Client, HttpClient, Connect, FailToConnect, Kill, ReceiveOnce, ReceiveNothing,
                SendRequest, ReceiveHead, NoHead, ReceiveMore, ReceiveEnd, Fault
  <2> QED
    BY <1>1, <1>2, <2>1 DEF serverVars, ServerInv, Zombies
<1> QED
  BY <1>3, <1>4, <1>5 DEF Next, Processes

LEMMA BacklogKept ==
    ASSUME StreamInv, Next
    PROVE  BacklogInv'
<1>1. /\ backlog \in Seq(Conns)
      /\ \A i, j \in 1 .. Len(backlog) : i # j => backlog[i] # backlog[j]
      /\ \A c \in Conns : Held(c)
  BY DEF StreamInv, BacklogInv
<1>2. CASE UNCHANGED backlog
  BY <1>1, <1>2 DEF BacklogInv
<1>3. ASSUME NEW c \in Conns, Connect(c) PROVE BacklogInv'
  <2>1. backlog' = Append(backlog, c) /\ ~Waiting(c)
    BY <1>1, <1>3 DEF Connect, Held
  <2> QED
    BY <1>1, <2>1 DEF BacklogInv, Waiting
<1>4. CASE Accept
  <2>1. backlog # << >> /\ backlog' = Tail(backlog)
    BY <1>4 DEF Accept
  <2>2. /\ Tail(backlog) \in Seq(Conns) /\ Len(Tail(backlog)) = Len(backlog) - 1
        /\ \A i \in 1 .. Len(Tail(backlog)) : Tail(backlog)[i] = backlog[i + 1]
    BY <1>1, <2>1, HeadTailProperties
  <2> QED
    BY <1>1, <2>1, <2>2 DEF BacklogInv
<1>5. UNCHANGED backlog \/ Accept \/ \E c \in Conns : Connect(c)
  BY DEF Next, Processes, Server, Child, Client, Parent, Handler, HttpChild, HttpClient,
         TryAddress, FailToBind, Fork, ForkFails, ParentClose, Signal, Reap, HandlerReturns,
         ChildSend, ChildExit, FailToConnect, Kill, StartReply, ReceiveOnce, ReceiveNothing,
         ReadRequest, NoRequest, SendRequest, ReceiveHead, NoHead, ReceiveMore, ReceiveEnd, streamVars
<1> QED
  BY <1>2, <1>3, <1>4, <1>5

\* What a step may change of the connections, by type.
LEMMA TypesKept ==
    ASSUME StreamInv, Next
    PROVE  ConnTypes'
<1>1. /\ client \in [Conns -> {"new", "connected", "first", "more", "done", "crashed", "dead", "refused"}]
      /\ holders \in [Conns -> SUBSET {"backlog", "parent", "child"}]
      /\ toServer \in [Conns -> Seq(Symbols)] /\ toClient \in [Conns -> Seq(Symbols)]
      /\ reset \in [Conns -> BOOLEAN]
      /\ child \in [Conns -> {"none", "started", "replying", "zombie", "reaped"}]
      /\ out \in [Conns -> Seq(Seq(Symbols))]
      /\ asked \in [Conns -> 0 .. 4] /\ output \in [Conns -> Seq(Symbols)]
      /\ stray \in [Conns -> BOOLEAN]
      /\ ServedFile(file) /\ newFd \in SUBSET Conns
  BY DEF StreamInv, ConnTypes, ServerInv
<1> DEFINE S == Seq(Symbols)
           SS == Seq(Seq(Symbols))
<1>2. << >> \in S /\ << >> \in SS /\ Request \in S
  BY SymbolFacts
<1>3. ASSUME NEW s \in S, NEW n \in Cuts(s)
      PROVE  Taken(s, n) \in S /\ Left(s, n) \in S /\ n \in 1 .. Len(s)
  <2>1. n \in 1 .. Len(s) /\ n \in 0 .. Len(s)
    BY <1>3 DEF Cuts
  <2> QED
    BY <2>1, TakenIs
<1>4. ASSUME NEW s \in S PROVE UpToNul(s) \in S
  BY UpToNulIs
<1>5. ASSUME NEW s \in S, Contains(s, "END") PROVE Behind(s, "END") \in S
  <2> DEFINE f == SelectInSeq(s, LAMBDA y : y = "END")
             I == {i \in 1 .. Len(s) : s[i] = "END"}
  <2>1. f = IF I # {} THEN Min(I) ELSE 0
    BY DEF SelectInSeq
  <2>2. I \in SUBSET Nat /\ I # {}
    BY <1>5 DEF Contains
  <2> HIDE DEF f
  <2>3. f \in I
    BY <2>1, <2>2, LeastIndex
  <2>4. f \in 0 .. Len(s)
    BY <2>3
  <2>5. Behind(s, "END") = Left(s, f)
    BY DEF Behind, f
  <2> QED
    BY <2>4, <2>5, TakenIs
<1>6. ASSUME NEW s \in S, NEW t \in S PROVE s \o t \in S
  BY ConcatProperties
<1>7. ASSUME NEW q \in SS, q # << >> PROVE Head(q) \in S /\ Tail(q) \in SS
  BY <1>7, HeadTailProperties
<1>8. ASSUME NEW c \in Conns, NEW n \in Cuts(toServer[c]), child[c] = "started"
      PROVE  n \in 1 .. 4 /\ n \in 0 .. 4
  <2>1. toServer[c] \in {<< >>, Request} /\ toServer[c] \in S
    BY <1>1, <1>8 DEF StreamInv, Asking, Answering
  <2>2. Len(toServer[c]) <= 4 /\ Len(toServer[c]) \in Nat
    <3>1. Len(<< >>) = 0 /\ Len(Request) = 4
      BY SymbolFacts
    <3>2. Len(toServer[c]) = 0 \/ Len(toServer[c]) = 4
      BY <2>1, <3>1
    <3>3. ASSUME NEW l, l = 0 \/ l = 4 PROVE l <= 4 /\ l \in Nat
      BY <3>3
    <3> QED
      BY <3>2, <3>3, Zenon
  <2>3. n \in 1 .. Len(toServer[c])
    BY DEF Cuts
  <2> QED
    BY <2>2, <2>3
<1> HIDE DEF S, SS
<1>9. ASSUME NEW n \in 1 .. 4 PROVE Replies(n) \in SS
  BY <1>1, RepliesAre DEF SS
<1>10. <<result>> \in SS
  BY <1>1, ResultIs DEF SS
<1> DEFINE C == {"new", "connected", "first", "more", "done", "crashed", "dead", "refused"}
           K == {"none", "started", "replying", "zombie", "reaped"}
           H == SUBSET {"backlog", "parent", "child"}
<1>11. /\ client \in [Conns -> C] /\ holders \in [Conns -> H] /\ toServer \in [Conns -> S]
       /\ toClient \in [Conns -> S] /\ reset \in [Conns -> BOOLEAN] /\ child \in [Conns -> K]
       /\ out \in [Conns -> SS] /\ asked \in [Conns -> 0 .. 4] /\ output \in [Conns -> S]
       /\ stray \in [Conns -> BOOLEAN]
  BY <1>1 DEF S, SS
<1>12. ConnTypes' <=>
         /\ client' \in [Conns -> C] /\ holders' \in [Conns -> H] /\ toServer' \in [Conns -> S]
         /\ toClient' \in [Conns -> S] /\ reset' \in [Conns -> BOOLEAN] /\ child' \in [Conns -> K]
         /\ out' \in [Conns -> SS] /\ asked' \in [Conns -> 0 .. 4] /\ output' \in [Conns -> S]
         /\ stray' \in [Conns -> BOOLEAN]
  BY DEF ConnTypes, S, SS
<1>13. ASSUME NEW c \in Conns, NEW who, Close(c, who)
       PROVE  holders' \in [Conns -> H] /\ reset' \in [Conns -> BOOLEAN]
  BY <1>11, <1>13 DEF Close
<1>14. ASSUME NEW s \in Seq(Symbols), NEW n \in Cuts(s)
       PROVE  SubSeq(Taken(s, n), PrintedFrom(Taken(s, n)), n) \in Seq(Symbols)
  <2> DEFINE x == Taken(s, n)
             f == SelectInSeq(x, LAMBDA y : y = "NL")
             I == {i \in 1 .. Len(x) : x[i] = "NL"}
  <2>1. n \in 0 .. Len(s)
    BY <1>14 DEF Cuts
  <2>2. x \in Seq(Symbols) /\ Len(x) = n
    BY <2>1, TakenIs
  <2> HIDE DEF x
  <2>3. f = IF I # {} THEN Min(I) ELSE 0
    BY DEF SelectInSeq
  <2>4. I \in SUBSET Nat
    BY <2>2
  <2>5. f \in Nat
    <3> HIDE DEF I
    <3> QED
      BY <2>3, <2>4, LeastIndex
  <2> HIDE DEF f
  <2>6. PrintedFrom(x) \in Nat /\ PrintedFrom(x) >= 2
    BY <2>5 DEF PrintedFrom, f
  <2> HIDE DEF PrintedFrom
  <2>7. \A i \in PrintedFrom(x) .. n : x[i] \in Symbols
    BY <2>1, <2>2, <2>6
  <2>8. SubSeq(x, PrintedFrom(x), n) \in Seq(Symbols)
    BY <2>1, <2>2, <2>6, <2>7, SubSeqProperties
  <2> QED
    BY <2>8 DEF x
<1>15. CASE Server
  <2>1. CASE TryAddress \/ FailToBind \/ ForkFails \/ Signal \/ HandlerReturns
    <3>1. UNCHANGED <<client, holders, toServer, toClient, reset, child, out, asked, output, stray>>
      BY <1>15, <2>1 DEF Server, TryAddress, FailToBind, ForkFails, Signal, HandlerReturns,
                         streamVars, exchangeVars
    <3> QED
      BY <1>11, <1>12, <3>1
  <2>2. CASE Accept \/ Fork \/ ParentClose \/ Reap
    <3>1. UNCHANGED <<client, toServer, toClient, out, asked, output, stray>>
      BY <1>15, <2>2 DEF Server, Accept, Fork, ParentClose, Reap, streamVars, exchangeVars
    <3>2. holders' \in [Conns -> H]
      <4>1. CASE Accept
        BY <1>11, <4>1 DEF Accept
      <4>2. CASE Fork
        <5>1. PICK c \in Conns : holders' = [holders EXCEPT ![c] = @ \cup {"child"}]
          BY <1>1, <4>2 DEF Fork
        <5>2. holders[c] \cup {"child"} \in H
          <6>1. holders[c] \in H
            BY <1>11
          <6> QED
            BY <6>1
        <5> QED
          BY <1>11, <5>1, <5>2
      <4>3. CASE ParentClose
        BY <1>1, <1>13, <4>3 DEF ParentClose
      <4>4. CASE Reap
        BY <1>11, <4>4 DEF Reap, streamVars
      <4> QED
        BY <2>2, <4>1, <4>2, <4>3, <4>4
    <3>3. reset' \in [Conns -> BOOLEAN]
      BY <1>1, <1>11, <1>13, <2>2 DEF Accept, Fork, ParentClose, Reap, streamVars
    <3>4. child' \in [Conns -> K]
      BY <1>1, <1>11, <2>2 DEF Accept, Fork, ParentClose, Reap
    <3> QED
      BY <1>11, <1>12, <3>1, <3>2, <3>3, <3>4
  <2> QED
    BY <1>15, <2>1, <2>2 DEF Server, Parent, Handler
<1>16. ASSUME NEW c \in Conns, Child(c) PROVE ConnTypes'
  <2>1. CASE ReadRequest(c)
    <3>1. PICK n \in Cuts(toServer[c]) :
             /\ child[c] = "started"
             /\ child' = [child EXCEPT ![c] = "replying"]
             /\ asked' = [asked EXCEPT ![c] = n]
             /\ toServer' = [toServer EXCEPT ![c] = Left(@, n)]
             /\ out' = [out EXCEPT ![c] = Replies(n)]
             /\ UNCHANGED <<client, holders, toClient, reset, output, stray>>
      BY <2>1 DEF ReadRequest
    <3>2. n \in 0 .. 4 /\ Replies(n) \in SS /\ Left(toServer[c], n) \in S
      BY <1>3, <1>8, <1>9, <1>11, <3>1
    <3> QED
      BY <1>11, <1>12, <3>1, <3>2
  <2>2. CASE NoRequest(c) \/ StartReply(c)
    <3>1. /\ child' = [child EXCEPT ![c] = "replying"]
          /\ out' = out \/ out' = [out EXCEPT ![c] = <<result>>]
          /\ UNCHANGED <<client, holders, toServer, toClient, reset, asked, output, stray>>
      BY <2>2 DEF NoRequest, StartReply, streamVars, exchangeVars
    <3> QED
      BY <1>10, <1>11, <1>12, <3>1
  <2>3. CASE (ChildSend(c) \/ ChildExit(c)) /\ UNCHANGED exchangeVars
    <3>1. UNCHANGED <<client, toServer, asked, output, stray>>
      BY <2>3 DEF ChildSend, ChildExit, exchangeVars
    <3>2. holders' \in [Conns -> H] /\ reset' \in [Conns -> BOOLEAN]
      BY <1>11, <1>13, <2>3 DEF ChildSend, ChildExit
    <3>3. child' \in [Conns -> K]
      BY <1>11, <2>3 DEF ChildSend, ChildExit
    <3>4. out' \in [Conns -> SS]
      <4>1. \/ out' = out
            \/ out[c] # << >> /\ out' = [out EXCEPT ![c] = Tail(@)]
            \/ out' = [out EXCEPT ![c] = << >>]
        BY <2>3 DEF ChildSend, ChildExit
      <4>2. out[c] # << >> => Tail(out[c]) \in SS
        BY <1>7, <1>11
      <4> QED
        BY <1>2, <1>11, <4>1, <4>2
    <3>5. toClient' \in [Conns -> S]
      <4>1. out[c] # << >> => Head(out[c]) \in S /\ toClient[c] \o Head(out[c]) \in S
        BY <1>6, <1>7, <1>11
      <4> QED
        BY <1>11, <2>3, <4>1 DEF ChildSend, ChildExit
    <3> QED
      BY <1>11, <1>12, <3>1, <3>2, <3>3, <3>4, <3>5
  <2> QED
    BY <1>16, <2>1, <2>2, <2>3 DEF Child, HttpChild
<1>17. ASSUME NEW c \in Conns, Client(c) \/ Connect(c) \/ FailToConnect(c) \/ Kill(c)
       PROVE  ConnTypes'
  <2>1. CASE ReceiveHead(c) \/ ReceiveOnce(c) \/ ReceiveMore(c)
    <3>1. /\ UNCHANGED <<holders, toServer, reset, child, out, asked>>
          /\ client' \in [Conns -> C]
      BY <1>11, <2>1 DEF ReceiveHead, ReceiveOnce, PrintAnywhere, ReceiveMore, serverVars
    <3>2. PICK n \in Cuts(toClient[c]) :
             /\ toClient' = [toClient EXCEPT ![c] = Left(@, n)]
             /\ \/ output' = output
                \/ /\ Contains(Taken(toClient[c], n), "END")
                   /\ output' = [output EXCEPT ![c] = UpToNul(Behind(Taken(toClient[c], n), "END"))]
                \/ output' = [output EXCEPT ![c] =
                                SubSeq(Taken(toClient[c], n), PrintedFrom(Taken(toClient[c], n)), n)]
                \/ output' = [output EXCEPT ![c] = Written(@, Taken(toClient[c], n))]
      BY <2>1 DEF ReceiveHead, ReceiveOnce, PrintAnywhere, ReceiveMore
    <3>3. Left(toClient[c], n) \in S /\ Taken(toClient[c], n) \in S
      BY <1>3, <1>11
    <3>4. Written(output[c], Taken(toClient[c], n)) \in S
      BY <1>4, <1>6, <1>11, <3>3 DEF Written
    <3>5. Contains(Taken(toClient[c], n), "END") =>
             /\ Behind(Taken(toClient[c], n), "END") \in S
             /\ UpToNul(Behind(Taken(toClient[c], n), "END")) \in S
      BY <1>4, <1>5, <3>3
    <3>6. SubSeq(Taken(toClient[c], n), PrintedFrom(Taken(toClient[c], n)), n) \in S
      BY <1>1, <1>14 DEF S
    <3>7. output' \in [Conns -> S]
      BY <1>11, <3>2, <3>4, <3>5, <3>6
    <3>8. toClient' \in [Conns -> S]
      BY <1>11, <3>2, <3>3
    <3>9. stray' \in [Conns -> BOOLEAN]
      <4>1. \/ stray' = stray
            \/ \E more \in BOOLEAN : stray' = [stray EXCEPT ![c] = more]
            \/ \E more \in BOOLEAN : stray' = [stray EXCEPT ![c] = @ \/ more]
        <5>2. CASE ReceiveHead(c) \/ ReceiveMore(c)
          BY <5>2 DEF ReceiveHead, ReceiveMore, Overrun, Unended
        <5>3. CASE ReceiveOnce(c)
          BY <5>3 DEF ReceiveOnce, PrintAnywhere
        <5> QED
          BY <2>1, <5>2, <5>3
      <4> QED
        BY <1>11, <4>1
    <3> QED
      BY <1>11, <1>12, <3>1, <3>7, <3>8, <3>9
  <2>2. CASE SendRequest(c)
    <3>1. UNCHANGED <<holders, toClient, child, out, asked, output, stray>>
      BY <2>2 DEF SendRequest, serverVars, exchangeVars
    <3>2. client' \in [Conns -> C] /\ toServer' \in [Conns -> S] /\ reset' \in [Conns -> BOOLEAN]
      <4>1. /\ client' = [client EXCEPT ![c] = client'[c]] /\ client'[c] \in C
            /\ toServer' \in [Conns -> S]
        BY <1>2, <1>11, <2>2 DEF SendRequest
      <4>2. reset' \in [Conns -> BOOLEAN]
        BY <1>11, <2>2 DEF SendRequest
      <4> QED
        BY <1>11, <4>1, <4>2
    <3> QED
      BY <1>11, <1>12, <3>1, <3>2
  <2>3. CASE NoHead(c) \/ ReceiveEnd(c) \/ Connect(c) \/ FailToConnect(c) \/ Kill(c)
    <3>1. UNCHANGED <<toServer, toClient, reset, child, out, asked, output, stray>>
      BY <2>3 DEF NoHead, ReceiveEnd, Connect, FailToConnect, Kill,
                  serverVars, exchangeVars
    <3>2. client' \in [Conns -> C] /\ holders' \in [Conns -> H]
      BY <1>11, <2>3 DEF NoHead, ReceiveEnd, Connect, FailToConnect, Kill
    <3> QED
      BY <1>11, <1>12, <3>1, <3>2
  <2>4. CASE ReceiveNothing(c)
    <3>1. /\ UNCHANGED <<holders, toServer, toClient, reset, child, out, asked, output>>
          /\ client' = [client EXCEPT ![c] = "crashed"] \/ client' = [client EXCEPT ![c] = "done"]
          /\ stray' = stray \/ \E more \in BOOLEAN : stray' = [stray EXCEPT ![c] = more]
      BY <2>4 DEF ReceiveNothing, PrintAnywhere, serverVars
    <3> QED
      BY <1>11, <1>12, <3>1
  <2> QED
    BY <1>17, <2>1, <2>2, <2>3, <2>4 DEF Client, HttpClient
<1> QED
  BY <1>15, <1>16, <1>17 DEF Next, Processes

\* A step that concerns other connections.
LEMMA HeldElsewhere ==
    ASSUME NEW d \in Conns, Held(d),
           client'[d] = client[d], holders'[d] = holders[d], child'[d] = child[d],
           reset'[d] = reset[d], program' = program,
           Waiting(d)' <=> Waiting(d), d \in newFd' <=> d \in newFd,
           d \in newFd /\ server' = "forking" => server = "forking"
    PROVE  Held(d)'
BY DEF Held

LEMMA HeldByServer ==
    ASSUME StreamInv, Server, NEW d \in Conns
    PROVE  Held(d)'
<1>1. /\ Held(d) /\ backlog \in Seq(Conns)
      /\ \A i, j \in 1 .. Len(backlog) : i # j => backlog[i] # backlog[j]
      /\ newFd = {} \/ \E c \in Conns : newFd = {c}
      /\ server \notin {"forking", "closing"} => newFd = {}
      /\ \A c \in Conns : Held(c)
      /\ holders \in [Conns -> SUBSET {"backlog", "parent", "child"}]
      /\ reset \in [Conns -> BOOLEAN]
      /\ child \in [Conns -> {"none", "started", "replying", "zombie", "reaped"}]
      /\ program' = program
  BY DEF StreamInv, BacklogInv, ServerInv, ConnTypes, Server, exchangeVars
<1>2. CASE TryAddress \/ FailToBind \/ ForkFails \/ Signal \/ HandlerReturns
  <2>1. /\ UNCHANGED <<client, backlog, holders, reset, child, newFd>>
        /\ server' = "forking" => server = "forking"
    BY <1>2 DEF TryAddress, BindFails, FailToBind, ForkFails, Signal, HandlerReturns, streamVars
  <2>2. Waiting(d)' <=> Waiting(d)
    BY <2>1 DEF Waiting
  <2> QED
    BY <1>1, <2>1, <2>2, HeldElsewhere
<1>3. CASE Accept
  <2> DEFINE h == Head(backlog)
  <2>1. /\ server = "accepting" /\ backlog # << >> /\ server' = "forking" /\ newFd' = {h}
        /\ backlog' = Tail(backlog) /\ holders' = [holders EXCEPT ![h] = {"parent"}]
        /\ UNCHANGED <<client, reset, child>>
    BY <1>3 DEF Accept
  <2>2. /\ Len(Tail(backlog)) = Len(backlog) - 1 /\ h = backlog[1] /\ Len(backlog) \in Nat \ {0}
        /\ \A i \in 1 .. Len(Tail(backlog)) : Tail(backlog)[i] = backlog[i + 1]
    BY <1>1, <2>1, HeadTailProperties
  <2>3. h \in Conns /\ Waiting(h) /\ newFd = {}
    BY <1>1, <2>1, <2>2 DEF Waiting
  <2>4. Waiting(d)' <=> Waiting(d) /\ d # h
    <3>1. Waiting(d)' => Waiting(d) /\ d # h
      <4>1. ASSUME NEW i \in 1 .. Len(Tail(backlog)), Tail(backlog)[i] = d
            PROVE  Waiting(d) /\ d # h
        <5>1. i + 1 \in 1 .. Len(backlog) /\ 1 \in 1 .. Len(backlog) /\ i + 1 # 1
          BY <2>2
        <5>2. backlog[i + 1] = d
          BY <2>2, <4>1
        <5> QED
          BY <1>1, <2>2, <5>1, <5>2 DEF Waiting
      <4>2. Waiting(d)' => \E i \in 1 .. Len(Tail(backlog)) : Tail(backlog)[i] = d
        BY <2>1 DEF Waiting
      <4> QED
        BY <4>1, <4>2
    <3>2. Waiting(d) /\ d # h => Waiting(d)'
      <4>1. ASSUME NEW i \in 1 .. Len(backlog), backlog[i] = d, d # h PROVE Waiting(d)'
        <5>1. i - 1 \in 1 .. Len(Tail(backlog)) /\ (i - 1) + 1 = i
          BY <2>2, <4>1
        <5>2. Tail(backlog)[i - 1] = d
          BY <2>2, <4>1, <5>1
        <5> QED
          BY <2>1, <5>1, <5>2 DEF Waiting
      <4> QED
        BY <4>1 DEF Waiting
    <3> QED
      BY <3>1, <3>2
  <2> HIDE DEF h
  <2>5. CASE d = h
    <3>1. holders'[d] = {"parent"} /\ ~Waiting(d)' /\ d \in newFd'
      BY <1>1, <2>1, <2>4, <2>5
    <3>2. holders[d] = {"backlog"} /\ child[d] = "none"
      BY <1>1, <2>3, <2>5 DEF Held
    <3>3. ~reset[d] /\ client[d] \notin {"new", "refused"} /\ ~(client[d] = "done" /\ program = "mp1")
      BY <1>1, <3>2 DEF Held
    <3> QED
      BY <1>1, <2>1, <3>1, <3>2, <3>3 DEF Held
  <2>6. CASE d # h
    <3>1. holders'[d] = holders[d]
      BY <1>1, <2>1, <2>6
    <3> QED
      BY <1>1, <2>1, <2>3, <2>4, <2>6, <3>1, HeldElsewhere
  <2> QED
    BY <2>5, <2>6
<1>4. CASE Fork
  <2>1. PICK c \in newFd :
           /\ server = "forking" /\ server' = "closing"
           /\ child' = [child EXCEPT ![c] = "started"]
           /\ holders' = [holders EXCEPT ![c] = @ \cup {"child"}]
           /\ UNCHANGED <<client, backlog, reset, newFd>>
    BY <1>4 DEF Fork
  <2>2. c \in Conns /\ (Waiting(d)' <=> Waiting(d))
    BY <1>1, <2>1 DEF Waiting
  <2>3. CASE d = c
    <3>1. "parent" \in holders[d] /\ child[d] = "none"
      BY <1>1, <2>1, <2>3 DEF Held
    <3>2. holders'[d] = holders[d] \cup {"child"} /\ child'[d] = "started"
      BY <1>1, <2>1, <2>2, <2>3
    <3>3. /\ ~Waiting(d) /\ ~reset[d] /\ client[d] \notin {"new", "refused"}
          /\ ~(client[d] = "done" /\ program = "mp1")
      BY <1>1, <3>1 DEF Held
    <3> QED
      BY <1>1, <2>1, <2>2, <3>1, <3>2, <3>3 DEF Held
  <2>4. CASE d # c
    <3>1. holders'[d] = holders[d] /\ child'[d] = child[d]
      BY <1>1, <2>1, <2>4
    <3> QED
      BY <1>1, <2>1, <2>2, <3>1, HeldElsewhere
  <2> QED
    BY <2>3, <2>4
<1>5. CASE ParentClose
  <2>1. PICK c \in newFd :
           /\ server = "closing" /\ server' = "accepting" /\ newFd' = {}
           /\ holders' = [holders EXCEPT ![c] = @ \ {"parent"}]
           /\ reset' = [reset EXCEPT ![c] = @ \/ (holders[c] = {"parent"} /\ toServer[c] # << >>)]
           /\ UNCHANGED <<client, backlog, child>>
    BY <1>5 DEF ParentClose, Close
  <2>2. c \in Conns /\ newFd = {c} /\ (Waiting(d)' <=> Waiting(d))
    BY <1>1, <2>1 DEF Waiting
  <2>3. CASE d = c
    <3>1. "parent" \in holders[d]
      BY <1>1, <2>1, <2>3 DEF Held
    <3>2. holders'[d] = holders[d] \ {"parent"} /\ (reset'[d] => reset[d] \/ holders[d] = {"parent"})
      BY <1>1, <2>1, <2>2, <2>3
    <3>3. /\ ~Waiting(d) /\ ~reset[d] /\ client[d] \notin {"new", "refused"}
          /\ ~(client[d] = "done" /\ program = "mp1")
      BY <1>1, <3>1 DEF Held
    <3> QED
      BY <1>1, <2>1, <2>2, <3>1, <3>2, <3>3 DEF Held
  <2>4. CASE d # c
    <3>1. holders'[d] = holders[d] /\ reset'[d] = reset[d]
      BY <1>1, <2>1, <2>4
    <3> QED
      BY <1>1, <2>1, <2>2, <2>4, <3>1, HeldElsewhere
  <2> QED
    BY <2>3, <2>4
<1>6. CASE Reap
  <2>1. PICK c \in Zombies :
           /\ child' = [child EXCEPT ![c] = "reaped"]
           /\ UNCHANGED <<client, backlog, holders, reset, newFd, server>>
    BY <1>6 DEF Reap, streamVars
  <2>2. c \in Conns /\ child[c] = "zombie" /\ (Waiting(d)' <=> Waiting(d))
    BY <2>1 DEF Zombies, Waiting
  <2>3. CASE d = c
    <3>1. child'[d] = "reaped"
      BY <1>1, <2>1, <2>2, <2>3
    <3> QED
      BY <1>1, <2>1, <2>2, <2>3, <3>1 DEF Held
  <2>4. CASE d # c
    <3>1. child'[d] = child[d]
      BY <1>1, <2>1, <2>4
    <3> QED
      BY <1>1, <2>1, <2>2, <3>1, HeldElsewhere
  <2> QED
    BY <2>3, <2>4
<1> QED
  BY <1>2, <1>3, <1>4, <1>5, <1>6 DEF Server, Parent, Handler

LEMMA HeldByOthers ==
    ASSUME StreamInv, NEW c \in Conns, NEW d \in Conns,
           Child(c) \/ Client(c) \/ Connect(c) \/ FailToConnect(c) \/ Kill(c)
    PROVE  Held(d)'
<1>1. /\ Held(c) /\ Held(d) /\ backlog \in Seq(Conns)
      /\ client \in [Conns -> {"new", "connected", "first", "more", "done", "crashed", "dead", "refused"}]
      /\ holders \in [Conns -> SUBSET {"backlog", "parent", "child"}]
      /\ reset \in [Conns -> BOOLEAN]
      /\ child \in [Conns -> {"none", "started", "replying", "zombie", "reaped"}]
  BY DEF StreamInv, BacklogInv, ConnTypes
<1>2. UNCHANGED <<program, server, newFd>>
  BY DEF Child, Client, HttpChild, HttpClient, exchangeVars, serverVars, Connect, FailToConnect, Kill,
         StartReply, ReceiveOnce, ReceiveNothing, ReadRequest, NoRequest, ChildSend, ChildExit,
         SendRequest, ReceiveHead, NoHead, ReceiveMore, ReceiveEnd
<1>3. CASE Child(c)
  <2>1. UNCHANGED <<client, backlog>> /\ (Waiting(d)' <=> Waiting(d))
    BY <1>3 DEF Child, HttpChild, ReadRequest, NoRequest, StartReply, ChildSend, ChildExit,
                streamVars, Waiting
  <2>2. \/ /\ child[c] = "started" /\ child' = [child EXCEPT ![c] = "replying"]
           /\ UNCHANGED <<holders, reset>>
        \/ /\ child[c] = "replying" /\ child' = [child EXCEPT ![c] = "zombie"]
           /\ Close(c, "child")
        \/ UNCHANGED <<child, holders, reset>>
    BY <1>3 DEF Child, HttpChild, ReadRequest, NoRequest, StartReply, ChildSend, ChildExit, streamVars
  <2>3. CASE d = c
    <3>1. CASE child[c] = "started" /\ child'[c] = "replying" /\ UNCHANGED <<holders, reset>>
      BY <1>1, <1>2, <2>1, <2>3, <3>1 DEF Held
    <3>2. CASE /\ child[c] = "replying" /\ child' = [child EXCEPT ![c] = "zombie"]
               /\ Close(c, "child")
      <4>1. /\ child'[c] = "zombie" /\ holders'[c] = holders[c] \ {"child"}
            /\ reset'[c] => reset[c] \/ holders[c] = {"child"}
        BY <1>1, <3>2 DEF Close
      <4> QED
        BY <1>1, <1>2, <2>1, <2>3, <3>2, <4>1 DEF Held
    <3>3. CASE UNCHANGED <<child, holders, reset>>
      BY <1>1, <1>2, <2>1, <2>3, <3>3 DEF Held
    <3> QED
      BY <1>1, <2>2, <3>1, <3>2, <3>3
  <2>4. CASE d # c
    <3>1. holders'[d] = holders[d] /\ child'[d] = child[d] /\ reset'[d] = reset[d]
      BY <1>1, <2>2, <2>4 DEF Close
    <3> QED
      BY <1>1, <1>2, <2>1, <3>1, HeldElsewhere
  <2> QED
    BY <2>3, <2>4
<1>4. CASE Client(c) \/ FailToConnect(c) \/ Kill(c)
  <2>1. UNCHANGED <<backlog, holders, child>> /\ (Waiting(d)' <=> Waiting(d))
    BY <1>4 DEF Client, HttpClient, ReceiveOnce, ReceiveNothing, PrintAnywhere, SendRequest,
                ReceiveHead, NoHead,
                ReceiveMore, ReceiveEnd, FailToConnect, Kill, serverVars, Waiting
  <2>2. reset' = reset \/ (holders[c] = {} /\ client[c] = "connected" /\ reset' = [reset EXCEPT ![c] = TRUE])
    BY <1>4 DEF Client, HttpClient, ReceiveOnce, ReceiveNothing, PrintAnywhere, SendRequest,
                ReceiveHead, NoHead,
                ReceiveMore, ReceiveEnd, FailToConnect, Kill
  <2>3. \E k : client' = [client EXCEPT ![c] = k] \/ client' = client
    BY <1>4 DEF Client, HttpClient, ReceiveOnce, ReceiveNothing, PrintAnywhere, SendRequest,
                ReceiveHead, NoHead,
                ReceiveMore, ReceiveEnd, FailToConnect, Kill
  <2>4. CASE d = c
    <3>1. /\ client'[c] = "done" /\ program = "mp1" => holders[c] = {}
          /\ client'[c] = "refused" => client[c] = "new" \/ client'[c] = client[c]
          /\ client'[c] = "new" => client'[c] = client[c]
      <4>1. CASE NoHead(c) \/ ReceiveEnd(c) \/ ReceiveNothing(c)
        BY <1>1, <4>1 DEF NoHead, ReceiveEnd, ReceiveNothing, PrintAnywhere, Ended
      <4>2. CASE ReceiveHead(c) \/ ReceiveOnce(c)
        BY <1>1, <4>2 DEF ReceiveHead, ReceiveOnce, PrintAnywhere
      <4>3. CASE ReceiveMore(c)
        BY <1>1, <4>3 DEF ReceiveMore, Held
      <4>4. CASE SendRequest(c) \/ FailToConnect(c) \/ Kill(c)
        BY <1>1, <4>4 DEF SendRequest, FailToConnect, Kill
      <4> QED
        BY <1>4, <4>1, <4>2, <4>3, <4>4 DEF Client, HttpClient
    <3>2. \/ reset'[c] = reset[c]
          \/ holders[c] = {} /\ client'[c] \notin {"new", "refused"}
      <4>1. CASE SendRequest(c)
        BY <1>1, <4>1 DEF SendRequest
      <4>2. CASE ~SendRequest(c)
        BY <1>4, <4>2 DEF Client, HttpClient, ReceiveOnce, ReceiveNothing, ReceiveHead, NoHead,
                          ReceiveMore, ReceiveEnd, FailToConnect, Kill
      <4> QED
        BY <4>1, <4>2
    <3> QED
      BY <1>1, <1>2, <2>1, <2>4, <3>1, <3>2 DEF Held
  <2>5. CASE d # c
    <3>1. client'[d] = client[d] /\ reset'[d] = reset[d]
      BY <1>1, <2>2, <2>3, <2>5
    <3> QED
      BY <1>1, <1>2, <2>1, <3>1, HeldElsewhere
  <2> QED
    BY <2>4, <2>5
<1>5. CASE Connect(c)
  <2>1. /\ client[c] = "new" /\ backlog' = Append(backlog, c)
        /\ client'[c] \in {"first", "connected"}
        /\ holders' = [holders EXCEPT ![c] = {"backlog"}]
        /\ UNCHANGED <<reset, child>>
        /\ \E k : client' = [client EXCEPT ![c] = k]
    BY <1>1, <1>5 DEF Connect, serverVars
  <2>2. /\ Len(backlog') = Len(backlog) + 1 /\ backlog'[Len(backlog) + 1] = c
        /\ Len(backlog) \in Nat
        /\ \A i \in 1 .. Len(backlog) : backlog'[i] = backlog[i]
    BY <1>1, <2>1, AppendProperties
  <2>3. Waiting(d)' <=> Waiting(d) \/ d = c
    <3>1. ASSUME NEW i \in 1 .. Len(backlog'), backlog'[i] = d PROVE Waiting(d) \/ d = c
      <4>1. i \in 1 .. Len(backlog) \/ i = Len(backlog) + 1
        BY <2>2
      <4> QED
        BY <2>2, <3>1, <4>1 DEF Waiting
    <3>2. ASSUME NEW i \in 1 .. Len(backlog), backlog[i] = d PROVE Waiting(d)'
      <4>1. i \in 1 .. Len(backlog') /\ backlog'[i] = d
        BY <2>2, <3>2
      <4> QED
        BY <4>1 DEF Waiting
    <3>3. d = c => Waiting(d)'
      <4>1. Len(backlog) + 1 \in 1 .. Len(backlog')
        BY <2>2
      <4> QED
        BY <2>2, <4>1 DEF Waiting
    <3> QED
      BY <3>1, <3>2, <3>3 DEF Waiting
  <2>4. CASE d = c
    <3>1. holders[c] = {} /\ child[c] = "none" /\ ~reset[c]
      BY <1>1, <2>1 DEF Held
    <3>2. c \notin newFd
      BY <1>1, <3>1 DEF Held
    <3>3. holders'[c] = {"backlog"}
      BY <1>1, <2>1
    <3> QED
      BY <1>1, <1>2, <2>1, <2>3, <2>4, <3>1, <3>2, <3>3 DEF Held
  <2>5. CASE d # c
    <3>1. client'[d] = client[d] /\ holders'[d] = holders[d]
      BY <1>1, <2>1, <2>5
    <3> QED
      BY <1>1, <1>2, <2>1, <2>3, <2>5, <3>1, HeldElsewhere
  <2> QED
    BY <2>4, <2>5
<1> QED
  BY <1>3, <1>4, <1>5

\* What the server does, and what other clients and children do, changes neither
\* the request nor the reply of a connection.
LEMMA ExchangeElsewhere ==
    ASSUME NEW d \in Conns, Asking(d), Replied(d), Once(d),
           UNCHANGED <<program, method, file>>,
           client'[d] = client[d], toServer'[d] = toServer[d], toClient'[d] = toClient[d],
           out'[d] = out[d], asked'[d] = asked[d], output'[d] = output[d], stray'[d] = stray[d],
           \/ child'[d] = child[d]
           \/ child[d] = "none" /\ child'[d] = "started" /\ holders[d] # {}
           \/ child[d] = "zombie" /\ child'[d] = "reaped",
           holders[d] = {} => holders'[d] = {},
           reset'[d] => reset[d] \/ toServer[d] # << >>
    PROVE  Asking(d)' /\ Replied(d)' /\ Once(d)'
<1>1. (Answering(d)' <=> Answering(d)) /\ (child'[d] = "replying" <=> child[d] = "replying")
  BY DEF Answering
<1>2. Asking(d)'
  BY <1>1 DEF Asking, Gone
<1>3. Underway(d)' <=> Underway(d)
  BY DEF Underway
<1>4. Replied(d)'
  BY <1>1, <1>3 DEF Replied, Gone
<1>5. result' = result /\ (Printed(d)' <=> Printed(d))
  BY DEF result, Printed
<1>6. Once(d)'
  BY <1>1, <1>5 DEF Once
<1> QED
  BY <1>2, <1>4, <1>6

LEMMA ExchangeByServer ==
    ASSUME StreamInv, Server, NEW d \in Conns
    PROVE  Asking(d)' /\ Replied(d)' /\ Once(d)'
<1>1. /\ Held(d) /\ Asking(d) /\ Replied(d) /\ Once(d) /\ newFd \in SUBSET Conns
      /\ holders \in [Conns -> SUBSET {"backlog", "parent", "child"}]
      /\ reset \in [Conns -> BOOLEAN]
      /\ child \in [Conns -> {"none", "started", "replying", "zombie", "reaped"}]
  BY DEF StreamInv, ConnTypes, ServerInv
<1>2. UNCHANGED <<program, method, file, client, toServer, toClient, out, asked, output, stray>>
  BY DEF Server, Parent, Handler, TryAddress, FailToBind, Accept, Fork, ForkFails, ParentClose,
         Signal, Reap, HandlerReturns, streamVars, exchangeVars
<1>3. \/ child'[d] = child[d]
      \/ child[d] = "none" /\ child'[d] = "started" /\ holders[d] # {}
      \/ child[d] = "zombie" /\ child'[d] = "reaped"
  <2>1. CASE Fork
    <3>1. PICK c \in newFd : server = "forking" /\ child' = [child EXCEPT ![c] = "started"]
      BY <2>1 DEF Fork
    <3> QED
      BY <1>1, <3>1 DEF Held
  <2>2. CASE Reap
    BY <1>1, <2>2 DEF Reap, Zombies
  <2>3. CASE ~Fork /\ ~Reap
    BY <2>3 DEF Server, Parent, Handler, TryAddress, FailToBind, Accept, ForkFails, ParentClose,
                Signal, HandlerReturns
  <2> QED
    BY <2>1, <2>2, <2>3
<1>4. reset'[d] => reset[d] \/ toServer[d] # << >>
  <2>1. CASE ParentClose
    <3>1. PICK c \in newFd : Close(c, "parent")
      BY <2>1 DEF ParentClose
    <3> QED
      BY <1>1, <3>1 DEF Close
  <2>2. CASE ~ParentClose
    BY <2>2 DEF Server, Parent, Handler, TryAddress, FailToBind, Accept, Fork, ForkFails,
                Signal, Reap, HandlerReturns, streamVars
  <2> QED
    BY <2>1, <2>2
<1>5. holders[d] = {} => holders'[d] = {}
  <2>1. CASE Accept
    <3>1. holders' = [holders EXCEPT ![Head(backlog)] = {"parent"}] /\ backlog # << >>
      BY <2>1 DEF Accept
    <3>2. Waiting(Head(backlog))
      <4>1. backlog \in Seq(Conns)
        BY DEF StreamInv, BacklogInv
      <4>2. 1 \in 1 .. Len(backlog) /\ backlog[1] = Head(backlog)
        BY <3>1, <4>1
      <4> QED
        BY <4>2 DEF Waiting
    <3>3. holders[d] = {} => d # Head(backlog)
      BY <1>1, <3>2 DEF Held
    <3> QED
      BY <1>1, <3>1, <3>3
  <2>2. CASE Fork
    <3>1. PICK c \in newFd : holders' = [holders EXCEPT ![c] = @ \cup {"child"}]
      BY <2>2 DEF Fork
    <3>2. holders[d] = {} => d # c
      BY <1>1, <3>1 DEF Held
    <3> QED
      BY <1>1, <3>1, <3>2
  <2>3. CASE ParentClose
    <3>1. PICK c \in newFd : Close(c, "parent")
      BY <2>3 DEF ParentClose
    <3> QED
      BY <1>1, <3>1 DEF Close
  <2>4. CASE ~Accept /\ ~Fork /\ ~ParentClose
    BY <2>4 DEF Server, Parent, Handler, TryAddress, FailToBind, ForkFails, Signal, Reap,
                HandlerReturns, streamVars
  <2> QED
    BY <2>1, <2>2, <2>3, <2>4
<1> QED
  BY <1>1, <1>2, <1>3, <1>4, <1>5, ExchangeElsewhere

LEMMA ExchangeByOthers ==
    ASSUME StreamInv, NEW c \in Conns, NEW d \in Conns, d # c,
           Child(c) \/ Client(c) \/ Connect(c) \/ FailToConnect(c) \/ Kill(c)
    PROVE  Asking(d)' /\ Replied(d)' /\ Once(d)'
<1>1. Asking(d) /\ Replied(d) /\ Once(d) /\ ConnTypes
  BY DEF StreamInv
<1>2. UNCHANGED <<program, method, file>>
  BY DEF Child, Client, HttpChild, HttpClient, exchangeVars, Connect, FailToConnect, Kill,
         StartReply, ReceiveOnce, ReceiveNothing, ReadRequest, NoRequest, ChildSend, ChildExit,
         SendRequest, ReceiveHead, NoHead, ReceiveMore, ReceiveEnd
<1>3. CASE Child(c)
  <2>1. UNCHANGED <<client, output, stray>>
    BY <1>3 DEF Child, HttpChild, exchangeVars, StartReply, ReadRequest, NoRequest, ChildSend,
                ChildExit, streamVars
  <2>2. /\ toServer'[d] = toServer[d] /\ toClient'[d] = toClient[d] /\ out'[d] = out[d]
        /\ asked'[d] = asked[d] /\ child'[d] = child[d] /\ reset'[d] = reset[d]
        /\ holders'[d] = holders[d]
    <3>1. CASE ReadRequest(c)
      BY <1>1, <3>1 DEF ReadRequest, ConnTypes
    <3>2. CASE NoRequest(c) \/ StartReply(c)
      BY <1>1, <3>2 DEF NoRequest, StartReply, streamVars, exchangeVars, ConnTypes
    <3>3. CASE ChildSend(c) /\ UNCHANGED exchangeVars
      BY <1>1, <3>3 DEF ChildSend, Close, exchangeVars, ConnTypes
    <3>4. CASE ChildExit(c) /\ UNCHANGED exchangeVars
      BY <1>1, <3>4 DEF ChildExit, Close, exchangeVars, ConnTypes
    <3> QED
      BY <1>3, <3>1, <3>2, <3>3, <3>4 DEF Child, HttpChild
  <2> QED
    BY <1>1, <1>2, <2>1, <2>2, ExchangeElsewhere
<1>4. CASE Client(c) \/ Connect(c) \/ FailToConnect(c) \/ Kill(c)
  <2>1. UNCHANGED <<out, asked, child>>
    BY <1>4 DEF Client, HttpClient, ReceiveOnce, ReceiveNothing, SendRequest, ReceiveHead, NoHead,
                ReceiveMore, ReceiveEnd, Connect, FailToConnect, Kill, serverVars, exchangeVars
  <2>2. /\ toServer'[d] = toServer[d] /\ toClient'[d] = toClient[d] /\ client'[d] = client[d]
        /\ output'[d] = output[d] /\ reset'[d] = reset[d] /\ stray'[d] = stray[d]
        /\ holders'[d] = holders[d]
    <3>1. CASE ReceiveHead(c) \/ ReceiveOnce(c) \/ ReceiveMore(c)
      BY <1>1, <3>1 DEF ReceiveHead, ReceiveOnce, ReceiveMore, PrintAnywhere, Overrun, ConnTypes
    <3>2. CASE SendRequest(c)
      BY <1>1, <3>2 DEF SendRequest, exchangeVars, ConnTypes
    <3>3. CASE ReceiveNothing(c) \/ NoHead(c) \/ ReceiveEnd(c)
      BY <1>1, <3>3 DEF ReceiveNothing, NoHead, ReceiveEnd, PrintAnywhere, exchangeVars, ConnTypes
    <3>4. CASE Connect(c) \/ FailToConnect(c) \/ Kill(c)
      BY <1>1, <3>4 DEF Connect, FailToConnect, Kill, exchangeVars, ConnTypes
    <3> QED
      BY <1>4, <3>1, <3>2, <3>3, <3>4 DEF Client, HttpClient
  <2> QED
    BY <1>1, <1>2, <2>1, <2>2, ExchangeElsewhere
<1> QED
  BY <1>3, <1>4

\* What the two ends of a connection do to its request.
LEMMA RequestLeft ==
    ASSUME NEW x \in {<< >>, Request}, NEW n \in Cuts(x)
    PROVE  x = Request /\ n \in 1 .. 4 /\ n \in Nat /\ n # 0 /\ (n = 4 => Left(x, n) = << >>)
<1>1. Len(<< >>) = 0 /\ Len(Request) = 4 /\ Request \in Seq(Symbols)
  BY SymbolFacts
<1>2. x # << >>
  BY <1>1 DEF Cuts
<1>3. x = Request /\ n \in 1 .. Len(x)
  BY <1>2 DEF Cuts
<1>4. n \in 1 .. 4 /\ n \in Nat /\ n # 0 /\ n \in 0 .. Len(x)
  <2>1. Len(x) = 4
    BY <1>1, <1>3, Zenon
  <2>2. n \in 1 .. 4
    BY <1>3, <2>1, Zenon
  <2>3. ASSUME NEW k \in 1 .. 4 PROVE k \in Nat /\ k # 0 /\ k \in 0 .. 4
    OBVIOUS
  <2> QED
    BY <2>1, <2>2, <2>3, Zenon
<1>5. ASSUME n = 4 PROVE Left(x, n) = << >>
  <2>1. Left(Request, n) \in Seq(Symbols) /\ Len(Left(Request, n)) = Len(Request) - n
    <3>1. Request \in Seq(Symbols) /\ n \in 0 .. Len(Request)
      BY <1>1, <1>3, <1>4, Zenon
    <3> HIDE DEF Request
    <3> QED
      BY <3>1, TakenIs
  <2>2. Len(Left(Request, n)) = 4 - 4
    BY <1>1, <1>5, <2>1, Zenon
  <2>3. Left(x, n) \in Seq(Symbols) /\ Len(Left(x, n)) = 4 - 4
    BY <1>3, <2>1, <2>2, Zenon
  <2> HIDE DEF Request
  <2> QED
    BY <2>3
<1> QED
  BY <1>3, <1>4, <1>5

LEMMA AskingByChild ==
    ASSUME StreamInv, NEW c \in Conns, Child(c)
    PROVE  Asking(c)'
<1>1. Asking(c) /\ Held(c) /\ ConnTypes
  BY DEF StreamInv
<1>2. program' = program
  BY DEF Child, HttpChild, exchangeVars, StartReply, ReadRequest, NoRequest
<1>3. CASE ReadRequest(c)
  <2>1. PICK n \in Cuts(toServer[c]) :
           /\ program = "mp1" /\ child[c] = "started" /\ child' = [child EXCEPT ![c] = "replying"]
           /\ asked' = [asked EXCEPT ![c] = n]
           /\ toServer' = [toServer EXCEPT ![c] = Left(@, n)]
           /\ UNCHANGED <<client, holders, toClient, reset, output, stray>>
    BY <1>3 DEF ReadRequest
  <2>2. toServer[c] \in {<< >>, Request}
    BY <1>1, <2>1 DEF Asking, Answering
  <2>3. n # 0 /\ toServer[c] = Request /\ (n = 4 => Left(toServer[c], n) = << >>)
    BY <2>2, RequestLeft
  <2>4. Request # << >>
    BY DEF Request
  <2>5. client[c] \notin {"new", "connected"} /\ ~reset[c]
    BY <1>1, <2>1, <2>3, <2>4 DEF Asking, Held
  <2>6. /\ child'[c] = "replying" /\ asked'[c] = n /\ toServer'[c] = Left(toServer[c], n)
    BY <1>1, <2>1 DEF ConnTypes
  <2> HIDE DEF Request
  <2> QED
    BY <1>2, <2>1, <2>3, <2>5, <2>6 DEF Asking, Answering
<1>4. CASE NoRequest(c) \/ StartReply(c)
  <2>1. /\ child[c] = "started" /\ child'[c] = "replying"
        /\ program = "mp0" \/ Gone(c)
        /\ UNCHANGED <<client, toServer, toClient, reset, asked, output, stray>>
    BY <1>1, <1>4 DEF NoRequest, StartReply, streamVars, exchangeVars, ConnTypes
  <2>2. asked[c] = 0
    BY <1>1, <2>1 DEF Asking, Answering
  <2> QED
    BY <1>1, <1>2, <2>1, <2>2 DEF Asking, Answering, Gone
<1>5. CASE (ChildSend(c) \/ ChildExit(c)) /\ UNCHANGED exchangeVars
  <2>1. /\ UNCHANGED <<client, toServer, asked, output, stray>> /\ child[c] = "replying"
        /\ child'[c] = "replying" \/ child'[c] = "zombie"
        /\ Gone(c) \/ child'[c] = "replying" \/ out'[c] = << >>
        /\ reset'[c] => reset[c] \/ toServer[c] # << >>
    BY <1>1, <1>5 DEF ChildSend, ChildExit, Close, exchangeVars, ConnTypes
  <2> QED
    BY <1>1, <1>2, <2>1 DEF Asking, Answering, Gone
<1> QED
  BY <1>3, <1>4, <1>5 DEF Child, HttpChild

LEMMA AskingByClient ==
    ASSUME StreamInv, NEW c \in Conns, Client(c) \/ Connect(c) \/ FailToConnect(c) \/ Kill(c)
    PROVE  Asking(c)'
<1>1. Asking(c) /\ Held(c) /\ ConnTypes /\ Request # << >>
  BY DEF StreamInv, Request
<1>2. UNCHANGED <<program, asked, child, out>>
  BY DEF Client, HttpClient, ReceiveOnce, ReceiveNothing, SendRequest, ReceiveHead, NoHead,
         ReceiveMore, ReceiveEnd, Connect, FailToConnect, Kill, serverVars, exchangeVars
<1> HIDE DEF Request
<1>3. CASE ReceiveHead(c) \/ ReceiveOnce(c) \/ ReceiveMore(c)
  <2>1. /\ \E n \in Cuts(toClient[c]) : TRUE
        /\ UNCHANGED <<toServer, reset>>
        /\ client[c] \in {"first", "more"} /\ client'[c] \in {"more", "done", "crashed"}
    BY <1>1, <1>3 DEF ReceiveHead, ReceiveOnce, ReceiveMore, PrintAnywhere, ConnTypes
  <2>2. toClient[c] # << >>
    BY <2>1 DEF Cuts
  <2> QED
    BY <1>1, <1>2, <2>1, <2>2 DEF Asking, Answering, Gone
<1>4. CASE SendRequest(c)
  <2>1. /\ client[c] = "connected" /\ program = "mp1" /\ client'[c] = "first"
        /\ toServer'[c] \in {toServer[c], Request} /\ UNCHANGED <<toClient, output, stray>>
    BY <1>1, <1>4 DEF SendRequest, exchangeVars, ConnTypes
  <2>2. asked[c] = 0
    BY <1>1, <2>1 DEF Asking
  <2> QED
    BY <1>1, <1>2, <2>1, <2>2 DEF Asking, Answering, Gone
<1>5. CASE ReceiveNothing(c) \/ NoHead(c) \/ ReceiveEnd(c) \/ Kill(c)
  <2>1. /\ client[c] # "new" /\ client'[c] \in {"done", "crashed", "dead"}
        /\ UNCHANGED <<toServer, toClient, reset, output>> /\ (program = "mp1" => UNCHANGED stray)
    BY <1>1, <1>5 DEF ReceiveNothing, NoHead, ReceiveEnd, Kill, PrintAnywhere, exchangeVars, ConnTypes
  <2> QED
    BY <1>1, <1>2, <2>1 DEF Asking, Answering, Gone
<1>6. CASE Connect(c) \/ FailToConnect(c)
  <2>1. /\ client[c] = "new" /\ client'[c] \in {"first", "connected", "refused"}
        /\ client'[c] = "connected" => program # "mp0"
        /\ UNCHANGED <<toServer, toClient, reset, output, stray>>
    BY <1>1, <1>6 DEF Connect, FailToConnect, exchangeVars, ConnTypes
  <2>2. ~Answering(c) /\ asked[c] = 0 /\ program \in {"mp0", "mp1"}
    BY <1>1, <2>1 DEF Held, Asking, Answering, StreamInv, ServerInv
  <2> QED
    BY <1>1, <1>2, <2>1, <2>2 DEF Asking, Answering
<1> QED
  BY <1>3, <1>4, <1>5, <1>6 DEF Client, HttpClient

-----------------------------------------------------------------------------
(***************************************************************************)
(* The steps of an exchange, as facts of one reply: whole is its head of   *)
(* two symbols and its body.                                               *)
(***************************************************************************)
LEMMA SliceBehind ==
    ASSUME NEW S, NEW head \in Seq(S), NEW body \in Seq(S), Len(head) = 2, NEW x,
           NEW a \in Nat, NEW b \in Nat, a - 2 \in Nat, Slice(x, head \o body, a, b)
    PROVE  b - 2 \in Nat /\ Slice(x, body, a - 2, b - 2)
<1>1. /\ Len(head \o body) = 2 + Len(body) /\ Len(body) \in Nat
      /\ \A i \in 1 .. 2 + Len(body) : i > 2 => (head \o body)[i] = body[i - 2]
  <2>1. /\ Len(head \o body) = Len(head) + Len(body)
        /\ \A i \in 1 .. Len(head) + Len(body) :
              (head \o body)[i] = IF i <= Len(head) THEN head[i] ELSE body[i - Len(head)]
    BY ConcatProperties
  <2>2. Len(head) = 2 /\ Len(body) \in Nat
    OBVIOUS
  <2>3. /\ Len(head \o body) = 2 + Len(body)
        /\ \A i \in 1 .. 2 + Len(body) : (head \o body)[i] = IF i <= 2 THEN head[i] ELSE body[i - 2]
    BY <2>1, <2>2, Zenon
  <2>4. ASSUME NEW i \in 1 .. 2 + Len(body), i > 2 PROVE ~(i <= 2)
    BY <2>2, <2>4
  <2> QED
    BY <2>2, <2>3, <2>4, Zenon
<1>2. /\ a <= b /\ b <= 2 + Len(body) /\ Len(x) = b - a
      /\ \A i \in 1 .. b - a : x[i] = (head \o body)[a + i]
  BY <1>1 DEF Slice
<1>3. /\ a - 2 <= b - 2 /\ b - 2 <= Len(body) /\ (b - 2) - (a - 2) = b - a /\ b - 2 \in Nat
  BY <1>1, <1>2
<1>4. ASSUME NEW i \in 1 .. b - a PROVE x[i] = body[(a - 2) + i]
  <2>1. a + i \in 1 .. 2 + Len(body) /\ a + i > 2 /\ (a + i) - 2 = (a - 2) + i
    BY <1>1, <1>2, <1>3
  <2>2. (head \o body)[a + i] = body[(a + i) - 2]
    BY <1>1, <2>1
  <2> QED
    BY <1>2, <2>1, <2>2
<1> QED
  BY <1>2, <1>3, <1>4 DEF Slice

LEMMA SliceNoNul ==
    ASSUME NEW S, NEW body \in Seq(S), NEW x, NEW n \in Nat, Slice(x, body, 0, n), NoNul(body)
    PROVE  NoNul(x)
<1>1. n <= Len(body) /\ Len(x) = n /\ Len(body) \in Nat /\ \A i \in 1 .. n : x[i] = body[i]
  BY DEF Slice
<1> QED
  BY <1>1 DEF NoNul, Contains

\* The first recv, if it returns the whole of the head.
LEMMA FirstWritten ==
    ASSUME NEW S, NEW head \in Seq(S), NEW body \in Seq(S), NEW x \in Seq(S), NEW n \in Nat,
           Len(head) = 2, head[1] # "END", head[2] = "END",
           Slice(x, head \o body, 0, n), Contains(x, "END")
    PROVE  /\ n - 2 \in Nat /\ n - 2 \in 0 .. Len(body)
           /\ Writes(UpToNul(Behind(x, "END")), body, n - 2)
           /\ NoNul(body) => Behind(x, "END") = UpToNul(Behind(x, "END"))
<1> DEFINE y == Behind(x, "END")
<1>1. n - 2 \in Nat /\ y \in Seq(S) /\ Slice(y, body, 0, n - 2)
  BY BehindHead
<1> HIDE DEF y
<1>2. n - 2 <= Len(body) /\ Len(body) \in Nat
  BY <1>1 DEF Slice
<1>3. Writes(<< >> \o UpToNul(y), body, n - 2)
  <2>1. << >> \in Seq(S) /\ Writes(<< >>, body, 0)
    BY WritesNothing
  <2> QED
    BY <1>1, <2>1, WritesMore
<1>4. UpToNul(y) \in Seq(S) /\ (NoNul(y) => UpToNul(y) = y)
  BY <1>1, UpToNulIs
<1>5. << >> \o UpToNul(y) = UpToNul(y)
  BY <1>4, ConcatEmptySeq
<1>6. NoNul(body) => NoNul(y)
  BY <1>1, SliceNoNul
<1> QED
  BY <1>1, <1>2, <1>3, <1>4, <1>5, <1>6 DEF y

\* Every later one.
LEMMA MoreWritten ==
    ASSUME NEW S, NEW head \in Seq(S), NEW body \in Seq(S), NEW x \in Seq(S), NEW w \in Seq(S),
           NEW a \in Nat, NEW b \in Nat, Len(head) = 2, a - 2 \in Nat,
           Writes(w, body, a - 2), Slice(x, head \o body, a, b)
    PROVE  /\ b - 2 \in Nat /\ b - 2 \in 0 .. Len(body)
           /\ Writes(w \o UpToNul(x), body, b - 2)
<1>1. b - 2 \in Nat /\ Slice(x, body, a - 2, b - 2)
  BY SliceBehind
<1>2. b - 2 <= Len(body) /\ Len(body) \in Nat
  BY <1>1 DEF Slice
<1>3. Writes(w \o UpToNul(x), body, b - 2)
  BY <1>1, WritesMore
<1> QED
  BY <1>1, <1>2, <1>3

\* The exchange of one connection, in the terms of the lemmas above.
LEMMA ReplyIs ==
    ASSUME StreamInv, NEW c \in Conns
    PROVE  LET head  == HeadOf(file, method, asked[c])
               body  == BodyOf(file, method, asked[c])
           IN  /\ head \in Seq(Symbols) /\ body \in Seq(Symbols)
               /\ Len(head) = 2 /\ head[1] # "END" /\ head[2] = "END"
               /\ ReplyOf(file, method, asked[c]) = head \o body
               /\ ReplyOf(file, method, asked[c]) \in Seq(Symbols)
               /\ Len(ReplyOf(file, method, asked[c])) = 2 + Len(body)
               /\ Len(body) \in Nat
<1>1. ServedFile(file)
  BY DEF StreamInv, ServerInv
<1> DEFINE n == asked[c]
           body == BodyOf(file, method, n)
<1> HIDE DEF n
<1>2. /\ HeadOf(file, method, n) \in Seq(Symbols) /\ Len(HeadOf(file, method, n)) = 2
      /\ HeadOf(file, method, n)[1] # "END" /\ HeadOf(file, method, n)[2] = "END"
      /\ BodyOf(file, method, n) \in Seq(Symbols)
      /\ ReplyOf(file, method, n) \in Seq(Symbols)
      /\ Len(ReplyOf(file, method, n)) = 2 + Len(BodyOf(file, method, n))
  BY <1>1, ReplyFacts
<1>3. Len(BodyOf(file, method, n)) \in Nat
  BY <1>2
<1> QED
  BY <1>2, <1>3, Zenon DEF ReplyOf, n

\* Before the child has read the request.
LEMMA BeginsUnderway ==
    ASSUME NEW S, NEW q, NEW whole \in Seq(S), NEW body \in Seq(S), Pieces(q, whole, 0)
    PROVE  /\ Slice(<< >>, whole, 0, 0) /\ Pieces(q, whole, 0)
           /\ Writes(<< >>, body, 0) /\ 0 \in 0 .. Len(body)
<1>1. Slice(<< >>, whole, 0, 0)
  <2>1. Writes(<< >>, whole, 0) /\ Len(<< >>) = 0 - 0 /\ Len(whole) \in Nat
    BY WritesNothing
  <2>2. \A i \in 1 .. 0 - 0 : << >>[i] = whole[0 + i]
    OBVIOUS
  <2> QED
    BY <2>1, <2>2 DEF Slice
<1>2. Writes(<< >>, body, 0) /\ Len(body) \in Nat
  BY WritesNothing
<1> QED
  BY <1>1, <1>2

LEMMA RepliedAtStart ==
    ASSUME StreamInv, NEW c \in Conns, ReadRequest(c) \/ StartReply(c) \/ NoRequest(c)
    PROVE  Replied(c)'
<1>1. Asking(c) /\ Held(c) /\ Replied(c) /\ ConnTypes /\ ServedFile(file) /\ StreamInv
  BY DEF StreamInv, ServerInv
<1>2. /\ UNCHANGED <<program, method, file, client, toClient, output, stray, holders>>
      /\ child[c] = "started" /\ child'[c] = "replying"
  BY <1>1 DEF ReadRequest, StartReply, NoRequest, streamVars, exchangeVars, ConnTypes
<1>3. /\ output[c] = << >> /\ toClient[c] = << >> /\ asked[c] = 0 /\ client[c] # "more"
      /\ "child" \in holders[c] /\ out[c] = << >> /\ (program = "mp1" => ~stray[c])
  BY <1>1, <1>2 DEF Asking, Answering, Held
<1>4. CASE NoRequest(c)
  <2>1. Gone(c)' /\ asked' = asked
    BY <1>2, <1>4 DEF NoRequest, Gone, exchangeVars
  <2> QED
    BY <1>1, <1>2, <1>3, <2>1 DEF Replied
<1>5. CASE StartReply(c)
  BY <1>2, <1>5 DEF StartReply, Replied
<1>6. CASE ReadRequest(c)
  <2>1. PICK n \in Cuts(toServer[c]) :
           /\ program = "mp1" /\ asked' = [asked EXCEPT ![c] = n]
           /\ out' = [out EXCEPT ![c] = Replies(n)]
    BY <1>6 DEF ReadRequest
  <2>2. n \in 1 .. 4
    <3>1. toServer[c] \in {<< >>, Request}
      BY <1>1, <1>2 DEF Asking, Answering
    <3> QED
      BY <3>1, RequestLeft
  <2> DEFINE whole == ReplyOf(file, method, n)
             body == BodyOf(file, method, n)
  <2>3. Pieces(Replies(n), whole, 0)
    BY <1>1, <2>2, RepliesAre
  <2>4. asked'[c] = n /\ out'[c] = Replies(n)
    BY <1>1, <2>1 DEF ConnTypes
  <2>5. whole \in Seq(Symbols) /\ body \in Seq(Symbols)
    BY <1>1, ReplyFacts
  <2>6. /\ Slice(<< >>, whole, 0, 0)
        /\ Writes(<< >>, body, 0) /\ 0 \in 0 .. Len(body)
    BY <2>3, <2>5, BeginsUnderway
  <2>7. client[c] # "done" /\ ~stray[c]
    BY <1>1, <1>3, <2>1 DEF Held
  <2>8. Underway(c)'
    <3>1. /\ Slice(toClient'[c], whole, 0, 0) /\ Pieces(out'[c], whole, 0)
          /\ client'[c] = "first" => 0 = 0 /\ output'[c] = << >>
          /\ client'[c] # "more"
      BY <1>2, <1>3, <2>3, <2>4, <2>6
    <3> HIDE DEF whole
    <3>2. \E a, b \in Nat :
             /\ Slice(toClient'[c], whole, a, b) /\ Pieces(out'[c], whole, b)
             /\ client'[c] = "first" => a = 0 /\ output'[c] = << >>
             /\ client'[c] # "more"
      <4>1. 0 \in Nat
        OBVIOUS
      <4> QED
        BY <3>1, <4>1, Zenon
    <3> QED
      BY <1>2, <2>4, <3>2 DEF Underway, whole
  <2> HIDE DEF body
  <2>9. \E k \in 0 .. Len(body) : Writes(output'[c], body, k)
    BY <1>2, <1>3, <2>6
  <2> QED
    BY <1>2, <2>4, <2>7, <2>8, <2>9 DEF Replied, body
<1> QED
  BY <1>4, <1>5, <1>6

LEMMA RepliedBySend ==
    ASSUME StreamInv, NEW c \in Conns, ChildSend(c) \/ ChildExit(c), UNCHANGED exchangeVars
    PROVE  Replied(c)'
<1>1. Asking(c) /\ Replied(c) /\ ConnTypes
  BY DEF StreamInv
<1>2. /\ UNCHANGED <<program, method, file, client, asked, output, stray>> /\ child[c] = "replying"
  BY DEF ChildSend, ChildExit, exchangeVars
<1> DEFINE whole == ReplyOf(file, method, asked[c])
           body == BodyOf(file, method, asked[c])
<1>3. whole \in Seq(Symbols)
  BY ReplyIs
<1>4. Underway(c) <=>
        \E a, b \in Nat :
           /\ Slice(toClient[c], whole, a, b) /\ Pieces(out[c], whole, b)
           /\ client[c] = "first" => a = 0 /\ output[c] = << >>
           /\ client[c] = "more" => a - 2 \in Nat /\ Writes(output[c], body, a - 2)
  BY DEF Underway
<1>5. Underway(c)' <=>
        \E a, b \in Nat :
           /\ Slice(toClient'[c], whole, a, b) /\ Pieces(out'[c], whole, b)
           /\ client[c] = "first" => a = 0 /\ output[c] = << >>
           /\ client[c] = "more" => a - 2 \in Nat /\ Writes(output[c], body, a - 2)
  BY <1>2 DEF Underway
<1> HIDE DEF whole, body
<1>6. ASSUME ~Gone(c), program = "mp1" PROVE Underway(c)'
  <2>1. Underway(c)
    BY <1>1, <1>2, <1>6 DEF Replied, Answering
  <2>2. PICK a \in Nat, b \in Nat :
           /\ Slice(toClient[c], whole, a, b) /\ Pieces(out[c], whole, b)
           /\ client[c] = "first" => a = 0 /\ output[c] = << >>
           /\ client[c] = "more" => a - 2 \in Nat /\ Writes(output[c], body, a - 2)
    BY <1>4, <2>1
  <2>3. CASE ChildSend(c)
    <3>1. /\ out[c] # << >> /\ out'[c] = Tail(out[c])
          /\ toClient'[c] = toClient[c] \o Head(out[c])
      BY <1>1, <1>6, <2>3 DEF ChildSend, ConnTypes
    <3>2. out[c] \in Seq(Seq(Symbols)) /\ toClient[c] \in Seq(Symbols)
      BY <1>1 DEF ConnTypes
    <3>3. PICK e \in Nat : /\ Head(out[c]) \in Seq(Symbols) /\ Slice(Head(out[c]), whole, b, e)
                           /\ Pieces(Tail(out[c]), whole, e)
      BY <1>3, <2>2, <3>1, <3>2, PiecesTail
    <3>4. Slice(toClient'[c], whole, a, e)
      <4>1. toClient[c] \in Seq(Symbols) /\ Head(out[c]) \in Seq(Symbols)
        BY <3>2, <3>3
      <4>2. Slice(toClient[c] \o Head(out[c]), whole, a, e)
        BY <1>3, <2>2, <3>3, <4>1, SliceJoin
      <4> QED
        BY <3>1, <4>2
    <3>5. Pieces(out'[c], whole, e)
      BY <3>1, <3>3, Zenon
    <3> QED
      BY <1>5, <2>2, <3>4, <3>5
  <2>4. CASE ChildExit(c)
    <3>1. UNCHANGED <<toClient, out>>
      BY <2>4 DEF ChildExit
    <3> QED
      BY <1>5, <2>2, <3>1
  <2> QED
    BY <2>3, <2>4
<1> QED
  BY <1>1, <1>2, <1>6 DEF Replied, Gone

LEMMA RepliedByReceive ==
    ASSUME StreamInv, NEW c \in Conns, ReceiveHead(c) \/ ReceiveMore(c)
    PROVE  Replied(c)'
<1>1. /\ Asking(c) /\ Replied(c) /\ toClient[c] \in Seq(Symbols) /\ output[c] \in Seq(Symbols)
      /\ toClient \in [Conns -> Seq(Symbols)] /\ output \in [Conns -> Seq(Symbols)]
      /\ stray \in [Conns -> BOOLEAN]
      /\ client \in [Conns -> {"new", "connected", "first", "more", "done", "crashed", "dead", "refused"}]
  BY DEF StreamInv, ConnTypes
<1>2. /\ UNCHANGED <<program, method, file, asked, child, out>> /\ client[c] \in {"first", "more"}
      /\ program = "mp1"
  BY DEF ReceiveHead, ReceiveMore, serverVars
<1> DEFINE head == HeadOf(file, method, asked[c])
           body == BodyOf(file, method, asked[c])
           whole == ReplyOf(file, method, asked[c])
<1>3. /\ head \in Seq(Symbols) /\ body \in Seq(Symbols) /\ whole \in Seq(Symbols)
      /\ Len(head) = 2 /\ head[1] # "END" /\ head[2] = "END"
      /\ whole = head \o body /\ Len(whole) = 2 + Len(body) /\ Len(body) \in Nat
  BY ReplyIs
<1>4. Underway(c) <=>
        \E a, b \in Nat :
           /\ Slice(toClient[c], whole, a, b) /\ Pieces(out[c], whole, b)
           /\ client[c] = "first" => a = 0 /\ output[c] = << >>
           /\ client[c] = "more" => a - 2 \in Nat /\ Writes(output[c], body, a - 2)
  BY DEF Underway
<1>5. Underway(c)' <=>
        \E a, b \in Nat :
           /\ Slice(toClient'[c], whole, a, b) /\ Pieces(out[c], whole, b)
           /\ client'[c] = "first" => a = 0 /\ output'[c] = << >>
           /\ client'[c] = "more" => a - 2 \in Nat /\ Writes(output'[c], body, a - 2)
  BY <1>2 DEF Underway
<1>6. Replied(c)' <=>
        /\ Answering(c)' /\ ~Gone(c)' => Underway(c)'
        /\ \E n \in 0 .. Len(body) : Writes(output'[c], body, n)
        /\ client'[c] = "done" /\ asked[c] = 4 => Writes(output'[c], body, Len(body))
        /\ stray'[c] => 2 + Len(body) >= ClientBuffer
  BY <1>2 DEF Replied
<1>7. /\ \E n \in 0 .. Len(body) : Writes(output[c], body, n)
      /\ stray[c] => 2 + Len(body) >= ClientBuffer
  BY <1>1, <1>2 DEF Replied
<1> HIDE DEF head, body, whole
<1>8. PICK n \in Cuts(toClient[c]) :
        /\ toClient'[c] = Left(toClient[c], n)
        /\ LET x == Taken(toClient[c], n)
           IN  \/ /\ client[c] = "first" /\ client'[c] = "more" /\ Contains(x, "END")
                  /\ output'[c] = UpToNul(Behind(x, "END"))
               \/ /\ client[c] = "first" /\ client'[c] = "crashed" /\ output' = output
               \/ /\ client[c] = "more" /\ client'[c] = "more" /\ output'[c] = output[c] \o UpToNul(x)
        /\ stray'[c] => stray[c] \/ Len(Taken(toClient[c], n)) = ClientBuffer
  <2>1. CASE ReceiveHead(c)
    BY <1>1, <2>1 DEF ReceiveHead, Overrun, Unended
  <2>2. CASE ReceiveMore(c)
    BY <1>1, <2>2 DEF ReceiveMore, Written, Overrun, Unended
  <2> QED
    BY <2>1, <2>2
<1> DEFINE x == Taken(toClient[c], n)
<1>9. n \in Nat /\ n # 0 /\ n \in 0 .. Len(toClient[c]) /\ toClient[c] # << >>
  BY <1>1 DEF Cuts
<1>10. Underway(c)
  BY <1>1, <1>2, <1>9 DEF Asking, Replied, Gone
<1>11. PICK a \in Nat, b \in Nat :
           /\ Slice(toClient[c], whole, a, b) /\ Pieces(out[c], whole, b)
           /\ client[c] = "first" => a = 0 /\ output[c] = << >>
           /\ client[c] = "more" => a - 2 \in Nat /\ Writes(output[c], body, a - 2)
  BY <1>4, <1>10
<1>12. /\ Slice(x, whole, a, a + n) /\ Slice(toClient'[c], whole, a + n, b)
       /\ x \in Seq(Symbols) /\ a + n \in Nat /\ Len(x) = n
  <2>1. Slice(x, whole, a, a + n) /\ Slice(Left(toClient[c], n), whole, a + n, b)
    BY <1>1, <1>3, <1>9, <1>11, SliceCut
  <2>2. x \in Seq(Symbols) /\ a + n \in Nat /\ Len(x) = n
    BY <1>1, <1>9, TakenIs
  <2> HIDE DEF x
  <2> QED
    BY <1>8, <2>1, <2>2, Zenon
<1> HIDE DEF x
<1>13. stray'[c] => 2 + Len(body) >= ClientBuffer
  <2>1. n <= 2 + Len(body)
    BY <1>3, <1>9, <1>12 DEF Slice
  <2>2. stray'[c] => stray[c] \/ n = ClientBuffer
    BY <1>8, <1>12 DEF x
  <2> QED
    BY <1>7, <2>1, <2>2
<1>14. CASE client[c] = "first" /\ client'[c] = "more"
  <2>1. Contains(x, "END") /\ output'[c] = UpToNul(Behind(x, "END"))
    BY <1>8, <1>14 DEF x
  <2>2. a = 0 /\ Slice(x, head \o body, 0, n)
    BY <1>3, <1>9, <1>11, <1>12, <1>14
  <2>3. /\ n - 2 \in Nat /\ n - 2 \in 0 .. Len(body)
        /\ Writes(output'[c], body, n - 2)
    BY <1>3, <1>9, <1>12, <2>1, <2>2, FirstWritten
  <2>4. Slice(toClient'[c], whole, n, b)
    BY <1>9, <1>12, <2>2
  <2>5. Underway(c)'
    BY <1>5, <1>9, <1>11, <1>14, <2>3, <2>4
  <2> QED
    BY <1>6, <1>13, <1>14, <2>3, <2>5
<1>15. CASE client[c] = "first" /\ client'[c] = "crashed"
  <2>1. Gone(c)' /\ output'[c] = output[c]
    BY <1>8, <1>15 DEF Gone
  <2> QED
    BY <1>6, <1>7, <1>13, <1>15, <2>1
<1>16. CASE client[c] = "more"
  <2>1. client'[c] = "more" /\ output'[c] = output[c] \o UpToNul(x)
    BY <1>8, <1>16 DEF x
  <2>2. Slice(x, head \o body, a, a + n) /\ a - 2 \in Nat /\ Writes(output[c], body, a - 2)
    BY <1>3, <1>11, <1>12, <1>16
  <2>3. /\ (a + n) - 2 \in Nat /\ (a + n) - 2 \in 0 .. Len(body)
        /\ Writes(output'[c], body, (a + n) - 2)
    <3>1. /\ output[c] \in Seq(Symbols) /\ head \in Seq(Symbols) /\ body \in Seq(Symbols)
          /\ Len(head) = 2
      BY <1>1, <1>3
    <3>2. /\ (a + n) - 2 \in Nat /\ (a + n) - 2 \in 0 .. Len(body)
          /\ Writes(output[c] \o UpToNul(x), body, (a + n) - 2)
      BY <1>12, <2>2, <3>1, MoreWritten
    <3> QED
      BY <2>1, <3>2
  <2>4. Underway(c)'
    BY <1>5, <1>11, <1>12, <2>1, <2>3
  <2> QED
    BY <1>6, <1>13, <2>1, <2>3, <2>4
<1> QED
  BY <1>2, <1>8, <1>14, <1>15, <1>16

\* The end of the stream of a client that has asked for the file and whose request
\* was read whole: all of the reply has been received.
LEMMA AllReceived ==
    ASSUME StreamInv, NEW c \in Conns, Ended(c), asked[c] = 4, ~Gone(c)
    PROVE  /\ client[c] # "first"
           /\ client[c] = "more" => Writes(output[c], BodyOf(file, method, asked[c]),
                                           Len(BodyOf(file, method, asked[c])))
<1>1. Held(c) /\ Asking(c) /\ Replied(c) /\ toClient[c] \in Seq(Symbols)
  BY DEF StreamInv, ConnTypes
<1> DEFINE body == BodyOf(file, method, asked[c])
           whole == ReplyOf(file, method, asked[c])
<1>2. Len(whole) = 2 + Len(body) /\ Len(body) \in Nat
  BY ReplyIs
<1>3. toClient[c] = << >> /\ holders[c] = {}
  BY <1>1 DEF Asking, Ended
<1>4. Answering(c) /\ child[c] # "replying" /\ program = "mp1"
  BY <1>1, <1>3 DEF Asking, Held
<1>5. out[c] = << >> /\ Underway(c)
  BY <1>1, <1>4 DEF Asking, Replied
<1>6. PICK a \in Nat, b \in Nat :
         /\ Slice(toClient[c], whole, a, b) /\ Pieces(out[c], whole, b)
         /\ client[c] = "first" => a = 0
         /\ client[c] = "more" => Writes(output[c], body, a - 2)
  BY <1>5 DEF Underway
<1> HIDE DEF whole, body
<1>7. b = Len(whole)
  BY <1>5, <1>6, PiecesNone
<1>8. a = b
  <2>1. Len(toClient[c]) = b - a /\ Len(toClient[c]) = 0
    BY <1>3, <1>6 DEF Slice
  <2> QED
    BY <2>1
<1>9. a # 0 /\ a - 2 = Len(body)
  BY <1>2, <1>7, <1>8
<1>10. client[c] # "first" /\ (client[c] = "more" => Writes(output[c], body, Len(body)))
  BY <1>6, <1>9
<1> QED
  BY <1>10 DEF body

LEMMA RepliedByOthers ==
    ASSUME StreamInv, NEW c \in Conns,
           \/ NoHead(c) \/ ReceiveEnd(c) \/ SendRequest(c)
           \/ Connect(c) \/ FailToConnect(c) \/ Kill(c)
    PROVE  Replied(c)'
<1>1. Held(c) /\ Asking(c) /\ Replied(c) /\ ConnTypes
  BY DEF StreamInv
<1>2. UNCHANGED <<program, method, file, asked, child, out, output, stray>>
  BY DEF NoHead, ReceiveEnd, SendRequest, Connect, FailToConnect, Kill,
         serverVars, exchangeVars
<1>3. Replied(c)' <=>
        (program = "mp1" =>
            /\ Answering(c) /\ ~Gone(c)' => Underway(c)'
            /\ \E n \in 0 .. Len(BodyOf(file, method, asked[c])) :
                  Writes(output[c], BodyOf(file, method, asked[c]), n)
            /\ client'[c] = "done" /\ asked[c] = 4 =>
                  Writes(output[c], BodyOf(file, method, asked[c]),
                         Len(BodyOf(file, method, asked[c])))
            /\ stray[c] => 2 + Len(BodyOf(file, method, asked[c])) >= ClientBuffer)
  BY <1>2 DEF Replied, Answering
<1>4. /\ Gone(c)' \/ ~Answering(c)
      /\ client'[c] = "done" /\ asked[c] = 4 =>
              Writes(output[c], BodyOf(file, method, asked[c]),
                     Len(BodyOf(file, method, asked[c])))
  <2>1. CASE NoHead(c) \/ ReceiveEnd(c)
    <3>1. /\ client[c] \in {"first", "more"} /\ Ended(c) /\ client'[c] \in {"done", "crashed"}
      BY <1>1, <2>1 DEF NoHead, ReceiveEnd, ConnTypes
    <3>2. Gone(c)' /\ ~Gone(c)
      BY <3>1 DEF Gone
    <3>3. asked[c] = 4 => Writes(output[c], BodyOf(file, method, asked[c]),
                                 Len(BodyOf(file, method, asked[c])))
      BY <3>1, <3>2, AllReceived
    <3> QED
      BY <3>2, <3>3
  <2>2. CASE Kill(c)
    BY <1>1, <2>2 DEF Kill, Gone, ConnTypes
  <2>3. CASE SendRequest(c)
    <3>1. client[c] = "connected" /\ program = "mp1" /\ client'[c] = "first"
      BY <1>1, <2>3 DEF SendRequest, ConnTypes
    <3>2. asked[c] = 0 /\ ~Gone(c)
      BY <1>1, <3>1 DEF Asking, Gone
    <3>3. ~Answering(c)
      BY <1>1, <3>1, <3>2 DEF Asking
    <3> QED
      BY <3>1, <3>3
  <2>4. CASE Connect(c) \/ FailToConnect(c)
    <3>1. client[c] = "new" /\ client'[c] # "done"
      BY <1>1, <2>4 DEF Connect, FailToConnect, ConnTypes
    <3>2. ~Answering(c)
      BY <1>1, <3>1 DEF Held, Answering
    <3> QED
      BY <3>1, <3>2
  <2> QED
    BY <2>1, <2>2, <2>3, <2>4
<1> QED
  BY <1>1, <1>3, <1>4 DEF Replied

\* In mp0 a client's only recv comes after its child's only send.
LEMMA OnceByChild ==
    ASSUME StreamInv, NEW c \in Conns, Child(c)
    PROVE  Once(c)'
<1> SUFFICES ASSUME program' = "mp0" PROVE Once(c)'
  BY DEF Once
<1>1. Asking(c) /\ Once(c) /\ ConnTypes /\ ServedFile(file)
  BY DEF StreamInv, ServerInv
<1>2. /\ StartReply(c) \/ ((ChildSend(c) \/ ChildExit(c)) /\ UNCHANGED exchangeVars)
      /\ UNCHANGED <<program, file, client, output, stray>> /\ program = "mp0"
  BY DEF Child, HttpChild, ReadRequest, NoRequest, StartReply, ChildSend, ChildExit,
         streamVars, exchangeVars
<1>3. result \in Seq(Symbols) /\ result # << >>
  BY <1>1, ResultIs
<1>4. result' = result
  BY <1>2 DEF result
<1> HIDE DEF result
<1>5. CASE StartReply(c)
  <2>1. /\ child[c] = "started" /\ child'[c] = "replying" /\ out'[c] = <<result>>
        /\ UNCHANGED <<toServer, toClient, reset>>
    BY <1>1, <1>5 DEF StartReply, streamVars, ConnTypes
  <2>2. toClient[c] = << >>
    BY <1>1, <2>1 DEF Asking, Answering
  <2>3. Printed(c) => Printed(c)'
    BY <1>2, <1>4, <2>1 DEF Printed
  <2> QED
    BY <1>1, <1>2, <1>4, <2>1, <2>2, <2>3 DEF Once
<1>6. CASE ChildSend(c) \/ ChildExit(c)
  <2>1. child[c] = "replying" /\ Answering(c) /\ toServer' = toServer
    BY <1>6 DEF ChildSend, ChildExit, Answering
  <2>2. ~reset'[c] /\ toServer'[c] = << >>
    BY <1>1, <1>2, <1>6, <2>1 DEF ChildSend, ChildExit, Close, ConnTypes, Once
  <2>3. CASE client[c] = "first"
    <3>1. ~Gone(c)
      BY <2>3 DEF Gone
    <3>2. \/ out[c] = <<result>> /\ toClient[c] = << >>
          \/ out[c] = << >> /\ toClient[c] = result
      BY <1>1, <1>2, <2>1, <2>3 DEF Once
    <3>3. out'[c] = << >> /\ toClient'[c] = result
      <4>1. CASE ChildSend(c)
        <5>1. /\ out[c] # << >> /\ out'[c] = Tail(out[c]) /\ toClient'[c] = toClient[c] \o Head(out[c])
          BY <1>1, <3>1, <4>1 DEF ChildSend, ConnTypes
        <5>2. Tail(<<result>>) = << >> /\ Head(<<result>>) = result
          OBVIOUS
        <5>3. out[c] = <<result>> /\ toClient[c] = << >>
          BY <3>2, <5>1
        <5>4. << >> \o result = result
          BY <1>3, ConcatEmptySeq
        <5> QED
          BY <5>1, <5>2, <5>3, <5>4
      <4>2. CASE ChildExit(c)
        BY <3>2, <4>2 DEF ChildExit
      <4> QED
        BY <1>6, <4>1, <4>2
    <3> QED
      BY <1>1, <1>2, <1>4, <2>2, <2>3, <3>3 DEF Once
  <2>4. CASE client[c] = "done"
    <3>1. toClient'[c] = toClient[c]
      BY <1>1, <1>6, <2>4 DEF ChildSend, ChildExit, Gone, ConnTypes
    <3>2. Printed(c)
      BY <1>1, <1>2, <2>1, <2>4 DEF Once
    <3>3. Printed(c)'
      BY <1>2, <1>4, <3>1, <3>2 DEF Printed
    <3> QED
      BY <1>1, <1>2, <2>2, <2>4, <3>3 DEF Once
  <2>5. CASE client[c] \notin {"first", "done"}
    BY <1>1, <1>2, <2>2, <2>5 DEF Once
  <2> QED
    BY <2>3, <2>4, <2>5
<1> QED
  BY <1>2, <1>5, <1>6

LEMMA OnceByClient ==
    ASSUME StreamInv, NEW c \in Conns, Client(c) \/ Connect(c) \/ FailToConnect(c) \/ Kill(c)
    PROVE  Once(c)'
<1> SUFFICES ASSUME program' = "mp0" PROVE Once(c)'
  BY DEF Once
<1>1. Held(c) /\ Asking(c) /\ Once(c) /\ ConnTypes /\ ServedFile(file)
  BY DEF StreamInv, ServerInv
<1>2. /\ UNCHANGED <<program, file, toServer, reset, child, out>> /\ program = "mp0"
      /\ ReceiveOnce(c) \/ ReceiveNothing(c) \/ Connect(c) \/ FailToConnect(c) \/ Kill(c)
  BY DEF Client, HttpClient, SendRequest, ReceiveHead, NoHead, ReceiveMore, ReceiveEnd,
         ReceiveOnce, ReceiveNothing, Connect, FailToConnect, Kill, serverVars, exchangeVars
<1>3. /\ result \in Seq(Symbols) /\ result # << >> /\ Len(result) >= 4
      /\ result[1] # "NL" /\ result[2] = "NL" /\ result' = result
  <2>1. result' = result
    BY <1>2 DEF result
  <2> QED
    BY <1>1, <2>1, ResultIs
<1> HIDE DEF result
<1>4. ~reset'[c] /\ toServer'[c] = << >>
  BY <1>1, <1>2 DEF Once
<1>5. CASE ReceiveOnce(c)
  <2>1. PICK n \in Cuts(toClient[c]) :
           LET buf == Taken(toClient[c], n)
               from == PrintedFrom(buf)
           IN  /\ client[c] = "first" /\ toClient'[c] = Left(toClient[c], n)
               /\ \/ /\ Contains(buf, "NL") /\ client'[c] = "done"
                     /\ output'[c] = SubSeq(buf, from, n) /\ (stray'[c] => from > n + 1)
                  \/ client'[c] = "crashed" /\ UNCHANGED <<output, stray>>
                  \/ ~Contains(buf, "NL") /\ client'[c] = "done" /\ output' = output
    BY <1>1, <1>5 DEF ReceiveOnce, PrintAnywhere, ConnTypes
  <2>2. toClient[c] # << >>
    BY DEF Cuts
  <2>3. toClient[c] = result /\ output[c] = << >> /\ ~stray[c]
    BY <1>1, <1>2, <2>1, <2>2 DEF Once, Asking
  <2>4. n \in 1 .. Len(result)
    BY <2>3 DEF Cuts
  <2> DEFINE buf == Taken(result, n)
  <2>5. /\ ~Contains(buf, "NL") => n = 1
        /\ Contains(buf, "NL") => /\ n >= 2 /\ PrintedFrom(buf) = 4
                                 /\ Slice(SubSeq(buf, 4, n), result, 3, IF n < 3 THEN 3 ELSE n)
    BY <1>3, <2>4, OncePrinted
  <2> HIDE DEF buf
  <2>6. CASE Contains(buf, "NL") /\ client'[c] = "done"
    <3>1. output'[c] = SubSeq(buf, 4, n) /\ (stray'[c] => 4 > n + 1)
      BY <2>1, <2>3, <2>5, <2>6 DEF buf
    <3>2. n \in Nat /\ (4 > n + 1 => n < 3)
      BY <2>4
    <3>3. Printed(c)'
      BY <1>3, <2>1, <2>3, <2>4, <2>5, <2>6, <3>1, <3>2 DEF Printed
    <3> QED
      BY <1>2, <1>4, <2>6, <3>3 DEF Once
  <2>7. CASE ~Contains(buf, "NL") /\ client'[c] = "done"
    <3>1. n = 1 /\ output'[c] = << >>
      BY <2>1, <2>3, <2>5, <2>7 DEF buf
    <3>2. Slice(<< >>, result, 3, 3)
      BY <1>3 DEF Slice
    <3>3. Printed(c)'
      BY <1>3, <2>1, <2>3, <2>4, <3>1, <3>2 DEF Printed
    <3> QED
      BY <1>2, <1>4, <2>7, <3>3 DEF Once
  <2>8. CASE client'[c] # "done"
    <3>1. client'[c] = "crashed" /\ UNCHANGED <<output, stray>>
      BY <2>1, <2>8
    <3> QED
      BY <1>2, <1>4, <2>3, <3>1 DEF Once
  <2> QED
    BY <2>6, <2>7, <2>8
<1>6. CASE ReceiveNothing(c)
  <2>1. /\ client[c] = "first" /\ Ended(c) /\ UNCHANGED <<holders, output>>
        /\ (client'[c] = "crashed" /\ UNCHANGED stray) \/ client'[c] = "done"
    BY <1>1, <1>6 DEF ReceiveNothing, PrintAnywhere, ConnTypes
  <2>2. holders[c] = {} /\ output[c] = << >> /\ ~stray[c]
    BY <1>1, <1>2, <2>1 DEF Ended, Once
  <2>3. child[c] = "none"
    <3>1. child[c] \notin {"started", "replying"}
      BY <1>1, <2>2 DEF Held
    <3>2. ~Answering(c)
      BY <1>1, <1>2, <1>3, <2>1, <3>1 DEF Ended, Once
    <3> QED
      BY <3>1, <3>2 DEF Answering
  <2> QED
    BY <1>2, <1>4, <2>1, <2>2, <2>3 DEF Once
<1>7. CASE Connect(c) \/ FailToConnect(c)
  <2>1. /\ client[c] = "new" /\ client'[c] # "done" /\ UNCHANGED <<output, stray>>
    BY <1>1, <1>7 DEF Connect, FailToConnect, exchangeVars, ConnTypes
  <2>2. ~Answering(c)'
    BY <1>1, <1>2, <2>1 DEF Held, Answering
  <2> QED
    BY <1>1, <1>2, <1>4, <2>1, <2>2 DEF Once
<1>8. CASE Kill(c)
  <2>1. client[c] # "done" /\ client'[c] = "dead" /\ UNCHANGED <<output, stray>>
    BY <1>1, <1>8 DEF Kill, exchangeVars, ConnTypes
  <2> QED
    BY <1>1, <1>2, <1>4, <2>1 DEF Once
<1> QED
  BY <1>2, <1>5, <1>6, <1>7, <1>8

-----------------------------------------------------------------------------
(***************************************************************************)
(* The invariant.                                                          *)
(***************************************************************************)
LEMMA StepInv ==
    ASSUME StreamInv, Next
    PROVE  StreamInv'
<1>1. ServerInv' /\ BacklogInv' /\ ConnTypes'
  BY ServerKept, BacklogKept, TypesKept
<1>2. ASSUME NEW d \in Conns PROVE Held(d)' /\ Asking(d)' /\ Replied(d)' /\ Once(d)'
  <2>1. CASE Server
    BY <2>1, HeldByServer, ExchangeByServer
  <2>2. ASSUME NEW c \in Conns, Child(c) \/ Client(c) \/ Connect(c) \/ FailToConnect(c) \/ Kill(c)
        PROVE  Held(d)' /\ Asking(d)' /\ Replied(d)' /\ Once(d)'
    <3>1. Held(d)'
      BY <2>2, HeldByOthers
    <3>2. CASE d # c
      BY <2>2, <3>1, <3>2, ExchangeByOthers
    <3>3. CASE d = c
      <4>1. Asking(c)' /\ Once(c)'
        BY <2>2, AskingByChild, AskingByClient, OnceByChild, OnceByClient
      <4>2. Replied(c)'
        <5>1. CASE Child(c)
          BY <5>1, RepliedAtStart, RepliedBySend DEF Child, HttpChild
        <5>2. CASE ReceiveOnce(c) \/ ReceiveNothing(c)
          <6>1. program' = "mp0"
            BY <5>2 DEF ReceiveOnce, ReceiveNothing
          <6> QED
            BY <6>1 DEF Replied
        <5>3. CASE HttpClient(c) \/ Connect(c) \/ FailToConnect(c) \/ Kill(c)
          BY <5>3, RepliedByReceive, RepliedByOthers DEF HttpClient
        <5> QED
          BY <2>2, <5>1, <5>2, <5>3 DEF Client
      <4> QED
        BY <3>1, <3>3, <4>1, <4>2
    <3> QED
      BY <3>2, <3>3
  <2> QED
    BY <2>1, <2>2 DEF Next, Processes
<1> QED
  BY <1>1, <1>2 DEF StreamInv

LEMMA StutterInv ==
    ASSUME StreamInv, UNCHANGED vars
    PROVE  StreamInv'
<1>1. /\ UNCHANGED <<client, backlog, holders, toServer, toClient, reset, faults>>
      /\ UNCHANGED <<server, p, sockets, newFd, child, out, pending, handling>>
      /\ UNCHANGED <<program, method, file, asked, output, stray>>
  BY DEF vars, streamVars, serverVars, exchangeVars
<1>2. ServerInv' /\ BacklogInv' /\ ConnTypes'
  BY <1>1 DEF StreamInv, ServerInv, BacklogInv, ConnTypes, Zombies
<1>3. ASSUME NEW c \in Conns PROVE Held(c)' /\ Asking(c)' /\ Replied(c)' /\ Once(c)'
  <2>1. Held(c)' /\ Asking(c)' /\ Replied(c)'
    BY <1>1 DEF StreamInv, Held, Asking, Replied, Waiting, Answering, Gone, Underway
  <2>2. result' = result
    BY <1>1 DEF result
  <2>3. Once(c)'
    BY <1>1, <2>2 DEF StreamInv, Once, Printed, Answering
  <2> QED
    BY <2>1, <2>3
<1> QED
  BY <1>2, <1>3 DEF StreamInv

LEMMA StreamInvariant == Spec => []StreamInv
<1>1. Init => StreamInv
  BY InitInv
<1>2. StreamInv /\ [Next]_vars => StreamInv'
  BY StepInv, StutterInv
<1> QED
  BY <1>1, <1>2, PTL DEF Spec

-----------------------------------------------------------------------------
(***************************************************************************)
(* What the invariant says of the runs' properties.                        *)
(***************************************************************************)
LEMMA TypeFromInv == StreamInv => TypeOK
<1> SUFFICES ASSUME StreamInv PROVE TypeOK
  OBVIOUS
<1>1. newFd \in SUBSET Conns /\ Cardinality(newFd) <= 1
  <2>1. newFd = {} \/ \E c \in Conns : newFd = {c}
    BY DEF StreamInv, ServerInv
  <2>2. CASE newFd = {}
    BY <2>2, FS_EmptySet
  <2>3. ASSUME NEW c \in Conns, newFd = {c} PROVE newFd \in SUBSET Conns /\ Cardinality(newFd) <= 1
    BY <2>3, FS_Singleton
  <2> QED
    BY <2>1, <2>2, <2>3
<1>2. asked \in [Conns -> 0 .. Len(Request)]
  BY SymbolFacts DEF StreamInv, ConnTypes
<1> QED
  BY <1>1, <1>2 DEF StreamInv, ServerInv, BacklogInv, ConnTypes, TypeOK

\* What a client should write is the body of the reply.
LEMMA ExpectedIs ==
    ASSUME StreamInv, NEW c \in Conns
    PROVE  /\ Expected(c) \in Seq(Symbols)
           /\ program = "mp0" => Expected(c) = Left(result, 3) /\ NoNul(Expected(c))
           /\ program = "mp1" => Expected(c) = BodyOf(file, method, asked[c])
           /\ NulFree => NoNul(Expected(c))
<1>1. /\ ServedFile(file) /\ file.bytes \in Seq(Symbols) /\ program \in {"mp0", "mp1"}
      /\ OK \in Seq(Symbols) /\ NotFound \in Seq(Symbols)
      /\ Len(OK) = 2 /\ Len(NotFound) = 2
  BY SymbolFacts DEF StreamInv, ServerInv, ServedFile, OK
<1> DEFINE n == asked[c]
           body == BodyOf(file, method, n)
<1>2. CASE program = "mp0"
  <2>1. Expected(c) = Left(result, 3)
    BY <1>2 DEF Expected
  <2>2. Left(result, 3) \in Seq(Symbols) /\ NoNul(Left(result, 3))
    BY <1>1, ResultIs
  <2> QED
    BY <1>2, <2>1, <2>2
<1>3. CASE program = "mp1"
  <2>1. Answer(n) = AnswerOf(file, n)
    BY DEF Answer, AnswerOf
  <2>2. AnswerOf(file, n) = IF n < 3 \/ ~file.exists THEN NotFound ELSE OK \o file.bytes
    BY DEF AnswerOf
  <2>3. body \in Seq(Symbols)
    BY <1>1, ReplyFacts
  <2>4. Left(NotFound, 2) = << >>
    <3>1. Left(NotFound, 2) \in Seq(Symbols) /\ Len(Left(NotFound, 2)) = 0
      <4>1. NotFound \in Seq(Symbols) /\ Len(NotFound) = 2
        BY <1>1
      <4>2. 2 \in 0 .. Len(NotFound)
        BY <4>1
      <4>3. /\ Taken(NotFound, 2) \in Seq(Symbols) /\ Len(Taken(NotFound, 2)) = 2
            /\ \A i \in 1 .. 2 : Taken(NotFound, 2)[i] = NotFound[i]
            /\ Left(NotFound, 2) \in Seq(Symbols) /\ Len(Left(NotFound, 2)) = Len(NotFound) - 2
            /\ \A i \in 1 .. Len(NotFound) - 2 : Left(NotFound, 2)[i] = NotFound[2 + i]
        BY <4>1, <4>2, TakenIs, Zenon
      <4> QED
        BY <4>1, <4>3
    <3> QED
      BY <3>1
  <2>5. Left(OK \o file.bytes, 2) = file.bytes
    <3> DEFINE w == OK \o file.bytes
               l == Left(w, 2)
    <3>1. /\ w \in Seq(Symbols) /\ Len(w) = Len(OK) + Len(file.bytes)
          /\ \A i \in 1 .. Len(OK) + Len(file.bytes) :
                w[i] = IF i <= Len(OK) THEN OK[i] ELSE file.bytes[i - Len(OK)]
      BY <1>1, ConcatProperties
    <3>2. Len(file.bytes) \in Nat
      BY <1>1
    <3> HIDE DEF w
    <3>3. 2 \in 0 .. Len(w)
      BY <1>1, <3>1, <3>2
    <3>4. /\ l \in Seq(Symbols) /\ Len(l) = Len(w) - 2
          /\ \A i \in 1 .. Len(w) - 2 : l[i] = w[2 + i]
      <4>1. w \in Seq(Symbols) /\ 2 \in 0 .. Len(w)
        BY <3>1, <3>3
      <4> QED
        BY <4>1, TakenIs
    <3> HIDE DEF l
    <3>5. Len(l) = Len(file.bytes)
      BY <1>1, <3>1, <3>2, <3>4
    <3>6. ASSUME NEW i \in 1 .. Len(file.bytes) PROVE l[i] = file.bytes[i]
      <4>1. i \in 1 .. Len(w) - 2 /\ 2 + i \in 1 .. Len(OK) + Len(file.bytes)
            /\ ~(2 + i <= Len(OK)) /\ (2 + i) - Len(OK) = i
        BY <1>1, <3>1, <3>2
      <4> QED
        BY <3>1, <3>4, <4>1
    <3> QED
      BY <1>1, <3>4, <3>5, <3>6, SeqEqual DEF l, w
  <2>6. Expected(c) = body
    <3>1. Expected(c) = IF n < 2 \/ method # "GET" THEN AnswerOf(file, n)
                        ELSE Left(AnswerOf(file, n), 2)
      BY <1>3, <2>1 DEF Expected
    <3>2. body = IF n < 2 \/ method # "GET" THEN AnswerOf(file, n)
                 ELSE IF n < 3 THEN << >> ELSE file.bytes
      BY DEF BodyOf
    <3>3. ~file.exists => file.bytes = << >>
      BY <1>1 DEF ServedFile
    <3> HIDE DEF body, n
    <3> QED
      BY <2>2, <2>4, <2>5, <3>1, <3>2, <3>3
  <2>7. ASSUME NulFree PROVE NoNul(body)
    <3>1. NoNul(file.bytes) /\ NoNul(NotFound) /\ NoNul(<< >>)
      <4>1. \A i \in 1 .. Len(NotFound) : NotFound[i] # "NUL"
        BY DEF NotFound
      <4> QED
        BY <2>7, <4>1 DEF NulFree, NoNul, Contains
    <3>2. NoNul(OK \o file.bytes)
      <4> DEFINE w == OK \o file.bytes
      <4>1. /\ w \in Seq(Symbols) /\ Len(w) = Len(OK) + Len(file.bytes)
            /\ \A i \in 1 .. Len(OK) + Len(file.bytes) :
                  w[i] = IF i <= Len(OK) THEN OK[i] ELSE file.bytes[i - Len(OK)]
        BY <1>1, ConcatProperties
      <4> HIDE DEF w
      <4>2. Len(file.bytes) \in Nat /\ \A i \in 1 .. 2 : OK[i] # "NUL"
        BY <1>1 DEF OK
      <4>3. ASSUME NEW i \in 1 .. Len(w), w[i] = "NUL" PROVE FALSE
        <5>1. i \in 1 .. 2 + Len(file.bytes) /\ (w[i] = IF i <= 2 THEN OK[i] ELSE file.bytes[i - 2])
          BY <1>1, <4>1, <4>2
        <5>2. ~(i <= 2) /\ i - 2 \in 1 .. Len(file.bytes)
          BY <4>2, <4>3, <5>1
        <5>3. file.bytes[i - 2] = "NUL"
          BY <4>3, <5>1, <5>2
        <5> QED
          BY <3>1, <5>2, <5>3 DEF NoNul, Contains
      <4> QED
        BY <4>3 DEF NoNul, Contains, w
    <3> QED
      BY <2>2, <3>1, <3>2 DEF BodyOf
  <2> QED
    BY <1>3, <2>3, <2>6, <2>7
<1> QED
  BY <1>1, <1>2, <1>3

\* A slice from the third symbol of the text of mp0 is a slice of what should be printed.
LEMMA PrintedIs ==
    ASSUME StreamInv, NEW c \in Conns, program = "mp0"
    PROVE  \E n \in 0 .. Len(Expected(c)) :
              /\ Writes(output[c], Expected(c), n)
              /\ client[c] = "done" /\ child[c] # "none" /\ toClient[c] = << >>
                    => n = Len(Expected(c))
<1>1. /\ Once(c) /\ output[c] \in Seq(Symbols) /\ ServedFile(file)
  BY DEF StreamInv, ServerInv, ConnTypes
<1> DEFINE body == Expected(c)
<1>2. body = Left(result, 3) /\ body \in Seq(Symbols) /\ NoNul(body)
  BY ExpectedIs
<1>3. /\ result \in Seq(Symbols) /\ Len(result) \in Nat /\ Len(result) >= 4
      /\ Len(body) = Len(result) - 3
      /\ \A i \in 1 .. Len(result) - 3 : body[i] = result[3 + i]
  BY <1>1, <1>2, ResultIs
<1> HIDE DEF result, body
<1>4. CASE client[c] = "done" /\ Printed(c)
  <2>1. PICK n \in 1 .. Len(result) :
           /\ toClient[c] = Left(result, n)
           /\ Slice(output[c], result, 3, IF n < 3 THEN 3 ELSE n)
    BY <1>4 DEF Printed
  <2> DEFINE m == IF n < 3 THEN 0 ELSE n - 3
  <2>2. m \in 0 .. Len(body) /\ (IF n < 3 THEN 3 ELSE n) = m + 3 /\ n \in Nat /\ m \in Nat
    BY <1>3
  <2> HIDE DEF m
  <2>3. Len(output[c]) = m /\ \A i \in 1 .. m : output[c][i] = result[3 + i]
    BY <2>1, <2>2 DEF Slice
  <2>4. \A i \in 1 .. m : output[c][i] = body[i]
    BY <1>3, <2>2, <2>3
  <2>5. Writes(output[c], body, m)
    <3>1. [i \in 1 .. m |-> i] \in [1 .. Len(output[c]) -> 1 .. m]
      BY <2>3
    <3>2. Slice(output[c], body, 0, m)
      BY <1>3, <2>2, <2>3, <2>4 DEF Slice
    <3> QED
      BY <2>3, <2>4, <3>1, <3>2 DEF Writes
  <2>6. ASSUME toClient[c] = << >> PROVE m = Len(body)
    <3>1. n \in 0 .. Len(result)
      BY <1>3
    <3>2. Len(Left(result, n)) = Len(result) - n
      BY <1>3, <3>1, TakenIs
    <3>3. n = Len(result)
      BY <1>3, <2>1, <2>2, <2>6, <3>2
    <3> QED
      BY <1>3, <2>2, <3>3
  <2> QED
    BY <2>2, <2>5, <2>6 DEF body
<1>5. CASE ~(client[c] = "done" /\ Printed(c))
  <2>1. output[c] = << >> /\ ~(client[c] = "done" /\ child[c] # "none")
    BY <1>1, <1>5 DEF Once
  <2>2. Writes(output[c], body, 0) /\ 0 \in 0 .. Len(body)
    BY <1>2, <1>3, <2>1, WritesNothing
  <2> QED
    BY <2>1, <2>2 DEF body
<1> QED
  BY <1>4, <1>5

LEMMA OrderFromInv == StreamInv => OutputInOrder
<1> SUFFICES ASSUME StreamInv, NEW c \in Conns
             PROVE  /\ SubSequence(output[c], Expected(c))
                    /\ NulFree => IsPrefix(output[c], Expected(c))
  BY DEF OutputInOrder
<1>1. output[c] \in Seq(Symbols) /\ Replied(c) /\ program \in {"mp0", "mp1"}
  BY DEF StreamInv, ServerInv, ConnTypes
<1>2. Expected(c) \in Seq(Symbols) /\ (NulFree => NoNul(Expected(c)))
  BY ExpectedIs
<1>3. \E n \in 0 .. Len(Expected(c)) : Writes(output[c], Expected(c), n)
  <2>1. CASE program = "mp0"
    BY <2>1, PrintedIs
  <2>2. CASE program = "mp1"
    BY <1>1, <2>2, ExpectedIs DEF Replied
  <2> QED
    BY <1>1, <2>1, <2>2
<1> HIDE DEF Expected
<1>4. Len(Expected(c)) <= Len(Expected(c))
  BY <1>2
<1> QED
  BY <1>1, <1>2, <1>3, <1>4, WritesIn

LEMMA StrayFromInv == StreamInv => StrayExplained
<1> SUFFICES ASSUME StreamInv, NEW c \in Conns, stray[c]
             PROVE  IF program = "mp0" THEN child[c] = "none" \/ Len(toClient[c]) + 2 >= Len(result)
                    ELSE 2 + Len(Expected(c)) >= ClientBuffer
  BY DEF StrayExplained
<1>1. Replied(c) /\ Once(c) /\ program \in {"mp0", "mp1"} /\ ServedFile(file)
  BY DEF StreamInv, ServerInv
<1>2. CASE program = "mp0"
  <2>1. client[c] = "done" /\ (Printed(c) \/ child[c] = "none")
    BY <1>1, <1>2 DEF Once
  <2>2. CASE Printed(c)
    <3>1. result \in Seq(Symbols) /\ Len(result) \in Nat
      BY <1>1, ResultIs
    <3> HIDE DEF result
    <3>2. PICK n \in 1 .. Len(result) : toClient[c] = Left(result, n) /\ n < 3
      BY <2>2 DEF Printed
    <3>3. n \in 0 .. Len(result)
      BY <3>1
    <3>4. Len(toClient[c]) = Len(result) - n
      BY <3>1, <3>2, <3>3, TakenIs
    <3> QED
      BY <1>2, <3>1, <3>2, <3>4
  <2> QED
    BY <1>2, <2>1, <2>2
<1>3. CASE program = "mp1"
  BY <1>1, <1>3, ExpectedIs DEF Replied
<1> QED
  BY <1>1, <1>2, <1>3

LEMMA WholeFromInv == StreamInv => WholeFile
<1> SUFFICES ASSUME StreamInv, NEW c \in Conns, client[c] = "done", NulFree,
                    IF program = "mp0" THEN child[c] # "none" /\ toClient[c] = << >>
                    ELSE asked[c] = Len(Request)
             PROVE  output[c] = Expected(c)
  BY DEF WholeFile
<1>1. /\ Replied(c) /\ output[c] \in Seq(Symbols) /\ program \in {"mp0", "mp1"}
  BY DEF StreamInv, ServerInv, ConnTypes
<1>2. Expected(c) \in Seq(Symbols) /\ NoNul(Expected(c))
  BY ExpectedIs
<1>3. Writes(output[c], Expected(c), Len(Expected(c)))
  <2>1. CASE program = "mp0"
    BY <2>1, PrintedIs
  <2>2. CASE program = "mp1"
    <3>1. asked[c] = 4
      BY <2>2, SymbolFacts
    <3> QED
      BY <1>1, <2>2, <3>1, ExpectedIs DEF Replied
  <2> QED
    BY <1>1, <2>1, <2>2
<1> DEFINE body == Expected(c)
<1> HIDE DEF body
<1>4. body \in Seq(Symbols) /\ Slice(output[c], body, 0, Len(body)) /\ Len(body) \in Nat
  <2>1. body \in Seq(Symbols) /\ Slice(output[c], body, 0, Len(body))
    BY <1>2, <1>3 DEF Writes, body
  <2> QED
    BY <2>1
<1>5. Len(output[c]) = Len(body) /\ \A i \in 1 .. Len(body) : output[c][i] = body[i]
  BY <1>4 DEF Slice
<1>6. output[c] = body
  BY <1>1, <1>4, <1>5, SeqEqual
<1> QED
  BY <1>6 DEF body

-----------------------------------------------------------------------------
(***************************************************************************)
(* The theorems.                                                           *)
(***************************************************************************)
\* No variable of the servers and the clients of mp0 and mp1 leaves its type; of
\* the connections the parent has at most one open at a time.
THEOREM StreamServersType == Spec => []TypeOK
BY StreamInvariant, TypeFromInv, PTL

\* A child that has exited is waited for by a handler that runs or will run,
\* although one SIGCHLD may stand for many children.
THEOREM ExitsAreNoticed == Spec => []ZombiesNoticed
<1>1. StreamInv => ZombiesNoticed
  BY DEF StreamInv, ServerInv, ZombiesNoticed
<1> QED
  BY <1>1, StreamInvariant, PTL

\* Of what recv returns a client writes what belongs to the answer, each symbol at most
\* once and in order, however recv cuts the stream (in mp0 also between the three
\* newlines), however the server cuts the file into blocks, and whichever forks
\* fail and clients are killed; of a file without NULs it writes a prefix.
THEOREM OutputStaysInOrder == Spec => []OutputInOrder
BY StreamInvariant, OrderFromInv, PTL

\* Bytes that were never sent to a client are written only by a client of mp0 that no
\* child answers or whose recv returns nothing behind the first newline, and by a
\* client of mp1 whose buffer the answer can fill.
THEOREM StrayBytesExplained == Spec => []StrayExplained
BY StreamInvariant, StrayFromInv, PTL

\* A client that came to its end has written the whole answer, if the file has no NULs:
\* in mp0 a client that received all a child sent, in mp1 a client of whose request
\* the child has read everything.
THEOREM ClientsGetWholeFile == Spec => []WholeFile
BY StreamInvariant, WholeFromInv, PTL

=============================================================================
