------------------------ MODULE HiQnetSessionOrder -------------------------
(***************************************************************************)
(* A unit that keeps to the protocol does not lose its session: the sets   *)
(* the client expects to be acknowledged are, in order, those whose        *)
(* acknowledgements are on their way, those the unit will not acknowledge, *)
(* and those it has not read.                                              *)
(***************************************************************************)
EXTENDS HiQnetSessionProofs

-----------------------------------------------------------------------------
(* Sets in order *)

\* The sets among the requests the unit has not read: all but the request of
\* the exchange under way, which is the last.
Sets(q) ==
  IF q # <<>> /\ q[Len(q)].kind # "set" THEN Len(q) - 1 ELSE Len(q)

\* Of the sets in pend, the oldest are acknowledged by the lines ls and then by
\* ow, the youngest are still in q, and unless some are skipped these are all.
Awaited(pend, ls, ow, q, some) ==
  /\ Len(ls) + Len(ow) + Sets(q) <= Len(pend)
  /\ ~some => Len(ls) + Len(ow) + Sets(q) = Len(pend)
  /\ \A i \in 1 .. Len(ls) : Acknowledges(ls[i], pend[i])
  /\ \A i \in 1 .. Len(ow) : Acknowledges(ow[i], pend[Len(ls) + i])
  /\ \A i \in 1 .. Sets(q) : q[i] = pend[Len(pend) - Sets(q) + i]

LEMMA SetsNumber ==
  ASSUME NEW q \in Seq(Requests)
  PROVE  /\ Sets(q) \in Nat /\ Sets(q) <= Len(q)
         /\ OnlySets(q) => Sets(q) = Len(q)
<1>1. Len(q) \in Nat /\ DOMAIN q = 1 .. Len(q) /\ (q # <<>> => Len(q) > 0)
  OBVIOUS
<1>2. Sets(q) \in Nat /\ Sets(q) <= Len(q)
  BY <1>1 DEF Sets
<1>3. ASSUME OnlySets(q) PROVE Sets(q) = Len(q)
  <2>1. CASE q = <<>>
    BY <2>1 DEF Sets
  <2>2. CASE q # <<>>
    <3>1. Len(q) \in DOMAIN q
      BY <1>1, <2>2
    <3>2. q[Len(q)].kind = "set"
      BY <1>3, <3>1 DEF OnlySets
    <3> QED
      BY <3>2 DEF Sets
  <2> QED
    BY <2>1, <2>2
<1> QED
  BY <1>2, <1>3

\* A request joins those the unit has not read.
LEMMA SetsAppend ==
  ASSUME NEW q \in Seq(Requests), NEW r \in Requests, OnlySets(q)
  PROVE  /\ Sets(Append(q, r)) = IF r.kind = "set" THEN Sets(q) + 1 ELSE Sets(q)
         /\ \A i \in 1 .. Sets(q) : Append(q, r)[i] = q[i]
<1>1. /\ Len(q) \in Nat /\ DOMAIN q = 1 .. Len(q)
      /\ Append(q, r) # <<>> /\ Len(Append(q, r)) = Len(q) + 1
      /\ Append(q, r)[Len(q) + 1] = r
      /\ \A i \in 1 .. Len(q) : Append(q, r)[i] = q[i]
  OBVIOUS
<1>2. Sets(q) = Len(q)
  BY SetsNumber
<1>3. Sets(Append(q, r)) = IF r.kind = "set" THEN Len(q) + 1 ELSE Len(q)
  BY <1>1 DEF Sets
<1> QED
  BY <1>1, <1>2, <1>3

\* The unit reads a set.
LEMMA SetsTail ==
  ASSUME NEW q \in Seq(Requests), q # <<>>, Head(q).kind = "set"
  PROVE  /\ Sets(q) = Sets(Tail(q)) + 1
         /\ Tail(q) \in Seq(Requests)
         /\ Sets(Tail(q)) \in Nat
         /\ Head(q) = q[1]
         /\ \A i \in 1 .. Sets(Tail(q)) : Tail(q)[i] = q[i + 1]
<1>1. /\ Len(q) \in Nat /\ Len(q) > 0
      /\ Tail(q) \in Seq(Requests) /\ Len(Tail(q)) = Len(q) - 1
      /\ DOMAIN Tail(q) = 1 .. Len(q) - 1
      /\ Head(q) = q[1]
      /\ \A i \in 1 .. Len(q) - 1 : Tail(q)[i] = q[i + 1]
  OBVIOUS
<1>2. CASE Len(q) = 1
  <2>1. Tail(q) = <<>> /\ Sets(Tail(q)) = 0
    BY <1>1, <1>2 DEF Sets
  <2>2. Sets(q) = 1
    BY <1>1, <1>2 DEF Sets
  <2> QED
    BY <1>1, <2>1, <2>2
<1>3. CASE Len(q) # 1
  <2>0. Len(q) - 1 \in 1 .. Len(q) - 1 /\ Len(Tail(q)) = Len(q) - 1 /\ Len(Tail(q)) # 0
    BY <1>1, <1>3
  <2>1. Tail(q) # <<>> /\ Tail(q)[Len(Tail(q))] = q[Len(q)]
    <3>1. Tail(q)[Len(q) - 1] = q[(Len(q) - 1) + 1]
      BY <1>1, <2>0
    <3>2. (Len(q) - 1) + 1 = Len(q)
      BY <1>1
    <3>3. Tail(q) # <<>>
      BY <2>0
    <3> QED
      BY <2>0, <3>1, <3>2, <3>3
  <2>2. Sets(q) = Sets(Tail(q)) + 1
    BY <1>1, <2>1 DEF Sets
  <2>3. Sets(Tail(q)) \in Nat /\ Sets(Tail(q)) <= Len(Tail(q))
    BY <1>1, SetsNumber
  <2> QED
    BY <1>1, <2>2, <2>3
<1> QED
  BY <1>2, <1>3

\* What a sequence becomes, by its elements.
LEMMA AtEnd ==
  ASSUME NEW S, NEW s \in Seq(S), NEW x \in S
  PROVE  /\ Append(s, x) \in Seq(S) /\ Len(Append(s, x)) = Len(s) + 1
         /\ Append(s, x)[Len(s) + 1] = x
         /\ \A i \in 1 .. Len(s) : Append(s, x)[i] = s[i]
OBVIOUS

LEMMA AtFront ==
  ASSUME NEW S, NEW s \in Seq(S), s # <<>>
  PROVE  /\ Tail(s) \in Seq(S) /\ Len(Tail(s)) = Len(s) - 1 /\ Len(s) > 0
         /\ Head(s) \in S /\ Head(s) = s[1]
         /\ \A i \in 1 .. Len(s) - 1 : Tail(s)[i] = s[i + 1]
OBVIOUS

LEMMA SetSent ==
  ASSUME NEW pend \in Seq(Requests), NEW ls \in Seq(Lines), NEW ow \in Seq(Lines),
         NEW q \in Seq(Requests), NEW some \in BOOLEAN,
         Awaited(pend, ls, ow, q, some), OnlySets(q),
         NEW r \in Requests, r.kind = "set"
  PROVE  Awaited(Append(pend, r), ls, ow, Append(q, r), some)
<1> DEFINE p == Append(pend, r)
           n == Sets(q)
<1>1. n \in Nat /\ n = Len(q) /\ Len(pend) \in Nat /\ Len(ls) \in Nat /\ Len(ow) \in Nat
  BY SetsNumber
<1>2. /\ Len(p) = Len(pend) + 1 /\ p[Len(pend) + 1] = r
      /\ \A i \in 1 .. Len(pend) : p[i] = pend[i]
  BY AtEnd
<1>3. /\ Sets(Append(q, r)) = n + 1
      /\ \A i \in 1 .. n : Append(q, r)[i] = q[i]
      /\ Append(q, r)[n + 1] = r
  BY <1>1, SetsAppend, AtEnd
<1>0. /\ Len(ls) + Len(ow) + n <= Len(pend)
      /\ ~some => Len(ls) + Len(ow) + n = Len(pend)
  BY DEF Awaited
<1>4. /\ Len(ls) + Len(ow) + n <= Len(pend)
      /\ \A i \in 1 .. Len(ow) : Acknowledges(ow[i], pend[Len(ls) + i])
      /\ \A i \in 1 .. n : q[i] = pend[Len(pend) - n + i]
  BY DEF Awaited
<1> HIDE DEF p, n
<1>5. \A i \in 1 .. Len(ls) : Acknowledges(ls[i], p[i])
  BY <1>1, <1>2, <1>4 DEF Awaited
<1>6. \A i \in 1 .. Len(ow) : Acknowledges(ow[i], p[Len(ls) + i])
  <2> SUFFICES ASSUME NEW i \in 1 .. Len(ow) PROVE Acknowledges(ow[i], p[Len(ls) + i])
    OBVIOUS
  <2>1. Len(ls) + i \in 1 .. Len(pend)
    BY <1>1, <1>4
  <2> QED
    BY <1>2, <1>4, <2>1
<1>7. \A i \in 1 .. n + 1 : Append(q, r)[i] = p[Len(p) - (n + 1) + i]
  <2> SUFFICES ASSUME NEW i \in 1 .. n + 1
               PROVE  Append(q, r)[i] = p[Len(p) - (n + 1) + i]
    OBVIOUS
  <2>1. CASE i = n + 1
    BY <1>1, <1>2, <1>3, <2>1
  <2>2. CASE i \in 1 .. n
    <3>1. q[i] = pend[Len(pend) - n + i]
      BY <1>4, <2>2
    <3>2. Len(p) - (n + 1) + i = Len(pend) - n + i /\ Len(pend) - n + i \in 1 .. Len(pend)
      BY <1>1, <1>2, <1>4, <2>2
    <3> QED
      BY <1>2, <1>3, <2>2, <3>1, <3>2
  <2> QED
    BY <1>1, <2>1, <2>2
<1>8. /\ Len(ls) + Len(ow) + (n + 1) <= Len(p)
      /\ ~some => Len(ls) + Len(ow) + (n + 1) = Len(p)
  <2>1. Len(p) = Len(pend) + 1
    BY <1>2
  <2>2. ~some => Len(ls) + Len(ow) + (n + 1) = Len(p)
    <3> SUFFICES ASSUME ~some PROVE Len(ls) + Len(ow) + (n + 1) = Len(p)
      OBVIOUS
    <3>1. Len(ls) + Len(ow) + n = Len(pend)
      BY <1>0
    <3> QED
      BY <1>1, <2>1, <3>1
  <2> QED
    BY <1>0, <1>1, <2>1, <2>2
<1>9. \A i \in 1 .. Sets(Append(q, r)) : Append(q, r)[i] = p[Len(p) - Sets(Append(q, r)) + i]
  BY <1>3, <1>7
<1>10. Awaited(p, ls, ow, Append(q, r), some)
  BY <1>3, <1>5, <1>6, <1>8, <1>9 DEF Awaited
<1> QED
  BY <1>10 DEF p

LEMMA RequestSent ==
  ASSUME NEW pend \in Seq(Requests), NEW ls \in Seq(Lines), NEW ow \in Seq(Lines),
         NEW q \in Seq(Requests), NEW some \in BOOLEAN,
         Awaited(pend, ls, ow, q, some), OnlySets(q),
         NEW r \in Requests, r.kind # "set"
  PROVE  Awaited(pend, ls, ow, Append(q, r), some)
<1>1. /\ Sets(Append(q, r)) = Sets(q)
      /\ \A i \in 1 .. Sets(q) : Append(q, r)[i] = q[i]
  BY SetsAppend
<1> QED
  BY <1>1 DEF Awaited

\* The unit reads a set and will acknowledge it, if it has skipped none.
LEMMA SetOwed ==
  ASSUME NEW pend \in Seq(Requests), NEW ls \in Seq(Lines), NEW ow \in Seq(Lines),
         NEW q \in Seq(Requests),
         Awaited(pend, ls, ow, q, FALSE), q # <<>>, Head(q).kind = "set",
         NEW line \in Lines, Acknowledges(line, Head(q))
  PROVE  Awaited(pend, ls, Append(ow, line), Tail(q), FALSE)
<1> DEFINE n == Sets(Tail(q))
           o == Append(ow, line)
<1>1. /\ Sets(q) = n + 1 /\ n \in Nat /\ Head(q) = q[1]
      /\ \A i \in 1 .. n : Tail(q)[i] = q[i + 1]
  BY SetsTail
<1>2. /\ Len(o) = Len(ow) + 1 /\ o[Len(ow) + 1] = line
      /\ \A i \in 1 .. Len(ow) : o[i] = ow[i]
  BY AtEnd
<1>3. Len(ls) \in Nat /\ Len(ow) \in Nat /\ Len(pend) \in Nat
  OBVIOUS
<1> HIDE DEF n, o
<1>4. Len(ls) + Len(ow) + (n + 1) = Len(pend)
  BY <1>1 DEF Awaited
<1>5. q[1] = pend[Len(ls) + (Len(ow) + 1)]
  <2>1. q[1] = pend[Len(pend) - (n + 1) + 1]
    BY <1>1 DEF Awaited
  <2>2. Len(pend) - (n + 1) + 1 = Len(ls) + (Len(ow) + 1)
    BY <1>1, <1>3, <1>4
  <2> QED
    BY <2>1, <2>2
<1>6. \A i \in 1 .. Len(o) : Acknowledges(o[i], pend[Len(ls) + i])
  <2> SUFFICES ASSUME NEW i \in 1 .. Len(o) PROVE Acknowledges(o[i], pend[Len(ls) + i])
    OBVIOUS
  <2>1. CASE i = Len(ow) + 1
    BY <1>1, <1>2, <1>5, <2>1
  <2>2. CASE i \in 1 .. Len(ow)
    BY <1>2, <2>2 DEF Awaited
  <2> QED
    BY <1>2, <1>3, <2>1, <2>2
<1>7. \A i \in 1 .. n : Tail(q)[i] = pend[Len(pend) - n + i]
  <2> SUFFICES ASSUME NEW i \in 1 .. n PROVE Tail(q)[i] = pend[Len(pend) - n + i]
    OBVIOUS
  <2>1. q[i + 1] = pend[Len(pend) - (n + 1) + (i + 1)]
    BY <1>1 DEF Awaited
  <2>2. Len(pend) - (n + 1) + (i + 1) = Len(pend) - n + i
    BY <1>1, <1>3
  <2> QED
    BY <1>1, <2>1, <2>2
<1>8. Len(ls) + Len(o) + n = Len(pend)
  BY <1>1, <1>2, <1>3, <1>4
<1>9. \A i \in 1 .. Len(ls) : Acknowledges(ls[i], pend[i])
  BY DEF Awaited
<1> QED
  BY <1>3, <1>6, <1>7, <1>8, <1>9 DEF Awaited, n, o

\* ... or will not.
LEMMA SetSkipped ==
  ASSUME NEW pend \in Seq(Requests), NEW ls \in Seq(Lines), NEW ow \in Seq(Lines),
         NEW q \in Seq(Requests), NEW some \in BOOLEAN,
         Awaited(pend, ls, ow, q, some), q # <<>>, Head(q).kind = "set"
  PROVE  Awaited(pend, ls, ow, Tail(q), TRUE)
<1> DEFINE n == Sets(Tail(q))
<1>1. /\ Sets(q) = n + 1 /\ n \in Nat
      /\ \A i \in 1 .. n : Tail(q)[i] = q[i + 1]
  BY SetsTail
<1>2. Len(ls) \in Nat /\ Len(ow) \in Nat /\ Len(pend) \in Nat
  OBVIOUS
<1> HIDE DEF n
<1>3. Len(ls) + Len(ow) + n <= Len(pend)
  BY <1>1, <1>2 DEF Awaited
<1>4. \A i \in 1 .. n : Tail(q)[i] = pend[Len(pend) - n + i]
  <2> SUFFICES ASSUME NEW i \in 1 .. n PROVE Tail(q)[i] = pend[Len(pend) - n + i]
    OBVIOUS
  <2>1. q[i + 1] = pend[Len(pend) - (n + 1) + (i + 1)]
    BY <1>1 DEF Awaited
  <2>2. Len(pend) - (n + 1) + (i + 1) = Len(pend) - n + i
    BY <1>1, <1>2
  <2> QED
    BY <1>1, <2>1, <2>2
<1> QED
  BY <1>3, <1>4 DEF Awaited, n

\* An acknowledgement is sent.
LEMMA EchoSent ==
  ASSUME NEW pend \in Seq(Requests), NEW ls \in Seq(Lines), NEW ow \in Seq(Lines),
         NEW q \in Seq(Requests), NEW some \in BOOLEAN,
         Awaited(pend, ls, ow, q, some), ow # <<>>
  PROVE  Awaited(pend, Append(ls, Head(ow)), Tail(ow), q, some)
<1> DEFINE l == Append(ls, Head(ow))
<1>1. /\ Len(Tail(ow)) = Len(ow) - 1 /\ Len(ow) > 0 /\ Head(ow) = ow[1] /\ Head(ow) \in Lines
      /\ \A i \in 1 .. Len(ow) - 1 : Tail(ow)[i] = ow[i + 1]
  BY AtFront
<1>2. /\ Len(l) = Len(ls) + 1 /\ l[Len(ls) + 1] = ow[1]
      /\ \A i \in 1 .. Len(ls) : l[i] = ls[i]
  BY <1>1, AtEnd
<1>3. Len(ls) \in Nat /\ Len(ow) \in Nat /\ Len(pend) \in Nat /\ Sets(q) \in Nat
  BY SetsNumber
<1> HIDE DEF l
<1>4. Acknowledges(ow[1], pend[Len(ls) + 1])
  BY <1>1, <1>3 DEF Awaited
<1>5. \A i \in 1 .. Len(l) : Acknowledges(l[i], pend[i])
  <2> SUFFICES ASSUME NEW i \in 1 .. Len(l) PROVE Acknowledges(l[i], pend[i])
    OBVIOUS
  <2>1. CASE i = Len(ls) + 1
    BY <1>2, <1>4, <2>1
  <2>2. CASE i \in 1 .. Len(ls)
    BY <1>2, <2>2 DEF Awaited
  <2> QED
    BY <1>2, <1>3, <2>1, <2>2
<1>6. \A i \in 1 .. Len(Tail(ow)) : Acknowledges(Tail(ow)[i], pend[Len(l) + i])
  <2> SUFFICES ASSUME NEW i \in 1 .. Len(ow) - 1
               PROVE  Acknowledges(Tail(ow)[i], pend[Len(l) + i])
    BY <1>1
  <2>1. Acknowledges(ow[i + 1], pend[Len(ls) + (i + 1)])
    BY <1>3 DEF Awaited
  <2>2. Len(ls) + (i + 1) = Len(l) + i
    BY <1>2, <1>3
  <2> QED
    BY <1>1, <2>1, <2>2
<1>7. Len(l) + Len(Tail(ow)) = Len(ls) + Len(ow)
  BY <1>1, <1>2, <1>3
<1> QED
  BY <1>5, <1>6, <1>7 DEF Awaited, l

\* An acknowledgement is read, and its set is no longer expected to have one.
LEMMA EchoRead ==
  ASSUME NEW pend \in Seq(Requests), NEW ls \in Seq(Lines), NEW ow \in Seq(Lines),
         NEW q \in Seq(Requests), NEW some \in BOOLEAN,
         Awaited(pend, ls, ow, q, some), ls # <<>>
  PROVE  /\ pend # <<>>
         /\ Acknowledges(Head(ls), Head(pend))
         /\ Awaited(Tail(pend), Tail(ls), ow, q, some)
<1>0. Len(ls) \in Nat /\ Len(ow) \in Nat /\ Len(pend) \in Nat /\ Sets(q) \in Nat
  BY SetsNumber
<1>1. /\ Len(Tail(ls)) = Len(ls) - 1 /\ Len(ls) > 0 /\ Head(ls) = ls[1]
      /\ \A i \in 1 .. Len(ls) - 1 : Tail(ls)[i] = ls[i + 1]
  BY AtFront
<1>2. Len(pend) > 0 /\ pend # <<>>
  BY <1>0, <1>1 DEF Awaited
<1>3. /\ Len(Tail(pend)) = Len(pend) - 1 /\ Head(pend) = pend[1]
      /\ \A i \in 1 .. Len(pend) - 1 : Tail(pend)[i] = pend[i + 1]
  BY <1>2, AtFront
<1>4. Acknowledges(Head(ls), Head(pend))
  BY <1>0, <1>1, <1>3 DEF Awaited
<1>5. Len(ls) + Len(ow) + Sets(q) <= Len(pend)
  BY DEF Awaited
<1>6. \A i \in 1 .. Len(ls) - 1 : Acknowledges(Tail(ls)[i], Tail(pend)[i])
  <2> SUFFICES ASSUME NEW i \in 1 .. Len(ls) - 1
               PROVE  Acknowledges(Tail(ls)[i], Tail(pend)[i])
    OBVIOUS
  <2>1. i + 1 \in 1 .. Len(ls) /\ i \in 1 .. Len(pend) - 1
    BY <1>0, <1>5
  <2> QED
    BY <1>1, <1>3, <2>1 DEF Awaited
<1>7. \A i \in 1 .. Len(ow) : Acknowledges(ow[i], Tail(pend)[Len(ls) - 1 + i])
  <2> SUFFICES ASSUME NEW i \in 1 .. Len(ow)
               PROVE  Acknowledges(ow[i], Tail(pend)[Len(ls) - 1 + i])
    OBVIOUS
  <2>1. Len(ls) - 1 + i \in 1 .. Len(pend) - 1 /\ (Len(ls) - 1 + i) + 1 = Len(ls) + i
    BY <1>0, <1>1, <1>5
  <2>2. Tail(pend)[Len(ls) - 1 + i] = pend[Len(ls) + i]
    BY <1>3, <2>1
  <2> QED
    BY <2>2 DEF Awaited
<1>8. \A i \in 1 .. Sets(q) : q[i] = Tail(pend)[Len(pend) - 1 - Sets(q) + i]
  <2> SUFFICES ASSUME NEW i \in 1 .. Sets(q)
               PROVE  q[i] = Tail(pend)[Len(pend) - 1 - Sets(q) + i]
    OBVIOUS
  <2>1. /\ Len(pend) - 1 - Sets(q) + i \in 1 .. Len(pend) - 1
        /\ (Len(pend) - 1 - Sets(q) + i) + 1 = Len(pend) - Sets(q) + i
    BY <1>0, <1>1, <1>5
  <2>2. Tail(pend)[Len(pend) - 1 - Sets(q) + i] = pend[Len(pend) - Sets(q) + i]
    BY <1>3, <2>1
  <2> QED
    BY <2>2 DEF Awaited
<1>9. /\ Len(Tail(ls)) + Len(ow) + Sets(q) <= Len(Tail(pend))
      /\ ~some => Len(Tail(ls)) + Len(ow) + Sets(q) = Len(Tail(pend))
  BY <1>0, <1>1, <1>3 DEF Awaited
<1> QED
  BY <1>1, <1>2, <1>3, <1>4, <1>6, <1>7, <1>8, <1>9 DEF Awaited


-----------------------------------------------------------------------------
(* A unit that keeps to the protocol *)

\* No answer has come: the oldest sets awaited come first.
Waiting == Awaited(pending, lines, owed, toUnit[sock], skipped)

\* What a caller is told is of the shape it asked for.
Shaped(c) ==
  \A i \in DOMAIN lines : lines[i].kind \in Answers =>
    /\ call[c].kind = "get" => lines[i].kind = "get" /\ lines[i].path = call[c].path
    /\ call[c].kind = "ls" =>
         IF at[c] = "reading" /\ (i = 1 \/ lines[i - 1].kind \notin Answers)
         THEN lines[i].kind = "ls" ELSE lines[i].kind \in {"entry", "endls"}

\* Acknowledgements first, of the oldest sets, then nothing but the answer.
Told ==
  /\ \A i, j \in DOMAIN lines :
       i < j /\ lines[i].kind \in Answers => lines[j].kind \in Answers
  /\ \A i \in DOMAIN lines : lines[i].kind \notin Answers =>
       i <= Len(pending) /\ Acknowledges(lines[i], pending[i])
  /\ \A c \in Callers : Reading(c) => Shaped(c)

\* The unit has read everything and answered.
Answered ==
  /\ owed = <<>>
  /\ toUnit[sock] = <<>>
  /\ Told

Orderly ==
  orderly /\ sock # 0 => /\ up
                         /\ IF NoAnswer(lines) THEN Waiting ELSE Answered

\* Who reads is in an exchange; once its answer begins, no set is awaited.
Readers ==
  \A c \in Callers :
    /\ Reading(c) => call[c].kind \notin {"set", "close"}
    /\ at[c] = "more" => pending = <<>> /\ call[c].kind # "get"

LEMMA ReadersStep ==
  ASSUME SessionOK, Turns, Readers, [Next]_vars PROVE Readers'
<1> USE DEF client, threads, unit, history
<1>0. ClientData /\ at \in [Callers -> Places] /\ call \in [Callers -> Requests]
  BY DEF SessionOK, TypeOK, ClientData, Places
<1>1. ASSUME \A d \in Callers : Reading(d)' => /\ Reading(d) /\ at'[d] = at[d]
                                             /\ call'[d] = call[d],
             pending' = pending
      PROVE  Readers'
  BY <1>1 DEF Readers, Reading
<1>2. ASSUME NEW c \in Callers, Begin(c) PROVE Readers'
  BY <1>0, <1>1, <1>2 DEF Begin, Reading
<1>3. ASSUME NEW c \in Callers, Lock(c) PROVE Readers'
  BY <1>0, <1>1, <1>3 DEF Lock, Reading
<1>4. CASE (\E c \in Callers : Tick(c)) \/ Unit \/ Finished \/ UNCHANGED vars
  <2>1. UNCHANGED <<at, call, pending>>
    BY <1>4 DEF Tick, Unit, Serve, SendEcho, Misbehave, Drop, OtherWriter, Finished, vars
  <2> QED
    BY <1>1, <2>1 DEF Reading
<1>5. ASSUME NEW c \in Callers, Client(c), ~Lock(c) PROVE Readers'
  <2>1. /\ at[c] \in {"locked", "reading", "more"} /\ call' = call
        /\ \A d \in Callers : d # c => at'[d] = at[d]
    BY <1>0, <1>5, TakesTurns
  <2>2. \A d \in Callers : d # c => ~Reading(d) /\ ~Reading(d)'
    BY <2>1, OneReader DEF Reading
  <2>3. ASSUME Reading(c)' => call[c].kind \notin {"set", "close"},
               at'[c] = "more" => pending' = <<>> /\ call[c].kind # "get"
        PROVE  Readers'
    BY <2>1, <2>2, <2>3 DEF Readers, Reading
  <2>4. ASSUME at' = [at EXCEPT ![c] = "idle"] PROVE Readers'
    BY <1>0, <2>3, <2>4 DEF Reading
  <2>5. CASE Send(c)
    BY <1>0, <2>3, <2>4, <2>5 DEF Send, End, Finish, Reading
  <2>6. CASE Connect(c)
    BY <1>0, <2>3, <2>6 DEF Connect, Logging, Reading
  <2>7. CASE ReadEcho(c)
    BY <2>3, <2>7 DEF ReadEcho, IsEcho, Readers, Reading
  <2>8. CASE ReadAnswer(c)
    <3>1. PICK line \in NextLine(c) :
            /\ Fits(c, line)
            /\ pending' = IF at[c] = "reading" THEN <<>> ELSE pending
            /\ \/ at' = [at EXCEPT ![c] = "idle"]
               \/ ~Completes(line) /\ at' = [at EXCEPT ![c] = "more"]
      BY <2>8 DEF ReadAnswer, Finish
    <3>2. Reading(c)
      BY <3>1 DEF NextLine
    <3>3. CASE ~Completes(line) /\ at' = [at EXCEPT ![c] = "more"]
      <4>1. call[c].kind \in {"ls", "connect", "reconnect"}
        BY <3>1, <3>3 DEF Fits, Completes, Logging
      <4>2. pending' = <<>>
        BY <3>1, <3>2 DEF Readers, Reading
      <4> QED
        BY <2>3, <4>1, <4>2
    <3> QED
      BY <2>4, <3>1, <3>3
  <2>9. CASE Refuse(c) \/ SendBreaks(c) \/ Close(c) \/ CannotConnect(c)
             \/ ReadBreaks(c) \/ ReadNonsense(c)
    BY <2>4, <2>9 DEF Refuse, SendBreaks, Close, CannotConnect, ReadBreaks,
       ReadNonsense, Break, End, Finish
  <2> QED
    BY <1>5, <2>5, <2>6, <2>7, <2>8, <2>9 DEF Client
<1> QED
  BY <1>2, <1>3, <1>4, <1>5 DEF Next

\* Nothing is awaited when nothing is under way.
LEMMA NothingAwaited ==
  ASSUME NEW q \in Seq(Requests), Sets(q) = 0, NEW some
  PROVE  Awaited(<<>>, <<>>, <<>>, q, some)
BY DEF Awaited

LEMMA OrderlyStays ==
  ASSUME Orderly, UNCHANGED <<sock, pending, lines, owed, up, skipped>>,
         sock # 0 => toUnit'[sock] = toUnit[sock], orderly' => orderly,
         \A d \in Callers : Reading(d)' => /\ Reading(d) /\ at'[d] = at[d]
                                          /\ call'[d] = call[d]
  PROVE  Orderly'
<1> SUFFICES ASSUME orderly', sock' # 0
             PROVE  up' /\ IF NoAnswer(lines') THEN Waiting' ELSE Answered'
  BY DEF Orderly
<1>1. orderly /\ sock # 0 /\ toUnit'[sock'] = toUnit[sock]
  OBVIOUS
<1>2. CASE NoAnswer(lines)
  <2>1. Waiting /\ up
    BY <1>1, <1>2 DEF Orderly
  <2> QED
    BY <1>1, <1>2, <2>1 DEF Waiting
<1>3. CASE ~NoAnswer(lines)
  <2>1. Answered /\ up
    BY <1>1, <1>3 DEF Orderly
  <2>2. \A c \in Callers : Reading(c)' => Shaped(c)'
    BY <2>1 DEF Answered, Told, Shaped
  <2>3. Told'
    BY <2>1, <2>2 DEF Answered, Told
  <2>4. up' /\ ~NoAnswer(lines') /\ Answered'
    BY <1>1, <1>3, <2>1, <2>3 DEF Answered
  <2> QED
    BY <2>4
<1> QED
  BY <1>2, <1>3

\* A new session, or the next request.
LEMMA OrderlySent ==
  ASSUME SessionOK, Turns, Exchange, Orderly, NEW c \in Callers, Send(c) \/ Connect(c)
  PROVE  Orderly'
<1>0. /\ TypeOK /\ sock \in Numbers /\ toUnit \in [1 .. MaxCalls -> Seq(Requests)]
      /\ call[c] \in Requests /\ pending \in Seq(Requests) /\ skipped \in BOOLEAN
      /\ owed \in Seq(Lines) /\ lines \in Seq(Lines)
  BY DEF SessionOK, TypeOK
<1>1. CASE Connect(c)
  <2>1. /\ call[c].of # 0 /\ call[c].of \in Numbers /\ call[c].kind # "set"
        /\ sock' = call[c].of /\ up' /\ pending' = <<>> /\ lines' = <<>> /\ owed' = <<>>
        /\ toUnit' = [toUnit EXCEPT ![call[c].of] = <<call[c]>>]
    BY <1>0, <1>1 DEF Connect, Logging, Turns, Requests
  <2>2. toUnit'[sock'] = <<call[c]>>
    BY <1>0, <2>1, CountType DEF Numbers
  <2>3. <<call[c]>> \in Seq(Requests) /\ Sets(<<call[c]>>) = 0
    BY <1>0, <2>1 DEF Sets
  <2>4. NoAnswer(lines')
    BY <2>1 DEF NoAnswer
  <2>5. Awaited(<<>>, <<>>, <<>>, <<call[c]>>, skipped')
    BY <2>3, NothingAwaited
  <2> QED
    BY <2>1, <2>2, <2>4, <2>5 DEF Orderly, Waiting
<1>2. CASE Send(c)
  <2>1. /\ at[c] = "locked" /\ sock # 0
        /\ UNCHANGED <<sock, lines, owed, up, orderly, skipped>>
        /\ toUnit' = [toUnit EXCEPT ![sock] = IF up THEN Append(@, call[c]) ELSE @]
    BY <1>2 DEF Send, history
  <2>2. \A d \in Callers : ~Reading(d)
    BY <2>1, OneReader DEF Reading
  <2>3. NoAnswer(lines) /\ OnlySets(toUnit[sock])
    BY <2>1, <2>2, Quiet
  <2> SUFFICES ASSUME orderly PROVE Orderly'
    BY <2>1 DEF Orderly
  <2>4. up /\ Waiting
    BY <2>1, <2>3 DEF Orderly
  <2>5. /\ toUnit[sock] \in Seq(Requests)
        /\ toUnit'[sock] = Append(toUnit[sock], call[c])
    BY <1>0, <2>1, <2>4, CountType DEF Numbers
  <2>6. CASE call[c].kind = "set" /\ pending' = Append(pending, call[c])
    <3>1. Awaited(Append(pending, call[c]), lines, owed, Append(toUnit[sock], call[c]),
                  skipped)
      BY <1>0, <2>3, <2>4, <2>5, <2>6, SetSent DEF Waiting
    <3> QED
      BY <2>1, <2>3, <2>4, <2>5, <2>6, <3>1 DEF Orderly, Waiting
  <2>7. CASE call[c].kind # "set" /\ pending' = pending
    <3>1. Awaited(pending, lines, owed, Append(toUnit[sock], call[c]), skipped)
      BY <1>0, <2>3, <2>4, <2>5, <2>7, RequestSent DEF Waiting
    <3> QED
      BY <2>1, <2>3, <2>4, <2>5, <2>7, <3>1 DEF Orderly, Waiting
  <2> QED
    BY <1>2, <2>6, <2>7 DEF Send
<1> QED
  BY <1>1, <1>2

\* An acknowledgement is read.
LEMMA OrderlyEcho ==
  ASSUME SessionOK, Turns, Exchange, Orderly, NEW c \in Callers, ReadEcho(c)
  PROVE  Orderly'
<1>0. /\ TypeOK /\ sock \in Numbers /\ toUnit \in [1 .. MaxCalls -> Seq(Requests)]
      /\ pending \in Seq(Requests) /\ skipped \in BOOLEAN
      /\ owed \in Seq(Lines) /\ lines \in Seq(Lines)
  BY DEF SessionOK, TypeOK
<1>1. /\ Reading(c) /\ lines # <<>> /\ lines' = Tail(lines)
      /\ pending # <<>> /\ pending' = Tail(pending) /\ at[c] = "reading"
      /\ Acknowledges(Head(lines), Head(pending))
      /\ UNCHANGED <<sock, at, call, toUnit, owed, up, orderly, skipped>>
  BY DEF ReadEcho, NextLine, IsEcho, threads, history
<1>2. /\ Len(lines') = Len(lines) - 1 /\ Len(lines) > 0 /\ Head(lines) = lines[1]
      /\ \A i \in 1 .. Len(lines) - 1 : lines'[i] = lines[i + 1]
      /\ Len(lines) \in Nat /\ DOMAIN lines = 1 .. Len(lines)
      /\ DOMAIN lines' = 1 .. Len(lines) - 1
  BY <1>0, <1>1, AtFront
<1>3. /\ Len(pending') = Len(pending) - 1 /\ Len(pending) \in Nat
      /\ \A i \in 1 .. Len(pending) - 1 : pending'[i] = pending[i + 1]
  BY <1>0, <1>1, AtFront
<1>4. lines[1].kind \notin Answers
  BY <1>1, <1>2 DEF Acknowledges, Answers
<1> SUFFICES ASSUME orderly, sock # 0
             PROVE  up /\ IF NoAnswer(lines') THEN Waiting' ELSE Answered'
  BY <1>1 DEF Orderly
<1>5. CASE NoAnswer(lines)
  <2>1. toUnit[sock] \in Seq(Requests)
    BY <1>0, CountType DEF Numbers
  <2>2. Waiting /\ up
    BY <1>5 DEF Orderly
  <2>3. Awaited(Tail(pending), Tail(lines), owed, toUnit[sock], skipped)
    BY <1>0, <1>1, <2>1, <2>2, EchoRead DEF Waiting
  <2>4. NoAnswer(lines')
    BY <1>0, <1>1, <1>5, LineRead
  <2> QED
    BY <1>1, <2>2, <2>3, <2>4 DEF Waiting
<1>6. CASE ~NoAnswer(lines)
  <2>1. Answered /\ up
    BY <1>6 DEF Orderly
  <2>2. ~NoAnswer(lines')
    <3>1. PICK i \in 1 .. Len(lines) : lines[i].kind \in Answers
      BY <1>2, <1>6 DEF NoAnswer
    <3>2. i - 1 \in 1 .. Len(lines) - 1 /\ (i - 1) + 1 = i
      BY <1>2, <1>4, <3>1
    <3>3. lines'[i - 1] = lines[i]
      BY <1>2, <3>2
    <3> QED
      BY <1>2, <3>1, <3>2, <3>3 DEF NoAnswer
  <2>3. \A i, j \in DOMAIN lines' :
          i < j /\ lines'[i].kind \in Answers => lines'[j].kind \in Answers
    <3> SUFFICES ASSUME NEW i \in 1 .. Len(lines) - 1, NEW j \in 1 .. Len(lines) - 1,
                        i < j, lines'[i].kind \in Answers
                 PROVE  lines'[j].kind \in Answers
      BY <1>2
    <3>1. /\ i + 1 \in DOMAIN lines /\ j + 1 \in DOMAIN lines /\ i + 1 < j + 1
          /\ lines'[i] = lines[i + 1] /\ lines'[j] = lines[j + 1]
      BY <1>2
    <3> QED
      BY <2>1, <3>1 DEF Answered, Told
  <2>4. \A i \in DOMAIN lines' : lines'[i].kind \notin Answers =>
          i <= Len(pending') /\ Acknowledges(lines'[i], pending'[i])
    <3> SUFFICES ASSUME NEW i \in 1 .. Len(lines) - 1, lines'[i].kind \notin Answers
                 PROVE  i <= Len(pending') /\ Acknowledges(lines'[i], pending'[i])
      BY <1>2
    <3>1. i + 1 \in DOMAIN lines /\ lines'[i] = lines[i + 1]
      BY <1>2
    <3>2. i + 1 <= Len(pending) /\ Acknowledges(lines[i + 1], pending[i + 1])
      BY <2>1, <3>1 DEF Answered, Told
    <3>3. i \in 1 .. Len(pending) - 1
      BY <1>2, <1>3, <3>2
    <3> QED
      BY <1>3, <3>1, <3>2, <3>3
  <2>5. \A d \in Callers : Reading(d)' => Shaped(d)'
    <3> SUFFICES ASSUME NEW d \in Callers, Reading(d), NEW i \in 1 .. Len(lines) - 1,
                        lines'[i].kind \in Answers
                 PROVE  /\ call[d].kind = "get" =>
                             lines'[i].kind = "get" /\ lines'[i].path = call[d].path
                        /\ call[d].kind = "ls" =>
                             IF at[d] = "reading" /\ (i = 1 \/ lines'[i - 1].kind \notin Answers)
                             THEN lines'[i].kind = "ls" ELSE lines'[i].kind \in {"entry", "endls"}
      BY <1>1, <1>2 DEF Reading, Shaped
    <3>1. i + 1 \in DOMAIN lines /\ lines'[i] = lines[i + 1] /\ i + 1 # 1
      BY <1>2
    <3>2. Shaped(d)
      BY <2>1 DEF Answered, Told
    <3>3. i = 1 \/ lines'[i - 1].kind \notin Answers <=> lines[i].kind \notin Answers
      <4>1. CASE i = 1
        BY <1>4, <4>1
      <4>2. CASE i # 1
        <5>1. i - 1 \in 1 .. Len(lines) - 1 /\ (i - 1) + 1 = i
          BY <1>2, <4>2
        <5>2. lines'[i - 1] = lines[i]
          BY <1>2, <5>1
        <5> QED
          BY <4>2, <5>2
      <4> QED
        BY <4>1, <4>2
    <3>4. (i + 1) - 1 = i
      OBVIOUS
    <3> QED
      BY <3>1, <3>2, <3>3, <3>4 DEF Shaped
  <2>6. Told'
    BY <2>3, <2>4, <2>5 DEF Told
  <2> QED
    BY <1>1, <2>1, <2>2, <2>6 DEF Answered
<1> QED
  BY <1>5, <1>6

\* A line of the answer is read, the last or not.
LEMMA OrderlyAnswer ==
  ASSUME SessionOK, Turns, Exchange, Readers, Orderly, NEW c \in Callers, ReadAnswer(c)
  PROVE  Orderly'
<1>0. /\ TypeOK /\ sock \in Numbers /\ toUnit \in [1 .. MaxCalls -> Seq(Requests)]
      /\ at \in [Callers -> Places] /\ lines \in Seq(Lines)
  BY DEF SessionOK, TypeOK, Places
<1>1. /\ Reading(c) /\ lines # <<>> /\ lines' = Tail(lines) /\ Fits(c, Head(lines))
      /\ pending' = IF at[c] = "reading" THEN <<>> ELSE pending
      /\ UNCHANGED <<sock, call, toUnit, owed, up, orderly, skipped>>
      /\ \/ Completes(Head(lines)) /\ at' = [at EXCEPT ![c] = "idle"]
         \/ ~Completes(Head(lines)) /\ at' = [at EXCEPT ![c] = "more"]
  BY DEF ReadAnswer, NextLine, Finish, threads, history
<1>2. /\ Len(lines') = Len(lines) - 1 /\ Len(lines) > 0 /\ Head(lines) = lines[1]
      /\ \A i \in 1 .. Len(lines) - 1 : lines'[i] = lines[i + 1]
      /\ Len(lines) \in Nat /\ DOMAIN lines = 1 .. Len(lines)
      /\ DOMAIN lines' = 1 .. Len(lines) - 1 /\ lines' \in Seq(Lines)
  BY <1>0, <1>1, AtFront
<1>3. lines[1].kind \in Answers
  BY <1>1, <1>2 DEF Fits, Answers
<1>4. pending' = <<>>
  BY <1>1 DEF Readers, Reading
<1> SUFFICES ASSUME orderly, sock # 0
             PROVE  up /\ IF NoAnswer(lines') THEN Waiting' ELSE Answered'
  BY <1>1 DEF Orderly
<1>5. Answered /\ up
  <2>1. ~NoAnswer(lines)
    BY <1>2, <1>3 DEF NoAnswer
  <2> QED
    BY <2>1 DEF Orderly
<1>6. \A i \in 1 .. Len(lines) : lines[i].kind \in Answers
  <2> SUFFICES ASSUME NEW i \in 1 .. Len(lines) PROVE lines[i].kind \in Answers
    OBVIOUS
  <2>1. i = 1 \/ 1 < i
    BY <1>2
  <2> QED
    BY <1>2, <1>3, <1>5, <2>1 DEF Answered, Told
<1>7. CASE lines' = <<>>
  <2>1. toUnit[sock] \in Seq(Requests) /\ Sets(toUnit[sock]) = 0
    BY <1>0, <1>5, CountType DEF Numbers, Answered, Sets
  <2>2. NoAnswer(lines')
    BY <1>7 DEF NoAnswer
  <2>3. Awaited(<<>>, <<>>, <<>>, toUnit[sock], skipped)
    BY <2>1, NothingAwaited
  <2>4. Waiting'
    BY <1>1, <1>4, <1>5, <1>7, <2>3 DEF Waiting, Answered
  <2> QED
    BY <1>5, <2>2, <2>4
<1>8. CASE lines' # <<>>
  <2>1. 1 \in DOMAIN lines' /\ lines'[1].kind \in Answers
    BY <1>2, <1>6, <1>8
  <2>2. ~NoAnswer(lines')
    BY <2>1 DEF NoAnswer
  <2>3. at' = [at EXCEPT ![c] = "more"]
    <3>1. Head(lines).kind \notin Endings
      BY <1>0, <1>1, <2>2, LineRead
    <3> QED
      BY <1>1, <3>1 DEF Completes, Endings
  <2>4. \A i \in DOMAIN lines' : lines'[i].kind \in Answers
    <3> SUFFICES ASSUME NEW i \in 1 .. Len(lines) - 1 PROVE lines'[i].kind \in Answers
      BY <1>2
    <3>1. lines'[i] = lines[i + 1] /\ i + 1 \in 1 .. Len(lines)
      BY <1>2
    <3> QED
      BY <1>6, <3>1
  <2>5. \A d \in Callers : Reading(d)' => Shaped(d)'
    <3> SUFFICES ASSUME NEW d \in Callers, Reading(d)', NEW i \in 1 .. Len(lines) - 1
                 PROVE  /\ call[d].kind = "get" =>
                             lines'[i].kind = "get" /\ lines'[i].path = call[d].path
                        /\ call[d].kind = "ls" => lines'[i].kind \in {"entry", "endls"}
                        /\ at'[d] # "reading"
      BY <1>1, <1>2 DEF Shaped
    <3>1. d = c
      <4>1. \A e \in Callers : Reading(e) => e = c
        BY <1>1, OneReader DEF Reading
      <4>2. d # c => at'[d] = at[d]
        BY <2>3, <1>0
      <4> QED
        BY <4>1, <4>2 DEF Reading
    <3>2. /\ i + 1 \in DOMAIN lines /\ lines'[i] = lines[i + 1] /\ i + 1 # 1
          /\ (i + 1) - 1 = i /\ lines[i + 1].kind \in Answers /\ lines[i].kind \in Answers
      BY <1>2, <1>6
    <3>3. Shaped(c)
      BY <1>1, <1>5 DEF Answered, Told
    <3> QED
      BY <1>0, <2>3, <3>1, <3>2, <3>3 DEF Shaped
  <2>6. Told'
    BY <2>4, <2>5 DEF Told
  <2> QED
    BY <1>1, <1>5, <2>2, <2>6 DEF Answered
<1> QED
  BY <1>7, <1>8

\* An acknowledgement is sent.
LEMMA OrderlyEchoSent ==
  ASSUME SessionOK, Exchange, Orderly, SendEcho PROVE Orderly'
<1>0. /\ TypeOK /\ sock \in Numbers /\ toUnit \in [1 .. MaxCalls -> Seq(Requests)]
      /\ pending \in Seq(Requests) /\ skipped \in BOOLEAN
      /\ owed \in Seq(Lines) /\ lines \in Seq(Lines)
  BY DEF SessionOK, TypeOK
<1>1. /\ owed # <<>> /\ lines' = Append(lines, Head(owed)) /\ owed' = Tail(owed)
      /\ UNCHANGED <<sock, pending, toUnit, up, orderly, skipped>>
  BY DEF SendEcho, client, history
<1> SUFFICES ASSUME orderly, sock # 0
             PROVE  up /\ NoAnswer(lines') /\ Waiting'
  BY <1>1 DEF Orderly
<1>2. up /\ NoAnswer(lines) /\ Waiting
  BY <1>1 DEF Orderly, Answered
<1>3. Head(owed) \in Lines /\ Head(owed).kind \notin Answers
  BY <1>0, <1>1, TailElements DEF Exchange, Answers
<1>4. NoAnswer(lines')
  BY <1>0, <1>1, <1>2, <1>3, LineAdded
<1>5. toUnit[sock] \in Seq(Requests)
  BY <1>0, CountType DEF Numbers
<1>6. Awaited(pending, Append(lines, Head(owed)), Tail(owed), toUnit[sock], skipped)
  BY <1>0, <1>1, <1>2, <1>5, EchoSent DEF Waiting
<1> QED
  BY <1>1, <1>2, <1>4, <1>6 DEF Waiting

\* The unit reads a request of the session and answers it.
LEMMA OrderlyAnswered ==
  ASSUME SessionOK, Exchange, NoAnswer(lines), Waiting, sock # 0,
         NEW c \in Callers, at[c] = "reading", Turns, call[c].kind # "set",
         owed = <<>>, lines' = lines \o Answer(call[c]),
         toUnit'[sock] = <<>>, UNCHANGED <<sock, pending, at, call, owed>>
  PROVE  ~NoAnswer(lines') /\ Answered'
<1> DEFINE a == Answer(call[c])
           n == Len(lines)
<1>0. /\ TypeOK /\ lines \in Seq(Lines) /\ call[c] \in Requests /\ value \in [Paths -> Values]
      /\ pending \in Seq(Requests)
  BY DEF SessionOK, TypeOK
<1>1. a \in Seq(Lines)
  BY <1>0, AnswerType
<1>2. /\ Len(a) \in Nat /\ Len(a) > 0 /\ a[1].kind \in Answers
      /\ \A i \in 1 .. Len(a) : a[i].kind \in Answers
      /\ call[c].kind = "get" =>
           \A i \in 1 .. Len(a) : a[i].kind = "get" /\ a[i].path = call[c].path
      /\ call[c].kind = "ls" => /\ a[1].kind = "ls"
                                /\ \A i \in 2 .. Len(a) : a[i].kind \in {"entry", "endls"}
  BY DEF Answer, Line, Answers
<1> HIDE DEF a
<1>3. /\ n \in Nat /\ DOMAIN lines = 1 .. n /\ DOMAIN lines' = 1 .. n + Len(a)
      /\ \A i \in 1 .. n : lines'[i] = lines[i]
      /\ \A i \in 1 .. Len(a) : lines'[n + i] = a[i]
  BY <1>0, <1>1 DEF a
<1>4. \A i \in 1 .. n : lines'[i].kind \notin Answers
  BY <1>3 DEF NoAnswer
<1>5. \A i \in DOMAIN lines' : i > n =>
        i - n \in 1 .. Len(a) /\ lines'[i] = a[i - n]
  <2> SUFFICES ASSUME NEW i \in 1 .. n + Len(a), i > n
               PROVE  i - n \in 1 .. Len(a) /\ lines'[i] = a[i - n]
    BY <1>3
  <2>1. i - n \in 1 .. Len(a) /\ n + (i - n) = i
    BY <1>2, <1>3
  <2> QED
    BY <1>3, <2>1
<1>6. \A i \in DOMAIN lines' : lines'[i].kind \in Answers <=> i > n
  BY <1>2, <1>3, <1>4, <1>5
<1>7. ~NoAnswer(lines')
  <2>1. n + 1 \in DOMAIN lines' /\ n + 1 > n
    BY <1>2, <1>3
  <2> QED
    BY <1>6, <2>1 DEF NoAnswer
<1>8. \A i, j \in DOMAIN lines' :
        i < j /\ lines'[i].kind \in Answers => lines'[j].kind \in Answers
  BY <1>2, <1>3, <1>6
<1>9. \A i \in DOMAIN lines' : lines'[i].kind \notin Answers =>
        i <= Len(pending) /\ Acknowledges(lines'[i], pending[i])
  <2> SUFFICES ASSUME NEW i \in 1 .. n
               PROVE  i <= Len(pending) /\ Acknowledges(lines'[i], pending[i])
    BY <1>2, <1>3, <1>6
  <2>1. n + Len(owed) + Sets(toUnit[sock]) <= Len(pending) /\ Acknowledges(lines[i], pending[i])
    BY DEF Waiting, Awaited
  <2>2. Len(owed) \in Nat /\ Sets(toUnit[sock]) \in Nat /\ Len(pending) \in Nat
    <3>1. toUnit[sock] \in Seq(Requests)
      BY CountType DEF SessionOK, TypeOK, Numbers
    <3> QED
      BY <1>0, <3>1, SetsNumber
  <2> QED
    BY <1>3, <2>1, <2>2
<1>10. \A d \in Callers : Reading(d) =>
         \A i \in DOMAIN lines' : lines'[i].kind \in Answers =>
           /\ call[d].kind = "get" => lines'[i].kind = "get" /\ lines'[i].path = call[d].path
           /\ call[d].kind = "ls" =>
                IF at[d] = "reading" /\ (i = 1 \/ lines'[i - 1].kind \notin Answers)
                THEN lines'[i].kind = "ls" ELSE lines'[i].kind \in {"entry", "endls"}
  <2> SUFFICES ASSUME NEW i \in DOMAIN lines', i > n
               PROVE  /\ call[c].kind = "get" =>
                           lines'[i].kind = "get" /\ lines'[i].path = call[c].path
                      /\ call[c].kind = "ls" =>
                           IF i = 1 \/ lines'[i - 1].kind \notin Answers
                           THEN lines'[i].kind = "ls"
                           ELSE lines'[i].kind \in {"entry", "endls"}
    BY <1>6, OneReader
  <2>1. i - n \in 1 .. Len(a) /\ lines'[i] = a[i - n]
    BY <1>5
  <2>2. CASE i = n + 1
    <3>1. i - n = 1
      BY <1>3, <2>2
    <3>2. i = 1 \/ lines'[i - 1].kind \notin Answers
      <4>1. i - 1 = n /\ (n # 0 => n \in 1 .. n)
        BY <1>3, <2>2
      <4> QED
        BY <1>3, <1>4, <2>2, <4>1
    <3> QED
      BY <1>2, <2>1, <3>1, <3>2
  <2>3. CASE i # n + 1
    <3>1. i - n \in 2 .. Len(a) /\ i # 1 /\ i - 1 \in DOMAIN lines' /\ i - 1 > n
      BY <1>2, <1>3, <2>1, <2>3
    <3>2. lines'[i - 1].kind \in Answers
      BY <1>6, <3>1
    <3> QED
      BY <1>2, <2>1, <3>1, <3>2
  <2> QED
    BY <2>2, <2>3
<1>11. Told'
  <2>1. \A d \in Callers : Reading(d)' => Shaped(d)'
    BY <1>10 DEF Shaped, Reading
  <2> QED
    BY <1>8, <1>9, <2>1 DEF Told
<1> QED
  BY <1>7, <1>11 DEF Answered

LEMMA OrderlyServed ==
  ASSUME SessionOK, Turns, Exchange, Orderly, NEW k \in 1 .. MaxCalls, Serve(k)
  PROVE  Orderly'
<1>0. /\ TypeOK /\ sock \in Numbers /\ toUnit \in [1 .. MaxCalls -> Seq(Requests)]
      /\ pending \in Seq(Requests) /\ skipped \in BOOLEAN
      /\ owed \in Seq(Lines) /\ lines \in Seq(Lines)
  BY DEF SessionOK, TypeOK
<1>1. /\ toUnit[k] # <<>> /\ toUnit' = [toUnit EXCEPT ![k] = Tail(@)]
      /\ UNCHANGED <<sock, pending, up, at, call>> /\ (orderly' => orderly)
  <2>1. orderly' => orderly
    BY Zenon DEF Serve
  <2> QED
    BY <2>1 DEF Serve, client, threads
<1>2. CASE k # sock
  <2>1. UNCHANGED <<owed, lines>> /\ (skipped' <=> skipped)
    BY <1>2, Zenon DEF Serve
  <2>2. sock # 0 => toUnit'[sock] = toUnit[sock]
    BY <1>0, <1>1, <1>2, CountType DEF Numbers
  <2>3. skipped' = skipped
    <3>1. skipped' \in BOOLEAN
      BY <1>2, <1>0, Zenon DEF Serve
    <3> QED
      BY <1>0, <2>1, <3>1
  <2> QED
    BY <1>1, <2>1, <2>2, <2>3, OrderlyStays DEF Reading
<1>3. CASE k = sock
  <2> DEFINE q == toUnit[sock]
             r == Head(q)
  <2> SUFFICES ASSUME orderly', sock # 0
               PROVE  up /\ IF NoAnswer(lines') THEN Waiting' ELSE Answered'
    BY <1>1 DEF Orderly
  <2>1. q \in Seq(Requests) /\ q # <<>> /\ toUnit'[sock] = Tail(q) /\ r \in Requests
    BY <1>0, <1>1, <1>3, AtFront
  <2>2. up /\ NoAnswer(lines) /\ Waiting
    BY <1>1, <2>1 DEF Orderly, Answered
  <2>3. CASE r.kind = "set"
    <3>1. lines' = lines
      BY <1>3, <2>3, Zenon DEF Serve
    <3>2. CASE skipped' = (skipped \/ (k = sock /\ up)) /\ owed' = owed
      <4>1. Awaited(pending, lines, owed, Tail(q), TRUE)
        BY <1>0, <2>1, <2>2, <2>3, SetSkipped DEF Waiting
      <4>2. skipped' = TRUE
        BY <1>3, <2>2, <3>2
      <4> QED
        BY <1>1, <2>1, <2>2, <3>1, <3>2, <4>1, <4>2 DEF Waiting
    <3>3. ASSUME NEW kind \in {"set", "setr"},
                 owed' = Append(owed, Line(kind, r, r.value)),
                 orderly' = (orderly /\ ~skipped), skipped' = skipped
          PROVE  up /\ NoAnswer(lines') /\ Waiting'
      <4>1. Line(kind, r, r.value) \in Lines
        BY <2>1, <2>3, LineType DEF LineKinds, Requests
      <4>2. Acknowledges(Line(kind, r, r.value), r)
        BY DEF Acknowledges, Line
      <4>3. skipped = FALSE
        BY <1>0, <3>3
      <4>4. Awaited(pending, lines, Append(owed, Line(kind, r, r.value)), Tail(q), FALSE)
        BY <1>0, <2>1, <2>2, <2>3, <4>1, <4>2, <4>3, SetOwed DEF Waiting
      <4> QED
        BY <1>1, <2>1, <2>2, <3>1, <3>3, <4>3, <4>4 DEF Waiting
    <3>4. \/ skipped' = (skipped \/ (k = sock /\ up)) /\ owed' = owed
          \/ \E kind \in {"set", "setr"} :
               /\ owed' = Append(owed, Line(kind, r, r.value))
               /\ orderly' = (orderly /\ ~skipped) /\ skipped' = skipped
      BY <1>3, <2>3, Zenon DEF Serve
    <3> QED
      BY <2>2, <3>1, <3>2, <3>3, <3>4
  <2>4. CASE r.kind # "set"
    <3>1. /\ lines' = lines \o Answer(r) /\ owed' = owed /\ owed = <<>>
      <4>1. lines' = IF k = sock /\ up THEN lines \o Answer(r) ELSE lines
        BY <1>3, <2>4, Zenon DEF Serve
      <4>2. owed' = owed /\ orderly' = (orderly /\ owed = <<>>)
        BY <1>3, <2>4, Zenon DEF Serve
      <4> QED
        BY <1>3, <2>2, <4>1, <4>2
    <3>2. toUnit'[sock] = <<>> /\ \E c \in Callers : at[c] = "reading" /\ r = call[c]
      BY <1>0, <1>1, <1>3, <2>1, <2>4, RequestRead
    <3>3. PICK c \in Callers : at[c] = "reading" /\ r = call[c]
      BY <3>2
    <3>4. ~NoAnswer(lines') /\ Answered'
      BY <1>1, <2>2, <2>4, <3>1, <3>2, <3>3, OrderlyAnswered
    <3> QED
      BY <2>2, <3>4
  <2> QED
    BY <2>3, <2>4
<1> QED
  BY <1>2, <1>3

\* What does not keep to the protocol, or ends the session.
LEMMA OrderlyStep ==
  ASSUME SessionOK, Turns, Exchange, Readers, Orderly, [Next]_vars PROVE Orderly'
<1> USE DEF client, threads, unit, history
<1>0. ClientData /\ at \in [Callers -> Places] /\ call \in [Callers -> Requests]
  BY DEF SessionOK, TypeOK, ClientData, Places
<1>1. ASSUME sock' = 0 \/ orderly' = FALSE PROVE Orderly'
  BY <1>1 DEF Orderly
<1>2. ASSUME NEW c \in Callers, Begin(c) \/ Lock(c) PROVE Orderly'
  <2>1. \A d \in Callers : Reading(d)' =>
          Reading(d) /\ at'[d] = at[d] /\ call'[d] = call[d]
    BY <1>0, <1>2 DEF Begin, Lock, Reading
  <2> QED
    BY <1>2, <2>1, OrderlyStays DEF Begin, Lock
<1>3. ASSUME NEW c \in Callers, at[c] = "locked", UNCHANGED <<client, unit, history>>,
             End(c, "failed")
      PROVE  Orderly'
  <2>1. \A d \in Callers : Reading(d)' =>
          Reading(d) /\ at'[d] = at[d] /\ call'[d] = call[d]
    BY <1>0, <1>3 DEF End, Finish, Reading
  <2> QED
    BY <1>3, <2>1, OrderlyStays
<1>4. ASSUME NEW c \in Callers, Tick(c) PROVE Orderly'
  BY <1>1, <1>4 DEF Tick
<1>5. ASSUME NEW c \in Callers, Refuse(c) \/ SendBreaks(c) \/ ReadBreaks(c) PROVE Orderly'
  BY <1>1, <1>3, <1>5 DEF Refuse, SendBreaks, ReadBreaks
<1>6. ASSUME NEW c \in Callers, Close(c) \/ CannotConnect(c) \/ ReadNonsense(c) PROVE Orderly'
  BY <1>1, <1>3, <1>6 DEF Close, CannotConnect, ReadNonsense, Break, CloseSocket
<1>7. ASSUME NEW c \in Callers, Client(c) PROVE Orderly'
  BY <1>2, <1>5, <1>6, <1>7, OrderlySent, OrderlyEcho, OrderlyAnswer DEF Client
<1>8. CASE Misbehave \/ Drop
  BY <1>1, <1>8 DEF Misbehave, Drop
<1>9. CASE OtherWriter \/ Finished \/ UNCHANGED vars
  <2>1. UNCHANGED <<client, threads, toUnit, owed, lines, up, history>>
    BY <1>9 DEF OtherWriter, Finished, vars
  <2> QED
    BY <2>1, OrderlyStays DEF Reading
<1> QED
  BY <1>2, <1>4, <1>7, <1>8, <1>9, OrderlyServed, OrderlyEchoSent DEF Next, Unit

LEMMA OrderlyInvariant == Spec => [](Readers /\ Orderly)
<1>1. Init => Readers /\ Orderly
  BY DEF Init, Readers, Orderly, Reading
<1>2. SessionOK /\ Turns /\ Exchange /\ Readers /\ Orderly /\ [Next]_vars
        => (Readers /\ Orderly)'
  BY ReadersStep, OrderlyStep
<1> QED
  BY <1>1, <1>2, TurnsInvariant, ExchangeInvariant, PTL DEF Spec

\* The next line is the one awaited: nonsense comes from a disorderly unit.
LEMMA NoNonsense ==
  ASSUME SessionOK, Exchange, Readers, Orderly, orderly, sock # 0,
         NEW c \in Callers, ReadNonsense(c)
  PROVE  Logging(c)
<1>1. /\ Reading(c) /\ lines # <<>>
      /\ ~IsEcho(c, Head(lines)) /\ ~Fits(c, Head(lines))
  BY DEF ReadNonsense, NextLine
<1>2. lines \in Seq(Lines) /\ pending \in Seq(Requests) /\ call[c] \in Requests
  BY DEF SessionOK, TypeOK
<1>3. 1 \in DOMAIN lines /\ Head(lines) = lines[1] /\ Len(lines) \in Nat /\ Len(lines) > 0
  BY <1>1, <1>2
<1>4. ASSUME 1 <= Len(pending), Acknowledges(lines[1], pending[1]) PROVE FALSE
  <2>1. pending # <<>> /\ Head(pending) = pending[1]
    BY <1>2, <1>4
  <2>2. at[c] = "reading"
    BY <1>1, <2>1 DEF Readers, Reading
  <2> QED
    BY <1>1, <1>3, <1>4, <2>1, <2>2 DEF IsEcho
<1>5. ~NoAnswer(lines) /\ Answered
  <2>1. ASSUME NoAnswer(lines) PROVE FALSE
    <3>1. Waiting
      BY <2>1 DEF Orderly
    <3>2. /\ Len(lines) + Len(owed) + Sets(toUnit[sock]) <= Len(pending)
          /\ \A i \in 1 .. Len(lines) : Acknowledges(lines[i], pending[i])
      BY <3>1 DEF Waiting, Awaited
    <3>3. Len(owed) \in Nat /\ Sets(toUnit[sock]) \in Nat /\ Len(pending) \in Nat
      <4>1. toUnit[sock] \in Seq(Requests) /\ owed \in Seq(Lines)
        BY CountType DEF SessionOK, TypeOK, Numbers
      <4> QED
        BY <1>2, <4>1, SetsNumber
    <3> QED
      BY <1>3, <1>4, <3>2, <3>3
  <2> QED
    BY <2>1 DEF Orderly
<1>6. lines[1].kind \in Answers
  BY <1>3, <1>4, <1>5 DEF Answered, Told
<1>7. Shaped(c)
  BY <1>1, <1>5 DEF Answered, Told
<1>8. call[c].kind # "get"
  <2> SUFFICES ASSUME call[c].kind = "get" PROVE FALSE
    OBVIOUS
  <2>1. at[c] = "reading"
    BY <1>1 DEF Readers, Reading
  <2> QED
    BY <1>1, <1>3, <1>6, <1>7, <2>1 DEF Shaped, Fits
<1>9. call[c].kind # "ls"
  BY <1>1, <1>3, <1>6, <1>7 DEF Shaped, Fits, Reading
<1> QED
  BY <1>1, <1>2, <1>8, <1>9 DEF Readers, Requests, AllKinds, Logging

\* A unit that answers in time, and acknowledges its sets in order before its
\* next answer, all or none of them, keeps its session: whatever the callers
\* ask, only close and login calls end it.
THEOREM OrderlyUnitsStay == Spec => OrderlyUnitKept
<1> DEFINE Kept == sock # 0 /\ sock' = 0 /\ orderly' =>
             \E c \in Callers : lock = c /\ call[c].kind \notin {"get", "set", "ls"}
<1>1. SessionOK /\ Turns /\ Exchange /\ Readers /\ Orderly /\ [Next]_vars => [Kept]_vars
  <2> USE DEF client, threads, unit, history
  <2> SUFFICES ASSUME SessionOK, Turns, Exchange, Readers, Orderly, Next,
                      sock # 0, sock' = 0, orderly'
               PROVE  \E c \in Callers : lock = c /\ call[c].kind \notin {"get", "set", "ls"}
    OBVIOUS
  <2>1. PICK c \in Callers : Close(c) \/ CannotConnect(c) \/ ReadNonsense(c)
    <3>1. ASSUME NEW c \in Callers, Connect(c) PROVE FALSE
      BY <3>1 DEF Connect, Turns
    <3>2. ASSUME NEW c \in Callers, Refuse(c) \/ SendBreaks(c) \/ ReadBreaks(c) PROVE FALSE
      BY <3>2 DEF Refuse, SendBreaks, ReadBreaks
    <3>3. ASSUME UNCHANGED sock PROVE FALSE
      BY <3>3
    <3> QED
      BY <3>1, <3>2, <3>3 DEF Next, Client, Unit, Begin, Lock, Tick, Send, ReadEcho,
         ReadAnswer, Serve, SendEcho, Misbehave, Drop, OtherWriter, Finished, vars
  <2>2. lock = c
    BY <2>1 DEF Close, CannotConnect, ReadNonsense, NextLine, Reading, Turns
  <2>3. call[c].kind \notin {"get", "set", "ls"}
    BY <2>1, NoNonsense DEF Close, CannotConnect, ReadNonsense, Logging
  <2> QED
    BY <2>2, <2>3
<1> QED
  BY <1>1, TurnsInvariant, ExchangeInvariant, OrderlyInvariant, PTL DEF Spec, OrderlyUnitKept
=============================================================================
