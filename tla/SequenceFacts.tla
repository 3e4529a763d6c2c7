----------------------------- MODULE SequenceFacts -----------------------------
(***************************************************************************)
(* Lemmas about least elements and about queues, for the proofs of every   *)
(* component.  The queues of the program are sequences without repetition; *)
(* what matters of them is who is in them and who is first.                *)
(***************************************************************************)
EXTENDS Integers, SequencesExt, WellFoundedInduction, SequenceTheorems, TLAPS

\* Every non-empty set of naturals has a least element.
LEMMA LeastNat ==
    ASSUME NEW T \in SUBSET Nat, T # {}
    PROVE  \E m \in T : \A n \in T : m <= n
<1>1. PICK m \in T : \A n \in T : <<n, m>> \notin OpToRel(<, Nat)
  BY NatLessThanWellFounded, WFMin, Zenon
<1>2. \A n \in T : ~(n < m)
  BY <1>1 DEF OpToRel
<1>3. m \in Nat /\ \A n \in T : n \in Nat
  OBVIOUS
<1>4. \A i, j \in Nat : ~(i < j) => j <= i
  OBVIOUS
<1> QED
  BY <1>2, <1>3, <1>4, Zenon

\* Min of a non-empty set of naturals belongs to it.
LEMMA MinIn ==
    ASSUME NEW T \in SUBSET Nat, T # {}
    PROVE  Min(T) \in T /\ \A n \in T : Min(T) <= n
BY LeastNat DEF Min

\* Contains says the same as Range.
LEMMA ContainsIsRange ==
    ASSUME NEW S, NEW q \in Seq(S), NEW x
    PROVE  Contains(q, x) <=> x \in Range(q)
BY DEF Contains, Range

\* The empty queue holds nobody.
LEMMA EmptyContents == Range(<< >>) = {} /\ IsInjective(<< >>)
BY DEF Range, IsInjective

\* Who joins a queue at its end is in it, and the first stays the first.
LEMMA AppendContents ==
    ASSUME NEW S, NEW q \in Seq(S), NEW e \in S
    PROVE  /\ Append(q, e) \in Seq(S) /\ Append(q, e) # << >>
           /\ Len(Append(q, e)) = Len(q) + 1
           /\ Range(Append(q, e)) = Range(q) \cup {e}
           /\ Head(Append(q, e)) = IF q = << >> THEN e ELSE Head(q)
           /\ IsInjective(q) /\ e \notin Range(q) => IsInjective(Append(q, e))
<1> DEFINE u == Append(q, e)
<1>1. /\ u \in Seq(S) /\ u # << >> /\ Len(u) = Len(q) + 1 /\ Len(q) \in Nat
      /\ \A i \in 1 .. Len(q) : u[i] = q[i]
      /\ u[Len(q) + 1] = e
  BY AppendProperties
<1>2. DOMAIN q = 1 .. Len(q) /\ DOMAIN u = 1 .. Len(q) + 1
  BY <1>1
<1>3. Head(u) = IF q = << >> THEN e ELSE Head(q)
  BY HeadTailAppend
<1> HIDE DEF u
<1>4. Range(u) = Range(q) \cup {e}
  <2>1. \A i \in 1 .. Len(q) + 1 : i \in 1 .. Len(q) \/ i = Len(q) + 1
    BY <1>1
  <2>2. \A i \in 1 .. Len(q) : i \in 1 .. Len(q) + 1
    BY <1>1
  <2>3. Len(q) + 1 \in 1 .. Len(q) + 1
    BY <1>1
  <2> QED
    BY <1>1, <1>2, <2>1, <2>2, <2>3 DEF Range
<1>5. ASSUME IsInjective(q), e \notin Range(q) PROVE IsInjective(u)
  <2>1. \A i \in 1 .. Len(q) : q[i] # e
    BY <1>2, <1>5 DEF Range
  <2>2. \A i, j \in 1 .. Len(q) : q[i] = q[j] => i = j
    BY <1>2, <1>5 DEF IsInjective
  <2>3. SUFFICES ASSUME NEW i \in 1 .. Len(q) + 1, NEW j \in 1 .. Len(q) + 1, u[i] = u[j]
                 PROVE  i = j
    BY <1>2 DEF IsInjective
  <2> QED
    BY <1>1, <2>1, <2>2, <2>3
<1> QED
  BY <1>1, <1>3, <1>4, <1>5 DEF u

\* Without its first the queue holds the others; he is not among them.
LEMMA TailContents ==
    ASSUME NEW S, NEW q \in Seq(S), q # << >>
    PROVE  /\ Head(q) \in S /\ Head(q) \in Range(q)
           /\ Tail(q) \in Seq(S) /\ Len(Tail(q)) = Len(q) - 1
           /\ Range(q) = Range(Tail(q)) \cup {Head(q)}
           /\ IsInjective(q) => IsInjective(Tail(q)) /\ Head(q) \notin Range(Tail(q))
<1> DEFINE t == Tail(q)
<1>1. /\ Head(q) \in S /\ t \in Seq(S) /\ Len(t) = Len(q) - 1
      /\ \A i \in 1 .. Len(t) : t[i] = q[i + 1]
  BY HeadTailProperties
<1>2. Len(q) \in Nat /\ Len(q) >= 1 /\ Head(q) = q[1]
  BY EmptySeq
<1>3. DOMAIN q = 1 .. Len(q) /\ DOMAIN t = 1 .. Len(q) - 1
  BY <1>1, <1>2
<1> HIDE DEF t
<1>4. \A i \in 1 .. Len(q) - 1 : t[i] = q[i + 1] /\ i + 1 \in 1 .. Len(q) /\ i + 1 # 1
  BY <1>1, <1>2
<1>5. \A i \in 1 .. Len(q) : i = 1 \/ (i - 1 \in 1 .. Len(q) - 1 /\ t[i - 1] = q[i])
  BY <1>1, <1>2
<1>6. 1 \in 1 .. Len(q)
  BY <1>2
<1>7. Range(q) = Range(t) \cup {Head(q)} /\ Head(q) \in Range(q)
  <2>1. ASSUME NEW x \in Range(q) PROVE x \in Range(t) \/ x = Head(q)
    <3>1. PICK i \in 1 .. Len(q) : x = q[i]
      BY <1>3, <2>1 DEF Range
    <3> QED
      BY <1>2, <1>3, <1>5, <3>1 DEF Range
  <2>2. ASSUME NEW x \in Range(t) PROVE x \in Range(q)
    <3>1. PICK i \in 1 .. Len(q) - 1 : x = t[i]
      BY <1>3, <2>2 DEF Range
    <3> QED
      BY <1>3, <1>4, <3>1 DEF Range
  <2>3. Head(q) \in Range(q)
    BY <1>2, <1>3, <1>6 DEF Range
  <2> QED
    BY <2>1, <2>2, <2>3
<1>8. ASSUME IsInjective(q) PROVE IsInjective(t) /\ Head(q) \notin Range(t)
  <2>1. \A i, j \in 1 .. Len(q) : q[i] = q[j] => i = j
    BY <1>3, <1>8 DEF IsInjective
  <2>2. \A i, j \in 1 .. Len(q) - 1 : i + 1 = j + 1 => i = j
    BY <1>2
  <2>3. IsInjective(t)
    BY <1>3, <1>4, <2>1, <2>2 DEF IsInjective
  <2>4. \A i \in 1 .. Len(q) - 1 : t[i] # Head(q)
    BY <1>2, <1>4, <1>6, <2>1
  <2> QED
    BY <1>3, <2>3, <2>4 DEF Range
<1> QED
  BY <1>1, <1>7, <1>8 DEF t

\* Who is put into a queue, wherever, is in it; behind the first the first stays.
LEMMA InsertContents ==
    ASSUME NEW S, NEW q \in Seq(S), NEW n \in 1 .. Len(q) + 1, NEW e \in S
    PROVE  /\ InsertAt(q, n, e) \in Seq(S) /\ InsertAt(q, n, e) # << >>
           /\ Range(InsertAt(q, n, e)) = Range(q) \cup {e}
           /\ n > 1 => Head(InsertAt(q, n, e)) = Head(q)
           /\ IsInjective(q) /\ e \notin Range(q) => IsInjective(InsertAt(q, n, e))
<1> DEFINE u == InsertAt(q, n, e)
<1>1. /\ u \in Seq(S) /\ Len(u) = Len(q) + 1
      /\ \A i \in 1 .. Len(u) : u[i] = IF i < n THEN q[i] ELSE IF i = n THEN e ELSE q[i - 1]
  <2> DEFINE l == SubSeq(q, 1, n - 1)
             r == SubSeq(q, n, Len(q))
  <2>1. /\ l \in Seq(S) /\ Len(l) = n - 1
        /\ \A i \in 1 .. n - 1 : l[i] = q[i]
    BY SubSeqProperties
  <2>2. /\ r \in Seq(S) /\ Len(r) = Len(q) - n + 1
        /\ \A i \in 1 .. Len(q) - n + 1 : r[i] = q[n + i - 1]
    BY SubSeqProperties
  <2>3. <<e>> \in Seq(S) /\ Len(<<e>>) = 1 /\ <<e>>[1] = e
    OBVIOUS
  <2> HIDE DEF l, r
  <2>4. /\ l \o <<e>> \in Seq(S) /\ Len(l \o <<e>>) = n
        /\ \A i \in 1 .. n : (l \o <<e>>)[i] = IF i < n THEN q[i] ELSE e
    BY <2>1, <2>3, ConcatProperties
  <2> DEFINE v == l \o <<e>>
  <2>v. v \in Seq(S) /\ r \in Seq(S)
    BY <2>2, <2>4
  <2> HIDE DEF v
  <2>5. /\ v \o r \in Seq(S) /\ Len(v \o r) = Len(v) + Len(r)
        /\ \A i \in 1 .. Len(v) + Len(r) :
              (v \o r)[i] = IF i <= Len(v) THEN v[i] ELSE r[i - Len(v)]
    BY <2>v, ConcatProperties, Zenon
  <2>6. u = v \o r
    BY DEF u, InsertAt, v, l, r
  <2> HIDE DEF u
  <2>7. Len(v) = n /\ \A i \in 1 .. n : v[i] = IF i < n THEN q[i] ELSE e
    BY <2>4 DEF v
  <2>8. Len(u) = Len(q) + 1
    BY <2>2, <2>5, <2>6, <2>7
  <2>9. ASSUME NEW i \in 1 .. Len(u)
        PROVE  u[i] = IF i < n THEN q[i] ELSE IF i = n THEN e ELSE q[i - 1]
    <3>1. CASE i <= n
      BY <2>2, <2>5, <2>6, <2>7, <2>8, <3>1
    <3>2. CASE i > n
      <4>1. u[i] = r[i - n] /\ i - n \in 1 .. Len(q) - n + 1 /\ n + (i - n) - 1 = i - 1
        BY <2>2, <2>5, <2>6, <2>7, <2>8, <3>2
      <4> QED
        BY <2>2, <3>2, <4>1
    <3> QED
      BY <3>1, <3>2
  <2> QED
    BY <2>5, <2>6, <2>8, <2>9
<1>2. Len(q) \in Nat /\ DOMAIN q = 1 .. Len(q) /\ DOMAIN u = 1 .. Len(q) + 1
  BY <1>1
<1> HIDE DEF u
<1>3. /\ n \in 1 .. Len(q) + 1 /\ u[n] = e
      /\ \A i \in 1 .. Len(q) + 1 : \/ i = n
                                    \/ i < n /\ i \in 1 .. Len(q) /\ u[i] = q[i]
                                    \/ i > n /\ i - 1 \in 1 .. Len(q) /\ u[i] = q[i - 1]
      /\ \A i \in 1 .. Len(q) : \/ i < n /\ i \in 1 .. Len(q) + 1 /\ u[i] = q[i]
                                \/ i >= n /\ i + 1 \in 1 .. Len(q) + 1 /\ u[i + 1] = q[i]
  BY <1>1, <1>2
<1>4. Range(u) = Range(q) \cup {e}
  <2>1. ASSUME NEW x \in Range(u) PROVE x \in Range(q) \cup {e}
    <3>1. PICK i \in 1 .. Len(q) + 1 : x = u[i]
      BY <1>2, <2>1 DEF Range
    <3> QED
      BY <1>2, <1>3, <3>1 DEF Range
  <2>2. ASSUME NEW x \in Range(q) PROVE x \in Range(u)
    <3>1. PICK i \in 1 .. Len(q) : x = q[i]
      BY <1>2, <2>2 DEF Range
    <3> QED
      BY <1>2, <1>3, <3>1 DEF Range
  <2>3. e \in Range(u)
    BY <1>2, <1>3 DEF Range
  <2> QED
    BY <2>1, <2>2, <2>3
<1>5. u # << >>
  BY <1>1, <1>2
<1>6. ASSUME n > 1 PROVE Head(u) = Head(q)
  <2>1. q # << >> /\ Head(q) = q[1]
    BY <1>2, <1>6
  <2>2. Head(u) = u[1] /\ u[1] = q[1]
    BY <1>1, <1>2, <1>5, <1>6
  <2> QED
    BY <2>1, <2>2
<1>7. ASSUME IsInjective(q), e \notin Range(q) PROVE IsInjective(u)
  <2>1. /\ \A i \in 1 .. Len(q) : q[i] # e
        /\ \A i, j \in 1 .. Len(q) : q[i] = q[j] => i = j
    BY <1>2, <1>7 DEF IsInjective, Range
  <2>2. SUFFICES ASSUME NEW i \in 1 .. Len(q) + 1, NEW j \in 1 .. Len(q) + 1, u[i] = u[j]
                 PROVE  i = j
    BY <1>2 DEF IsInjective
  <2> QED
    BY <1>2, <1>3, <2>1, <2>2
<1> QED
  BY <1>1, <1>4, <1>5, <1>6, <1>7 DEF u

\* Of two queues one behind the other the last member is that of the second, the first
\* is that of the first, and the first of the second may as well be last of the first.
LEMMA ConcatContents ==
    ASSUME NEW S, NEW u \in Seq(S), NEW v \in Seq(S)
    PROVE  /\ u \o v \in Seq(S)
           /\ \A x \in S : u \o Append(v, x) = Append(u \o v, x)
           /\ u # << >> => /\ u \o v # << >>
                          /\ Head(u \o v) = Head(u) /\ Tail(u \o v) = Tail(u) \o v
           /\ v # << >> => Append(u, Head(v)) \o Tail(v) = u \o v
<1>1. u \o v \in Seq(S)
  BY ConcatProperties
<1>2. ASSUME NEW x \in S PROVE u \o Append(v, x) = Append(u \o v, x)
  <2>1. Append(v, x) = v \o <<x>> /\ Append(u \o v, x) = (u \o v) \o <<x>> /\ <<x>> \in Seq(S)
    BY <1>1, AppendIsConcat
  <2>2. (u \o v) \o <<x>> = u \o (v \o <<x>>)
    BY <2>1, ConcatAssociative
  <2> QED
    BY <2>1, <2>2
<1>3. ASSUME NEW t \in Seq(S), t # << >>
      PROVE  Head(t) \in S /\ Tail(t) \in Seq(S) /\ t = <<Head(t)>> \o Tail(t)
  <2>1. Head(t) \in S /\ Tail(t) \in Seq(S) /\ Len(t) \in Nat \ {0}
    BY <1>3, HeadTailProperties, EmptySeq
  <2>2. /\ 1 \in 1 .. Len(t) /\ Len(t) \in 1 .. Len(t)
        /\ SubSeq(t, 1, Len(t)) = t /\ Tail(t) = SubSeq(t, 2, Len(t)) /\ Head(t) = t[1]
    BY <1>3, <2>1, SubSeqFull, TailIsSubSeq
  <2>3. SubSeq(t, 1, Len(t)) = <<t[1]>> \o SubSeq(t, 1 + 1, Len(t))
    BY <2>2, SubSeqRecursiveFirst
  <2> QED
    BY <2>1, <2>2, <2>3
<1>4. ASSUME u # << >>
      PROVE  /\ u \o v # << >>
             /\ Head(u \o v) = Head(u) /\ Tail(u \o v) = Tail(u) \o v
  <2> DEFINE h == Head(u)
             r == Tail(u) \o v
  <2>1. h \in S /\ Tail(u) \in Seq(S) /\ u = <<h>> \o Tail(u) /\ <<h>> \in Seq(S)
    BY <1>3, <1>4
  <2>2. r \in Seq(S)
    BY <2>1, ConcatProperties
  <2>3. (<<h>> \o Tail(u)) \o v = <<h>> \o r
    BY <2>1, ConcatAssociative
  <2>4. u \o v = <<h>> \o r
    BY <2>1, <2>3
  <2> HIDE DEF h, r
  <2>5. <<h>> \o r # << >> /\ Head(<<h>> \o r) = h /\ Tail(<<h>> \o r) = r
    BY <2>1, <2>2
  <2> QED
    BY <2>4, <2>5 DEF h, r
<1>5. ASSUME v # << >> PROVE Append(u, Head(v)) \o Tail(v) = u \o v
  <2>1. Head(v) \in S /\ Tail(v) \in Seq(S) /\ v = <<Head(v)>> \o Tail(v) /\ <<Head(v)>> \in Seq(S)
    BY <1>3, <1>5
  <2>2. Append(u, Head(v)) = u \o <<Head(v)>>
    BY <2>1, AppendIsConcat
  <2>3. (u \o <<Head(v)>>) \o Tail(v) = u \o (<<Head(v)>> \o Tail(v))
    BY <2>1, ConcatAssociative
  <2> QED
    BY <2>1, <2>2, <2>3
<1> QED
  BY <1>1, <1>2, <1>4, <1>5
=============================================================================
