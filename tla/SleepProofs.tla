----------------------------- MODULE SleepProofs -----------------------------
(***************************************************************************)
(* Theorems about Sleep: the heap loses nobody and stays ordered, and who  *)
(* sleeps is woken in order and not early, for any number of processes.    *)
(***************************************************************************)
EXTENDS Sleep, SequenceFacts, FiniteSetTheorems, FunctionTheorems

-----------------------------------------------------------------------------
(* The path of the hole.                                                   *)

\* The hole starts on its path, stays on it, and came to every place of it from
\* another.
LEMMA PathIs ==
    ASSUME NEW start, NEW next
    PROVE  LET path == Path(start, next) IN
           /\ start \in path
           /\ \A i \in path \cap DOMAIN next : next[i] \in path
           /\ \A j \in path : j # start => \E k \in path \cap DOMAIN next : next[k] = j
<1> DEFINE places == {start} \cup Range(next)
           path == Path(start, next)
<1>1. \A j : j \in path <=>
          j \in places /\ \A T \in SUBSET places : start \in T /\ StaysIn(T, next) => j \in T
  BY DEF Path
<1> HIDE DEF path
<1>2. start \in path
  BY <1>1
<1>3. ASSUME NEW i \in path \cap DOMAIN next PROVE next[i] \in path
  <2>1. next[i] \in places
    BY DEF Range
  <2>2. ASSUME NEW T \in SUBSET places, start \in T, StaysIn(T, next) PROVE next[i] \in T
    BY <1>1, <2>2 DEF StaysIn
  <2> QED
    BY <1>1, <2>1, <2>2
<1>4. ASSUME NEW j \in path, j # start PROVE \E k \in path \cap DOMAIN next : next[k] = j
  <2>1. SUFFICES ASSUME \A k \in path \cap DOMAIN next : next[k] # j PROVE FALSE
    OBVIOUS
  <2> DEFINE T == path \ {j}
  <2>2. T \in SUBSET places /\ start \in T
    BY <1>1, <1>2, <1>4
  <2>3. StaysIn(T, next)
    BY <1>3, <2>1 DEF StaysIn
  <2> QED
    BY <1>1, <2>2, <2>3
<1> QED
  BY <1>2, <1>3, <1>4 DEF path

\* What moving a hole along next may rely on: next is defined and stays within the
\* first n places, and no place it names is empty.
Guided(h, n, start, next) ==
    /\ n \in Nat \ {0} /\ start \in 1 .. n
    /\ n <= Len(h) \/ (n = Len(h) + 1 /\ start = n)
    /\ DOMAIN next \subseteq 1 .. n
    /\ \A i \in DOMAIN next : next[i] \in 1 .. n /\ next[i] <= Len(h)

\* The path stays within the heap, and what is not on it is an entry of the heap.
LEMMA PathWithin ==
    ASSUME NEW S, NEW h \in Seq(S), NEW n, NEW start, NEW next, Guided(h, n, start, next)
    PROVE  /\ Path(start, next) \subseteq 1 .. n
           /\ \A i \in 1 .. n : i \notin Path(start, next) => i \in 1 .. Len(h)
<1>1. \A j \in Path(start, next) : j = start \/ \E k \in DOMAIN next : next[k] = j
  BY PathIs
<1>2. start \in Path(start, next)
  BY PathIs
<1> QED
  BY <1>1, <1>2 DEF Guided

\* The new heap holds what the old one did within the first n places, but for the
\* entry the hole started at, and the one it is filled with.
LEMMA MovedContents ==
    ASSUME NEW S, NEW h \in Seq(S), NEW n, NEW start, NEW next, NEW e \in S,
           Guided(h, n, start, next), \E j \in Path(start, next) : j \notin DOMAIN next
    PROVE  LET u == Moved(h, n, start, next, e) IN
           /\ u \in Seq(S) /\ Len(u) = n
           /\ e \in Range(u)
           /\ \A i \in 1 .. n : i # start => h[i] \in Range(u)
           /\ Range(u) \subseteq Range(h) \cup {e}
<1> DEFINE u == Moved(h, n, start, next, e)
           path == Path(start, next)
<1>1. /\ start \in path
      /\ \A i \in path : i \in DOMAIN next => next[i] \in path
      /\ \A j \in path : j # start => \E k \in path : k \in DOMAIN next /\ next[k] = j
  BY PathIs
<1>2. path \subseteq 1 .. n /\ \A i \in 1 .. n : i \notin path => i \in 1 .. Len(h)
  BY PathWithin
<1>3. /\ DOMAIN u = 1 .. n
      /\ \A j \in 1 .. n : u[j] = IF j \notin path THEN h[j]
                                  ELSE IF j \in DOMAIN next THEN h[next[j]] ELSE e
  BY DEF Moved
<1>4. /\ n \in Nat /\ DOMAIN next \subseteq 1 .. n
      /\ \A i \in DOMAIN next : next[i] \in 1 .. Len(h)
  BY DEF Guided
<1>5. /\ Len(h) \in Nat /\ DOMAIN h = 1 .. Len(h) /\ \A i \in 1 .. Len(h) : h[i] \in S
  OBVIOUS
<1>6. PICK f \in path : f \notin DOMAIN next
  OBVIOUS
<1>7. u = [j \in 1 .. n |-> u[j]]
  BY DEF Moved
<1> HIDE DEF u, path
<1>8. \A j \in 1 .. n : u[j] \in Range(h) \cup {e} /\ u[j] \in S
  BY <1>2, <1>3, <1>4, <1>5 DEF Range
<1>9. u \in [1 .. n -> S]
  BY <1>7, <1>8
<1>10. u \in Seq(S) /\ Len(u) = n
  BY <1>4, <1>9
<1>11. e \in Range(u)
  BY <1>2, <1>3, <1>6 DEF Range
<1>12. ASSUME NEW i \in 1 .. n, i # start PROVE h[i] \in Range(u)
  <2>1. CASE i \notin path
    BY <1>3, <2>1 DEF Range
  <2>2. CASE i \in path
    <3>1. PICK k \in path : k \in DOMAIN next /\ next[k] = i
      BY <1>1, <1>12, <2>2
    <3> QED
      BY <1>2, <1>3, <3>1 DEF Range
  <2> QED
    BY <2>1, <2>2
<1>13. Range(u) \subseteq Range(h) \cup {e}
  BY <1>3, <1>8 DEF Range
<1> QED
  BY <1>10, <1>11, <1>12, <1>13 DEF u

-----------------------------------------------------------------------------
(* addHeap and removeHeap.                                                 *)

Entry == [pid : Sleepers, wakeTime : 0 .. MaxTime]

\* Every process of the heap wakes up no earlier than the one above it.
HeapOrdered(heap) == \A i \in 2 .. Len(heap) : wakeTime(heap[Parent(i)]) <= wakeTime(heap[i])

\* A wakeTime is an int.
LEMMA WakeTimeIsInt == ASSUME NEW e \in Entry PROVE wakeTime(e) \in Int
BY SleepAssumption DEF Entry, wakeTime, Int32

\* The place above another is before it; those below i are 2 * i and 2 * i + 1.
LEMMA ParentIs ==
    ASSUME NEW n \in Nat, NEW i \in 2 .. n
    PROVE  /\ Parent(i) \in 1 .. n - 1 /\ Parent(i) < i
           /\ i = 2 * Parent(i) \/ i = 2 * Parent(i) + 1
BY DEF Parent

\* The hole of addHeap is guided upwards, and ends somewhere.
LEMMA RisesIs ==
    ASSUME NEW h \in Seq(Entry), NEW e \in Entry
    PROVE  LET n == Len(h) + 1  next == Rises(h, e) IN
           /\ n \in Nat \ {0} /\ Len(h) \in Nat
           /\ \A i : i \in DOMAIN next <=> i \in 2 .. n /\ ~(wakeTime(h[Parent(i)]) <= wakeTime(e))
           /\ \A i \in DOMAIN next : next[i] = Parent(i)
           /\ Guided(h, n, n, next)
           /\ \E j \in Path(n, next) : j \notin DOMAIN next
<1> DEFINE n == Len(h) + 1
           next == Rises(h, e)
<1>1. n \in Nat \ {0} /\ Len(h) \in Nat
  OBVIOUS
<1>2. /\ \A i : i \in DOMAIN next <=> i \in 2 .. n /\ ~(wakeTime(h[Parent(i)]) <= wakeTime(e))
      /\ \A i \in DOMAIN next : next[i] = Parent(i)
  BY DEF Rises
<1> HIDE DEF next
<1>3. \A i \in DOMAIN next : next[i] \in 1 .. n /\ next[i] <= Len(h) /\ next[i] < i
  <2>1. \A i \in 2 .. n : Parent(i) \in 1 .. n - 1 /\ Parent(i) < i
    BY <1>1, ParentIs
  <2> QED
    BY <1>1, <1>2, <2>1
<1>4. Guided(h, n, n, next)
  BY <1>1, <1>2, <1>3 DEF Guided
<1>5. Path(n, next) \in SUBSET Nat /\ Path(n, next) # {}
  BY <1>1, <1>4, PathWithin, PathIs
<1>6. PICK m \in Path(n, next) : \A j \in Path(n, next) : m <= j
  BY <1>5, LeastNat
<1>7. m \notin DOMAIN next
  <2>1. SUFFICES ASSUME m \in DOMAIN next PROVE FALSE
    OBVIOUS
  <2>2. next[m] \in Path(n, next)
    BY <2>1, PathIs
  <2>3. next[m] < m /\ m <= next[m] /\ next[m] \in Nat /\ m \in Nat
    BY <1>3, <1>5, <1>6, <2>1, <2>2
  <2> QED
    BY <2>3
<1> QED
  BY <1>1, <1>2, <1>4, <1>6, <1>7 DEF next

\* addHeap adds its entry and loses none.
LEMMA AddContents ==
    ASSUME NEW h \in Seq(Entry), NEW e \in Entry
    PROVE  /\ addHeap(h, e) \in Seq(Entry) /\ Len(addHeap(h, e)) = Len(h) + 1
           /\ Range(addHeap(h, e)) = Range(h) \cup {e}
<1> DEFINE n == Len(h) + 1
           u == addHeap(h, e)
<1>1. Guided(h, n, n, Rises(h, e)) /\ \E j \in Path(n, Rises(h, e)) : j \notin DOMAIN Rises(h, e)
  BY RisesIs
<1>2. u = Moved(h, n, n, Rises(h, e), e)
  BY DEF addHeap
<1> HIDE DEF u
<1>3. /\ u \in Seq(Entry) /\ Len(u) = n /\ e \in Range(u)
      /\ \A i \in 1 .. n : i # n => h[i] \in Range(u)
      /\ Range(u) \subseteq Range(h) \cup {e}
  BY <1>1, <1>2, MovedContents
<1>4. Range(h) \subseteq Range(u)
  <2>1. Len(h) \in Nat /\ DOMAIN h = 1 .. Len(h)
    OBVIOUS
  <2> QED
    BY <1>3, <2>1 DEF Range
<1> QED
  BY <1>3, <1>4 DEF u

\* addHeap keeps the heap ordered.
LEMMA AddOrdered ==
    ASSUME NEW h \in Seq(Entry), NEW e \in Entry, HeapOrdered(h)
    PROVE  HeapOrdered(addHeap(h, e))
<1> DEFINE n == Len(h) + 1
           next == Rises(h, e)
           path == Path(n, next)
           u == addHeap(h, e)
           w(i) == wakeTime(h[i])
           c == wakeTime(e)
<1>1. /\ n \in Nat \ {0} /\ Len(h) \in Nat
      /\ \A i : i \in DOMAIN next <=> i \in 2 .. n /\ ~(w(Parent(i)) <= c)
      /\ \A i \in DOMAIN next : next[i] = Parent(i)
  BY RisesIs
<1>2. /\ n \in path
      /\ \A i \in path : i \in DOMAIN next => next[i] \in path
      /\ \A j \in path : j # n => \E k \in path : k \in DOMAIN next /\ next[k] = j
  BY PathIs
<1>3. Len(u) = n
  BY AddContents
<1>4. \A j \in 1 .. n : u[j] = IF j \notin path THEN h[j]
                              ELSE IF j \in DOMAIN next THEN h[next[j]] ELSE e
  BY DEF addHeap, Moved
<1>5. c \in Int /\ \A i \in 1 .. Len(h) : w(i) \in Int
  BY WakeTimeIsInt
<1>6. \A i \in 2 .. Len(h) : w(Parent(i)) <= w(i)
  BY DEF HeapOrdered
<1>7. \A i \in 2 .. n : Parent(i) \in 1 .. Len(h) /\ Parent(i) < i
  <2>1. \A i \in 2 .. n : Parent(i) \in 1 .. n - 1 /\ Parent(i) < i
    BY <1>1, ParentIs
  <2> QED
    BY <1>1, <2>1
<1> HIDE DEF next, path, u
<1>8. ASSUME NEW i \in 2 .. n PROVE wakeTime(u[Parent(i)]) <= wakeTime(u[i])
  <2> DEFINE p == Parent(i)
  <2>1. p \in 1 .. Len(h) /\ p \in 1 .. n /\ p # n /\ p < i
    BY <1>1, <1>7
  <2>2. p >= 2 => Parent(p) \in 1 .. Len(h) /\ w(Parent(p)) <= w(p)
    BY <1>1, <1>6, <1>7, <2>1
  \* What the hole leaves in the place above i, if it comes to it.
  <2>3. p \in path => \/ p \in DOMAIN next /\ u[p] = h[Parent(p)] /\ p >= 2
                      \/ u[p] = e
    BY <1>1, <1>4, <2>1
  <2>4. p \notin path => u[p] = h[p]
    BY <1>4, <2>1
  <2> HIDE DEF p
  <2>5. CASE i \in path /\ i \in DOMAIN next
    <3>1. u[i] = h[p] /\ ~(w(p) <= c) /\ p \in path
      BY <1>1, <1>2, <1>4, <2>5 DEF p
    <3> QED
      BY <1>5, <2>1, <2>2, <2>3, <3>1 DEF p
  <2>6. CASE i \in path /\ i \notin DOMAIN next
    <3>1. u[i] = e /\ w(p) <= c
      BY <1>1, <1>4, <2>6 DEF p
    <3> QED
      BY <1>5, <2>1, <2>2, <2>3, <2>4, <3>1 DEF p
  <2>7. CASE i \notin path
    <3>1. i \in 2 .. Len(h) /\ u[i] = h[i] /\ w(p) <= w(i)
      BY <1>1, <1>2, <1>4, <1>6, <2>7 DEF p
    <3>2. p \in path => ~(w(p) <= c)
      <4>1. ASSUME p \in path PROVE \E k \in DOMAIN next : Parent(k) = p
        BY <1>1, <1>2, <2>1, <4>1
      <4> QED
        BY <1>1, <4>1
    <3> QED
      BY <1>5, <2>1, <2>2, <2>3, <2>4, <3>1, <3>2 DEF p
  <2> QED
    BY <2>5, <2>6, <2>7
<1> QED
  BY <1>3, <1>8 DEF HeapOrdered, u

\* Earlier is below i, and no other entry below i is earlier.
LEMMA EarlierIs ==
    ASSUME NEW h \in Seq(Entry), NEW n \in Nat, n <= Len(h), NEW i \in 1 .. n, 2 * i <= n
    PROVE  LET j == Earlier(h, n, i) IN
           /\ j \in 1 .. n /\ i < j /\ (j = 2 * i \/ j = 2 * i + 1)
           /\ wakeTime(h[j]) <= wakeTime(h[2 * i])
           /\ 2 * i + 1 <= n => wakeTime(h[j]) <= wakeTime(h[2 * i + 1])
<1>1. 2 * i \in 1 .. n /\ i < 2 * i /\ i < 2 * i + 1 /\ (2 * i + 1 <= n => 2 * i + 1 \in 1 .. n)
  OBVIOUS
<1>2. \A j \in 1 .. n : h[j] \in Entry
  OBVIOUS
<1>3. \A j \in 1 .. n : wakeTime(h[j]) \in Int
  BY <1>2, WakeTimeIsInt
<1> QED
  BY <1>1, <1>3 DEF Earlier

\* The hole of removeHeap is guided downwards, and ends somewhere.
LEMMA SinksIs ==
    ASSUME NEW h \in Seq(Entry), NEW e, NEW n \in Nat \ {0}, n + 1 = Len(h)
    PROVE  LET next == Sinks(h, n, e) IN
           /\ \A i : i \in DOMAIN next <=>
                  /\ i \in 1 .. n /\ 2 * i <= n
                  /\ wakeTime(h[Earlier(h, n, i)]) < wakeTime(e)
           /\ \A i \in DOMAIN next : next[i] = Earlier(h, n, i)
           /\ Guided(h, n, 1, next)
           /\ \E j \in Path(1, next) : j \notin DOMAIN next
<1> DEFINE next == Sinks(h, n, e)
           path == Path(1, next)
<1>1. /\ \A i : i \in DOMAIN next <=>
             /\ i \in 1 .. n /\ 2 * i <= n
             /\ wakeTime(h[Earlier(h, n, i)]) < wakeTime(e)
      /\ \A i \in DOMAIN next : next[i] = Earlier(h, n, i)
  BY DEF Sinks
<1> HIDE DEF next
<1>2. ASSUME NEW i \in DOMAIN next PROVE next[i] \in 1 .. n /\ next[i] <= Len(h) /\ i < next[i]
  <2>1. i \in 1 .. n /\ 2 * i <= n /\ n <= Len(h) /\ next[i] = Earlier(h, n, i)
    BY <1>1
  <2>2. Earlier(h, n, i) \in 1 .. n /\ i < Earlier(h, n, i)
    BY <2>1, EarlierIs
  <2> QED
    BY <2>1, <2>2
<1>3. Guided(h, n, 1, next)
  BY <1>1, <1>2 DEF Guided
<1>4. path \subseteq 1 .. n /\ 1 \in path
  BY <1>3, PathWithin, PathIs
<1>5. PICK m \in path : \A j \in path : j <= m
  <2> DEFINE T == {n - j : j \in path}
  <2>1. T \in SUBSET Nat /\ T # {}
    BY <1>4
  <2>2. PICK k \in T : \A j \in T : k <= j
    BY <2>1, LeastNat
  <2>3. PICK m \in path : k = n - m
    BY <2>2
  <2>4. \A j \in path : n - m <= n - j
    BY <2>2, <2>3
  <2> QED
    BY <1>4, <2>4
<1>6. m \notin DOMAIN next
  <2>1. SUFFICES ASSUME m \in DOMAIN next PROVE FALSE
    OBVIOUS
  <2>2. next[m] \in path
    BY <2>1, PathIs
  <2>3. m < next[m] /\ next[m] <= m /\ next[m] \in 1 .. n /\ m \in 1 .. n
    BY <1>2, <1>4, <1>5, <2>1, <2>2
  <2> QED
    BY <2>3
<1> QED
  BY <1>1, <1>3, <1>6 DEF next, path

\* The heap of one entry is empty after removeHeap.
LEMMA RemoveOnly ==
    ASSUME NEW h \in Seq(Entry), Len(h) = 1
    PROVE  removeHeap(h) = << >> /\ Range(h) = {h[1]}
<1>1. Len(h) - 1 = 0 /\ 1 .. 0 = {}
  BY SMT
<1>2. Range(h) = {h[1]}
  BY DEF Range
<1>3. \A next, e : Moved(h, 0, 1, next, e) = << >>
  BY <1>1 DEF Moved
<1> QED
  BY <1>1, <1>2, <1>3 DEF removeHeap

\* removeHeap loses the top, and nothing else.
LEMMA RemoveContents ==
    ASSUME NEW h \in Seq(Entry), h # << >>
    PROVE  /\ removeHeap(h) \in Seq(Entry) /\ Len(removeHeap(h)) = Len(h) - 1
           /\ Range(h) = Range(removeHeap(h)) \cup {h[1]}
<1> DEFINE n == Len(h) - 1
           e == Last(h)
           u == removeHeap(h)
<1>1. n \in Nat /\ Len(h) \in Nat /\ n + 1 = Len(h) /\ DOMAIN h = 1 .. n + 1 /\ 1 \in DOMAIN h
  OBVIOUS
<1>2. CASE Len(h) = 1
  <2>1. removeHeap(h) = << >> /\ Range(h) = {h[1]}
    BY <1>2, RemoveOnly
  <2>2. Len(removeHeap(h)) = 0 /\ removeHeap(h) \in Seq(Entry) /\ Range(removeHeap(h)) = {}
    BY <2>1, EmptyContents
  <2> QED
    BY <1>2, <2>1, <2>2
<1>3. CASE Len(h) # 1
  <2>1. e = h[n + 1] /\ e \in Entry
    BY <1>1 DEF Last
  <2> HIDE DEF e
  <2>2. n \in Nat \ {0}
    BY <1>1, <1>3
  <2>3. Guided(h, n, 1, Sinks(h, n, e)) /\ \E j \in Path(1, Sinks(h, n, e)) : j \notin DOMAIN Sinks(h, n, e)
    BY <1>1, <2>2, SinksIs
  <2>4. u = Moved(h, n, 1, Sinks(h, n, e), e)
    BY DEF removeHeap, e
  <2> HIDE DEF u
  <2>5. /\ u \in Seq(Entry) /\ Len(u) = n /\ e \in Range(u)
        /\ \A i \in 1 .. n : i # 1 => h[i] \in Range(u)
        /\ Range(u) \subseteq Range(h) \cup {e}
    BY <2>1, <2>3, <2>4, MovedContents
  <2>6. Range(h) \subseteq Range(u) \cup {h[1]}
    <3> HIDE DEF n
    <3>1. \A i \in 1 .. n + 1 : i = 1 \/ i = n + 1 \/ (i \in 1 .. n /\ i # 1)
      BY <1>1
    <3>2. \A i \in 1 .. n + 1 : h[i] \in Range(u) \cup {h[1]}
      BY <2>1, <2>5, <3>1
    <3> QED
      BY <1>1, <3>2 DEF Range
  <2>7. e \in Range(h) /\ h[1] \in Range(h)
    BY <1>1, <2>1 DEF Range
  <2> QED
    BY <2>5, <2>6, <2>7 DEF u
<1> QED
  BY <1>2, <1>3

\* removeHeap keeps the heap ordered.
LEMMA RemoveOrdered ==
    ASSUME NEW h \in Seq(Entry), h # << >>, HeapOrdered(h)
    PROVE  HeapOrdered(removeHeap(h))
<1> DEFINE n == Len(h) - 1
           e == Last(h)
           u == removeHeap(h)
           next == Sinks(h, n, e)
           path == Path(1, next)
           w(i) == wakeTime(h[i])
           c == wakeTime(e)
<1>1. n \in Nat /\ Len(h) \in Nat /\ n + 1 = Len(h) /\ Len(u) = n
  BY RemoveContents
<1>2. CASE Len(h) = 1
  <2>1. u = << >>
    BY <1>2, RemoveOnly
  <2> QED
    BY <2>1 DEF HeapOrdered
<1>3. CASE Len(h) # 1
  <2>1. n \in Nat \ {0} /\ n <= Len(h)
    BY <1>1, <1>3
  <2>2. /\ \A i : i \in DOMAIN next <=> i \in 1 .. n /\ 2 * i <= n /\ w(Earlier(h, n, i)) < c
        /\ \A i \in DOMAIN next : next[i] = Earlier(h, n, i)
    BY <1>1, <2>1, SinksIs
  <2>3. /\ 1 \in path
        /\ \A i \in path : i \in DOMAIN next => next[i] \in path
        /\ \A j \in path : j # 1 => \E k \in path : k \in DOMAIN next /\ next[k] = j
    BY PathIs
  <2>4. \A j \in 1 .. n : u[j] = IF j \notin path THEN h[j]
                                ELSE IF j \in DOMAIN next THEN h[next[j]] ELSE e
    BY DEF removeHeap, Moved
  <2>5. c \in Int /\ \A i \in 1 .. n : w(i) \in Int
    <3>1. e \in Entry
      BY <1>1, <2>1 DEF Last
    <3>2. \A i \in 1 .. n : h[i] \in Entry
      BY <1>1
    <3> QED
      BY <3>1, <3>2, WakeTimeIsInt
  <2>6. \A i \in 2 .. n : w(Parent(i)) <= w(i)
    BY <1>1 DEF HeapOrdered
  <2>7. \A i \in 2 .. n : /\ Parent(i) \in 1 .. n /\ i # 1 /\ i \in 1 .. n
                          /\ 2 * Parent(i) <= n
                          /\ i = 2 * Parent(i) \/ i = 2 * Parent(i) + 1
    <3>1. \A i \in 2 .. n : /\ Parent(i) \in 1 .. n - 1
                            /\ i = 2 * Parent(i) \/ i = 2 * Parent(i) + 1
      BY <1>1, ParentIs
    <3> QED
      BY <1>1, <3>1
  <2>8. \A i \in 1 .. n : 2 * i <= n =>
            LET j == Earlier(h, n, i) IN
            /\ j \in 1 .. n /\ j \in 2 .. n /\ (j = 2 * i \/ j = 2 * i + 1)
            /\ w(j) <= w(2 * i) /\ (2 * i + 1 <= n => w(j) <= w(2 * i + 1))
    <3>1. SUFFICES ASSUME NEW i \in 1 .. n, 2 * i <= n
                   PROVE LET j == Earlier(h, n, i) IN
            /\ j \in 1 .. n /\ i < j /\ (j = 2 * i \/ j = 2 * i + 1)
            /\ w(j) <= w(2 * i) /\ (2 * i + 1 <= n => w(j) <= w(2 * i + 1))
      OBVIOUS
    <3> QED
      BY <1>1, <2>1, <3>1, EarlierIs
  <2> HIDE DEF next, path, u, n, e
  \* Where the hole goes on to, and that it came from above.
  <2>9. \A i \in DOMAIN next : /\ next[i] \in 2 .. n /\ i \in 1 .. n /\ Parent(next[i]) = i
                               /\ \A j \in 2 .. n : Parent(j) = i => w(next[i]) <= w(j)
    <3>1. ASSUME NEW i \in DOMAIN next
          PROVE  /\ next[i] \in 2 .. n /\ i \in 1 .. n
                 /\ next[i] = 2 * i \/ next[i] = 2 * i + 1
                 /\ \A j \in 2 .. n : Parent(j) = i => w(next[i]) <= w(j)
      <4>1. i \in 1 .. n /\ 2 * i <= n /\ next[i] = Earlier(h, n, i)
        BY <2>2
      <4>2. /\ next[i] \in 2 .. n /\ (next[i] = 2 * i \/ next[i] = 2 * i + 1)
            /\ w(next[i]) <= w(2 * i) /\ (2 * i + 1 <= n => w(next[i]) <= w(2 * i + 1))
        BY <2>8, <4>1
      <4>3. ASSUME NEW j \in 2 .. n, Parent(j) = i PROVE w(next[i]) <= w(j)
        <5>1. (j = 2 * i \/ j = 2 * i + 1) /\ j <= n
          BY <2>1, <2>7, <4>3
        <5> QED
          BY <4>2, <5>1
      <4> QED
        BY <4>1, <4>2, <4>3
    <3>2. \A i \in 1 .. n : Parent(2 * i) = i /\ Parent(2 * i + 1) = i
      BY DEF Parent
    <3> QED
      BY <3>1, <3>2
  <2>10. ASSUME NEW i \in 2 .. n PROVE wakeTime(u[Parent(i)]) <= wakeTime(u[i])
    <3> DEFINE p == Parent(i)
    <3>1. p \in 1 .. n /\ i \in 1 .. n /\ i # 1 /\ w(p) <= w(i)
      BY <2>6, <2>7
    <3>2. p \notin DOMAIN next => c <= w(i)
      <4>1. SUFFICES ASSUME p \notin DOMAIN next PROVE c <= w(i)
        OBVIOUS
      <4>2. 2 * p <= n /\ (i = 2 * p \/ i = 2 * p + 1) /\ i <= n
        BY <2>1, <2>7
      <4> DEFINE j == Earlier(h, n, p)
      <4>3. j \in 1 .. n /\ w(j) <= w(2 * p) /\ (2 * p + 1 <= n => w(j) <= w(2 * p + 1))
        BY <2>8, <3>1, <4>2
      <4>4. ~(w(j) < c)
        BY <2>2, <3>1, <4>1, <4>2
      <4> HIDE DEF j, p
      <4>5. w(j) <= w(i)
        BY <4>2, <4>3
      <4>6. w(j) \in Int /\ w(i) \in Int
        BY <2>5, <3>1, <4>3
      <4> QED
        BY <2>5, <4>4, <4>5, <4>6
    <3>3. p \in DOMAIN next => next[p] \in 1 .. n /\ w(next[p]) <= w(i) /\ w(next[p]) < c
      BY <2>2, <2>9
    <3>4. u[p] = IF p \notin path THEN h[p] ELSE IF p \in DOMAIN next THEN h[next[p]] ELSE e
      BY <2>4, <3>1
    <3>5. CASE i \in path
      <4>1. p \in path /\ p \in DOMAIN next /\ next[p] = i
        BY <2>3, <2>9, <3>1, <3>5
      <4>2. u[i] = e \/ (i \in DOMAIN next /\ u[i] = h[next[i]])
        BY <2>4, <3>1, <3>5
      <4>3. i \in DOMAIN next => next[i] \in 2 .. n /\ w(i) <= w(next[i])
        BY <2>6, <2>9
      <4>4. u[p] = h[i] /\ w(i) < c
        BY <3>3, <3>4, <4>1
      <4> QED
        BY <2>5, <3>1, <4>2, <4>3, <4>4
    <3>6. CASE i \notin path
      <4>1. u[i] = h[i]
        BY <2>4, <3>1, <3>6
      <4> QED
        BY <2>5, <3>1, <3>2, <3>3, <3>4, <4>1
    <3> QED
      BY <3>5, <3>6
  <2> QED
    BY <1>1, <2>10 DEF HeapOrdered, u, n
<1> QED
  BY <1>2, <1>3

\* The top of an ordered heap is the earliest.
LEMMA TopIsEarliest ==
    ASSUME NEW h \in Seq(Entry), HeapOrdered(h), NEW x \in Range(h)
    PROVE  wakeTime(h[1]) <= wakeTime(x)
<1> DEFINE n == Len(h)
           w(i) == wakeTime(h[i])
           T == {i \in 1 .. n : ~(w(1) <= w(i))}
<1>1. n \in Nat /\ DOMAIN h = 1 .. n /\ \A i \in 1 .. n : h[i] \in Entry
  OBVIOUS
<1>2. \A i \in 1 .. n : w(i) \in Int
  BY <1>1, WakeTimeIsInt
<1>3. T = {}
  <2>1. SUFFICES ASSUME T # {} PROVE FALSE
    OBVIOUS
  <2>2. T \in SUBSET Nat
    BY <1>1
  <2>3. PICK i \in T : \A j \in T : i <= j
    BY <2>1, <2>2, LeastNat
  <2>4. i \in 1 .. n /\ ~(w(1) <= w(i))
    BY <2>3
  <2>5. i \in 2 .. n
    BY <1>1, <1>2, <2>4
  <2>6. Parent(i) \in 1 .. n - 1 /\ Parent(i) < i
    BY <1>1, <2>5, ParentIs
  <2>7. Parent(i) \in 1 .. n /\ Parent(i) \notin T
    BY <1>1, <2>3, <2>5, <2>6
  <2>8. w(1) <= w(Parent(i)) /\ w(Parent(i)) <= w(i)
    BY <2>5, <2>7 DEF HeapOrdered
  <2> QED
    BY <1>1, <1>2, <2>4, <2>7, <2>8
<1>4. PICK i \in 1 .. n : x = h[i]
  BY <1>1 DEF Range
<1> QED
  BY <1>3, <1>4

-----------------------------------------------------------------------------
(* The invariants.                                                         *)

SleepTypes ==
    /\ now \in 0 .. MaxTime /\ slHeap \in Seq(Entry)
    /\ sleepAt \in [Sleepers -> {"user", "recv", "asleep"}]
    /\ clockAt \in {"wait", "loop", "send"}
    /\ woken \in Entry \cup {NoSleeper} /\ (clockAt = "send" <=> woken \in Entry)

\* The heap is ordered, and the driver has taken nobody early.
OrderInv == HeapOrdered(slHeap) /\ (clockAt = "send" => woken.wakeTime <= now)

\* As long as the times do not overflow, wakeTime is the time that was computed.
LEMMA NoOverflow ==
    ASSUME MaxTime < IntRange, NEW e \in Entry
    PROVE  wakeTime(e) = e.wakeTime
<1>1. ASSUME NEW a \in Nat, NEW b \in Nat, a < b PROVE a % b = a
  BY <1>1
<1>2. e.wakeTime + IntRange \in Nat /\ 2 * IntRange \in Nat /\ e.wakeTime + IntRange < 2 * IntRange
  BY SleepAssumption DEF Entry
<1>3. (e.wakeTime + IntRange) % (2 * IntRange) = e.wakeTime + IntRange
  BY <1>1, <1>2
<1> QED
  BY <1>3, SleepAssumption DEF wakeTime, Int32, Entry

\* The processes of a heap are finitely many, no more than its entries.
Pids(heap) == {entry.pid : entry \in Range(heap)}

LEMMA PidsBounded ==
    ASSUME NEW h \in Seq(Entry)
    PROVE  /\ IsFiniteSet(Pids(h)) /\ Cardinality(Pids(h)) \in Nat
           /\ Cardinality(Pids(h)) <= Len(h) /\ Pids(h) \subseteq Sleepers
<1> DEFINE f == [i \in 1 .. Len(h) |-> h[i].pid]
<1>1. Len(h) \in Nat /\ DOMAIN h = 1 .. Len(h) /\ \A i \in 1 .. Len(h) : h[i] \in Entry
  OBVIOUS
<1>2. Range(f) = Pids(h)
  BY <1>1 DEF Range, Pids
<1>3. f \in Surjection(1 .. Len(h), Range(f))
  <2>1. f \in [1 .. Len(h) -> Sleepers]
    BY <1>1 DEF Entry
  <2> HIDE DEF f
  <2> QED
    BY <2>1, Fun_RangeProperties
<1>4. IsFiniteSet(1 .. Len(h)) /\ Cardinality(1 .. Len(h)) = Len(h)
  <2>1. \A n \in Nat : IsFiniteSet(1 .. n) /\ Cardinality(1 .. n) = n
    <3>1. \A n \in Nat : IsFiniteSet(1 .. n) /\ Cardinality(1 .. n) = IF 1 > n THEN 0 ELSE n - 1 + 1
      BY FS_Interval
    <3> QED
      BY <3>1
  <2> QED
    BY <1>1, <2>1
<1>5. Pids(h) \subseteq Sleepers
  BY <1>1 DEF Pids, Range, Entry
<1> HIDE DEF f
<1>6. IsFiniteSet(Range(f)) /\ Cardinality(Range(f)) <= Cardinality(1 .. Len(h))
  BY <1>3, <1>4, FS_Surjection
<1> QED
  BY <1>2, <1>4, <1>5, <1>6, FS_CardinalityType

LEMMA SleepInitially == SleepInit => SleepTypes /\ SleepersInHeap /\ OrderInv
<1> SUFFICES ASSUME SleepInit PROVE SleepTypes /\ SleepersInHeap /\ OrderInv
  OBVIOUS
<1>1. NoSleeper \notin Entry /\ NoSleeper.pid = "nobody"
  BY SleepAssumption DEF NoSleeper, Entry
<1>2. SleepTypes
  BY <1>1, SleepAssumption DEF SleepInit, SleepTypes
<1>3. HeapPids = {} /\ Len(slHeap) = 0
  BY EmptyContents DEF HeapPids, SleepInit
<1>4. SleepersInHeap
  BY <1>3, FS_EmptySet DEF SleepersInHeap, SleepInit
<1>5. OrderInv
  <2>1. slHeap = << >> /\ clockAt = "wait"
    BY DEF SleepInit
  <2>2. HeapOrdered(<< >>)
    BY DEF HeapOrdered
  <2> QED
    BY <2>1, <2>2 DEF OrderInv
<1> QED
  BY <1>2, <1>4, <1>5

\* Every step keeps the types.
LEMMA SleepTypesStep == SleepTypes /\ [SleepNext]_sleepVars => SleepTypes'
<1> SUFFICES ASSUME SleepTypes, [SleepNext]_sleepVars PROVE SleepTypes'
  OBVIOUS
<1> USE DEF SleepTypes
<1>1. NoSleeper \notin Entry
  BY SleepAssumption DEF NoSleeper, Entry
<1>2. ASSUME NEW p \in Sleepers, NEW s \in Seconds, kernSleep(p, s) PROVE SleepTypes'
  <2>1. now + s \in 0 .. MaxTime
    BY <1>2, SleepAssumption DEF kernSleep
  <2>2. [pid |-> p, wakeTime |-> now + s] \in Entry
    BY <2>1 DEF Entry
  <2>3. slHeap' \in Seq(Entry)
    BY <1>2, <2>2, AddContents DEF kernSleep
  <2> QED
    BY <1>2, <2>3 DEF kernSleep
<1>3. ASSUME NEW p \in Sleepers, Receives(p) PROVE SleepTypes'
  BY <1>3 DEF Receives
<1>4. ASSUME Tick PROVE SleepTypes'
  <2>1. now' \in 0 .. MaxTime
    BY <1>4, SleepAssumption DEF Tick
  <2> QED
    BY <1>4, <2>1 DEF Tick
<1>5. ASSUME DriverPops PROVE SleepTypes'
  <2>1. slHeap # << >> /\ slHeap[1] \in Entry
    BY <1>5 DEF DriverPops, Due
  <2>2. slHeap' \in Seq(Entry)
    BY <1>5, <2>1, RemoveContents DEF DriverPops
  <2> QED
    BY <1>5, <2>1, <2>2 DEF DriverPops
<1>6. ASSUME DriverSends PROVE SleepTypes'
  BY <1>1, <1>6 DEF DriverSends
<1>7. ASSUME DriverWaits PROVE SleepTypes'
  BY <1>7 DEF DriverWaits
<1>8. CASE UNCHANGED sleepVars
  BY <1>8 DEF sleepVars
<1> QED
  BY <1>2, <1>3, <1>4, <1>5, <1>6, <1>7, <1>8 DEF SleepNext, clockDriver

\* Every step keeps the heap and the sleepers the same.
LEMMA HeapStep ==
    SleepTypes /\ SleepTypes' /\ SleepersInHeap /\ [SleepNext]_sleepVars => SleepersInHeap'
<1> SUFFICES ASSUME SleepTypes, SleepTypes', SleepersInHeap, [SleepNext]_sleepVars
             PROVE  SleepersInHeap'
  OBVIOUS
<1> DEFINE Taken == IF clockAt = "send" THEN {woken.pid} ELSE {}
           Asleep == {p \in Sleepers : sleepAt[p] # "user"}
<1>1. /\ slHeap \in Seq(Entry) /\ HeapPids = Pids(slHeap)
      /\ slHeap' \in Seq(Entry) /\ HeapPids' = Pids(slHeap')
      /\ sleepAt \in [Sleepers -> {"user", "recv", "asleep"}]
  BY DEF SleepTypes, HeapPids, Pids
<1>2. /\ IsFiniteSet(HeapPids) /\ HeapPids \subseteq Sleepers
      /\ IsFiniteSet(HeapPids') /\ HeapPids' \subseteq Sleepers
      /\ Cardinality(HeapPids') \in Nat /\ Cardinality(HeapPids') <= Len(slHeap')
      /\ Len(slHeap) \in Nat
  BY <1>1, PidsBounded
<1>3. /\ Cardinality(HeapPids) = Len(slHeap) /\ woken.pid \notin HeapPids
      /\ Asleep = HeapPids \cup Taken
  BY DEF SleepersInHeap
<1>4. /\ clockAt = "send" => woken \in Entry /\ woken.pid \in Sleepers
      /\ clockAt # "send" => woken = NoSleeper
  BY DEF SleepTypes, Entry
<1>5. NoSleeper.pid \notin Sleepers
  BY SleepAssumption DEF NoSleeper
<1>6. SUFFICES /\ Cardinality(HeapPids') = Len(slHeap') /\ woken'.pid \notin HeapPids'
               /\ Asleep' = HeapPids' \cup Taken'
  BY DEF SleepersInHeap
<1>7. CASE UNCHANGED <<slHeap, woken, sleepAt>> /\ (clockAt' = "send" <=> clockAt = "send")
  BY <1>3, <1>7 DEF HeapPids
<1>8. ASSUME NEW p \in Sleepers, NEW s \in Seconds, kernSleep(p, s)
      PROVE  /\ Cardinality(HeapPids') = Len(slHeap') /\ woken'.pid \notin HeapPids'
             /\ Asleep' = HeapPids' \cup Taken'
  <2> DEFINE e == [pid |-> p, wakeTime |-> now + s]
  <2>1. e \in Entry /\ e.pid = p
    BY <1>8, SleepAssumption DEF kernSleep, Entry, SleepTypes
  <2>2. slHeap' = addHeap(slHeap, e)
    BY <1>8 DEF kernSleep
  <2> HIDE DEF e
  <2>3. Len(slHeap') = Len(slHeap) + 1 /\ Range(slHeap') = Range(slHeap) \cup {e}
    BY <1>1, <2>1, <2>2, AddContents
  <2>4. HeapPids' = HeapPids \cup {p}
    BY <2>1, <2>3 DEF HeapPids
  <2>5. p \notin Asleep /\ Asleep' = Asleep \cup {p}
    BY <1>1, <1>8 DEF kernSleep
  <2>6. p \notin HeapPids /\ p # woken.pid
    BY <1>3, <1>4, <1>5, <2>5
  <2>7. Cardinality(HeapPids') = Cardinality(HeapPids) + 1
    BY <1>2, <2>4, <2>6, FS_AddElement
  <2>8. UNCHANGED <<clockAt, woken>>
    BY <1>8 DEF kernSleep
  <2>9. Taken' = Taken
    BY <2>8
  <2> HIDE DEF Asleep, Taken
  <2> QED
    BY <1>3, <2>3, <2>4, <2>5, <2>6, <2>7, <2>8, <2>9
<1>9. ASSUME NEW p \in Sleepers, Receives(p)
      PROVE  /\ Cardinality(HeapPids') = Len(slHeap') /\ woken'.pid \notin HeapPids'
             /\ Asleep' = HeapPids' \cup Taken'
  <2>1. UNCHANGED <<slHeap, clockAt, woken>>
    BY <1>9 DEF Receives
  <2>2. Asleep' = Asleep
    BY <1>1, <1>9 DEF Receives
  <2>3. HeapPids' = HeapPids /\ Taken' = Taken
    BY <2>1 DEF HeapPids
  <2> HIDE DEF Asleep, Taken
  <2> QED
    BY <1>3, <2>1, <2>2, <2>3
<1>10. ASSUME DriverPops
       PROVE  /\ Cardinality(HeapPids') = Len(slHeap') /\ woken'.pid \notin HeapPids'
              /\ Asleep' = HeapPids' \cup Taken'
  <2>1. slHeap # << >> /\ woken' = slHeap[1] /\ slHeap' = removeHeap(slHeap)
    BY <1>10 DEF DriverPops, Due
  <2>2. Len(slHeap') = Len(slHeap) - 1 /\ Range(slHeap) = Range(slHeap') \cup {woken'}
    BY <1>1, <2>1, RemoveContents
  <2>3. HeapPids = HeapPids' \cup {woken'.pid}
    BY <2>2 DEF HeapPids
  <2>4. /\ Cardinality(HeapPids) = IF woken'.pid \in HeapPids' THEN Cardinality(HeapPids')
                                    ELSE Cardinality(HeapPids') + 1
    BY <1>2, <2>3, FS_AddElement
  <2>5. woken'.pid \notin HeapPids' /\ Cardinality(HeapPids') = Len(slHeap')
    BY <1>2, <1>3, <2>2, <2>4
  <2>6. clockAt = "loop" /\ clockAt' = "send" /\ sleepAt' = sleepAt
    BY <1>10 DEF DriverPops
  <2>7. Asleep' = Asleep /\ Taken' = {woken'.pid} /\ Taken = {}
    BY <2>6
  <2> HIDE DEF Asleep, Taken
  <2> QED
    BY <1>3, <2>3, <2>5, <2>7
<1>11. ASSUME DriverSends
       PROVE  /\ Cardinality(HeapPids') = Len(slHeap') /\ woken'.pid \notin HeapPids'
              /\ Asleep' = HeapPids' \cup Taken'
  <2>1. /\ clockAt = "send" /\ clockAt' = "loop" /\ slHeap' = slHeap /\ woken' = NoSleeper
        /\ sleepAt' = [sleepAt EXCEPT ![woken.pid] = "user"]
    BY <1>11 DEF DriverSends
  <2>2. woken.pid \in Sleepers
    BY <1>4, <2>1
  <2>3. Asleep' = Asleep \ {woken.pid}
    BY <1>1, <2>1, <2>2
  <2>4. HeapPids' = HeapPids /\ Taken = {woken.pid} /\ Taken' = {}
    BY <2>1 DEF HeapPids
  <2>5. woken'.pid \notin HeapPids'
    BY <1>2, <1>5, <2>1, <2>4
  <2> HIDE DEF Asleep, Taken
  <2> QED
    BY <1>3, <2>1, <2>3, <2>4, <2>5
<1>12. CASE Tick
  BY <1>7, <1>12 DEF Tick
<1>13. CASE DriverWaits
  BY <1>7, <1>13 DEF DriverWaits
<1>14. CASE UNCHANGED sleepVars
  BY <1>7, <1>14 DEF sleepVars
<1> HIDE DEF Asleep, Taken
<1> QED
  BY <1>8, <1>9, <1>10, <1>11, <1>12, <1>13, <1>14 DEF SleepNext, clockDriver

\* Every step keeps the heap ordered, and the driver takes only whose time has come.
LEMMA OrderStep ==
    ASSUME MaxTime < IntRange
    PROVE  SleepTypes /\ OrderInv /\ [SleepNext]_sleepVars => OrderInv'
<1> SUFFICES ASSUME SleepTypes, OrderInv, [SleepNext]_sleepVars PROVE OrderInv'
  OBVIOUS
<1>1. /\ slHeap \in Seq(Entry) /\ HeapOrdered(slHeap) /\ now \in 0 .. MaxTime
      /\ clockAt = "send" => woken \in Entry /\ woken.wakeTime <= now
  BY DEF SleepTypes, OrderInv
<1>2. SUFFICES /\ HeapOrdered(slHeap')
               /\ clockAt' = "send" => woken'.wakeTime <= now'
  BY DEF OrderInv, HeapOrdered
<1>3. ASSUME NEW p \in Sleepers, NEW s \in Seconds, kernSleep(p, s)
      PROVE  HeapOrdered(slHeap') /\ UNCHANGED <<now, clockAt, woken>>
  <2>1. now + s \in 0 .. MaxTime
    BY <1>1, <1>3, SleepAssumption DEF kernSleep
  <2>2. [pid |-> p, wakeTime |-> now + s] \in Entry
    BY <2>1 DEF Entry
  <2> QED
    BY <1>1, <1>3, <2>2, AddOrdered DEF kernSleep
<1>4. ASSUME Tick PROVE UNCHANGED <<slHeap, woken>> /\ (clockAt' = "send" => clockAt = "send") /\ now <= now'
  BY <1>1, <1>4, SleepAssumption DEF Tick
<1>5. ASSUME DriverPops PROVE HeapOrdered(slHeap') /\ woken'.wakeTime <= now'
  <2>1. /\ slHeap # << >> /\ woken' = slHeap[1] /\ slHeap' = removeHeap(slHeap)
        /\ wakeTime(slHeap[1]) <= now /\ now' = now
    BY <1>5 DEF DriverPops, Due
  <2>2. slHeap[1] \in Entry
    BY <1>1, <2>1
  <2>3. wakeTime(slHeap[1]) = slHeap[1].wakeTime
    BY <2>2, NoOverflow
  <2>4. HeapOrdered(slHeap')
    BY <1>1, <2>1, RemoveOrdered
  <2> QED
    BY <2>1, <2>3, <2>4
<1>6. ASSUME DriverSends \/ DriverWaits \/ UNCHANGED sleepVars
      PROVE  slHeap' = slHeap /\ (clockAt' = "send" => UNCHANGED <<clockAt, woken, now>>)
  BY <1>6 DEF DriverSends, DriverWaits, sleepVars
<1>7. ASSUME NEW p \in Sleepers, Receives(p) PROVE UNCHANGED <<slHeap, clockAt, woken, now>>
  BY <1>7 DEF Receives
<1>8. CASE Tick
  <2>1. clockAt = "send" => woken.wakeTime \in 0 .. MaxTime
    BY <1>1 DEF Entry
  <2>2. now' \in 0 .. MaxTime
    BY <1>1, <1>8, SleepAssumption DEF Tick
  <2> QED
    BY <1>1, <1>4, <1>8, <2>1, <2>2, SleepAssumption
<1> QED
  BY <1>1, <1>3, <1>5, <1>6, <1>7, <1>8 DEF SleepNext, clockDriver

-----------------------------------------------------------------------------
(* The theorems.                                                           *)

\* Who sleeps is in the heap once, or is about to be woken, and nobody else is
\* (kernSleep, addHeap, removeHeap and clockDriver, phase4.c:227-239, 550-563,
\* 836-887), even if the times overflow.
THEOREM SleepersInHeapCorrect == SleepSpec => [](SleepTypes /\ SleepersInHeap)
<1>1. SleepTypes /\ SleepersInHeap /\ [SleepNext]_sleepVars => (SleepTypes /\ SleepersInHeap)'
  BY SleepTypesStep, HeapStep
<1> QED
  BY <1>1, SleepInitially, PTL DEF SleepSpec

\* As long as the times do not overflow, the heap stays ordered, and whom the clock
\* driver has taken it may wake.
THEOREM HeapStaysOrdered == ASSUME MaxTime < IntRange PROVE SleepSpec => []OrderInv
<1>1. SleepTypes /\ OrderInv /\ [SleepNext]_sleepVars => (SleepTypes /\ OrderInv)'
  BY SleepTypesStep, OrderStep
<1> QED
  BY <1>1, SleepInitially, PTL DEF SleepSpec

\* As long as the times do not overflow, sleepers are woken in the order of their
\* times: the top of the heap is the earliest (peekHeap, removeHeap, phase4.c:557-558).
THEOREM WokenInOrderCorrect == ASSUME MaxTime < IntRange PROVE SleepSpec => WokenInOrder
<1> DEFINE Step == clockAt' = "send" /\ clockAt = "loop" =>
                     \A entry \in Range(slHeap) : woken'.wakeTime <= entry.wakeTime
<1>1. ASSUME SleepTypes, OrderInv, [SleepNext]_sleepVars PROVE [Step]_sleepVars
  <2>1. SUFFICES ASSUME clockAt' = "send", clockAt = "loop", NEW x \in Range(slHeap)
                 PROVE  woken'.wakeTime <= x.wakeTime
    OBVIOUS
  <2>2. DriverPops
    BY <1>1, <2>1 DEF SleepNext, clockDriver, kernSleep, Receives, Tick, DriverSends,
       DriverWaits, sleepVars
  <2>3. slHeap # << >> /\ woken' = slHeap[1]
    BY <2>2 DEF DriverPops, Due
  <2>4. slHeap \in Seq(Entry) /\ HeapOrdered(slHeap)
    BY <1>1 DEF SleepTypes, OrderInv
  <2>5. wakeTime(slHeap[1]) <= wakeTime(x)
    BY <2>4, TopIsEarliest
  <2>6. slHeap[1] \in Entry /\ x \in Entry
    BY <2>3, <2>4 DEF Range
  <2>7. wakeTime(slHeap[1]) = slHeap[1].wakeTime /\ wakeTime(x) = x.wakeTime
    BY <2>6, NoOverflow
  <2> QED
    BY <2>3, <2>5, <2>7
<1>2. SleepSpec => []SleepTypes
  BY SleepersInHeapCorrect, PTL
<1>3. SleepSpec => []OrderInv
  BY HeapStaysOrdered
<1> QED
  BY <1>1, <1>2, <1>3, PTL DEF SleepSpec, WokenInOrder

\* As long as the times do not overflow, nobody is woken before the time that was asked
\* for (clockDriver, phase4.c:557-559).
THEOREM NotWokenEarlyCorrect == ASSUME MaxTime < IntRange PROVE SleepSpec => NotWokenEarly
<1> DEFINE Step == \A p \in Sleepers :
                     sleepAt[p] = "asleep" /\ sleepAt'[p] = "user" => woken.wakeTime <= now
<1>1. ASSUME SleepTypes, OrderInv, [SleepNext]_sleepVars PROVE [Step]_sleepVars
  <2>1. SUFFICES ASSUME NEW p \in Sleepers, sleepAt[p] = "asleep", sleepAt'[p] = "user"
                 PROVE  woken.wakeTime <= now
    OBVIOUS
  <2>2. sleepAt \in [Sleepers -> {"user", "recv", "asleep"}]
    BY <1>1 DEF SleepTypes
  <2>3. DriverSends
    BY <1>1, <2>1, <2>2 DEF SleepNext, clockDriver, kernSleep, Receives, Tick, DriverPops,
       DriverWaits, sleepVars
  <2> QED
    BY <1>1, <2>3 DEF DriverSends, OrderInv
<1>2. SleepSpec => []SleepTypes
  BY SleepersInHeapCorrect, PTL
<1>3. SleepSpec => []OrderInv
  BY HeapStaysOrdered
<1> QED
  BY <1>1, <1>2, <1>3, PTL DEF SleepSpec, NotWokenEarly
=============================================================================
