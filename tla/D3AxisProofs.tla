----------------------------- MODULE D3AxisProofs -----------------------------
(***************************************************************************)
(* Proofs about the timers, transitions and axes of the chart library, for *)
(* all of the constants, and what the proofs about its other parts share   *)
(* with them.                                                              *)
(***************************************************************************)
EXTENDS D3Axis, WellFoundedInduction, FiniteSetTheorems, SequenceTheorems, TLAPS

LEMMA LeastOf == ASSUME NEW T, T \subseteq Nat, T # {} PROVE \E m \in T : \A n \in T : m <= n
<1>1. \E m \in T : \A n \in T : ~(<<n, m>> \in OpToRel(<, Nat))
  BY WFMin, NatLessThanWellFounded
<1>2. PICK m \in T : \A n \in T : ~(<<n, m>> \in OpToRel(<, Nat))
  BY <1>1
<1>3. \A n \in T : ~(n < m)
  BY <1>2 DEF OpToRel
<1> QED
  BY <1>3

(***************************************************************************)
(* A function that is given by its value at 0 and by a step exists.        *)
(***************************************************************************)
RunsTo(n, g, base, next) ==
    g[0] = base /\ \A i \in 1 .. n : g[i] = next[<<i, g[i - 1]>>]

LEMMA RecursionExists ==
    ASSUME NEW n \in Nat, NEW X, NEW base \in X, NEW next \in [(1 .. n) \X X -> X]
    PROVE  \E g \in [0 .. n -> X] : RunsTo(n, g, base, next)
<1> DEFINE T == {m \in 0 .. n : ~\E g \in [0 .. m -> X] : RunsTo(m, g, base, next)}
<1>1. ASSUME T # {} PROVE FALSE
  <2>1. PICK m \in T : \A k \in T : m <= k
    <3>1. T \subseteq Nat
      OBVIOUS
    <3> HIDE DEF T
    <3> QED
      BY <1>1, <3>1, LeastOf
  <2>2. CASE m = 0
    <3>1. [i \in 0 .. 0 |-> base] \in [0 .. 0 -> X] /\ RunsTo(0, [i \in 0 .. 0 |-> base], base, next)
      BY DEF RunsTo
    <3> QED
      BY <2>1, <2>2, <3>1
  <2>3. CASE m # 0
    <3>1. m - 1 \in 0 .. n /\ m - 1 \notin T /\ m \in 1 .. n
      BY <2>1, <2>3
    <3>2. PICK g \in [0 .. m - 1 -> X] : RunsTo(m - 1, g, base, next)
      BY <3>1
    <3> DEFINE y == next[<<m, g[m - 1]>>]
               h == [i \in 0 .. m |-> IF i = m THEN y ELSE g[i]]
    <3>3. m - 1 \in 0 .. m - 1 /\ g[m - 1] \in X /\ <<m, g[m - 1]>> \in (1 .. n) \X X
      BY <3>1
    <3>4. y \in X
      BY <3>3
    <3> HIDE DEF y
    <3>5. h \in [0 .. m -> X]
      BY <3>1, <3>4
    <3>6. h[0] = base
      BY <3>1, <3>2 DEF RunsTo
    <3>7. ASSUME NEW i \in 1 .. m PROVE h[i] = next[<<i, h[i - 1]>>]
      <4>1. CASE i = m
        <5>1. h[i] = y /\ h[i - 1] = g[m - 1]
          BY <3>1, <4>1
        <5> QED
          BY <4>1, <5>1 DEF y
      <4>2. CASE i # m
        <5>1. i \in 1 .. m - 1 /\ i - 1 \in 0 .. m - 1 /\ i - 1 # m
          BY <3>1, <4>2
        <5>2. h[i] = g[i] /\ h[i - 1] = g[i - 1]
          BY <3>1, <4>2, <5>1
        <5> QED
          BY <3>2, <5>1, <5>2 DEF RunsTo
      <4> QED
        BY <4>1, <4>2
    <3> HIDE DEF h
    <3>8. RunsTo(m, h, base, next)
      BY <3>6, <3>7 DEF RunsTo
    <3> QED
      BY <2>1, <3>5, <3>8
  <2> QED
    BY <2>2, <2>3
<1> QED
  BY <1>1

Distinct(s) == \A i, j \in DOMAIN s : s[i] = s[j] => i = j

-----------------------------------------------------------------------------
(***************************************************************************)
(* Timers.  Whatever a selection, a join or a step makes of sequences are  *)
(* sequences.                                                              *)
(***************************************************************************)
IsList(q) == \E E : q \in Seq(E)

LEMMA ListHas ==
    ASSUME NEW q, IsList(q)
    PROVE  /\ Len(q) \in Nat /\ DOMAIN q = 1 .. Len(q) /\ q \in Seq(ToSet(q))
           /\ ToSet(q) = {q[i] : i \in 1 .. Len(q)}
<1>1. PICK E : q \in Seq(E)
  BY DEF IsList
<1>2. Len(q) \in Nat /\ DOMAIN q = 1 .. Len(q) /\ q = [i \in 1 .. Len(q) |-> q[i]]
  BY <1>1
<1>3. ToSet(q) = {q[i] : i \in 1 .. Len(q)}
  BY <1>2 DEF ToSet
<1> DEFINE n == Len(q)
           S == ToSet(q)
<1>4. q \in [1 .. n -> S] /\ n \in Nat
  BY <1>2, <1>3
<1> HIDE DEF n, S
<1>5. q \in Seq(S)
  BY <1>4
<1> QED
  BY <1>2, <1>3, <1>5 DEF S

LEMMA ListOf ==
    ASSUME NEW n \in Nat, NEW q, q = [i \in 1 .. n |-> q[i]]
    PROVE  IsList(q) /\ Len(q) = n
<1> DEFINE S == {q[i] : i \in 1 .. n}
<1>1. q \in [1 .. n -> S]
  OBVIOUS
<1> HIDE DEF S
<1>2. q \in Seq(S) /\ Len(q) = n
  BY <1>1
<1> QED
  BY <1>2 DEF IsList

LEMMA AppendedList ==
    ASSUME NEW q, IsList(q), NEW e
    PROVE  /\ IsList(Append(q, e)) /\ Len(Append(q, e)) = Len(q) + 1
           /\ ToSet(Append(q, e)) = ToSet(q) \cup {e}
<1>1. PICK E : q \in Seq(E)
  BY DEF IsList
<1> DEFINE more == Append(q, e)
<1>2. /\ more \in Seq(E \cup {e}) /\ Len(more) = Len(q) + 1 /\ Len(q) \in Nat
      /\ more[Len(q) + 1] = e /\ \A i \in 1 .. Len(q) : more[i] = q[i]
  BY <1>1
<1> HIDE DEF more
<1>3. IsList(more)
  BY <1>2 DEF IsList
<1>4. /\ ToSet(more) = {more[i] : i \in 1 .. Len(q) + 1}
      /\ ToSet(q) = {q[i] : i \in 1 .. Len(q)}
  BY <1>2, <1>3, ListHas
<1>5. \A i \in 1 .. Len(q) + 1 : i \in 1 .. Len(q) \/ i = Len(q) + 1
  BY <1>2
<1>6. \A i \in 1 .. Len(q) : i \in 1 .. Len(q) + 1
  BY <1>2
<1>7. Len(q) + 1 \in 1 .. Len(q) + 1
  BY <1>2
<1>8. ToSet(more) = ToSet(q) \cup {e}
  BY <1>2, <1>4, <1>5, <1>6, <1>7
<1> QED
  BY <1>2, <1>3, <1>8 DEF more

LEMMA JoinedLists ==
    ASSUME NEW p, NEW q, IsList(p), IsList(q)
    PROVE  /\ IsList(p \o q) /\ Len(p \o q) = Len(p) + Len(q)
           /\ \A i \in 1 .. Len(p) : (p \o q)[i] = p[i]
           /\ \A i \in 1 .. Len(q) : (p \o q)[Len(p) + i] = q[i]
           /\ ToSet(p \o q) \subseteq ToSet(p) \cup ToSet(q)
<1> DEFINE E == ToSet(p) \cup ToSet(q)
<1>1. p \in Seq(ToSet(p)) /\ q \in Seq(ToSet(q)) /\ Len(p) \in Nat /\ Len(q) \in Nat
  BY ListHas
<1>2. p \in Seq(E) /\ q \in Seq(E)
  <2> DEFINE P == ToSet(p)
             Q == ToSet(q)
  <2> HIDE DEF P, Q
  <2>1. p \in Seq(P) /\ q \in Seq(Q) => p \in Seq(P \cup Q) /\ q \in Seq(P \cup Q)
    OBVIOUS
  <2> QED
    BY <1>1, <2>1 DEF P, Q
<1> HIDE DEF E
<1>3. p \o q \in Seq(E) /\ Len(p \o q) = Len(p) + Len(q)
  BY <1>2
<1>4. \A i \in 1 .. Len(p) : (p \o q)[i] = p[i]
  BY <1>2
<1>5. ASSUME NEW i \in 1 .. Len(q) PROVE (p \o q)[Len(p) + i] = q[i]
  <2> DEFINE k == Len(p) + i
  <2>1. k \in Len(p) + 1 .. Len(p) + Len(q) /\ k - Len(p) = i
    BY <1>1
  <2> HIDE DEF k
  <2>2. (p \o q)[k] = q[k - Len(p)]
    BY <1>2, <2>1
  <2> QED
    BY <2>1, <2>2 DEF k
<1>6. IsList(p \o q)
  BY <1>3 DEF IsList
<1>7. ToSet(p \o q) \subseteq E
  <2> DEFINE both == p \o q
  <2>1. both \in Seq(E) /\ ToSet(both) = {both[i] : i \in 1 .. Len(both)}
    BY <1>3, <1>6, ListHas
  <2> HIDE DEF both
  <2>2. ToSet(both) \subseteq E
    BY <2>1
  <2> QED
    BY <2>2 DEF both
<1> QED
  BY <1>3, <1>4, <1>5, <1>6, <1>7 DEF E

LEMMA PartOfList ==
    ASSUME NEW q, IsList(q), NEW k \in 0 .. Len(q)
    PROVE  /\ IsList(SubSeq(q, 1, k)) /\ Len(SubSeq(q, 1, k)) = k
           /\ \A i \in 1 .. k : SubSeq(q, 1, k)[i] = q[i]
           /\ ToSet(SubSeq(q, 1, k)) = {q[i] : i \in 1 .. k}
<1>1. PICK E : q \in Seq(E)
  BY DEF IsList
<1> DEFINE part == SubSeq(q, 1, k)
<1>2. part \in Seq(E) /\ Len(part) = k /\ \A i \in 1 .. k : part[i] = q[i]
  BY <1>1
<1> HIDE DEF part
<1>3. IsList(part)
  BY <1>2 DEF IsList
<1>4. ToSet(part) = {part[i] : i \in 1 .. k}
  BY <1>2, <1>3, ListHas
<1> QED
  BY <1>2, <1>3, <1>4 DEF part

\* The recursion over the elements of a sequence.
LEMMA AmongRuns ==
    ASSUME NEW q, IsList(q), NEW S
    PROVE  \E upTo : /\ upTo[0] = <<>> /\ Among(q, S) = upTo[Len(q)]
                     /\ \A i \in 1 .. Len(q) :
                           upTo[i] = IF q[i] \in S THEN Append(upTo[i - 1], q[i]) ELSE upTo[i - 1]
<1> DEFINE N == Len(q)
           New(before, e) == IF e \in S THEN Append(before, e) ELSE before
           IsUpTo(f) == f = [i \in 0 .. N |-> IF i = 0 THEN <<>> ELSE New(f[i - 1], q[i])]
           upTo == CHOOSE f : IsUpTo(f)
           L == Seq(ToSet(q))
           next == [r \in (1 .. N) \X L |-> New(r[2], q[r[1]])]
<1>1. N \in Nat /\ \A i \in 1 .. N : q[i] \in ToSet(q)
  BY ListHas
<1>2. <<>> \in L
  OBVIOUS
<1>3. \A d \in L, i \in 1 .. N : New(d, q[i]) \in L
  <2> DEFINE E == ToSet(q)
  <2> HIDE DEF E, N
  <2>1. \A i \in 1 .. N : q[i] \in E
    BY <1>1 DEF E
  <2>2. \A d \in Seq(E), i \in 1 .. N : New(d, q[i]) \in Seq(E)
    BY <2>1
  <2> QED
    BY <2>2 DEF E
<1>4. Among(q, S) = upTo[N]
  BY DEF Among
<1> HIDE DEF New, N, L
<1>5. next \in [(1 .. N) \X L -> L]
  BY <1>3
<1>6. \A i \in 1 .. N, d \in L : next[<<i, d>>] = New(d, q[i])
  OBVIOUS
<1> HIDE DEF next
<1>7. PICK g \in [0 .. N -> L] : RunsTo(N, g, <<>>, next)
  BY <1>1, <1>2, <1>5, RecursionExists
<1>8. IsUpTo(g)
  <2>1. \A i \in 0 .. N : g[i] = IF i = 0 THEN <<>> ELSE New(g[i - 1], q[i])
    <3> SUFFICES ASSUME NEW i \in 0 .. N, i # 0 PROVE g[i] = New(g[i - 1], q[i])
      BY <1>7 DEF RunsTo
    <3>1. i \in 1 .. N /\ i - 1 \in 0 .. N /\ g[i - 1] \in L
      BY <1>1
    <3> QED
      BY <1>6, <1>7, <3>1 DEF RunsTo
  <2>2. g = [i \in 0 .. N |-> g[i]]
    OBVIOUS
  <2>3. [i \in 0 .. N |-> g[i]] = [i \in 0 .. N |-> IF i = 0 THEN <<>> ELSE New(g[i - 1], q[i])]
    BY <2>1
  <2> QED
    BY <2>2, <2>3
<1>9. IsUpTo(upTo)
  <2> HIDE DEF IsUpTo
  <2> QED
    BY <1>8
<1> HIDE DEF upTo
<1>10. upTo[0] = <<>> /\ \A i \in 1 .. N : upTo[i] = New(upTo[i - 1], q[i])
  BY <1>1, <1>9
<1> QED
  BY <1>4, <1>10 DEF New, N

\* The elements of S are in q once.
DistinctIn(q, S) == \A i, k \in DOMAIN q : q[i] \in S /\ q[i] = q[k] => i = k

LEMMA AmongHas ==
    ASSUME NEW q, IsList(q), NEW S
    PROVE  /\ IsList(Among(q, S)) /\ ToSet(Among(q, S)) = ToSet(q) \cap S
           /\ DistinctIn(q, S) => Distinct(Among(q, S))
<1> DEFINE N == Len(q)
           Part(i) == {q[j] : j \in 1 .. i} \cap S
           Ok(i, d) == IsList(d) /\ ToSet(d) = Part(i) /\ (DistinctIn(q, S) => Distinct(d))
<1>1. N \in Nat /\ ToSet(q) = {q[i] : i \in 1 .. N} /\ DOMAIN q = 1 .. N
  BY ListHas
<1>2. PICK f : /\ f[0] = <<>> /\ Among(q, S) = f[N]
               /\ \A i \in 1 .. N : f[i] = IF q[i] \in S THEN Append(f[i - 1], q[i]) ELSE f[i - 1]
  BY AmongRuns
<1>3. Ok(0, f[0])
  <2>1. IsList(<<>>)
    <3>1. <<>> \in Seq({})
      OBVIOUS
    <3> QED
      BY <3>1 DEF IsList
  <2> QED
    BY <1>2, <2>1 DEF Distinct, ToSet
<1>4. ASSUME NEW i \in 1 .. N, Ok(i - 1, f[i - 1]) PROVE Ok(i, f[i])
  <2> DEFINE d == f[i - 1]
  <2>1. IsList(d) /\ ToSet(d) = Part(i - 1) /\ (DistinctIn(q, S) => Distinct(d))
    BY <1>4
  <2>2. \A j \in 1 .. i : j \in 1 .. i - 1 \/ j = i
    BY <1>1
  <2>3. \A j \in 1 .. i - 1 : j \in 1 .. i /\ j # i /\ j \in 1 .. N
    BY <1>1
  <2>4. CASE q[i] \notin S
    <3>1. Part(i) = Part(i - 1)
      BY <2>2, <2>3, <2>4
    <3> QED
      BY <1>2, <2>1, <2>4, <3>1
  <2>5. CASE q[i] \in S
    <3> DEFINE more == Append(d, q[i])
    <3>1. f[i] = more
      BY <1>2, <2>5
    <3> HIDE DEF d
    <3>2. IsList(more) /\ Len(more) = Len(d) + 1 /\ ToSet(more) = ToSet(d) \cup {q[i]}
      BY <2>1, AppendedList
    <3>3. Part(i) = Part(i - 1) \cup {q[i]}
      <4>1. i \in 1 .. i
        BY <1>1
      <4> QED
        BY <2>2, <2>3, <2>5, <4>1
    <3>4. ASSUME DistinctIn(q, S) PROVE Distinct(more)
      <4>1. Distinct(d) /\ q[i] \notin ToSet(d)
        BY <1>1, <2>1, <2>3, <2>5, <3>4 DEF DistinctIn
      <4>2. PICK E : d \in Seq(E)
        BY <2>1 DEF IsList
      <4>3. /\ Len(d) \in Nat /\ more[Len(d) + 1] = q[i] /\ \A k \in 1 .. Len(d) : more[k] = d[k]
        BY <4>2
      <4> HIDE DEF more
      <4>4. DOMAIN more = 1 .. Len(d) + 1
        BY <3>2, ListHas
      <4>5. DOMAIN d = 1 .. Len(d) /\ ToSet(d) = {d[k] : k \in 1 .. Len(d)}
        BY <2>1, ListHas
      <4> QED
        BY <4>1, <4>3, <4>4, <4>5 DEF Distinct
    <3> HIDE DEF more
    <3> QED
      BY <2>1, <3>1, <3>2, <3>3, <3>4
  <2> QED
    BY <2>4, <2>5
<1> DEFINE T == {i \in 0 .. N : ~Ok(i, f[i])}
<1> HIDE DEF Ok
<1>5. ASSUME T # {} PROVE FALSE
  <2>1. PICK m \in T : \A k \in T : m <= k
    <3>1. T \subseteq Nat
      OBVIOUS
    <3> HIDE DEF T
    <3> QED
      BY <1>5, <3>1, LeastOf
  <2>2. m # 0
    BY <1>3, <2>1
  <2>3. m - 1 \in 0 .. N /\ m \in 1 .. N /\ m - 1 \notin T
    BY <1>1, <2>1, <2>2
  <2> QED
    BY <1>4, <2>1, <2>3
<1>6. N \in 0 .. N /\ N \notin T
  BY <1>1, <1>5
<1>7. Ok(N, f[N])
  BY <1>6
<1> QED
  BY <1>1, <1>2, <1>7 DEF Ok

LEMMA AmongIsList == ASSUME NEW q, IsList(q), NEW S PROVE IsList(Among(q, S))
  BY AmongHas

(***************************************************************************)
(* A step of the timers, as far as the timers go: what happens to nodes    *)
(* and their locks leaves the rest of the state alone.                     *)
(***************************************************************************)
StepFields == {"queue", "interval", "frames", "timeout", "nodes", "dom", "late", "kept", "since"}

IsState(s) ==
    /\ DOMAIN s = StepFields /\ s.frames \in Nat
    /\ IsList(s.queue) /\ IsList(s.kept) /\ IsList(s.dom)

\* s and t differ in nodes, or in the document, at most.
Same(s, t) ==
    /\ IsState(t) /\ t.queue = s.queue /\ t.kept = s.kept
    /\ t.interval = s.interval /\ t.frames = s.frames /\ t.timeout = s.timeout /\ t.since = s.since

LEMMA SameAgain == ASSUME NEW s, NEW t, NEW u, Same(s, t), Same(t, u) PROVE Same(s, u)
  BY DEF Same

LEMMA StopIsSame == ASSUME NEW s, IsState(s), NEW n PROVE Same(s, StopTransition(s, n))
<1> DEFINE t == StopTransition(s, n)
<1>1. \E lock : t = [s EXCEPT !.nodes[n].lock = lock]
  BY DEF StopTransition
<1> HIDE DEF t
<1>2. Same(s, t)
  BY <1>1 DEF Same, IsState, StepFields
<1> QED
  BY <1>2 DEF t

LEMMA EndIsSame == ASSUME NEW s, IsState(s), NEW n, NEW e PROVE Same(s, End(s, n, e))
<1> DEFINE less == Without(s.dom, {n})
<1>1. IsList(less)
  BY AmongIsList DEF Without, IsState
<1> HIDE DEF less
<1>2. Same(s, s) /\ Same(s, [s EXCEPT !.dom = less])
  BY <1>1 DEF Same, IsState, StepFields
<1>3. End(s, n, e) \in {s, [s EXCEPT !.dom = less]}
  BY DEF End, less
<1> QED
  BY <1>2, <1>3

LEMMA ShownIsSame == ASSUME NEW s, IsState(s), NEW e, NEW look PROVE Same(s, Shown(s, e, look))
<1>1. Same(s, s) /\ Same(s, [s EXCEPT !.nodes[e.node].look = look])
  BY DEF Same, IsState, StepFields
<1>2. Shown(s, e, look) \in {s, [s EXCEPT !.nodes[e.node].look = look]}
  BY DEF Shown
<1> QED
  BY <1>1, <1>2

\* A tick stops, or goes on when it is not over.
LEMMA TickIs ==
    ASSUME NEW s, IsState(s), NEW e, NEW time
    PROVE  \/ Same(s, Tick(s, e, time))
           \/ ~IsOver(e, time) /\ Same([s EXCEPT !.kept = Append(@, e)], Tick(s, e, time))
<1> DEFINE n == e.node
           done == Shown(s, e, e.target)
           between == Shown(s, e, Between)
<1>1. Same(s, StopTransition(s, n))
  BY StopIsSame
<1>2. Same(s, End(StopTransition(done, n), n, e))
  <2>1. Same(s, done) /\ IsState(done)
    BY ShownIsSame DEF Same
  <2> HIDE DEF done, n
  <2>2. Same(done, StopTransition(done, n)) /\ IsState(StopTransition(done, n))
    BY <2>1, StopIsSame DEF Same
  <2> DEFINE stopped == StopTransition(done, n)
  <2>3. Same(s, stopped) /\ IsState(stopped)
    BY <2>1, <2>2, SameAgain
  <2> HIDE DEF stopped
  <2>4. Same(stopped, End(stopped, n, e))
    BY <2>3, EndIsSame
  <2> QED
    BY <2>3, <2>4, SameAgain DEF stopped
<1>3. Same([s EXCEPT !.kept = Append(@, e)], [between EXCEPT !.kept = Append(@, e)])
  <2>1. Same(s, between)
    BY ShownIsSame
  <2> HIDE DEF between
  <2> DEFINE more == Append(s.kept, e)
  <2>2. IsList(more) /\ between.kept = s.kept
    BY <2>1, AppendedList DEF IsState, Same
  <2> HIDE DEF more
  <2>3. Same([s EXCEPT !.kept = more], [between EXCEPT !.kept = more])
    BY <2>1, <2>2 DEF Same, IsState, StepFields
  <2>4. /\ [s EXCEPT !.kept = Append(@, e)] = [s EXCEPT !.kept = more]
        /\ [between EXCEPT !.kept = Append(@, e)] = [between EXCEPT !.kept = more]
    BY <2>2 DEF more
  <2> QED
    BY <2>3, <2>4
<1>4. Tick(s, e, time) = IF s.nodes[n].lock.active # e.id THEN StopTransition(s, n)
                         ELSE IF IsOver(e, time) THEN End(StopTransition(done, n), n, e)
                         ELSE [between EXCEPT !.kept = Append(@, e)]
  BY DEF Tick
<1> HIDE DEF done, between, n
<1> QED
  BY <1>1, <1>2, <1>3, <1>4

(***************************************************************************)
(* Timers that are added by a step of that time are not over.              *)
(***************************************************************************)
TimerFields == {"fn", "id", "group", "node", "then", "delay", "wait", "duration", "target", "removes", "tweened"}

IsTimer(e) ==
    /\ DOMAIN e = TimerFields /\ e.fn \in {"begin", "start", "tick"} /\ IsList(e.group)
    /\ e.then \in Nat /\ e.delay \in Nat /\ e.wait \in Nat /\ e.duration \in Nat \ {0}
    /\ e.delay <= e.wait

Fresh(e, time) == IsTimer(e) /\ time < e.then + e.wait + e.duration

\* From s to t timers were added in front of the queue, and a frame was asked for.
Grown(s, t, time) ==
    LET m == Len(s.queue)
        n == Len(t.queue)
    IN  /\ m <= n /\ (\A i \in 1 .. n - m : Fresh(t.queue[i], time))
        /\ \A i \in 1 .. m : t.queue[n - m + i] = s.queue[i]
        /\ t.since = s.since /\ t.timeout \in {s.timeout, None}
        /\ t.frames \in Nat /\ s.frames <= t.frames /\ t.interval \in {0, 1}
        /\ (s.interval = 1 => s.frames > 0) => (t.interval = 1 => t.frames > 0)
        /\ n = m => t.frames = s.frames /\ t.interval = s.interval /\ t.timeout = s.timeout
        /\ n > m => t.interval = 1

LEMMA GrownSame ==
    ASSUME NEW s, NEW t, NEW u, NEW time, Grown(s, t, time), Same(t, u)
    PROVE  Grown(s, u, time)
  BY DEF Grown, Same

LEMMA GrownTimer ==
    ASSUME NEW s, NEW t, NEW time, IsState(s), IsState(t), Grown(s, t, time), NEW e, Fresh(e, time)
    PROVE  /\ IsState(Timer(t, e)) /\ Grown(s, Timer(t, e), time) /\ Timer(t, e).kept = t.kept
           /\ Timer(t, e).dom = t.dom
<1> DEFINE more == <<e>> \o t.queue
           m == Len(s.queue)
           n == Len(t.queue)
           added == [t EXCEPT !.queue = more]
           asked == [added EXCEPT !.timeout = None, !.interval = 1, !.frames = @ + 1]
<1>1. /\ m \in Nat /\ n \in Nat /\ IsList(more) /\ Len(more) = 1 + n /\ more[1] = e
      /\ \A i \in 1 .. n : more[1 + i] = t.queue[i]
  <2>1. IsList(<<e>>) /\ Len(<<e>>) = 1 /\ <<e>>[1] = e
    <3>1. <<e>> \in Seq({e})
      OBVIOUS
    <3> QED
      BY <3>1 DEF IsList
  <2>2. IsList(t.queue) /\ m \in Nat /\ n \in Nat
    BY ListHas DEF IsState
  <2> DEFINE one == <<e>>
  <2> HIDE DEF one
  <2>3. /\ IsList(one \o t.queue) /\ Len(one \o t.queue) = Len(one) + Len(t.queue)
        /\ \A i \in 1 .. Len(one) : (one \o t.queue)[i] = one[i]
        /\ \A i \in 1 .. Len(t.queue) : (one \o t.queue)[Len(one) + i] = t.queue[i]
    BY <2>1, <2>2, JoinedLists DEF one
  <2> QED
    BY <2>1, <2>2, <2>3 DEF one
<1> HIDE DEF more
<1>2. /\ added.queue = more /\ added.kept = t.kept /\ added.dom = t.dom /\ added.since = t.since
      /\ added.timeout = t.timeout /\ added.frames = t.frames /\ added.interval = t.interval
      /\ DOMAIN added = StepFields
  BY DEF IsState, StepFields
<1> HIDE DEF added
<1>3. /\ asked.queue = more /\ asked.kept = t.kept /\ asked.dom = t.dom /\ asked.since = t.since
      /\ asked.timeout = None /\ asked.frames = t.frames + 1 /\ asked.interval = 1
      /\ DOMAIN asked = StepFields
  BY <1>2 DEF StepFields
<1> HIDE DEF asked
<1>4. Timer(t, e) = IF t.interval = 1 THEN added ELSE asked
  BY <1>2 DEF Timer, added, asked, more
<1>5. /\ m <= n + 1 /\ (\A i \in 1 .. (n + 1) - m : Fresh(more[i], time))
      /\ \A i \in 1 .. m : more[(n + 1) - m + i] = s.queue[i]
  <2>1. m <= n /\ (\A i \in 1 .. n - m : Fresh(t.queue[i], time)) /\ \A i \in 1 .. m : t.queue[n - m + i] = s.queue[i]
    BY DEF Grown
  <2> HIDE DEF m, n
  <2>2. ASSUME NEW i \in 1 .. (n + 1) - m PROVE Fresh(more[i], time)
    <3>1. CASE i = 1
      BY <1>1, <3>1
    <3>2. CASE i # 1
      <4> DEFINE j == i - 1
      <4>1. j \in 1 .. n - m /\ j \in 1 .. n /\ i = 1 + j
        BY <1>1, <3>2
      <4> HIDE DEF j
      <4> QED
        BY <1>1, <2>1, <4>1
    <3> QED
      BY <3>1, <3>2
  <2>3. ASSUME NEW i \in 1 .. m PROVE more[(n + 1) - m + i] = s.queue[i]
    <3> DEFINE j == n - m + i
    <3>1. j \in 1 .. n /\ (n + 1) - m + i = 1 + j
      BY <1>1, <2>1
    <3> QED
      BY <1>1, <2>1, <3>1
  <2> QED
    BY <1>1, <2>1, <2>2, <2>3
<1>6. /\ t.since = s.since /\ t.timeout \in {s.timeout, None}
      /\ t.frames \in Nat /\ s.frames <= t.frames /\ m <= n
  BY DEF Grown
<1>7. s.frames \in Nat /\ s.frames <= t.frames + 1 /\ t.frames + 1 \in Nat /\ t.frames + 1 > 0
  BY <1>6 DEF IsState
<1>8. IsState(added) /\ IsState(asked)
  BY <1>1, <1>2, <1>3, <1>6, <1>7 DEF IsState
<1> DEFINE k == n + 1
<1>9. m <= k /\ k # m /\ k > m /\ Len(more) = k
  BY <1>1, <1>6
<1>10. (\A i \in 1 .. k - m : Fresh(more[i], time)) /\ \A i \in 1 .. m : more[k - m + i] = s.queue[i]
  BY <1>5
<1> HIDE DEF n, k
<1>11. Grown(s, asked, time)
  BY <1>3, <1>6, <1>7, <1>9, <1>10 DEF Grown, m
<1>12. CASE t.interval = 1
  <2>1. (s.interval = 1 => s.frames > 0) => (t.interval = 1 => t.frames > 0)
    BY <1>12 DEF Grown
  <2>2. Grown(s, added, time)
    BY <1>2, <1>6, <1>9, <1>10, <1>12, <2>1 DEF Grown, m
  <2> QED
    BY <1>2, <1>4, <1>8, <1>12, <2>2
<1> QED
  BY <1>3, <1>4, <1>8, <1>11, <1>12

(***************************************************************************)
(* t is what s became when some of the timers of old were called: those    *)
(* that stay were not ready, or are not over.                              *)
(***************************************************************************)
Works(s, t, old, ready, time) ==
    /\ IsState(t) /\ Grown(s, t, time)
    /\ \A e \in ToSet(t.kept) : e \in old /\ (e \in ready => Fresh(e, time))

LEMMA SameWorks ==
    ASSUME NEW s, NEW t, NEW u, NEW old, NEW ready, NEW time,
           Works(s, t, old, ready, time), Same(t, u)
    PROVE  Works(s, u, old, ready, time)
<1>1. Grown(s, u, time)
  BY GrownSame DEF Works
<1>2. IsState(u) /\ u.kept = t.kept
  BY DEF Same
<1> QED
  BY <1>1, <1>2 DEF Works

LEMMA TimerWorks ==
    ASSUME NEW s, NEW t, NEW old, NEW ready, NEW time, NEW e, IsState(s),
           Works(s, t, old, ready, time), Fresh(e, time)
    PROVE  Works(s, Timer(t, e), old, ready, time)
<1>1. IsState(t) /\ Grown(s, t, time)
  BY DEF Works
<1>2. IsState(Timer(t, e)) /\ Grown(s, Timer(t, e), time) /\ Timer(t, e).kept = t.kept
  BY <1>1, GrownTimer
<1> QED
  BY <1>2 DEF Works

LEMMA StartWorks ==
    ASSUME NEW s, NEW t, NEW old, NEW ready, NEW time \in Nat, NEW e, IsState(s),
           Works(s, t, old, ready, time), IsTimer(e)
    PROVE  Works(s, StartTransition(t, e, time), old, ready, time)
<1> DEFINE n == e.node
           tick == [Tweened(t, e) EXCEPT !.delay = 0]
           active == [t EXCEPT !.nodes[n].lock.active = e.id]
           ticked == Tick(active, tick, time)
           back == [ticked EXCEPT !.kept = t.kept]
<1>1. IsState(t)
  BY DEF Works
<1>2. Same(t, StopTransition(t, n))
  BY <1>1, StopIsSame
<1>3. Same(t, active) /\ IsState(active)
  BY <1>1 DEF Same, IsState, StepFields
<1>4. /\ IsTimer(tick) /\ tick.then = e.then /\ tick.wait = e.wait /\ tick.duration = e.duration
  BY DEF IsTimer, TimerFields, Tweened
<1>5. IsOver(tick, time) <=> IsOver(e, time)
  BY <1>4 DEF IsOver
<1>6. StartTransition(t, e, time) = IF t.nodes[n].lock.active > e.id THEN StopTransition(t, n)
                                    ELSE IF IsOver(e, time) THEN ticked ELSE Timer(back, tick)
  BY DEF StartTransition
<1> HIDE DEF n, tick, active
<1>7. \/ Same(active, ticked)
      \/ ~IsOver(tick, time) /\ Same([active EXCEPT !.kept = Append(@, tick)], ticked)
  BY <1>3, TickIs
<1> HIDE DEF ticked
<1>8. ASSUME IsOver(e, time) PROVE Same(t, ticked)
  BY <1>3, <1>5, <1>7, <1>8, SameAgain
<1>9. Same(t, back)
  <2>1. Same(active, ticked) \/ Same([active EXCEPT !.kept = Append(@, tick)], ticked)
    BY <1>7
  <2>2. /\ DOMAIN ticked = StepFields /\ IsList(ticked.queue) /\ IsList(ticked.dom) /\ ticked.frames \in Nat
        /\ ticked.queue = active.queue /\ ticked.frames = active.frames /\ ticked.interval = active.interval
        /\ ticked.timeout = active.timeout /\ ticked.since = active.since
    <3> DEFINE more == [active EXCEPT !.kept = Append(@, tick)]
    <3>1. /\ more.queue = active.queue /\ more.frames = active.frames /\ more.interval = active.interval
          /\ more.timeout = active.timeout /\ more.since = active.since
      BY <1>3 DEF IsState, StepFields
    <3> HIDE DEF more
    <3> QED
      BY <2>1, <3>1 DEF Same, IsState, more
  <2>3. IsList(t.kept)
    BY <1>1 DEF IsState
  <2> QED
    BY <1>3, <2>2, <2>3 DEF Same, IsState, StepFields
<1> HIDE DEF back
<1>10. ASSUME ~IsOver(e, time) PROVE Fresh(tick, time)
  BY <1>4, <1>10 DEF Fresh, IsOver, IsTimer
<1>11. Works(s, back, old, ready, time)
  BY <1>9, SameWorks
<1>12. ASSUME ~IsOver(e, time) PROVE Works(s, Timer(back, tick), old, ready, time)
  BY <1>10, <1>11, <1>12, TimerWorks
<1>13. Works(s, StopTransition(t, n), old, ready, time)
  BY <1>2, SameWorks
<1>14. ASSUME IsOver(e, time) PROVE Works(s, ticked, old, ready, time)
  BY <1>8, <1>14, SameWorks
<1> QED
  BY <1>6, <1>12, <1>13, <1>14

LEMMA BeginNodeWorks ==
    ASSUME NEW s, NEW t, NEW old, NEW ready, NEW time \in Nat, NEW e, NEW n, IsState(s),
           Works(s, t, old, ready, time), IsTimer(e)
    PROVE  Works(s, BeginNode(t, e, n, time), old, ready, time)
<1> DEFINE lock == IF t.nodes[n].lock = None THEN NewLock ELSE t.nodes[n].lock
           count == [t EXCEPT !.nodes[n].lock = [lock EXCEPT !.count = @ + 1], !.late = @ \/ IsOver(e, time)]
           start == [e EXCEPT !.fn = "start", !.node = n, !.group = <<>>, !.delay = e.wait]
<1>1. Same(t, count)
  <2>1. IsState(t)
    BY DEF Works
  <2> QED
    BY <2>1 DEF Same, IsState, StepFields
<1>2. Works(s, count, old, ready, time)
  BY <1>1, SameWorks
<1>3. IsTimer(start) /\ start.then = e.then /\ start.wait = e.wait /\ start.duration = e.duration
  <2>1. IsList(<<>>)
    <3>1. <<>> \in Seq({})
      OBVIOUS
    <3> QED
      BY <3>1 DEF IsList
  <2> QED
    BY <2>1 DEF IsTimer, TimerFields
<1>4. BeginNode(t, e, n, time) = IF e.wait <= time - e.then THEN StartTransition(count, start, time)
                                 ELSE Timer(count, start)
  BY DEF BeginNode
<1> HIDE DEF count, start
<1>5. Works(s, StartTransition(count, start, time), old, ready, time)
  BY <1>2, <1>3, StartWorks
<1>6. ASSUME ~(e.wait <= time - e.then) PROVE Works(s, Timer(count, start), old, ready, time)
  <2>1. Fresh(start, time)
    BY <1>3, <1>6 DEF Fresh, IsTimer
  <2> QED
    BY <1>2, <2>1, TimerWorks
<1> QED
  BY <1>4, <1>5, <1>6

\* The recursion over the nodes of a transition, and over the timers of a step.
LEMMA BeginningIs ==
    ASSUME NEW s, NEW e, NEW time, IsList(e.group)
    PROVE  \E f : /\ f[0] = s /\ \A k \in 1 .. Len(e.group) : f[k] = BeginNode(f[k - 1], e, e.group[k], time)
                  /\ BeginTransition(s, e, time) = f[Len(e.group)]
<1> DEFINE N == Len(e.group)
           New(t, k) == BeginNode(t, e, e.group[k], time)
           IsUpTo(m, f) == f = [k \in 0 .. m |-> IF k = 0 THEN s ELSE New(f[k - 1], k)]
           upTo == CHOOSE f : IsUpTo(N, f)
           T == {m \in 0 .. N : ~\E f : IsUpTo(m, f)}
<1>1. N \in Nat
  BY ListHas
<1>2. BeginTransition(s, e, time) = upTo[N]
  BY DEF BeginTransition
<1> HIDE DEF N, New
<1>3. ASSUME T # {} PROVE FALSE
  <2>1. PICK m \in T : \A k \in T : m <= k
    <3>1. T \subseteq Nat
      OBVIOUS
    <3> HIDE DEF T
    <3> QED
      BY <1>3, <3>1, LeastOf
  <2>2. m \in 0 .. N /\ ~\E f : IsUpTo(m, f)
    OBVIOUS
  <2>3. CASE m = 0
    <3> DEFINE g == [k \in 0 .. 0 |-> s]
    <3>1. \A k \in 0 .. 0 : k = 0
      OBVIOUS
    <3>2. g = [k \in 0 .. 0 |-> IF k = 0 THEN s ELSE New(g[k - 1], k)]
      BY <3>1
    <3> HIDE DEF g
    <3>3. IsUpTo(0, g)
      BY <3>2
    <3> QED
      BY <2>2, <2>3, <3>3
  <2>4. CASE m # 0
    <3>1. m - 1 \in 0 .. N /\ m - 1 \notin T /\ m \in 1 .. N
      BY <1>1, <2>1, <2>2, <2>4
    <3>2. PICK g : IsUpTo(m - 1, g)
      BY <3>1
    <3>3. g[0] = s /\ \A k \in 1 .. m - 1 : g[k] = New(g[k - 1], k)
      BY <3>1, <3>2
    <3> DEFINE y == New(g[m - 1], m)
               h == [k \in 0 .. m |-> IF k = m THEN y ELSE g[k]]
    <3>4. \A k \in 0 .. m : h[k] = IF k = m THEN y ELSE g[k]
      OBVIOUS
    <3>5. h = [k \in 0 .. m |-> h[k]]
      OBVIOUS
    <3> HIDE DEF h
    <3>6. ASSUME NEW k \in 0 .. m PROVE h[k] = IF k = 0 THEN s ELSE New(h[k - 1], k)
      <4>1. CASE k = 0
        BY <2>4, <3>1, <3>3, <3>4, <4>1
      <4>2. CASE k = m
        <5>1. h[m] = y /\ h[m - 1] = g[m - 1]
          BY <3>1, <3>4
        <5> QED
          BY <2>4, <4>2, <5>1
      <4>3. CASE k # 0 /\ k # m
        <5>1. k \in 1 .. m - 1 /\ k - 1 \in 0 .. m /\ k - 1 # m
          BY <3>1, <4>3
        <5>2. h[k] = g[k] /\ h[k - 1] = g[k - 1]
          BY <3>4, <4>3, <5>1
        <5> QED
          BY <3>3, <4>3, <5>1, <5>2
      <4> QED
        BY <4>1, <4>2, <4>3
    <3>7. h = [k \in 0 .. m |-> IF k = 0 THEN s ELSE New(h[k - 1], k)]
      <4>1. [k \in 0 .. m |-> h[k]] = [k \in 0 .. m |-> IF k = 0 THEN s ELSE New(h[k - 1], k)]
        BY <3>6
      <4> QED
        BY <3>5, <4>1
    <3> QED
      BY <2>2, <3>7
  <2> QED
    BY <2>3, <2>4
<1>4. IsUpTo(N, upTo)
  <2>1. \E f : IsUpTo(N, f)
    BY <1>1, <1>3
  <2> HIDE DEF IsUpTo
  <2> QED
    BY <2>1
<1> HIDE DEF upTo
<1>5. upTo[0] = s /\ \A k \in 1 .. N : upTo[k] = New(upTo[k - 1], k)
  BY <1>1, <1>4
<1> QED
  BY <1>2, <1>5 DEF N, New

\* f goes through the states of s while the timers are visited, r is the one after it.
Visits(f, s, timers, ready, time, r) ==
    /\ f[0] = s /\ \A k \in 1 .. Len(timers) : f[k] = Visit(f[k - 1], timers[k], ready, time)
    /\ \E m \in {Len(timers)} : \E t \in {f[m]} :
          r = [t EXCEPT !.queue = SubSeq(t.queue, 1, Len(t.queue) - m) \o t.kept, !.kept = <<>>]

LEMMA VisitingIs ==
    ASSUME NEW s, NEW timers, NEW ready, NEW time, IsList(timers)
    PROVE  \E f : Visits(f, s, timers, ready, time, CallAll(s, timers, ready, time))
<1> DEFINE N == Len(timers)
           New(t, k) == Visit(t, timers[k], ready, time)
           IsUpTo(m, f) == f = [k \in 0 .. m |-> IF k = 0 THEN s ELSE New(f[k - 1], k)]
           upTo == CHOOSE f : IsUpTo(N, f)
           T == {m \in 0 .. N : ~\E f : IsUpTo(m, f)}
<1>1. N \in Nat
  BY ListHas
<1>2. CallAll(s, timers, ready, time) =
         [upTo[N] EXCEPT !.queue = SubSeq(upTo[N].queue, 1, Len(upTo[N].queue) - N) \o upTo[N].kept,
                         !.kept = <<>>]
  BY DEF CallAll
<1> HIDE DEF N, New
<1>3. ASSUME T # {} PROVE FALSE
  <2>1. PICK m \in T : \A k \in T : m <= k
    <3>1. T \subseteq Nat
      OBVIOUS
    <3> HIDE DEF T
    <3> QED
      BY <1>3, <3>1, LeastOf
  <2>2. m \in 0 .. N /\ ~\E f : IsUpTo(m, f)
    OBVIOUS
  <2>3. CASE m = 0
    <3> DEFINE g == [k \in 0 .. 0 |-> s]
    <3>1. \A k \in 0 .. 0 : k = 0
      OBVIOUS
    <3>2. g = [k \in 0 .. 0 |-> IF k = 0 THEN s ELSE New(g[k - 1], k)]
      BY <3>1
    <3> HIDE DEF g
    <3>3. IsUpTo(0, g)
      BY <3>2
    <3> QED
      BY <2>2, <2>3, <3>3
  <2>4. CASE m # 0
    <3>1. m - 1 \in 0 .. N /\ m - 1 \notin T /\ m \in 1 .. N
      BY <1>1, <2>1, <2>2, <2>4
    <3>2. PICK g : IsUpTo(m - 1, g)
      BY <3>1
    <3>3. g[0] = s /\ \A k \in 1 .. m - 1 : g[k] = New(g[k - 1], k)
      BY <3>1, <3>2
    <3> DEFINE y == New(g[m - 1], m)
               h == [k \in 0 .. m |-> IF k = m THEN y ELSE g[k]]
    <3>4. \A k \in 0 .. m : h[k] = IF k = m THEN y ELSE g[k]
      OBVIOUS
    <3>5. h = [k \in 0 .. m |-> h[k]]
      OBVIOUS
    <3> HIDE DEF h
    <3>6. ASSUME NEW k \in 0 .. m PROVE h[k] = IF k = 0 THEN s ELSE New(h[k - 1], k)
      <4>1. CASE k = 0
        BY <2>4, <3>1, <3>3, <3>4, <4>1
      <4>2. CASE k = m
        <5>1. h[m] = y /\ h[m - 1] = g[m - 1]
          BY <3>1, <3>4
        <5> QED
          BY <2>4, <4>2, <5>1
      <4>3. CASE k # 0 /\ k # m
        <5>1. k \in 1 .. m - 1 /\ k - 1 \in 0 .. m /\ k - 1 # m
          BY <3>1, <4>3
        <5>2. h[k] = g[k] /\ h[k - 1] = g[k - 1]
          BY <3>4, <4>3, <5>1
        <5> QED
          BY <3>3, <4>3, <5>1, <5>2
      <4> QED
        BY <4>1, <4>2, <4>3
    <3>7. h = [k \in 0 .. m |-> IF k = 0 THEN s ELSE New(h[k - 1], k)]
      <4>1. [k \in 0 .. m |-> h[k]] = [k \in 0 .. m |-> IF k = 0 THEN s ELSE New(h[k - 1], k)]
        BY <3>6
      <4> QED
        BY <3>5, <4>1
    <3> QED
      BY <2>2, <3>7
  <2> QED
    BY <2>3, <2>4
<1>4. IsUpTo(N, upTo)
  <2>1. \E f : IsUpTo(N, f)
    BY <1>1, <1>3
  <2> HIDE DEF IsUpTo
  <2> QED
    BY <2>1
<1> HIDE DEF upTo
<1>5. upTo[0] = s /\ \A k \in 1 .. N : upTo[k] = New(upTo[k - 1], k)
  BY <1>1, <1>4
<1> QED
  BY <1>2, <1>5 DEF N, New, Visits

\* What every step keeps, all of them keep.
LEMMA WorksAlong ==
    ASSUME NEW s, NEW old, NEW ready, NEW time, NEW m \in Nat, NEW f,
           Works(s, f[0], old, ready, time),
           \A k \in 1 .. m : Works(s, f[k - 1], old, ready, time) => Works(s, f[k], old, ready, time)
    PROVE  Works(s, f[m], old, ready, time)
<1> DEFINE Ok(k) == Works(s, f[k], old, ready, time)
           T == {k \in 0 .. m : ~Ok(k)}
<1>1. Ok(0) /\ \A k \in 1 .. m : Ok(k - 1) => Ok(k)
  OBVIOUS
<1> HIDE DEF Ok
<1>2. ASSUME T # {} PROVE FALSE
  <2>1. PICK k \in T : \A j \in T : k <= j
    <3>1. T \subseteq Nat
      OBVIOUS
    <3> HIDE DEF T
    <3> QED
      BY <1>2, <3>1, LeastOf
  <2>2. k # 0
    BY <1>1, <2>1
  <2>3. k - 1 \in 0 .. m /\ k \in 1 .. m /\ k - 1 \notin T
    BY <2>1, <2>2
  <2>4. Ok(k - 1)
    BY <2>3
  <2> QED
    BY <1>1, <2>1, <2>3, <2>4
<1>3. Ok(m)
  BY <1>2
<1> QED
  BY <1>3 DEF Ok

LEMMA BeginWorks ==
    ASSUME NEW s, NEW t, NEW old, NEW ready, NEW time \in Nat, NEW e, IsState(s),
           Works(s, t, old, ready, time), IsTimer(e)
    PROVE  Works(s, BeginTransition(t, e, time), old, ready, time)
<1>1. IsList(e.group) /\ Len(e.group) \in Nat
  BY ListHas DEF IsTimer
<1> DEFINE m == Len(e.group)
<1>2. PICK f : /\ f[0] = t /\ \A k \in 1 .. m : f[k] = BeginNode(f[k - 1], e, e.group[k], time)
               /\ BeginTransition(t, e, time) = f[m]
  BY <1>1, BeginningIs
<1> HIDE DEF m
<1>3. \A k \in 1 .. m : Works(s, f[k - 1], old, ready, time) => Works(s, f[k], old, ready, time)
  BY <1>2, BeginNodeWorks
<1>4. Works(s, f[m], old, ready, time)
  BY <1>1, <1>2, <1>3, WorksAlong DEF m
<1> QED
  BY <1>2, <1>4

LEMMA KeptWorks ==
    ASSUME NEW s, NEW t, NEW old, NEW ready, NEW time, NEW e,
           Works(s, t, old, ready, time), e \in old, e \in ready => Fresh(e, time)
    PROVE  Works(s, [t EXCEPT !.kept = Append(@, e)], old, ready, time)
<1> DEFINE more == Append(t.kept, e)
           u == [t EXCEPT !.kept = more]
<1>1. IsState(t) /\ Grown(s, t, time) /\ \A d \in ToSet(t.kept) : d \in old /\ (d \in ready => Fresh(d, time))
  BY DEF Works
<1>2. IsList(more) /\ ToSet(more) = ToSet(t.kept) \cup {e}
  BY <1>1, AppendedList DEF IsState
<1> HIDE DEF more
<1>3. /\ IsState(u) /\ u.kept = more
      /\ u.queue = t.queue /\ u.interval = t.interval /\ u.frames = t.frames /\ u.timeout = t.timeout
      /\ u.since = t.since
  BY <1>1, <1>2 DEF IsState, StepFields
<1>4. [t EXCEPT !.kept = Append(@, e)] = u
  BY <1>1 DEF more, IsState, StepFields
<1> HIDE DEF u
<1>5. Grown(s, u, time)
  BY <1>1, <1>3 DEF Grown
<1>6. Works(s, u, old, ready, time)
  BY <1>1, <1>2, <1>3, <1>5 DEF Works
<1> QED
  BY <1>4, <1>6

LEMMA VisitWorks ==
    ASSUME NEW s, NEW t, NEW old, NEW ready, NEW time \in Nat, NEW e, IsState(s),
           Works(s, t, old, ready, time), IsTimer(e), e \in old
    PROVE  Works(s, Visit(t, e, ready, time), old, ready, time)
<1>1. Works(s, BeginTransition(t, e, time), old, ready, time)
  BY BeginWorks
<1>2. Works(s, StartTransition(t, e, time), old, ready, time)
  BY StartWorks
<1>3. Works(s, Tick(t, e, time), old, ready, time)
  <2>1. IsState(t)
    BY DEF Works
  <2> DEFINE ticked == Tick(t, e, time)
             more == [t EXCEPT !.kept = Append(@, e)]
  <2>2. Same(t, ticked) \/ (~IsOver(e, time) /\ Same(more, ticked))
    BY <2>1, TickIs
  <2>3. ASSUME ~IsOver(e, time) PROVE Works(s, more, old, ready, time)
    <3>1. Fresh(e, time)
      BY <2>3 DEF Fresh, IsOver, IsTimer
    <3> QED
      BY <3>1, KeptWorks
  <2> HIDE DEF ticked, more
  <2>4. Works(s, ticked, old, ready, time)
    BY <2>2, <2>3, SameWorks
  <2> QED
    BY <2>4 DEF ticked
<1>4. Works(s, Call(t, e, time), old, ready, time)
  BY <1>1, <1>2, <1>3 DEF Call, IsTimer
<1>5. ASSUME e \notin ready PROVE Works(s, [t EXCEPT !.kept = Append(@, e)], old, ready, time)
  BY <1>5, KeptWorks
<1> QED
  BY <1>4, <1>5 DEF Visit

LEMMA GrownHas ==
    ASSUME NEW s, NEW t, NEW time, IsState(s), IsState(t), Grown(s, t, time)
    PROVE  \A e \in ToSet(t.queue) : Fresh(e, time) \/ e \in ToSet(s.queue)
<1> DEFINE m == Len(s.queue)
           n == Len(t.queue)
<1>1. /\ m \in Nat /\ n \in Nat /\ m <= n
      /\ \A i \in 1 .. n - m : Fresh(t.queue[i], time)
      /\ \A i \in 1 .. m : t.queue[n - m + i] = s.queue[i]
  BY ListHas DEF IsState, Grown
<1>2. /\ ToSet(t.queue) = {t.queue[i] : i \in 1 .. n}
      /\ ToSet(s.queue) = {s.queue[i] : i \in 1 .. m}
  BY ListHas DEF IsState
<1> HIDE DEF m, n
<1>3. SUFFICES ASSUME NEW i \in 1 .. n PROVE Fresh(t.queue[i], time) \/ t.queue[i] \in ToSet(s.queue)
  BY <1>2
<1>4. CASE i <= n - m
  BY <1>1, <1>4
<1>5. CASE i > n - m
  <2> DEFINE j == i - (n - m)
  <2>1. j \in 1 .. m /\ n - m + j = i
    BY <1>1, <1>5
  <2> HIDE DEF j
  <2> QED
    BY <1>1, <1>2, <2>1
<1> QED
  BY <1>1, <1>4, <1>5

(***************************************************************************)
(* r is what s is after its timers were called.                            *)
(***************************************************************************)
Passed(s, r, ready, time) ==
    /\ IsState(r) /\ r.since = s.since /\ r.timeout \in {s.timeout, None}
    /\ s.frames <= r.frames /\ r.interval \in {0, 1}
    /\ (s.interval = 1 => s.frames > 0) => (r.interval = 1 => r.frames > 0)
    /\ \A e \in ToSet(r.queue) : Fresh(e, time) \/ (e \in ToSet(s.queue) /\ e \notin ready)
    /\ \/ r.interval = 1
       \/ r.frames = s.frames /\ r.timeout = s.timeout /\ ToSet(r.queue) \subseteq ToSet(s.queue)

\* The same for the last of its timers: those before them stay.
PassedLast(s, r, timers, ready, time) ==
    /\ IsState(r) /\ r.kept = <<>> /\ r.since = s.since /\ r.timeout \in {s.timeout, None}
    /\ s.frames <= r.frames /\ r.interval \in {0, 1} /\ (s.interval = 1 => r.interval = 1)
    /\ (s.interval = 1 => s.frames > 0) => (r.interval = 1 => r.frames > 0)
    /\ \A e \in ToSet(r.queue) : \/ Fresh(e, time) \/ (e \in ToSet(timers) /\ e \notin ready)
                                 \/ \E i \in 1 .. Len(s.queue) - Len(timers) : e = s.queue[i]
    /\ \/ r.interval = 1
       \/ r.frames = s.frames /\ r.timeout = s.timeout /\ ToSet(r.queue) \subseteq ToSet(s.queue)

LEMMA CallAllPassesLast ==
    ASSUME NEW s, NEW ready, NEW time \in Nat, IsState(s), s.kept = <<>>, s.interval \in {0, 1},
           NEW timers, IsList(timers), Len(timers) <= Len(s.queue), ToSet(timers) \subseteq ToSet(s.queue),
           \A e \in ToSet(timers) : IsTimer(e)
    PROVE  PassedLast(s, CallAll(s, timers, ready, time), timers, ready, time)
<1> DEFINE old == ToSet(timers)
           l == Len(timers)
           m == Len(s.queue)
           r == CallAll(s, timers, ready, time)
<1>1. /\ IsList(s.queue) /\ m \in Nat /\ ToSet(s.queue) = {s.queue[i] : i \in 1 .. m} /\ s.frames \in Nat
      /\ l \in Nat /\ old = {timers[i] : i \in 1 .. l} /\ l <= m
  BY ListHas DEF IsState
<1>2. PICK f : Visits(f, s, timers, ready, time, r)
  BY <1>1, VisitingIs
<1> HIDE DEF r
<1>3. /\ f[0] = s /\ \A k \in 1 .. l : f[k] = Visit(f[k - 1], timers[k], ready, time)
      /\ \E t \in {f[l]} : r = [t EXCEPT !.queue = SubSeq(t.queue, 1, Len(t.queue) - l) \o t.kept, !.kept = <<>>]
  BY <1>2 DEF Visits
<1>4. Works(s, s, old, ready, time)
  <2>1. ToSet(s.kept) = {}
    BY DEF ToSet
  <2>2. Grown(s, s, time)
    <3>1. m - m = 0 /\ \A i \in 1 .. m : m - m + i = i
      BY <1>1
    <3> QED
      BY <1>1, <3>1 DEF Grown
  <2> QED
    BY <2>1, <2>2 DEF Works
<1>5. \A k \in 1 .. l : timers[k] \in old /\ IsTimer(timers[k])
  BY <1>1
<1> HIDE DEF l, m, old
<1>6. \A k \in 1 .. l : Works(s, f[k - 1], old, ready, time) => Works(s, f[k], old, ready, time)
  BY <1>3, <1>5, VisitWorks
<1>7. Works(s, f[l], old, ready, time)
  BY <1>1, <1>3, <1>4, <1>6, WorksAlong
<1> DEFINE done == f[l]
           n == Len(done.queue)
<1>8. /\ IsState(done) /\ Grown(s, done, time)
      /\ \A e \in ToSet(done.kept) : e \in old /\ (e \in ready => Fresh(e, time))
  BY <1>7 DEF Works
<1> HIDE DEF done
<1>9. IsList(done.queue) /\ IsList(done.kept) /\ n \in Nat
  BY <1>8, ListHas DEF IsState
<1>10. /\ m <= n /\ (\A i \in 1 .. n - m : Fresh(done.queue[i], time))
       /\ \A i \in 1 .. m : done.queue[n - m + i] = s.queue[i]
  BY <1>8 DEF Grown, m
<1> DEFINE added == SubSeq(done.queue, 1, n - l)
<1>11. n - l \in 0 .. n
  BY <1>1, <1>9, <1>10
<1>12. IsList(added) /\ ToSet(added) = {done.queue[i] : i \in 1 .. n - l}
  BY <1>9, <1>11, PartOfList
<1>13. \A e \in ToSet(added) : (n > m /\ Fresh(e, time)) \/ \E i \in 1 .. m - l : e = s.queue[i]
  <2> SUFFICES ASSUME NEW k \in 1 .. n - l
               PROVE  \/ n > m /\ Fresh(done.queue[k], time)
                      \/ \E i \in 1 .. m - l : done.queue[k] = s.queue[i]
    BY <1>12
  <2>1. CASE k <= n - m
    <3>1. k \in 1 .. n - m /\ n > m
      BY <1>1, <1>9, <1>10, <2>1
    <3> QED
      BY <1>10, <3>1
  <2>2. CASE k > n - m
    <3> DEFINE i == k - (n - m)
    <3>0. l \in Nat /\ m \in Nat /\ n \in Nat /\ l <= m /\ m <= n
      BY <1>1, <1>9, <1>10
    <3> HIDE DEF n
    <3>1. i \in 1 .. m - l /\ i \in 1 .. m /\ n - m + i = k
      BY <2>2, <3>0
    <3> HIDE DEF i
    <3> USE DEF n
    <3> QED
      BY <1>10, <3>1
  <2> QED
    BY <1>1, <1>9, <2>1, <2>2
<1> HIDE DEF added
<1> DEFINE q == added \o done.kept
<1>14. IsList(q) /\ ToSet(q) \subseteq ToSet(added) \cup ToSet(done.kept)
  BY <1>9, <1>12, JoinedLists
<1>15. r = [done EXCEPT !.queue = q, !.kept = <<>>]
  BY <1>3, <1>8 DEF done, added, IsState, StepFields
<1> HIDE DEF q
<1>16. /\ r.queue = q /\ r.kept = <<>> /\ r.interval = done.interval /\ r.frames = done.frames
       /\ r.timeout = done.timeout /\ r.since = done.since /\ IsState(r)
  <2>1. IsList(<<>>)
    <3>1. <<>> \in Seq({})
      OBVIOUS
    <3> QED
      BY <3>1 DEF IsList
  <2> QED
    BY <1>8, <1>14, <1>15, <2>1 DEF IsState, StepFields
<1>17. \A e \in ToSet(q) : Fresh(e, time) \/ (e \in old /\ e \notin ready) \/ \E i \in 1 .. m - l : e = s.queue[i]
  BY <1>8, <1>13, <1>14
<1>18. r.interval = 1 \/ (r.frames = s.frames /\ r.timeout = s.timeout /\ ToSet(q) \subseteq ToSet(s.queue))
  <2>1. CASE n > m
    BY <1>8, <1>16, <2>1 DEF Grown, m
  <2>2. CASE n = m
    <3>1. \A i \in 1 .. m - l : i \in 1 .. m
      BY <1>1
    <3>2. ~(n > m)
      BY <1>1, <2>2
    <3>3. ToSet(added) \subseteq ToSet(s.queue)
      BY <1>1, <1>13, <3>1, <3>2
    <3>4. r.frames = s.frames /\ r.timeout = s.timeout
      BY <1>8, <1>16, <2>2 DEF Grown, m
    <3> QED
      BY <1>8, <1>14, <3>3, <3>4 DEF old
  <2> QED
    BY <1>1, <1>9, <1>10, <2>1, <2>2
<1>19. /\ r.since = s.since /\ r.timeout \in {s.timeout, None} /\ s.frames <= r.frames /\ r.interval \in {0, 1}
       /\ (s.interval = 1 => r.interval = 1)
       /\ (s.interval = 1 => s.frames > 0) => (r.interval = 1 => r.frames > 0)
  <2>1. s.interval = 1 => done.interval = 1
    <3>1. n = m => done.interval = s.interval
      BY <1>8 DEF Grown, m
    <3>2. n > m => done.interval = 1
      BY <1>8 DEF Grown, m
    <3> QED
      BY <1>1, <1>9, <1>10, <3>1, <3>2
  <2> QED
    BY <1>8, <1>16, <2>1 DEF Grown
<1>20. PassedLast(s, r, timers, ready, time)
  BY <1>16, <1>17, <1>18, <1>19 DEF PassedLast, old, l, m
<1> QED
  BY <1>20 DEF r

LEMMA CallAllPasses ==
    ASSUME NEW s, NEW ready, NEW time \in Nat, IsState(s), s.kept = <<>>, s.interval \in {0, 1},
           \A e \in ToSet(s.queue) : IsTimer(e)
    PROVE  Passed(s, CallAll(s, s.queue, ready, time), ready, time)
<1> DEFINE r == CallAll(s, s.queue, ready, time)
           q == s.queue
<1>1. IsList(q) /\ Len(q) \in Nat
  BY ListHas DEF IsState
<1>2. PassedLast(s, r, q, ready, time)
  BY <1>1, CallAllPassesLast
<1>3. ~\E i \in 1 .. Len(q) - Len(q) : TRUE
  BY <1>1
<1> HIDE DEF r
<1>4. Passed(s, r, ready, time)
  BY <1>2, <1>3 DEF PassedLast, Passed
<1> QED
  BY <1>4 DEF r

LEMMA RescheduleIs ==
    ASSUME NEW s, NEW time \in Nat, IsState(s), \A e \in ToSet(s.queue) : IsTimer(e)
    PROVE  LET r == Reschedule(s, time)
           IN  /\ IsState(r) /\ r.queue = s.queue /\ r.since = s.since
               /\ r.interval \in {0, 1} /\ (r.interval = 1 => r.frames > 0)
               /\ r.timeout = s.timeout \/ (r.timeout \in Nat /\ r.timeout >= time)
               /\ r.frames = 0 /\ s.queue # <<>> =>
                     r.timeout \in Nat /\ \A e \in ToSet(s.queue) : r.timeout <= e.then + e.delay
<1> DEFINE r == Reschedule(s, time)
           T == {e.then + e.delay : e \in ToSet(s.queue)}
           wait == Min(T) - time
           later == [s EXCEPT !.timeout = time + wait, !.interval = 0]
           soon == [s EXCEPT !.interval = 1, !.frames = @ + 1]
           none == [s EXCEPT !.interval = 0]
<1>1. r = IF s.queue = <<>> THEN none ELSE IF wait > Soon THEN later ELSE soon
  BY DEF Reschedule
<1>2. /\ IsState(none) /\ none.queue = s.queue /\ none.since = s.since /\ none.interval = 0
      /\ none.timeout = s.timeout
  BY DEF IsState, StepFields
<1>3. /\ IsState(later) /\ later.queue = s.queue /\ later.since = s.since /\ later.interval = 0
      /\ later.timeout = time + wait
  BY DEF IsState, StepFields
<1>4. /\ IsState(soon) /\ soon.queue = s.queue /\ soon.since = s.since /\ soon.interval = 1
      /\ soon.timeout = s.timeout /\ soon.frames = s.frames + 1 /\ s.frames + 1 > 0
  BY DEF IsState, StepFields
<1>5. ASSUME s.queue # <<>>, wait > Soon
      PROVE  time + wait \in Nat /\ time + wait >= time /\ \A e \in ToSet(s.queue) : time + wait <= e.then + e.delay
  <2>1. T \subseteq Nat
    BY DEF IsTimer
  <2>2. T # {}
    <3>1. IsList(s.queue)
      BY DEF IsState
    <3>2. PICK E : s.queue \in Seq(E)
      BY <3>1 DEF IsList
    <3>3. 1 \in 1 .. Len(s.queue)
      BY <1>5, <3>2
    <3>4. s.queue[1] \in ToSet(s.queue)
      BY <3>1, <3>3, ListHas
    <3> QED
      BY <3>4
  <2> HIDE DEF T
  <2>3. \E z \in T : \A y \in T : z <= y
    BY <2>1, <2>2, LeastOf
  <2>4. Min(T) \in T /\ \A y \in T : Min(T) <= y
    BY <2>3 DEF Min
  <2> DEFINE z == Min(T)
  <2> HIDE DEF z
  <2>5. z \in Nat /\ z - time > Soon
    BY <1>5, <2>1, <2>4 DEF z
  <2>6. time + (z - time) = z /\ z >= time
    BY <2>5, TimeAssumption
  <2>7. \A e \in ToSet(s.queue) : z <= e.then + e.delay
    BY <2>4 DEF T, z
  <2> QED
    BY <2>5, <2>6, <2>7 DEF z
<1> HIDE DEF wait, r, none, later, soon
<1>6. CASE s.queue = <<>>
  BY <1>1, <1>2, <1>6 DEF r
<1>7. CASE s.queue # <<>> /\ wait > Soon
  BY <1>1, <1>3, <1>5, <1>7 DEF r
<1>8. CASE s.queue # <<>> /\ ~(wait > Soon)
  BY <1>1, <1>4, <1>8 DEF r
<1> QED
  BY <1>6, <1>7, <1>8

(***************************************************************************)
(* What is drawn is made of sequences.                                     *)
(***************************************************************************)
LEMMA InsertedList ==
    ASSUME NEW q, NEW new, NEW S, IsList(q), IsList(new)
    PROVE  IsList(InsertBefore(q, new, S))
<1> DEFINE n == Len(q)
           at == SelectInSeq(q, LAMBDA i : i \in S)
           I == {i \in 1 .. Len(q) : q[i] \in S}
<1>1. n \in Nat
  BY ListHas
<1>2. at = IF I # {} THEN Min(I) ELSE 0
  BY DEF SelectInSeq
<1>3. I \subseteq 1 .. n
  OBVIOUS
<1>4. InsertBefore(q, new, S) = IF at = 0 THEN q \o new ELSE SubSeq(q, 1, at - 1) \o new \o SubSeq(q, at, n)
  BY DEF InsertBefore
<1> HIDE DEF I, at, n
<1>5. ASSUME I # {} PROVE at \in 1 .. n
  <2>1. \E z \in I : \A y \in I : z <= y
    <3>1. I \subseteq Nat
      BY <1>1, <1>3
    <3> QED
      BY <1>5, <3>1, LeastOf
  <2>2. Min(I) \in I
    BY <2>1 DEF Min
  <2> QED
    BY <1>2, <1>3, <1>5, <2>2
<1>6. IsList(q \o new)
  BY JoinedLists
<1>7. ASSUME at \in 1 .. n PROVE IsList(SubSeq(q, 1, at - 1) \o new \o SubSeq(q, at, n))
  <2> DEFINE before == SubSeq(q, 1, at - 1)
             after == SubSeq(q, at, n)
  <2>1. IsList(before)
    <3>1. at - 1 \in 0 .. Len(q)
      BY <1>1, <1>7 DEF n
    <3> QED
      BY <3>1, PartOfList
  <2>2. IsList(after)
    <3>1. PICK E : q \in Seq(E)
      BY DEF IsList
    <3>2. after \in Seq(E)
      BY <1>1, <1>7, <3>1 DEF n
    <3> QED
      BY <3>2 DEF IsList
  <2> HIDE DEF before, after
  <2>3. IsList(before \o new)
    BY <2>1, JoinedLists
  <2> DEFINE both == before \o new
  <2> HIDE DEF both
  <2>4. IsList(both \o after)
    BY <2>2, <2>3, JoinedLists DEF both
  <2> QED
    BY <2>4 DEF before, after, both
<1>8. I # {} \/ at = 0
  BY <1>2
<1> QED
  BY <1>4, <1>5, <1>6, <1>7, <1>8

LEMMA BindLists ==
    ASSUME NEW group, NEW key, NEW data, IsList(group), DOMAIN data = 1 .. Len(data), Len(data) \in Nat
    PROVE  LET join == Bind(group, key, data)
           IN  DOMAIN join.enter = 1 .. Len(data) /\ IsList(join.enter) /\ IsList(join.exit)
<1> DEFINE n == Len(group)
           m == Len(data)
           first(k) == Min({i \in 1 .. n : key[group[i]] = k})
           all == [i \in 1 .. n |-> i]
           doubles == Among(all, {i \in 1 .. n : first(key[group[i]]) # i})
           found == Finds(group, key, data)
           size == IF n > m + Len(doubles) THEN n ELSE m + Len(doubles)
           enter == [i \in 1 .. m |-> IF i \in found THEN Hole ELSE data[i]]
           exit == [i \in 1 .. size |->
                        IF i <= n /\ key[group[i]] \notin ToSet(data) THEN group[i]
                        ELSE IF i > m /\ i <= m + Len(doubles) THEN group[doubles[i - m]]
                        ELSE Hole]
           join == Bind(group, key, data)
<1>1. n \in Nat /\ m \in Nat
  BY ListHas
<1>2. join.enter = enter /\ join.exit = exit
  BY DEF Bind
<1> HIDE DEF join
<1>3. IsList(all)
  <2>1. all = [i \in 1 .. n |-> all[i]]
    OBVIOUS
  <2> HIDE DEF all, n
  <2> QED
    BY <1>1, <2>1, ListOf
<1>4. IsList(doubles) /\ Len(doubles) \in Nat
  <2> DEFINE D == {i \in 1 .. n : first(key[group[i]]) # i}
  <2> HIDE DEF D, all
  <2>1. IsList(Among(all, D))
    BY <1>3, AmongIsList
  <2>2. Len(Among(all, D)) \in Nat
    BY <2>1, ListHas
  <2> QED
    BY <2>1, <2>2 DEF D, all
<1> HIDE DEF doubles, first, found
<1>5. size \in Nat
  BY <1>1, <1>4
<1> HIDE DEF size, n
<1>6. exit = [i \in 1 .. size |-> exit[i]] /\ enter = [i \in 1 .. m |-> enter[i]] /\ DOMAIN enter = 1 .. m
  OBVIOUS
<1> HIDE DEF exit, enter, m
<1>7. IsList(exit) /\ IsList(enter)
  BY <1>1, <1>5, <1>6, ListOf
<1> QED
  BY <1>2, <1>6, <1>7 DEF join, m

LEMMA EnteredList ==
    ASSUME NEW join, NEW node, NEW m \in Nat, DOMAIN join.enter = 1 .. m
    PROVE  IsList(Entered(join, node))
<1> DEFINE q == Entered(join, node)
<1>1. q = [i \in 1 .. m |-> q[i]]
  BY DEF Entered
<1> HIDE DEF q
<1>2. IsList(q)
  BY <1>1, ListOf
<1> QED
  BY <1>2 DEF q

LEMMA DrawnLists ==
    ASSUME NEW s, NEW data \in Ticks, NEW old, IsList(s.dom)
    PROVE  LET drawn == Draw(s, data, old)
           IN  IsList(drawn.exit) /\ IsList(drawn.update) /\ IsList(drawn.path) /\ IsList(drawn.dom)
<1> DEFINE join == TickJoin(s, data)
           path == PathJoin(s)
           fresh == Nodes(join.enter) \o Nodes(path.enter)
           new == [datum \in ToSet(fresh) |-> Len(s.nodes) + SelectInSeq(fresh, LAMBDA e : e = datum)]
           more == [i \in 1 .. Len(Nodes(join.enter)) |-> new[Nodes(join.enter)[i]]]
           kids == InsertBefore(s.dom, more, ToSet(s.dom) \ TickNodes(s))
           ends == [i \in 1 .. Len(Nodes(path.enter)) |-> new[Path]]
           drawn == Draw(s, data, old)
<1>1. /\ drawn.exit = join.exit /\ drawn.update = Entered(join, new) /\ drawn.path = Entered(path, new)
      /\ drawn.dom = kids \o ends
  BY DEF Draw
<1> HIDE DEF drawn
<1>2. DOMAIN join.enter = 1 .. Len(data) /\ Len(data) \in Nat /\ IsList(join.enter) /\ IsList(join.exit)
  <2>1. DOMAIN data = 1 .. Len(data) /\ Len(data) \in Nat
    BY RedrawAssumption
  <2> DEFINE some == Among(s.dom, TickNodes(s))
  <2>2. IsList(some)
    BY AmongIsList
  <2> HIDE DEF some
  <2>3. LET b == Bind(some, Datum(s), data)
        IN  DOMAIN b.enter = 1 .. Len(data) /\ IsList(b.enter) /\ IsList(b.exit)
    BY <2>1, <2>2, BindLists
  <2> QED
    BY <2>1, <2>3 DEF TickJoin, some
<1>3. DOMAIN path.enter = 1 .. 1 /\ IsList(path.enter)
  <2> DEFINE q == path.enter
             rest == Without(s.dom, TickNodes(s))
  <2>1. q = [i \in 1 .. 1 |-> IF i <= Len(rest) THEN Hole ELSE <<Path>>[i]]
    BY DEF PathJoin, BindByIndex
  <2>2. q = [i \in 1 .. 1 |-> q[i]] /\ DOMAIN q = 1 .. 1
    BY <2>1
  <2> HIDE DEF q
  <2>3. IsList(q)
    BY <2>2, ListOf
  <2> QED
    BY <2>2, <2>3 DEF q
<1> HIDE DEF new
<1>4. IsList(drawn.update) /\ IsList(drawn.path)
  <2> HIDE DEF join, path
  <2> DEFINE m == Len(data)
  <2> HIDE DEF m
  <2>1. DOMAIN join.enter = 1 .. m /\ m \in Nat
    BY <1>2 DEF m
  <2> QED
    BY <1>1, <1>3, <2>1, EnteredList
<1> HIDE DEF join, path
<1>5. IsList(kids)
  <2> DEFINE q == Nodes(join.enter)
             l == Len(q)
  <2>1. IsList(q)
    BY <1>2, AmongIsList DEF Nodes
  <2>2. l \in Nat
    BY <2>1, ListHas
  <2>3. more = [i \in 1 .. l |-> more[i]]
    OBVIOUS
  <2> HIDE DEF more, l
  <2>4. IsList(more)
    BY <2>2, <2>3, ListOf
  <2> QED
    BY <2>4, InsertedList
<1>6. IsList(ends)
  <2> DEFINE q == Nodes(path.enter)
             l == Len(q)
  <2>1. IsList(q)
    BY <1>3, AmongIsList DEF Nodes
  <2>2. l \in Nat
    BY <2>1, ListHas
  <2>3. ends = [i \in 1 .. l |-> ends[i]]
    OBVIOUS
  <2> HIDE DEF ends, l
  <2> QED
    BY <2>2, <2>3, ListOf
<1> HIDE DEF kids, ends
<1>7. IsList(drawn.dom)
  BY <1>1, <1>5, <1>6, JoinedLists
<1> QED
  BY <1>1, <1>2, <1>4, <1>7 DEF drawn

(***************************************************************************)
(* What the next step of the timers comes in time for: a frame that is     *)
(* pending was asked for before the timers of the queue were over, or by   *)
(* a timer that was added when the timeout before it was late; a timeout   *)
(* is not after any timer.                                                 *)
(***************************************************************************)
Punctual(q, doc, i, f, o, begun, time) ==
    /\ IsList(q) /\ IsList(doc) /\ f \in Nat /\ i \in {0, 1} /\ (i = 1 => f > 0)
    /\ time \in Nat /\ begun \in Nat /\ o \in Nat \cup {None}
    /\ \A e \in ToSet(q) : IsTimer(e)
    /\ f > 0 => /\ begun <= time /\ time <= begun + Lag
                /\ \A e \in ToSet(q) : begun < e.then + e.wait + e.duration \/ begun <= e.then + e.wait + Lag
    /\ o # None => time <= o + Lag
    /\ f = 0 /\ q # <<>> => o # None /\ \A e \in ToSet(q) : o <= e.then + e.delay

PunctualInv == thrown \/ Punctual(queue, dom, interval, frames, timeout, since, now)

LEMMA PunctualInvInit == AxisInit => PunctualInv
<1>1. IsList(<<>>) /\ ToSet(<<>>) = {}
  <2>1. <<>> \in Seq({})
    OBVIOUS
  <2> QED
    BY <2>1 DEF IsList, ToSet
<1> QED
  BY <1>1 DEF AxisInit, PunctualInv, Punctual

\* What a step finds.
LEMMA CurrentIs ==
    ASSUME Punctual(queue, dom, interval, frames, timeout, since, now)
    PROVE  /\ IsState(Current) /\ Current.kept = <<>> /\ Current.queue = queue /\ Current.interval = interval
           /\ Current.frames = frames /\ Current.timeout = timeout /\ Current.dom = dom
           /\ Current.since = IF frames = 0 THEN now ELSE since
<1>1. IsList(<<>>)
  <2>1. <<>> \in Seq({})
    OBVIOUS
  <2> QED
    BY <2>1 DEF IsList
<1> QED
  BY <1>1 DEF Current, IsState, StepFields, Punctual

LEMMA BecomesPunctual ==
    ASSUME NEW s, Become(s), ~thrown, thrown' = thrown,
           Punctual(s.queue, s.dom, s.interval, s.frames, s.timeout, IF s.frames = 0 THEN 0 ELSE s.since, now')
    PROVE  PunctualInv'
  BY DEF Become, PunctualInv

\* Midway the time of a step everything that stays in the queue is not over, or was in it before.
LEMMA StaysPunctual ==
    ASSUME Punctual(queue, dom, interval, frames, timeout, since, now)
    PROVE  LET begun == IF frames = 0 THEN now ELSE since
           IN  begun \in Nat /\ begun <= now /\ now <= begun + Lag
               /\ \A e \in ToSet(queue) : begun < e.then + e.wait + e.duration \/ begun <= e.then + e.wait + Lag
<1>1. CASE frames > 0
  BY <1>1 DEF Punctual
<1>2. CASE frames = 0
  <2>1. now \in Nat /\ now <= now + Lag
    BY TimeAssumption DEF Punctual
  <2>2. ASSUME NEW e \in ToSet(queue) PROVE now <= e.then + e.wait + Lag
    <3>1. queue # <<>>
      BY DEF ToSet
    <3>2. timeout \in Nat /\ now <= timeout + Lag /\ timeout <= e.then + e.delay /\ IsTimer(e)
      BY <1>2, <3>1 DEF Punctual
    <3> QED
      BY <2>1, <3>2, TimeAssumption DEF IsTimer
  <2> QED
    BY <1>2, <2>1, <2>2
<1> QED
  BY <1>1, <1>2 DEF Punctual

LEMMA FreshIsPunctual ==
    ASSUME NEW e, NEW time \in Nat, Fresh(e, time), NEW begun \in Nat, begun <= time
    PROVE  IsTimer(e) /\ begun < e.then + e.wait + e.duration
  BY DEF Fresh, IsTimer

\* A step that begins now and has called the timers that are due.
LEMMA SteppedIsPunctual ==
    ASSUME Punctual(queue, dom, interval, frames, timeout, since, now), ~thrown, UNCHANGED <<now, thrown>>,
           NEW s, s.queue = queue, s.since = now, s.timeout \in {timeout, None},
           NEW done, Passed(s, done, DueNow, now), Become(Reschedule(done, now))
    PROVE  PunctualInv'
<1> DEFINE r == Reschedule(done, now)
<1>1. now \in Nat /\ \A e \in ToSet(queue) : IsTimer(e)
  BY DEF Punctual
<1>3. ASSUME NEW e \in ToSet(done.queue) PROVE IsTimer(e) /\ now < e.then + e.wait + e.duration
  <2>1. CASE Fresh(e, now)
    BY <1>1, <2>1, FreshIsPunctual
  <2>2. CASE e \in ToSet(queue) /\ e \notin DueNow
    BY <1>1, <2>2 DEF DueNow, Due, IsTimer
  <2> QED
    BY <2>1, <2>2 DEF Passed
<1>4. IsState(done) /\ done.since = now /\ done.timeout \in {timeout, None}
  BY DEF Passed
<1>5. /\ IsState(r) /\ r.queue = done.queue /\ r.since = now
      /\ r.interval \in {0, 1} /\ (r.interval = 1 => r.frames > 0)
      /\ r.timeout = done.timeout \/ (r.timeout \in Nat /\ r.timeout >= now)
      /\ r.frames = 0 /\ done.queue # <<>> =>
            r.timeout \in Nat /\ \A e \in ToSet(done.queue) : r.timeout <= e.then + e.delay
  BY <1>1, <1>3, <1>4, RescheduleIs
<1>6. Become(r)
  OBVIOUS
<1> HIDE DEF r
<1>7. r.timeout \in Nat \cup {None} /\ (r.timeout # None => now <= r.timeout + Lag)
  BY <1>1, <1>4, <1>5, TimeAssumption DEF Punctual
<1>8. r.frames \in Nat /\ IsList(r.queue) /\ IsList(r.dom)
  BY <1>5 DEF IsState
<1>9. None \notin Nat /\ now <= now + Lag
  BY <1>1, TimeAssumption
<1> DEFINE begun == IF r.frames = 0 THEN 0 ELSE r.since
<1>10. begun \in Nat /\ (r.frames > 0 => begun = now)
  BY <1>1, <1>5, <1>8
<1> HIDE DEF begun
<1>11. Punctual(r.queue, r.dom, r.interval, r.frames, r.timeout, begun, now)
  BY <1>1, <1>3, <1>5, <1>7, <1>8, <1>9, <1>10 DEF Punctual
<1> QED
  BY <1>6, <1>11, BecomesPunctual DEF begun

LEMMA StepIsPunctual ==
    ASSUME Punctual(queue, dom, interval, frames, timeout, since, now), ~thrown, UNCHANGED <<now, thrown>>,
           NEW s, IsState(s), s.kept = <<>>, s.interval \in {0, 1}, s.queue = queue, s.since = now,
           s.timeout \in {timeout, None}, Step(s)
    PROVE  PunctualInv'
<1> DEFINE done == CallAll(s, queue, DueNow, now)
<1>1. now \in Nat /\ \A e \in ToSet(s.queue) : IsTimer(e)
  BY DEF Punctual
<1>2. Passed(s, done, DueNow, now)
  <2>1. Passed(s, CallAll(s, s.queue, DueNow, now), DueNow, now)
    BY <1>1, CallAllPasses
  <2> QED
    BY <2>1
<1>3. Become(Reschedule(done, now))
  BY DEF Step
<1> HIDE DEF done
<1> QED
  BY <1>2, <1>3, SteppedIsPunctual

\* What a frame and a timeout begin with.
LEMMA StepBegins ==
    ASSUME Punctual(queue, dom, interval, frames, timeout, since, now), NEW s,
           (s = AsFrame /\ frames > 0) \/ s = AsTimeout
    PROVE  /\ IsState(s) /\ s.kept = <<>> /\ s.interval \in {0, 1} /\ s.queue = queue /\ s.since = now
           /\ s.timeout \in {timeout, None}
<1>1. /\ IsState(Current) /\ Current.kept = <<>> /\ Current.queue = queue /\ Current.interval \in {0, 1}
      /\ Current.frames = frames /\ Current.timeout = timeout /\ frames \in Nat
  BY CurrentIs DEF Punctual
<1>2. CASE s = AsFrame /\ frames > 0
  <2>1. frames - 1 \in Nat
    BY <1>1, <1>2
  <2> QED
    BY <1>1, <1>2, <2>1 DEF AsFrame, IsState, StepFields
<1>3. CASE s = AsTimeout
  BY <1>1, <1>3 DEF AsTimeout, IsState, StepFields
<1> QED
  BY <1>2, <1>3

LEMMA FrameIsPunctual ==
    ASSUME Punctual(queue, dom, interval, frames, timeout, since, now), ~thrown, Frame \/ Timeout
    PROVE  PunctualInv'
<1>1. PICK s \in {AsFrame, AsTimeout} : /\ (s = AsFrame /\ frames > 0) \/ s = AsTimeout
                                        /\ Step(s) /\ UNCHANGED <<now, thrown>>
  BY DEF Frame, Timeout
<1>2. /\ IsState(s) /\ s.kept = <<>> /\ s.interval \in {0, 1} /\ s.queue = queue /\ s.since = now
      /\ s.timeout \in {timeout, None}
  BY <1>1, StepBegins
<1> QED
  BY <1>1, <1>2, StepIsPunctual

\* A flush that has called the timers that have no delay.
LEMMA FlushedIsPunctual ==
    ASSUME Punctual(queue, dom, interval, frames, timeout, since, now), ~thrown, UNCHANGED <<now, thrown>>,
           queue # <<>>, NEW ready, NEW r, Passed(Current, r, ready, now), Become(r)
    PROVE  PunctualInv'
<1> DEFINE s == Current
           base == IF frames = 0 THEN now ELSE since
<1>1. /\ IsState(s) /\ s.kept = <<>> /\ s.queue = queue /\ s.interval = interval /\ s.interval \in {0, 1}
      /\ s.frames = frames /\ s.timeout = timeout /\ s.since = base
  BY CurrentIs DEF Punctual
<1>2. /\ now \in Nat /\ frames \in Nat /\ timeout \in Nat \cup {None} /\ (interval = 1 => frames > 0)
      /\ \A e \in ToSet(queue) : IsTimer(e)
  BY DEF Punctual
<1>3. Become(r) /\ UNCHANGED <<now, thrown>>
  OBVIOUS
<1>4. Passed(s, r, ready, now)
  OBVIOUS
<1> HIDE DEF s
<1>5. /\ base \in Nat /\ base <= now /\ now <= base + Lag
      /\ \A e \in ToSet(queue) : base < e.then + e.wait + e.duration \/ base <= e.then + e.wait + Lag
  BY StaysPunctual
<1> HIDE DEF base
<1>6. ASSUME NEW e \in ToSet(r.queue)
      PROVE  IsTimer(e) /\ (base < e.then + e.wait + e.duration \/ base <= e.then + e.wait + Lag)
  <2>1. Fresh(e, now) \/ e \in ToSet(queue)
    BY <1>1, <1>4 DEF Passed
  <2> QED
    BY <1>2, <1>5, <2>1, FreshIsPunctual
<1>7. /\ IsState(r) /\ r.since = base /\ r.timeout \in {timeout, None} /\ r.interval \in {0, 1}
      /\ (r.interval = 1 => r.frames > 0)
      /\ r.interval = 1 \/ (r.frames = frames /\ r.timeout = timeout /\ ToSet(r.queue) \subseteq ToSet(queue))
  BY <1>1, <1>2, <1>4 DEF Passed
<1>8. r.frames \in Nat /\ IsList(r.queue) /\ IsList(r.dom)
  BY <1>7 DEF IsState
<1> DEFINE begun == IF r.frames = 0 THEN 0 ELSE r.since
<1>9. begun \in Nat /\ (r.frames > 0 => begun = base)
  BY <1>5, <1>7, <1>8
<1> HIDE DEF begun
<1>10. r.timeout \in Nat \cup {None} /\ (r.timeout # None => now <= r.timeout + Lag)
  BY <1>7 DEF Punctual
<1>11. ASSUME r.frames = 0 PROVE r.timeout # None /\ \A e \in ToSet(r.queue) : r.timeout <= e.then + e.delay
  <2>1. frames = 0 /\ r.timeout = timeout /\ ToSet(r.queue) \subseteq ToSet(queue)
    BY <1>7, <1>11
  <2> QED
    BY <2>1 DEF Punctual
<1>12. Punctual(r.queue, r.dom, r.interval, r.frames, r.timeout, begun, now)
  BY <1>2, <1>5, <1>6, <1>7, <1>8, <1>9, <1>10, <1>11 DEF Punctual
<1> QED
  BY <1>3, <1>12, BecomesPunctual DEF begun

LEMMA FlushIsPunctual ==
    ASSUME Punctual(queue, dom, interval, frames, timeout, since, now), ~thrown, Flush
    PROVE  PunctualInv'
<1> DEFINE s == Current
           r == CallAll(s, queue, Undelayed, now)
<1>1. IsState(s) /\ s.kept = <<>> /\ s.queue = queue /\ s.interval \in {0, 1}
  BY CurrentIs DEF Punctual
<1>2. now \in Nat /\ \A e \in ToSet(s.queue) : IsTimer(e)
  BY <1>1 DEF Punctual
<1>3. Become(r) /\ UNCHANGED <<now, thrown>> /\ queue # <<>>
  BY DEF Flush
<1>4. Passed(s, r, Undelayed, now)
  <2> HIDE DEF s
  <2>1. Passed(s, CallAll(s, s.queue, Undelayed, now), Undelayed, now)
    BY <1>1, <1>2, CallAllPasses
  <2> QED
    BY <1>1, <2>1
<1> HIDE DEF r
<1> QED
  BY <1>3, <1>4, FlushedIsPunctual

GrowsTo(s, t, r, time) == IsState(r) /\ Grown(s, r, time) /\ r.kept = t.kept

LEMMA TransitionGrows ==
    ASSUME NEW s, NEW t, NEW time \in Nat, IsState(s), IsState(t), Grown(s, t, time), NEW id, NEW group,
           NEW delay \in Nat, NEW duration \in Nat \ {0}, NEW goal, NEW removes, IsList(group)
    PROVE  GrowsTo(s, t, Transition(t, id, group, delay, duration, goal, removes, time), time)
<1> DEFINE e == [fn |-> "begin", id |-> id, group |-> Nodes(group), node |-> Hole, then |-> time, delay |-> 0,
                 wait |-> delay, duration |-> duration, target |-> goal, removes |-> removes, tweened |-> FALSE]
           r == Timer(t, e)
<1>1. IsList(Nodes(group))
  BY AmongIsList DEF Nodes
<1>2. Fresh(e, time)
  <2>1. IsTimer(e)
    BY <1>1 DEF IsTimer, TimerFields
  <2>2. time < time + delay + duration
    OBVIOUS
  <2> QED
    BY <2>1, <2>2 DEF Fresh
<1>3. Transition(t, id, group, delay, duration, goal, removes, time) = r
  BY DEF Transition
<1> HIDE DEF e
<1>4. GrowsTo(s, t, r, time)
  BY <1>2, GrownTimer DEF GrowsTo
<1> QED
  BY <1>3, <1>4

\* A redraw as a transition, whenever it comes, adds timers and asks for a frame.
LEMMA AnimatedGrows ==
    ASSUME NEW s, IsState(s), s.interval \in {0, 1}, now \in Nat, NEW data \in Ticks, NEW id,
           NEW delay \in Delays, NEW duration \in Durations
    PROVE  LET r == Animated(s, data, id, delay, duration)
           IN  IsState(r) /\ Grown(s, r, now) /\ r.kept = s.kept /\ r.interval = 1
<1> DEFINE drawn == Draw(s, data, Stashed)
           s0 == [s EXCEPT !.nodes = drawn.nodes, !.dom = drawn.dom]
           s1 == Transition(s0, id, drawn.exit, delay, duration, Faint(version + 1), TRUE, now)
           s2 == Transition(s1, id, drawn.update, delay, duration, Opaque(version + 1), FALSE, now)
           s3 == Transition(s2, id, drawn.path, delay, duration, Opaque(version + 1), FALSE, now)
<1>1. Animated(s, data, id, delay, duration) = s3
  BY DEF Animated
<1>2. delay \in Nat /\ duration \in Nat \ {0} /\ now \in Nat /\ IsState(s)
  BY RedrawAssumption
<1>3. IsList(drawn.exit) /\ IsList(drawn.update) /\ IsList(drawn.path) /\ IsList(drawn.dom)
  BY DrawnLists DEF IsState
<1> HIDE DEF drawn
<1>4. /\ IsState(s0) /\ s0.queue = s.queue /\ s0.interval = s.interval /\ s0.frames = s.frames
      /\ s0.timeout = s.timeout /\ s0.since = s.since /\ s0.kept = s.kept
  BY <1>3 DEF IsState, StepFields
<1> HIDE DEF s0
<1>5. Grown(s, s0, now)
  <2> DEFINE m == Len(s.queue)
  <2>1. m \in Nat /\ s.frames \in Nat
    BY ListHas DEF IsState
  <2>2. m - m = 0 /\ \A i \in 1 .. m : m - m + i = i
    BY <2>1
  <2> QED
    BY <1>4, <2>1, <2>2 DEF Grown
<1>6. IsState(s1) /\ Grown(s, s1, now) /\ s1.kept = s.kept
  <2>1. GrowsTo(s, s0, s1, now)
    BY ONLY <1>2, <1>3, <1>4, <1>5, TransitionGrows
  <2> QED
    BY <1>4, <2>1 DEF GrowsTo
<1> HIDE DEF s1
<1>7. IsState(s2) /\ Grown(s, s2, now) /\ s2.kept = s.kept
  <2>1. GrowsTo(s, s1, s2, now)
    BY ONLY <1>2, <1>3, <1>6, TransitionGrows
  <2> QED
    BY <1>6, <2>1 DEF GrowsTo
<1> HIDE DEF s2
<1>8. IsState(s3) /\ Grown(s, s3, now) /\ s3.kept = s.kept
  <2>1. GrowsTo(s, s2, s3, now)
    BY ONLY <1>2, <1>3, <1>7, TransitionGrows
  <2> QED
    BY <1>7, <2>1 DEF GrowsTo
<1>9. s3.interval = 1
  <2> DEFINE e == [fn |-> "begin", id |-> id, group |-> Nodes(drawn.path), node |-> Hole,
                   then |-> now, delay |-> 0, wait |-> delay, duration |-> duration,
                   target |-> Opaque(version + 1), removes |-> FALSE, tweened |-> FALSE]
  <2>1. s3 = Timer(s2, e)
    BY DEF Transition
  <2> HIDE DEF e, s3
  <2> QED
    BY <1>7, <2>1 DEF Timer, IsState, StepFields
<1> HIDE DEF s3
<1> QED
  BY <1>1, <1>8, <1>9

\* A redraw at once changes the nodes and the document.
LEMMA RedrawnIsSame ==
    ASSUME NEW s, IsState(s), NEW data \in Ticks
    PROVE  Same(s, RedrawnAtOnce(s, data))
<1> DEFINE drawn == Draw(s, data, Stashed)
           shown == ToSet(Nodes(drawn.update)) \cup ToSet(drawn.path)
           ns == <<>> \o [n \in DOMAIN drawn.nodes |->
                              IF n \in shown THEN [drawn.nodes[n] EXCEPT !.look = Opaque(version + 1)]
                              ELSE drawn.nodes[n]]
           doc == Without(drawn.dom, ToSet(Nodes(drawn.exit)))
<1>1. RedrawnAtOnce(s, data) = [s EXCEPT !.nodes = ns, !.dom = doc]
  BY DEF RedrawnAtOnce
<1>2. IsList(drawn.dom)
  BY DrawnLists DEF IsState
<1> HIDE DEF drawn
<1>3. IsList(doc)
  BY <1>2, AmongIsList DEF Without
<1> HIDE DEF ns, doc
<1> QED
  BY <1>1, <1>3 DEF Same, IsState, StepFields

LEMMA RedrawAxisIsPunctual ==
    ASSUME Punctual(queue, dom, interval, frames, timeout, since, now), ~thrown,
           NEW data \in Ticks, NEW delay \in Delays, NEW duration \in Durations, RedrawAxis(data, delay, duration)
    PROVE  PunctualInv'
<1> DEFINE s == Current
           r == Animated(Current, data, version + 1, delay, duration)
           base == IF frames = 0 THEN now ELSE since
<1>1. Become(r) /\ UNCHANGED <<now, thrown>>
  BY DEF RedrawAxis
<1>2. /\ now \in Nat /\ frames \in Nat /\ interval \in {0, 1} /\ timeout \in Nat \cup {None}
      /\ (interval = 1 => frames > 0) /\ \A e \in ToSet(queue) : IsTimer(e)
  BY DEF Punctual
<1>3. /\ IsState(s) /\ s.queue = queue /\ s.interval = interval /\ s.frames = frames /\ s.timeout = timeout
      /\ s.since = base
  BY CurrentIs
<1> HIDE DEF s, base
<1>4. IsState(r) /\ Grown(s, r, now) /\ r.interval = 1
  BY <1>2, <1>3, AnimatedGrows DEF s
<1> HIDE DEF r
<1>5. /\ base \in Nat /\ base <= now /\ now <= base + Lag
      /\ \A e \in ToSet(queue) : base < e.then + e.wait + e.duration \/ base <= e.then + e.wait + Lag
  BY StaysPunctual DEF base
<1>6. ASSUME NEW e \in ToSet(r.queue)
      PROVE  IsTimer(e) /\ (base < e.then + e.wait + e.duration \/ base <= e.then + e.wait + Lag)
  <2>1. Fresh(e, now) \/ e \in ToSet(queue)
    BY <1>3, <1>4, GrownHas
  <2> QED
    BY <1>2, <1>5, <2>1, FreshIsPunctual
<1>7. r.since = base /\ r.timeout \in {timeout, None} /\ r.frames \in Nat /\ r.frames > 0
  BY <1>2, <1>3, <1>4 DEF Grown
<1>8. IsList(r.queue) /\ IsList(r.dom)
  BY <1>4 DEF IsState
<1>9. r.timeout \in Nat \cup {None} /\ (r.timeout # None => now <= r.timeout + Lag)
  BY <1>7 DEF Punctual
<1>10. Punctual(r.queue, r.dom, r.interval, r.frames, r.timeout, r.since, now)
  BY <1>2, <1>4, <1>5, <1>6, <1>7, <1>8, <1>9 DEF Punctual
<1>11. (IF r.frames = 0 THEN 0 ELSE r.since) = r.since
  BY <1>7
<1> QED
  BY <1>1, <1>10, <1>11, BecomesPunctual

LEMMA RedrawAtOnceIsPunctual ==
    ASSUME Punctual(queue, dom, interval, frames, timeout, since, now), ~thrown,
           NEW data \in Ticks, RedrawAtOnce(data)
    PROVE  PunctualInv'
<1> DEFINE r == RedrawnAtOnce(Current, data)
<1>1. dom' = r.dom /\ UNCHANGED <<now, queue, interval, frames, timeout, since, thrown>>
  BY DEF RedrawAtOnce, timerVars
<1>2. Same(Current, r)
  BY CurrentIs, RedrawnIsSame
<1> HIDE DEF r
<1>3. IsList(dom')
  BY <1>1, <1>2 DEF Same, IsState
<1> QED
  BY <1>1, <1>3 DEF PunctualInv, Punctual

(***************************************************************************)
(* A redraw in the middle of a step: m is what became of s when the timers *)
(* before the tail of its queue were called.                               *)
(***************************************************************************)
Halfway(s, m, tail, ready, time) ==
    /\ IsState(m) /\ m.kept = <<>> /\ m.since = s.since /\ m.timeout \in {s.timeout, None}
    /\ s.frames <= m.frames /\ m.interval \in {0, 1}
    /\ (s.interval = 1 => s.frames > 0) => (m.interval = 1 => m.frames > 0)
    /\ Len(tail) <= Len(m.queue) /\ ToSet(tail) \subseteq ToSet(m.queue)
    /\ \A k \in 1 .. Len(m.queue) - Len(tail) :
          Fresh(m.queue[k], time) \/ (m.queue[k] \in ToSet(s.queue) /\ m.queue[k] \notin ready)
    /\ \/ m.interval = 1
       \/ m.frames = s.frames /\ m.timeout = s.timeout /\ ToSet(m.queue) \subseteq ToSet(s.queue)

LEMMA TailOfList ==
    ASSUME NEW q, IsList(q), NEW i \in 0 .. Len(q)
    PROVE  IsList(SubSeq(q, i + 1, Len(q))) /\ ToSet(SubSeq(q, i + 1, Len(q))) \subseteq ToSet(q)
<1> DEFINE E == ToSet(q)
           l == Len(q)
           part == SubSeq(q, i + 1, l)
<1>1. q \in Seq(E) /\ l \in Nat
  BY ListHas
<1> HIDE DEF E
<1>2. part \in Seq(E)
  BY <1>1
<1> HIDE DEF part, l
<1>3. IsList(part)
  BY <1>2 DEF IsList
<1>4. ToSet(part) = {part[j] : j \in 1 .. Len(part)}
  BY <1>3, ListHas
<1>5. ToSet(part) \subseteq E
  BY <1>2, <1>4
<1> QED
  BY <1>3, <1>5 DEF part, l, E

LEMMA CallUpToIsHalfway ==
    ASSUME NEW s, IsState(s), s.kept = <<>>, s.interval \in {0, 1}, s.queue = queue, now \in Nat,
           \A e \in ToSet(queue) : IsTimer(e), NEW i \in 0 .. Len(queue), NEW ready
    PROVE  Halfway(s, CallUpTo(s, i, ready), SubSeq(queue, i + 1, Len(queue)), ready, now)
<1> DEFINE part == SubSeq(queue, 1, i)
           tail == SubSeq(queue, i + 1, Len(queue))
           p == [s EXCEPT !.queue = part]
           called == CallAll(p, part, ready, now)
           m == CallUpTo(s, i, ready)
           more == called.queue \o tail
<1>1. IsList(queue) /\ Len(queue) \in Nat /\ ToSet(queue) = {queue[k] : k \in 1 .. Len(queue)}
  BY ListHas DEF IsState
<1>2. IsList(part) /\ ToSet(part) = {queue[k] : k \in 1 .. i} /\ Len(part) = i
  BY <1>1, PartOfList
<1>3. \A k \in 1 .. i : k \in 1 .. Len(queue)
  BY <1>1
<1>4. ToSet(part) \subseteq ToSet(queue)
  BY <1>1, <1>2, <1>3
<1>5. IsList(tail) /\ ToSet(tail) \subseteq ToSet(queue)
  BY <1>1, TailOfList
<1>6. m = [called EXCEPT !.queue = more]
  BY DEF CallUpTo
<1> HIDE DEF tail, part, m
<1>7. /\ IsState(p) /\ p.queue = part /\ p.kept = <<>> /\ p.interval = s.interval /\ p.frames = s.frames
      /\ p.timeout = s.timeout /\ p.since = s.since
  BY <1>2 DEF IsState, StepFields
<1> HIDE DEF p
<1>8. PassedLast(p, called, part, ready, now)
  BY <1>2, <1>4, <1>7, CallAllPassesLast
<1>9. ~\E k \in 1 .. Len(part) - Len(part) : TRUE
  BY <1>2
<1> HIDE DEF called
<1>10. /\ IsState(called) /\ called.kept = <<>> /\ called.since = s.since /\ called.timeout \in {s.timeout, None}
       /\ s.frames <= called.frames /\ called.interval \in {0, 1}
       /\ (s.interval = 1 => s.frames > 0) => (called.interval = 1 => called.frames > 0)
       /\ \/ called.interval = 1
          \/ called.frames = s.frames /\ called.timeout = s.timeout /\ ToSet(called.queue) \subseteq ToSet(part)
  BY <1>7, <1>8 DEF PassedLast
<1>11. \A e \in ToSet(called.queue) : Fresh(e, now) \/ (e \in ToSet(part) /\ e \notin ready)
  BY <1>7, <1>8, <1>9 DEF PassedLast
<1>12. IsList(called.queue)
  BY <1>10 DEF IsState
<1>13. /\ Len(called.queue) \in Nat /\ ToSet(called.queue) = {called.queue[k] : k \in 1 .. Len(called.queue)}
       /\ Len(tail) \in Nat /\ ToSet(tail) = {tail[k] : k \in 1 .. Len(tail)}
  BY <1>5, <1>12, ListHas
<1>14. /\ IsList(more) /\ Len(more) = Len(called.queue) + Len(tail)
       /\ \A k \in 1 .. Len(called.queue) : more[k] = called.queue[k]
       /\ \A k \in 1 .. Len(tail) : more[Len(called.queue) + k] = tail[k]
       /\ ToSet(more) \subseteq ToSet(called.queue) \cup ToSet(tail)
  BY <1>5, <1>12, JoinedLists
<1> HIDE DEF more
<1>15. ToSet(more) = {more[k] : k \in 1 .. Len(more)}
  BY <1>14, ListHas
<1>16. /\ IsState(m) /\ m.queue = more /\ m.kept = <<>> /\ m.since = called.since /\ m.timeout = called.timeout
       /\ m.frames = called.frames /\ m.interval = called.interval
  BY <1>6, <1>10, <1>14 DEF IsState, StepFields
<1> DEFINE c == Len(called.queue)
           l == Len(tail)
<1> HIDE DEF c, l
<1>17. ToSet(tail) \subseteq ToSet(more) /\ l <= Len(more)
  <2>1. c \in Nat /\ l \in Nat /\ Len(more) = c + l
    BY <1>13, <1>14 DEF c, l
  <2>2. \A k \in 1 .. l : c + k \in 1 .. c + l
    BY <2>1
  <2>3. \A k \in 1 .. l : more[c + k] = tail[k]
    BY <1>14 DEF c, l
  <2>4. \A k \in 1 .. l : tail[k] \in ToSet(more)
    BY <1>15, <2>1, <2>2, <2>3
  <2> QED
    BY <1>13, <2>1, <2>4 DEF l
<1>18. ASSUME NEW k \in 1 .. Len(more) - l
       PROVE  Fresh(more[k], now) \/ (more[k] \in ToSet(queue) /\ more[k] \notin ready)
  <2>1. k \in 1 .. c
    BY <1>13, <1>14 DEF c, l
  <2>2. more[k] \in ToSet(called.queue)
    BY <1>13, <1>14, <2>1 DEF c
  <2> QED
    BY <1>4, <1>11, <2>2
<1>19. Halfway(s, m, tail, ready, now)
  BY <1>4, <1>5, <1>10, <1>14, <1>16, <1>17, <1>18 DEF Halfway, l
<1> QED
  BY <1>19 DEF m, tail

LEMMA HalfwaySame ==
    ASSUME NEW s, NEW m, NEW r, NEW tail, NEW ready, NEW time, Halfway(s, m, tail, ready, time), Same(m, r)
    PROVE  Halfway(s, r, tail, ready, time)
  BY DEF Halfway, Same

LEMMA HalfwayGrown ==
    ASSUME NEW s, NEW m, NEW r, NEW tail, NEW ready, NEW time, Halfway(s, m, tail, ready, time), IsState(s),
           IsList(tail), IsState(r), Grown(m, r, time), r.kept = m.kept, r.interval = 1
    PROVE  Halfway(s, r, tail, ready, time)
<1> DEFINE a == Len(m.queue)
           b == Len(r.queue)
           l == Len(tail)
<1>1. /\ a \in Nat /\ b \in Nat /\ l \in Nat /\ IsState(m) /\ s.frames \in Nat
      /\ ToSet(m.queue) = {m.queue[k] : k \in 1 .. a} /\ ToSet(r.queue) = {r.queue[k] : k \in 1 .. b}
  BY ListHas DEF IsState, Halfway
<1>2. /\ a <= b /\ (\A k \in 1 .. b - a : Fresh(r.queue[k], time))
      /\ \A k \in 1 .. a : r.queue[b - a + k] = m.queue[k]
  BY DEF Grown
<1>3. /\ l <= a /\ ToSet(tail) \subseteq ToSet(m.queue)
      /\ \A k \in 1 .. a - l :
            Fresh(m.queue[k], time) \/ (m.queue[k] \in ToSet(s.queue) /\ m.queue[k] \notin ready)
  BY DEF Halfway
<1> HIDE DEF a, b, l
<1>4. ToSet(m.queue) \subseteq ToSet(r.queue)
  <2>1. \A k \in 1 .. a : b - a + k \in 1 .. b
    BY <1>1, <1>2
  <2> QED
    BY <1>1, <1>2, <2>1
<1>5. ASSUME NEW k \in 1 .. b - l
      PROVE  Fresh(r.queue[k], time) \/ (r.queue[k] \in ToSet(s.queue) /\ r.queue[k] \notin ready)
  <2>1. CASE k <= b - a
    <3>1. k \in 1 .. b - a
      BY <1>1, <1>2, <2>1
    <3> QED
      BY <1>2, <3>1
  <2>2. CASE k > b - a
    <3> DEFINE j == k - (b - a)
    <3>1. j \in 1 .. a - l /\ j \in 1 .. a /\ b - a + j = k
      BY <1>1, <1>2, <1>3, <2>2
    <3> HIDE DEF j
    <3> QED
      BY <1>2, <1>3, <3>1
  <2> QED
    BY <1>1, <1>2, <2>1, <2>2
<1>6. /\ r.since = s.since /\ r.timeout \in {s.timeout, None} /\ s.frames <= r.frames
      /\ (s.interval = 1 => s.frames > 0) => (r.interval = 1 => r.frames > 0)
  <2>1. /\ m.since = s.since /\ m.timeout \in {s.timeout, None} /\ s.frames <= m.frames /\ m.frames \in Nat
        /\ (s.interval = 1 => s.frames > 0) => (m.interval = 1 => m.frames > 0)
    BY <1>1 DEF Halfway, IsState
  <2>2. /\ r.since = m.since /\ r.timeout \in {m.timeout, None} /\ r.frames \in Nat /\ m.frames <= r.frames
        /\ (m.interval = 1 => m.frames > 0) => (r.interval = 1 => r.frames > 0)
    BY DEF Grown
  <2> QED
    BY <1>1, <2>1, <2>2
<1>7. r.kept = <<>>
  BY DEF Halfway
<1>8. l <= b /\ ToSet(tail) \subseteq ToSet(r.queue)
  BY <1>1, <1>2, <1>3, <1>4
<1> QED
  BY <1>5, <1>6, <1>7, <1>8 DEF Halfway, b, l

LEMMA HalfwayPasses ==
    ASSUME NEW s, NEW m, NEW tail, NEW ready, NEW time \in Nat, Halfway(s, m, tail, ready, time), IsState(s),
           IsList(tail), ToSet(tail) \subseteq ToSet(s.queue), \A e \in ToSet(tail) : IsTimer(e)
    PROVE  Passed(s, CallAll(m, tail, ready, time), ready, time)
<1> DEFINE r == CallAll(m, tail, ready, time)
<1>1. IsState(m) /\ m.kept = <<>> /\ m.interval \in {0, 1} /\ Len(tail) <= Len(m.queue) /\ ToSet(tail) \subseteq ToSet(m.queue)
  BY DEF Halfway
<1>2. PassedLast(m, r, tail, ready, time)
  BY <1>1, CallAllPassesLast
<1> HIDE DEF r
<1>3. \A e \in ToSet(r.queue) : Fresh(e, time) \/ (e \in ToSet(s.queue) /\ e \notin ready)
  <2> SUFFICES ASSUME NEW e \in ToSet(r.queue) PROVE Fresh(e, time) \/ (e \in ToSet(s.queue) /\ e \notin ready)
    OBVIOUS
  <2>1. \/ Fresh(e, time) \/ (e \in ToSet(tail) /\ e \notin ready)
        \/ \E i \in 1 .. Len(m.queue) - Len(tail) : e = m.queue[i]
    BY <1>2 DEF PassedLast
  <2>2. \A k \in 1 .. Len(m.queue) - Len(tail) :
           Fresh(m.queue[k], time) \/ (m.queue[k] \in ToSet(s.queue) /\ m.queue[k] \notin ready)
    BY DEF Halfway
  <2> QED
    BY <2>1, <2>2
<1>4. /\ IsState(r) /\ r.since = m.since /\ r.timeout \in {m.timeout, None} /\ m.frames <= r.frames
      /\ r.interval \in {0, 1} /\ (m.interval = 1 => r.interval = 1)
      /\ (m.interval = 1 => m.frames > 0) => (r.interval = 1 => r.frames > 0)
      /\ \/ r.interval = 1
         \/ r.frames = m.frames /\ r.timeout = m.timeout /\ ToSet(r.queue) \subseteq ToSet(m.queue)
  BY <1>2 DEF PassedLast
<1>5. /\ m.since = s.since /\ m.timeout \in {s.timeout, None} /\ s.frames <= m.frames
      /\ (s.interval = 1 => s.frames > 0) => (m.interval = 1 => m.frames > 0)
      /\ \/ m.interval = 1
         \/ m.frames = s.frames /\ m.timeout = s.timeout /\ ToSet(m.queue) \subseteq ToSet(s.queue)
  BY DEF Halfway
<1>6. r.frames \in Nat /\ m.frames \in Nat /\ s.frames \in Nat
  BY <1>1, <1>4 DEF IsState
<1>7. r.interval = 1 \/ (r.frames = s.frames /\ r.timeout = s.timeout /\ ToSet(r.queue) \subseteq ToSet(s.queue))
  BY <1>4, <1>5
<1>8. s.frames <= r.frames
  BY <1>4, <1>5, <1>6
<1>9. r.since = s.since /\ r.timeout \in {s.timeout, None}
  BY <1>4, <1>5
<1>10. (s.interval = 1 => s.frames > 0) => (r.interval = 1 => r.frames > 0)
  BY <1>4, <1>5
<1>11. IsState(r) /\ r.interval \in {0, 1}
  BY <1>4
<1>12. Passed(s, r, ready, time)
  BY <1>3, <1>7, <1>8, <1>9, <1>10, <1>11 DEF Passed
<1> QED
  BY <1>12 DEF r

LEMMA InterruptedPasses ==
    ASSUME NEW s, IsState(s), s.kept = <<>>, s.interval \in {0, 1}, s.queue = queue, now \in Nat,
           \A e \in ToSet(queue) : IsTimer(e), NEW i \in 0 .. Len(queue), NEW ready, NEW data \in Ticks,
           NEW r \in Interrupted(s, i, ready, data)
    PROVE  Passed(s, r, ready, now)
<1> DEFINE called == CallUpTo(s, i, ready)
           tail == SubSeq(queue, i + 1, Len(queue))
<1>1. IsList(queue)
  BY DEF IsState
<1>2. IsList(tail) /\ ToSet(tail) \subseteq ToSet(queue)
  BY <1>1, TailOfList
<1>3. Halfway(s, called, tail, ready, now)
  BY CallUpToIsHalfway
<1>4. \/ r = CallFrom(RedrawnAtOnce(called, data), i, ready)
      \/ \E id \in 1 .. version + 1, delay \in Delays, duration \in Durations :
            r = CallFrom(Animated(called, data, id, delay, duration), i, ready)
  BY DEF Interrupted, Redrawn
<1>5. \A m : CallFrom(m, i, ready) = CallAll(m, tail, ready, now)
  BY DEF CallFrom
<1> HIDE DEF tail, called
<1>6. PICK m : Halfway(s, m, tail, ready, now) /\ r = CallFrom(m, i, ready)
  <2>1. IsState(called) /\ called.interval \in {0, 1}
    BY <1>3 DEF Halfway
  <2>2. CASE r = CallFrom(RedrawnAtOnce(called, data), i, ready)
    <3> DEFINE m == RedrawnAtOnce(called, data)
    <3>1. Same(called, m)
      BY <2>1, RedrawnIsSame
    <3> HIDE DEF m
    <3>2. Halfway(s, m, tail, ready, now)
      BY <1>3, <3>1, HalfwaySame
    <3> QED
      BY <2>2, <3>2 DEF m
  <2>3. ASSUME NEW id \in 1 .. version + 1, NEW delay \in Delays, NEW duration \in Durations,
               r = CallFrom(Animated(called, data, id, delay, duration), i, ready)
        PROVE  \E m : Halfway(s, m, tail, ready, now) /\ r = CallFrom(m, i, ready)
    <3> DEFINE m == Animated(called, data, id, delay, duration)
    <3>1. IsState(m) /\ Grown(called, m, now) /\ m.kept = called.kept /\ m.interval = 1
      BY <2>1, AnimatedGrows
    <3> HIDE DEF m
    <3>2. Halfway(s, m, tail, ready, now)
      BY <1>2, <1>3, <3>1, HalfwayGrown
    <3> QED
      BY <2>3, <3>2 DEF m
  <2> QED
    BY <1>4, <2>2, <2>3
<1>7. Passed(s, CallAll(m, tail, ready, now), ready, now)
  BY <1>2, <1>6, HalfwayPasses
<1> QED
  BY <1>5, <1>6, <1>7

LEMMA RedrawInStepIsPunctual ==
    ASSUME Punctual(queue, dom, interval, frames, timeout, since, now), ~thrown,
           NEW data \in Ticks, RedrawInStep(data)
    PROVE  PunctualInv'
<1>1. now \in Nat /\ \A e \in ToSet(queue) : IsTimer(e)
  BY DEF Punctual
<1>2. UNCHANGED <<now, thrown>>
  BY DEF RedrawInStep
<1>3. PICK i \in 0 .. Len(queue) :
         \/ frames > 0 /\ \E r \in Interrupted(AsFrame, i, DueNow, data) : Become(Reschedule(r, now))
         \/ \E r \in Interrupted(AsTimeout, i, DueNow, data) : Become(Reschedule(r, now))
         \/ queue # <<>> /\ \E r \in Interrupted(Current, i, Undelayed, data) : Become(r)
  BY DEF RedrawInStep
<1>4. ASSUME NEW s, (s = AsFrame /\ frames > 0) \/ s = AsTimeout,
             NEW r \in Interrupted(s, i, DueNow, data), Become(Reschedule(r, now))
      PROVE  PunctualInv'
  <2>1. /\ IsState(s) /\ s.kept = <<>> /\ s.interval \in {0, 1} /\ s.queue = queue /\ s.since = now
        /\ s.timeout \in {timeout, None}
    BY <1>4, StepBegins
  <2>2. Passed(s, r, DueNow, now)
    BY <1>1, <1>4, <2>1, InterruptedPasses
  <2> QED
    BY <1>2, <1>4, <2>1, <2>2, SteppedIsPunctual
<1>5. ASSUME queue # <<>>, NEW r \in Interrupted(Current, i, Undelayed, data), Become(r) PROVE PunctualInv'
  <2> DEFINE s == Current
  <2>1. IsState(s) /\ s.kept = <<>> /\ s.queue = queue /\ s.interval \in {0, 1}
    BY CurrentIs DEF Punctual
  <2>2. Passed(s, r, Undelayed, now)
    <3> HIDE DEF s
    <3>1. r \in Interrupted(s, i, Undelayed, data)
      BY <1>5 DEF s
    <3> QED
      BY <1>1, <2>1, <3>1, InterruptedPasses
  <2> QED
    BY <1>2, <1>5, <2>2, FlushedIsPunctual
<1> QED
  BY <1>3, <1>4, <1>5

LEMMA ElapseIsPunctual ==
    ASSUME Punctual(queue, dom, interval, frames, timeout, since, now), ~thrown, Elapse
    PROVE  PunctualInv'
<1>1. /\ now' = now + 1 /\ (frames > 0 => now < since + Lag) /\ (timeout # None => now < timeout + Lag)
      /\ UNCHANGED <<queue, interval, frames, timeout, since, dom>>
  BY DEF Elapse, timerVars
<1>2. Lag \in Nat
  BY TimeAssumption
<1>3. Punctual(queue, dom, interval, frames, timeout, since, now + 1)
  <2>1. /\ now + 1 \in Nat /\ (frames > 0 => since <= now + 1 /\ now + 1 <= since + Lag)
        /\ (timeout # None => now + 1 <= timeout + Lag)
    BY <1>1, <1>2 DEF Punctual
  <2> QED
    BY <2>1 DEF Punctual
<1> QED
  BY <1>1, <1>3 DEF PunctualInv

LEMMA PunctualInvNext == PunctualInv /\ [AxisNext]_axisVars => PunctualInv'
<1> SUFFICES ASSUME PunctualInv, [AxisNext]_axisVars PROVE PunctualInv'
  OBVIOUS
<1>1. CASE UNCHANGED axisVars
  BY <1>1 DEF axisVars, timerVars, chartVars, PunctualInv
<1>2. CASE AxisNext
  <2>1. ~thrown /\ Punctual(queue, dom, interval, frames, timeout, since, now)
    BY <1>2 DEF AxisNext, PunctualInv
  <2>2. ASSUME NEW data \in Ticks, NEW delay \in Delays, NEW duration \in Durations,
               RedrawAxis(data, delay, duration)
        PROVE  PunctualInv'
    BY <2>1, <2>2, RedrawAxisIsPunctual
  <2>3. ASSUME NEW data \in Ticks, RedrawAtOnce(data) \/ RedrawInStep(data) PROVE PunctualInv'
    BY <2>1, <2>3, RedrawAtOnceIsPunctual, RedrawInStepIsPunctual
  <2>4. CASE Elapse
    BY <2>1, <2>4, ElapseIsPunctual
  <2>5. CASE Frame \/ Timeout
    BY <2>1, <2>5, FrameIsPunctual
  <2>6. CASE Flush
    BY <2>1, <2>6, FlushIsPunctual
  <2>7. ASSUME NEW i \in DOMAIN queue, FrameThrows(i) PROVE PunctualInv'
    BY <2>7 DEF FrameThrows, PunctualInv
  <2> QED
    BY <1>2, <2>2, <2>3, <2>4, <2>5, <2>6, <2>7 DEF AxisNext
<1> QED
  BY <1>1, <1>2

(***************************************************************************)
(* AnimationEnds: a transition is over when its delay and its duration     *)
(* are, or the lateness of a step later, or two when the timeout that it   *)
(* waited for was late and then given up for a frame; for any redraws,     *)
(* also in the middle of a step, and durations of at least 1               *)
(* (d3.js:2012-2065, 2221-2291).                                           *)
(***************************************************************************)
THEOREM AnimationsEnd == AxisSpec => []AnimationEnds
<1>1. PunctualInv => AnimationEnds
  <2> SUFFICES ASSUME PunctualInv, ~thrown, NEW e \in ToSet(queue)
               PROVE  now <= e.then + e.wait + e.duration + Lag \/ now <= e.then + e.wait + 2 * Lag
    BY DEF AnimationEnds
  <2>1. Punctual(queue, dom, interval, frames, timeout, since, now) /\ IsTimer(e) /\ Lag \in Nat
    BY TimeAssumption DEF PunctualInv, Punctual
  <2>2. CASE frames > 0
    <3>1. /\ now \in Nat /\ since \in Nat /\ now <= since + Lag
          /\ since < e.then + e.wait + e.duration \/ since <= e.then + e.wait + Lag
      BY <2>1, <2>2 DEF Punctual
    <3>2. e.then \in Nat /\ e.wait \in Nat /\ e.duration \in Nat
      BY <2>1 DEF IsTimer
    <3> QED
      BY <2>1, <3>1, <3>2
  <2>3. CASE frames = 0
    <3>1. queue # <<>>
      BY DEF ToSet
    <3>2. timeout \in Nat /\ now <= timeout + Lag /\ timeout <= e.then + e.delay
      BY <2>1, <2>3, <3>1 DEF Punctual
    <3> QED
      BY <2>1, <3>2 DEF Punctual, IsTimer
  <2> QED
    BY <2>1, <2>2, <2>3 DEF Punctual
<1> QED
  BY <1>1, PunctualInvInit, PunctualInvNext, PTL DEF AxisSpec

-----------------------------------------------------------------------------

(***************************************************************************)
(* Axes.  A job is what a timer does for a node: start its transition or   *)
(* go on with it.  A timer that begins a transition stands for a job of    *)
(* each of its nodes.                                                      *)
(***************************************************************************)
JobFor(e, n) == [e EXCEPT !.node = n, !.group = <<>>]

JobsOf(e) == IF e.fn = "begin" THEN {JobFor(e, n) : n \in ToSet(e.group)} ELSE {e}

\* The jobs of the timers of q behind the k-th one.
JobsBehind(q, k) == UNION {JobsOf(q[i]) : i \in k + 1 .. Len(q)}

Alike(j, k) == j.id = k.id /\ j.node = k.node

\* A timer that the axis has made, and what it may wait for.
AxisTimer(e, size, time) ==
    /\ IsTimer(e) /\ e.id \in 1 .. version /\ e.wait \in waits /\ e.then <= time
    /\ e.fn # "start" => e.delay = 0
    /\ e.fn # "begin" => e.node \in 1 .. size
    /\ e.fn = "begin" => Distinct(e.group) /\ ToSet(e.group) \subseteq 1 .. size

\* No transition of a node has two timers; those that begin are in front, the last first.
Ordered(q) ==
    /\ \A i, k \in 1 .. Len(q) : i # k => \A a \in JobsOf(q[i]), b \in JobsOf(q[k]) : ~Alike(a, b)
    /\ \A i, k \in 1 .. Len(q) : i < k /\ q[k].fn = "begin" => q[i].fn = "begin" /\ q[k].id <= q[i].id

-----------------------------------------------------------------------------
IsJob(j, size, time) ==
    /\ IsTimer(j) /\ j.id \in 1 .. version /\ j.wait \in waits /\ j.then <= time
    /\ j.fn # "start" => j.delay = 0
    /\ j.node \in 1 .. size

AreNodes(ns) == IsList(ns) /\ \A n \in 1 .. Len(ns) : DOMAIN ns[n] = {"datum", "lock", "look"}

\* The document has nodes, each once, and none of the same datum as another.
IsDocument(doc, ns) ==
    /\ IsList(doc) /\ Distinct(doc) /\ ToSet(doc) \subseteq 1 .. Len(ns)
    /\ \A m, n \in ToSet(doc) : ns[m].datum = ns[n].datum => m = n

\* The jobs that the lock of a node counts.
Counted(J, n) == {j \in J : j.node = n /\ j.fn # "begin"}

LocksCount(ns, J) ==
    \A n \in 1 .. Len(ns) :
        /\ IsFiniteSet(Counted(J, n))
        /\ Counted(J, n) = {} => ns[n].lock = None
        /\ Counted(J, n) # {} =>
              \E a \in 0 .. version : ns[n].lock = [active |-> a, count |-> Cardinality(Counted(J, n))]

\* What the last redraw makes of a node, and how far it is.
Wanted(ns, n) == ns[n].datum \in ToSet(ticks) \cup {Path}

Goal(ns, n) == IF Wanted(ns, n) THEN Opaque(version) ELSE Faint(version)

Brings(j, ns, n) ==
    /\ j.id = version /\ j.node = n /\ j.target = Goal(ns, n) /\ (j.removes <=> ~Wanted(ns, n))
    /\ j.fn = "tick" => ns[n].lock.active = version /\ (j.tweened \/ ns[n].look = Goal(ns, n))

Pending(ns, n, J) == \E j \in J : Brings(j, ns, n)

Reached(ns, n, J) ==
    /\ ns[n].look = Goal(ns, n)
    /\ ns[n].lock = None \/ ns[n].lock.active = version
    /\ \A j \in J : j.node = n => j.fn # "begin" /\ j.id # version

NoDelays == waits \subseteq {0}

Settles(ns, doc, J) ==
    /\ \A n \in ToSet(doc) : Pending(ns, n, J) \/ Reached(ns, n, J)
    /\ \A d \in ToSet(ticks) \cup {Path} : \E n \in ToSet(doc) : ns[n].datum = d
    /\ NoDelays => \A n \in ToSet(doc) : Wanted(ns, n) \/ Pending(ns, n, J)

\* Without delays nothing waits, save what begins, and one transition of a node goes on
\* at a time: the active one, except that what was superseded in this step has yet to notice.
AtOnce(ns, D, R, cur) ==
    /\ \A j \in D \cup R : j.fn = "start" => j \in cur
    /\ \A i, j \in R : i.fn = "tick" /\ j.fn = "tick" /\ i.node = j.node => i = j
    /\ \A i \in D : ns[i.node].lock.active = i.id
    /\ \A i \in D, j \in R : j.fn # "tick" => j.id <= i.id

\* The nodes and the document, when the jobs D were done in this step, or added by
\* it, and R are left.
Chart(ns, doc, over, D, R, cur, time) ==
    /\ AreNodes(ns) /\ IsDocument(doc, ns)
    /\ \A j \in D \cup R : IsJob(j, Len(ns), time)
    /\ \A j \in D : j.fn # "begin"
    /\ D \cap R = {} /\ \A i, j \in D \cup R : Alike(i, j) => i = j
    /\ LocksCount(ns, D \cup R)
    /\ NoDelays => AtOnce(ns, D, R, cur)
    /\ version > 0 /\ ~over /\ ~mixed => Settles(ns, doc, D \cup R)

\* Timers and nodes between two steps.
Tidy(q, ns, doc, over, time) ==
    /\ IsList(q) /\ (\A e \in ToSet(q) : AxisTimer(e, Len(ns), time)) /\ Ordered(q)
    /\ Chart(ns, doc, over, {}, JobsBehind(q, 0), {}, time)

AxisOk == version \in Nat /\ ticks \in Ticks \cup {<<>>} /\ Tidy(queue, nodes, dom, late, now)

AxisInv == thrown \/ midway \/ AxisOk

-----------------------------------------------------------------------------
\* ms is ns but for the lock and the look of n.
Differ(ns, ms, n) ==
    /\ AreNodes(ms) /\ Len(ms) = Len(ns) /\ ms[n].datum = ns[n].datum
    /\ \A m \in 1 .. Len(ns) : m # n => ms[m] = ns[m]

SameLook(ns, ms, n) == ms[n].look = ns[n].look

SameLock(ns, ms, n) == ms[n].lock = ns[n].lock

WithNode(ns, n, x) == [ns EXCEPT ![n] = x]

NodeIsSet(ns, ms, n, x) ==
    AreNodes(ms) /\ Len(ms) = Len(ns) /\ ms[n] = x /\ \A m \in 1 .. Len(ns) : m # n => ms[m] = ns[m]

LEMMA NodeChanges ==
    ASSUME NEW ns, AreNodes(ns), NEW n \in 1 .. Len(ns), NEW x, DOMAIN x = {"datum", "lock", "look"},
           NEW ms, ms = WithNode(ns, n, x)
    PROVE  NodeIsSet(ns, ms, n, x)
<1>1. Len(ns) \in Nat /\ ns = [m \in 1 .. Len(ns) |-> ns[m]] /\ DOMAIN ns = 1 .. Len(ns)
  <2>1. PICK E : ns \in Seq(E)
    BY DEF AreNodes, IsList
  <2> QED
    BY <2>1
<1>2. ms = [m \in 1 .. Len(ns) |-> ms[m]] /\ ms[n] = x /\ \A m \in 1 .. Len(ns) : m # n => ms[m] = ns[m]
  BY <1>1 DEF WithNode
<1>3. IsList(ms) /\ Len(ms) = Len(ns)
  BY <1>1, <1>2, ListOf
<1> QED
  BY <1>2, <1>3 DEF AreNodes, NodeIsSet

WithLock(ns, n, lock) == [ns EXCEPT ![n].lock = lock]

WithLook(ns, n, look) == [ns EXCEPT ![n].look = look]

LockIsSet(ns, ms, n, lock) == Differ(ns, ms, n) /\ SameLook(ns, ms, n) /\ ms[n].lock = lock

LookIsSet(ns, ms, n, look) == Differ(ns, ms, n) /\ SameLock(ns, ms, n) /\ ms[n].look = look

LEMMA LockChanges ==
    ASSUME NEW ns, AreNodes(ns), NEW n \in 1 .. Len(ns), NEW lock, NEW ms, ms = WithLock(ns, n, lock)
    PROVE  LockIsSet(ns, ms, n, lock)
<1>1. DOMAIN ns = 1 .. Len(ns)
  BY ListHas DEF AreNodes
<1>2. DOMAIN ns[n] = {"datum", "lock", "look"}
  BY DEF AreNodes
<1> DEFINE x == [ns[n] EXCEPT !.lock = lock]
<1>3. DOMAIN x = {"datum", "lock", "look"} /\ x.lock = lock /\ x.look = ns[n].look /\ x.datum = ns[n].datum
  BY <1>2
<1>4. ms = WithNode(ns, n, x)
  BY <1>1 DEF WithLock, WithNode
<1> HIDE DEF x
<1>5. NodeIsSet(ns, ms, n, x)
  BY <1>3, <1>4, NodeChanges
<1> QED
  BY <1>3, <1>5 DEF LockIsSet, NodeIsSet, Differ, SameLook

LEMMA LookChanges ==
    ASSUME NEW ns, AreNodes(ns), NEW n \in 1 .. Len(ns), NEW look, NEW ms, ms = WithLook(ns, n, look)
    PROVE  LookIsSet(ns, ms, n, look)
<1>1. DOMAIN ns = 1 .. Len(ns)
  BY ListHas DEF AreNodes
<1>2. DOMAIN ns[n] = {"datum", "lock", "look"}
  BY DEF AreNodes
<1> DEFINE x == [ns[n] EXCEPT !.look = look]
<1>3. DOMAIN x = {"datum", "lock", "look"} /\ x.look = look /\ x.lock = ns[n].lock /\ x.datum = ns[n].datum
  BY <1>2
<1>4. ms = WithNode(ns, n, x)
  BY <1>1 DEF WithLook, WithNode
<1> HIDE DEF x
<1>5. NodeIsSet(ns, ms, n, x)
  BY <1>3, <1>4, NodeChanges
<1> QED
  BY <1>3, <1>5 DEF LookIsSet, NodeIsSet, Differ, SameLock

Lock(a, c) == [active |-> a, count |-> c]

\* What StopTransition, BeginNode and StartTransition make of the lock of a node.
Released(lock) == IF lock.count = 1 THEN None ELSE [lock EXCEPT !.count = @ - 1]

Taken(lock) == [(IF lock = None THEN NewLock ELSE lock) EXCEPT !.count = @ + 1]

Owned(lock, id) == [lock EXCEPT !.active = id]

Releases(ns, ms, n) == Differ(ns, ms, n) /\ ms[n].lock = Released(ns[n].lock)

Takes(ns, ms, n) == Differ(ns, ms, n) /\ ms[n].lock = Taken(ns[n].lock)

Owns(ns, ms, n, id) == Differ(ns, ms, n) /\ ms[n].lock = Owned(ns[n].lock, id)

\* The lock of a node that has jobs.
LEMMA LockIs ==
    ASSUME NEW ns, NEW J, LocksCount(ns, J), version \in Nat, NEW j \in J, j.fn # "begin", j.node \in 1 .. Len(ns)
    PROVE  \E C \in {Counted(J, j.node)} : \E c \in {Cardinality(C)} :
               /\ j \in C /\ IsFiniteSet(C) /\ c \in Nat \ {0}
               /\ \E a \in 0 .. version : ns[j.node].lock = Lock(a, c) /\ Lock(a, c) # None
<1> DEFINE C == Counted(J, j.node)
<1>1. j \in C
  BY DEF Counted
<1>2. IsFiniteSet(C) /\ \E a \in 0 .. version : ns[j.node].lock = Lock(a, Cardinality(C))
  BY <1>1 DEF LocksCount, Lock
<1> HIDE DEF C
<1>3. Cardinality(C) \in Nat /\ Cardinality(C) # 0
  BY <1>1, <1>2, FS_EmptySet, FS_CardinalityType
<1>5. \A a \in 0 .. version : Lock(a, Cardinality(C)) \in [active : Nat, count : Nat]
  BY <1>3 DEF Lock
<1>6. None \notin [active : Nat, count : Nat]
  BY TickAssumption
<1> QED
  BY <1>1, <1>2, <1>3, <1>5, <1>6 DEF C

Free(ms, n) == ms[n].lock = None

OwnerStays(ns, ms, n) == ns[n].lock # None /\ ms[n].lock # None /\ ms[n].lock.active = ns[n].lock.active

OwnerIs(ms, n, id) == ms[n].lock # None /\ ms[n].lock.active = id

HasOwner(ns, n) == ns[n].lock # None /\ ns[n].lock.active \in 0 .. version

LEMMA LockReleased ==
    ASSUME NEW ns, NEW ms, NEW J, LocksCount(ns, J), version \in Nat, NEW j \in J, j.fn # "begin",
           j.node \in 1 .. Len(ns),
           Releases(ns, ms, j.node)
    PROVE  /\ LocksCount(ms, J \ {j})
           /\ Free(ms, j.node) \/ OwnerStays(ns, ms, j.node)
           /\ \A i \in Counted(J, j.node) : i # j => OwnerStays(ns, ms, j.node)
           /\ Counted(J, j.node) = {j} => Free(ms, j.node)
           /\ HasOwner(ns, j.node)
<1> DEFINE n == j.node
           C == Counted(J, n)
           c == Cardinality(C)
           rest == C \ {j}
<1>1. /\ j \in C /\ IsFiniteSet(C) /\ c \in Nat \ {0}
      /\ \E a \in 0 .. version : ns[n].lock = Lock(a, c) /\ Lock(a, c) # None
  BY LockIs
<1>2. PICK a \in 0 .. version : ns[n].lock = Lock(a, c) /\ Lock(a, c) # None
  BY <1>1
<1>3. ns[n].lock.count = c /\ ns[n].lock.active = a /\ [ns[n].lock EXCEPT !.count = @ - 1] = Lock(a, c - 1)
  BY <1>2 DEF Lock
<1>4. ms[n].lock = IF c = 1 THEN None ELSE Lock(a, c - 1)
  BY <1>3 DEF Releases, Differ, Released
<1>5. Counted(J \ {j}, n) = rest
  BY DEF Counted
<1>6. \A m : m # n => Counted(J \ {j}, m) = Counted(J, m)
  BY DEF Counted
<1> HIDE DEF C, n
<1>8. IsFiniteSet(rest) /\ Cardinality(rest) = c - 1
  BY <1>1, FS_RemoveElement
<1> HIDE DEF c, rest
<1>9. rest = {} <=> c = 1
  <2>1. IsFiniteSet(rest) => (Cardinality(rest) = 0 <=> rest = {})
    BY FS_EmptySet
  <2> QED
    BY <1>1, <1>8, <2>1
<1>10. c # 1 => Lock(a, c - 1) # None /\ Lock(a, c - 1).active = a
  <2>1. c # 1 => Lock(a, c - 1) \in [active : Nat, count : Nat]
    BY <1>1 DEF Lock
  <2> QED
    BY <2>1, TickAssumption DEF Lock
<1>11. LocksCount(ms, J \ {j})
  <2> SUFFICES ASSUME NEW m \in 1 .. Len(ns)
               PROVE  LET K == Counted(J \ {j}, m)
                      IN  /\ IsFiniteSet(K)
                          /\ K = {} => ms[m].lock = None
                          /\ K # {} => \E b \in 0 .. version : ms[m].lock = Lock(b, Cardinality(K))
    BY DEF LocksCount, Releases, Differ, Lock
  <2>1. CASE m = n
    BY <1>4, <1>5, <1>8, <1>9, <2>1
  <2>2. CASE m # n
    <3>1. ms[m] = ns[m]
      BY <2>2 DEF Releases, Differ, n
    <3> QED
      BY <1>6, <2>2, <3>1 DEF LocksCount, Lock
  <2> QED
    BY <2>1, <2>2
<1>12. \A i \in C : i # j => c # 1
  BY <1>9 DEF rest
<1>13. C = {j} => c = 1
  BY <1>9 DEF rest
<1>14. HasOwner(ns, n) /\ (c = 1 => Free(ms, n)) /\ (c # 1 => OwnerStays(ns, ms, n))
  BY <1>2, <1>3, <1>4, <1>10 DEF HasOwner, Free, OwnerStays
<1> QED
  BY <1>11, <1>12, <1>13, <1>14 DEF n, C

\* A job that begins is counted from now on.
LEMMA LockTaken ==
    ASSUME NEW ns, NEW ms, NEW J, LocksCount(ns, J), version \in Nat, NEW j \in J, j.fn = "begin",
           j.node \in 1 .. Len(ns), NEW k, k \notin J, k.fn # "begin", k.node = j.node,
           Takes(ns, ms, j.node)
    PROVE  /\ LocksCount(ms, (J \ {j}) \cup {k})
           /\ HasOwner(ms, j.node)
           /\ \A i \in Counted(J, j.node) : OwnerStays(ns, ms, j.node)
<1> DEFINE n == j.node
           C == Counted(J, n)
           c == Cardinality(C)
           more == C \cup {k}
           K == (J \ {j}) \cup {k}
           lock == IF ns[n].lock = None THEN NewLock ELSE ns[n].lock
<1>1. Counted(K, n) = more
  BY DEF Counted
<1>2. \A m : m # n => Counted(K, m) = Counted(J, m)
  BY DEF Counted
<1>3. k \notin C
  BY DEF Counted
<1>4. /\ IsFiniteSet(C) /\ (C = {} => ns[n].lock = None)
      /\ (C # {} => \E a \in 0 .. version : ns[n].lock = Lock(a, c))
  BY DEF LocksCount, Lock
<1> HIDE DEF C, n, K
<1>6. IsFiniteSet(more) /\ Cardinality(more) = c + 1 /\ c \in Nat /\ (C = {} => c = 0)
  BY <1>3, <1>4, FS_AddElement, FS_CardinalityType, FS_EmptySet
<1> HIDE DEF c
<1>7. PICK a \in 0 .. version : lock = Lock(a, c) /\ (ns[n].lock # None => ns[n].lock.active = a)
  <2>1. CASE C = {}
    <3>1. lock = NewLock /\ NewLock = Lock(0, c) /\ 0 \in 0 .. version
      BY <1>4, <1>6, <2>1 DEF NewLock, Lock, n
    <3> QED
      BY <1>4, <2>1, <3>1
  <2>2. CASE C # {}
    <3>1. PICK a \in 0 .. version : ns[n].lock = Lock(a, c)
      BY <1>4, <2>2
    <3>2. Lock(a, c) \in [active : Nat, count : Nat] /\ Lock(a, c).active = a
      BY <1>6 DEF Lock
    <3> QED
      BY <3>1, <3>2, TickAssumption DEF n
  <2> QED
    BY <2>1, <2>2
<1>8. Taken(ns[n].lock) = Lock(a, c + 1)
  BY <1>7 DEF Lock, Taken
<1>9. ms[n].lock = Lock(a, c + 1)
  BY <1>8 DEF Takes, Differ, n
<1>10. Lock(a, c + 1) # None /\ Lock(a, c + 1).active = a
  <2>1. Lock(a, c + 1) \in [active : Nat, count : Nat]
    BY <1>6 DEF Lock
  <2> QED
    BY <2>1, TickAssumption DEF Lock
<1>11. LocksCount(ms, K)
  <2> SUFFICES ASSUME NEW m \in 1 .. Len(ns)
               PROVE  LET L == Counted(K, m)
                      IN  /\ IsFiniteSet(L)
                          /\ L = {} => ms[m].lock = None
                          /\ L # {} => \E b \in 0 .. version : ms[m].lock = Lock(b, Cardinality(L))
    BY DEF LocksCount, Takes, Differ, Lock
  <2>1. CASE m = n
    BY <1>1, <1>6, <1>9, <2>1
  <2>2. CASE m # n
    <3>1. ms[m] = ns[m]
      BY <2>2 DEF Takes, Differ, n
    <3> QED
      BY <1>2, <2>2, <3>1 DEF LocksCount, Lock
  <2> QED
    BY <2>1, <2>2
<1>12. ASSUME C # {} PROVE ns[n].lock # None
  <2>1. PICK b \in 0 .. version : ns[n].lock = Lock(b, c)
    BY <1>4, <1>12
  <2>2. Lock(b, c) \in [active : Nat, count : Nat]
    BY <1>6 DEF Lock
  <2> QED
    BY <2>1, <2>2, TickAssumption
<1>13. HasOwner(ms, n) /\ (C # {} => OwnerStays(ns, ms, n))
  BY <1>7, <1>9, <1>10, <1>12 DEF HasOwner, OwnerStays
<1> QED
  BY <1>11, <1>13 DEF n, K, C

\* A job becomes another one, and active.
LEMMA LockPassed ==
    ASSUME NEW ns, NEW ms, NEW J, LocksCount(ns, J), version \in Nat, NEW j \in J, j.fn # "begin",
           j.node \in 1 .. Len(ns), NEW k, k \notin J, k.fn # "begin", k.node = j.node, NEW id \in 0 .. version,
           Owns(ns, ms, j.node, id)
    PROVE  LocksCount(ms, (J \ {j}) \cup {k}) /\ OwnerIs(ms, j.node, id) /\ HasOwner(ns, j.node)
<1> DEFINE n == j.node
           C == Counted(J, n)
           c == Cardinality(C)
           new == (C \ {j}) \cup {k}
           K == (J \ {j}) \cup {k}
<1>1. Counted(K, n) = new
  BY DEF Counted
<1>2. \A m : m # n => Counted(K, m) = Counted(J, m)
  BY DEF Counted
<1>3. k \notin C
  BY DEF Counted
<1>4. j \in C /\ IsFiniteSet(C) /\ c \in Nat \ {0} /\ \E a \in 0 .. version : ns[n].lock = Lock(a, c) /\ Lock(a, c) # None
  BY LockIs
<1> HIDE DEF C, n, K
<1>5. IsFiniteSet(C \ {j}) /\ Cardinality(C \ {j}) = c - 1 /\ k \notin C \ {j}
  BY <1>3, <1>4, FS_RemoveElement
<1>6. IsFiniteSet(new) /\ Cardinality(new) = (c - 1) + 1
  BY <1>5, FS_AddElement
<1>7. Cardinality(new) = c
  BY <1>4, <1>6
<1>8. Owned(ns[n].lock, id) = Lock(id, c) /\ Lock(id, c).active = id
  BY <1>4 DEF Lock, Owned
<1>9. ms[n].lock = Lock(id, c)
  BY <1>8 DEF Owns, Differ, n
<1>10. LocksCount(ms, K)
  <2> SUFFICES ASSUME NEW m \in 1 .. Len(ns)
               PROVE  LET L == Counted(K, m)
                      IN  /\ IsFiniteSet(L)
                          /\ L = {} => ms[m].lock = None
                          /\ L # {} => \E b \in 0 .. version : ms[m].lock = Lock(b, Cardinality(L))
    BY DEF LocksCount, Owns, Differ, Lock
  <2>1. CASE m = n
    BY <1>1, <1>6, <1>7, <1>9, <2>1
  <2>2. CASE m # n
    <3>1. ms[m] = ns[m]
      BY <2>2 DEF Owns, Differ, n
    <3> QED
      BY <1>2, <2>2, <3>1 DEF LocksCount, Lock
  <2> QED
    BY <2>1, <2>2
<1>11. OwnerIs(ms, n, id) /\ HasOwner(ns, n)
  <2>1. Lock(id, c) \in [active : Nat, count : Nat]
    BY <1>4 DEF Lock
  <2>2. Lock(id, c) # None
    BY <2>1, TickAssumption
  <2> QED
    BY <1>4, <1>8, <1>9, <2>2 DEF OwnerIs, HasOwner, Lock
<1> QED
  BY <1>10, <1>11 DEF n, K

-----------------------------------------------------------------------------
LEMMA ChangedData ==
    ASSUME NEW ns, NEW ms, NEW n \in 1 .. Len(ns), Differ(ns, ms, n)
    PROVE  /\ \A m \in 1 .. Len(ns) : /\ ms[m].datum = ns[m].datum /\ Goal(ms, m) = Goal(ns, m)
                                      /\ Wanted(ms, m) <=> Wanted(ns, m)
           /\ \A doc : IsDocument(doc, ns) => IsDocument(doc, ms)
<1>1. \A m \in 1 .. Len(ns) : ms[m].datum = ns[m].datum
  BY DEF Differ
<1>2. \A m \in 1 .. Len(ns) : Wanted(ms, m) <=> Wanted(ns, m)
  BY <1>1 DEF Wanted
<1>3. \A m \in 1 .. Len(ns) : Goal(ms, m) = Goal(ns, m)
  BY <1>2 DEF Goal
<1>4. ASSUME NEW doc, IsDocument(doc, ns) PROVE IsDocument(doc, ms)
  <2>1. Len(ms) = Len(ns) /\ ToSet(doc) \subseteq 1 .. Len(ns)
    BY <1>4 DEF Differ, IsDocument
  <2> QED
    BY <1>1, <1>4, <2>1 DEF IsDocument
<1> QED
  BY <1>1, <1>2, <1>3, <1>4

\* What was settled is, when it is of the node that changed, and that one was lost only
\* if nobody wanted it.
LEMMA SettlesAgain ==
    ASSUME NEW ns, NEW ms, NEW n \in 1 .. Len(ns), Differ(ns, ms, n),
           NEW doc, NEW less, IsDocument(doc, ns), NEW J, NEW K, Settles(ns, doc, J),
           \A j : j.node # n => (j \in J <=> j \in K),
           ToSet(less) = ToSet(doc) \/ (ToSet(less) = ToSet(doc) \ {n} /\ ~Wanted(ns, n)),
           n \in ToSet(less) => /\ Pending(ms, n, K) \/ Reached(ms, n, K)
                                /\ NoDelays => Wanted(ns, n) \/ Pending(ms, n, K)
    PROVE  Settles(ms, less, K)
<1>1. ToSet(doc) \subseteq 1 .. Len(ns) /\ ToSet(less) \subseteq ToSet(doc)
  BY DEF IsDocument
<1>2. \A m \in 1 .. Len(ns) : /\ ms[m].datum = ns[m].datum /\ Goal(ms, m) = Goal(ns, m)
                              /\ Wanted(ms, m) <=> Wanted(ns, m)
  BY ChangedData
<1>3. ASSUME NEW m \in 1 .. Len(ns), m # n, Pending(ns, m, J) PROVE Pending(ms, m, K)
  <2>1. PICK j \in J : Brings(j, ns, m)
    BY <1>3 DEF Pending
  <2>2. ms[m] = ns[m]
    BY <1>3 DEF Differ
  <2>3. Brings(j, ms, m)
    BY <1>2, <2>1, <2>2 DEF Brings
  <2>4. j \in K
    BY <1>3, <2>1 DEF Brings
  <2> QED
    BY <2>3, <2>4 DEF Pending
<1>4. ASSUME NEW m \in 1 .. Len(ns), m # n, Reached(ns, m, J) PROVE Reached(ms, m, K)
  <2>1. ms[m] = ns[m] /\ Goal(ms, m) = Goal(ns, m)
    BY <1>2, <1>4 DEF Differ
  <2>2. \A j \in K : j.node = m => j.fn # "begin" /\ j.id # version
    BY <1>4 DEF Reached
  <2> QED
    BY <1>4, <2>1, <2>2 DEF Reached
<1>5. \A m \in ToSet(less) : Pending(ms, m, K) \/ Reached(ms, m, K)
  BY <1>1, <1>3, <1>4 DEF Settles
<1>6. ASSUME NEW d \in ToSet(ticks) \cup {Path} PROVE \E m \in ToSet(less) : ms[m].datum = d
  <2>1. PICK m \in ToSet(doc) : ns[m].datum = d
    BY DEF Settles
  <2>2. Wanted(ns, m)
    BY <2>1 DEF Wanted
  <2> QED
    BY <1>1, <1>2, <2>1, <2>2
<1>7. NoDelays => \A m \in ToSet(less) : Wanted(ms, m) \/ Pending(ms, m, K)
  BY <1>1, <1>2, <1>3 DEF Settles
<1> QED
  BY <1>5, <1>6, <1>7 DEF Settles

\* Another transition is active; the one of j may not start any more.
Superseded(ns, j) ==
    ns[j.node].lock.active # j.id /\ (j.fn = "start" => ns[j.node].lock.active > j.id)

\* A timer stops: its transition was superseded.
LEMMA ChartStops ==
    ASSUME NEW ns, NEW ms, NEW doc, NEW over, NEW D, NEW R, NEW cur, NEW time, version \in Nat,
           Chart(ns, doc, over, D, R, cur, time), NEW j \in R, j.fn # "begin",
           Superseded(ns, j), Releases(ns, ms, j.node), SameLook(ns, ms, j.node)
    PROVE  Chart(ms, doc, over, D, R \ {j}, cur, time)
<1> DEFINE n == j.node
           J == D \cup R
           K == D \cup (R \ {j})
<1>1. /\ AreNodes(ns) /\ IsDocument(doc, ns) /\ LocksCount(ns, J) /\ D \cap R = {}
      /\ \A i \in J : IsJob(i, Len(ns), time) /\ i.id \in 1 .. version /\ i.node \in 1 .. Len(ns)
      /\ \A i \in D : i.fn # "begin"
      /\ \A i, k \in J : i.id = k.id /\ i.node = k.node => i = k
  BY DEF Chart, IsJob, Alike
<1>2. n \in 1 .. Len(ns) /\ j \in J /\ K = J \ {j} /\ AreNodes(ms) /\ Len(ms) = Len(ns)
  BY <1>1 DEF Releases, Differ
<1>3. /\ LocksCount(ms, J \ {j}) /\ HasOwner(ns, n)
      /\ Free(ms, n) \/ OwnerStays(ns, ms, n)
      /\ \A i \in Counted(J, n) : i # j => OwnerStays(ns, ms, n)
  <2> HIDE DEF J
  <2>1. LocksCount(ns, J) /\ j \in J /\ j.node \in 1 .. Len(ns)
    BY <1>1, <1>2
  <2> QED
    BY <2>1, LockReleased
<1>4. ms[n].look = ns[n].look /\ \A m \in 1 .. Len(ns) : m # n => ms[m] = ns[m]
  BY DEF Releases, Differ, SameLook
<1>5. /\ IsDocument(doc, ms)
      /\ \A m \in 1 .. Len(ns) : Goal(ms, m) = Goal(ns, m) /\ (Wanted(ms, m) <=> Wanted(ns, m))
  BY <1>1, <1>2, ChangedData DEF Releases
<1>6. ASSUME NoDelays PROVE AtOnce(ms, D, R \ {j}, cur)
  <2>1. AtOnce(ns, D, R, cur)
    BY <1>6 DEF Chart
  <2>2. ASSUME NEW i \in D PROVE ms[i.node].lock.active = i.id
    <3>1. ns[i.node].lock.active = i.id /\ i # j /\ i.fn # "begin" /\ i.node \in 1 .. Len(ns) /\ i \in J
      BY <1>1, <2>1 DEF AtOnce
    <3> QED
      BY <1>3, <1>4, <3>1 DEF Counted, OwnerStays
  <2> QED
    BY <2>1, <2>2 DEF AtOnce
<1>7. ASSUME version > 0, ~over, ~mixed PROVE Settles(ms, doc, K)
  <2>1. Settles(ns, doc, J)
    BY <1>7 DEF Chart
  <2>2. ASSUME NEW i \in J, Brings(i, ns, n) PROVE i \in K /\ Brings(i, ms, n)
    <3>1. i # j
      <4>1. ns[n].lock.active \in 0 .. version
        BY <1>3 DEF HasOwner
      <4>2. i.fn \in {"begin", "start", "tick"}
        BY <1>1, <2>2 DEF IsJob, IsTimer
      <4> QED
        BY <2>2, <4>1, <4>2 DEF Brings, Superseded
    <3>2. ASSUME i.fn = "tick" PROVE ms[n].lock.active = ns[n].lock.active
      <4>1. i \in Counted(J, n)
        BY <2>2, <3>2 DEF Brings, Counted
      <4> QED
        BY <1>3, <3>1, <4>1 DEF OwnerStays
    <3> QED
      BY <1>2, <1>4, <1>5, <2>2, <3>1, <3>2 DEF Brings
  <2>3. Pending(ns, n, J) => Pending(ms, n, K)
    BY <2>2 DEF Pending
  <2>4. Reached(ns, n, J) => Reached(ms, n, K)
    BY <1>2, <1>3, <1>4, <1>5 DEF Reached, HasOwner, Free, OwnerStays
  <2>5. n \in ToSet(doc) => /\ Pending(ms, n, K) \/ Reached(ms, n, K)
                            /\ NoDelays => Wanted(ns, n) \/ Pending(ms, n, K)
    BY <2>1, <2>3, <2>4 DEF Settles
  <2>6. \A i : i.node # n => (i \in J <=> i \in K)
    BY <1>2
  <2> HIDE DEF J, K, n
  <2> QED
    BY <1>1, <1>2, <2>1, <2>5, <2>6, SettlesAgain DEF n, Releases
<1>8. \A i \in K : IsJob(i, Len(ms), time)
  BY <1>1, <1>2
<1>9. D \cap (R \ {j}) = {} /\ \A i, k \in K : Alike(i, k) => i = k
  BY <1>1 DEF Alike
<1>10. LocksCount(ms, K)
  BY <1>2, <1>3
<1> HIDE DEF K
<1> QED
  BY <1>1, <1>2, <1>5, <1>6, <1>7, <1>8, <1>9, <1>10 DEF Chart, K

LEMMA LessDocument ==
    ASSUME NEW ns, NEW doc, IsDocument(doc, ns), NEW S
    PROVE  IsDocument(Without(doc, S), ns) /\ ToSet(Without(doc, S)) = ToSet(doc) \ S
<1> DEFINE less == Among(doc, ToSet(doc) \ S)
<1>1. IsList(doc) /\ Distinct(doc)
  BY DEF IsDocument
<1>2. IsList(less) /\ ToSet(less) = ToSet(doc) \cap (ToSet(doc) \ S) /\ Distinct(less)
  <2>1. DistinctIn(doc, ToSet(doc) \ S)
    BY <1>1 DEF Distinct, DistinctIn
  <2> QED
    BY <1>1, <2>1, AmongHas
<1> HIDE DEF less
<1>3. IsDocument(less, ns)
  BY <1>2 DEF IsDocument
<1> QED
  BY <1>2, <1>3 DEF less, Without

\* A transition of a node is over, and takes the node with it if it is the last one.
LEMMA ChartEnds ==
    ASSUME NEW ns, NEW ms, NEW doc, NEW over, NEW D, NEW R, NEW cur, NEW time, version \in Nat,
           Chart(ns, doc, over, D, R, cur, time), NEW j \in D \cup R, j.fn = "tick",
           ns[j.node].lock.active = j.id, Releases(ns, ms, j.node),
           ms[j.node].look = IF j.tweened THEN j.target ELSE ns[j.node].look,
           over \/ \A b \in R : b.fn # "begin",
           over \/ (j \in R /\ cur = {}) \/ ~NoDelays
    PROVE  Chart(ms, IF j.removes /\ Free(ms, j.node) THEN Without(doc, {j.node}) ELSE doc, over,
                 D \ {j}, R \ {j}, cur, time)
<1> DEFINE n == j.node
           J == D \cup R
           K == (D \ {j}) \cup (R \ {j})
           gone == j.removes /\ Free(ms, n)
           less == IF gone THEN Without(doc, {n}) ELSE doc
<1>1. /\ AreNodes(ns) /\ IsDocument(doc, ns) /\ LocksCount(ns, J) /\ D \cap R = {}
      /\ \A i \in J : /\ IsJob(i, Len(ns), time) /\ IsTimer(i) /\ i.id \in 1 .. version
                      /\ i.node \in 1 .. Len(ns) /\ i.fn \in {"begin", "start", "tick"}
      /\ \A i \in D : i.fn # "begin"
      /\ \A i, k \in J : i.id = k.id /\ i.node = k.node => i = k
  BY DEF Chart, IsJob, IsTimer, Alike
<1>2. n \in 1 .. Len(ns) /\ j \in J /\ K = J \ {j} /\ AreNodes(ms) /\ Len(ms) = Len(ns) /\ Differ(ns, ms, n)
  BY <1>1 DEF Releases, Differ
<1>3. /\ LocksCount(ms, J \ {j}) /\ HasOwner(ns, n)
      /\ Free(ms, n) \/ OwnerStays(ns, ms, n)
      /\ \A i \in Counted(J, n) : i # j => OwnerStays(ns, ms, n)
      /\ Counted(J, n) = {j} => Free(ms, n)
  <2> HIDE DEF J
  <2>1. LocksCount(ns, J) /\ j \in J /\ j.node \in 1 .. Len(ns) /\ j.fn # "begin"
    BY <1>1, <1>2
  <2> QED
    BY <2>1, LockReleased
<1>4. \A m \in 1 .. Len(ns) : m # n => ms[m] = ns[m]
  BY <1>2 DEF Differ
<1>5. /\ IsDocument(doc, ms)
      /\ \A m \in 1 .. Len(ns) : Goal(ms, m) = Goal(ns, m) /\ (Wanted(ms, m) <=> Wanted(ns, m))
  BY <1>1, <1>2, ChangedData
<1>6. IsDocument(less, ms) /\ ToSet(less) = IF gone THEN ToSet(doc) \ {n} ELSE ToSet(doc)
  <2>1. IsDocument(Without(doc, {n}), ms) /\ ToSet(Without(doc, {n})) = ToSet(doc) \ {n}
    BY <1>5, LessDocument
  <2> QED
    BY <1>5, <2>1
<1> HIDE DEF less, gone
<1>7. ASSUME NoDelays PROVE AtOnce(ms, D \ {j}, R \ {j}, cur)
  <2>1. AtOnce(ns, D, R, cur)
    BY <1>7 DEF Chart
  <2>2. ASSUME NEW i \in D \ {j} PROVE ms[i.node].lock.active = i.id
    <3>1. ns[i.node].lock.active = i.id /\ i # j /\ i.fn # "begin" /\ i.node \in 1 .. Len(ns) /\ i \in J
      BY <1>1, <2>1 DEF AtOnce
    <3> QED
      BY <1>3, <1>4, <3>1 DEF Counted, OwnerStays
  <2> QED
    BY <2>1, <2>2 DEF AtOnce
<1>8. ASSUME version > 0, ~over, ~mixed PROVE Settles(ms, less, K)
  <2>1. Settles(ns, doc, J)
    BY <1>8 DEF Chart
  <2>2. \A b \in J : b.fn # "begin"
    BY <1>1, <1>8
  <2>3. CASE j.id = version
    <3>1. ASSUME n \in ToSet(doc) PROVE Brings(j, ns, n)
      <4>1. ~Reached(ns, n, J)
        BY <1>2, <2>3 DEF Reached
      <4>2. Pending(ns, n, J)
        BY <2>1, <3>1, <4>1 DEF Settles
      <4> QED
        BY <1>1, <1>2, <2>3, <4>2 DEF Pending, Brings
    <3>2. ASSUME n \in ToSet(doc) PROVE Reached(ms, n, K)
      <4>1. ms[n].look = Goal(ms, n)
        BY <1>2, <1>5, <3>1, <3>2 DEF Brings
      <4>2. ms[n].lock = None \/ ms[n].lock.active = version
        BY <1>3, <2>3 DEF Free, OwnerStays
      <4> QED
        BY <1>1, <1>2, <2>2, <2>3, <4>1, <4>2 DEF Reached
    <3>3. n \in ToSet(doc) /\ gone => ~Wanted(ns, n)
      BY <3>1 DEF Brings, gone
    <3>4. ASSUME n \in ToSet(less), NoDelays PROVE Wanted(ns, n)
      <4>1. n \in ToSet(doc) /\ ~gone
        BY <1>6, <3>4
      <4>2. j \in R /\ cur = {} /\ AtOnce(ns, D, R, cur)
        BY <1>8, <3>4 DEF Chart
      <4>3. ASSUME NEW i \in Counted(J, n) PROVE i = j
        <5>1. i \in J /\ i.node = n /\ i.fn = "tick"
          BY <1>1, <4>2 DEF Counted, AtOnce
        <5>2. CASE i \in R
          BY <4>2, <5>1, <5>2 DEF AtOnce
        <5>3. CASE i \in D
          <6>1. i.id = j.id
            BY <4>2, <5>1, <5>3 DEF AtOnce
          <6> QED
            BY <1>1, <1>2, <5>1, <6>1
        <5> QED
          BY <5>1, <5>2, <5>3
      <4>4. Counted(J, n) = {j}
        <5>1. j \in Counted(J, n)
          BY <1>2 DEF Counted
        <5> QED
          BY <4>3, <5>1
      <4> QED
        BY <1>3, <3>1, <4>1, <4>4 DEF gone, Brings
    <3> HIDE DEF J, K, n
    <3>5. ToSet(less) = ToSet(doc) \/ (ToSet(less) = ToSet(doc) \ {n} /\ ~Wanted(ns, n))
      BY <1>6, <3>3
    <3>6. n \in ToSet(less) => Pending(ms, n, K) \/ Reached(ms, n, K)
      BY <1>6, <3>2
    <3>7. \A i : i.node # n => (i \in J <=> i \in K)
      BY <1>2 DEF n
    <3> QED
      BY <1>1, <1>2, <2>1, <3>4, <3>5, <3>6, <3>7, SettlesAgain
  <2>4. CASE j.id # version
    <3>1. ~Reached(ns, n, J)
      BY <1>3, <2>4 DEF Reached, HasOwner
    <3>2. ASSUME n \in ToSet(doc) PROVE Pending(ms, n, K) /\ ~Free(ms, n)
      <4>1. PICK i \in J : Brings(i, ns, n)
        BY <2>1, <3>1, <3>2 DEF Settles, Pending
      <4>2. i # j /\ i.fn = "start" /\ i.node = n
        BY <1>1, <2>2, <2>4, <4>1 DEF Brings
      <4>3. ~Free(ms, n)
        BY <1>3, <4>2 DEF Counted, OwnerStays, Free
      <4>4. i \in K /\ Brings(i, ms, n)
        BY <1>2, <1>5, <4>1, <4>2 DEF Brings
      <4> QED
        BY <4>3, <4>4 DEF Pending
    <3> HIDE DEF J, K, n
    <3>3. ToSet(less) = ToSet(doc)
      BY <1>6, <3>2 DEF gone
    <3>4. n \in ToSet(less) => Pending(ms, n, K)
      BY <3>2, <3>3
    <3>5. \A i : i.node # n => (i \in J <=> i \in K)
      BY <1>2 DEF n
    <3> QED
      BY <1>1, <1>2, <2>1, <3>3, <3>4, <3>5, SettlesAgain
  <2> QED
    BY <2>3, <2>4
<1>9. \A i \in K : IsJob(i, Len(ms), time)
  BY <1>1, <1>2
<1>10. (D \ {j}) \cap (R \ {j}) = {} /\ (\A i, k \in K : Alike(i, k) => i = k) /\ \A i \in D \ {j} : i.fn # "begin"
  BY <1>1 DEF Alike
<1>11. LocksCount(ms, K)
  BY <1>2, <1>3
<1> HIDE DEF K
<1>12. Chart(ms, less, over, D \ {j}, R \ {j}, cur, time)
  BY <1>2, <1>6, <1>7, <1>8, <1>9, <1>10, <1>11 DEF Chart, K
<1> QED
  BY <1>12 DEF less, gone

\* What a job becomes when its transition starts, and when it begins.
TickOf(ns, j) == [j EXCEPT !.fn = "tick", !.tweened = ns[j.node].look # j.target, !.delay = 0]

StartOf(j) == [j EXCEPT !.fn = "start", !.delay = j.wait]

MayStart(ns, j) == ns[j.node].lock.active <= j.id

\* What else is left, when the transition of j starts, is of older transitions or goes on.
Foremost(R, j) == NoDelays => \A b \in R : b.fn # "tick" => b.id <= j.id

\* A timer starts the transition of a node: it is active now, and its tick done.
LEMMA ChartActivates ==
    ASSUME NEW ns, NEW ms, NEW doc, NEW over, NEW D, NEW R, NEW cur, NEW time, version \in Nat,
           Chart(ns, doc, over, D, R, cur, time), NEW j \in R, j.fn = "start",
           MayStart(ns, j), Owns(ns, ms, j.node, j.id), SameLook(ns, ms, j.node),
           NEW k, k = TickOf(ns, j), cur \subseteq {j}, Foremost(R, j)
    PROVE  Chart(ms, doc, over, D \cup {k}, R \ {j}, {}, time) /\ IsTimer(k) /\ k \notin D \cup R
<1> DEFINE n == j.node
           J == D \cup R
           K == (J \ {j}) \cup {k}
<1>1. /\ AreNodes(ns) /\ IsDocument(doc, ns) /\ LocksCount(ns, J) /\ D \cap R = {}
      /\ \A i \in J : /\ IsJob(i, Len(ns), time) /\ IsTimer(i) /\ i.id \in 1 .. version
                      /\ i.node \in 1 .. Len(ns) /\ i.fn \in {"begin", "start", "tick"}
      /\ \A i \in D : i.fn # "begin"
      /\ \A i, h \in J : i.id = h.id /\ i.node = h.node => i = h
  BY DEF Chart, IsJob, IsTimer, Alike
<1>2. /\ n \in 1 .. Len(ns) /\ j \in J /\ j \notin D /\ AreNodes(ms) /\ Len(ms) = Len(ns) /\ Differ(ns, ms, n)
      /\ j.id \in 1 .. version
  BY <1>1 DEF Owns, Differ
<1>3. /\ IsTimer(k) /\ IsJob(k, Len(ns), time) /\ k.fn = "tick" /\ k.node = n /\ k.id = j.id
      /\ k.target = j.target /\ k.removes = j.removes /\ k.tweened = (ns[n].look # j.target)
  <2>1. IsTimer(j) /\ IsJob(j, Len(ns), time)
    BY <1>1, <1>2
  <2>2. DOMAIN j = TimerFields
    BY <2>1 DEF IsTimer
  <2>3. /\ DOMAIN k = TimerFields /\ k.fn = "tick" /\ k.node = n /\ k.id = j.id /\ k.group = j.group
        /\ k.target = j.target /\ k.removes = j.removes /\ k.tweened = (ns[n].look # j.target)
        /\ k.then = j.then /\ k.wait = j.wait /\ k.duration = j.duration /\ k.delay = 0
    BY <2>2 DEF TimerFields, TickOf
  <2>4. IsTimer(k)
    BY <2>1, <2>3 DEF IsTimer
  <2> QED
    BY <2>1, <2>3, <2>4 DEF IsJob
<1>4. k \notin J
  BY <1>1, <1>2, <1>3
<1>5. LocksCount(ms, (J \ {j}) \cup {k}) /\ OwnerIs(ms, n, j.id) /\ HasOwner(ns, n)
  <2> HIDE DEF J
  <2>1. /\ LocksCount(ns, J) /\ j \in J /\ j.node \in 1 .. Len(ns) /\ j.fn # "begin" /\ k.fn # "begin"
        /\ j.id \in 0 .. version /\ k.node = j.node
    BY <1>1, <1>2, <1>3
  <2> QED
    BY <1>4, <2>1, LockPassed
<1>6. ms[n].look = ns[n].look /\ \A m \in 1 .. Len(ns) : m # n => ms[m] = ns[m]
  BY <1>2 DEF Differ, SameLook
<1>7. /\ IsDocument(doc, ms)
      /\ \A m \in 1 .. Len(ns) : Goal(ms, m) = Goal(ns, m) /\ (Wanted(ms, m) <=> Wanted(ns, m))
  BY <1>1, <1>2, ChangedData
<1>8. ms[n].lock.active = j.id /\ ns[n].lock.active \in 0 .. version /\ ns[n].lock.active <= j.id
  BY <1>5 DEF OwnerIs, HasOwner, MayStart
<1>9. ASSUME NoDelays PROVE AtOnce(ms, D \cup {k}, R \ {j}, {})
  <2>1. AtOnce(ns, D, R, cur) /\ \A b \in R : b.fn # "tick" => b.id <= j.id
    BY <1>9 DEF Chart, Foremost
  <2>2. \A i \in (D \cup {k}) \cup (R \ {j}) : i.fn # "start"
    BY <1>2, <1>3, <2>1 DEF AtOnce
  <2>3. \A i, h \in R \ {j} : i.fn = "tick" /\ h.fn = "tick" /\ i.node = h.node => i = h
    BY <2>1 DEF AtOnce
  <2>4. ASSUME NEW i \in D \cup {k} PROVE ms[i.node].lock.active = i.id
    <3>1. CASE i = k
      BY <1>3, <1>8, <3>1
    <3>2. CASE i # k
      <4>1. i \in D /\ i \in J /\ ns[i.node].lock.active = i.id /\ j.id <= i.id /\ i # j
        BY <1>2, <2>1, <3>2 DEF AtOnce
      <4>2. i.node \in 1 .. Len(ns) /\ i.id \in 1 .. version
        BY <1>1, <4>1
      <4>3. i.node # n
        BY <1>1, <1>2, <1>8, <4>1, <4>2
      <4> QED
        BY <1>6, <4>1, <4>2, <4>3
    <3> QED
      BY <3>1, <3>2
  <2>5. \A i \in D \cup {k}, b \in R \ {j} : b.fn # "tick" => b.id <= i.id
    BY <1>3, <2>1 DEF AtOnce
  <2> QED
    BY <2>2, <2>3, <2>4, <2>5 DEF AtOnce
<1>10. ASSUME version > 0, ~over, ~mixed PROVE Settles(ms, doc, K)
  <2>1. Settles(ns, doc, J)
    BY <1>10 DEF Chart
  <2>2. ASSUME Pending(ns, n, J) PROVE Pending(ms, n, K)
    <3>1. PICK i \in J : Brings(i, ns, n)
      BY <2>2 DEF Pending
    <3>2. CASE i = j
      <4>1. k \in K /\ Brings(k, ms, n)
        BY <1>2, <1>3, <1>6, <1>7, <1>8, <3>1, <3>2 DEF Brings
      <4> QED
        BY <4>1 DEF Pending
    <3>3. CASE i # j
      <4>1. i.fn # "tick"
        BY <1>1, <1>2, <1>8, <3>1, <3>3 DEF Brings
      <4>2. i \in K /\ Brings(i, ms, n)
        BY <1>2, <1>7, <3>1, <3>3, <4>1 DEF Brings
      <4> QED
        BY <4>2 DEF Pending
    <3> QED
      BY <3>2, <3>3
  <2>3. ~Reached(ns, n, J)
    <3>1. ns[n].lock # None
      BY <1>5 DEF HasOwner
    <3> QED
      BY <1>2, <1>8, <3>1 DEF Reached
  <2>4. n \in ToSet(doc) => Pending(ms, n, K)
    BY <2>1, <2>2, <2>3 DEF Settles
  <2>5. \A i : i.node # n => (i \in J <=> i \in K)
    BY <1>3
  <2> HIDE DEF J, K, n
  <2> QED
    BY <1>1, <1>2, <2>1, <2>4, <2>5, SettlesAgain
<1>11. \A i \in K : IsJob(i, Len(ms), time)
  BY <1>1, <1>2, <1>3
<1>12. \A i, h \in K : Alike(i, h) => i = h
  <2>1. ASSUME NEW i \in J \ {j} PROVE ~(i.id = k.id /\ i.node = k.node)
    <3>1. i \in J /\ i # j /\ (i.id = j.id /\ i.node = j.node => i = j)
      BY <1>1, <1>2
    <3> QED
      BY <1>3, <3>1
  <2>2. \A i, h \in J \ {j} : i.id = h.id /\ i.node = h.node => i = h
    BY <1>1
  <2> DEFINE rest == J \ {j}
  <2>3. /\ \A i \in rest : ~Alike(i, k) /\ ~Alike(k, i)
        /\ \A i, h \in rest : Alike(i, h) => i = h
    BY <2>1, <2>2 DEF Alike
  <2> HIDE DEF rest
  <2>4. \A i, h \in rest \cup {k} : Alike(i, h) => i = h
    BY <2>3
  <2> QED
    BY <2>4 DEF rest
<1>13. (D \cup {k}) \cap (R \ {j}) = {} /\ (\A i \in D \cup {k} : i.fn # "begin") /\ K = (D \cup {k}) \cup (R \ {j})
  BY <1>1, <1>2, <1>3, <1>4
<1>14. LocksCount(ms, K)
  BY <1>5
<1> HIDE DEF K
<1>15. Chart(ms, doc, over, D \cup {k}, R \ {j}, {}, time)
  BY <1>2, <1>7, <1>9, <1>10, <1>11, <1>12, <1>13, <1>14 DEF Chart
<1> QED
  BY <1>3, <1>4, <1>15

\* The transition that is active goes on.
LEMMA ChartBetween ==
    ASSUME NEW ns, NEW ms, NEW doc, NEW over, NEW D, NEW R, NEW cur, NEW time, version \in Nat,
           Chart(ns, doc, over, D, R, cur, time), NEW j \in D \cup R, j.fn = "tick",
           ns[j.node].lock.active = j.id, Differ(ns, ms, j.node), SameLock(ns, ms, j.node),
           j.tweened \/ SameLook(ns, ms, j.node)
    PROVE  Chart(ms, doc, over, D, R, cur, time)
<1> DEFINE n == j.node
           J == D \cup R
<1>1. /\ AreNodes(ns) /\ IsDocument(doc, ns) /\ LocksCount(ns, J) /\ D \cap R = {}
      /\ \A i \in J : /\ IsJob(i, Len(ns), time) /\ i.id \in 1 .. version /\ i.node \in 1 .. Len(ns)
      /\ \A i \in D : i.fn # "begin"
      /\ \A i, h \in J : i.id = h.id /\ i.node = h.node => i = h
  BY DEF Chart, IsJob, Alike
<1>2. n \in 1 .. Len(ns) /\ AreNodes(ms) /\ Len(ms) = Len(ns) /\ Differ(ns, ms, n) /\ j \in J
  BY <1>1 DEF Differ
<1>3. \A m \in 1 .. Len(ns) : ms[m].lock = ns[m].lock
  BY <1>2 DEF Differ, SameLock
<1>4. LocksCount(ms, J)
  <2> HIDE DEF J
  <2> QED
    BY <1>1, <1>2, <1>3 DEF LocksCount
<1>5. /\ IsDocument(doc, ms)
      /\ \A m \in 1 .. Len(ns) : Goal(ms, m) = Goal(ns, m) /\ (Wanted(ms, m) <=> Wanted(ns, m))
  BY <1>1, <1>2, ChangedData
<1>6. NoDelays => AtOnce(ms, D, R, cur)
  <2>1. NoDelays => AtOnce(ns, D, R, cur)
    BY DEF Chart
  <2>2. \A i \in D : i.node \in 1 .. Len(ns)
    BY <1>1
  <2> QED
    BY <1>3, <2>1, <2>2 DEF AtOnce
<1>7. ASSUME version > 0, ~over, ~mixed PROVE Settles(ms, doc, J)
  <2>1. Settles(ns, doc, J)
    BY <1>7 DEF Chart
  <2>2. ASSUME NEW i \in J, Brings(i, ns, n) PROVE Brings(i, ms, n)
    <3>1. i.fn = "tick" => i = j
      BY <1>1, <1>2, <2>2 DEF Brings
    <3>2. i.fn = "tick" => ms[n].lock.active = version /\ (i.tweened \/ ms[n].look = Goal(ns, n))
      BY <1>2, <1>3, <2>2, <3>1 DEF Brings, SameLook
    <3> QED
      BY <1>2, <1>5, <2>2, <3>2 DEF Brings
  <2>3. Pending(ns, n, J) => Pending(ms, n, J)
    BY <2>2 DEF Pending
  <2>4. ~Reached(ns, n, J)
    <3>1. ns[n].lock # None
      <4>1. \E C \in {Counted(J, n)} : \E c \in {Cardinality(C)} :
               \E a \in 0 .. version : ns[n].lock = Lock(a, c) /\ Lock(a, c) # None
        <5> HIDE DEF J
        <5>1. LocksCount(ns, J) /\ j \in J /\ j.node \in 1 .. Len(ns) /\ j.fn # "begin"
          BY <1>1, <1>2
        <5> QED
          BY <5>1, LockIs DEF n
      <4> QED
        BY <4>1
    <3> QED
      BY <1>2, <3>1 DEF Reached
  <2>5. n \in ToSet(doc) => Pending(ms, n, J)
    BY <2>1, <2>3, <2>4 DEF Settles
  <2> HIDE DEF J, n
  <2> QED
    BY <1>1, <1>2, <2>1, <2>5, SettlesAgain
<1>8. \A i \in J : IsJob(i, Len(ms), time)
  BY <1>1, <1>2
<1>9. D \cap R = {} /\ (\A i, k \in J : Alike(i, k) => i = k) /\ \A i \in D : i.fn # "begin"
  BY <1>1 DEF Alike
<1> QED
  BY <1>2, <1>4, <1>5, <1>6, <1>7, <1>8, <1>9 DEF Chart

\* A timer is done with for this step: what remains is of an active transition, or waits.
LEMMA ChartKeeps ==
    ASSUME NEW ns, NEW doc, NEW over, NEW D, NEW R, NEW cur, NEW time,
           Chart(ns, doc, over, D, R, cur, time), NEW j \in R, j.fn # "begin",
           NoDelays => ns[j.node].lock.active = j.id /\ \A b \in R : b.fn = "tick"
    PROVE  Chart(ns, doc, over, D \cup {j}, R \ {j}, cur, time)
<1>1. (D \cup {j}) \cup (R \ {j}) = D \cup R /\ (D \cup {j}) \cap (R \ {j}) = {}
  BY DEF Chart
<1>2. ASSUME NoDelays PROVE AtOnce(ns, D \cup {j}, R \ {j}, cur)
  BY <1>2 DEF AtOnce, Chart
<1> QED
  BY <1>1, <1>2 DEF Chart

\* The transition of a node begins: what starts it is there.
LEMMA ChartBegins ==
    ASSUME NEW ns, NEW ms, NEW doc, NEW over, NEW D, NEW R, NEW time, version \in Nat,
           Chart(ns, doc, over, D, R, {}, time), NEW j \in R, j.fn = "begin",
           Takes(ns, ms, j.node), SameLook(ns, ms, j.node),
           NEW k, k = StartOf(j), NEW more, over => more
    PROVE  /\ Chart(ms, doc, more, D, (R \ {j}) \cup {k}, {k}, time) /\ IsTimer(k) /\ k \notin D \cup R
           /\ HasOwner(ms, j.node)
<1> DEFINE n == j.node
           J == D \cup R
           K == (J \ {j}) \cup {k}
<1>1. /\ AreNodes(ns) /\ IsDocument(doc, ns) /\ LocksCount(ns, J) /\ D \cap R = {}
      /\ \A i \in J : /\ IsJob(i, Len(ns), time) /\ IsTimer(i) /\ i.id \in 1 .. version
                      /\ i.node \in 1 .. Len(ns) /\ i.fn \in {"begin", "start", "tick"}
      /\ \A i \in D : i.fn # "begin"
      /\ \A i, h \in J : i.id = h.id /\ i.node = h.node => i = h
  BY DEF Chart, IsJob, IsTimer, Alike
<1>2. /\ n \in 1 .. Len(ns) /\ j \in J /\ j \notin D /\ AreNodes(ms) /\ Len(ms) = Len(ns) /\ Differ(ns, ms, n)
      /\ j.id \in 1 .. version
  BY <1>1 DEF Takes, Differ
<1>3. /\ IsTimer(k) /\ IsJob(k, Len(ns), time) /\ k.fn = "start" /\ k.node = n /\ k.id = j.id
      /\ k.target = j.target /\ k.removes = j.removes
  <2>1. IsTimer(j) /\ IsJob(j, Len(ns), time)
    BY <1>1, <1>2
  <2>2. DOMAIN j = TimerFields
    BY <2>1 DEF IsTimer
  <2>3. /\ DOMAIN k = TimerFields /\ k.fn = "start" /\ k.node = n /\ k.id = j.id /\ k.group = j.group
        /\ k.target = j.target /\ k.removes = j.removes
        /\ k.then = j.then /\ k.wait = j.wait /\ k.duration = j.duration /\ k.delay = j.wait
    BY <2>2 DEF TimerFields, StartOf
  <2>4. IsTimer(k)
    BY <2>1, <2>3 DEF IsTimer
  <2> QED
    BY <2>1, <2>3, <2>4 DEF IsJob
<1>4. k \notin J
  BY <1>1, <1>2, <1>3
<1>5. /\ LocksCount(ms, (J \ {j}) \cup {k}) /\ HasOwner(ms, n)
      /\ \A i \in Counted(J, n) : OwnerStays(ns, ms, n)
  <2> HIDE DEF J
  <2>1. /\ LocksCount(ns, J) /\ j \in J /\ j.node \in 1 .. Len(ns) /\ j.fn = "begin" /\ k.fn # "begin"
        /\ k.node = j.node
    BY <1>1, <1>2, <1>3
  <2> QED
    BY <1>4, <2>1, LockTaken
<1>6. ms[n].look = ns[n].look /\ \A m \in 1 .. Len(ns) : m # n => ms[m] = ns[m]
  BY <1>2 DEF Differ, SameLook
<1>7. /\ IsDocument(doc, ms)
      /\ \A m \in 1 .. Len(ns) : Goal(ms, m) = Goal(ns, m) /\ (Wanted(ms, m) <=> Wanted(ns, m))
  BY <1>1, <1>2, ChangedData
<1>8. ASSUME NEW i \in J, i.fn # "begin", i.node = n PROVE ms[n].lock.active = ns[n].lock.active
  BY <1>5, <1>8 DEF Counted, OwnerStays
<1>9. ASSUME NoDelays PROVE AtOnce(ms, D, (R \ {j}) \cup {k}, {k})
  <2>1. AtOnce(ns, D, R, {})
    BY <1>9 DEF Chart
  <2>2. ASSUME NEW i \in D PROVE ms[i.node].lock.active = i.id
    <3>1. ns[i.node].lock.active = i.id /\ i.fn # "begin" /\ i.node \in 1 .. Len(ns) /\ i \in J
      BY <1>1, <2>1 DEF AtOnce
    <3> QED
      BY <1>6, <1>8, <3>1
  <2>3. \A i \in D \cup ((R \ {j}) \cup {k}) : i.fn = "start" => i \in {k}
    BY <2>1 DEF AtOnce
  <2>4. \A i, h \in (R \ {j}) \cup {k} : i.fn = "tick" /\ h.fn = "tick" /\ i.node = h.node => i = h
    BY <1>3, <2>1 DEF AtOnce
  <2>5. \A i \in D, b \in (R \ {j}) \cup {k} : b.fn # "tick" => b.id <= i.id
    BY <1>3, <2>1 DEF AtOnce
  <2> QED
    BY <2>2, <2>3, <2>4, <2>5 DEF AtOnce
<1>10. ASSUME version > 0, ~more, ~mixed PROVE Settles(ms, doc, K)
  <2>1. Settles(ns, doc, J)
    BY <1>10 DEF Chart
  <2>2. ASSUME Pending(ns, n, J) PROVE Pending(ms, n, K)
    <3>1. PICK i \in J : Brings(i, ns, n)
      BY <2>2 DEF Pending
    <3>2. CASE i = j
      <4>1. k \in K /\ Brings(k, ms, n)
        BY <1>2, <1>3, <1>6, <1>7, <3>1, <3>2 DEF Brings
      <4> QED
        BY <4>1 DEF Pending
    <3>3. CASE i # j
      <4>1. i.fn = "tick" => ms[n].lock.active = ns[n].lock.active
        BY <1>8, <3>1 DEF Brings
      <4>2. i \in K /\ Brings(i, ms, n)
        BY <1>2, <1>6, <1>7, <3>1, <3>3, <4>1 DEF Brings
      <4> QED
        BY <4>2 DEF Pending
    <3> QED
      BY <3>2, <3>3
  <2>3. ~Reached(ns, n, J)
    BY <1>2 DEF Reached
  <2>4. n \in ToSet(doc) => Pending(ms, n, K)
    BY <2>1, <2>2, <2>3 DEF Settles
  <2>5. \A i : i.node # n => (i \in J <=> i \in K)
    BY <1>3
  <2> HIDE DEF J, K, n
  <2> QED
    BY <1>1, <1>2, <2>1, <2>4, <2>5, SettlesAgain
<1>11. \A i \in K : IsJob(i, Len(ms), time)
  BY <1>1, <1>2, <1>3
<1>12. \A i, h \in K : Alike(i, h) => i = h
  <2>1. ASSUME NEW i \in J \ {j} PROVE ~(i.id = k.id /\ i.node = k.node)
    <3>1. i \in J /\ i # j /\ (i.id = j.id /\ i.node = j.node => i = j)
      BY <1>1, <1>2
    <3> QED
      BY <1>3, <3>1
  <2>2. \A i, h \in J \ {j} : i.id = h.id /\ i.node = h.node => i = h
    BY <1>1
  <2> DEFINE rest == J \ {j}
  <2>3. /\ \A i \in rest : ~Alike(i, k) /\ ~Alike(k, i)
        /\ \A i, h \in rest : Alike(i, h) => i = h
    BY <2>1, <2>2 DEF Alike
  <2> HIDE DEF rest
  <2>4. \A i, h \in rest \cup {k} : Alike(i, h) => i = h
    BY <2>3
  <2> QED
    BY <2>4 DEF rest
<1>13. D \cap ((R \ {j}) \cup {k}) = {} /\ (\A i \in D : i.fn # "begin") /\ K = D \cup ((R \ {j}) \cup {k})
  BY <1>1, <1>2, <1>3, <1>4
<1>14. LocksCount(ms, K)
  BY <1>5
<1> HIDE DEF K
<1>15. Chart(ms, doc, more, D, (R \ {j}) \cup {k}, {k}, time)
  BY <1>2, <1>7, <1>9, <1>10, <1>11, <1>12, <1>13, <1>14 DEF Chart
<1> QED
  BY <1>3, <1>4, <1>5, <1>15

\* Nothing is under way any more.
LEMMA ChartLeaves ==
    ASSUME NEW ns, NEW doc, NEW over, NEW D, NEW R, NEW cur, NEW time,
           Chart(ns, doc, over, D, R, cur, time), ~NoDelays \/ cur \cap (D \cup R) = {}
    PROVE  Chart(ns, doc, over, D, R, {}, time)
<1>1. ASSUME NoDelays PROVE AtOnce(ns, D, R, {})
  BY <1>1 DEF AtOnce, Chart
<1> QED
  BY <1>1 DEF Chart

\* The step is over: what it did is what is left.
LEMMA ChartRests ==
    ASSUME NEW ns, NEW doc, NEW over, NEW D, NEW time, Chart(ns, doc, over, D, {}, {}, time)
    PROVE  Chart(ns, doc, over, {}, D, {}, time)
<1>1. D \cup {} = {} \cup D
  OBVIOUS
<1>2. \A i, j \in D : i.id = j.id /\ i.node = j.node => i = j
  BY DEF Chart, Alike
<1>3. ASSUME NoDelays PROVE AtOnce(ns, {}, D, {})
  BY <1>2, <1>3 DEF AtOnce, Chart
<1> QED
  BY <1>1, <1>3 DEF Chart

-----------------------------------------------------------------------------
\* What a step has added in front of the m timers it visits, and what it keeps of those.
Fore(s, m) == {s.queue[i] : i \in 1 .. Len(s.queue) - m}

Done(s, m) == Fore(s, m) \cup ToSet(s.kept)

Lists(s, m) ==
    /\ IsState(s) /\ m \in 0 .. Len(s.queue) /\ Distinct(s.kept) /\ Fore(s, m) \cap ToSet(s.kept) = {}
    /\ \A i, k \in 1 .. Len(s.queue) - m : s.queue[i] = s.queue[k] => i = k

SameRest(s, t) == t.nodes = s.nodes /\ t.dom = s.dom /\ t.late = s.late

LEMMA SameLists ==
    ASSUME NEW s, NEW t, NEW m, Lists(s, m), Same(s, t)
    PROVE  Lists(t, m) /\ Done(t, m) = Done(s, m)
  BY DEF Lists, Same, Done, Fore

LEMMA TimerLists ==
    ASSUME NEW s, NEW m, Lists(s, m), NEW e, e \notin Done(s, m)
    PROVE  \E t \in {Timer(s, e)} : Lists(t, m) /\ Done(t, m) = Done(s, m) \cup {e} /\ SameRest(s, t)
<1> DEFINE t == Timer(s, e)
           n == Len(s.queue)
           more == <<e>> \o s.queue
           added == [s EXCEPT !.queue = more]
           asked == [added EXCEPT !.timeout = None, !.interval = 1, !.frames = @ + 1]
<1>1. IsState(s) /\ IsList(s.queue) /\ n \in Nat /\ m \in 0 .. n
  BY ListHas DEF Lists, IsState
<1>2. /\ IsList(more) /\ Len(more) = 1 + n /\ more[1] = e
      /\ \A i \in 1 .. n : more[1 + i] = s.queue[i]
  <2>1. IsList(<<e>>) /\ Len(<<e>>) = 1 /\ <<e>>[1] = e
    <3>1. <<e>> \in Seq({e})
      OBVIOUS
    <3> QED
      BY <3>1 DEF IsList
  <2> DEFINE one == <<e>>
             rest == s.queue
  <2> HIDE DEF one, rest
  <2>3. /\ IsList(one \o rest) /\ Len(one \o rest) = Len(one) + Len(rest)
        /\ \A i \in 1 .. Len(one) : (one \o rest)[i] = one[i]
        /\ \A i \in 1 .. Len(rest) : (one \o rest)[Len(one) + i] = rest[i]
    BY <1>1, <2>1, JoinedLists DEF one, rest
  <2> QED
    BY <2>1, <2>3 DEF one, rest
<1> HIDE DEF more
<1>3. /\ added.queue = more /\ added.kept = s.kept /\ SameRest(s, added) /\ IsState(added)
      /\ asked.queue = more /\ asked.kept = s.kept /\ SameRest(s, asked) /\ IsState(asked)
  BY <1>1, <1>2 DEF IsState, StepFields, SameRest
<1>4. t \in {added, asked}
  BY <1>1 DEF Timer, more, IsState, StepFields
<1> HIDE DEF t, added, asked
<1>5. t.queue = more /\ t.kept = s.kept /\ SameRest(s, t) /\ IsState(t)
  BY <1>3, <1>4
<1>6. \A i \in 1 .. (n + 1) - m : i = 1 \/ (i - 1 \in 1 .. n - m /\ i - 1 \in 1 .. n /\ more[i] = s.queue[i - 1])
  <2> SUFFICES ASSUME NEW i \in 1 .. (n + 1) - m, i # 1
               PROVE  i - 1 \in 1 .. n - m /\ i - 1 \in 1 .. n /\ more[i] = s.queue[i - 1]
    OBVIOUS
  <2> DEFINE k == i - 1
  <2>1. k \in 1 .. n - m /\ k \in 1 .. n /\ i = 1 + k
    BY <1>1
  <2> HIDE DEF k
  <2>2. more[i] = s.queue[k]
    BY <1>2, <2>1
  <2> QED
    BY <2>1, <2>2 DEF k
<1>7. \A i \in 1 .. n - m : 1 + i \in 1 .. (n + 1) - m /\ i \in 1 .. n
  BY <1>1
<1>8. 1 \in 1 .. (n + 1) - m /\ m \in 0 .. Len(t.queue) /\ Len(t.queue) = n + 1
  BY <1>1, <1>2, <1>5
<1>9. Fore(t, m) = Fore(s, m) \cup {e}
  <2> DEFINE F == {more[i] : i \in 1 .. (n + 1) - m}
             G == {s.queue[i] : i \in 1 .. n - m}
  <2>1. F \subseteq G \cup {e}
    BY <1>2, <1>6
  <2>2. ASSUME NEW i \in 1 .. n - m PROVE s.queue[i] \in F
    BY <1>2, <1>7
  <2>3. e \in F
    BY <1>2, <1>8
  <2>4. F = G \cup {e}
    BY <2>1, <2>2, <2>3
  <2> QED
    BY <1>5, <1>8, <2>4 DEF Fore
<1>10. Done(t, m) = Done(s, m) \cup {e} /\ Fore(t, m) \cap ToSet(t.kept) = {}
  BY <1>5, <1>9 DEF Done, Lists
<1>11. \A i \in 1 .. n - m : s.queue[i] # e
  BY DEF Done, Fore
<1>12. \A i, k \in 1 .. (n + 1) - m : more[i] = more[k] => i = k
  <2> SUFFICES ASSUME NEW i \in 1 .. (n + 1) - m, NEW k \in 1 .. (n + 1) - m, more[i] = more[k] PROVE i = k
    OBVIOUS
  <2>1. CASE i = 1 /\ k = 1
    BY <2>1
  <2>2. CASE i = 1 /\ k # 1
    BY <1>2, <1>6, <1>11, <2>2
  <2>3. CASE i # 1 /\ k = 1
    BY <1>2, <1>6, <1>11, <2>3
  <2>4. CASE i # 1 /\ k # 1
    <3>1. i - 1 = k - 1
      BY <1>6, <2>4 DEF Lists
    <3> QED
      BY <3>1
  <2> QED
    BY <2>1, <2>2, <2>3, <2>4
<1>13. Lists(t, m)
  <2>1. Distinct(t.kept)
    BY <1>5 DEF Lists
  <2> QED
    BY <1>5, <1>8, <1>10, <1>12, <2>1 DEF Lists
<1> QED
  BY <1>5, <1>10, <1>13 DEF t

LEMMA KeptLists ==
    ASSUME NEW s, NEW m, Lists(s, m), NEW e, e \notin Done(s, m)
    PROVE  \E t \in {[s EXCEPT !.kept = Append(@, e)]} :
              Lists(t, m) /\ Done(t, m) = Done(s, m) \cup {e} /\ SameRest(s, t)
<1> DEFINE more == Append(s.kept, e)
           t == [s EXCEPT !.kept = more]
           n == Len(s.kept)
<1>1. IsState(s) /\ IsList(s.kept)
  BY DEF Lists, IsState
<1>2. IsList(more) /\ ToSet(more) = ToSet(s.kept) \cup {e} /\ Len(more) = n + 1
  BY <1>1, AppendedList
<1>3. Distinct(more)
  <2>1. PICK E : s.kept \in Seq(E)
    BY <1>1 DEF IsList
  <2>2. n \in Nat /\ more[n + 1] = e /\ \A k \in 1 .. n : more[k] = s.kept[k]
    BY <2>1
  <2> HIDE DEF more
  <2>3. DOMAIN more = 1 .. n + 1
    BY <1>2, ListHas
  <2> DEFINE q == s.kept
  <2> HIDE DEF q
  <2>4. DOMAIN q = 1 .. Len(q) /\ ToSet(q) = {q[k] : k \in 1 .. Len(q)}
    BY <1>1, ListHas DEF q
  <2>5. Distinct(q) /\ e \notin ToSet(q)
    BY DEF Done, Lists, q
  <2> QED
    BY <2>2, <2>3, <2>4, <2>5 DEF Distinct, q
<1> HIDE DEF more
<1>4. t.kept = more /\ t.queue = s.queue /\ SameRest(s, t) /\ IsState(t)
  BY <1>1, <1>2 DEF IsState, StepFields, SameRest
<1>5. t = [s EXCEPT !.kept = Append(@, e)]
  BY <1>1 DEF more, IsState, StepFields
<1> HIDE DEF t
<1>6. Done(t, m) = Done(s, m) \cup {e} /\ Fore(t, m) = Fore(s, m)
  BY <1>2, <1>4 DEF Done, Fore
<1>7. e \notin Fore(s, m)
  BY DEF Done
<1>8. Lists(t, m)
  BY <1>2, <1>3, <1>4, <1>6, <1>7 DEF Lists
<1> QED
  BY <1>4, <1>5, <1>6, <1>8

-----------------------------------------------------------------------------
\* What the parts of a tick do to the nodes and to the document.
LEMMA StopDoes ==
    ASSUME NEW s, IsState(s), AreNodes(s.nodes), NEW n \in 1 .. Len(s.nodes)
    PROVE  \E t \in {StopTransition(s, n)} :
              /\ Same(s, t) /\ t.dom = s.dom /\ t.late = s.late
              /\ Releases(s.nodes, t.nodes, n) /\ SameLook(s.nodes, t.nodes, n)
<1> DEFINE t == StopTransition(s, n)
           new == Released(s.nodes[n].lock)
           ms == [s.nodes EXCEPT ![n].lock = new]
<1>1. t = [s EXCEPT !.nodes = ms]
  BY DEF StopTransition, Released, IsState, StepFields
<1>2. LockIsSet(s.nodes, ms, n, new)
  <2>1. ms = WithLock(s.nodes, n, new)
    BY DEF WithLock
  <2> HIDE DEF ms, new
  <2> QED
    BY <2>1, LockChanges
<1> HIDE DEF ms
<1>3. t.nodes = ms /\ t.dom = s.dom /\ t.late = s.late
  BY <1>1 DEF IsState, StepFields
<1>4. Same(s, t)
  BY StopIsSame
<1> HIDE DEF t
<1>5. Releases(s.nodes, t.nodes, n) /\ SameLook(s.nodes, t.nodes, n)
  BY <1>2, <1>3 DEF Releases, LockIsSet, new
<1> QED
  BY <1>3, <1>4, <1>5 DEF t

LEMMA ShownDoes ==
    ASSUME NEW s, IsState(s), AreNodes(s.nodes), NEW e, e.node \in 1 .. Len(s.nodes), NEW look
    PROVE  \E t \in {Shown(s, e, look)} :
              /\ Same(s, t) /\ t.dom = s.dom /\ t.late = s.late
              /\ Differ(s.nodes, t.nodes, e.node) /\ SameLock(s.nodes, t.nodes, e.node)
              /\ t.nodes[e.node].look = IF e.tweened THEN look ELSE s.nodes[e.node].look
<1> DEFINE n == e.node
           t == Shown(s, e, look)
           ms == [s.nodes EXCEPT ![n].look = look]
           u == [s EXCEPT !.nodes = ms]
<1>1. t = IF e.tweened THEN u ELSE s
  BY DEF Shown, IsState, StepFields
<1>2. LookIsSet(s.nodes, ms, n, look)
  <2>1. n \in 1 .. Len(s.nodes) /\ ms = WithLook(s.nodes, n, look)
    BY DEF WithLook
  <2> HIDE DEF n, ms
  <2> QED
    BY <2>1, LookChanges
<1> HIDE DEF ms
<1>3. u.nodes = ms /\ u.dom = s.dom /\ u.late = s.late
  BY DEF IsState, StepFields
<1>4. Same(s, t)
  BY ShownIsSame
<1> HIDE DEF t, u, n
<1>5. CASE e.tweened
  BY <1>1, <1>2, <1>3, <1>4, <1>5 DEF t, n, LookIsSet
<1>6. CASE ~e.tweened
  BY <1>1, <1>4, <1>6 DEF t, n, Differ, SameLock
<1> QED
  BY <1>5, <1>6

Ended(s, t, n, e) ==
    /\ Same(s, t) /\ t.nodes = s.nodes /\ t.late = s.late
    /\ t.dom = IF e.removes /\ Free(s.nodes, n) THEN Without(s.dom, {n}) ELSE s.dom

LEMMA EndDoes ==
    ASSUME NEW s, IsState(s), NEW n, NEW e, NEW t, t = End(s, n, e)
    PROVE  Ended(s, t, n, e)
<1> DEFINE less == Without(s.dom, {n})
           u == [s EXCEPT !.dom = less]
<1>1. End(s, n, e) = IF e.removes /\ Free(s.nodes, n) THEN u ELSE s
  BY DEF End, Free, IsState, StepFields
<1> HIDE DEF less
<1>2. u.dom = less /\ u.nodes = s.nodes /\ u.late = s.late
  BY DEF IsState, StepFields
<1> HIDE DEF u
<1>3. Same(s, End(s, n, e))
  BY EndIsSame
<1> QED
  BY <1>1, <1>2, <1>3 DEF less, Ended

\* A tick, as far as the chart goes, in the middle of a step.
Goes(s, D, R, cur, time) == Chart(s.nodes, s.dom, s.late, D, R, cur, time)

LEMMA StopGoes ==
    ASSUME NEW s, NEW D, NEW R, NEW cur, NEW time, version \in Nat, IsState(s),
           Goes(s, D, R, cur, time), NEW j \in R, j.fn # "begin", Superseded(s.nodes, j),
           NEW t, t = StopTransition(s, j.node)
    PROVE  Same(s, t) /\ Goes(t, D, R \ {j}, cur, time)
<1>1. AreNodes(s.nodes) /\ j.node \in 1 .. Len(s.nodes)
  <2>1. Chart(s.nodes, s.dom, s.late, D, R, cur, time)
    BY DEF Goes
  <2> QED
    BY <2>1 DEF Chart, IsJob
<1>2. /\ Same(s, t) /\ t.dom = s.dom /\ t.late = s.late
      /\ Releases(s.nodes, t.nodes, j.node) /\ SameLook(s.nodes, t.nodes, j.node)
  BY <1>1, StopDoes
<1>3. Chart(t.nodes, s.dom, s.late, D, R \ {j}, cur, time)
  BY <1>2, ChartStops DEF Goes
<1> QED
  BY <1>2, <1>3 DEF Goes

LEMMA TickEnds ==
    ASSUME NEW s, NEW D, NEW R, NEW cur, NEW time, version \in Nat, IsState(s),
           Goes(s, D, R, cur, time), NEW j \in D \cup R, j.fn = "tick", s.nodes[j.node].lock.active = j.id,
           s.late \/ \A b \in R : b.fn # "begin", s.late \/ (j \in R /\ cur = {}) \/ ~NoDelays,
           IsOver(j, time)
    PROVE  \E t \in {Tick(s, j, time)} : Same(s, t) /\ Goes(t, D \ {j}, R \ {j}, cur, time)
<1> DEFINE n == j.node
           u == Shown(s, j, j.target)
           v == StopTransition(u, n)
           t == End(v, n, j)
<1>1. AreNodes(s.nodes) /\ n \in 1 .. Len(s.nodes)
  <2>1. Chart(s.nodes, s.dom, s.late, D, R, cur, time)
    BY DEF Goes
  <2> QED
    BY <2>1 DEF Chart, IsJob
<1>2. Tick(s, j, time) = t
  BY DEF Tick
<1>3. /\ Same(s, u) /\ u.dom = s.dom /\ u.late = s.late /\ IsState(u)
      /\ Differ(s.nodes, u.nodes, n) /\ SameLock(s.nodes, u.nodes, n)
      /\ u.nodes[n].look = IF j.tweened THEN j.target ELSE s.nodes[n].look
  <2>1. /\ Same(s, u) /\ u.dom = s.dom /\ u.late = s.late
        /\ Differ(s.nodes, u.nodes, n) /\ SameLock(s.nodes, u.nodes, n)
        /\ u.nodes[n].look = IF j.tweened THEN j.target ELSE s.nodes[n].look
    BY <1>1, ShownDoes
  <2> HIDE DEF u
  <2> QED
    BY <2>1 DEF Same
<1> HIDE DEF u
<1>4. AreNodes(u.nodes) /\ n \in 1 .. Len(u.nodes)
  BY <1>1, <1>3 DEF Differ
<1>5. /\ Same(u, v) /\ v.dom = u.dom /\ v.late = u.late /\ IsState(v)
      /\ Releases(u.nodes, v.nodes, n) /\ SameLook(u.nodes, v.nodes, n)
  <2> HIDE DEF n
  <2>1. /\ Same(u, v) /\ v.dom = u.dom /\ v.late = u.late
        /\ Releases(u.nodes, v.nodes, n) /\ SameLook(u.nodes, v.nodes, n)
    BY <1>3, <1>4, StopDoes
  <2> HIDE DEF v
  <2> QED
    BY <2>1 DEF Same
<1> HIDE DEF v
<1>6. /\ Same(v, t) /\ t.nodes = v.nodes /\ t.late = v.late
      /\ t.dom = IF j.removes /\ Free(v.nodes, n) THEN Without(v.dom, {n}) ELSE v.dom
  <2>1. IsState(v) /\ t = End(v, n, j)
    BY <1>5
  <2> HIDE DEF n, t
  <2>2. Ended(v, t, n, j)
    BY ONLY <2>1, EndDoes
  <2> QED
    BY <2>2 DEF Ended
<1> HIDE DEF t
<1>7. Same(s, t)
  BY <1>3, <1>5, <1>6, SameAgain
<1>8. Releases(s.nodes, v.nodes, n) /\ v.nodes[n].look = IF j.tweened THEN j.target ELSE s.nodes[n].look
  BY <1>3, <1>5 DEF Releases, Differ, SameLock, SameLook
<1>9. Chart(v.nodes, IF j.removes /\ Free(v.nodes, j.node) THEN Without(s.dom, {j.node}) ELSE s.dom, s.late,
            D \ {j}, R \ {j}, cur, time)
  BY <1>8, ChartEnds DEF Goes, n
<1>10. Goes(t, D \ {j}, R \ {j}, cur, time)
  BY <1>3, <1>5, <1>6, <1>9 DEF Goes, n
<1> QED
  BY <1>2, <1>7, <1>10

LEMMA TickGoesOn ==
    ASSUME NEW s, NEW D, NEW R, NEW cur, NEW time, version \in Nat, IsState(s),
           Goes(s, D, R, cur, time), NEW j \in D \cup R, j.fn = "tick", s.nodes[j.node].lock.active = j.id,
           ~IsOver(j, time)
    PROVE  \E u \in {Shown(s, j, Between)} :
              /\ Same(s, u) /\ Goes(u, D, R, cur, time) /\ u.nodes[j.node].lock.active = j.id
              /\ Tick(s, j, time) = [u EXCEPT !.kept = Append(@, j)]
<1> DEFINE u == Shown(s, j, Between)
<1>1. AreNodes(s.nodes) /\ j.node \in 1 .. Len(s.nodes)
  <2>1. Chart(s.nodes, s.dom, s.late, D, R, cur, time)
    BY DEF Goes
  <2> QED
    BY <2>1 DEF Chart, IsJob
<1>2. Tick(s, j, time) = [u EXCEPT !.kept = Append(@, j)]
  BY DEF Tick
<1>3. /\ Same(s, u) /\ u.dom = s.dom /\ u.late = s.late
      /\ Differ(s.nodes, u.nodes, j.node) /\ SameLock(s.nodes, u.nodes, j.node)
      /\ u.nodes[j.node].look = IF j.tweened THEN Between ELSE s.nodes[j.node].look
  BY <1>1, ShownDoes
<1> HIDE DEF u
<1>4. j.tweened \/ SameLook(s.nodes, u.nodes, j.node)
  BY <1>3 DEF SameLook
<1>5. Chart(u.nodes, s.dom, s.late, D, R, cur, time)
  BY <1>3, <1>4, ChartBetween DEF Goes
<1>6. u.nodes[j.node].lock.active = j.id
  BY <1>3 DEF SameLock
<1> QED
  BY <1>2, <1>3, <1>5, <1>6 DEF Goes, u

\* The timers and the chart in the middle of a step that visits m timers: the jobs R are left.
Midway(s, m, R, cur, time) == Lists(s, m) /\ Goes(s, Done(s, m), R, cur, time)

LEMMA StartGoes ==
    ASSUME NEW s, NEW m, NEW R, NEW cur, NEW time, version \in Nat, Midway(s, m, R, cur, time),
           NEW j \in R, j.fn = "start", cur \subseteq {j}, Foremost(R, j),
           IsOver(j, time) => s.late \/ ((\A b \in R : b.fn # "begin") /\ ~NoDelays)
    PROVE  \E t \in {StartTransition(s, j, time)} : Midway(t, m, R \ {j}, {}, time)
<1> DEFINE n == j.node
           D == Done(s, m)
           k == TickOf(s.nodes, j)
           ms == [s.nodes EXCEPT ![n].lock = Owned(s.nodes[n].lock, j.id)]
           active == [s EXCEPT !.nodes = ms]
           ticked == Tick(active, k, time)
           back == [ticked EXCEPT !.kept = s.kept]
           t == StartTransition(s, j, time)
<1>1. Lists(s, m) /\ Goes(s, D, R, cur, time) /\ Chart(s.nodes, s.dom, s.late, D, R, cur, time) /\ IsState(s)
  BY DEF Midway, Lists, Goes
<1>2. /\ AreNodes(s.nodes) /\ n \in 1 .. Len(s.nodes) /\ IsTimer(j) /\ j.id \in 1 .. version
      /\ LocksCount(s.nodes, D \cup R) /\ j \notin D
  <2>1. IsJob(j, Len(s.nodes), time)
    BY <1>1 DEF Chart
  <2> QED
    BY <1>1, <2>1 DEF Chart, IsJob
<1>3. s.nodes[n].lock.active \in Nat
  <2>1. \E C \in {Counted(D \cup R, j.node)} : \E c \in {Cardinality(C)} :
           \E a \in 0 .. version : s.nodes[j.node].lock = Lock(a, c) /\ Lock(a, c) # None
    <3> DEFINE J == D \cup R
    <3>1. LocksCount(s.nodes, J) /\ j \in J /\ j.fn # "begin" /\ j.node \in 1 .. Len(s.nodes)
      BY <1>2
    <3> HIDE DEF J
    <3>2. \E C \in {Counted(J, j.node)} : \E c \in {Cardinality(C)} :
             \E a \in 0 .. version : s.nodes[j.node].lock = Lock(a, c) /\ Lock(a, c) # None
      BY <3>1, LockIs
    <3> QED
      BY <3>2 DEF J
  <2> QED
    BY <2>1 DEF Lock
<1>4. t = IF s.nodes[n].lock.active > j.id THEN StopTransition(s, n)
          ELSE IF IsOver(j, time) THEN ticked ELSE Timer(back, k)
  <2>1. active = [s EXCEPT !.nodes[n].lock.active = j.id]
    BY <1>1 DEF Owned, IsState, StepFields
  <2> HIDE DEF active
  <2> QED
    BY <2>1 DEF StartTransition, Tweened, TickOf
<1> HIDE DEF t, D
<1>5. CASE s.nodes[n].lock.active > j.id
  <2>1. Superseded(s.nodes, j)
    BY <1>2, <1>3, <1>5 DEF Superseded
  <2>2. Same(s, t) /\ Goes(t, D, R \ {j}, cur, time)
    BY <1>1, <1>4, <1>5, <2>1, StopGoes
  <2>3. cur \cap (D \cup (R \ {j})) = {}
    BY <1>2
  <2>4. Goes(t, D, R \ {j}, {}, time)
    BY <2>2, <2>3, ChartLeaves DEF Goes
  <2>5. Lists(t, m) /\ Done(t, m) = D
    BY <1>1, <2>2, SameLists DEF D
  <2> QED
    BY <2>4, <2>5 DEF Midway, t
<1>6. CASE ~(s.nodes[n].lock.active > j.id)
  <2>1. LockIsSet(s.nodes, ms, n, Owned(s.nodes[n].lock, j.id))
    <3>1. AreNodes(s.nodes) /\ n \in 1 .. Len(s.nodes) /\ ms = WithLock(s.nodes, n, Owned(s.nodes[n].lock, j.id))
      BY <1>2 DEF WithLock
    <3> HIDE DEF n, ms
    <3> QED
      BY ONLY <3>1, LockChanges
  <2> HIDE DEF ms
  <2>2. Owns(s.nodes, ms, n, j.id) /\ SameLook(s.nodes, ms, n) /\ ms[n].lock.active = j.id
    <3>1. Owned(s.nodes[n].lock, j.id).active = j.id
      <4>1. \E C \in {Counted(D \cup R, j.node)} : \E c \in {Cardinality(C)} :
               \E a \in 0 .. version : s.nodes[j.node].lock = Lock(a, c)
        <5> DEFINE J == D \cup R
        <5>1. LocksCount(s.nodes, J) /\ j \in J /\ j.fn # "begin" /\ j.node \in 1 .. Len(s.nodes)
          BY <1>2
        <5> HIDE DEF J
        <5>2. \E C \in {Counted(J, j.node)} : \E c \in {Cardinality(C)} :
                 \E a \in 0 .. version : s.nodes[j.node].lock = Lock(a, c) /\ Lock(a, c) # None
          BY <5>1, LockIs
        <5> QED
          BY <5>2 DEF J
      <4> QED
        BY <4>1 DEF Owned, Lock
    <3> QED
      BY <2>1, <3>1 DEF Owns, LockIsSet
  <2>3. Same(s, active) /\ active.nodes = ms /\ active.dom = s.dom /\ active.late = s.late /\ IsState(active)
    BY <1>1 DEF Same, IsState, StepFields
  <2> HIDE DEF active
  <2>4. /\ Chart(ms, s.dom, s.late, D \cup {k}, R \ {j}, {}, time) /\ IsTimer(k) /\ k \notin D \cup R
    <3>1. MayStart(s.nodes, j)
      BY <1>2, <1>3, <1>6 DEF MayStart
    <3>2. k = TickOf(s.nodes, j)
      OBVIOUS
    <3>3. Owns(s.nodes, ms, j.node, j.id) /\ SameLook(s.nodes, ms, j.node)
      BY <2>2
    <3> HIDE DEF k, n
    <3> QED
      BY <1>1, <3>1, <3>2, <3>3, ChartActivates
  <2>5. Goes(active, D \cup {k}, R \ {j}, {}, time)
    BY <2>3, <2>4 DEF Goes
  <2>6. k.fn = "tick" /\ k.node = n /\ k.id = j.id /\ (IsOver(k, time) <=> IsOver(j, time))
    BY <1>2 DEF IsTimer, TimerFields, IsOver, TickOf
  <2> HIDE DEF k
  <2>7. active.nodes[k.node].lock.active = k.id
    BY <2>2, <2>3, <2>6
  <2>8. CASE IsOver(j, time)
    <3>1. Same(active, ticked) /\ Goes(ticked, (D \cup {k}) \ {k}, (R \ {j}) \ {k}, {}, time)
      <4>1. active.late \/ \A b \in R \ {j} : b.fn # "begin"
        BY <2>3, <2>8
      <4>2. active.late \/ ~NoDelays
        BY <2>3, <2>8
      <4> DEFINE D1 == D \cup {k}
                 R1 == R \ {j}
      <4>3. k \in D1 \cup R1
        OBVIOUS
      <4> HIDE DEF D1, R1
      <4>4. Goes(active, D1, R1, {}, time) /\ (active.late \/ \A b \in R1 : b.fn # "begin")
        BY <2>5, <4>1 DEF D1, R1
      <4>5. Same(active, ticked) /\ Goes(ticked, D1 \ {k}, R1 \ {k}, {}, time)
        BY <2>3, <2>6, <2>7, <2>8, <4>2, <4>3, <4>4, TickEnds
      <4> QED
        BY <4>5 DEF D1, R1
    <3>2. (D \cup {k}) \ {k} = D /\ (R \ {j}) \ {k} = R \ {j}
      BY <2>4
    <3>3. t = ticked
      BY <1>4, <1>6, <2>8
    <3> HIDE DEF ticked
    <3>4. Same(s, ticked)
      BY <2>3, <3>1, SameAgain
    <3>5. Lists(ticked, m) /\ Done(ticked, m) = D
      BY <1>1, <3>4, SameLists DEF D
    <3>6. Midway(ticked, m, R \ {j}, {}, time)
      BY <3>1, <3>2, <3>5 DEF Midway
    <3> QED
      BY <3>3, <3>6 DEF t
  <2>9. CASE ~IsOver(j, time)
    <3> DEFINE u == Shown(active, k, Between)
    <3>1. Same(active, u) /\ Goes(u, D \cup {k}, R \ {j}, {}, time) /\ ticked = [u EXCEPT !.kept = Append(@, k)]
      <4> DEFINE D1 == D \cup {k}
                 R1 == R \ {j}
      <4>1. k \in D1 \cup R1
        OBVIOUS
      <4> HIDE DEF D1, R1
      <4>2. Goes(active, D1, R1, {}, time)
        BY <2>5 DEF D1, R1
      <4>3. Same(active, u) /\ Goes(u, D1, R1, {}, time) /\ ticked = [u EXCEPT !.kept = Append(@, k)]
        BY <2>3, <2>6, <2>7, <2>9, <4>1, <4>2, TickGoesOn
      <4> QED
        BY <4>3 DEF D1, R1
    <3> HIDE DEF u, ticked
    <3>2. Same(s, u)
      BY <2>3, <3>1, SameAgain
    <3>3. Same(u, back) /\ SameRest(u, back) /\ Same(s, back)
      <4>1. Same(u, back) /\ SameRest(u, back)
        BY <1>1, <3>1, <3>2 DEF Same, SameRest, IsState, StepFields
      <4> HIDE DEF back
      <4> QED
        BY <3>2, <4>1, SameAgain
    <3> HIDE DEF back
    <3>4. Lists(back, m) /\ Done(back, m) = D
      BY <1>1, <3>3, SameLists DEF D
    <3>5. k \notin Done(back, m)
      BY <2>4, <3>4
    <3> DEFINE r == Timer(back, k)
    <3>6. Lists(r, m) /\ Done(r, m) = Done(back, m) \cup {k} /\ SameRest(back, r)
      BY <3>4, <3>5, TimerLists
    <3>7. t = r
      BY <1>4, <1>6, <2>9
    <3> HIDE DEF r
    <3>8. Midway(r, m, R \ {j}, {}, time)
      BY <3>1, <3>3, <3>4, <3>6 DEF Midway, Goes, SameRest
    <3> QED
      BY <3>7, <3>8 DEF t
  <2> QED
    BY <2>8, <2>9
<1> QED
  BY <1>5, <1>6

\* The transition of one of its nodes begins.
LEMMA BeginNodeGoes ==
    ASSUME NEW s, NEW m, NEW R, NEW time \in Nat, version \in Nat, Midway(s, m, R, {}, time),
           NEW e, IsTimer(e), e.fn = "begin", e.then <= time, NEW n, JobFor(e, n) \in R,
           Foremost(R, e)
    PROVE  \E t \in {BeginNode(s, e, n, time)} : Midway(t, m, R \ {JobFor(e, n)}, {}, time)
<1>0. PICK more \in BOOLEAN : more = (s.late \/ IsOver(e, time))
  OBVIOUS
<1> DEFINE j == JobFor(e, n)
           D == Done(s, m)
           ms == [s.nodes EXCEPT ![n].lock = Taken(s.nodes[n].lock)]
           count == [s EXCEPT !.nodes = ms, !.late = more]
           k == [e EXCEPT !.fn = "start", !.node = n, !.group = <<>>, !.delay = e.wait]
           R1 == (R \ {j}) \cup {k}
           t == BeginNode(s, e, n, time)
<1>1. Lists(s, m) /\ Chart(s.nodes, s.dom, s.late, D, R, {}, time) /\ IsState(s)
  BY DEF Midway, Lists, Goes
<1>2. /\ j.node = n /\ j.fn = "begin" /\ j.id = e.id /\ j.wait = e.wait /\ j \in R
      /\ k = StartOf(j)
      /\ k.fn = "start" /\ k.id = e.id /\ k.wait = e.wait /\ (IsOver(k, time) <=> IsOver(e, time))
  BY DEF IsTimer, TimerFields, JobFor, IsOver, StartOf
<1> HIDE DEF j
<1>3. AreNodes(s.nodes) /\ n \in 1 .. Len(s.nodes) /\ e.wait \in waits
  <2>1. IsJob(j, Len(s.nodes), time)
    BY <1>1, <1>2 DEF Chart
  <2> QED
    BY <1>1, <1>2, <2>1 DEF Chart, IsJob
<1>4. t = IF e.wait <= time - e.then THEN StartTransition(count, k, time) ELSE Timer(count, k)
  <2>1. count = [s EXCEPT !.nodes[n].lock = [(IF s.nodes[n].lock = None THEN NewLock ELSE s.nodes[n].lock)
                                               EXCEPT !.count = @ + 1],
                          !.late = @ \/ IsOver(e, time)]
    BY <1>0, <1>1 DEF Taken, IsState, StepFields
  <2> HIDE DEF count, k
  <2> QED
    BY <2>1 DEF BeginNode, k
<1>5. Differ(s.nodes, ms, n) /\ SameLook(s.nodes, ms, n) /\ ms[n].lock = Taken(s.nodes[n].lock)
  <2>1. AreNodes(s.nodes) /\ n \in 1 .. Len(s.nodes)
    BY <1>3
  <2> DEFINE lock == Taken(s.nodes[n].lock)
  <2>2. ms = WithLock(s.nodes, n, lock)
    BY DEF WithLock
  <2> HIDE DEF lock, ms
  <2>3. LockIsSet(s.nodes, ms, n, lock)
    BY ONLY <2>1, <2>2, LockChanges
  <2> QED
    BY <2>3 DEF LockIsSet, lock
<1> HIDE DEF ms, k, t, D
<1>6. Same(s, count) /\ count.nodes = ms /\ count.dom = s.dom /\ count.late = more /\ IsState(count)
  BY <1>1 DEF Same, IsState, StepFields
<1> HIDE DEF count
<1>7. Takes(s.nodes, ms, j.node) /\ SameLook(s.nodes, ms, j.node) /\ (s.late => more)
  BY <1>0, <1>2, <1>5 DEF Takes
<1>8. Chart(ms, s.dom, more, D, R1, {k}, time) /\ k \notin D \cup R
  BY <1>1, <1>2, <1>7, ChartBegins
<1>9. Lists(count, m) /\ Done(count, m) = D
  BY <1>1, <1>6, SameLists DEF D
<1>10. Midway(count, m, R1, {k}, time)
  BY <1>6, <1>8, <1>9 DEF Midway, Goes
<1>11. R1 \ {k} = R \ {j} /\ k \in R1
  BY <1>8
<1>12. CASE e.wait <= time - e.then
  <2>1. Foremost(R1, k)
    BY <1>2 DEF Foremost
  <2>2. IsOver(k, time) => count.late
    BY <1>0, <1>2, <1>6
  <2> HIDE DEF R1
  <2>3. Midway(StartTransition(count, k, time), m, R1 \ {k}, {}, time)
    BY <1>2, <1>10, <1>11, <2>1, <2>2, StartGoes
  <2> QED
    BY <1>4, <1>11, <1>12, <2>3 DEF t, j
<1>13. CASE ~(e.wait <= time - e.then)
  <2>1. ~NoDelays
    <3>1. e.wait # 0
      BY <1>13 DEF IsTimer
    <3> QED
      BY <1>3, <3>1 DEF NoDelays
  <2> HIDE DEF R1
  <2>2. Chart(ms, s.dom, more, D \cup {k}, R1 \ {k}, {k}, time)
    <3>1. k.fn # "begin" /\ k \in R1 /\ Chart(ms, s.dom, more, D, R1, {k}, time)
      BY <1>2, <1>8, <1>11 DEF R1
    <3> QED
      BY <2>1, <3>1, ChartKeeps
  <2>3. Chart(ms, s.dom, more, D \cup {k}, R1 \ {k}, {}, time)
    BY <2>1, <2>2, ChartLeaves
  <2>4. k \notin Done(count, m)
    BY <1>8, <1>9
  <2> DEFINE r == Timer(count, k)
  <2>5. Lists(r, m) /\ Done(r, m) = Done(count, m) \cup {k} /\ SameRest(count, r)
    BY <1>9, <2>4, TimerLists
  <2>6. t = r
    BY <1>4, <1>13
  <2> HIDE DEF r
  <2>7. Midway(r, m, R1 \ {k}, {}, time)
    BY <1>6, <1>9, <2>3, <2>5 DEF Midway, Goes, SameRest
  <2> QED
    BY <1>11, <2>6, <2>7 DEF t, j
<1> QED
  BY <1>12, <1>13

-----------------------------------------------------------------------------
\* What holds at first, and of every step if it did of the one before.
LEMMA HoldsAlong ==
    ASSUME NEW m \in Nat, NEW S, 0 \in S, \A k \in 1 .. m : k - 1 \in S => k \in S
    PROVE  m \in S
<1> DEFINE T == {k \in 0 .. m : k \notin S}
<1>1. ASSUME T # {} PROVE FALSE
  <2>1. PICK k \in T : \A j \in T : k <= j
    <3>1. T \subseteq Nat
      OBVIOUS
    <3> HIDE DEF T
    <3> QED
      BY <1>1, <3>1, LeastOf
  <2>2. k # 0
    BY <2>1
  <2>3. k - 1 \in 0 .. m /\ k \in 1 .. m /\ k - 1 \notin T
    BY <2>1, <2>2
  <2> QED
    BY <2>1, <2>3
<1> QED
  BY <1>1

LEMMA BeginGoes ==
    ASSUME NEW s, NEW m, NEW R, NEW time \in Nat, version \in Nat, Midway(s, m, R, {}, time),
           NEW e, IsTimer(e), e.fn = "begin", e.then <= time, Distinct(e.group), JobsOf(e) \subseteq R,
           Foremost(R, e)
    PROVE  \E t \in {BeginTransition(s, e, time)} : Midway(t, m, R \ JobsOf(e), {}, time)
<1> DEFINE N == Len(e.group)
           Gone(k) == {JobFor(e, e.group[i]) : i \in 1 .. k}
<1>1. IsList(e.group) /\ N \in Nat /\ DOMAIN e.group = 1 .. N /\ ToSet(e.group) = {e.group[i] : i \in 1 .. N}
  BY ListHas DEF IsTimer
<1>2. PICK f : /\ f[0] = s /\ \A k \in 1 .. N : f[k] = BeginNode(f[k - 1], e, e.group[k], time)
               /\ BeginTransition(s, e, time) = f[N]
  <2>1. IsList(e.group)
    BY <1>1
  <2> QED
    BY <2>1, BeginningIs
<1> DEFINE Ok(k) == Midway(f[k], m, R \ Gone(k), {}, time)
<1>3. Ok(0)
  <2>1. R \ Gone(0) = R
    OBVIOUS
  <2> QED
    BY <1>2, <2>1
<1>4. ASSUME NEW k \in 1 .. N, Ok(k - 1) PROVE Ok(k)
  <2> DEFINE n == e.group[k]
             rest == R \ Gone(k - 1)
  <2>1. Gone(k) = Gone(k - 1) \cup {JobFor(e, n)}
    <3>1. \A i \in 1 .. k : i \in 1 .. k - 1 \/ i = k
      BY <1>1
    <3>2. k \in 1 .. k /\ \A i \in 1 .. k - 1 : i \in 1 .. k
      BY <1>1
    <3> QED
      BY <3>1, <3>2
  <2>2. JobFor(e, n) \in rest
    <3>1. JobFor(e, n) \in R
      BY <1>1 DEF JobsOf
    <3>2. \A i \in 1 .. k - 1 : JobFor(e, e.group[i]) # JobFor(e, n)
      <4> SUFFICES ASSUME NEW i \in 1 .. k - 1 PROVE JobFor(e, e.group[i]) # JobFor(e, n)
        OBVIOUS
      <4>1. i \in 1 .. N /\ i # k
        BY <1>1
      <4>2. e.group[i] # n
        BY <1>1, <4>1 DEF Distinct
      <4>3. JobFor(e, e.group[i]).node = e.group[i] /\ JobFor(e, n).node = n
        BY DEF JobFor, IsTimer, TimerFields
      <4> QED
        BY <4>2, <4>3
    <3> QED
      BY <3>1, <3>2
  <2>3. Foremost(rest, e)
    BY DEF Foremost
  <2>4. f[k] = BeginNode(f[k - 1], e, n, time) /\ Midway(f[k - 1], m, rest, {}, time)
    BY <1>2, <1>4
  <2>5. rest \ {JobFor(e, n)} = R \ Gone(k)
    BY <2>1
  <2> HIDE DEF rest, n, Gone
  <2>6. \E t \in {BeginNode(f[k - 1], e, n, time)} : Midway(t, m, rest \ {JobFor(e, n)}, {}, time)
    BY <2>2, <2>3, <2>4, BeginNodeGoes
  <2> QED
    BY <2>4, <2>5, <2>6
<1>5. Ok(N)
  <2> DEFINE S == {k \in Nat : Ok(k)}
  <2> HIDE DEF Ok
  <2>1. 0 \in S /\ \A k \in 1 .. N : k - 1 \in S => k \in S
    BY <1>1, <1>3, <1>4
  <2> HIDE DEF S, N
  <2>2. N \in S
    BY <1>1, <2>1, HoldsAlong
  <2> QED
    BY <2>2 DEF S
<1>6. Gone(N) = JobsOf(e)
  BY <1>1 DEF JobsOf
<1> QED
  BY <1>2, <1>5, <1>6

\* The timers that are left are those of the next one and of the ones behind it.
LEMMA BehindIs ==
    ASSUME NEW q, IsList(q), NEW k \in 1 .. Len(q), Ordered(q)
    PROVE  /\ JobsOf(q[k]) \subseteq JobsBehind(q, k - 1)
           /\ JobsBehind(q, k) = JobsBehind(q, k - 1) \ JobsOf(q[k])
<1>1. Len(q) \in Nat
  BY ListHas
<1>2. \A i \in (k - 1) + 1 .. Len(q) : i = k \/ i \in k + 1 .. Len(q)
  BY <1>1
<1>3. k \in (k - 1) + 1 .. Len(q) /\ \A i \in k + 1 .. Len(q) : i \in (k - 1) + 1 .. Len(q) /\ i \in 1 .. Len(q) /\ i # k
  BY <1>1
<1>4. \A i \in k + 1 .. Len(q) : JobsOf(q[i]) \cap JobsOf(q[k]) = {}
  BY <1>3 DEF Ordered, Alike
<1> QED
  BY <1>2, <1>3, <1>4 DEF JobsBehind

LEMMA JobIs ==
    ASSUME NEW e, IsTimer(e), NEW j \in JobsOf(e)
    PROVE  j.fn = e.fn /\ j.id = e.id
<1>1. CASE e.fn = "begin"
  <2>1. PICK n : j = JobFor(e, n)
    BY <1>1 DEF JobsOf
  <2> QED
    BY <2>1 DEF JobFor, IsTimer, TimerFields
<1>2. CASE e.fn # "begin"
  BY <1>2 DEF JobsOf
<1> QED
  BY <1>1, <1>2

LEMMA VisitGoes ==
    ASSUME NEW q, IsList(q), Ordered(q), NEW size, NEW time \in Nat, version \in Nat,
           \A e \in ToSet(q) : AxisTimer(e, size, time), NEW k \in 1 .. Len(q),
           NEW ready, \A e \in ToSet(q) : e.delay = 0 => e \in ready,
           NEW s, NEW m, Midway(s, m, JobsBehind(q, k - 1), {}, time)
    PROVE  \E t \in {Visit(s, q[k], ready, time)} : Midway(t, m, JobsBehind(q, k), {}, time)
<1> DEFINE e == q[k]
           R == JobsBehind(q, k - 1)
           D == Done(s, m)
           t == Visit(s, e, ready, time)
<1>1. /\ \A i \in 1 .. Len(q) : AxisTimer(q[i], size, time) /\ IsTimer(q[i])
      /\ AxisTimer(e, size, time) /\ IsTimer(e) /\ (e.delay = 0 => e \in ready)
  <2>1. ToSet(q) = {q[i] : i \in 1 .. Len(q)}
    BY ListHas
  <2> QED
    BY <2>1 DEF AxisTimer
<1>2. JobsOf(e) \subseteq R /\ JobsBehind(q, k) = R \ JobsOf(e)
  BY BehindIs
<1>3. Lists(s, m) /\ Goes(s, D, R, {}, time) /\ IsState(s) /\ Chart(s.nodes, s.dom, s.late, D, R, {}, time)
  BY DEF Midway, Lists, Goes
<1>4. (\A b \in R : b.fn \in {"begin", "start", "tick"}) /\ (NoDelays => \A b \in R : b.fn # "start") /\ D \cap R = {}
  <2>1. \A b \in R : IsTimer(b)
    BY <1>3 DEF Chart, IsJob
  <2>2. NoDelays => \A b \in R : b.fn # "start"
    BY <1>3 DEF Chart, AtOnce
  <2>3. D \cap R = {}
    BY <1>3 DEF Chart
  <2> HIDE DEF R, D
  <2> QED
    BY <2>1, <2>2, <2>3 DEF IsTimer
<1>5. ASSUME NEW b \in R, b.fn = "begin" PROVE e.fn = "begin" /\ b.id <= e.id
  <2>1. PICK i \in (k - 1) + 1 .. Len(q) : b \in JobsOf(q[i])
    BY DEF JobsBehind
  <2>2. Len(q) \in Nat
    BY ListHas
  <2>3. i \in 1 .. Len(q) /\ (i = k \/ k < i)
    BY <2>2
  <2>4. b.fn = q[i].fn /\ b.id = q[i].id
    BY <1>1, <2>1, <2>3, JobIs
  <2>5. e.id \in Int
    BY <1>1 DEF AxisTimer
  <2> QED
    BY <1>5, <2>3, <2>4, <2>5 DEF Ordered
<1> HIDE DEF t, R, D
<1>6. CASE e.fn = "begin" /\ e \in ready
  <2>1. Foremost(R, e)
    BY <1>4, <1>5 DEF Foremost
  <2>2. t = BeginTransition(s, e, time)
    BY <1>6 DEF t, Visit, Call
  <2>3. Distinct(e.group) /\ e.then <= time /\ Midway(s, m, R, {}, time)
    BY <1>1, <1>6 DEF AxisTimer, R
  <2> HIDE DEF e
  <2>4. \E r \in {BeginTransition(s, e, time)} : Midway(r, m, R \ JobsOf(e), {}, time)
    BY <1>1, <1>2, <1>6, <2>1, <2>3, BeginGoes
  <2> QED
    BY <1>2, <2>2, <2>4 DEF t, e
<1>7. CASE e.fn # "begin"
  <2>1. JobsOf(e) = {e} /\ e \in R /\ JobsBehind(q, k) = R \ {e} /\ e \notin D
    BY <1>2, <1>4, <1>7 DEF JobsOf
  <2>2. \A b \in R : b.fn # "begin"
    BY <1>5, <1>7
  <2>3. e.fn = "start" => ~NoDelays
    BY <1>4, <2>1
  <2> HIDE DEF e
  <2>4. CASE e \notin ready \/ (e.fn = "tick" /\ s.nodes[e.node].lock.active = e.id /\ ~IsOver(e, time))
    <3>1. PICK u : /\ Same(s, u) /\ Goes(u, D, R, {}, time) /\ t = [u EXCEPT !.kept = Append(@, e)]
                   /\ NoDelays => u.nodes[e.node].lock.active = e.id
      <4>1. CASE e \notin ready
        <5>1. ~NoDelays
          BY <1>1, <1>7, <2>3, <4>1 DEF AxisTimer
        <5>2. t = [s EXCEPT !.kept = Append(@, e)]
          BY <4>1 DEF t, Visit, e
        <5>3. Same(s, s)
          BY <1>3 DEF Same
        <5> QED
          BY <1>3, <5>1, <5>2, <5>3
      <4>2. CASE e \in ready /\ e.fn = "tick" /\ s.nodes[e.node].lock.active = e.id /\ ~IsOver(e, time)
        <5>1. t = Tick(s, e, time)
          BY <4>2 DEF t, Visit, Call, e
        <5> DEFINE u == Shown(s, e, Between)
        <5>2. /\ Same(s, u) /\ Goes(u, D, R, {}, time) /\ u.nodes[e.node].lock.active = e.id
              /\ Tick(s, e, time) = [u EXCEPT !.kept = Append(@, e)]
          BY <1>3, <2>1, <4>2, TickGoesOn
        <5> QED
          BY <5>1, <5>2
      <4> QED
        BY <2>4, <4>1, <4>2
    <3>2. NoDelays => \A b \in R : b.fn = "tick"
      BY <1>4, <2>2
    <3>3. Chart(u.nodes, u.dom, u.late, D \cup {e}, R \ {e}, {}, time)
      <4>1. Chart(u.nodes, u.dom, u.late, D, R, {}, time)
        BY <3>1 DEF Goes
      <4> QED
        BY <1>7, <2>1, <3>1, <3>2, <4>1, ChartKeeps
    <3>4. Lists(u, m) /\ Done(u, m) = D
      BY <1>3, <3>1, SameLists DEF D
    <3>5. e \notin Done(u, m)
      BY <2>1, <3>4
    <3>6. Lists(t, m) /\ Done(t, m) = Done(u, m) \cup {e} /\ SameRest(u, t)
      <4>1. \E r \in {[u EXCEPT !.kept = Append(@, e)]} :
               Lists(r, m) /\ Done(r, m) = Done(u, m) \cup {e} /\ SameRest(u, r)
        BY <3>4, <3>5, KeptLists
      <4> QED
        BY <3>1, <4>1
    <3>7. Midway(t, m, R \ {e}, {}, time)
      BY <3>3, <3>4, <3>6 DEF Midway, Goes, SameRest
    <3> QED
      BY <2>1, <3>7 DEF t, e
  <2>5. CASE e \in ready /\ e.fn = "start"
    <3>1. t = StartTransition(s, e, time)
      BY <2>5 DEF t, Visit, Call, e
    <3>2. Foremost(R, e) /\ Midway(s, m, R, {}, time) /\ {} \subseteq {e}
      BY <2>3, <2>5 DEF Foremost, R
    <3>3. \E r \in {StartTransition(s, e, time)} : Midway(r, m, R \ {e}, {}, time)
      BY <2>1, <2>2, <2>3, <2>5, <3>2, StartGoes
    <3> QED
      BY <2>1, <3>1, <3>3 DEF t, e
  <2>6. CASE e \in ready /\ e.fn = "tick" /\ s.nodes[e.node].lock.active # e.id
    <3>1. t = StopTransition(s, e.node)
      BY <2>6 DEF t, Visit, Call, Tick, e
    <3>2. Superseded(s.nodes, e)
      BY <2>6 DEF Superseded
    <3>3. Same(s, t) /\ Goes(t, D, R \ {e}, {}, time)
      <4>1. IsState(s) /\ Goes(s, D, R, {}, time) /\ e \in R /\ e.fn # "begin"
        BY <1>3, <2>1, <2>6
      <4> HIDE DEF e, R, D, t
      <4> QED
        BY ONLY version \in Nat, <3>1, <3>2, <4>1, StopGoes
    <3>4. Lists(t, m) /\ Done(t, m) = D
      BY <1>3, <3>3, SameLists DEF D
    <3> QED
      BY <2>1, <3>3, <3>4 DEF Midway, t, e
  <2>7. CASE e \in ready /\ e.fn = "tick" /\ s.nodes[e.node].lock.active = e.id /\ IsOver(e, time)
    <3>1. t = Tick(s, e, time)
      BY <2>7 DEF t, Visit, Call, e
    <3>2. \E r \in {Tick(s, e, time)} : Same(s, r) /\ Goes(r, D \ {e}, R \ {e}, {}, time)
      BY <1>3, <2>1, <2>2, <2>7, TickEnds
    <3>3. Same(s, t) /\ Goes(t, D, R \ {e}, {}, time)
      <4>1. D \ {e} = D
        BY <2>1
      <4> QED
        BY <3>1, <3>2, <4>1
    <3>4. Lists(t, m) /\ Done(t, m) = D
      BY <1>3, <3>3, SameLists DEF D
    <3> QED
      BY <2>1, <3>3, <3>4 DEF Midway, t, e
  <2>8. e.fn \in {"start", "tick"}
    BY <1>1, <1>7 DEF IsTimer
  <2> QED
    BY <2>4, <2>5, <2>6, <2>7, <2>8
<1>8. e.fn = "begin" => e \in ready
  BY <1>1 DEF AxisTimer
<1> QED
  BY <1>6, <1>7, <1>8

-----------------------------------------------------------------------------
LEMMA EmptyList == IsList(<<>>) /\ Len(<<>>) = 0 /\ ToSet(<<>>) = {} /\ Distinct(<<>>)
<1>1. <<>> \in Seq({})
  OBVIOUS
<1> QED
  BY <1>1 DEF IsList, ToSet, Distinct

LEMMA JoinedHas ==
    ASSUME NEW p, NEW q, IsList(p), IsList(q)
    PROVE  /\ ToSet(p \o q) = ToSet(p) \cup ToSet(q)
           /\ Distinct(p) /\ Distinct(q) /\ ToSet(p) \cap ToSet(q) = {} => Distinct(p \o q)
<1> DEFINE both == p \o q
           m == Len(p)
           n == Len(q)
<1>1. m \in Nat /\ DOMAIN p = 1 .. m /\ ToSet(p) = {p[i] : i \in 1 .. m}
  BY ListHas
<1>2. n \in Nat /\ DOMAIN q = 1 .. n /\ ToSet(q) = {q[i] : i \in 1 .. n}
  BY ListHas
<1>3. /\ IsList(both) /\ Len(both) = m + n /\ (\A i \in 1 .. m : both[i] = p[i])
      /\ \A i \in 1 .. n : both[m + i] = q[i]
  BY JoinedLists
<1> HIDE DEF both, m, n
<1>4. DOMAIN both = 1 .. m + n /\ ToSet(both) = {both[i] : i \in 1 .. m + n}
  BY <1>3, ListHas
<1>5. \A i \in 1 .. m + n : i \in 1 .. m \/ (i - m \in 1 .. n /\ both[i] = q[i - m])
  <2> SUFFICES ASSUME NEW i \in 1 .. m + n, i \notin 1 .. m PROVE i - m \in 1 .. n /\ both[i] = q[i - m]
    OBVIOUS
  <2> DEFINE k == i - m
  <2>1. k \in 1 .. n /\ i = m + k
    BY <1>1, <1>2
  <2> HIDE DEF k
  <2> QED
    BY <1>3, <2>1 DEF k
<1>6. \A i \in 1 .. m : i \in 1 .. m + n
  BY <1>1, <1>2
<1>7. \A i \in 1 .. n : m + i \in 1 .. m + n
  BY <1>1, <1>2
<1>8. ToSet(both) = ToSet(p) \cup ToSet(q)
  <2>1. ToSet(both) \subseteq ToSet(p) \cup ToSet(q)
    BY <1>1, <1>2, <1>3, <1>4, <1>5
  <2>2. ToSet(p) \subseteq ToSet(both)
    BY <1>1, <1>3, <1>4, <1>6
  <2>3. ToSet(q) \subseteq ToSet(both)
    BY <1>2, <1>3, <1>4, <1>7
  <2> QED
    BY <2>1, <2>2, <2>3
<1>9. ASSUME Distinct(p), Distinct(q), ToSet(p) \cap ToSet(q) = {} PROVE Distinct(both)
  <2> SUFFICES ASSUME NEW i \in 1 .. m + n, NEW k \in 1 .. m + n, both[i] = both[k] PROVE i = k
    BY <1>4 DEF Distinct
  <2>1. CASE i \in 1 .. m /\ k \in 1 .. m
    BY <1>1, <1>3, <1>9, <2>1 DEF Distinct
  <2>2. CASE i \notin 1 .. m /\ k \notin 1 .. m
    <3>1. i - m = k - m
      BY <1>2, <1>5, <1>9, <2>2 DEF Distinct
    <3> QED
      BY <1>1, <1>2, <3>1
  <2>3. CASE i \in 1 .. m /\ k \notin 1 .. m
    <3>1. both[i] \in ToSet(p)
      BY <1>1, <1>3, <2>3
    <3>2. both[k] \in ToSet(q)
      BY <1>2, <1>5, <2>3
    <3> QED
      BY <1>9, <3>1, <3>2
  <2>4. CASE i \notin 1 .. m /\ k \in 1 .. m
    <3>1. both[k] \in ToSet(p)
      BY <1>1, <1>3, <2>4
    <3>2. both[i] \in ToSet(q)
      BY <1>2, <1>5, <2>4
    <3> QED
      BY <1>9, <3>1, <3>2
  <2> QED
    BY <2>1, <2>2, <2>3, <2>4
<1> QED
  BY <1>8, <1>9 DEF both

\* A queue of the jobs D, of which none begins.
LEMMA TidyAgain ==
    ASSUME NEW q, IsList(q), Distinct(q), NEW ns, NEW doc, NEW over, NEW time,
           Chart(ns, doc, over, ToSet(q), {}, {}, time)
    PROVE  Tidy(q, ns, doc, over, time)
<1> DEFINE D == ToSet(q)
           n == Len(q)
<1>1. n \in Nat /\ DOMAIN q = 1 .. n /\ D = {q[i] : i \in 1 .. n}
  BY ListHas
<1>2. /\ \A j \in D : IsJob(j, Len(ns), time) /\ j.fn # "begin" /\ JobsOf(j) = {j}
      /\ \A i, j \in D : Alike(i, j) => i = j
  BY DEF Chart, JobsOf
<1>3. JobsBehind(q, 0) = D
  <2>1. 0 + 1 .. n = 1 .. n
    BY <1>1
  <2>2. \A i \in 1 .. n : JobsOf(q[i]) = {q[i]}
    BY <1>1, <1>2
  <2> QED
    BY <1>1, <2>1, <2>2 DEF JobsBehind
<1>4. Ordered(q)
  <2>1. \A i, k \in 1 .. n : i # k => q[i] # q[k]
    BY <1>1 DEF Distinct
  <2>2. \A i \in 1 .. n : q[i] \in D /\ JobsOf(q[i]) = {q[i]} /\ q[i].fn # "begin"
    BY <1>1, <1>2
  <2> HIDE DEF D
  <2> QED
    BY <1>2, <2>1, <2>2 DEF Ordered
<1>5. \A e \in D : AxisTimer(e, Len(ns), time)
  BY <1>2 DEF AxisTimer, IsJob
<1>6. Chart(ns, doc, over, {}, D, {}, time)
  BY ChartRests
<1> QED
  BY <1>3, <1>4, <1>5, <1>6 DEF Tidy

\* What is ready is called first; everything that does not wait is ready.
LEMMA CallAllGoes ==
    ASSUME NEW s, IsState(s), s.kept = <<>>, NEW time \in Nat, version \in Nat,
           Tidy(s.queue, s.nodes, s.dom, s.late, time),
           NEW ready, \A e \in ToSet(s.queue) : e.delay = 0 => e \in ready
    PROVE  \E r \in {CallAll(s, s.queue, ready, time)} : Tidy(r.queue, r.nodes, r.dom, r.late, time)
<1> DEFINE q == s.queue
           m == Len(q)
           r == CallAll(s, q, ready, time)
<1>1. /\ IsList(q) /\ m \in Nat /\ Ordered(q) /\ (\A e \in ToSet(q) : AxisTimer(e, Len(s.nodes), time))
      /\ Chart(s.nodes, s.dom, s.late, {}, JobsBehind(q, 0), {}, time)
  BY ListHas DEF Tidy
<1>2. PICK f : Visits(f, s, q, ready, time, r)
  BY <1>1, VisitingIs
<1> HIDE DEF r
<1>3. /\ f[0] = s /\ \A k \in 1 .. m : f[k] = Visit(f[k - 1], q[k], ready, time)
      /\ \E t \in {f[m]} : r = [t EXCEPT !.queue = SubSeq(t.queue, 1, Len(t.queue) - m) \o t.kept, !.kept = <<>>]
  BY <1>2 DEF Visits
<1> DEFINE Ok(k) == Midway(f[k], m, JobsBehind(q, k), {}, time)
<1>4. Ok(0)
  <2>1. Fore(s, m) = {} /\ \A i \in 1 .. m - m : FALSE
    BY <1>1 DEF Fore
  <2>2. Done(s, m) = {}
    BY <2>1, EmptyList DEF Done
  <2>3. Lists(s, m)
    BY <1>1, <2>1, EmptyList DEF Lists
  <2> QED
    BY <1>1, <1>3, <2>2, <2>3 DEF Midway, Goes
<1>5. ASSUME NEW k \in 1 .. m, Ok(k - 1) PROVE Ok(k)
  <2> DEFINE u == f[k - 1]
             size == Len(s.nodes)
  <2>1. Midway(u, m, JobsBehind(q, k - 1), {}, time) /\ f[k] = Visit(u, q[k], ready, time)
    BY <1>3, <1>5
  <2>2. \A e \in ToSet(q) : e.delay = 0 => e \in ready
    OBVIOUS
  <2> HIDE DEF u, size, q, m
  <2>3. \A e \in ToSet(q) : AxisTimer(e, size, time)
    BY <1>1 DEF size
  <2>4. k \in 1 .. Len(q) /\ IsList(q) /\ Ordered(q)
    BY <1>1 DEF m
  <2>5. \E t \in {Visit(u, q[k], ready, time)} : Midway(t, m, JobsBehind(q, k), {}, time)
    BY <2>1, <2>2, <2>3, <2>4, VisitGoes
  <2> QED
    BY <2>1, <2>5
<1>6. Ok(m)
  <2> DEFINE S == {k \in Nat : Ok(k)}
  <2> HIDE DEF Ok, m
  <2>1. 0 \in S /\ \A k \in 1 .. m : k - 1 \in S => k \in S
    BY <1>1, <1>4, <1>5
  <2> HIDE DEF S
  <2>2. m \in S
    BY <1>1, <2>1, HoldsAlong
  <2> QED
    BY <2>2 DEF S
<1>7. JobsBehind(q, m) = {}
  BY <1>1 DEF JobsBehind
<1> DEFINE done == f[m]
           n == Len(done.queue)
           added == SubSeq(done.queue, 1, n - m)
           both == added \o done.kept
<1>8. Lists(done, m) /\ Chart(done.nodes, done.dom, done.late, Done(done, m), {}, {}, time) /\ IsState(done)
  BY <1>6, <1>7 DEF Midway, Goes, Lists
<1>9. r = [done EXCEPT !.queue = both, !.kept = <<>>]
  BY <1>3, <1>8 DEF IsState, StepFields
<1> HIDE DEF done, m
<1>10. IsList(done.queue) /\ IsList(done.kept) /\ Distinct(done.kept) /\ n \in Nat /\ n - m \in 0 .. n
  <2>1. IsList(done.queue) /\ IsList(done.kept) /\ Distinct(done.kept) /\ m \in 0 .. n
    BY <1>8 DEF Lists, IsState
  <2>2. n \in Nat
    BY <2>1, ListHas
  <2> HIDE DEF n
  <2> QED
    BY <2>1, <2>2
<1>11. /\ IsList(added) /\ Len(added) = n - m /\ (\A i \in 1 .. n - m : added[i] = done.queue[i])
       /\ ToSet(added) = {done.queue[i] : i \in 1 .. n - m}
  BY <1>10, PartOfList
<1> HIDE DEF added
<1>12. Distinct(added) /\ ToSet(added) = Fore(done, m)
  <2>1. DOMAIN added = 1 .. n - m
    BY <1>11, ListHas
  <2> QED
    BY <1>8, <1>11, <2>1 DEF Distinct, Lists, Fore
<1>13. IsList(both) /\ ToSet(both) = Done(done, m) /\ Distinct(both)
  <2>1. ToSet(added) \cap ToSet(done.kept) = {}
    BY <1>8, <1>12 DEF Lists
  <2>2. IsList(both)
    BY <1>10, <1>11, JoinedLists
  <2>3. ToSet(both) = ToSet(added) \cup ToSet(done.kept) /\ Distinct(both)
    BY <1>10, <1>11, <1>12, <2>1, JoinedHas
  <2> QED
    BY <1>12, <2>2, <2>3 DEF Done
<1> HIDE DEF both
<1>14. Tidy(both, done.nodes, done.dom, done.late, time)
  BY <1>8, <1>13, TidyAgain
<1>15. r.queue = both /\ r.nodes = done.nodes /\ r.dom = done.dom /\ r.late = done.late
  BY <1>8, <1>9 DEF IsState, StepFields
<1> QED
  BY <1>14, <1>15 DEF r

-----------------------------------------------------------------------------
LEMMA RescheduleRest ==
    ASSUME NEW s, IsState(s), NEW time
    PROVE  \E r \in {Reschedule(s, time)} : SameRest(s, r) /\ r.queue = s.queue
<1> DEFINE wait == Min({t.then + t.delay : t \in ToSet(s.queue)}) - time
<1>1. Reschedule(s, time) =
         IF s.queue = <<>> THEN [s EXCEPT !.interval = 0]
         ELSE IF wait > Soon THEN [s EXCEPT !.timeout = time + wait, !.interval = 0]
         ELSE [s EXCEPT !.interval = 1, !.frames = @ + 1]
  BY DEF Reschedule
<1> HIDE DEF wait
<1> QED
  BY <1>1 DEF SameRest, IsState, StepFields

LEMMA TidyStays ==
    ASSUME UNCHANGED chartVars, Tidy(queue', nodes', dom', late', now')
    PROVE  Tidy(queue, nodes, dom, late, now)'
<1>1. version' = version /\ ticks' = ticks /\ waits' = waits /\ mixed' = mixed
  BY DEF chartVars
<1>2. (\A e \in ToSet(queue) : AxisTimer(e, Len(nodes), now))'
  BY <1>1 DEF Tidy, AxisTimer
<1>3. Settles(nodes', dom', {} \cup JobsBehind(queue', 0)) => Settles(nodes, dom, {} \cup JobsBehind(queue, 0))'
  BY <1>1 DEF Settles, Pending, Reached, NoDelays, Brings, Goal, Wanted
<1>4. (\A j \in {} \cup JobsBehind(queue, 0) : IsJob(j, Len(nodes), now))'
  BY <1>1 DEF Tidy, Chart, IsJob
<1>5. LocksCount(nodes, {} \cup JobsBehind(queue, 0))'
  BY <1>1 DEF Tidy, Chart, LocksCount
<1>6. Chart(nodes, dom, late, {}, JobsBehind(queue, 0), {}, now)'
  BY <1>1, <1>3, <1>4, <1>5 DEF Tidy, Chart, AtOnce, NoDelays
<1> QED
  BY <1>2, <1>6 DEF Tidy

\* Nothing of the chart changes but by what a step makes of it.
LEMMA BecomesOk ==
    ASSUME version \in Nat, ticks \in Ticks \cup {<<>>}, UNCHANGED <<now, chartVars>>,
           Tidy(queue', nodes', dom', late', now)
    PROVE  AxisInv'
<1>1. version' = version /\ ticks' = ticks /\ Tidy(queue', nodes', dom', late', now')
  BY DEF chartVars
<1>2. Tidy(queue, nodes, dom, late, now)'
  BY <1>1, TidyStays
<1> QED
  BY <1>1, <1>2 DEF AxisInv, AxisOk

LEMMA DueNowHas ==
    ASSUME now \in Nat, NEW size, NEW e \in ToSet(queue), AxisTimer(e, size, now), e.delay = 0
    PROVE  e \in DueNow
  BY DEF DueNow, Due, AxisTimer, IsTimer

LEMMA StepIsOk ==
    ASSUME AxisOk, now \in Nat, UNCHANGED <<now, chartVars>>,
           NEW s, IsState(s), s.kept = <<>>, s.interval \in {0, 1}, s.queue = queue, s.nodes = nodes,
           s.dom = dom, s.late = late, Step(s)
    PROVE  AxisInv'
<1> DEFINE done == CallAll(s, queue, DueNow, now)
           r == Reschedule(done, now)
<1>1. version \in Nat /\ ticks \in Ticks \cup {<<>>} /\ Tidy(queue, nodes, dom, late, now)
  BY DEF AxisOk
<1>2. Tidy(done.queue, done.nodes, done.dom, done.late, now)
  <2>1. \A e \in ToSet(s.queue) : e.delay = 0 => e \in DueNow
    BY <1>1, DueNowHas DEF Tidy
  <2>2. Tidy(s.queue, s.nodes, s.dom, s.late, now)
    BY <1>1
  <2>3. \E t \in {CallAll(s, s.queue, DueNow, now)} : Tidy(t.queue, t.nodes, t.dom, t.late, now)
    BY <1>1, <2>1, <2>2, CallAllGoes
  <2> QED
    BY <2>3
<1>3. IsState(done)
  <2>1. \A e \in ToSet(s.queue) : IsTimer(e)
    BY <1>1 DEF Tidy, AxisTimer
  <2>2. Passed(s, CallAll(s, s.queue, DueNow, now), DueNow, now)
    BY <2>1, CallAllPasses
  <2> QED
    BY <2>2 DEF Passed
<1>4. Become(r)
  BY DEF Step, done
<1> HIDE DEF done
<1>5. SameRest(done, r) /\ r.queue = done.queue
  BY <1>3, RescheduleRest
<1> HIDE DEF r
<1>6. queue' = done.queue /\ nodes' = done.nodes /\ dom' = done.dom /\ late' = done.late
  BY <1>4, <1>5 DEF Become, SameRest
<1> QED
  BY <1>1, <1>2, <1>6, BecomesOk

LEMMA CurrentHas ==
    Current.nodes = nodes /\ Current.dom = dom /\ Current.late = late
  BY DEF Current

LEMMA FrameIsOk ==
    ASSUME Punctual(queue, dom, interval, frames, timeout, since, now), AxisOk, UNCHANGED chartVars,
           Frame \/ Timeout
    PROVE  AxisInv'
<1>1. /\ IsState(Current) /\ Current.kept = <<>> /\ Current.queue = queue /\ Current.interval \in {0, 1}
      /\ Current.frames = frames /\ frames \in Nat /\ now \in Nat
      /\ Current.nodes = nodes /\ Current.dom = dom /\ Current.late = late
  BY CurrentIs, CurrentHas DEF Punctual
<1>2. CASE Frame
  <2> DEFINE s == AsFrame
  <2>1. frames - 1 \in Nat
    BY <1>1, <1>2 DEF Frame
  <2>2. /\ IsState(s) /\ s.kept = <<>> /\ s.interval \in {0, 1} /\ s.queue = queue
        /\ s.nodes = nodes /\ s.dom = dom /\ s.late = late
    BY <1>1, <2>1 DEF AsFrame, IsState, StepFields
  <2>3. Step(s) /\ UNCHANGED <<now, chartVars>>
    BY <1>2 DEF Frame
  <2> HIDE DEF s
  <2> QED
    BY <1>1, <2>2, <2>3, StepIsOk
<1>3. CASE Timeout
  <2> DEFINE s == AsTimeout
  <2>1. /\ IsState(s) /\ s.kept = <<>> /\ s.interval \in {0, 1} /\ s.queue = queue
        /\ s.nodes = nodes /\ s.dom = dom /\ s.late = late
    BY <1>1 DEF AsTimeout, IsState, StepFields
  <2>2. Step(s) /\ UNCHANGED <<now, chartVars>>
    BY <1>3 DEF Timeout
  <2> HIDE DEF s
  <2> QED
    BY <1>1, <2>1, <2>2, StepIsOk
<1> QED
  BY <1>2, <1>3

LEMMA FlushIsOk ==
    ASSUME Punctual(queue, dom, interval, frames, timeout, since, now), AxisOk, UNCHANGED chartVars, Flush
    PROVE  AxisInv'
<1> DEFINE s == Current
           ready == Undelayed
           r == CallAll(s, queue, ready, now)
<1>1. /\ IsState(s) /\ s.kept = <<>> /\ s.queue = queue /\ now \in Nat
      /\ s.nodes = nodes /\ s.dom = dom /\ s.late = late
  BY CurrentIs, CurrentHas DEF Punctual
<1>2. version \in Nat /\ ticks \in Ticks \cup {<<>>} /\ Tidy(queue, nodes, dom, late, now)
  BY DEF AxisOk
<1>3. Become(r) /\ UNCHANGED <<now, chartVars>>
  BY DEF Flush
<1>4. \A e \in ToSet(s.queue) : e.delay = 0 => e \in ready
  BY <1>1 DEF Undelayed
<1> HIDE DEF s, ready
<1>5. Tidy(r.queue, r.nodes, r.dom, r.late, now)
  <2>1. Tidy(s.queue, s.nodes, s.dom, s.late, now)
    BY <1>1, <1>2
  <2>2. \E t \in {CallAll(s, s.queue, ready, now)} : Tidy(t.queue, t.nodes, t.dom, t.late, now)
    BY <1>1, <1>2, <1>4, <2>1, CallAllGoes
  <2> QED
    BY <1>1, <2>2
<1> HIDE DEF r
<1>6. queue' = r.queue /\ nodes' = r.nodes /\ dom' = r.dom /\ late' = r.late
  BY <1>3 DEF Become
<1> QED
  BY <1>2, <1>3, <1>5, <1>6, BecomesOk

\* Time goes on.
LEMMA ElapseIsOk ==
    ASSUME now \in Nat, AxisOk, UNCHANGED chartVars, Elapse
    PROVE  AxisInv'
<1>1. /\ version' = version /\ ticks' = ticks /\ waits' = waits /\ mixed' = mixed
      /\ queue' = queue /\ nodes' = nodes /\ dom' = dom /\ late' = late /\ now' = now + 1
  BY DEF Elapse, timerVars, chartVars
<1>2. version \in Nat /\ ticks \in Ticks \cup {<<>>} /\ Tidy(queue, nodes, dom, late, now)
  BY DEF AxisOk
<1>3. \A e, size : AxisTimer(e, size, now) => AxisTimer(e, size, now + 1)
  BY DEF AxisTimer, IsTimer
<1>4. \A j, size : IsJob(j, size, now) => IsJob(j, size, now + 1)
  BY DEF IsJob, IsTimer
<1>5. Tidy(queue, nodes, dom, late, now + 1)
  BY <1>2, <1>3, <1>4 DEF Tidy, Chart
<1>6. Tidy(queue', nodes', dom', late', now')
  BY <1>1, <1>5
<1>7. Tidy(queue, nodes, dom, late, now)'
  BY <1>6, TidyStays
<1> QED
  BY <1>1, <1>2, <1>7 DEF AxisInv, AxisOk

LEMMA AxisInvInit == AxisInit => AxisInv
<1> SUFFICES ASSUME AxisInit PROVE AxisOk
  BY DEF AxisInv
<1>1. /\ queue = <<>> /\ nodes = <<>> /\ dom = <<>> /\ version = 0 /\ ticks = <<>>
  BY DEF AxisInit
<1>2. JobsBehind(<<>>, 0) = {}
  BY EmptyList DEF JobsBehind
<1>3. Chart(<<>>, <<>>, late, {}, {}, {}, now)
  <2>1. AreNodes(<<>>) /\ IsDocument(<<>>, <<>>)
    BY EmptyList DEF AreNodes, IsDocument
  <2>2. LocksCount(<<>>, {})
    BY EmptyList DEF LocksCount
  <2> QED
    BY <1>1, <2>1, <2>2 DEF Chart, AtOnce
<1>4. Ordered(<<>>)
  BY EmptyList DEF Ordered
<1> QED
  BY <1>1, <1>2, <1>3, <1>4, EmptyList DEF AxisOk, Tidy

-----------------------------------------------------------------------------
\* What is drawn: which nodes go, stay and come.
LEMMA NodesHas ==
    ASSUME NEW g, IsList(g)
    PROVE  /\ IsList(Nodes(g)) /\ ToSet(Nodes(g)) = ToSet(g) \ {Hole}
           /\ DistinctIn(g, ToSet(g) \ {Hole}) => Distinct(Nodes(g))
<1> DEFINE S == ToSet(g) \ {Hole}
<1>1. IsList(Among(g, S)) /\ ToSet(Among(g, S)) = ToSet(g) \cap S /\ (DistinctIn(g, S) => Distinct(Among(g, S)))
  BY AmongHas
<1> QED
  BY <1>1 DEF Nodes

LEMMA MinIs ==
    ASSUME NEW S, S \subseteq Nat, S # {}
    PROVE  Min(S) \in S
<1>1. \E m \in S : \A n \in S : m <= n
  BY LeastOf
<1> QED
  BY <1>1 DEF Min

\* A join of nodes and data that have their keys once.
LEMMA BindIs ==
    ASSUME NEW group, IsList(group), Distinct(group), Hole \notin ToSet(group),
           NEW key, \A x, y \in ToSet(group) : key[x] = key[y] => x = y,
           NEW data, DOMAIN data = 1 .. Len(data), Len(data) \in Nat, Hole \notin ToSet(data),
           \A i, j \in 1 .. Len(data) : data[i] = data[j] => i = j
    PROVE  \E join \in {Bind(group, key, data)} :
              /\ DOMAIN join.enter = 1 .. Len(data) /\ IsList(join.enter) /\ IsList(join.exit)
              /\ \A i \in 1 .. Len(data) :
                    IF \E x \in ToSet(group) : key[x] = data[i]
                    THEN join.enter[i] = Hole /\ join.update[i] \in ToSet(group) /\ key[join.update[i]] = data[i]
                    ELSE join.enter[i] = data[i]
              /\ Distinct(Nodes(join.exit))
              /\ ToSet(Nodes(join.exit)) = {x \in ToSet(group) : key[x] \notin ToSet(data)}
<1> DEFINE n == Len(group)
           m == Len(data)
           Places(k) == {i \in 1 .. n : key[group[i]] = k}
           first(k) == Min(Places(k))
           all == [i \in 1 .. n |-> i]
           twice == {i \in 1 .. n : first(key[group[i]]) # i}
           doubles == Among(all, twice)
           found == Finds(group, key, data)
           l == Len(doubles)
           size == IF n > m + l THEN n ELSE m + l
           update == [i \in 1 .. m |-> IF i \in found THEN group[first(data[i])] ELSE Hole]
           enter == [i \in 1 .. m |-> IF i \in found THEN Hole ELSE data[i]]
           exit == [i \in 1 .. size |->
                        IF i <= n /\ key[group[i]] \notin ToSet(data) THEN group[i]
                        ELSE IF i > m /\ i <= m + l THEN group[doubles[i - m]]
                        ELSE Hole]
           join == Bind(group, key, data)
<1>1. n \in Nat /\ m \in Nat /\ DOMAIN group = 1 .. n /\ ToSet(group) = {group[i] : i \in 1 .. n}
  BY ListHas
<1>2. join.update = update /\ join.enter = enter /\ join.exit = exit
  BY DEF Bind
<1>3. DOMAIN join.enter = 1 .. m /\ IsList(join.enter) /\ IsList(join.exit)
  BY BindLists
<1> HIDE DEF join
<1>4. twice = {}
  <2> SUFFICES ASSUME NEW i \in 1 .. n PROVE first(key[group[i]]) = i
    OBVIOUS
  <2> DEFINE S == Places(key[group[i]])
  <2>1. S = {i}
    BY <1>1 DEF Distinct
  <2> HIDE DEF S
  <2>2. Min(S) \in S
    BY <1>1, <2>1, MinIs
  <2> QED
    BY <2>1, <2>2 DEF S
<1>5. l = 0
  <2>1. all = [i \in 1 .. n |-> all[i]]
    OBVIOUS
  <2> HIDE DEF all, twice
  <2>2. IsList(all)
    BY <1>1, <2>1, ListOf
  <2>3. IsList(doubles) /\ ToSet(doubles) = {}
    BY <1>4, <2>2, AmongHas
  <2> HIDE DEF doubles
  <2>4. l \in Nat /\ ToSet(doubles) = {doubles[i] : i \in 1 .. l}
    BY <2>3, ListHas
  <2> HIDE DEF l
  <2>5. ASSUME l # 0 PROVE FALSE
    <3>1. 1 \in 1 .. l
      BY <2>4, <2>5
    <3>2. doubles[1] \in ToSet(doubles)
      BY <2>4, <3>1
    <3> QED
      BY <2>3, <3>2
  <2> QED
    BY <2>5
<1> HIDE DEF doubles, l, twice, all
<1>6. \A i \in 1 .. m : i \in found <=> \E x \in ToSet(group) : key[x] = data[i]
  <2>1. \A i \in 1 .. m : \A k \in 1 .. i - 1 : data[k] # data[i]
    <3> SUFFICES ASSUME NEW i \in 1 .. m, NEW k \in 1 .. i - 1 PROVE data[k] # data[i]
      OBVIOUS
    <3>1. k \in 1 .. m /\ k # i
      BY <1>1
    <3> QED
      BY <3>1
  <2> QED
    BY <1>1, <2>1 DEF Finds
<1>7. ASSUME NEW i \in 1 .. m, i \in found
      PROVE  update[i] \in ToSet(group) /\ key[update[i]] = data[i]
  <2> DEFINE S == Places(data[i])
  <2>1. S # {} /\ S \subseteq 1 .. n
    BY <1>1, <1>6, <1>7
  <2>2. Min(S) \in S
    <3>1. S \subseteq Nat
      BY <1>1, <2>1
    <3> HIDE DEF S
    <3> QED
      BY <2>1, <3>1, MinIs
  <2>3. update[i] = group[Min(S)]
    BY <1>7
  <2> QED
    BY <1>1, <2>2, <2>3
<1>8. \A i \in 1 .. m : enter[i] = IF i \in found THEN Hole ELSE data[i]
  OBVIOUS
<1> HIDE DEF update, enter, found
<1>9. size \in Nat /\ (\A i \in 1 .. n : i \in 1 .. size)
  BY <1>1, <1>5
<1>10. DOMAIN exit = 1 .. size /\ \A i \in 1 .. size :
          exit[i] = IF i \in 1 .. n /\ key[group[i]] \notin ToSet(data) THEN group[i] ELSE Hole
  <2>1. \A i \in 1 .. size : ~(i > m /\ i <= m + l) /\ (i <= n <=> i \in 1 .. n)
    BY <1>1, <1>5, <1>9
  <2> HIDE DEF size
  <2> QED
    BY <2>1
<1> HIDE DEF exit, size
<1>11. DistinctIn(exit, ToSet(exit) \ {Hole})
  BY <1>1, <1>10 DEF DistinctIn, Distinct
<1>12. ToSet(exit) \ {Hole} = {x \in ToSet(group) : key[x] \notin ToSet(data)}
  <2>1. ToSet(exit) = {exit[i] : i \in 1 .. size}
    BY <1>10 DEF ToSet
  <2>2. \A i \in 1 .. n : group[i] # Hole
    BY <1>1
  <2> QED
    BY <1>1, <1>9, <1>10, <2>1, <2>2
<1>13. Distinct(Nodes(exit)) /\ ToSet(Nodes(exit)) = {x \in ToSet(group) : key[x] \notin ToSet(data)}
  <2>1. IsList(exit)
    BY <1>2, <1>3
  <2> QED
    BY <1>11, <1>12, <2>1, NodesHas
<1>14. \A i \in 1 .. m :
          IF \E x \in ToSet(group) : key[x] = data[i]
          THEN join.enter[i] = Hole /\ join.update[i] \in ToSet(group) /\ key[join.update[i]] = data[i]
          ELSE join.enter[i] = data[i]
  BY <1>2, <1>6, <1>7, <1>8
<1> QED
  BY <1>2, <1>3, <1>13, <1>14 DEF join

\* New nodes come in between.
LEMMA InsertHas ==
    ASSUME NEW q, NEW new, NEW S, IsList(q), IsList(new), Distinct(q), Distinct(new), ToSet(q) \cap ToSet(new) = {}
    PROVE  \E r \in {InsertBefore(q, new, S)} : IsList(r) /\ Distinct(r) /\ ToSet(r) = ToSet(q) \cup ToSet(new)
<1> DEFINE n == Len(q)
           at == SelectInSeq(q, LAMBDA i : i \in S)
           I == {i \in 1 .. Len(q) : q[i] \in S}
           r == InsertBefore(q, new, S)
<1>1. n \in Nat /\ DOMAIN q = 1 .. n /\ ToSet(q) = {q[i] : i \in 1 .. n}
  BY ListHas
<1>2. at = IF I # {} THEN Min(I) ELSE 0
  BY DEF SelectInSeq
<1>3. I \subseteq 1 .. n
  OBVIOUS
<1>4. r = IF at = 0 THEN q \o new ELSE SubSeq(q, 1, at - 1) \o new \o SubSeq(q, at, n)
  BY DEF InsertBefore
<1> HIDE DEF I, at, r
<1>5. at = 0 \/ at \in 1 .. n
  <2>1. I # {} => Min(I) \in I
    <3>1. I \subseteq Nat
      BY <1>1, <1>3
    <3> QED
      BY <3>1, MinIs
  <2> QED
    BY <1>2, <1>3, <2>1
<1>6. CASE at = 0
  <2>1. IsList(q \o new)
    BY JoinedLists
  <2>2. ToSet(q \o new) = ToSet(q) \cup ToSet(new) /\ Distinct(q \o new)
    BY JoinedHas
  <2> QED
    BY <1>4, <1>6, <2>1, <2>2 DEF r
<1>7. CASE at # 0
  <2> DEFINE before == SubSeq(q, 1, at - 1)
             after == SubSeq(q, at, n)
             rest == n + 1 - at
  <2>1. at \in 1 .. n /\ at - 1 \in 0 .. n
    BY <1>1, <1>5, <1>7
  <2>2. /\ IsList(before) /\ Len(before) = at - 1 /\ (\A i \in 1 .. at - 1 : before[i] = q[i])
        /\ ToSet(before) = {q[i] : i \in 1 .. at - 1}
    <3>1. at - 1 \in 0 .. Len(q)
      BY <2>1
    <3> QED
      BY <3>1, PartOfList
  <2>3. IsList(after) /\ Len(after) = rest /\ \A i \in 1 .. rest : after[i] = q[at + i - 1]
    <3>1. PICK E : q \in Seq(E)
      BY DEF IsList
    <3>2. after \in Seq(E) /\ Len(after) = rest /\ \A i \in 1 .. rest : after[i] = q[at + i - 1]
      BY <1>1, <2>1, <3>1
    <3> QED
      BY <3>2 DEF IsList
  <2> HIDE DEF before, after
  <2>4. DOMAIN before = 1 .. at - 1 /\ \A i \in 1 .. at - 1 : i \in 1 .. n
    <3>1. DOMAIN before = 1 .. at - 1
      BY <2>2, ListHas
    <3>2. \A i \in 1 .. at - 1 : i \in 1 .. n
      BY <1>1, <2>1
    <3> QED
      BY <3>1, <3>2
  <2>5. /\ DOMAIN after = 1 .. rest /\ ToSet(after) = {after[i] : i \in 1 .. rest}
        /\ \A i \in 1 .. rest : at + i - 1 \in 1 .. n
    <3>1. DOMAIN after = 1 .. rest /\ ToSet(after) = {after[i] : i \in 1 .. rest}
      BY <2>3, ListHas
    <3>2. \A i \in 1 .. rest : at + i - 1 \in 1 .. n
      BY <1>1, <2>1
    <3> QED
      BY <3>1, <3>2
  <2>6. \A i \in 1 .. n : i \in 1 .. at - 1 \/ (i - at + 1 \in 1 .. rest /\ at + (i - at + 1) - 1 = i)
    BY <1>1, <2>1
  <2>7. Distinct(before) /\ Distinct(after)
    <3>1. Distinct(before)
      BY <1>1, <2>2, <2>4 DEF Distinct
    <3>2. ASSUME NEW i \in 1 .. rest, NEW k \in 1 .. rest, after[i] = after[k] PROVE i = k
      <4>1. at + i - 1 = at + k - 1
        BY <1>1, <2>3, <2>5, <3>2 DEF Distinct
      <4> QED
        BY <2>1, <4>1
    <3> QED
      BY <2>5, <3>1, <3>2 DEF Distinct
  <2>8. ToSet(before) \cap ToSet(after) = {}
    <3> SUFFICES ASSUME NEW i \in 1 .. at - 1, NEW k \in 1 .. rest, q[i] = after[k] PROVE FALSE
      BY <2>2, <2>5
    <3>1. i = at + k - 1
      BY <1>1, <2>3, <2>4, <2>5 DEF Distinct
    <3> QED
      BY <2>1, <3>1
  <2>9. ToSet(before) \cup ToSet(after) = ToSet(q)
    <3>1. ToSet(before) \subseteq ToSet(q)
      BY <1>1, <2>2, <2>4
    <3>2. ToSet(after) \subseteq ToSet(q)
      BY <1>1, <2>3, <2>5
    <3>3. ASSUME NEW i \in 1 .. n PROVE q[i] \in ToSet(before) \cup ToSet(after)
      <4>1. CASE i \in 1 .. at - 1
        BY <2>2, <4>1
      <4>2. CASE i \notin 1 .. at - 1
        <5> DEFINE k == i - at + 1
        <5>1. k \in 1 .. rest /\ at + k - 1 = i
          BY <2>6, <4>2
        <5> HIDE DEF k
        <5> QED
          BY <2>3, <2>5, <5>1
      <4> QED
        BY <4>1, <4>2
    <3> QED
      BY <1>1, <3>1, <3>2, <3>3
  <2> DEFINE both == before \o new
  <2>10. IsList(both) /\ ToSet(both) = ToSet(before) \cup ToSet(new) /\ Distinct(both)
    <3>1. IsList(both)
      BY <2>2, JoinedLists
    <3>2. ToSet(before) \cap ToSet(new) = {}
      BY <2>9
    <3> QED
      BY <2>2, <2>7, <3>1, <3>2, JoinedHas
  <2> HIDE DEF both
  <2>11. IsList(both \o after) /\ ToSet(both \o after) = ToSet(both) \cup ToSet(after) /\ Distinct(both \o after)
    <3>1. IsList(both \o after)
      BY <2>3, <2>10, JoinedLists
    <3>2. ToSet(both) \cap ToSet(after) = {}
      BY <2>8, <2>9, <2>10
    <3> QED
      BY <2>3, <2>7, <2>10, <3>1, <3>2, JoinedHas
  <2>12. r = both \o after
    BY <1>4, <1>7 DEF before, after, both
  <2> QED
    BY <2>9, <2>10, <2>11, <2>12 DEF r
<1> QED
  BY <1>6, <1>7

\* Data of a join.
AreData(data) == DOMAIN data = 1 .. Len(data) /\ Len(data) \in Nat /\ Hole \notin ToSet(data) /\ Distinct(data)

LEMMA DataAre ==
    /\ \A data \in Ticks : AreData(data) /\ Path \notin ToSet(data)
    /\ AreData(<<Path>>) /\ ToSet(<<Path>>) = {Path} /\ Len(<<Path>>) = 1
<1>1. ASSUME NEW data \in Ticks PROVE AreData(data) /\ Path \notin ToSet(data)
  <2>1. DOMAIN data = 1 .. Len(data) /\ Len(data) \in Nat
    BY RedrawAssumption
  <2>2. ToSet(data) = {data[i] : i \in 1 .. Len(data)}
    BY <2>1 DEF ToSet
  <2>3. /\ \A i, j \in 1 .. Len(data) : data[i] = data[j] => i = j
        /\ \A i \in 1 .. Len(data) : data[i] \notin {Path, Hole}
    BY TickAssumption
  <2> QED
    BY <2>1, <2>2, <2>3 DEF AreData, Distinct
<1>2. DOMAIN <<Path>> = 1 .. 1 /\ Len(<<Path>>) = 1 /\ ToSet(<<Path>>) = {Path}
  BY DEF ToSet
<1>3. AreData(<<Path>>)
  BY <1>2, TickAssumption DEF AreData, Distinct
<1> QED
  BY <1>1, <1>2, <1>3

\* What a join of the nodes of the document with data that they have at most once says.
IsShown(s, datum) == \E n \in ToSet(s.dom) : s.nodes[n].datum = datum

Joins(s, join, data) ==
    /\ DOMAIN join.enter = 1 .. Len(data) /\ IsList(join.enter)
    /\ \A i \in 1 .. Len(data) :
          IF IsShown(s, data[i])
          THEN join.enter[i] = Hole /\ join.update[i] \in ToSet(s.dom) /\ s.nodes[join.update[i]].datum = data[i]
          ELSE join.enter[i] = data[i]

LEMMA TickJoinIs ==
    ASSUME NEW s, NEW data \in Ticks, AreNodes(s.nodes), IsDocument(s.dom, s.nodes)
    PROVE  \E join \in {TickJoin(s, data)} :
              /\ Joins(s, join, data) /\ IsList(join.exit) /\ Distinct(Nodes(join.exit))
              /\ ToSet(Nodes(join.exit)) = {n \in ToSet(s.dom) : s.nodes[n].datum \notin ToSet(data) \cup {Path}}
<1> DEFINE group == Among(s.dom, TickNodes(s))
           join == TickJoin(s, data)
<1>1. IsList(s.dom) /\ Distinct(s.dom) /\ ToSet(s.dom) \subseteq 1 .. Len(s.nodes) /\ DOMAIN s.nodes = 1 .. Len(s.nodes)
  <2>1. DOMAIN s.nodes = 1 .. Len(s.nodes)
    BY ListHas DEF AreNodes
  <2> QED
    BY <2>1 DEF IsDocument
<1>2. AreData(data) /\ Path \notin ToSet(data)
  BY DataAre
<1>3. IsList(group) /\ ToSet(group) = TickNodes(s) /\ Distinct(group)
  <2>1. DistinctIn(s.dom, TickNodes(s))
    BY <1>1 DEF DistinctIn, Distinct
  <2>2. IsList(group) /\ ToSet(group) = ToSet(s.dom) \cap TickNodes(s) /\ Distinct(group)
    BY <1>1, <2>1, AmongHas
  <2>3. TickNodes(s) \subseteq ToSet(s.dom)
    BY DEF TickNodes
  <2> QED
    BY <2>2, <2>3
<1>4. \A n \in ToSet(s.dom) : Datum(s)[n] = s.nodes[n].datum
  BY <1>1 DEF Datum
<1>5. /\ TickNodes(s) = {n \in ToSet(s.dom) : s.nodes[n].datum # Path}
      /\ \A m, n \in ToSet(s.dom) : s.nodes[m].datum = s.nodes[n].datum => m = n
  BY DEF TickNodes, IsDocument
<1>6. Hole \notin ToSet(group)
  <2>1. TickNodes(s) \subseteq Nat
    BY <1>1, <1>5
  <2> QED
    BY <1>3, <2>1, TickAssumption
<1>7. \A x, y \in ToSet(group) : Datum(s)[x] = Datum(s)[y] => x = y
  BY <1>3, <1>4, <1>5
<1>8. join = Bind(group, Datum(s), data)
  BY DEF TickJoin
<1> HIDE DEF join, group
<1>9. \E j \in {Bind(group, Datum(s), data)} :
              /\ DOMAIN j.enter = 1 .. Len(data) /\ IsList(j.enter) /\ IsList(j.exit)
              /\ \A i \in 1 .. Len(data) :
                    IF \E x \in ToSet(group) : Datum(s)[x] = data[i]
                    THEN j.enter[i] = Hole /\ j.update[i] \in ToSet(group) /\ Datum(s)[j.update[i]] = data[i]
                    ELSE j.enter[i] = data[i]
              /\ Distinct(Nodes(j.exit))
              /\ ToSet(Nodes(j.exit)) = {x \in ToSet(group) : Datum(s)[x] \notin ToSet(data)}
  <2>1. /\ DOMAIN data = 1 .. Len(data) /\ Len(data) \in Nat /\ Hole \notin ToSet(data)
        /\ \A i, j \in 1 .. Len(data) : data[i] = data[j] => i = j
    BY <1>2 DEF AreData, Distinct
  <2> DEFINE key == Datum(s)
  <2>2. \A x, y \in ToSet(group) : key[x] = key[y] => x = y
    BY <1>7
  <2> HIDE DEF key
  <2>3. \E j \in {Bind(group, key, data)} :
              /\ DOMAIN j.enter = 1 .. Len(data) /\ IsList(j.enter) /\ IsList(j.exit)
              /\ \A i \in 1 .. Len(data) :
                    IF \E x \in ToSet(group) : key[x] = data[i]
                    THEN j.enter[i] = Hole /\ j.update[i] \in ToSet(group) /\ key[j.update[i]] = data[i]
                    ELSE j.enter[i] = data[i]
              /\ Distinct(Nodes(j.exit))
              /\ ToSet(Nodes(j.exit)) = {x \in ToSet(group) : key[x] \notin ToSet(data)}
    <3>1. IsList(group) /\ Distinct(group) /\ Hole \notin ToSet(group)
      BY <1>3, <1>6
    <3> QED
      BY ONLY <2>1, <2>2, <3>1, BindIs
  <2> QED
    BY <2>3 DEF key
<1>10. /\ DOMAIN join.enter = 1 .. Len(data) /\ IsList(join.enter) /\ IsList(join.exit)
       /\ Distinct(Nodes(join.exit))
       /\ ToSet(Nodes(join.exit)) = {x \in ToSet(group) : Datum(s)[x] \notin ToSet(data)}
  BY <1>8, <1>9
<1>11. \A i \in 1 .. Len(data) :
                    IF \E x \in ToSet(group) : Datum(s)[x] = data[i]
                    THEN join.enter[i] = Hole /\ join.update[i] \in ToSet(group) /\ Datum(s)[join.update[i]] = data[i]
                    ELSE join.enter[i] = data[i]
  BY <1>8, <1>9
<1>12. \A i \in 1 .. Len(data) : data[i] # Path
  BY <1>2 DEF AreData, ToSet
<1>13. \A i \in 1 .. Len(data) : IsShown(s, data[i]) <=> \E x \in ToSet(group) : Datum(s)[x] = data[i]
  BY <1>3, <1>4, <1>5, <1>12 DEF IsShown
<1>14. ASSUME NEW i \in 1 .. Len(data)
       PROVE  IF IsShown(s, data[i])
              THEN join.enter[i] = Hole /\ join.update[i] \in ToSet(s.dom) /\ s.nodes[join.update[i]].datum = data[i]
              ELSE join.enter[i] = data[i]
  BY <1>3, <1>4, <1>5, <1>11, <1>13
<1>15. {x \in ToSet(group) : Datum(s)[x] \notin ToSet(data)}
          = {n \in ToSet(s.dom) : s.nodes[n].datum \notin ToSet(data) \cup {Path}}
  BY <1>3, <1>4, <1>5
<1> QED
  BY <1>10, <1>14, <1>15 DEF Joins, join

LEMMA PathJoinIs ==
    ASSUME NEW s, AreNodes(s.nodes), IsDocument(s.dom, s.nodes)
    PROVE  \E join \in {PathJoin(s)} : Joins(s, join, <<Path>>)
<1> DEFINE rest == Without(s.dom, TickNodes(s))
           join == PathJoin(s)
<1>1. IsDocument(rest, s.nodes) /\ ToSet(rest) = ToSet(s.dom) \ TickNodes(s)
  BY LessDocument
<1>2. ToSet(rest) = {n \in ToSet(s.dom) : s.nodes[n].datum = Path}
  BY <1>1 DEF TickNodes
<1>3. join.update = [i \in 1 .. 1 |-> IF i <= Len(rest) THEN rest[i] ELSE Hole]
  BY DEF PathJoin, BindByIndex
<1>4. join.enter = [i \in 1 .. 1 |-> IF i <= Len(rest) THEN Hole ELSE <<Path>>[i]]
  BY DEF PathJoin, BindByIndex
<1> HIDE DEF rest, join
<1>5. Len(rest) \in Nat /\ ToSet(rest) = {rest[i] : i \in 1 .. Len(rest)}
  BY <1>1, ListHas DEF IsDocument
<1>7. 1 <= Len(rest) => rest[1] \in ToSet(s.dom) /\ s.nodes[rest[1]].datum = Path
  BY <1>2, <1>5
<1>6. IsShown(s, Path) <=> 1 <= Len(rest)
  <2>1. ASSUME IsShown(s, Path) PROVE 1 <= Len(rest)
    <3>1. PICK n \in ToSet(rest) : TRUE
      BY <1>2, <2>1 DEF IsShown
    <3>2. PICK i \in 1 .. Len(rest) : n = rest[i]
      BY <1>5, <3>1
    <3> QED
      BY <1>5, <3>2
  <2> QED
    BY <1>7, <2>1 DEF IsShown
<1>8. IsList(join.enter) /\ DOMAIN join.enter = 1 .. 1
  <2> DEFINE q == join.enter
  <2>1. q = [i \in 1 .. 1 |-> q[i]] /\ DOMAIN q = 1 .. 1
    BY <1>4
  <2> HIDE DEF q
  <2>2. IsList(q)
    BY <2>1, ListOf
  <2> QED
    BY <2>1, <2>2 DEF q
<1>9. Len(<<Path>>) = 1 /\ <<Path>>[1] = Path
  OBVIOUS
<1>10. /\ join.update[1] = IF 1 <= Len(rest) THEN rest[1] ELSE Hole
       /\ join.enter[1] = IF 1 <= Len(rest) THEN Hole ELSE Path
  BY <1>3, <1>4, <1>9
<1>11. IF IsShown(s, Path)
       THEN join.enter[1] = Hole /\ join.update[1] \in ToSet(s.dom) /\ s.nodes[join.update[1]].datum = Path
       ELSE join.enter[1] = Path
  BY <1>6, <1>7, <1>10
<1>12. \A i \in 1 .. 1 : i = 1
  OBVIOUS
<1>13. Joins(s, join, <<Path>>)
  BY <1>8, <1>9, <1>11, <1>12 DEF Joins
<1> QED
  BY <1>13 DEF join

\* The data that enter.
LEMMA EnterIs ==
    ASSUME NEW s, NEW data, AreData(data), NEW join, Joins(s, join, data)
    PROVE  \E p \in {Nodes(join.enter)} :
              IsList(p) /\ Distinct(p) /\ ToSet(p) = {d \in ToSet(data) : ~IsShown(s, d)}
<1> DEFINE g == join.enter
           m == Len(data)
<1>1. IsList(g) /\ DOMAIN g = 1 .. m /\ \A i \in 1 .. m : g[i] = IF IsShown(s, data[i]) THEN Hole ELSE data[i]
  BY DEF Joins
<1>2. m \in Nat /\ Hole \notin ToSet(data) /\ ToSet(data) = {data[i] : i \in 1 .. m}
  BY DEF AreData, ToSet
<1>3. \A i, k \in 1 .. m : data[i] = data[k] => i = k
  BY DEF AreData, Distinct
<1> HIDE DEF g, m
<1>4. ToSet(g) = {g[i] : i \in 1 .. m}
  BY <1>1 DEF ToSet
<1>5. ToSet(g) \ {Hole} = {d \in ToSet(data) : ~IsShown(s, d)}
  <2>1. \A i \in 1 .. m : data[i] \in ToSet(data) /\ data[i] # Hole
    BY <1>2
  <2> QED
    BY <1>1, <1>2, <1>4, <2>1
<1>6. DistinctIn(g, ToSet(g) \ {Hole})
  BY <1>1, <1>3 DEF DistinctIn
<1>7. IsList(Nodes(g)) /\ ToSet(Nodes(g)) = ToSet(g) \ {Hole} /\ Distinct(Nodes(g))
  BY <1>1, <1>6, NodesHas
<1> QED
  BY <1>5, <1>7 DEF g

\* The nodes of the data of a join, in a new document.
ShowsData(g, doc, ms, data) ==
    \E p \in {Nodes(g)} :
        /\ IsList(g) /\ IsList(p) /\ Distinct(p) /\ ToSet(p) = {n \in ToSet(doc) : ms[n].datum \in ToSet(data)}
        /\ ToSet(g) = ToSet(p)

LEMMA EnteredIs ==
    ASSUME NEW s, NEW data, AreData(data), NEW join, Joins(s, join, data), NEW doc, NEW ms, IsDocument(doc, ms),
           \A n \in ToSet(s.dom) : n \in ToSet(doc) /\ ms[n] = s.nodes[n],
           NEW new, \A d \in ToSet(data) : ~IsShown(s, d) => new[d] \in ToSet(doc) /\ ms[new[d]].datum = d
    PROVE  ShowsData(Entered(join, new), doc, ms, data)
<1> DEFINE g == Entered(join, new)
           m == Len(data)
<1>1. g = [i \in 1 .. m |-> IF join.enter[i] = Hole THEN join.update[i] ELSE new[join.enter[i]]]
  BY DEF Entered, Joins
<1>2. m \in Nat /\ Hole \notin ToSet(data) /\ ToSet(data) = {data[i] : i \in 1 .. m}
  BY DEF AreData, ToSet
<1>3. \A i, k \in 1 .. m : data[i] = data[k] => i = k
  BY DEF AreData, Distinct
<1>4. ASSUME NEW i \in 1 .. m PROVE g[i] \in ToSet(doc) /\ ms[g[i]].datum = data[i]
  <2>1. data[i] \in ToSet(data) /\ data[i] # Hole
    BY <1>2
  <2>2. IF IsShown(s, data[i])
        THEN join.enter[i] = Hole /\ join.update[i] \in ToSet(s.dom) /\ s.nodes[join.update[i]].datum = data[i]
        ELSE join.enter[i] = data[i]
    BY DEF Joins
  <2>3. g[i] = IF join.enter[i] = Hole THEN join.update[i] ELSE new[join.enter[i]]
    BY <1>1
  <2> HIDE DEF g
  <2>4. CASE IsShown(s, data[i])
    <3>1. g[i] = join.update[i] /\ g[i] \in ToSet(s.dom) /\ s.nodes[g[i]].datum = data[i]
      BY <2>2, <2>3, <2>4
    <3> QED
      BY <3>1
  <2>5. CASE ~IsShown(s, data[i])
    <3>1. g[i] = new[data[i]]
      BY <2>1, <2>2, <2>3, <2>5
    <3> QED
      BY <2>1, <2>5, <3>1
  <2> QED
    BY <2>4, <2>5
<1>5. IsList(g) /\ DOMAIN g = 1 .. m /\ ToSet(g) = {g[i] : i \in 1 .. m}
  <2>1. g = [i \in 1 .. m |-> g[i]] /\ DOMAIN g = 1 .. m
    BY <1>1
  <2> HIDE DEF g
  <2>2. IsList(g)
    BY <1>2, <2>1, ListOf
  <2> QED
    BY <2>1, <2>2 DEF ToSet
<1> HIDE DEF g, m
<1>6. ToSet(g) = {n \in ToSet(doc) : ms[n].datum \in ToSet(data)}
  <2>1. ASSUME NEW n \in ToSet(doc), ms[n].datum \in ToSet(data) PROVE n \in ToSet(g)
    <3>1. PICK i \in 1 .. m : data[i] = ms[n].datum
      BY <1>2, <2>1
    <3>2. g[i] \in ToSet(doc) /\ ms[g[i]].datum = ms[n].datum
      BY <1>4, <3>1
    <3>3. g[i] = n
      BY <3>2 DEF IsDocument
    <3> QED
      BY <1>5, <3>3
  <2>2. \A i \in 1 .. m : data[i] \in ToSet(data)
    BY <1>2
  <2> QED
    BY <1>4, <1>5, <2>1, <2>2
<1>7. Hole \notin ToSet(g)
  <2>1. ToSet(doc) \subseteq 1 .. Len(ms)
    BY DEF IsDocument
  <2>2. Hole \notin 1 .. Len(ms)
    BY TickAssumption
  <2> QED
    BY <1>6, <2>1, <2>2
<1>8. Distinct(g)
  <2>1. \A i, k \in 1 .. m : g[i] = g[k] => i = k
    <3> SUFFICES ASSUME NEW i \in 1 .. m, NEW k \in 1 .. m, g[i] = g[k] PROVE i = k
      OBVIOUS
    <3>1. data[i] = data[k]
      BY <1>4
    <3> QED
      BY <1>3, <3>1
  <2> QED
    BY <1>5, <2>1 DEF Distinct
<1>9. IsList(Nodes(g)) /\ ToSet(Nodes(g)) = ToSet(g) /\ Distinct(Nodes(g))
  <2>1. DistinctIn(g, ToSet(g) \ {Hole})
    BY <1>8 DEF Distinct, DistinctIn
  <2> QED
    BY <1>5, <1>7, <2>1, NodesHas
<1> QED
  BY <1>5, <1>6, <1>9 DEF g, ShowsData

\* The nodes that are added for data.
Grew(ns, ms, fresh) ==
    /\ AreNodes(ms) /\ Len(ms) = Len(ns) + Len(fresh)
    /\ \A n \in 1 .. Len(ns) : ms[n] = ns[n]
    /\ \A i \in 1 .. Len(fresh) : ms[Len(ns) + i].datum = fresh[i] /\ ms[Len(ns) + i].lock = None

LEMMA AddedNodes ==
    ASSUME NEW ns, AreNodes(ns), NEW fresh, IsList(fresh), NEW added, added = [i \in 1 .. Len(fresh) |-> added[i]],
           \A i \in 1 .. Len(fresh) : /\ DOMAIN added[i] = {"datum", "lock", "look"}
                                      /\ added[i].datum = fresh[i] /\ added[i].lock = None
    PROVE  Grew(ns, ns \o added, fresh)
<1> DEFINE ms == ns \o added
           N == Len(ns)
           F == Len(fresh)
<1>1. N \in Nat /\ F \in Nat /\ IsList(ns)
  BY ListHas DEF AreNodes
<1>2. IsList(added) /\ Len(added) = F
  BY <1>1, ListOf
<1>3. /\ IsList(ms) /\ Len(ms) = N + F /\ (\A n \in 1 .. N : ms[n] = ns[n])
      /\ \A i \in 1 .. F : ms[N + i] = added[i]
  BY <1>1, <1>2, JoinedLists
<1> HIDE DEF ms
<1>4. ASSUME NEW n \in 1 .. N + F PROVE DOMAIN ms[n] = {"datum", "lock", "look"}
  <2>1. CASE n \in 1 .. N
    BY <1>3, <2>1 DEF AreNodes
  <2>2. CASE n \notin 1 .. N
    <3> DEFINE i == n - N
    <3>1. i \in 1 .. F /\ N + i = n
      BY <1>1, <2>2
    <3> HIDE DEF i
    <3> QED
      BY <1>3, <3>1
  <2> QED
    BY <2>1, <2>2
<1>5. AreNodes(ms)
  BY <1>3, <1>4 DEF AreNodes
<1> QED
  BY <1>3, <1>5 DEF Grew, ms

\* The number that the node of a datum gets.
LEMMA NewIs ==
    ASSUME NEW fresh, IsList(fresh), Distinct(fresh), NEW N \in Nat
    PROVE  \E new \in {[d \in ToSet(fresh) |-> N + SelectInSeq(fresh, LAMBDA x : x = d)]} :
              \A i \in 1 .. Len(fresh) : new[fresh[i]] = N + i
<1> DEFINE new == [d \in ToSet(fresh) |-> N + SelectInSeq(fresh, LAMBDA x : x = d)]
<1>1. Len(fresh) \in Nat /\ DOMAIN fresh = 1 .. Len(fresh) /\ ToSet(fresh) = {fresh[i] : i \in 1 .. Len(fresh)}
  BY ListHas
<1>2. ASSUME NEW i \in 1 .. Len(fresh) PROVE SelectInSeq(fresh, LAMBDA x : x = fresh[i]) = i
  <2> DEFINE I == {k \in 1 .. Len(fresh) : fresh[k] = fresh[i]}
  <2>1. SelectInSeq(fresh, LAMBDA x : x = fresh[i]) = IF I # {} THEN Min(I) ELSE 0
    BY DEF SelectInSeq
  <2>2. I = {i}
    BY <1>1 DEF Distinct
  <2> HIDE DEF I
  <2>3. Min(I) \in I
    <3>1. I \subseteq Nat /\ I # {}
      BY <1>1, <2>2
    <3> QED
      BY <3>1, MinIs
  <2> QED
    BY <2>1, <2>2, <2>3
<1>3. \A i \in 1 .. Len(fresh) : new[fresh[i]] = N + SelectInSeq(fresh, LAMBDA x : x = fresh[i])
  BY <1>1
<1>4. \A i \in 1 .. Len(fresh) : new[fresh[i]] = N + i
  BY <1>2, <1>3
<1> HIDE DEF new
<1> QED
  BY <1>4 DEF new

\* A document with new nodes of data that it did not show.
LEMMA NewDocument ==
    ASSUME NEW s, NEW ms, NEW fresh, AreNodes(s.nodes), IsDocument(s.dom, s.nodes), Grew(s.nodes, ms, fresh),
           IsList(fresh), Distinct(fresh), \A d \in ToSet(fresh) : ~IsShown(s, d),
           NEW doc, IsList(doc), Distinct(doc),
           ToSet(doc) = ToSet(s.dom) \cup {Len(s.nodes) + i : i \in 1 .. Len(fresh)}
    PROVE  IsDocument(doc, ms)
<1> DEFINE N == Len(s.nodes)
           F == Len(fresh)
           T == {N + i : i \in 1 .. F}
<1>1. N \in Nat /\ F \in Nat /\ DOMAIN fresh = 1 .. F /\ ToSet(fresh) = {fresh[i] : i \in 1 .. F}
  <2>1. N \in Nat
    BY ListHas DEF AreNodes
  <2>2. F \in Nat /\ DOMAIN fresh = 1 .. F /\ ToSet(fresh) = {fresh[i] : i \in 1 .. F}
    BY ListHas
  <2> QED
    BY <2>1, <2>2
<1>2. /\ ToSet(s.dom) \subseteq 1 .. N
      /\ \A m, n \in ToSet(s.dom) : s.nodes[m].datum = s.nodes[n].datum => m = n
  BY DEF IsDocument
<1>3. /\ Len(ms) = N + F /\ (\A n \in 1 .. N : ms[n] = s.nodes[n])
      /\ \A i \in 1 .. F : ms[N + i].datum = fresh[i]
  BY DEF Grew
<1>4. \A i, k \in 1 .. F : fresh[i] = fresh[k] => i = k
  BY <1>1 DEF Distinct
<1>5. \A i \in 1 .. F : \A n \in ToSet(s.dom) : s.nodes[n].datum # fresh[i]
  BY <1>1 DEF IsShown
<1> HIDE DEF N, F
<1>6. ToSet(doc) = ToSet(s.dom) \cup T
  BY DEF N, F
<1>7. ToSet(doc) \subseteq 1 .. N + F
  BY <1>1, <1>2, <1>6
<1>8. ASSUME NEW m \in ToSet(doc), NEW n \in ToSet(doc), ms[m].datum = ms[n].datum PROVE m = n
  <2>1. CASE m \in ToSet(s.dom) /\ n \in ToSet(s.dom)
    BY <1>2, <1>3, <1>8, <2>1
  <2>2. CASE m \in T /\ n \in T
    <3>1. PICK i \in 1 .. F : m = N + i
      BY <2>2
    <3>2. PICK k \in 1 .. F : n = N + k
      BY <2>2
    <3>3. fresh[i] = fresh[k]
      BY <1>3, <1>8, <3>1, <3>2
    <3> QED
      BY <1>4, <3>1, <3>2, <3>3
  <2>3. CASE m \in ToSet(s.dom) /\ n \in T
    <3>1. PICK k \in 1 .. F : n = N + k
      BY <2>3
    <3>2. ms[m] = s.nodes[m] /\ ms[n].datum = fresh[k]
      BY <1>2, <1>3, <2>3, <3>1
    <3> QED
      BY <1>5, <1>8, <2>3, <3>2
  <2>4. CASE m \in T /\ n \in ToSet(s.dom)
    <3>1. PICK k \in 1 .. F : m = N + k
      BY <2>4
    <3>2. ms[n] = s.nodes[n] /\ ms[m].datum = fresh[k]
      BY <1>2, <1>3, <2>4, <3>1
    <3> QED
      BY <1>5, <1>8, <2>4, <3>2
  <2> QED
    BY <1>6, <2>1, <2>2, <2>3, <2>4
<1> QED
  BY <1>3, <1>7, <1>8 DEF IsDocument

\* Consecutive numbers.
LEMMA NumbersAre ==
    ASSUME NEW n \in Nat, NEW m \in Nat, NEW q, q = [i \in 1 .. m |-> n + i]
    PROVE  IsList(q) /\ Distinct(q) /\ ToSet(q) = {n + i : i \in 1 .. m}
<1>1. q = [i \in 1 .. m |-> q[i]] /\ DOMAIN q = 1 .. m /\ \A i \in 1 .. m : q[i] = n + i
  OBVIOUS
<1>2. IsList(q)
  BY <1>1, ListOf
<1>3. Distinct(q)
  <2>1. \A i, k \in 1 .. m : n + i = n + k => i = k
    OBVIOUS
  <2> QED
    BY <1>1, <2>1 DEF Distinct
<1>4. ToSet(q) = {n + i : i \in 1 .. m}
  BY <1>1 DEF ToSet
<1> QED
  BY <1>2, <1>3, <1>4

After(n, m) == {n + i : i \in 1 .. m}

\* The document when new nodes were inserted and one, perhaps, was put at the end.
LEMMA DrawnDocument ==
    ASSUME NEW was, NEW N \in Nat, IsList(was), Distinct(was), ToSet(was) \subseteq 1 .. N,
           NEW a \in Nat, NEW b \in Nat, NEW more, NEW ends, NEW S,
           IsList(more), Distinct(more), ToSet(more) = After(N, a),
           IsList(ends), Distinct(ends), ToSet(ends) = After(N + a, b)
    PROVE  \E doc \in {InsertBefore(was, more, S) \o ends} :
              IsList(doc) /\ Distinct(doc) /\ ToSet(doc) = ToSet(was) \cup After(N, a + b)
<1> DEFINE kids == InsertBefore(was, more, S)
           doc == kids \o ends
<1>1. IsList(more) /\ Distinct(more) /\ ToSet(more) = {N + i : i \in 1 .. a}
  BY DEF After
<1>2. IsList(ends) /\ Distinct(ends) /\ ToSet(ends) = {N + a + i : i \in 1 .. b}
  BY DEF After
<1>3. ToSet(was) \cap ToSet(more) = {}
  <2>1. \A n \in 1 .. N : \A i \in 1 .. a : n # N + i
    OBVIOUS
  <2> QED
    BY <1>1, <2>1
<1>4. IsList(kids) /\ Distinct(kids) /\ ToSet(kids) = ToSet(was) \cup ToSet(more)
  <2>1. \E r \in {InsertBefore(was, more, S)} : IsList(r) /\ Distinct(r) /\ ToSet(r) = ToSet(was) \cup ToSet(more)
    BY <1>1, <1>3, InsertHas
  <2> QED
    BY <2>1
<1> HIDE DEF kids
<1>5. ToSet(kids) \cap ToSet(ends) = {}
  <2>1. \A n \in 1 .. N : \A i \in 1 .. b : n # N + a + i
    OBVIOUS
  <2>2. \A k \in 1 .. a : \A i \in 1 .. b : N + k # N + a + i
    OBVIOUS
  <2> QED
    BY <1>1, <1>2, <1>4, <2>1, <2>2
<1>6. IsList(doc) /\ ToSet(doc) = ToSet(kids) \cup ToSet(ends) /\ Distinct(doc)
  <2>1. IsList(kids \o ends)
    BY <1>2, <1>4, JoinedLists
  <2> QED
    BY <1>2, <1>4, <1>5, <2>1, JoinedHas
<1>7. {N + i : i \in 1 .. a} \cup {N + a + i : i \in 1 .. b} = {N + i : i \in 1 .. a + b}
  <2>1. ASSUME NEW i \in 1 .. a + b
        PROVE  N + i \in {N + k : k \in 1 .. a} \cup {N + a + k : k \in 1 .. b}
    <3>1. CASE i \in 1 .. a
      BY <3>1
    <3>2. CASE i \notin 1 .. a
      <4>1. i - a \in 1 .. b /\ N + a + (i - a) = N + i
        BY <3>2
      <4> QED
        BY <4>1
    <3> QED
      BY <3>1, <3>2
  <2>2. \A i \in 1 .. a : i \in 1 .. a + b
    OBVIOUS
  <2>3. \A i \in 1 .. b : a + i \in 1 .. a + b /\ N + a + i = N + (a + i)
    OBVIOUS
  <2>4. \A i \in 1 .. b : N + a + i \in {N + k : k \in 1 .. a + b}
    BY <2>3
  <2> QED
    BY <2>1, <2>2, <2>4
<1> HIDE DEF doc
<1>8. ToSet(doc) = ToSet(was) \cup {N + i : i \in 1 .. a + b}
  BY <1>1, <1>2, <1>4, <1>6, <1>7
<1> QED
  BY <1>6, <1>8 DEF doc, kids, After

\* What a redraw draws: nodes are added, the groups are those that go, stay or come.
Extends(ns, ms) ==
    /\ AreNodes(ms) /\ Len(ns) <= Len(ms)
    /\ \A n \in 1 .. Len(ms) : IF n \in 1 .. Len(ns) THEN ms[n] = ns[n] ELSE ms[n].lock = None

Holds(g, S) == IsList(g) /\ IsList(Nodes(g)) /\ Distinct(Nodes(g)) /\ ToSet(Nodes(g)) = S

Drawing(s, drawn, data) ==
    /\ Extends(s.nodes, drawn.nodes) /\ IsDocument(drawn.dom, drawn.nodes)
    /\ \A d \in ToSet(data) \cup {Path} : \E n \in ToSet(drawn.dom) : drawn.nodes[n].datum = d
    /\ Holds(drawn.exit, {n \in ToSet(drawn.dom) : drawn.nodes[n].datum \notin ToSet(data) \cup {Path}})
    /\ Holds(drawn.update, {n \in ToSet(drawn.dom) : drawn.nodes[n].datum \in ToSet(data)})
    /\ Holds(drawn.path, {n \in ToSet(drawn.dom) : drawn.nodes[n].datum = Path})
    /\ ToSet(drawn.path) = ToSet(Nodes(drawn.path))

LEMMA DrawIs ==
    ASSUME NEW s, NEW data \in Ticks, NEW old, AreNodes(s.nodes), IsDocument(s.dom, s.nodes)
    PROVE  \E drawn \in {Draw(s, data, old)} : Drawing(s, drawn, data)
<1> DEFINE join == TickJoin(s, data)
           path == PathJoin(s)
           p == Nodes(join.enter)
           r == Nodes(path.enter)
           fresh == p \o r
           N == Len(s.nodes)
           a == Len(p)
           b == Len(r)
           new == [d \in ToSet(fresh) |-> N + SelectInSeq(fresh, LAMBDA x : x = d)]
           added == [i \in 1 .. Len(fresh) |->
                       [datum |-> fresh[i], lock |-> None,
                        look |-> IF fresh[i] = Path THEN Opaque(0) ELSE Faint(old)]]
           more == [i \in 1 .. a |-> new[p[i]]]
           ends == [i \in 1 .. b |-> new[Path]]
           S == ToSet(s.dom) \ TickNodes(s)
           doc == InsertBefore(s.dom, more, S) \o ends
           ms == s.nodes \o added
           drawn == Draw(s, data, old)
<1>1. /\ drawn.exit = join.exit /\ drawn.update = Entered(join, new) /\ drawn.path = Entered(path, new)
      /\ drawn.nodes = ms /\ drawn.dom = doc
  BY DEF Draw
<1> HIDE DEF drawn
<1>2. /\ Joins(s, join, data) /\ IsList(join.exit) /\ Distinct(Nodes(join.exit))
      /\ ToSet(Nodes(join.exit)) = {n \in ToSet(s.dom) : s.nodes[n].datum \notin ToSet(data) \cup {Path}}
  <2>1. \E j \in {TickJoin(s, data)} :
              /\ Joins(s, j, data) /\ IsList(j.exit) /\ Distinct(Nodes(j.exit))
              /\ ToSet(Nodes(j.exit)) = {n \in ToSet(s.dom) : s.nodes[n].datum \notin ToSet(data) \cup {Path}}
    BY TickJoinIs
  <2> QED
    BY <2>1
<1>3. Joins(s, path, <<Path>>)
  BY PathJoinIs
<1> HIDE DEF join, path
<1>4. AreData(data) /\ AreData(<<Path>>) /\ Path \notin ToSet(data) /\ ToSet(<<Path>>) = {Path}
  BY DataAre
<1>5. IsList(p) /\ Distinct(p) /\ ToSet(p) = {d \in ToSet(data) : ~IsShown(s, d)}
  BY <1>2, <1>4, EnterIs
<1>6. IsList(r) /\ Distinct(r) /\ ToSet(r) = {d \in {Path} : ~IsShown(s, d)}
  <2>1. IsList(r) /\ Distinct(r) /\ ToSet(r) = {d \in ToSet(<<Path>>) : ~IsShown(s, d)}
    BY <1>3, <1>4, EnterIs
  <2> QED
    BY <1>4, <2>1
<1> HIDE DEF p, r
<1>7. /\ a \in Nat /\ b \in Nat /\ N \in Nat
      /\ ToSet(p) = {p[i] : i \in 1 .. a} /\ ToSet(r) = {r[i] : i \in 1 .. b}
  <2>1. a \in Nat /\ ToSet(p) = {p[i] : i \in 1 .. a}
    BY <1>5, ListHas
  <2>2. b \in Nat /\ ToSet(r) = {r[i] : i \in 1 .. b}
    BY <1>6, ListHas
  <2>3. N \in Nat
    BY ListHas DEF AreNodes
  <2> QED
    BY <2>1, <2>2, <2>3
<1>8. /\ IsList(fresh) /\ Len(fresh) = a + b /\ (\A i \in 1 .. a : fresh[i] = p[i])
      /\ \A i \in 1 .. b : fresh[a + i] = r[i]
  BY <1>5, <1>6, JoinedLists
<1>9. Distinct(fresh) /\ ToSet(fresh) = {d \in ToSet(data) \cup {Path} : ~IsShown(s, d)}
  <2>1. ToSet(p) \cap ToSet(r) = {}
    BY <1>4, <1>5, <1>6
  <2>2. ToSet(fresh) = ToSet(p) \cup ToSet(r) /\ Distinct(fresh)
    BY <1>5, <1>6, <2>1, JoinedHas
  <2> QED
    BY <1>5, <1>6, <2>2
<1> HIDE DEF fresh
<1>10. \A i \in 1 .. Len(fresh) : new[fresh[i]] = N + i
  <2>1. \E f \in {[d \in ToSet(fresh) |-> N + SelectInSeq(fresh, LAMBDA x : x = d)]} :
              \A i \in 1 .. Len(fresh) : f[fresh[i]] = N + i
    BY <1>7, <1>8, <1>9, NewIs
  <2> QED
    BY <2>1
<1> HIDE DEF new, N, a, b
<1>11. more = [i \in 1 .. a |-> N + i]
  <2>1. \A i \in 1 .. a : new[p[i]] = N + i
    <3>1. \A i \in 1 .. a : i \in 1 .. Len(fresh)
      BY <1>7, <1>8
    <3> QED
      BY <1>8, <1>10, <3>1
  <2> QED
    BY <2>1
<1>12. ends = [i \in 1 .. b |-> N + a + i]
  <2>1. ASSUME NEW i \in 1 .. b PROVE new[Path] = N + a + i
    <3>1. a + i \in 1 .. Len(fresh) /\ N + (a + i) = N + a + i
      BY <1>7, <1>8
    <3>2. fresh[a + i] = r[i] /\ r[i] \in ToSet(r)
      BY <1>7, <1>8
    <3>3. fresh[a + i] = Path
      BY <1>6, <3>2
    <3>4. new[fresh[a + i]] = N + (a + i)
      BY <1>10, <3>1
    <3> QED
      BY <3>1, <3>3, <3>4
  <2> QED
    BY <2>1
<1>13. Grew(s.nodes, ms, fresh)
  <2> DEFINE f == Len(fresh)
  <2>1. added = [i \in 1 .. Len(fresh) |-> added[i]]
    OBVIOUS
  <2>2. \A i \in 1 .. Len(fresh) : /\ DOMAIN added[i] = {"datum", "lock", "look"}
                                   /\ added[i].datum = fresh[i] /\ added[i].lock = None
    OBVIOUS
  <2> HIDE DEF added
  <2> QED
    BY <1>8, <2>1, <2>2, AddedNodes
<1> HIDE DEF more, ends, ms, S
<1>14. IsList(doc) /\ Distinct(doc) /\ ToSet(doc) = ToSet(s.dom) \cup {N + i : i \in 1 .. a + b}
  <2>1. IsList(s.dom) /\ Distinct(s.dom) /\ ToSet(s.dom) \subseteq 1 .. N
    BY DEF IsDocument, N
  <2> DEFINE was == s.dom
  <2>2. \E q \in {InsertBefore(was, more, S) \o ends} :
              IsList(q) /\ Distinct(q) /\ ToSet(q) = ToSet(was) \cup After(N, a + b)
    <3>1. N \in Nat /\ a \in Nat /\ b \in Nat
      BY <1>7
    <3>2. IsList(more) /\ Distinct(more) /\ ToSet(more) = After(N, a)
      BY <1>11, <3>1, NumbersAre DEF After
    <3> DEFINE c == N + a
    <3>3. c \in Nat /\ ends = [i \in 1 .. b |-> c + i]
      BY <1>12, <3>1
    <3> HIDE DEF c
    <3>4. IsList(ends) /\ Distinct(ends) /\ ToSet(ends) = After(c, b)
      BY <3>1, <3>3, NumbersAre DEF After
    <3>5. ToSet(ends) = After(N + a, b)
      BY <3>4 DEF c
    <3>6. IsList(was) /\ Distinct(was) /\ ToSet(was) \subseteq 1 .. N
      BY <2>1
    <3> HIDE DEF was
    <3> QED
      BY <3>1, <3>2, <3>4, <3>5, <3>6, DrawnDocument
  <2> QED
    BY <2>2 DEF After
<1> HIDE DEF doc
<1>15. IsDocument(doc, ms)
  <2>1. ToSet(doc) = ToSet(s.dom) \cup {Len(s.nodes) + i : i \in 1 .. Len(fresh)}
    BY <1>8, <1>14 DEF N
  <2>2. \A d \in ToSet(fresh) : ~IsShown(s, d)
    BY <1>9
  <2> QED
    BY <1>8, <1>9, <1>13, <1>14, <2>1, <2>2, NewDocument
<1>16. /\ AreNodes(ms) /\ Len(ms) = N + (a + b) /\ (\A n \in 1 .. N : ms[n] = s.nodes[n])
       /\ \A i \in 1 .. a + b : ms[N + i].datum = fresh[i] /\ ms[N + i].lock = None
  BY <1>8, <1>13 DEF Grew, N
<1>17. \A n \in ToSet(s.dom) : n \in ToSet(doc) /\ n \in 1 .. N /\ ms[n] = s.nodes[n]
  BY <1>14, <1>16 DEF IsDocument, N
<1>18. Extends(s.nodes, ms)
  <2>1. ASSUME NEW n \in 1 .. Len(ms), n \notin 1 .. N PROVE ms[n].lock = None
    <3>1. n - N \in 1 .. a + b /\ N + (n - N) = n
      BY <1>7, <1>16, <2>1
    <3> DEFINE i == n - N
    <3> HIDE DEF i
    <3>2. i \in 1 .. a + b /\ N + i = n
      BY <3>1 DEF i
    <3> QED
      BY <1>16, <3>2
  <2>2. N <= Len(ms)
    BY <1>7, <1>16
  <2> QED
    BY <1>16, <2>1, <2>2 DEF Extends, N
<1>19. ASSUME NEW d \in ToSet(fresh) PROVE new[d] \in ToSet(doc) /\ ms[new[d]].datum = d
  <2>1. PICK i \in 1 .. a + b : d = fresh[i]
    <3>1. ToSet(fresh) = {fresh[i] : i \in 1 .. Len(fresh)}
      BY <1>8, ListHas
    <3> QED
      BY <1>8, <3>1
  <2>2. new[d] = N + i
    BY <1>8, <1>10, <2>1
  <2> QED
    BY <1>14, <1>16, <2>1, <2>2
<1>20. ASSUME NEW d \in ToSet(data) \cup {Path} PROVE \E n \in ToSet(doc) : ms[n].datum = d
  <2>1. CASE IsShown(s, d)
    <3>1. PICK n \in ToSet(s.dom) : s.nodes[n].datum = d
      BY <2>1 DEF IsShown
    <3> QED
      BY <1>17, <3>1
  <2>2. CASE ~IsShown(s, d)
    <3>1. d \in ToSet(fresh)
      BY <1>9, <2>2
    <3> QED
      BY <1>19, <3>1
  <2> QED
    BY <2>1, <2>2
<1>21. Holds(drawn.update, {n \in ToSet(doc) : ms[n].datum \in ToSet(data)})
  <2>1. \A d \in ToSet(data) : ~IsShown(s, d) => new[d] \in ToSet(doc) /\ ms[new[d]].datum = d
    BY <1>9, <1>19
  <2>2. \A n \in ToSet(s.dom) : n \in ToSet(doc) /\ ms[n] = s.nodes[n]
    BY <1>17
  <2>3. Joins(s, join, data) /\ AreData(data)
    BY <1>2, <1>4
  <2>4. ShowsData(Entered(join, new), doc, ms, data)
    BY <1>15, <2>1, <2>2, <2>3, EnteredIs
  <2> QED
    BY <1>1, <2>4 DEF Holds, ShowsData
<1>22. /\ Holds(drawn.path, {n \in ToSet(doc) : ms[n].datum = Path})
       /\ ToSet(drawn.path) = ToSet(Nodes(drawn.path))
  <2> DEFINE one == <<Path>>
  <2>1. \A d \in ToSet(one) : ~IsShown(s, d) => new[d] \in ToSet(doc) /\ ms[new[d]].datum = d
    BY <1>4, <1>9, <1>19
  <2>2. \A n \in ToSet(s.dom) : n \in ToSet(doc) /\ ms[n] = s.nodes[n]
    BY <1>17
  <2>3. AreData(one) /\ Joins(s, path, one) /\ ToSet(one) = {Path}
    BY <1>3, <1>4
  <2> HIDE DEF one
  <2>4. ShowsData(Entered(path, new), doc, ms, one)
    BY <1>15, <2>1, <2>2, <2>3, EnteredIs
  <2>5. {n \in ToSet(doc) : ms[n].datum \in ToSet(one)} = {n \in ToSet(doc) : ms[n].datum = Path}
    BY <2>3
  <2> QED
    BY <1>1, <2>4, <2>5 DEF Holds, ShowsData
<1>23. Holds(drawn.exit, {n \in ToSet(doc) : ms[n].datum \notin ToSet(data) \cup {Path}})
  <2>1. ASSUME NEW n \in ToSet(doc), ms[n].datum \notin ToSet(data) \cup {Path} PROVE n \in ToSet(s.dom)
    <3>1. CASE n \in ToSet(s.dom)
      BY <3>1
    <3>2. CASE \E i \in 1 .. a + b : n = N + i
      <4>1. PICK i \in 1 .. a + b : n = N + i
        BY <3>2
      <4>2. ms[n].datum = fresh[i] /\ fresh[i] \in ToSet(fresh)
        <5>1. ToSet(fresh) = {fresh[k] : k \in 1 .. Len(fresh)}
          BY <1>8, ListHas
        <5> QED
          BY <1>8, <1>16, <4>1, <5>1
      <4> QED
        BY <1>9, <2>1, <4>2
    <3> QED
      BY <1>14, <3>1, <3>2
  <2>2. {n \in ToSet(doc) : ms[n].datum \notin ToSet(data) \cup {Path}}
           = {n \in ToSet(s.dom) : s.nodes[n].datum \notin ToSet(data) \cup {Path}}
    BY <1>17, <2>1
  <2>3. IsList(Nodes(join.exit))
    BY <1>2, NodesHas
  <2> QED
    BY <1>1, <1>2, <2>2, <2>3 DEF Holds
<1> QED
  BY <1>1, <1>15, <1>18, <1>20, <1>21, <1>22, <1>23 DEF Drawing, drawn

-----------------------------------------------------------------------------
(***************************************************************************)
(* A redraw makes the next version, w, and the next waits, W, of what the  *)
(* invariant says; timers that begin are pushed in front of the others.    *)
(***************************************************************************)
TimerAt(e, size, time, w, W) ==
    /\ IsTimer(e) /\ e.id \in 1 .. w /\ e.wait \in W /\ e.then <= time
    /\ e.fn # "start" => e.delay = 0
    /\ e.fn # "begin" => e.node \in 1 .. size
    /\ e.fn = "begin" => Distinct(e.group) /\ ToSet(e.group) \subseteq 1 .. size

JobAt(j, size, time, w, W) ==
    /\ IsTimer(j) /\ j.id \in 1 .. w /\ j.wait \in W /\ j.then <= time
    /\ j.fn # "start" => j.delay = 0
    /\ j.node \in 1 .. size

LocksAt(ns, J, w) ==
    \A n \in 1 .. Len(ns) :
        /\ IsFiniteSet(Counted(J, n))
        /\ Counted(J, n) = {} => ns[n].lock = None
        /\ Counted(J, n) # {} =>
              \E a \in 0 .. w : ns[n].lock = [active |-> a, count |-> Cardinality(Counted(J, n))]

Stack(q, J, size, time, w, W) ==
    /\ IsList(q) /\ Ordered(q) /\ JobsBehind(q, 0) = J
    /\ \A e \in ToSet(q) : TimerAt(e, size, time, w, W)
    /\ \A j \in J : JobAt(j, size, time, w, W)
    /\ \A i, j \in J : Alike(i, j) => i = j

BeginOf(w, g, delay, duration, goal, removes, time) ==
    [fn |-> "begin", id |-> w, group |-> g, node |-> Hole, then |-> time, delay |-> 0,
     wait |-> delay, duration |-> duration, target |-> goal, removes |-> removes, tweened |-> FALSE]

\* What a job that begins for the nodes of g is.
BeginsFor(j, w, g, goal, removes) ==
    j.node \in ToSet(g) /\ j.id = w /\ j.fn = "begin" /\ j.target = goal /\ j.removes = removes

BeginIs(e, size, w, W, g, goal, removes, time) ==
    /\ TimerAt(e, size, time, w, W) /\ e.fn = "begin" /\ e.id = w
    /\ \A j \in JobsOf(e) : JobAt(j, size, time, w, W) /\ BeginsFor(j, w, g, goal, removes)
    /\ \A n \in ToSet(g) : \E j \in JobsOf(e) : j.node = n
    /\ \A i, j \in JobsOf(e) : Alike(i, j) => i = j

LEMMA BeginJobs ==
    ASSUME NEW w \in Nat, 0 < w, NEW g, IsList(g), Distinct(g), NEW size, ToSet(g) \subseteq 1 .. size, NEW W,
           NEW delay \in Nat, delay \in W, NEW duration \in Nat \ {0}, NEW goal, NEW removes, NEW time \in Nat
    PROVE  BeginIs(BeginOf(w, g, delay, duration, goal, removes, time), size, w, W, g, goal, removes, time)
<1> DEFINE e == BeginOf(w, g, delay, duration, goal, removes, time)
<1>1. /\ DOMAIN e = TimerFields /\ e.fn = "begin" /\ e.id = w /\ e.group = g /\ e.then = time /\ e.delay = 0
      /\ e.wait = delay /\ e.duration = duration /\ e.target = goal /\ e.removes = removes
  BY DEF BeginOf, TimerFields
<1> HIDE DEF e
<1>2. IsTimer(e)
  BY <1>1 DEF IsTimer
<1>3. TimerAt(e, size, time, w, W)
  BY <1>1, <1>2 DEF TimerAt
<1>4. JobsOf(e) = {JobFor(e, n) : n \in ToSet(g)}
  BY <1>1 DEF JobsOf
<1>5. ASSUME NEW n \in ToSet(g)
      PROVE  \E j \in {JobFor(e, n)} :
                j.node = n /\ JobAt(j, size, time, w, W) /\ BeginsFor(j, w, g, goal, removes)
  <2> DEFINE j == JobFor(e, n)
  <2>1. /\ DOMAIN j = TimerFields /\ j.fn = "begin" /\ j.id = w /\ j.group = <<>> /\ j.then = time /\ j.delay = 0
        /\ j.wait = delay /\ j.duration = duration /\ j.target = goal /\ j.removes = removes /\ j.node = n
    BY <1>1 DEF JobFor, TimerFields
  <2> HIDE DEF j
  <2>2. IsTimer(j)
    BY <2>1, EmptyList DEF IsTimer
  <2>3. JobAt(j, size, time, w, W)
    BY <2>1, <2>2 DEF JobAt
  <2> QED
    BY <2>1, <2>3 DEF BeginsFor, j
<1>6. \A j \in JobsOf(e) : JobAt(j, size, time, w, W) /\ BeginsFor(j, w, g, goal, removes) /\ j = JobFor(e, j.node)
  BY <1>4, <1>5
<1>7. \A n \in ToSet(g) : \E j \in JobsOf(e) : j.node = n
  BY <1>4, <1>5
<1>8. \A i, j \in JobsOf(e) : Alike(i, j) => i = j
  BY <1>6 DEF Alike
<1> QED
  BY <1>1, <1>3, <1>6, <1>7, <1>8 DEF e, BeginIs

\* A timer in front of the others.
LEMMA PushedHas ==
    ASSUME NEW q, IsList(q), NEW e
    PROVE  \E r \in {<<e>> \o q} :
              /\ IsList(r) /\ Len(r) = Len(q) + 1 /\ r[1] = e /\ (\A i \in 1 .. Len(q) : r[i + 1] = q[i])
              /\ ToSet(r) = ToSet(q) \cup {e} /\ JobsBehind(r, 0) = JobsOf(e) \cup JobsBehind(q, 0)
<1> DEFINE one == <<e>>
           r == one \o q
           n == Len(q)
<1>1. IsList(one) /\ Len(one) = 1 /\ one[1] = e /\ ToSet(one) = {e}
  <2>1. one = [i \in 1 .. 1 |-> one[i]] /\ DOMAIN one = 1 .. 1 /\ one[1] = e
    OBVIOUS
  <2> HIDE DEF one
  <2>2. IsList(one) /\ Len(one) = 1
    BY <2>1, ListOf
  <2> QED
    BY <2>1, <2>2 DEF ToSet
<1> HIDE DEF one
<1>2. n \in Nat /\ ToSet(q) = {q[i] : i \in 1 .. n}
  BY ListHas
<1>3. /\ IsList(r) /\ Len(r) = 1 + n /\ (\A i \in 1 .. 1 : r[i] = one[i]) /\ (\A i \in 1 .. n : r[1 + i] = q[i])
      /\ ToSet(r) = ToSet(one) \cup ToSet(q)
  <2>1. /\ IsList(r) /\ Len(r) = Len(one) + Len(q) /\ (\A i \in 1 .. Len(one) : r[i] = one[i])
        /\ \A i \in 1 .. Len(q) : r[Len(one) + i] = q[i]
    <3>1. IsList(one)
      BY <1>1
    <3> HIDE DEF n
    <3> QED
      BY <3>1, JoinedLists
  <2>2. ToSet(r) = ToSet(one) \cup ToSet(q)
    BY <1>1, JoinedHas
  <2> HIDE DEF r
  <2> QED
    BY <1>1, <2>1, <2>2
<1> HIDE DEF r
<1>4. Len(r) = n + 1 /\ r[1] = e /\ ToSet(r) = ToSet(q) \cup {e}
  BY <1>1, <1>2, <1>3
<1>5. \A i \in 1 .. n : r[i + 1] = q[i]
  <2>1. \A i \in 1 .. n : 1 + i = i + 1
    OBVIOUS
  <2> QED
    BY <1>3, <2>1
<1>6. JobsBehind(r, 0) = UNION {JobsOf(x) : x \in ToSet(r)} /\ JobsBehind(q, 0) = UNION {JobsOf(x) : x \in ToSet(q)}
  <2>1. ToSet(r) = {r[i] : i \in 1 .. n + 1}
    BY <1>3, <1>4, ListHas
  <2>2. JobsBehind(r, 0) = UNION {JobsOf(r[i]) : i \in 1 .. n + 1} /\ JobsBehind(q, 0) = UNION {JobsOf(q[i]) : i \in 1 .. n}
    BY <1>4 DEF JobsBehind
  <2> QED
    BY <1>2, <2>1, <2>2
<1>7. JobsBehind(r, 0) = JobsOf(e) \cup JobsBehind(q, 0)
  BY <1>4, <1>6
<1> QED
  BY <1>3, <1>4, <1>5, <1>7 DEF r, one

LEMMA PushedOrdered ==
    ASSUME NEW q, IsList(q), Ordered(q), NEW e, e.fn = "begin", \A x \in ToSet(q) : x.id <= e.id,
           \A i \in JobsOf(e), j \in JobsBehind(q, 0) : ~Alike(i, j)
    PROVE  Ordered(<<e>> \o q)
<1> DEFINE r == <<e>> \o q
           n == Len(q)
<1>1. /\ IsList(r) /\ Len(r) = n + 1 /\ r[1] = e /\ (\A i \in 1 .. n : r[i + 1] = q[i])
  BY PushedHas
<1>2. n \in Nat /\ ToSet(q) = {q[i] : i \in 1 .. n}
  BY ListHas
<1> HIDE DEF r
<1>3. ASSUME NEW i \in 1 .. n + 1 PROVE i = 1 \/ (i - 1 \in 1 .. n /\ r[i] = q[i - 1])
  <2>1. i = 1 \/ (i - 1 \in 1 .. n /\ (i - 1) + 1 = i)
    BY <1>2
  <2> QED
    BY <1>1, <2>1
<1>4. \A i \in 1 .. n : JobsOf(q[i]) \subseteq JobsBehind(q, 0)
  BY <1>2 DEF JobsBehind
<1>5. \A i, j : Alike(i, j) => Alike(j, i)
  BY DEF Alike
<1>6. ASSUME NEW i \in 1 .. n + 1, NEW k \in 1 .. n + 1, i # k, NEW a \in JobsOf(r[i]), NEW b \in JobsOf(r[k])
      PROVE  ~Alike(a, b)
  <2>1. CASE i = 1
    <3>1. k - 1 \in 1 .. n /\ r[k] = q[k - 1]
      BY <1>3, <1>6, <2>1
    <3> QED
      BY <1>1, <1>4, <2>1, <3>1
  <2>2. CASE k = 1
    <3>1. i - 1 \in 1 .. n /\ r[i] = q[i - 1]
      BY <1>3, <1>6, <2>2
    <3> QED
      BY <1>1, <1>4, <1>5, <2>2, <3>1
  <2>3. CASE i # 1 /\ k # 1
    <3>1. i - 1 \in 1 .. n /\ r[i] = q[i - 1] /\ k - 1 \in 1 .. n /\ r[k] = q[k - 1]
      BY <1>3, <2>3
    <3>2. i - 1 # k - 1
      BY <1>2, <1>6
    <3> QED
      BY <3>1, <3>2 DEF Ordered
  <2> QED
    BY <2>1, <2>2, <2>3
<1>7. ASSUME NEW i \in 1 .. n + 1, NEW k \in 1 .. n + 1, i < k, r[k].fn = "begin"
      PROVE  r[i].fn = "begin" /\ r[k].id <= r[i].id
  <2>1. k # 1
    BY <1>2, <1>7
  <2>2. k - 1 \in 1 .. n /\ r[k] = q[k - 1]
    BY <1>3, <2>1
  <2>3. CASE i = 1
    BY <1>1, <1>2, <2>2, <2>3
  <2>4. CASE i # 1
    <3>1. i - 1 \in 1 .. n /\ r[i] = q[i - 1] /\ i - 1 < k - 1
      BY <1>2, <1>3, <1>7, <2>4
    <3> QED
      BY <1>7, <2>2, <3>1 DEF Ordered
  <2> QED
    BY <2>3, <2>4
<1>8. Ordered(r)
  BY <1>1, <1>6, <1>7 DEF Ordered
<1> QED
  BY <1>8 DEF r

Pushed(e, q, J, size, time, w, W, g, goal, removes) ==
    /\ Stack(<<e>> \o q, J \cup JobsOf(e), size, time, w, W)
    /\ \A j \in JobsOf(e) : BeginsFor(j, w, g, goal, removes)
    /\ \A n \in ToSet(g) : \E j \in JobsOf(e) : j.node = n

LEMMA PushBegin ==
    ASSUME NEW q, NEW J, NEW size, NEW w \in Nat, 0 < w, NEW W, NEW time \in Nat, Stack(q, J, size, time, w, W),
           NEW g, IsList(g), Distinct(g), ToSet(g) \subseteq 1 .. size,
           NEW delay \in Nat, delay \in W, NEW duration \in Nat \ {0}, NEW goal, NEW removes,
           \A j \in J : j.id = w => j.node \notin ToSet(g)
    PROVE  Pushed(BeginOf(w, g, delay, duration, goal, removes, time), q, J, size, time, w, W, g, goal, removes)
<1> DEFINE e == BeginOf(w, g, delay, duration, goal, removes, time)
           r == <<e>> \o q
<1>0. BeginIs(e, size, w, W, g, goal, removes, time)
  BY BeginJobs
<1>1. /\ TimerAt(e, size, time, w, W) /\ e.fn = "begin" /\ e.id = w
      /\ \A j \in JobsOf(e) : JobAt(j, size, time, w, W) /\ BeginsFor(j, w, g, goal, removes)
  BY <1>0 DEF BeginIs
<1>2. /\ \A n \in ToSet(g) : \E j \in JobsOf(e) : j.node = n
      /\ \A i, j \in JobsOf(e) : Alike(i, j) => i = j
  BY <1>0 DEF BeginIs
<1> HIDE DEF e
<1>3. /\ IsList(q) /\ Ordered(q) /\ JobsBehind(q, 0) = J
      /\ \A x \in ToSet(q) : TimerAt(x, size, time, w, W)
      /\ \A j \in J : JobAt(j, size, time, w, W)
      /\ \A i, j \in J : Alike(i, j) => i = j
  BY DEF Stack
<1>4. \A i \in JobsOf(e), j \in J : ~Alike(i, j) /\ ~Alike(j, i)
  BY <1>1 DEF Alike, BeginsFor
<1>5. IsList(r) /\ ToSet(r) = ToSet(q) \cup {e} /\ JobsBehind(r, 0) = JobsOf(e) \cup J
  BY <1>3, PushedHas
<1>6. Ordered(r)
  <2>1. \A x \in ToSet(q) : x.id <= e.id
    BY <1>1, <1>3 DEF TimerAt
  <2> QED
    BY <1>1, <1>3, <1>4, <2>1, PushedOrdered
<1> HIDE DEF r
<1>7. Stack(r, J \cup JobsOf(e), size, time, w, W)
  <2>1. \A i, j \in J \cup JobsOf(e) : Alike(i, j) => i = j
    BY <1>2, <1>3, <1>4
  <2>2. JobsOf(e) \cup J = J \cup JobsOf(e)
    OBVIOUS
  <2>3. \A j \in J \cup JobsOf(e) : JobAt(j, size, time, w, W)
    BY <1>1, <1>3
  <2>4. \A x \in ToSet(r) : TimerAt(x, size, time, w, W)
    BY <1>1, <1>3, <1>5
  <2> QED
    BY <1>5, <1>6, <2>1, <2>2, <2>3, <2>4 DEF Stack
<1> QED
  BY <1>1, <1>2, <1>7 DEF Pushed, e, r

\* selection.transition.
Added(s, t, e) == IsState(t) /\ SameRest(s, t) /\ t.queue = <<e>> \o s.queue

LEMMA TransitionAdds ==
    ASSUME NEW s, IsState(s), NEW w, NEW group, NEW delay, NEW duration, NEW goal, NEW removes, NEW time
    PROVE  Added(s, Transition(s, w, group, delay, duration, goal, removes, time),
                 BeginOf(w, Nodes(group), delay, duration, goal, removes, time))
<1> DEFINE e == BeginOf(w, Nodes(group), delay, duration, goal, removes, time)
           q == <<e>> \o s.queue
           t == Transition(s, w, group, delay, duration, goal, removes, time)
<1>1. t = Timer(s, e)
  BY DEF Transition, BeginOf
<1> HIDE DEF e, t
<1>2. IsList(q)
  BY PushedHas DEF IsState
<1>3. t = IF s.interval = 1 THEN [s EXCEPT !.queue = q]
          ELSE [[s EXCEPT !.queue = q] EXCEPT !.timeout = None, !.interval = 1, !.frames = @ + 1]
  BY <1>1 DEF Timer
<1> HIDE DEF q
<1>4. IsState(t) /\ t.nodes = s.nodes /\ t.dom = s.dom /\ t.late = s.late /\ t.queue = q
  BY <1>2, <1>3 DEF IsState, StepFields
<1> QED
  BY <1>4 DEF Added, SameRest, e, q, t

\* The timers that were there, after the redraw.
LEMMA StackStays ==
    ASSUME NEW q, NEW ns, NEW doc, NEW over, NEW time, Tidy(q, ns, doc, over, time), AreNodes(ns),
           NEW size \in Nat, Len(ns) <= size, version \in Nat, NEW W, waits \subseteq W
    PROVE  /\ Stack(q, JobsBehind(q, 0), size, time, version + 1, W)
           /\ \A j \in JobsBehind(q, 0) : j.id # version + 1 /\ j.node \in 1 .. Len(ns)
<1> DEFINE J == JobsBehind(q, 0)
           l == Len(ns)
           w == version + 1
<1>1. l \in Nat
  BY ListHas DEF AreNodes
<1>2. \A n \in 1 .. l : n \in 1 .. size
  BY <1>1
<1>3. \A i \in 1 .. version : i \in 1 .. w /\ i # w
  OBVIOUS
<1>4. IsList(q) /\ Ordered(q) /\ (\A e \in ToSet(q) : AxisTimer(e, l, time)) /\ Chart(ns, doc, over, {}, J, {}, time)
  BY DEF Tidy
<1> HIDE DEF J, l, w
<1>5. (\A j \in J : IsJob(j, l, time)) /\ \A i, j \in J : Alike(i, j) => i = j
  BY <1>4 DEF Chart, l
<1>6. \A j \in J : JobAt(j, size, time, w, W) /\ j.id # w /\ j.node \in 1 .. l
  BY <1>2, <1>3, <1>5 DEF IsJob, JobAt
<1>7. ASSUME NEW e \in ToSet(q) PROVE TimerAt(e, size, time, w, W)
  <2>1. AxisTimer(e, l, time)
    BY <1>4
  <2>2. 1 .. l \subseteq 1 .. size
    BY <1>2
  <2> QED
    BY <1>2, <1>3, <2>1, <2>2 DEF AxisTimer, TimerAt
<1>8. Stack(q, J, size, time, w, W)
  BY <1>4, <1>5, <1>6, <1>7 DEF Stack, J
<1> QED
  BY <1>6, <1>8 DEF J, l, w

SameLocks(ns, ms) ==
    /\ AreNodes(ms) /\ Len(ns) <= Len(ms)
    /\ \A n \in 1 .. Len(ms) : ms[n].lock = IF n \in 1 .. Len(ns) THEN ns[n].lock ELSE None

LEMMA LocksStay ==
    ASSUME NEW q, NEW ns, NEW doc, NEW over, NEW time, Tidy(q, ns, doc, over, time), AreNodes(ns),
           NEW ms, SameLocks(ns, ms), version \in Nat, NEW J,
           \A n : Counted(J, n) = Counted(JobsBehind(q, 0), n)
    PROVE  LocksAt(ms, J, version + 1)
<1> DEFINE K == JobsBehind(q, 0)
           l == Len(ns)
<1>1. l \in Nat
  BY ListHas DEF AreNodes
<1>2. Chart(ns, doc, over, {}, K, {}, time)
  BY DEF Tidy
<1> HIDE DEF K, l
<1>3. (\A j \in K : IsJob(j, l, time)) /\ LocksCount(ns, K)
  <2>1. {} \cup K = K
    OBVIOUS
  <2> QED
    BY <1>2, <2>1 DEF Chart, l
<1>4. \A a \in 0 .. version : a \in 0 .. version + 1
  OBVIOUS
<1>5. \A n : Counted(J, n) = Counted(K, n)
  BY DEF K
<1>6. ASSUME NEW n \in 1 .. Len(ms)
      PROVE  LET C == Counted(K, n)
             IN  /\ IsFiniteSet(C)
                 /\ C = {} => ms[n].lock = None
                 /\ C # {} => \E a \in 0 .. version + 1 : ms[n].lock = [active |-> a, count |-> Cardinality(C)]
  <2>1. CASE n \in 1 .. l
    <3>1. ms[n].lock = ns[n].lock
      BY <2>1 DEF SameLocks, l
    <3>2. /\ IsFiniteSet(Counted(K, n))
          /\ Counted(K, n) = {} => ns[n].lock = None
          /\ Counted(K, n) # {} =>
                \E a \in 0 .. version : ns[n].lock = [active |-> a, count |-> Cardinality(Counted(K, n))]
      BY <1>3, <2>1 DEF LocksCount, l
    <3> QED
      BY <1>4, <3>1, <3>2
  <2>2. CASE n \notin 1 .. l
    <3>1. ms[n].lock = None
      BY <2>2 DEF SameLocks, l
    <3>2. Counted(K, n) = {}
      BY <1>3, <2>2 DEF Counted, IsJob
    <3>3. IsFiniteSet({})
      BY FS_EmptySet
    <3> QED
      BY <3>1, <3>2, <3>3
  <2> QED
    BY <2>1, <2>2
<1> QED
  BY <1>5, <1>6 DEF LocksAt

\* Every node has a job that brings it where it belongs, or is there and has none.
WantedAt(ms, n, data) == ms[n].datum \in ToSet(data) \cup {Path}

GoalAt(ms, n, data, w) == IF WantedAt(ms, n, data) THEN Opaque(w) ELSE Faint(w)

Sets(ms, doc, J, data, w) ==
    \/ \A n \in ToSet(doc) : \E j \in J : /\ j.id = w /\ j.node = n /\ j.fn = "begin"
                                          /\ j.target = GoalAt(ms, n, data, w)
                                          /\ j.removes <=> ~WantedAt(ms, n, data)
    \/ J = {} /\ \A n \in ToSet(doc) : WantedAt(ms, n, data) /\ ms[n].look = Opaque(w) /\ ms[n].lock = None

LEMMA TidyNext ==
    ASSUME NEW q, NEW ms, NEW doc, NEW J, NEW w \in Nat, NEW W, NEW data,
           queue' = q, nodes' = ms, dom' = doc, version' = w, waits' = W, ticks' = data,
           Stack(q, J, Len(ms), now', w, W), AreNodes(ms), IsDocument(doc, ms), LocksAt(ms, J, w),
           W \subseteq {0} => AtOnce(ms, {}, J, {}),
           \A d \in ToSet(data) \cup {Path} : \E n \in ToSet(doc) : ms[n].datum = d,
           ~mixed' => Sets(ms, doc, J, data, w)
    PROVE  Tidy(queue, nodes, dom, late, now)'
<1> DEFINE time == now'
<1>1. /\ IsList(q) /\ Ordered(q) /\ JobsBehind(q, 0) = J
      /\ \A e \in ToSet(q) : TimerAt(e, Len(ms), time, w, W)
      /\ \A j \in J : JobAt(j, Len(ms), time, w, W)
      /\ \A i, j \in J : Alike(i, j) => i = j
  BY DEF Stack
<1>2. {} \cup J = J /\ {} \cap J = {}
  OBVIOUS
<1>3. (\A e \in ToSet(queue) : AxisTimer(e, Len(nodes), now))'
  BY <1>1 DEF AxisTimer, TimerAt
<1>4. (\A j \in {} \cup J : IsJob(j, Len(nodes), now))'
  BY <1>1, <1>2 DEF IsJob, JobAt
<1>5. LocksCount(nodes, J)'
  BY DEF LocksCount, LocksAt
<1>6. (NoDelays => AtOnce(nodes, {}, J, {}))'
  BY DEF NoDelays
<1>7. (version > 0 /\ ~late /\ ~mixed => Settles(nodes, dom, J))'
  <2> SUFFICES ASSUME ~mixed' PROVE Settles(nodes, dom, J)'
    OBVIOUS
  <2>1. CASE \A n \in ToSet(doc) : \E j \in J : /\ j.id = w /\ j.node = n /\ j.fn = "begin"
                                                /\ j.target = GoalAt(ms, n, data, w)
                                                /\ j.removes <=> ~WantedAt(ms, n, data)
    <3>1. ASSUME NEW n \in ToSet(doc) PROVE Pending(nodes, n, J)'
      BY <2>1 DEF Pending, Brings, Goal, Wanted, GoalAt, WantedAt
    <3> QED
      BY <3>1 DEF Settles
  <2>2. CASE J = {} /\ \A n \in ToSet(doc) : WantedAt(ms, n, data) /\ ms[n].look = Opaque(w) /\ ms[n].lock = None
    <3>1. ASSUME NEW n \in ToSet(doc) PROVE Reached(nodes, n, J)' /\ Wanted(nodes, n)'
      BY <2>2 DEF Reached, Goal, Wanted, WantedAt
    <3> QED
      BY <3>1 DEF Settles
  <2> QED
    BY <2>1, <2>2 DEF Sets
<1>8. Chart(nodes, dom, late, {}, J, {}, now)'
  BY <1>1, <1>2, <1>4, <1>5, <1>6, <1>7 DEF Chart
<1> QED
  BY <1>1, <1>3, <1>8 DEF Tidy

LEMMA RedrawAxisIsOk ==
    ASSUME Punctual(queue, dom, interval, frames, timeout, since, now), AxisOk,
           NEW data \in Ticks, NEW delay \in Delays, NEW duration \in Durations, RedrawAxis(data, delay, duration)
    PROVE  AxisInv'
<1> DEFINE drawn == Draw(Current, data, Stashed)
           w == version + 1
           W == waits \cup {delay}
           s == [Current EXCEPT !.nodes = drawn.nodes, !.dom = drawn.dom]
           s1 == Transition(s, w, drawn.exit, delay, duration, Faint(w), TRUE, now)
           s2 == Transition(s1, w, drawn.update, delay, duration, Opaque(w), FALSE, now)
           s3 == Transition(s2, w, drawn.path, delay, duration, Opaque(w), FALSE, now)
           ms == drawn.nodes
           doc == drawn.dom
           size == Len(ms)
           J == JobsBehind(queue, 0)
           g1 == Nodes(drawn.exit)
           g2 == Nodes(drawn.update)
           g3 == Nodes(drawn.path)
           e1 == BeginOf(w, g1, delay, duration, Faint(w), TRUE, now)
           e2 == BeginOf(w, g2, delay, duration, Opaque(w), FALSE, now)
           e3 == BeginOf(w, g3, delay, duration, Opaque(w), FALSE, now)
           q1 == <<e1>> \o queue
           q2 == <<e2>> \o q1
           q3 == <<e3>> \o q2
           J1 == J \cup JobsOf(e1)
           J2 == J1 \cup JobsOf(e2)
           J3 == J2 \cup JobsOf(e3)
<1>1. Become(s3) /\ now' = now /\ version' = w /\ ticks' = data /\ mixed' = FALSE /\ waits' = W
  BY DEF RedrawAxis, Redraws, Animated
<1>2. version \in Nat /\ Tidy(queue, nodes, dom, late, now) /\ now \in Nat /\ frames \in Nat
  BY DEF AxisOk, Punctual
<1>3. AreNodes(nodes) /\ IsDocument(dom, nodes)
  BY <1>2 DEF Tidy, Chart
<1>4. Drawing(Current, drawn, data)
  <2>1. AreNodes(Current.nodes) /\ IsDocument(Current.dom, Current.nodes)
    BY <1>3, CurrentHas
  <2>2. \E d \in {Draw(Current, data, Stashed)} : Drawing(Current, d, data)
    BY <2>1, DrawIs
  <2> QED
    BY <2>2
<1> HIDE DEF drawn
<1>5. /\ Extends(nodes, ms) /\ IsDocument(doc, ms)
      /\ \A d \in ToSet(data) \cup {Path} : \E n \in ToSet(doc) : ms[n].datum = d
      /\ Holds(drawn.exit, {n \in ToSet(doc) : ms[n].datum \notin ToSet(data) \cup {Path}})
      /\ Holds(drawn.update, {n \in ToSet(doc) : ms[n].datum \in ToSet(data)})
      /\ Holds(drawn.path, {n \in ToSet(doc) : ms[n].datum = Path})
  BY <1>4, CurrentHas DEF Drawing
<1>6. IsState(s) /\ s.queue = queue /\ s.nodes = ms /\ s.dom = doc /\ s.late = late
  <2>1. IsState(Current) /\ Current.queue = queue /\ Current.late = late
    BY CurrentIs, CurrentHas DEF Punctual
  <2>2. IsList(doc)
    BY <1>5 DEF IsDocument
  <2> QED
    BY <2>1, <2>2 DEF IsState, StepFields
<1> HIDE DEF s, e1, e2, e3, w
<1>7. IsState(s1) /\ SameRest(s, s1) /\ s1.queue = q1
  <2>1. Added(s, s1, e1)
    BY <1>6, TransitionAdds DEF e1
  <2> HIDE DEF s1
  <2> QED
    BY <1>6, <2>1 DEF Added
<1> HIDE DEF s1, q1
<1>8. IsState(s2) /\ SameRest(s1, s2) /\ s2.queue = q2
  <2>1. Added(s1, s2, e2)
    BY <1>7, TransitionAdds DEF e2
  <2> HIDE DEF s2
  <2> QED
    BY <1>7, <2>1 DEF Added
<1> HIDE DEF s2, q2
<1>9. IsState(s3) /\ SameRest(s2, s3) /\ s3.queue = q3
  <2>1. Added(s2, s3, e3)
    BY <1>8, TransitionAdds DEF e3
  <2> HIDE DEF s3
  <2> QED
    BY <1>8, <2>1 DEF Added
<1> HIDE DEF s3, q3
<1>10. queue' = q3 /\ nodes' = ms /\ dom' = doc /\ late' = late
  BY <1>1, <1>6, <1>7, <1>8, <1>9 DEF Become, SameRest
<1> HIDE DEF ms, doc, g1, g2, g3
<1>11. /\ AreNodes(ms) /\ size \in Nat /\ Len(nodes) <= size /\ ToSet(doc) \subseteq 1 .. size
       /\ delay \in Nat /\ duration \in Nat \ {0} /\ w \in Nat /\ 0 < w /\ delay \in W /\ waits \subseteq W
  <2>1. AreNodes(ms) /\ Len(nodes) <= size /\ ToSet(doc) \subseteq 1 .. size
    BY <1>5 DEF Extends, IsDocument
  <2>2. size \in Nat
    BY <2>1, ListHas DEF AreNodes
  <2>3. w \in Nat /\ 0 < w
    BY <1>2 DEF w
  <2>4. delay \in Nat /\ duration \in Nat \ {0}
    BY RedrawAssumption
  <2> QED
    BY <2>1, <2>2, <2>3, <2>4
<1>12. /\ IsList(g1) /\ Distinct(g1) /\ ToSet(g1) = {n \in ToSet(doc) : ms[n].datum \notin ToSet(data) \cup {Path}}
       /\ IsList(g2) /\ Distinct(g2) /\ ToSet(g2) = {n \in ToSet(doc) : ms[n].datum \in ToSet(data)}
       /\ IsList(g3) /\ Distinct(g3) /\ ToSet(g3) = {n \in ToSet(doc) : ms[n].datum = Path}
  BY <1>5 DEF Holds, g1, g2, g3
<1>13. Path \notin ToSet(data)
  BY DataAre
<1>14. /\ ToSet(g1) \subseteq 1 .. size /\ ToSet(g2) \subseteq 1 .. size /\ ToSet(g3) \subseteq 1 .. size
       /\ ToSet(g1) \cap ToSet(g2) = {} /\ ToSet(g1) \cap ToSet(g3) = {} /\ ToSet(g2) \cap ToSet(g3) = {}
  BY <1>11, <1>12, <1>13
<1> HIDE DEF J, W, size
<1>15. Stack(queue, J, size, now, w, W) /\ \A j \in J : j.id # w
  BY <1>2, <1>3, <1>11, StackStays DEF J, w
<1>16. Pushed(e1, queue, J, size, now, w, W, g1, Faint(w), TRUE)
  BY <1>2, <1>11, <1>12, <1>14, <1>15, PushBegin DEF e1
<1>17. /\ Stack(q1, J1, size, now, w, W) /\ (\A j \in JobsOf(e1) : BeginsFor(j, w, g1, Faint(w), TRUE))
       /\ \A n \in ToSet(g1) : \E j \in JobsOf(e1) : j.node = n
  BY <1>16 DEF Pushed, q1
<1>18. \A j \in J1 : j.id = w => j.node \notin ToSet(g2)
  BY <1>14, <1>15, <1>17 DEF BeginsFor
<1>19. \A j \in J1 : j.id = w => j.node \notin ToSet(g3)
  BY <1>14, <1>15, <1>17 DEF BeginsFor
<1> HIDE DEF J1
<1>20. Pushed(e2, q1, J1, size, now, w, W, g2, Opaque(w), FALSE)
  BY <1>2, <1>11, <1>12, <1>14, <1>17, <1>18, PushBegin DEF e2
<1>21. /\ Stack(q2, J2, size, now, w, W) /\ (\A j \in JobsOf(e2) : BeginsFor(j, w, g2, Opaque(w), FALSE))
       /\ \A n \in ToSet(g2) : \E j \in JobsOf(e2) : j.node = n
  BY <1>20 DEF Pushed, q2
<1>22. \A j \in J2 : j.id = w => j.node \notin ToSet(g3)
  BY <1>14, <1>19, <1>21 DEF BeginsFor
<1> HIDE DEF J2
<1>23. Pushed(e3, q2, J2, size, now, w, W, g3, Opaque(w), FALSE)
  BY <1>2, <1>11, <1>12, <1>14, <1>21, <1>22, PushBegin DEF e3
<1>24. /\ Stack(q3, J3, size, now, w, W) /\ (\A j \in JobsOf(e3) : BeginsFor(j, w, g3, Opaque(w), FALSE))
       /\ \A n \in ToSet(g3) : \E j \in JobsOf(e3) : j.node = n
  BY <1>23 DEF Pushed, q3
<1>25. J3 = J \cup JobsOf(e1) \cup JobsOf(e2) \cup JobsOf(e3)
  BY DEF J1, J2
<1> HIDE DEF J3
<1>26. \A j \in J3 : j \in J \/ j.fn = "begin"
  BY <1>17, <1>21, <1>24, <1>25 DEF BeginsFor
<1>27. \A n : Counted(J3, n) = Counted(J, n)
  <2>1. J \subseteq J3
    BY <1>25
  <2> QED
    BY <1>26, <2>1 DEF Counted
<1>28. LocksAt(ms, J3, w)
  <2>1. SameLocks(nodes, ms)
    BY <1>5 DEF Extends, SameLocks
  <2> QED
    BY <1>2, <1>3, <1>27, <2>1, LocksStay DEF J, w
<1>29. ASSUME W \subseteq {0} PROVE AtOnce(ms, {}, J3, {})
  <2>1. AtOnce(nodes, {}, J, {})
    BY <1>2, <1>11, <1>29 DEF Tidy, Chart, NoDelays, J
  <2> QED
    BY <1>26, <2>1 DEF AtOnce
<1>30. Sets(ms, doc, J3, data, w)
  <2> SUFFICES ASSUME NEW n \in ToSet(doc)
               PROVE  \E j \in J3 : /\ j.id = w /\ j.node = n /\ j.fn = "begin"
                                    /\ j.target = GoalAt(ms, n, data, w)
                                    /\ j.removes <=> ~WantedAt(ms, n, data)
    BY DEF Sets
  <2>1. CASE n \in ToSet(g1)
    <3>1. PICK j \in JobsOf(e1) : j.node = n /\ BeginsFor(j, w, g1, Faint(w), TRUE)
      BY <1>17, <2>1
    <3>2. ~WantedAt(ms, n, data) /\ GoalAt(ms, n, data, w) = Faint(w)
      BY <1>12, <2>1 DEF WantedAt, GoalAt
    <3> QED
      BY <1>25, <3>1, <3>2 DEF BeginsFor
  <2>2. CASE n \in ToSet(g2)
    <3>1. PICK j \in JobsOf(e2) : j.node = n /\ BeginsFor(j, w, g2, Opaque(w), FALSE)
      BY <1>21, <2>2
    <3>2. WantedAt(ms, n, data) /\ GoalAt(ms, n, data, w) = Opaque(w)
      BY <1>12, <2>2 DEF WantedAt, GoalAt
    <3> QED
      BY <1>25, <3>1, <3>2 DEF BeginsFor
  <2>3. CASE n \in ToSet(g3)
    <3>1. PICK j \in JobsOf(e3) : j.node = n /\ BeginsFor(j, w, g3, Opaque(w), FALSE)
      BY <1>24, <2>3
    <3>2. WantedAt(ms, n, data) /\ GoalAt(ms, n, data, w) = Opaque(w)
      BY <1>12, <2>3 DEF WantedAt, GoalAt
    <3> QED
      BY <1>25, <3>1, <3>2 DEF BeginsFor
  <2> QED
    BY <1>12, <2>1, <2>2, <2>3
<1>31. Tidy(queue, nodes, dom, late, now)'
  <2>1. Stack(q3, J3, Len(ms), now', w, W)
    BY <1>1, <1>24 DEF size
  <2> QED
    BY <1>1, <1>5, <1>10, <1>11, <1>28, <1>29, <1>30, <2>1, TidyNext
<1> QED
  BY <1>1, <1>11, <1>31 DEF AxisInv, AxisOk

\* What is shown at once.
Relook(ns, S, look) == [n \in DOMAIN ns |-> IF n \in S THEN [ns[n] EXCEPT !.look = look] ELSE ns[n]]

Relooked(ns, ms, S, look) ==
    /\ AreNodes(ms) /\ Len(ms) = Len(ns)
    /\ \A n \in 1 .. Len(ns) : /\ ms[n].datum = ns[n].datum /\ ms[n].lock = ns[n].lock
                               /\ n \in S => ms[n].look = look

LEMMA RelookIs ==
    ASSUME NEW ns, AreNodes(ns), NEW S, NEW look
    PROVE  Relooked(ns, Relook(ns, S, look), S, look)
<1> DEFINE ms == Relook(ns, S, look)
<1>0. ms = [n \in DOMAIN ns |-> IF n \in S THEN [ns[n] EXCEPT !.look = look] ELSE ns[n]]
  BY DEF Relook
<1> HIDE DEF ms
<1>1. Len(ns) \in Nat /\ DOMAIN ns = 1 .. Len(ns)
  BY ListHas DEF AreNodes
<1>2. ms = [n \in 1 .. Len(ns) |-> ms[n]]
  BY <1>0, <1>1
<1>3. IsList(ms) /\ Len(ms) = Len(ns)
  BY <1>1, <1>2, ListOf
<1>4. \A n \in 1 .. Len(ns) : DOMAIN ns[n] = {"datum", "lock", "look"}
  BY DEF AreNodes
<1>5. \A n \in 1 .. Len(ns) : /\ DOMAIN ms[n] = {"datum", "lock", "look"}
                              /\ ms[n].datum = ns[n].datum /\ ms[n].lock = ns[n].lock
                              /\ n \in S => ms[n].look = look
  BY <1>0, <1>1, <1>4
<1> QED
  BY <1>3, <1>5 DEF AreNodes, Relooked, ms

LEMMA RedrawAtOnceIsOk ==
    ASSUME AxisOk, now \in Nat, NEW data \in Ticks, RedrawAtOnce(data)
    PROVE  AxisInv'
<1> DEFINE drawn == Draw(Current, data, Stashed)
           w == version + 1
           shown == ToSet(Nodes(drawn.update)) \cup ToSet(drawn.path)
           ns == drawn.nodes
           doc == drawn.dom
           gone == ToSet(Nodes(drawn.exit))
           ms == <<>> \o [n \in DOMAIN ns |-> IF n \in shown THEN [ns[n] EXCEPT !.look = Opaque(w)] ELSE ns[n]]
           less == Without(doc, gone)
           J == JobsBehind(queue, 0)
<1>1. /\ nodes' = ms /\ dom' = less /\ queue' = queue /\ now' = now /\ late' = late
      /\ version' = w /\ ticks' = data /\ mixed' = (queue # <<>>) /\ waits' = waits
  <2>1. RedrawnAtOnce(Current, data).nodes = ms /\ RedrawnAtOnce(Current, data).dom = less
    BY DEF RedrawnAtOnce, Current
  <2> HIDE DEF ms, less
  <2> QED
    BY <2>1 DEF RedrawAtOnce, Redraws, timerVars
<1>2. version \in Nat /\ Tidy(queue, nodes, dom, late, now)
  BY DEF AxisOk
<1>3. AreNodes(nodes) /\ IsDocument(dom, nodes)
  BY <1>2 DEF Tidy, Chart
<1>4. Drawing(Current, drawn, data)
  <2>1. AreNodes(Current.nodes) /\ IsDocument(Current.dom, Current.nodes)
    BY <1>3, CurrentHas
  <2>2. \E d \in {Draw(Current, data, Stashed)} : Drawing(Current, d, data)
    BY <2>1, DrawIs
  <2> QED
    BY <2>2
<1> HIDE DEF drawn
<1>5. /\ Extends(nodes, ns) /\ IsDocument(doc, ns)
      /\ \A d \in ToSet(data) \cup {Path} : \E n \in ToSet(doc) : ns[n].datum = d
      /\ gone = {n \in ToSet(doc) : ns[n].datum \notin ToSet(data) \cup {Path}}
      /\ shown = {n \in ToSet(doc) : ns[n].datum \in ToSet(data) \cup {Path}}
  <2>1. /\ Extends(nodes, ns) /\ IsDocument(doc, ns)
        /\ \A d \in ToSet(data) \cup {Path} : \E n \in ToSet(doc) : ns[n].datum = d
        /\ Holds(drawn.exit, {n \in ToSet(doc) : ns[n].datum \notin ToSet(data) \cup {Path}})
        /\ Holds(drawn.update, {n \in ToSet(doc) : ns[n].datum \in ToSet(data)})
        /\ Holds(drawn.path, {n \in ToSet(doc) : ns[n].datum = Path})
        /\ ToSet(drawn.path) = ToSet(Nodes(drawn.path))
    BY <1>4, CurrentHas DEF Drawing
  <2>2. /\ ToSet(Nodes(drawn.update)) = {n \in ToSet(doc) : ns[n].datum \in ToSet(data)}
        /\ ToSet(drawn.path) = {n \in ToSet(doc) : ns[n].datum = Path}
        /\ gone = {n \in ToSet(doc) : ns[n].datum \notin ToSet(data) \cup {Path}}
    BY <2>1 DEF Holds
  <2> QED
    BY <2>1, <2>2
<1> HIDE DEF ns, doc, gone, shown, w
<1>6. AreNodes(ns) /\ Len(nodes) <= Len(ns) /\ ToSet(doc) \subseteq 1 .. Len(ns)
  BY <1>5 DEF Extends, IsDocument
<1>7. /\ AreNodes(ms) /\ Len(ms) = Len(ns)
      /\ \A n \in 1 .. Len(ns) : /\ ms[n].datum = ns[n].datum /\ ms[n].lock = ns[n].lock
                                 /\ n \in shown => ms[n].look = Opaque(w)
  <2>1. ms = Relook(ns, shown, Opaque(w))
    <3> DEFINE rs == Relook(ns, shown, Opaque(w))
    <3>1. ms = <<>> \o rs
      BY DEF Relook
    <3>2. IsList(rs)
      BY <1>6, RelookIs DEF Relooked, AreNodes
    <3> HIDE DEF rs, ms
    <3>3. PICK E : rs \in Seq(E)
      BY <3>2 DEF IsList
    <3>4. <<>> \o rs = rs
      BY <3>3, ConcatEmptySeq
    <3> QED
      BY <3>1, <3>4 DEF rs
  <2> HIDE DEF ms
  <2>2. Relooked(ns, ms, shown, Opaque(w))
    BY <1>6, <2>1, RelookIs
  <2> QED
    BY <2>2 DEF Relooked
<1> HIDE DEF ms
<1>8. IsDocument(less, ns) /\ ToSet(less) = shown
  <2>1. IsDocument(less, ns) /\ ToSet(less) = ToSet(doc) \ gone
    BY <1>5, LessDocument
  <2> QED
    BY <1>5, <2>1
<1> HIDE DEF less
<1>9. shown \subseteq 1 .. Len(ns)
  BY <1>5, <1>6
<1>10. IsDocument(less, ms)
  BY <1>7, <1>8, <1>9 DEF IsDocument
<1>11. \A n \in ToSet(less) : ms[n].datum \in ToSet(data) \cup {Path} /\ ms[n].look = Opaque(w)
  BY <1>5, <1>7, <1>8, <1>9
<1>12. \A d \in ToSet(data) \cup {Path} : \E n \in ToSet(less) : ms[n].datum = d
  <2> SUFFICES ASSUME NEW d \in ToSet(data) \cup {Path} PROVE \E n \in ToSet(less) : ms[n].datum = d
    OBVIOUS
  <2>1. PICK n \in ToSet(doc) : ns[n].datum = d
    BY <1>5
  <2>2. n \in shown
    BY <1>5, <2>1
  <2> QED
    BY <1>7, <1>8, <1>9, <2>1, <2>2
<1>13. Len(ms) \in Nat /\ Len(nodes) <= Len(ms)
  <2>1. Len(ms) \in Nat
    BY <1>7, ListHas DEF AreNodes
  <2> QED
    BY <1>6, <1>7, <2>1
<1>14. Stack(queue, J, Len(ms), now, w, waits)
  BY <1>2, <1>3, <1>13, StackStays DEF w
<1>15. LocksAt(ms, J, w)
  <2>1. SameLocks(nodes, ms)
    BY <1>5, <1>6, <1>7 DEF Extends, SameLocks
  <2> QED
    BY <1>2, <1>3, <2>1, LocksStay DEF w
<1>16. ASSUME waits \subseteq {0} PROVE AtOnce(ms, {}, J, {})
  <2>1. AtOnce(nodes, {}, J, {})
    BY <1>2, <1>16 DEF Tidy, Chart, NoDelays
  <2> QED
    BY <2>1 DEF AtOnce
<1>17. ASSUME ~mixed' PROVE Sets(ms, less, J, data, w)
  <2>1. J = {}
    <3>1. queue = <<>>
      BY <1>1, <1>17
    <3> QED
      BY <3>1, EmptyList DEF JobsBehind
  <2>2. \A n \in ToSet(less) : Counted(J, n) = {} /\ n \in 1 .. Len(ms)
    BY <1>7, <1>8, <1>9, <2>1 DEF Counted
  <2>3. \A n \in ToSet(less) : ms[n].lock = None
    BY <1>15, <2>2 DEF LocksAt
  <2> QED
    BY <1>11, <2>1, <2>3 DEF Sets, WantedAt
<1> HIDE DEF J
<1>18. w \in Nat
  BY <1>2 DEF w
<1>19. Tidy(queue, nodes, dom, late, now)'
  <2>1. Stack(queue, J, Len(ms), now', w, waits)
    BY <1>1, <1>14
  <2> QED
    BY <1>1, <1>7, <1>10, <1>12, <1>15, <1>16, <1>17, <1>18, <2>1, TidyNext
<1> QED
  BY <1>1, <1>18, <1>19 DEF AxisInv, AxisOk

LEMMA AxisInvNext == PunctualInv /\ AxisInv /\ [AxisNext]_axisVars => AxisInv'
<1> SUFFICES ASSUME PunctualInv, AxisInv, [AxisNext]_axisVars PROVE AxisInv'
  OBVIOUS
<1>1. CASE UNCHANGED axisVars
  <2>1. UNCHANGED chartVars /\ UNCHANGED <<now, queue, nodes, dom, late, thrown>>
    BY <1>1 DEF axisVars, timerVars
  <2>2. CASE thrown \/ midway
    BY <2>1, <2>2 DEF AxisInv, chartVars
  <2>3. CASE ~thrown /\ ~midway
    <3>1. version \in Nat /\ ticks \in Ticks \cup {<<>>} /\ Tidy(queue, nodes, dom, late, now)
      BY <2>3 DEF AxisInv, AxisOk
    <3>2. Tidy(queue', nodes', dom', late', now)
      BY <2>1, <3>1
    <3> QED
      BY <2>1, <3>1, <3>2, BecomesOk
  <2> QED
    BY <2>2, <2>3
<1>2. CASE AxisNext
  <2>1. ~thrown
    BY <1>2 DEF AxisNext
  <2>0. SUFFICES ASSUME ~midway' PROVE AxisInv'
    BY DEF AxisInv
  <2>9. ~midway /\ ~\E data \in Ticks : RedrawInStep(data)
    BY <1>2, <2>0 DEF AxisNext, RedrawAxis, RedrawAtOnce, RedrawInStep, chartVars
  <2>2. Punctual(queue, dom, interval, frames, timeout, since, now) /\ AxisOk /\ now \in Nat
    BY <2>1, <2>9 DEF PunctualInv, AxisInv, Punctual
  <2>3. ASSUME NEW data \in Ticks, NEW delay \in Delays, NEW duration \in Durations,
               RedrawAxis(data, delay, duration)
        PROVE  AxisInv'
    BY <2>2, <2>3, RedrawAxisIsOk
  <2>4. ASSUME NEW data \in Ticks, RedrawAtOnce(data) PROVE AxisInv'
    BY <2>2, <2>4, RedrawAtOnceIsOk
  <2>5. CASE Elapse /\ UNCHANGED chartVars
    BY <2>2, <2>5, ElapseIsOk
  <2>6. CASE (Frame \/ Timeout) /\ UNCHANGED chartVars
    BY <2>2, <2>6, FrameIsOk
  <2>7. CASE Flush /\ UNCHANGED chartVars
    BY <2>2, <2>7, FlushIsOk
  <2>8. ASSUME NEW i \in DOMAIN queue, FrameThrows(i) PROVE AxisInv'
    BY <2>8 DEF FrameThrows, AxisInv
  <2> QED
    BY <1>2, <2>3, <2>4, <2>5, <2>6, <2>7, <2>8, <2>9 DEF AxisNext
<1> QED
  BY <1>1, <1>2

-----------------------------------------------------------------------------
\* A list of different elements has as many as it is long.
LEMMA ListCounts ==
    ASSUME NEW m \in Nat, NEW g, g = [i \in 1 .. m |-> g[i]], \A i, k \in 1 .. m : g[i] = g[k] => i = k
    PROVE  IsFiniteSet(ToSet(g)) /\ Cardinality(ToSet(g)) = m
<1> DEFINE T == ToSet(g)
<1>1. DOMAIN g = 1 .. m
  OBVIOUS
<1>2. T = {g[i] : i \in 1 .. m}
  BY <1>1 DEF ToSet
<1> HIDE DEF T
<1>3. g \in [1 .. m -> T]
  BY <1>2
<1>4. g \in Bijection(1 .. m, T)
  BY <1>1, <1>2, <1>3 DEF Bijection, Injection, Surjection, IsInjective
<1>5. ExistsBijection(1 .. m, T)
  BY <1>4 DEF ExistsBijection
<1>6. Cardinality(T) = m
  BY <1>5, FS_CountingElements
<1>7. IsFiniteSet(T)
  BY <1>5, FS_NatBijection
<1> QED
  BY <1>6, <1>7 DEF T

\* What is left when nothing is pending any more.
LEMMA AxisRests ==
    ASSUME AxisOk, queue = <<>>, version > 0, ~late, ~mixed
    PROVE  /\ IsList(dom) /\ Distinct(dom)
           /\ \A m, n \in ToSet(dom) : nodes[m].datum = nodes[n].datum => m = n
           /\ \A n \in ToSet(dom) : nodes[n].look = Goal(nodes, n)
           /\ \A d \in ToSet(ticks) \cup {Path} : \E n \in ToSet(dom) : nodes[n].datum = d
           /\ NoDelays => \A n \in ToSet(dom) : Wanted(nodes, n)
<1> DEFINE J == JobsBehind(queue, 0)
<1>1. J = {}
  BY EmptyList DEF JobsBehind
<1>2. Chart(nodes, dom, late, {}, J, {}, now)
  BY DEF AxisOk, Tidy
<1> HIDE DEF J
<1>3. IsDocument(dom, nodes) /\ Settles(nodes, dom, {})
  <2>1. {} \cup J = {}
    BY <1>1
  <2> QED
    BY <1>2, <2>1 DEF Chart
<1>4. \A n : ~Pending(nodes, n, {})
  BY DEF Pending
<1>5. \A n \in ToSet(dom) : Reached(nodes, n, {})
  BY <1>3, <1>4 DEF Settles
<1>6. \A n \in ToSet(dom) : nodes[n].look = Goal(nodes, n)
  BY <1>5 DEF Reached
<1>7. /\ \A d \in ToSet(ticks) \cup {Path} : \E n \in ToSet(dom) : nodes[n].datum = d
      /\ NoDelays => \A n \in ToSet(dom) : Wanted(nodes, n)
  BY <1>3, <1>4 DEF Settles
<1> QED
  BY <1>3, <1>6, <1>7 DEF IsDocument

LEMMA AxisHasSettled == AxisInv => AxisSettles
<1> SUFFICES ASSUME AxisInv, queue = <<>>, version > 0, ~thrown, ~late, ~mixed, ~midway
             PROVE  LET shown == Among(dom, {n \in ToSet(dom) : nodes[n].look = Opaque(version)})
                    IN  /\ {nodes[n].datum : n \in ToSet(shown)} = ToSet(ticks) \cup {Path}
                        /\ Len(shown) = Len(ticks) + 1
                        /\ \A n \in ToSet(dom) \ ToSet(shown) :
                              nodes[n].look.opacity = "faint" /\ waits # {0}
  BY DEF AxisSettles
<1> DEFINE S == {n \in ToSet(dom) : nodes[n].look = Opaque(version)}
           shown == Among(dom, S)
           l == Len(shown)
           m == Len(ticks)
<1>1. AxisOk
  BY DEF AxisInv
<1>2. /\ IsList(dom) /\ Distinct(dom)
      /\ \A i, n \in ToSet(dom) : nodes[i].datum = nodes[n].datum => i = n
      /\ \A n \in ToSet(dom) : nodes[n].look = Goal(nodes, n)
      /\ \A d \in ToSet(ticks) \cup {Path} : \E n \in ToSet(dom) : nodes[n].datum = d
      /\ NoDelays => \A n \in ToSet(dom) : Wanted(nodes, n)
  BY <1>1, AxisRests
<1>3. /\ \A n \in ToSet(dom) : nodes[n].look = Opaque(version) <=> Wanted(nodes, n)
      /\ \A n \in ToSet(dom) : ~Wanted(nodes, n) => nodes[n].look.opacity = "faint"
  <2>1. Opaque(version) # Faint(version) /\ Faint(version).opacity = "faint"
    <3>1. Opaque(version).opacity = "full" /\ Faint(version).opacity = "faint"
      BY DEF Opaque, Faint
    <3> QED
      BY <3>1
  <2> QED
    BY <1>2, <2>1 DEF Goal
<1>4. S = {n \in ToSet(dom) : Wanted(nodes, n)}
  BY <1>3
<1> HIDE DEF S
<1>5. IsList(shown) /\ ToSet(shown) = S /\ Distinct(shown)
  <2>1. DistinctIn(dom, S)
    BY <1>2 DEF Distinct, DistinctIn
  <2>2. IsList(shown) /\ ToSet(shown) = ToSet(dom) \cap S /\ Distinct(shown)
    BY <1>2, <2>1, AmongHas
  <2> QED
    BY <1>4, <2>2
<1> HIDE DEF shown
<1>6. {nodes[n].datum : n \in S} = ToSet(ticks) \cup {Path}
  <2>1. ASSUME NEW d \in ToSet(ticks) \cup {Path} PROVE \E n \in S : nodes[n].datum = d
    <3>1. PICK n \in ToSet(dom) : nodes[n].datum = d
      BY <1>2
    <3> QED
      BY <1>4, <3>1 DEF Wanted
  <2>2. \A n \in S : nodes[n].datum \in ToSet(ticks) \cup {Path}
    BY <1>4 DEF Wanted
  <2> QED
    BY <2>1, <2>2
<1>7. IsFiniteSet(ToSet(ticks) \cup {Path}) /\ Cardinality(ToSet(ticks) \cup {Path}) = l
  <2> DEFINE g == [i \in 1 .. l |-> nodes[shown[i]].datum]
  <2>1. l \in Nat /\ DOMAIN shown = 1 .. l /\ S = {shown[i] : i \in 1 .. l}
    BY <1>5, ListHas
  <2>2. ToSet(g) = ToSet(ticks) \cup {Path}
    <3>1. ToSet(g) = {nodes[shown[i]].datum : i \in 1 .. l}
      BY DEF ToSet
    <3> HIDE DEF g
    <3> QED
      BY <1>6, <2>1, <3>1
  <2>3. \A i, k \in 1 .. l : g[i] = g[k] => i = k
    <3> SUFFICES ASSUME NEW i \in 1 .. l, NEW k \in 1 .. l, nodes[shown[i]].datum = nodes[shown[k]].datum PROVE i = k
      OBVIOUS
    <3>1. shown[i] \in ToSet(dom) /\ shown[k] \in ToSet(dom)
      BY <1>4, <2>1
    <3>2. shown[i] = shown[k]
      BY <1>2, <3>1
    <3> QED
      BY <1>5, <2>1, <3>2 DEF Distinct
  <2>4. g = [i \in 1 .. l |-> g[i]]
    OBVIOUS
  <2> HIDE DEF g, l
  <2> QED
    BY <2>1, <2>2, <2>3, <2>4, ListCounts
<1>8. m \in Nat /\ IsFiniteSet(ToSet(ticks)) /\ Cardinality(ToSet(ticks)) = m /\ Path \notin ToSet(ticks)
  <2>1. /\ DOMAIN ticks = 1 .. m /\ m \in Nat /\ Path \notin ToSet(ticks)
        /\ \A i, k \in 1 .. m : ticks[i] = ticks[k] => i = k
    <3>1. CASE ticks \in Ticks
      BY <3>1, DataAre DEF AreData, Distinct
    <3>2. CASE ticks = <<>>
      <4>1. DOMAIN ticks = 1 .. m /\ m = 0
        BY <3>2, EmptyList
      <4> QED
        BY <3>2, <4>1, EmptyList
    <3> QED
      BY <1>1, <3>1, <3>2 DEF AxisOk
  <2> DEFINE g == [i \in 1 .. m |-> ticks[i]]
  <2>2. ToSet(g) = ToSet(ticks)
    BY <2>1 DEF ToSet
  <2>3. g = [i \in 1 .. m |-> g[i]] /\ \A i, k \in 1 .. m : g[i] = g[k] => i = k
    BY <2>1
  <2> HIDE DEF g, m
  <2>4. IsFiniteSet(ToSet(g)) /\ Cardinality(ToSet(g)) = m
    BY <2>1, <2>3, ListCounts
  <2> QED
    BY <2>1, <2>2, <2>4
<1>9. l = m + 1
  BY <1>7, <1>8, FS_AddElement
<1>10. ASSUME NEW n \in ToSet(dom) \ ToSet(shown) PROVE nodes[n].look.opacity = "faint" /\ waits # {0}
  <2>1. ~Wanted(nodes, n)
    BY <1>4, <1>5
  <2>2. waits # {0}
    BY <1>2, <2>1 DEF NoDelays
  <2> QED
    BY <1>3, <2>1, <2>2
<1> QED
  BY <1>5, <1>6, <1>9, <1>10 DEF shown, S

(***************************************************************************)
(* When the last timer is gone, the axis shows the ticks of the last       *)
(* redraw, each once, opaque and at their place in its scale, whatever     *)
(* transitions of at least one unit of time it superseded, if no redraw    *)
(* came in the middle of a step or at once while others ran, no transition *)
(* was over when it began, and nothing threw (d3.js:1684-1788, 2024-2061,  *)
(* 3857-3977).                                                             *)
(***************************************************************************)
THEOREM AxisComesToRest == AxisSpec => []AxisSettles
<1>1. AxisInit => PunctualInv /\ AxisInv
  BY PunctualInvInit, AxisInvInit
<1>2. PunctualInv /\ AxisInv /\ [AxisNext]_axisVars => PunctualInv' /\ AxisInv'
  BY PunctualInvNext, AxisInvNext
<1> QED
  BY <1>1, <1>2, AxisHasSettled, PTL DEF AxisSpec
=============================================================================
