------------------------------- MODULE D3Proofs -------------------------------
(***************************************************************************)
(* Proofs about pages of the chart library, for all of the constants: the  *)
(* binary searches, drags, events, brushes, word clouds, zooms and ordinal *)
(* scales.                                                                 *)
(***************************************************************************)
EXTENDS D3AxisProofs, D3Drag, D3Dispatch, D3Brush, WordCloud, D3Bisect, D3Zoom, D3Ordinal,
        WellFoundedInduction, FiniteSetTheorems, TLAPS

-----------------------------------------------------------------------------
(***************************************************************************)
(* What the binary searches return, for every sorted array of integers     *)
(* that is not so long that the sum of two indices overflows.              *)
(***************************************************************************)
\* What lies outside of the part that is left is on its side.
BInv ==
    /\ a \in Arrays /\ x \in Values /\ right \in BOOLEAN
    /\ from \in 0 .. Len(a) /\ to \in from .. Len(a)
    /\ lo \in from .. to /\ hi \in lo .. to
    /\ \A i \in from .. lo - 1 : IsLeft(i)
    /\ \A i \in hi .. to - 1 : ~IsLeft(i)

\* The middle lies in the part that is left.
LEMMA MidBetween == BInv /\ lo < hi => Mid \in lo .. hi - 1
<1>1. ASSUME BInv, lo < hi PROVE Mid \in lo .. hi - 1
  <2>1. Len(a) \in Nat /\ 2 * Len(a) <= Half /\ Half \in Nat
    BY <1>1, BisectAssumption DEF BInv
  <2>2. /\ from \in 0 .. Len(a) /\ to \in from .. Len(a)
        /\ lo \in from .. to /\ hi \in lo .. to
    BY <1>1 DEF BInv
  <2>3. lo \in Nat /\ hi \in Nat /\ hi <= Len(a)
    BY <2>1, <2>2
  <2>4. lo + hi < Half
    BY <1>1, <2>1, <2>3
  <2> QED
    BY <1>1, <2>3, <2>4 DEF Mid
<1> QED
  BY <1>1

\* In a sorted array what is left of an element of the left half is in it too, and
\* the same to the right.
LEMMA SidesAreClosed ==
    ASSUME BInv, NEW i \in 0 .. Len(a) - 1, NEW j \in 0 .. Len(a) - 1, i <= j
    PROVE  (IsLeft(j) => IsLeft(i)) /\ (~IsLeft(i) => ~IsLeft(j))
<1>1. a \in Seq(Int) /\ Ascending(a) /\ x \in Int
  BY BisectAssumption DEF BInv
<1>2. i + 1 \in 1 .. Len(a) /\ j + 1 \in 1 .. Len(a) /\ i + 1 <= j + 1
  BY <1>1
<1>3. a[i + 1] \in Int /\ a[j + 1] \in Int
  BY <1>1, <1>2
<1>4. a[i + 1] <= a[j + 1]
  BY <1>1, <1>2 DEF Ascending
<1> QED
  BY <1>1, <1>3, <1>4 DEF IsLeft

\* The loop begins with all of the part to search.
LEMMA BInvInit == BisectInit => BInv
<1> SUFFICES ASSUME BisectInit PROVE BInv
  OBVIOUS
<1>1. Len(a) \in Nat
  BY BisectAssumption DEF BisectInit
<1> QED
  BY <1>1 DEF BisectInit, BInv

\* A turn keeps it: the half that is left out is on the side of the middle.
LEMMA BInvTurn == BInv /\ [Turn]_bisectVars => BInv'
<1> SUFFICES ASSUME BInv, [Turn]_bisectVars PROVE BInv'
  OBVIOUS
<1>1. CASE Turn
  <2>1. Mid \in lo .. hi - 1
    BY <1>1, MidBetween DEF Turn
  <2>2. /\ Len(a) \in Nat
        /\ from \in 0 .. Len(a) /\ to \in from .. Len(a)
        /\ lo \in from .. to /\ hi \in lo .. to
    BY BisectAssumption DEF BInv
  <2>3. Mid \in 0 .. Len(a) - 1 /\ Mid \in Int
    BY <2>1, <2>2
  <2>4. a' = a /\ x' = x /\ right' = right /\ from' = from /\ to' = to
    BY <1>1 DEF Turn
  <2>5. \A i : IsLeft(i)' <=> IsLeft(i)
    BY <2>4 DEF IsLeft
  <2>6. CASE IsLeft(Mid)
    <3>1. lo' = Mid + 1 /\ hi' = hi
      BY <1>1, <2>6 DEF Turn
    <3>2. \A i \in from .. Mid : IsLeft(i)
      <4>1. ASSUME NEW i \in from .. Mid PROVE IsLeft(i)
        <5>1. i \in 0 .. Len(a) - 1 /\ i <= Mid
          BY <2>2, <2>3, <4>1
        <5> QED
          BY <5>1, <2>3, <2>6, SidesAreClosed
      <4> QED
        BY <4>1
    <3>3. \A i \in from .. lo' - 1 : IsLeft(i)
      BY <2>2, <2>3, <3>1, <3>2
    <3>4. lo' \in from .. to /\ hi' \in lo' .. to
      BY <2>1, <2>2, <2>3, <3>1
    <3> QED
      BY <2>2, <2>4, <2>5, <3>1, <3>3, <3>4 DEF BInv
  <2>7. CASE ~IsLeft(Mid)
    <3>1. lo' = lo /\ hi' = Mid
      BY <1>1, <2>7 DEF Turn
    <3>2. \A i \in Mid .. to - 1 : ~IsLeft(i)
      <4>1. ASSUME NEW i \in Mid .. to - 1 PROVE ~IsLeft(i)
        <5>1. i \in 0 .. Len(a) - 1 /\ Mid <= i
          BY <2>2, <2>3, <4>1
        <5> QED
          BY <5>1, <2>3, <2>7, SidesAreClosed
      <4> QED
        BY <4>1
    <3>3. lo' \in from .. to /\ hi' \in lo' .. to
      BY <2>1, <2>2, <2>3, <3>1
    <3> QED
      BY <2>2, <2>4, <2>5, <3>1, <3>2, <3>3 DEF BInv
  <2> QED
    BY <2>6, <2>7
<1>2. CASE UNCHANGED bisectVars
  BY <1>2 DEF BInv, IsLeft, bisectVars
<1> QED
  BY <1>1, <1>2

\* It holds in every turn of every search (d3.js:204-231).
THEOREM BisectInvariant == BisectSpec => []BInv
<1> QED
  BY BInvInit, BInvTurn, PTL DEF BisectSpec

(***************************************************************************)
(* Both searches return what their comments say, whatever the array, the   *)
(* value and the part that is searched (d3.js:201-203, 218-220).           *)
(***************************************************************************)
THEOREM BisectPartitions == BisectSpec => []Partitions
<1>1. BInv => Partitions
  <2> SUFFICES ASSUME BInv, lo >= hi PROVE Partitions
    BY DEF Partitions
  <2>1. /\ Len(a) \in Nat /\ a \in Seq(Int) /\ x \in Int
        /\ from \in 0 .. Len(a) /\ to \in from .. Len(a)
        /\ lo \in from .. to /\ hi \in lo .. to
    BY BisectAssumption DEF BInv
  <2>2. lo = hi
    BY <2>1
  <2>3. ASSUME NEW i \in from .. lo - 1 PROVE IF right THEN a[i + 1] <= x ELSE a[i + 1] < x
    <3>1. IsLeft(i) /\ a[i + 1] \in Int
      BY <2>1 DEF BInv
    <3> QED
      BY <2>1, <3>1 DEF IsLeft
  <2>4. ASSUME NEW i \in lo .. to - 1 PROVE IF right THEN a[i + 1] > x ELSE a[i + 1] >= x
    <3>1. ~IsLeft(i) /\ a[i + 1] \in Int
      BY <2>1, <2>2 DEF BInv
    <3> QED
      BY <2>1, <3>1 DEF IsLeft
  <2> QED
    BY <2>1, <2>3, <2>4 DEF Partitions
<1> QED
  BY <1>1, BisectInvariant, PTL

(***************************************************************************)
(* Every turn of a search leaves at most half of what there was to search  *)
(* (d3.js:207-211, 225-229).                                               *)
(***************************************************************************)
THEOREM BisectHalves == BisectSpec => LessThanHalf
<1>1. BInv /\ [Turn]_bisectVars => [0 <= hi' - lo' /\ 2 * (hi' - lo') <= hi - lo]_bisectVars
  <2> SUFFICES ASSUME BInv, Turn PROVE 0 <= hi' - lo' /\ 2 * (hi' - lo') <= hi - lo
    OBVIOUS
  <2>1. Mid \in lo .. hi - 1
    BY MidBetween DEF Turn
  <2>2. lo \in Nat /\ hi \in Nat /\ lo < hi /\ lo + hi < Half
    BY BisectAssumption DEF BInv, Turn
  <2>3. 2 * Mid <= lo + hi /\ lo + hi <= 2 * Mid + 1 /\ Mid \in Nat
    BY <2>2 DEF Mid
  <2>4. CASE IsLeft(Mid)
    BY <2>1, <2>2, <2>3, <2>4 DEF Turn
  <2>5. CASE ~IsLeft(Mid)
    BY <2>1, <2>2, <2>3, <2>5 DEF Turn
  <2> QED
    BY <2>4, <2>5
<1> QED
  BY <1>1, BisectInvariant, PTL DEF BisectSpec, LessThanHalf

-----------------------------------------------------------------------------
(***************************************************************************)
(* Drags: what the page's variables say of the press that is not yet over. *)
(***************************************************************************)
DragTyped ==
    /\ moved \in BOOLEAN /\ whole \in BOOLEAN
    /\ target \in Elements \cup {Nobody} /\ removed \subseteq Elements

\* A target is what is pressed; nothing moved once it is lost and no click is next;
\* what is pressed without being a target cannot move.
DragInv ==
    /\ DragTyped
    /\ ~stuck =>
           /\ target # Nobody => /\ pressed = target /\ clicking = Nobody
                                 /\ target \notin removed => moved = whole
           /\ target = Nobody /\ clicking = Nobody => ~moved
           /\ clicking # Nobody => pressed = Nobody /\ target = Nobody /\ moved = whole
           /\ target = Nobody /\ pressed # Nobody =>
                  pressed \in removed \/ (pressed = Elsewhere /\ ~whole)

LEMMA DragTypedNext == DragTyped /\ [DragNext]_dragVars => DragTyped'
<1> SUFFICES ASSUME DragTyped, [DragNext]_dragVars PROVE DragTyped'
  OBVIOUS
<1>1. \A p : (IsPixel(p) \in BOOLEAN)
  BY DEF IsPixel
<1> QED
  BY <1>1, Zenon
     DEF DragTyped, DragNext, PressElsewhere, DragClick, ReleaseElsewhere, RemoveElement, DragMove,
         DragDown, DragUp, DragUpThrows, GiveUp, Report, MovedBy, Release, dragVars, mouseVars

LEMMA DragInvNext == DragInv /\ [DragNext]_dragVars => DragInv'
<1> SUFFICES ASSUME DragInv, [DragNext]_dragVars PROVE DragInv'
  OBVIOUS
<1>0. DragTyped /\ DragTyped'
  BY DragTypedNext DEF DragInv
<1>1. CASE DragNext
  <2>0. /\ ~stuck
        /\ Elsewhere \notin Elements /\ Nobody \notin Elements /\ Nobody # Elsewhere
    BY <1>1, PlacesAssumption DEF DragNext
  <2>1. CASE PressElsewhere
    BY <1>0, <2>0, <2>1 DEF PressElsewhere, DragInv, DragTyped
  <2>2. CASE DragClick
    BY <1>0, <2>0, <2>2 DEF DragClick, DragInv, DragTyped
  <2>3. ASSUME NEW e \in Things, ReleaseElsewhere(e) PROVE DragInv'
    BY <1>0, <2>0, <2>3 DEF ReleaseElsewhere, Release, DragInv, DragTyped, Things
  <2>4. ASSUME NEW e \in Elements, RemoveElement(e) PROVE DragInv'
    BY <1>0, <2>0, <2>4 DEF RemoveElement, DragInv, DragTyped
  <2>5. ASSUME NEW p \in Places, DragMove(p) PROVE DragInv'
    BY <1>0, <2>0, <2>5 DEF DragMove, GiveUp, Report, MovedBy, mouseVars, DragInv, DragTyped
  <2>6. ASSUME NEW p \in Places, NEW e \in Elements, DragDown(e, p) PROVE DragInv'
    BY <1>0, <2>0, <2>6 DEF DragDown, DragInv, DragTyped
  <2>7. ASSUME NEW p \in Places, NEW e \in Things, DragUp(p, e) PROVE DragInv'
    BY <1>0, <2>0, <2>7 DEF DragUp, GiveUp, Release, Report, MovedBy, DragInv, DragTyped, Things
  <2>8. ASSUME NEW p \in Places, NEW e \in Things, DragUpThrows(p, e) PROVE DragInv'
    BY <1>0, <2>8 DEF DragUpThrows, DragInv
  <2> QED
    BY <1>1, <2>1, <2>2, <2>3, <2>4, <2>5, <2>6, <2>7, <2>8 DEF DragNext
<1>2. CASE UNCHANGED dragVars
  BY <1>2 DEF dragVars, mouseVars, DragInv, DragTyped
<1> QED
  BY <1>1, <1>2

(***************************************************************************)
(* Whatever is pressed, moved, released and removed, for any elements and  *)
(* any places of the mouse: a click is cancelled exactly when it ends a    *)
(* drag that moved (d3.js:4495-4519).                                      *)
(***************************************************************************)
THEOREM DragsCancelTheirClicks == DragSpec => []ClickAfterDragIsCancelled
<1>1. DragInit => DragInv
  BY DEF DragInit, DragInv, DragTyped
<1>2. DragInv => ClickAfterDragIsCancelled
  BY DEF DragInv, ClickAfterDragIsCancelled
<1> QED
  BY <1>1, <1>2, DragInvNext, PTL DEF DragSpec

-----------------------------------------------------------------------------
(***************************************************************************)
(* Events: those that are being dispatched are numbered by their depth.    *)
(***************************************************************************)
EventFields == {"z", "i", "n", "inside", "own", "saved", "atStart", "called"}

IsEvent(e, depth) == DOMAIN e = EventFields /\ e.own = depth /\ e.saved = depth - 1

EventInv ==
    /\ \E E : stack \in Seq(E)
    /\ \A d \in 1 .. Len(stack) : IsEvent(stack[d], d)
    /\ event = Len(stack)

LEMMA EventPushed ==
    ASSUME EventInv, NEW e, IsEvent(e, Len(stack) + 1),
           stack' = Append(stack, e), event' = Len(stack) + 1
    PROVE  EventInv'
<1>1. PICK E : stack \in Seq(E)
  BY DEF EventInv
<1>2. /\ stack' \in Seq(E \cup {e}) /\ Len(stack') = Len(stack) + 1 /\ Len(stack) \in Nat
      /\ stack'[Len(stack) + 1] = e
      /\ \A d \in 1 .. Len(stack) : stack'[d] = stack[d]
  BY <1>1
<1>3. \A d \in 1 .. Len(stack) + 1 : d \in 1 .. Len(stack) \/ d = Len(stack) + 1
  BY <1>2
<1> QED
  BY <1>2, <1>3 DEF EventInv, IsEvent

\* What is left when events are over.
LEMMA EventsPopped ==
    ASSUME EventInv, NEW depth \in 0 .. Len(stack) - 1,
           stack' = SubSeq(stack, 1, depth), event' = stack[depth + 1].saved
    PROVE  EventInv'
<1>1. PICK E : stack \in Seq(E)
  BY DEF EventInv
<1>2. /\ stack' \in Seq(E) /\ Len(stack') = depth /\ Len(stack) \in Nat
      /\ \A d \in 1 .. depth : stack'[d] = stack[d]
  BY <1>1
<1>3. depth + 1 \in 1 .. Len(stack) /\ \A d \in 1 .. depth : d \in 1 .. Len(stack)
  BY <1>2
<1>4. event' = depth
  BY <1>3 DEF EventInv, IsEvent
<1> QED
  BY <1>2, <1>3, <1>4 DEF EventInv, IsEvent

\* The innermost event goes on.
LEMMA EventGoesOn ==
    ASSUME EventInv, stack # <<>>, NEW e, IsEvent(e, Len(stack)),
           stack' = Append(Front(stack), e), event' = event
    PROVE  EventInv'
<1>1. PICK E : stack \in Seq(E)
  BY DEF EventInv
<1>2. Len(stack) \in Nat /\ Len(stack) > 0
  BY <1>1
<1>3. /\ Front(stack) \in Seq(E) /\ Len(Front(stack)) = Len(stack) - 1
      /\ \A d \in 1 .. Len(stack) - 1 : Front(stack)[d] = stack[d]
  <2> DEFINE k == Len(stack) - 1
  <2>1. k \in 0 .. Len(stack)
    BY <1>2
  <2>2. Front(stack) = SubSeq(stack, 1, k)
    BY DEF Front
  <2>3. /\ SubSeq(stack, 1, k) \in Seq(E) /\ Len(SubSeq(stack, 1, k)) = k
        /\ \A d \in 1 .. k : SubSeq(stack, 1, k)[d] = stack[d]
    <3> HIDE DEF k
    <3> QED
      BY <1>1, <1>2, <2>1
  <2> QED
    BY <2>2, <2>3
<1>4. /\ stack' \in Seq(E \cup {e}) /\ Len(stack') = Len(stack)
      /\ stack'[Len(stack)] = e
      /\ \A d \in 1 .. Len(stack) - 1 : stack'[d] = stack[d]
  BY <1>2, <1>3
<1>5. \A d \in 1 .. Len(stack) : d \in 1 .. Len(stack) - 1 \/ d = Len(stack)
  BY <1>2
<1> QED
  BY <1>4, <1>5 DEF EventInv, IsEvent

LEMMA EventInvNext == EventInv /\ [DispatchNext]_dispatchVars => EventInv'
<1> SUFFICES ASSUME EventInv, [DispatchNext]_dispatchVars PROVE EventInv'
  OBVIOUS
<1>0. Len(stack) \in Nat /\ event = Len(stack) /\ (stack = <<>> <=> Len(stack) = 0)
  BY DEF EventInv
<1>1. CASE UNCHANGED <<stack, event>>
  BY <1>1 DEF EventInv
<1>2. CASE Fire
  <2> DEFINE e == [z |-> listeners, i |-> 0, n |-> Len(arrays[listeners]),
                   inside |-> FALSE, own |-> Len(stack) + 1, saved |-> event,
                   atStart |-> arrays[listeners], called |-> <<>>]
  <2>1. stack' = Append(stack, e) /\ event' = Len(stack) + 1
    BY <1>2 DEF Fire
  <2>2. IsEvent(e, Len(stack) + 1)
    BY <1>0 DEF IsEvent, EventFields
  <2> QED
    BY <2>1, <2>2, EventPushed
<1>3. CASE FireNode
  <2> DEFINE e == [z |-> listeners, i |-> 0, n |-> 0,
                   inside |-> TRUE, own |-> Len(stack) + 1, saved |-> event,
                   atStart |-> <<>>, called |-> <<>>]
  <2>1. stack' = Append(stack, e) /\ event' = Len(stack) + 1
    BY <1>3 DEF FireNode
  <2>2. IsEvent(e, Len(stack) + 1)
    BY <1>0 DEF IsEvent, EventFields
  <2> QED
    BY <2>1, <2>2, EventPushed
<1>4. CASE CallNext
  <2>1. stack # <<>> /\ event' = event
    BY <1>4 DEF CallNext, UserRuns
  <2>2. Len(stack) \in 1 .. Len(stack) /\ Last(stack) = stack[Len(stack)]
    BY <1>0, <2>1 DEF Last
  <2>3. IsEvent(Last(stack), Len(stack))
    BY <2>2 DEF EventInv
  <2> DEFINE top == Last(stack)
             skipped == [top EXCEPT !.i = top.i + 1]
             called == [top EXCEPT !.i = top.i + 1, !.inside = TRUE,
                                   !.called = Append(@, arrays[top.z][top.i + 1])]
  <2>4. stack' \in {Append(Front(stack), skipped), Append(Front(stack), called)}
    BY <1>4 DEF CallNext
  <2>5. IsEvent(skipped, Len(stack)) /\ IsEvent(called, Len(stack))
    BY <2>3 DEF IsEvent, EventFields
  <2> QED
    BY <2>1, <2>4, <2>5, EventGoesOn
<1>5. CASE Return
  <2>1. stack # <<>> /\ event' = event
    BY <1>5 DEF Return
  <2>2. Len(stack) \in 1 .. Len(stack) /\ Last(stack) = stack[Len(stack)]
    BY <1>0, <2>1 DEF Last
  <2>3. IsEvent(Last(stack), Len(stack))
    BY <2>2 DEF EventInv
  <2>4. IsEvent([Last(stack) EXCEPT !.inside = FALSE], Len(stack))
    BY <2>3 DEF IsEvent, EventFields
  <2> QED
    BY <1>5, <2>1, <2>4, EventGoesOn DEF Return
<1>6. CASE Finish
  <2>1. stack # <<>>
    BY <1>6 DEF Finish, UserRuns
  <2>2. /\ Len(stack) - 1 \in 0 .. Len(stack) - 1
        /\ stack' = SubSeq(stack, 1, Len(stack) - 1)
        /\ event' = stack[(Len(stack) - 1) + 1].saved
    BY <1>0, <1>6, <2>1 DEF Finish, Front, Last
  <2> QED
    BY <2>2, EventsPopped
<1>7. ASSUME NEW depth \in 0 .. Len(stack) - 1, Throw(depth) PROVE EventInv'
  BY <1>7, EventsPopped DEF Throw
<1> QED
  BY <1>1, <1>2, <1>3, <1>4, <1>5, <1>6, <1>7 DEF DispatchNext, On, OnNode, dispatchVars

(***************************************************************************)
(* Code of the user finds its own event in d3.event, however events are    *)
(* fired inside of each other, listeners are changed, and whatever is      *)
(* thrown and caught, to any depth (d3.js:1865-1873, 4158-4168).           *)
(***************************************************************************)
THEOREM EventsAreTheirOwn == DispatchSpec => []EventIsOwn
<1>1. DispatchInit => EventInv
  <2> SUFFICES ASSUME DispatchInit PROVE EventInv
    OBVIOUS
  <2>1. stack = <<>> /\ event = 0
    BY DEF DispatchInit
  <2>2. stack \in Seq({})
    BY <2>1
  <2> QED
    BY <2>1, <2>2 DEF EventInv
<1>2. EventInv => EventIsOwn
  <2> SUFFICES ASSUME EventInv PROVE EventIsOwn
    OBVIOUS
  <2>1. CASE stack = <<>>
    BY <2>1 DEF EventInv, EventIsOwn
  <2>2. CASE stack # <<>>
    <3>1. Len(stack) \in 1 .. Len(stack)
      BY <2>2 DEF EventInv
    <3> QED
      BY <2>2, <3>1 DEF EventInv, EventIsOwn, IsEvent, Last
  <2> QED
    BY <2>1, <2>2
<1> QED
  BY <1>1, <1>2, EventInvNext, PTL DEF DispatchSpec

(***************************************************************************)
(* Listeners: the arrays of a dispatch hold them in the order in which     *)
(* they were registered, and an array that an event walks along is at      *)
(* most appended to.                                                       *)
(***************************************************************************)
Rising(list) == \A j, k \in 1 .. Len(list) : j < k => list[j] < list[k]

Registered(list, hs) == list \in Seq(1 .. Len(hs)) /\ Rising(list)

ListsSound(as, hs) ==
    /\ as \in Seq(Seq(Nat)) /\ hs \in Seq(BOOLEAN)
    /\ \A slot \in 1 .. Len(as) : Registered(as[slot], hs)

\* What an event has called of the listeners up to i, in lists and holders as they are.
Called(z, n, i, start, called, as, hs) ==
    /\ z \in 1 .. Len(as) /\ n \in Nat /\ i \in 0 .. n
    /\ start \in Seq(Nat) /\ Len(start) = n /\ n <= Len(as[z])
    /\ \A j \in 1 .. n : as[z][j] = start[j]
    /\ called \in Seq(Nat) /\ Rising(called)
    /\ \A k \in 1 .. Len(called) : \E j \in 1 .. i : called[k] = start[j]
    /\ \A j \in 1 .. i : hs[start[j]] => \E k \in 1 .. Len(called) : called[k] = start[j]

CallsSound(e, as, hs) ==
    DOMAIN e = EventFields /\ Called(e.z, e.n, e.i, e.atStart, e.called, as, hs)

CallsInv ==
    /\ EventInv
    /\ ListsSound(arrays, holders) /\ listeners = Len(arrays) /\ listeners # 0
    /\ byName \in [Names -> 0 .. Len(holders)]
    /\ \A d \in 1 .. Len(stack) : CallsSound(stack[d], arrays, holders)

\* An array without one of its elements.
LEMMA RemovedIsRegistered ==
    ASSUME NEW hs, NEW list, Registered(list, hs), NEW h
    PROVE  Registered(RemoveFirst(list, h), hs)
<1>1. CASE \A i \in 1 .. Len(list) : list[i] # h
  BY <1>1 DEF RemoveFirst
<1>2. CASE \E i \in 1 .. Len(list) : list[i] = h
  <2> DEFINE I == {i \in 1 .. Len(list) : list[i] = h}
             Least == Min(I)
  <2>1. RemoveFirst(list, h) = RemoveAt(list, Least)
    BY <1>2 DEF RemoveFirst, SelectInSeq
  <2>2. PICK i \in 1 .. Len(list) : list[i] = h
    BY <1>2
  <2>3. I = {i}
    <3>1. /\ \A j \in 1 .. Len(list) : list[j] \in Nat
          /\ \A j, k \in 1 .. Len(list) : j < k => list[j] < list[k]
      BY DEF Registered, Rising
    <3>2. \A j \in 1 .. Len(list) : j # i => list[j] # h
      <4>1. i \in Nat /\ \A j \in 1 .. Len(list) : j \in Nat
        OBVIOUS
      <4>2. \A j \in 1 .. Len(list) : j # i => j < i \/ i < j
        BY <4>1
      <4> QED
        BY <2>2, <3>1, <4>2
    <3> QED
      BY <2>2, <3>2
  <2>4. Least = i
    BY <2>3 DEF Min
  <2> DEFINE n == Len(list)
             before == SubSeq(list, 1, i - 1)
             after == SubSeq(list, i + 1, n)
  <2>5. RemoveFirst(list, h) = before \o after
    BY <2>1, <2>4 DEF RemoveAt
  <2>6. n \in Nat /\ list \in Seq(1 .. Len(hs)) /\ i \in 1 .. n
    BY DEF Registered
  <2>7. /\ before \in Seq(1 .. Len(hs)) /\ Len(before) = i - 1
        /\ \A k \in 1 .. i - 1 : before[k] = list[k]
    <3> DEFINE E == 1 .. Len(hs)
    <3> HIDE DEF E, Least, I
    <3>1. list \in Seq(E) /\ Len(list) \in Nat /\ i \in Nat /\ 1 <= i /\ i <= Len(list)
      BY <2>6 DEF E
    <3>2. before \in Seq(E) /\ Len(before) = i - 1
      BY <3>1
    <3>3. \A k \in 1 .. i - 1 : before[k] = list[k]
      BY <3>1
    <3> QED
      BY <3>2, <3>3 DEF E
  <2>8. /\ after \in Seq(1 .. Len(hs)) /\ Len(after) = n - i
        /\ \A k \in 1 .. n - i : after[k] = list[i + k]
    <3> DEFINE E == 1 .. Len(hs)
    <3> HIDE DEF E, Least, I
    <3>1. list \in Seq(E) /\ n = Len(list) /\ n \in Nat /\ i \in Nat /\ 1 <= i /\ i <= n
      BY <2>6 DEF E
    <3> HIDE DEF n
    <3>2. after \in Seq(E) /\ Len(after) = n - i
      BY <3>1
    <3>3. \A k \in 1 .. n - i : after[k] = list[i + k]
      BY <3>1
    <3> QED
      BY <3>2, <3>3 DEF E
  <2> DEFINE rest == before \o after
  <2> HIDE DEF before, after, n
  <2>9. /\ rest \in Seq(1 .. Len(hs)) /\ Len(rest) = n - 1
        /\ \A k \in 1 .. i - 1 : rest[k] = list[k]
        /\ \A k \in i .. n - 1 : rest[k] = list[k + 1]
    <3>1. rest \in Seq(1 .. Len(hs)) /\ Len(rest) = n - 1
      <4>1. before \in Seq(1 .. Len(hs)) /\ after \in Seq(1 .. Len(hs))
        BY <2>7, <2>8
      <4>2. rest \in Seq(1 .. Len(hs)) /\ Len(rest) = Len(before) + Len(after)
        BY <4>1
      <4> QED
        BY <2>6, <2>7, <2>8, <4>2
    <3>2. ASSUME NEW k \in 1 .. i - 1 PROVE rest[k] = list[k]
      <4>1. before \in Seq(1 .. Len(hs)) /\ after \in Seq(1 .. Len(hs)) /\ k \in 1 .. Len(before)
        BY <2>7, <2>8
      <4>2. rest[k] = before[k]
        BY <4>1
      <4> QED
        BY <2>7, <4>2
    <3>3. ASSUME NEW k \in i .. n - 1 PROVE rest[k] = list[k + 1]
      <4> DEFINE kb == Len(before)
                 ka == Len(after)
      <4>1. before \in Seq(1 .. Len(hs)) /\ after \in Seq(1 .. Len(hs)) /\ kb \in Nat /\ ka \in Nat
        BY <2>7, <2>8
      <4>2. \A q \in kb + 1 .. kb + ka : rest[q] = after[q - kb]
        BY <4>1
      <4>3. k \in kb + 1 .. kb + ka /\ k - kb \in 1 .. n - i /\ i + (k - kb) = k + 1
        BY <2>6, <2>7, <2>8
      <4> HIDE DEF kb, ka, rest
      <4> QED
        BY <2>8, <4>2, <4>3
    <3> QED
      BY <3>1, <3>2, <3>3
  <2> HIDE DEF rest
  <2>10. Rising(rest)
    <3> SUFFICES ASSUME NEW j \in 1 .. n - 1, NEW k \in 1 .. n - 1, j < k
                 PROVE  rest[j] < rest[k]
      BY <2>9 DEF Rising
    <3>1. PICK j1 \in 1 .. n, k1 \in 1 .. n : j1 < k1 /\ rest[j] = list[j1] /\ rest[k] = list[k1]
      <4>1. CASE k < i
        <5>1. j \in 1 .. i - 1 /\ k \in 1 .. i - 1
          BY <2>6, <4>1
        <5>2. j \in 1 .. n /\ k \in 1 .. n /\ rest[j] = list[j] /\ rest[k] = list[k]
          BY <2>6, <2>9, <5>1
        <5> QED
          BY <5>2
      <4>2. CASE j < i /\ i <= k
        <5>1. j \in 1 .. i - 1 /\ k \in i .. n - 1
          BY <2>6, <4>2
        <5>2. j \in 1 .. n /\ k + 1 \in 1 .. n /\ rest[j] = list[j] /\ rest[k] = list[k + 1] /\ j < k + 1
          BY <2>6, <2>9, <5>1
        <5> QED
          BY <5>2
      <4>3. CASE i <= j
        <5>1. j \in i .. n - 1 /\ k \in i .. n - 1
          BY <2>6, <4>3
        <5>2. /\ j + 1 \in 1 .. n /\ k + 1 \in 1 .. n /\ j + 1 < k + 1
              /\ rest[j] = list[j + 1] /\ rest[k] = list[k + 1]
          BY <2>6, <2>9, <5>1
        <5> QED
          BY <5>2
      <4>4. k < i \/ (j < i /\ i <= k) \/ i <= j
        BY <2>6
      <4> QED
        BY <4>1, <4>2, <4>3, <4>4
    <3> QED
      BY <3>1 DEF Registered, Rising, n
  <2> QED
    BY <2>5, <2>9, <2>10 DEF Registered, rest
<1> QED
  BY <1>1, <1>2

\* Lists that grow, and listeners that are removed, leave a call sound.
LEMMA CallsStaySound ==
    ASSUME NEW e, NEW as, NEW hs, NEW bs, NEW gs,
           CallsSound(e, as, hs), ListsSound(as, hs),
           \A slot \in 1 .. Len(as) :
              /\ slot \in 1 .. Len(bs) /\ Len(bs[slot]) \in Nat /\ Len(as[slot]) <= Len(bs[slot])
              /\ \A j \in 1 .. Len(as[slot]) : bs[slot][j] = as[slot][j],
           \A h \in 1 .. Len(hs) : gs[h] => hs[h]
    PROVE  CallsSound(e, bs, gs)
<1> DEFINE z == e.z
           n == e.n
           list == as[z]
           longer == bs[z]
<1>1. z \in 1 .. Len(as) /\ n \in Nat /\ e.i \in 0 .. n /\ n <= Len(list) /\ e.atStart \in Seq(Nat)
  BY DEF CallsSound, Called
<1>2. \A j \in 1 .. n : list[j] = e.atStart[j]
  BY DEF CallsSound, Called
<1>3. Registered(list, hs)
  BY <1>1 DEF ListsSound
<1>4. z \in 1 .. Len(bs) /\ Len(longer) \in Nat /\ Len(list) <= Len(longer) /\ \A j \in 1 .. Len(list) : longer[j] = list[j]
  BY <1>1
<1> HIDE DEF z, n, list, longer
<1>5. list \in Seq(1 .. Len(hs))
  BY <1>3 DEF Registered
<1>6. Len(list) \in Nat /\ \A j \in 1 .. Len(list) : list[j] \in 1 .. Len(hs)
  BY <1>5
<1>7. n <= Len(longer) /\ \A j \in 1 .. n : longer[j] = e.atStart[j] /\ e.atStart[j] \in 1 .. Len(hs)
  BY <1>1, <1>2, <1>4, <1>6
<1>8. \A j \in 1 .. e.i : gs[e.atStart[j]] => hs[e.atStart[j]]
  <2>1. \A j \in 1 .. e.i : j \in 1 .. n
    BY <1>1
  <2>2. \A j \in 1 .. e.i : e.atStart[j] \in 1 .. Len(hs)
    BY <1>7, <2>1
  <2> QED
    BY <2>2
<1> DEFINE i == e.i
           start == e.atStart
           called == e.called
<1>9. Called(z, n, i, start, called, as, hs) /\ DOMAIN e = EventFields
  BY DEF CallsSound, z, n
<1> HIDE DEF i, start, called
<1>10. Called(z, n, i, start, called, bs, gs)
  <2>1. /\ n \in Nat /\ i \in 0 .. n /\ start \in Seq(Nat) /\ Len(start) = n
        /\ called \in Seq(Nat) /\ Rising(called)
        /\ \A k \in 1 .. Len(called) : \E j \in 1 .. i : called[k] = start[j]
    BY <1>9 DEF Called
  <2>2. \A j \in 1 .. i : hs[start[j]] => \E k \in 1 .. Len(called) : called[k] = start[j]
    BY <1>9 DEF Called
  <2>3. \A j \in 1 .. i : gs[start[j]] => \E k \in 1 .. Len(called) : called[k] = start[j]
    BY <1>8, <2>2 DEF i, start
  <2>4. z \in 1 .. Len(bs) /\ n <= Len(bs[z]) /\ \A j \in 1 .. n : bs[z][j] = start[j]
    BY <1>4, <1>7 DEF longer, start
  <2> QED
    BY <2>1, <2>3, <2>4 DEF Called
<1> QED
  BY <1>9, <1>10 DEF CallsSound, z, n, i, start, called

\* Changes of listeners.
LEMMA CallsInvOn ==
    ASSUME CallsInv, EventInv', NEW name \in Names, NEW add \in BOOLEAN, On(name, add)
    PROVE  CallsInv'
<1> DEFINE old == byName[name]
           new == Len(holders) + 1
           kept == RemoveFirst(arrays[listeners], old)
           copied == IF old = 0 THEN arrays ELSE Append(arrays, kept)
           marked == [h \in DOMAIN holders |-> holders[h] /\ h # old]
           last == Len(copied)
<1>1. /\ listeners' = last
      /\ arrays' = IF add THEN [copied EXCEPT ![last] = Append(@, new)] ELSE copied
      /\ holders' = IF add THEN Append(marked, TRUE) ELSE marked
      /\ byName' = [byName EXCEPT ![name] = IF add THEN new ELSE 0]
      /\ UNCHANGED stack
  BY DEF On
<1>2. /\ arrays \in Seq(Seq(Nat)) /\ holders \in Seq(BOOLEAN) /\ Len(arrays) \in Nat \ {0} /\ Len(holders) \in Nat
      /\ listeners = Len(arrays) /\ \A slot \in 1 .. Len(arrays) : Registered(arrays[slot], holders)
  <2>1. arrays \in Seq(Seq(Nat)) /\ holders \in Seq(BOOLEAN)
    BY DEF CallsInv, ListsSound
  <2> QED
    BY <2>1 DEF CallsInv, ListsSound
<1>3. Registered(kept, holders)
  BY <1>2, RemovedIsRegistered
<1>4. /\ marked \in Seq(BOOLEAN) /\ Len(marked) = Len(holders)
      /\ \A h \in 1 .. Len(holders) : marked[h] => holders[h]
  <2> DEFINE m == Len(holders)
  <2>1. marked \in [1 .. m -> BOOLEAN] /\ m \in Nat
    BY <1>2
  <2>2. \A h \in 1 .. m : marked[h] => holders[h]
    BY <1>2
  <2>3. marked \in Seq(BOOLEAN) /\ Len(marked) = m
    <3> HIDE DEF marked, m
    <3> QED
      BY <2>1
  <2> HIDE DEF marked
  <2> QED
    BY <2>2, <2>3
<1> HIDE DEF marked
<1>5. /\ holders' \in Seq(BOOLEAN) /\ Len(holders') \in Nat /\ Len(holders) <= Len(holders')
      /\ \A h \in 1 .. Len(holders) : holders'[h] => holders[h]
      /\ add => Len(holders') = new
  <2>1. CASE add
    <3>1. holders' = Append(marked, TRUE)
      BY <1>1, <2>1
    <3> QED
      BY <1>2, <1>4, <3>1
  <2>2. CASE ~add
    <3>1. holders' = marked
      BY <1>1, <2>2
    <3> QED
      BY <1>2, <1>4, <2>2, <3>1
  <2> QED
    BY <2>1, <2>2
<1>6. \A list : Registered(list, holders) => Registered(list, holders')
  <2> SUFFICES ASSUME NEW list, Registered(list, holders) PROVE Registered(list, holders')
    OBVIOUS
  <2> DEFINE S == 1 .. Len(holders)
             T == 1 .. Len(holders')
  <2>1. S \subseteq T
    BY <1>2, <1>5
  <2>2. list \in Seq(S) /\ Rising(list)
    BY DEF Registered
  <2>3. list \in Seq(T)
    <3> HIDE DEF S, T
    <3> QED
      BY <2>1, <2>2
  <2> QED
    BY <2>2, <2>3 DEF Registered
<1>7. /\ copied \in Seq(Seq(Nat)) /\ last \in Nat \ {0} /\ Len(arrays) <= last
      /\ \A slot \in 1 .. last : Registered(copied[slot], holders)
      /\ \A slot \in 1 .. Len(arrays) : copied[slot] = arrays[slot]
  <2>1. CASE old = 0
    BY <1>2, <2>1
  <2>2. CASE old # 0
    <3>1. copied = Append(arrays, kept)
      BY <2>2
    <3>2. kept \in Seq(Nat)
      <4>1. kept \in Seq(1 .. Len(holders)) /\ 1 .. Len(holders) \subseteq Nat
        BY <1>3 DEF Registered
      <4> HIDE DEF kept
      <4> QED
        BY <4>1
    <3> HIDE DEF copied, kept
    <3>3. /\ copied \in Seq(Seq(Nat)) /\ Len(copied) = Len(arrays) + 1
          /\ copied[Len(arrays) + 1] = kept
          /\ \A slot \in 1 .. Len(arrays) : copied[slot] = arrays[slot]
      BY <1>2, <3>1, <3>2
    <3>4. \A slot \in 1 .. Len(arrays) + 1 : slot \in 1 .. Len(arrays) \/ slot = Len(arrays) + 1
      BY <1>2
    <3>5. \A slot \in 1 .. Len(arrays) + 1 : Registered(copied[slot], holders)
      BY <1>2, <1>3, <3>3, <3>4
    <3>6. last = Len(arrays) + 1
      BY <3>3
    <3>7. last \in Nat \ {0} /\ Len(arrays) <= last
      BY <1>2, <3>6
    <3>8. \A slot \in 1 .. last : Registered(copied[slot], holders)
      BY <3>5, <3>6
    <3> QED
      BY <3>3, <3>7, <3>8
  <2> QED
    BY <2>1, <2>2
<1> HIDE DEF copied, last
<1>8. /\ arrays' \in Seq(Seq(Nat)) /\ Len(arrays') = last
      /\ \A slot \in 1 .. last : Registered(arrays'[slot], holders')
      /\ \A slot \in 1 .. last : /\ Len(arrays'[slot]) \in Nat /\ Len(copied[slot]) <= Len(arrays'[slot])
                              /\ \A j \in 1 .. Len(copied[slot]) : arrays'[slot][j] = copied[slot][j]
  <2>1. CASE ~add
    <3>1. arrays' = copied
      BY <1>1, <2>1
    <3>2. \A slot \in 1 .. last : Len(copied[slot]) \in Nat
      BY <1>7 DEF last
    <3> QED
      BY <1>6, <1>7, <3>1, <3>2 DEF last
  <2>2. CASE add
    <3> DEFINE list == copied[last]
               more == Append(list, new)
    <3>1. arrays' = [copied EXCEPT ![last] = more] /\ last \in 1 .. last /\ new \in Nat
      BY <1>1, <1>2, <1>7, <2>2
    <3>2. Registered(list, holders) /\ list \in Seq(1 .. Len(holders)) /\ Len(list) \in Nat
      <4>1. Registered(list, holders)
        BY <1>7, <3>1
      <4> HIDE DEF list
      <4> QED
        BY <4>1 DEF Registered
    <3> HIDE DEF list
    <3>3. /\ more \in Seq(1 .. new) /\ Len(more) = Len(list) + 1 /\ more[Len(list) + 1] = new
          /\ \A j \in 1 .. Len(list) : more[j] = list[j] /\ list[j] \in 1 .. Len(holders)
      <4>1. 1 .. Len(holders) \subseteq 1 .. new /\ new \in 1 .. new
        BY <1>2
      <4>2. list \in Seq(1 .. new)
        BY <3>2, <4>1
      <4> HIDE DEF new
      <4> QED
        BY <3>2, <4>1, <4>2
    <3>4. Rising(more)
      <4> SUFFICES ASSUME NEW j \in 1 .. Len(list) + 1, NEW k \in 1 .. Len(list) + 1, j < k
                   PROVE  more[j] < more[k]
        BY <3>3 DEF Rising
      <4>1. j \in 1 .. Len(list)
        BY <3>2
      <4>2. CASE k = Len(list) + 1
        BY <1>2, <3>3, <4>1, <4>2
      <4>3. CASE k # Len(list) + 1
        <5>1. k \in 1 .. Len(list)
          BY <3>2, <4>3
        <5>2. list[j] < list[k]
          BY <3>2, <4>1, <5>1 DEF Registered, Rising
        <5> QED
          BY <3>3, <4>1, <5>1, <5>2
      <4> QED
        BY <4>2, <4>3
    <3>5. Registered(more, holders') /\ more \in Seq(Nat)
      <4>1. Len(holders') = new /\ 1 .. new \subseteq Nat
        BY <1>2, <1>5, <2>2
      <4> HIDE DEF more
      <4> QED
        BY <3>3, <3>4, <4>1 DEF Registered
    <3> HIDE DEF more, new
    <3>6. /\ arrays' \in Seq(Seq(Nat)) /\ Len(arrays') = last /\ arrays'[last] = more
          /\ \A slot \in 1 .. last : slot # last => arrays'[slot] = copied[slot]
      BY <1>7, <3>1, <3>5 DEF last
    <3>7. \A slot \in 1 .. last : Len(copied[slot]) \in Nat
      BY <1>7 DEF last
    <3>8. /\ Len(copied[last]) <= Len(arrays'[last]) /\ Len(arrays'[last]) \in Nat
          /\ \A j \in 1 .. Len(copied[last]) : arrays'[last][j] = copied[last][j]
      BY <3>2, <3>3, <3>6 DEF list
    <3>9. ASSUME NEW slot \in 1 .. last, slot # last
          PROVE  /\ Registered(arrays'[slot], holders')
                 /\ Len(arrays'[slot]) \in Nat /\ Len(copied[slot]) <= Len(arrays'[slot])
                 /\ \A j \in 1 .. Len(copied[slot]) : arrays'[slot][j] = copied[slot][j]
      <4>1. arrays'[slot] = copied[slot]
        BY <3>6, <3>9
      <4> QED
        BY <1>6, <1>7, <3>7, <4>1
    <3>10. Registered(arrays'[last], holders')
      BY <3>5, <3>6
    <3> QED
      BY <3>6, <3>8, <3>9, <3>10
  <2> QED
    BY <2>1, <2>2
<1>9. \A slot \in 1 .. Len(arrays) :
         /\ slot \in 1 .. Len(arrays') /\ Len(arrays'[slot]) \in Nat /\ Len(arrays[slot]) <= Len(arrays'[slot])
         /\ \A j \in 1 .. Len(arrays[slot]) : arrays'[slot][j] = arrays[slot][j]
  <2> SUFFICES ASSUME NEW slot \in 1 .. Len(arrays)
               PROVE  /\ slot \in 1 .. Len(arrays') /\ Len(arrays'[slot]) \in Nat /\ Len(arrays[slot]) <= Len(arrays'[slot])
                      /\ \A j \in 1 .. Len(arrays[slot]) : arrays'[slot][j] = arrays[slot][j]
    OBVIOUS
  <2>1. slot \in 1 .. last /\ copied[slot] = arrays[slot]
    BY <1>2, <1>7
  <2> QED
    BY <1>8, <2>1
<1>10. \A d \in 1 .. Len(stack) : CallsSound(stack[d], arrays', holders')
  <2>1. ListsSound(arrays, holders) /\ \A d \in 1 .. Len(stack) : CallsSound(stack[d], arrays, holders)
    BY DEF CallsInv
  <2> SUFFICES ASSUME NEW d \in 1 .. Len(stack) PROVE CallsSound(stack[d], arrays', holders')
    OBVIOUS
  <2> DEFINE e == stack[d]
             bs == arrays'
             gs == holders'
  <2>2. CallsSound(e, arrays, holders)
    BY <2>1
  <2>3. /\ \A slot \in 1 .. Len(arrays) :
              /\ slot \in 1 .. Len(bs) /\ Len(bs[slot]) \in Nat /\ Len(arrays[slot]) <= Len(bs[slot])
              /\ \A j \in 1 .. Len(arrays[slot]) : bs[slot][j] = arrays[slot][j]
        /\ \A h \in 1 .. Len(holders) : gs[h] => holders[h]
    BY <1>5, <1>9
  <2> HIDE DEF e, bs, gs
  <2>4. CallsSound(e, bs, gs)
    BY <2>1, <2>2, <2>3, CallsStaySound
  <2> QED
    BY <2>4 DEF e, bs, gs
<1>11. byName' \in [Names -> 0 .. Len(holders')]
  <2>1. byName \in [Names -> 0 .. Len(holders)]
    BY DEF CallsInv
  <2>2. 0 .. Len(holders) \subseteq 0 .. Len(holders') /\ (IF add THEN new ELSE 0) \in 0 .. Len(holders')
    BY <1>2, <1>5
  <2> HIDE DEF new
  <2> QED
    BY <1>1, <2>1, <2>2
<1>12. ListsSound(arrays, holders)' /\ listeners' = Len(arrays') /\ listeners' # 0
  BY <1>1, <1>5, <1>7, <1>8 DEF ListsSound
<1> QED
  BY <1>1, <1>10, <1>11, <1>12 DEF CallsInv

\* Events that begin, go on and end.
LEMMA CallsInvStack ==
    ASSUME CallsInv, EventInv', UNCHANGED <<arrays, listeners, holders, byName>>,
           \A d \in 1 .. Len(stack') :
              CallsSound(stack'[d], arrays, holders) \/ \E c \in 1 .. Len(stack) : stack'[d] = stack[c]
    PROVE  CallsInv'
<1>1. \A d \in 1 .. Len(stack') : CallsSound(stack'[d], arrays, holders)
  BY DEF CallsInv
<1>2. \A d \in 1 .. Len(stack') : CallsSound(stack'[d], arrays', holders')
  BY <1>1
<1> QED
  BY <1>2 DEF CallsInv

LEMMA CallsInvPushed ==
    ASSUME CallsInv, EventInv', UNCHANGED <<arrays, listeners, holders, byName>>,
           NEW e, CallsSound(e, arrays, holders), stack' = Append(stack, e)
    PROVE  CallsInv'
<1>1. PICK E : stack \in Seq(E)
  BY DEF CallsInv, EventInv
<1>2. /\ Len(stack') = Len(stack) + 1 /\ Len(stack) \in Nat /\ stack'[Len(stack) + 1] = e
      /\ \A d \in 1 .. Len(stack) : stack'[d] = stack[d]
  BY <1>1
<1>3. \A d \in 1 .. Len(stack') : d \in 1 .. Len(stack) \/ d = Len(stack) + 1
  BY <1>2
<1>4. \A d \in 1 .. Len(stack') :
         CallsSound(stack'[d], arrays, holders) \/ \E c \in 1 .. Len(stack) : stack'[d] = stack[c]
  BY <1>2, <1>3
<1> QED
  BY <1>4, CallsInvStack

LEMMA CallsInvPopped ==
    ASSUME CallsInv, EventInv', UNCHANGED <<arrays, listeners, holders, byName>>,
           NEW depth \in 0 .. Len(stack) - 1, stack' = SubSeq(stack, 1, depth)
    PROVE  CallsInv'
<1>1. PICK E : stack \in Seq(E)
  BY DEF CallsInv, EventInv
<1>2. /\ Len(stack') = depth /\ Len(stack) \in Nat
      /\ \A d \in 1 .. depth : stack'[d] = stack[d] /\ d \in 1 .. Len(stack)
  BY <1>1
<1> QED
  BY <1>2, CallsInvStack

LEMMA CallsInvGoesOn ==
    ASSUME CallsInv, EventInv', UNCHANGED <<arrays, listeners, holders, byName>>, stack # <<>>,
           NEW e, CallsSound(e, arrays, holders), stack' = Append(Front(stack), e)
    PROVE  CallsInv'
<1>1. PICK E : stack \in Seq(E)
  BY DEF CallsInv, EventInv
<1> DEFINE k == Len(stack) - 1
<1>2. Len(stack) \in Nat /\ Len(stack) > 0 /\ k \in 0 .. Len(stack) /\ Front(stack) = SubSeq(stack, 1, k)
  BY <1>1 DEF Front
<1> HIDE DEF k
<1>3. /\ Front(stack) \in Seq(E) /\ Len(Front(stack)) = k
      /\ \A d \in 1 .. k : Front(stack)[d] = stack[d] /\ d \in 1 .. Len(stack)
  BY <1>1, <1>2
<1>4. /\ Len(stack') = k + 1 /\ stack'[k + 1] = e
      /\ \A d \in 1 .. k : stack'[d] = stack[d] /\ d \in 1 .. Len(stack)
  BY <1>2, <1>3
<1>5. \A d \in 1 .. Len(stack') : d \in 1 .. k \/ d = k + 1
  BY <1>2, <1>4
<1>6. \A d \in 1 .. Len(stack') :
         CallsSound(stack'[d], arrays, holders) \/ \E c \in 1 .. Len(stack) : stack'[d] = stack[c]
  BY <1>4, <1>5
<1> QED
  BY <1>6, CallsInvStack

\* The listener at the next place is called, or was removed.
LEMMA NextCallIsSound ==
    ASSUME NEW e, NEW as, NEW hs, CallsSound(e, as, hs), ListsSound(as, hs), e.i < e.n
    PROVE  /\ e.i + 1 \in DOMAIN as[e.z]
           /\ hs[as[e.z][e.i + 1]] =>
                 CallsSound([e EXCEPT !.i = e.i + 1, !.inside = TRUE,
                                      !.called = Append(@, as[e.z][e.i + 1])], as, hs)
           /\ ~hs[as[e.z][e.i + 1]] => CallsSound([e EXCEPT !.i = e.i + 1], as, hs)
<1> DEFINE z == e.z
           n == e.n
           i == e.i
           next == e.i + 1
           list == as[z]
           start == e.atStart
           called == e.called
           h == list[next]
<1>1. /\ z \in 1 .. Len(as) /\ n \in Nat /\ i \in 0 .. n /\ n <= Len(list)
      /\ start \in Seq(Nat) /\ Len(start) = n /\ (\A j \in 1 .. n : list[j] = start[j])
      /\ called \in Seq(Nat) /\ Rising(called)
      /\ (\A k \in 1 .. Len(called) : \E j \in 1 .. i : called[k] = start[j])
      /\ (\A j \in 1 .. i : hs[start[j]] => \E k \in 1 .. Len(called) : called[k] = start[j])
      /\ DOMAIN e = EventFields /\ i < n /\ next = i + 1
  BY DEF CallsSound, Called
<1>2. Registered(list, hs)
  BY <1>1 DEF ListsSound
<1> DEFINE skipped == [e EXCEPT !.i = next]
           more == Append(called, h)
           went == [e EXCEPT !.i = next, !.inside = TRUE, !.called = more]
<1>3. /\ DOMAIN skipped = EventFields /\ skipped.z = z /\ skipped.n = n /\ skipped.i = next
      /\ skipped.atStart = start /\ skipped.called = called
  BY <1>1 DEF EventFields
<1>4. /\ DOMAIN went = EventFields /\ went.z = z /\ went.n = n /\ went.i = next
      /\ went.atStart = start /\ went.called = more
  <2> HIDE DEF more, next
  <2> QED
    BY <1>1 DEF EventFields
<1> HIDE DEF z, n, i, next, start, called, list, skipped, went
<1>5. list \in Seq(1 .. Len(hs)) /\ Rising(list)
  BY <1>2 DEF Registered
<1>6. next \in 1 .. n /\ Len(list) \in Nat /\ next \in DOMAIN list /\ h = start[next] /\ h \in 1 .. Len(hs)
  BY <1>1, <1>5
<1>7. \A j \in 1 .. next : j \in 1 .. i \/ j = next
  BY <1>1
<1>8. ASSUME ~hs[h] PROVE CallsSound(skipped, as, hs)
  <2>1. \A k \in 1 .. Len(called) : \E j \in 1 .. next : called[k] = start[j]
    <3>1. 1 .. i \subseteq 1 .. next
      BY <1>1
    <3> QED
      BY <1>1, <3>1
  <2>2. \A j \in 1 .. next : hs[start[j]] => \E k \in 1 .. Len(called) : called[k] = start[j]
    BY <1>1, <1>6, <1>7, <1>8
  <2>3. next \in 0 .. n
    BY <1>6
  <2>4. Called(z, n, next, start, called, as, hs)
    BY <1>1, <2>1, <2>2, <2>3 DEF Called, list
  <2> QED
    BY <1>3, <2>4 DEF CallsSound
<1>9. ASSUME hs[h] PROVE CallsSound(went, as, hs)
  <2>1. /\ h \in Nat /\ Len(called) \in Nat
        /\ \A k \in 1 .. Len(called) : called[k] \in Nat /\ called[k] < h
    <3>1. ASSUME NEW k \in 1 .. Len(called) PROVE called[k] \in Nat /\ called[k] < h
      <4>1. PICK j \in 1 .. i : called[k] = start[j]
        BY <1>1
      <4>2. j \in 1 .. n /\ j \in 1 .. Len(list) /\ j < next /\ next \in 1 .. Len(list)
        <5>1. j \in Nat /\ 1 <= j /\ j <= i /\ i \in Nat /\ n \in Nat /\ i < n /\ n <= Len(list) /\ next = i + 1
          BY <1>1
        <5>2. Len(list) \in Nat
          BY <1>6
        <5> QED
          BY <5>1, <5>2
      <4>3. list[j] < list[next]
        BY <1>5, <4>2 DEF Rising
      <4>4. list[j] = start[j]
        BY <1>1, <4>2
      <4> QED
        BY <1>1, <4>1, <4>2, <4>3, <4>4
    <3> QED
      BY <1>1, <1>6, <3>1
  <2> HIDE DEF h
  <2>2. /\ more \in Seq(Nat) /\ Len(more) = Len(called) + 1 /\ more[Len(called) + 1] = h
        /\ \A k \in 1 .. Len(called) : more[k] = called[k]
    BY <1>1, <2>1
  <2> HIDE DEF more
  <2>3. \A k \in 1 .. Len(more) : k \in 1 .. Len(called) \/ k = Len(called) + 1
    BY <2>1, <2>2
  <2>4. Rising(more)
    <3> SUFFICES ASSUME NEW j \in 1 .. Len(more), NEW k \in 1 .. Len(more), j < k
                 PROVE  more[j] < more[k]
      BY DEF Rising
    <3>1. j \in 1 .. Len(called)
      BY <2>1, <2>2
    <3>2. CASE k \in 1 .. Len(called)
      BY <1>1, <2>2, <3>1, <3>2 DEF Rising
    <3>3. CASE k = Len(called) + 1
      BY <2>1, <2>2, <3>1, <3>3
    <3> QED
      BY <2>3, <3>2, <3>3
  <2>5. \A k \in 1 .. Len(more) : \E j \in 1 .. next : more[k] = start[j]
    <3>1. 1 .. i \subseteq 1 .. next /\ next \in 1 .. next
      BY <1>1, <1>6
    <3>2. ASSUME NEW k \in 1 .. Len(called) PROVE \E j \in 1 .. next : more[k] = start[j]
      BY <1>1, <2>2, <3>1
    <3>3. more[Len(called) + 1] = start[next]
      BY <1>6, <2>2
    <3> QED
      BY <2>3, <3>1, <3>2, <3>3
  <2>6. \A j \in 1 .. next : hs[start[j]] => \E k \in 1 .. Len(more) : more[k] = start[j]
    <3>1. 1 .. Len(called) \subseteq 1 .. Len(more) /\ Len(called) + 1 \in 1 .. Len(more)
      BY <2>1, <2>2
    <3>2. ASSUME NEW j \in 1 .. i, hs[start[j]] PROVE \E k \in 1 .. Len(more) : more[k] = start[j]
      <4>1. PICK k \in 1 .. Len(called) : called[k] = start[j]
        BY <1>1, <3>2
      <4> QED
        BY <2>2, <3>1, <4>1
    <3>3. more[Len(called) + 1] = start[next]
      BY <1>6, <2>2
    <3> QED
      BY <1>7, <3>1, <3>2, <3>3
  <2>7. next \in 0 .. n
    BY <1>6
  <2>8. Called(z, n, next, start, more, as, hs)
    BY <1>1, <2>2, <2>4, <2>5, <2>6, <2>7 DEF Called, list
  <2> QED
    BY <1>4, <2>8 DEF CallsSound
<1> QED
  BY <1>6, <1>8, <1>9 DEF skipped, went, list, called, z, i, next

LEMMA CallsInvNext == CallsInv /\ [DispatchNext]_dispatchVars => CallsInv'
<1> SUFFICES ASSUME CallsInv, [DispatchNext]_dispatchVars PROVE CallsInv'
  OBVIOUS
<1>0. /\ EventInv' /\ Len(stack) \in Nat /\ (stack = <<>> <=> Len(stack) = 0)
      /\ arrays \in Seq(Seq(Nat)) /\ listeners \in 1 .. Len(arrays) /\ arrays[listeners] \in Seq(Nat)
  <2>1. EventInv
    BY DEF CallsInv
  <2>2. arrays \in Seq(Seq(Nat)) /\ listeners = Len(arrays) /\ listeners # 0
    BY DEF CallsInv, ListsSound
  <2>3. listeners \in 1 .. Len(arrays)
    BY <2>2
  <2> QED
    BY <2>1, <2>2, <2>3, EventInvNext DEF EventInv
<1>1. CASE UNCHANGED <<arrays, listeners, holders, byName, stack>>
  <2>1. \A d \in 1 .. Len(stack') : d \in 1 .. Len(stack) /\ stack'[d] = stack[d]
    BY <1>1
  <2> QED
    BY <1>0, <1>1, <2>1, CallsInvStack
<1>2. CASE Fire
  <2> DEFINE list == arrays[listeners]
             e == [z |-> listeners, i |-> 0, n |-> Len(list), inside |-> FALSE, own |-> Len(stack) + 1,
                   saved |-> event, atStart |-> list, called |-> <<>>]
  <2>1. stack' = Append(stack, e) /\ UNCHANGED <<arrays, listeners, holders, byName>>
    BY <1>2 DEF Fire
  <2>2. CallsSound(e, arrays, holders)
    <3>1. list \in Seq(Nat) /\ Len(list) \in Nat /\ listeners \in 1 .. Len(arrays)
      BY <1>0
    <3> QED
      BY <3>1 DEF CallsSound, Called, EventFields, Rising
  <2> HIDE DEF e
  <2> QED
    BY <1>0, <2>1, <2>2, CallsInvPushed
<1>3. CASE FireNode
  <2> DEFINE e == [z |-> listeners, i |-> 0, n |-> 0, inside |-> TRUE, own |-> Len(stack) + 1,
                   saved |-> event, atStart |-> <<>>, called |-> <<>>]
  <2>1. stack' = Append(stack, e) /\ UNCHANGED <<arrays, listeners, holders, byName>>
    BY <1>3 DEF FireNode
  <2>2. CallsSound(e, arrays, holders)
    <3>1. Len(arrays[listeners]) \in Nat /\ listeners \in 1 .. Len(arrays)
      BY <1>0
    <3> QED
      BY <3>1 DEF CallsSound, Called, EventFields, Rising
  <2> HIDE DEF e
  <2> QED
    BY <1>0, <2>1, <2>2, CallsInvPushed
<1>4. CASE CallNext
  <2> DEFINE e == Last(stack)
             next == e.i + 1
             h == arrays[e.z][next]
             went == [e EXCEPT !.i = e.i + 1, !.inside = TRUE, !.called = Append(@, arrays[e.z][e.i + 1])]
             skipped == [e EXCEPT !.i = e.i + 1]
  <2>1. stack # <<>> /\ e.i < e.n /\ UNCHANGED <<arrays, listeners, holders, byName>>
    BY <1>4 DEF CallNext, UserRuns
  <2>2. CallsSound(e, arrays, holders) /\ ListsSound(arrays, holders)
    <3>1. Len(stack) \in 1 .. Len(stack) /\ e = stack[Len(stack)]
      BY <1>0, <2>1 DEF Last
    <3> QED
      BY <3>1 DEF CallsInv
  <2>3. stack' = Append(Front(stack), IF next \in DOMAIN arrays[e.z] /\ holders[h] THEN went ELSE skipped)
    BY <1>4 DEF CallNext, Live
  <2> HIDE DEF e
  <2>4. next \in DOMAIN arrays[e.z] /\ (holders[h] => CallsSound(went, arrays, holders))
        /\ (~holders[h] => CallsSound(skipped, arrays, holders))
    BY <2>1, <2>2, NextCallIsSound
  <2> HIDE DEF went, skipped, h, next
  <2> QED
    BY <1>0, <2>1, <2>3, <2>4, CallsInvGoesOn
<1>5. CASE Return
  <2> DEFINE e == Last(stack)
             back == [e EXCEPT !.inside = FALSE]
  <2>1. stack # <<>> /\ stack' = Append(Front(stack), back) /\ UNCHANGED <<arrays, listeners, holders, byName>>
    BY <1>5 DEF Return
  <2>2. CallsSound(e, arrays, holders)
    <3>1. Len(stack) \in 1 .. Len(stack) /\ e = stack[Len(stack)]
      BY <1>0, <2>1 DEF Last
    <3> QED
      BY <3>1 DEF CallsInv
  <2> HIDE DEF e
  <2>3. CallsSound(back, arrays, holders)
    <3>1. DOMAIN e = EventFields
      BY <2>2 DEF CallsSound
    <3>2. /\ DOMAIN back = EventFields /\ back.z = e.z /\ back.n = e.n /\ back.i = e.i
          /\ back.atStart = e.atStart /\ back.called = e.called
      BY <3>1 DEF EventFields
    <3> HIDE DEF back
    <3> QED
      BY <2>2, <3>2 DEF CallsSound
  <2> HIDE DEF back
  <2> QED
    BY <1>0, <2>1, <2>3, CallsInvGoesOn
<1>6. CASE Finish
  <2> DEFINE depth == Len(stack) - 1
  <2>1. /\ stack # <<>> /\ stack' = SubSeq(stack, 1, depth)
        /\ UNCHANGED <<arrays, listeners, holders, byName>>
    BY <1>6 DEF Finish, UserRuns, Front
  <2>2. depth \in 0 .. Len(stack) - 1
    BY <1>0, <2>1
  <2> HIDE DEF depth
  <2> QED
    BY <1>0, <2>1, <2>2, CallsInvPopped
<1>7. ASSUME NEW depth \in 0 .. Len(stack) - 1, Throw(depth) PROVE CallsInv'
  <2>1. stack' = SubSeq(stack, 1, depth) /\ UNCHANGED <<arrays, listeners, holders, byName>>
    BY <1>7 DEF Throw
  <2> QED
    BY <1>0, <2>1, CallsInvPopped
<1>8. ASSUME NEW name \in Names, NEW add \in BOOLEAN, On(name, add) PROVE CallsInv'
  BY <1>0, <1>8, CallsInvOn
<1>9. ASSUME NEW add \in BOOLEAN, OnNode(add) PROVE CallsInv'
  BY <1>1, <1>9 DEF OnNode
<1> QED
  BY <1>1, <1>2, <1>3, <1>4, <1>5, <1>6, <1>7, <1>8, <1>9 DEF DispatchNext, dispatchVars

(***************************************************************************)
(* A dispatch calls every listener that was registered when it began and   *)
(* still is, once and in the order of registration, whatever is added,     *)
(* removed, fired and thrown meanwhile, to any depth (d3.js:512-538).      *)
(***************************************************************************)
THEOREM ListenersAreCalledOnce == DispatchSpec => []EveryListenerCalledOnce
<1>1. DispatchInit => CallsInv
  <2> SUFFICES ASSUME DispatchInit PROVE CallsInv
    OBVIOUS
  <2>1. /\ stack = <<>> /\ event = 0 /\ arrays = << <<>> >> /\ listeners = 1 /\ holders = <<>>
        /\ byName = [name \in Names |-> 0]
    BY DEF DispatchInit
  <2>2. EventInv
    <3>1. stack \in Seq({})
      BY <2>1
    <3> QED
      BY <2>1, <3>1 DEF EventInv
  <2>3. /\ arrays \in Seq(Seq(Nat)) /\ holders \in Seq(BOOLEAN) /\ Len(arrays) = 1 /\ Len(holders) = 0
        /\ arrays[1] = <<>> /\ Len(stack) = 0
    BY <2>1
  <2>4. Registered(arrays[1], holders)
    BY <2>3 DEF Registered, Rising
  <2>5. ListsSound(arrays, holders)
    BY <2>3, <2>4 DEF ListsSound
  <2> QED
    BY <2>1, <2>2, <2>3, <2>5 DEF CallsInv
<1>2. CallsInv => EveryListenerCalledOnce
  <2> SUFFICES ASSUME CallsInv, NEW d \in DOMAIN stack
               PROVE  LET e == stack[d]
                      IN  /\ \A j, k \in DOMAIN e.called : j < k => e.called[j] < e.called[k]
                          /\ ToSet(e.called) \subseteq ToSet(e.atStart)
                          /\ e.i = e.n /\ ~e.inside =>
                                 {h \in ToSet(e.atStart) : Live(h)} \subseteq ToSet(e.called)
    BY DEF EveryListenerCalledOnce
  <2> DEFINE e == stack[d]
  <2>1. CallsSound(e, arrays, holders)
    <3>1. d \in 1 .. Len(stack)
      BY DEF CallsInv, EventInv
    <3> QED
      BY <3>1 DEF CallsInv
  <2> HIDE DEF e
  <2>2. /\ e.called \in Seq(Nat) /\ e.atStart \in Seq(Nat) /\ Rising(e.called)
        /\ e.n = Len(e.atStart) /\ e.n \in Nat /\ e.i \in 0 .. e.n
    BY <2>1 DEF CallsSound, Called
  <2>3. DOMAIN e.called = 1 .. Len(e.called) /\ DOMAIN e.atStart = 1 .. Len(e.atStart)
    BY <2>2
  <2>4. \A j, k \in DOMAIN e.called : j < k => e.called[j] < e.called[k]
    BY <2>2, <2>3 DEF Rising
  <2>5. ToSet(e.called) \subseteq ToSet(e.atStart)
    <3>1. \A k \in 1 .. Len(e.called) : \E j \in 1 .. e.n : e.called[k] = e.atStart[j]
      <4>1. 1 .. e.i \subseteq 1 .. e.n
        BY <2>2
      <4> QED
        BY <2>1, <4>1 DEF CallsSound, Called
    <3>2. /\ ToSet(e.called) = {e.called[k] : k \in 1 .. Len(e.called)}
          /\ ToSet(e.atStart) = {e.atStart[j] : j \in 1 .. e.n}
      BY <2>2, <2>3 DEF ToSet
    <3> QED
      BY <3>1, <3>2
  <2>6. e.i = e.n => {h \in ToSet(e.atStart) : Live(h)} \subseteq ToSet(e.called)
    <3> SUFFICES ASSUME e.i = e.n, NEW h \in ToSet(e.atStart), Live(h) PROVE h \in ToSet(e.called)
      OBVIOUS
    <3>1. PICK j \in 1 .. e.n : e.atStart[j] = h
      BY <2>2, <2>3 DEF ToSet
    <3>2. j \in 1 .. e.i /\ holders[e.atStart[j]]
      BY <3>1 DEF Live
    <3>3. \A l \in 1 .. e.i : holders[e.atStart[l]] => \E k \in 1 .. Len(e.called) : e.called[k] = e.atStart[l]
      BY <2>1 DEF CallsSound, Called
    <3>4. PICK k \in 1 .. Len(e.called) : e.called[k] = e.atStart[j]
      BY <3>2, <3>3
    <3> QED
      BY <2>3, <3>1, <3>4 DEF ToSet
  <2> QED
    BY <2>4, <2>5, <2>6 DEF e
<1> QED
  BY <1>1, <1>2, CallsInvNext, PTL DEF DispatchSpec

-----------------------------------------------------------------------------
(***************************************************************************)
(* Brushes: the arithmetic of a move.                                      *)
(***************************************************************************)
LEMMA OfTwo ==
    ASSUME NEW p \in Int, NEW q \in Int
    PROVE  /\ Min({p, q}) = IF p <= q THEN p ELSE q
           /\ Max({p, q}) = IF p <= q THEN q ELSE p
<1>1. \A m \in {p, q} : (\A n \in {p, q} : m <= n) => m = IF p <= q THEN p ELSE q
  OBVIOUS
<1>2. \E m \in {p, q} : \A n \in {p, q} : m <= n
  OBVIOUS
<1>3. \A m \in {p, q} : (\A n \in {p, q} : m >= n) => m = IF p <= q THEN q ELSE p
  OBVIOUS
<1>4. \E m \in {p, q} : \A n \in {p, q} : m >= n
  OBVIOUS
<1> QED
  BY <1>1, <1>2, <1>3, <1>4 DEF Min, Max

LEMMA SortedIs ==
    ASSUME NEW p \in Int, NEW q \in Int
    PROVE  /\ Sorted(p, q) \in [lo : Int, hi : Int]
           /\ Sorted(p, q).lo <= Sorted(p, q).hi
           /\ p \in {Sorted(p, q).lo, Sorted(p, q).hi} /\ q \in {Sorted(p, q).lo, Sorted(p, q).hi}
           /\ Sorted(p, q).lo \in {p, q} /\ Sorted(p, q).hi \in {p, q}
BY OfTwo DEF Sorted

LEMMA ClampIs ==
    ASSUME NEW p \in Int, NEW r0 \in Int, NEW r1 \in Int
    PROVE  /\ Clamp(p, r0, r1) \in Int
           /\ r0 <= r1 => Clamp(p, r0, r1) \in r0 .. r1
<1> DEFINE m == Min({r1, p})
<1>1. m \in Int /\ m <= r1
  BY OfTwo
<1>2. Clamp(p, r0, r1) = Max({r0, m})
  BY DEF Clamp
<1> HIDE DEF m
<1>3. Max({r0, m}) = IF r0 <= m THEN m ELSE r0
  BY <1>1, OfTwo
<1> QED
  BY <1>1, <1>2, <1>3

(***************************************************************************)
(* The state of a brush and of a gesture.                                  *)
(***************************************************************************)
Dims == {1, 2}

Range1 == [lo : Int, hi : Int]

GestureFields == {"brush", "drag", "resize", "offset", "center", "dims", "plain"}

SoundGesture(g) ==
    /\ DOMAIN g = GestureFields
    /\ g.brush \in Brushes /\ g.dims \subseteq Scales[g.brush]
    /\ g.drag \in {"no", "extent", "space"} /\ g.plain \in BOOLEAN
    /\ g.offset \in [Dims -> Int] /\ (g.center # Nothing => g.center \in [Dims -> Int])

\* Where the next move starts from; the space bar keeps it relative to the upper end.
Anchored(g, ext) ==
    g.plain =>
        /\ g.drag = "no" => \A i \in g.dims : g.offset[i] \in {ext[i].lo, ext[i].hi}
        /\ g.drag = "space" => \A i \in g.dims : g.offset[i] \in {0, ext[i].lo - ext[i].hi}

FitsIn(e) == 0 <= e.lo /\ e.lo <= e.hi /\ e.hi <= Size

AnchorFits(g) ==
    /\ g.drag = "no" => \A i \in g.dims : g.offset[i] \in 0 .. Size
    /\ g.drag = "space" => g.plain

BrushTyped ==
    /\ present \subseteq Brushes
    /\ extent \in [Brushes -> [Dims -> Range1]] /\ jumped \in BOOLEAN
    /\ gesture # Nothing => SoundGesture(gesture)

BrushInv ==
    /\ BrushTyped
    /\ gesture # Nothing => Anchored(gesture, extent[gesture.brush])
    /\ ~jumped => /\ \A b \in Brushes : \A i \in Dims : FitsIn(extent[b][i])
                  /\ gesture # Nothing => AnchorFits(gesture)

LEMMA ScalesAreDims == \A b \in Brushes : Scales[b] \subseteq Dims
BY BrushAssumption DEF Brushes, Dims

LEMMA PointsAreIntegers == ASSUME NEW b \in Brushes PROVE Points(b) \subseteq [Dims -> Int]
<1> SUFFICES ASSUME NEW p \in Points(b) PROVE p \in [Dims -> Int]
  OBVIOUS
<1>1. Mouse[1] \cup Mouse[2] \subseteq Int
  BY BrushAssumption
<1>2. p \in [Dims -> Mouse[1] \cup Mouse[2]]
  BY DEF Points, Dims
<1> QED
  BY <1>1, <1>2

\* What ALT makes of a gesture.
LEMMA CenteredIs ==
    ASSUME NEW g, SoundGesture(g), NEW ext \in [Dims -> Range1], NEW p \in [Dims -> Int],
           NEW alt \in BOOLEAN
    PROVE  LET c == Centered(g, ext, p, alt)
           IN  /\ SoundGesture(c) /\ c.brush = g.brush /\ c.dims = g.dims /\ c.drag = g.drag
               /\ g.drag # "no" => c = g
               /\ g.drag = "no" /\ ~alt => c.center = Nothing /\ c.offset = g.offset
               /\ g.drag = "no" /\ alt =>
                      ~c.plain /\ \A i \in Dims : c.offset[i] \in {ext[i].lo, ext[i].hi}
<1> DEFINE center == IF g.center = Nothing THEN [i \in {1, 2} |-> ext[i].lo + ext[i].hi] ELSE g.center
           away == [i \in {1, 2} |-> IF 2 * p[i] < center[i] THEN ext[i].hi ELSE ext[i].lo]
           c == Centered(g, ext, p, alt)
<1>1. center \in [Dims -> Int]
  BY DEF SoundGesture, Dims, Range1
<1>2. away \in [Dims -> Int] /\ \A i \in Dims : away[i] \in {ext[i].lo, ext[i].hi}
  <2> HIDE DEF center
  <2> QED
    BY DEF Dims, Range1
<1>3. c = IF g.drag # "no" THEN g
          ELSE IF ~alt THEN [g EXCEPT !.center = Nothing]
          ELSE [g EXCEPT !.center = center, !.plain = FALSE, !.offset = away]
  BY DEF Centered
<1> HIDE DEF center, away, c
<1>4. CASE g.drag # "no"
  BY <1>3, <1>4 DEF c
<1>5. CASE g.drag = "no" /\ ~alt
  <2>1. c = [g EXCEPT !.center = Nothing]
    BY <1>3, <1>5
  <2>2. /\ DOMAIN c = GestureFields /\ c.brush = g.brush /\ c.dims = g.dims /\ c.drag = g.drag
        /\ c.plain = g.plain /\ c.offset = g.offset /\ c.center = Nothing
    BY <2>1 DEF SoundGesture, GestureFields
  <2> QED
    BY <1>5, <2>2 DEF SoundGesture, c
<1>6. CASE g.drag = "no" /\ alt
  <2>1. c = [g EXCEPT !.center = center, !.plain = FALSE, !.offset = away]
    BY <1>3, <1>6
  <2>2. /\ DOMAIN c = GestureFields /\ c.brush = g.brush /\ c.dims = g.dims /\ c.drag = g.drag
        /\ c.plain = FALSE /\ c.offset = away /\ c.center = center
    BY <2>1 DEF SoundGesture, GestureFields
  <2> QED
    BY <1>1, <1>2, <1>6, <2>2 DEF SoundGesture, c
<1> QED
  BY <1>4, <1>5, <1>6

\* One dimension of a move.
LEMMA Move1Is ==
    ASSUME NEW g, SoundGesture(g), NEW e \in Range1, NEW q \in Int, NEW i \in Dims
    PROVE  LET m == Move1(g, e, q, i)
           IN  /\ m \in Range1
               /\ g.drag # "no" => m.hi - m.lo = e.hi - e.lo
               /\ g.drag = "no" /\ g.center = Nothing => g.offset[i] \in {m.lo, m.hi}
               /\ FitsIn(e) /\ (g.drag = "no" => g.offset[i] \in 0 .. Size) => FitsIn(m)
<1> DEFINE off == g.offset[i]
           wide == e.hi - e.lo
           d == Clamp(q, -off, Size - wide - off)
           at == Clamp(q, 0, Size)
           m == Move1(g, e, q, i)
<1>0. Size \in Nat
  BY BrushAssumption
<1>1. off \in Int /\ e.lo \in Int /\ e.hi \in Int /\ wide \in Int
  BY DEF SoundGesture, Range1
<1>2. at \in 0 .. Size /\ at \in Int
  BY <1>0, ClampIs
<1>3. CASE g.drag # "no"
  <2>1. m = [lo |-> d + off, hi |-> d + off + wide]
    BY <1>3 DEF Move1
  <2>2. /\ -off \in Int /\ Size - wide - off \in Int
    BY <1>0, <1>1
  <2>3. d \in Int /\ (-off <= Size - wide - off => d \in -off .. Size - wide - off)
    <3> HIDE DEF off, wide
    <3> QED
      BY <2>2, ClampIs
  <2>4. FitsIn(e) => 0 <= wide /\ wide <= Size
    BY <1>0, <1>1 DEF FitsIn
  <2> HIDE DEF off, d, m
  <2>5. m.lo = d + off /\ m.hi = d + off + wide /\ m \in Range1
    BY <1>1, <2>1, <2>3 DEF Range1
  <2>6. m.hi - m.lo = wide
    BY <1>1, <2>3, <2>5
  <2>7. FitsIn(e) => FitsIn(m)
    BY <1>0, <1>1, <2>3, <2>4, <2>5 DEF FitsIn
  <2> QED
    BY <1>3, <2>5, <2>6, <2>7 DEF m
<1>4. CASE g.drag = "no" /\ g.center # Nothing
  <2> DEFINE other == Clamp(g.center[i] - at, 0, Size)
  <2>1. m = Sorted(at, other)
    BY <1>4 DEF Move1
  <2>2. g.center[i] \in Int
    BY <1>4 DEF SoundGesture
  <2>3. other \in 0 .. Size /\ other \in Int
    <3> HIDE DEF at
    <3>1. g.center[i] - at \in Int /\ 0 \in Int /\ Size \in Int /\ 0 <= Size
      BY <1>0, <1>2, <2>2
    <3> QED
      BY <3>1, ClampIs
  <2> HIDE DEF at, other, m
  <2>4. m \in Range1 /\ m.lo <= m.hi /\ m.lo \in {at, other} /\ m.hi \in {at, other}
    BY <1>2, <2>1, <2>3, SortedIs DEF Range1
  <2>5. FitsIn(m)
    BY <1>0, <1>2, <2>3, <2>4 DEF FitsIn
  <2> QED
    BY <1>4, <2>4, <2>5 DEF m
<1>5. CASE g.drag = "no" /\ g.center = Nothing
  <2>1. m = Sorted(at, off)
    BY <1>5 DEF Move1
  <2> HIDE DEF at, off, m
  <2>2. m \in Range1 /\ off \in {m.lo, m.hi} /\ m.lo <= m.hi /\ m.lo \in {at, off} /\ m.hi \in {at, off}
    BY <1>1, <1>2, <2>1, SortedIs DEF Range1
  <2>3. off \in 0 .. Size => FitsIn(m)
    BY <1>0, <1>1, <1>2, <2>2 DEF FitsIn
  <2> QED
    BY <1>5, <2>2, <2>3 DEF m, off
<1> QED
  BY <1>3, <1>4, <1>5

\* A whole move: it keeps the ends in order and in the range, and leaves the point that the
\* next one starts from at an end of the extent.
LEMMA MoveKeeps ==
    ASSUME NEW g, SoundGesture(g), NEW ext \in [Dims -> Range1], NEW p \in [Dims -> Int],
           NEW alt \in BOOLEAN
    PROVE  LET c == Centered(g, ext, p, alt)
               m == Moved(c, ext, p)
           IN  /\ SoundGesture(c) /\ c.brush = g.brush /\ m \in [Dims -> Range1]
               /\ (g.drag = "space" => Anchored(g, ext)) => Anchored(c, m)
               /\ AnchorFits(g) /\ (\A i \in Dims : FitsIn(ext[i])) =>
                      AnchorFits(c) /\ \A i \in Dims : FitsIn(m[i])
<1> DEFINE c == Centered(g, ext, p, alt)
           m == Moved(c, ext, p)
<1>1. /\ SoundGesture(c) /\ c.brush = g.brush /\ c.dims = g.dims /\ c.drag = g.drag
      /\ g.drag # "no" => c = g
      /\ g.drag = "no" /\ ~alt => c.center = Nothing /\ c.offset = g.offset
      /\ g.drag = "no" /\ alt => ~c.plain /\ \A i \in Dims : c.offset[i] \in {ext[i].lo, ext[i].hi}
  BY CenteredIs
<1>2. m = [i \in Dims |-> IF i \in c.dims THEN Move1(c, ext[i], p[i], i) ELSE ext[i]]
  BY DEF Moved, Dims
<1> HIDE DEF c, m
<1>3. c.dims \subseteq Dims
  BY <1>1, ScalesAreDims DEF SoundGesture
<1>4. \A i \in c.dims :
         /\ m[i] \in Range1
         /\ c.drag # "no" => m[i].hi - m[i].lo = ext[i].hi - ext[i].lo
         /\ c.drag = "no" /\ c.center = Nothing => c.offset[i] \in {m[i].lo, m[i].hi}
         /\ FitsIn(ext[i]) /\ (c.drag = "no" => c.offset[i] \in 0 .. Size) => FitsIn(m[i])
  <2> SUFFICES ASSUME NEW i \in c.dims
               PROVE  /\ m[i] \in Range1
                      /\ c.drag # "no" => m[i].hi - m[i].lo = ext[i].hi - ext[i].lo
                      /\ c.drag = "no" /\ c.center = Nothing => c.offset[i] \in {m[i].lo, m[i].hi}
                      /\ FitsIn(ext[i]) /\ (c.drag = "no" => c.offset[i] \in 0 .. Size) => FitsIn(m[i])
    OBVIOUS
  <2>1. i \in Dims /\ ext[i] \in Range1 /\ p[i] \in Int
    BY <1>3
  <2>2. m[i] = Move1(c, ext[i], p[i], i)
    BY <1>2, <2>1
  <2> QED
    BY <1>1, <2>1, <2>2, Move1Is
<1>5. \A i \in Dims : i \notin c.dims => m[i] = ext[i]
  BY <1>2
<1>6. m \in [Dims -> Range1]
  <2>1. \A i \in Dims : m[i] \in Range1
    BY <1>4, <1>5
  <2> QED
    BY <1>2, <2>1
<1>7. ASSUME g.drag = "space" => Anchored(g, ext) PROVE Anchored(c, m)
  <2>1. CASE g.drag = "no"
    BY <1>1, <1>4, <2>1 DEF Anchored
  <2>2. CASE g.drag = "space"
    <3>1. c = g /\ c.drag = "space" /\ c.drag # "no"
      BY <1>1, <2>2
    <3>2. \A i \in c.dims : ext[i].lo - ext[i].hi = m[i].lo - m[i].hi
      <4> SUFFICES ASSUME NEW i \in c.dims PROVE ext[i].lo - ext[i].hi = m[i].lo - m[i].hi
        OBVIOUS
      <4>1. i \in Dims /\ ext[i] \in Range1 /\ m[i] \in Range1
        BY <1>3, <1>6
      <4>2. m[i].hi - m[i].lo = ext[i].hi - ext[i].lo
        BY <1>4, <3>1
      <4> HIDE DEF Dims
      <4>3. \A e1, e2 \in Range1 : e2.hi - e2.lo = e1.hi - e1.lo => e1.lo - e1.hi = e2.lo - e2.hi
        BY DEF Range1
      <4> QED
        BY <4>1, <4>2, <4>3
    <3> QED
      BY <1>7, <2>2, <3>1, <3>2 DEF Anchored
  <2>3. CASE g.drag = "extent"
    BY <1>1, <2>3 DEF Anchored
  <2> QED
    BY <2>1, <2>2, <2>3 DEF SoundGesture
<1>8. ASSUME AnchorFits(g), \A i \in Dims : FitsIn(ext[i])
      PROVE  AnchorFits(c) /\ \A i \in Dims : FitsIn(m[i])
  <2>1. AnchorFits(c)
    <3>1. CASE g.drag # "no"
      BY <1>1, <1>8, <3>1
    <3>2. CASE g.drag = "no" /\ ~alt
      BY <1>1, <1>8, <3>2 DEF AnchorFits
    <3>3. CASE g.drag = "no" /\ alt
      <4>1. \A i \in Dims : ext[i].lo \in 0 .. Size /\ ext[i].hi \in 0 .. Size
        BY <1>8, BrushAssumption DEF FitsIn, Range1
      <4> QED
        BY <1>1, <1>3, <3>3, <4>1 DEF AnchorFits
    <3> QED
      BY <3>1, <3>2, <3>3
  <2>2. c.drag = "no" => \A i \in c.dims : c.offset[i] \in 0 .. Size
    BY <2>1 DEF AnchorFits
  <2> QED
    BY <1>3, <1>4, <1>5, <1>8, <2>1, <2>2
<1> QED
  BY <1>1, <1>6, <1>7, <1>8 DEF c, m

LEMMA BegunIs ==
    ASSUME BrushTyped, NEW b \in Brushes, NEW drag \in {"no", "extent"}, NEW side,
           NEW anchor \in [Dims -> Int], NEW center, center # Nothing => center \in [Dims -> Int]
    PROVE  LET g == Begun(b, drag, side, anchor, center)
           IN  SoundGesture(g) /\ g.brush = b /\ g.drag = drag /\ g.offset = anchor
<1> DEFINE left == IF gesture = Nothing THEN [resize |-> Nothing, center |-> Nothing] ELSE gesture
           resize == IF side = Nothing THEN left.resize ELSE side
           mid == IF center = Nothing THEN left.center ELSE center
           some == {i \in Scales[b] : resize = Nothing \/ resize[i] # ""}
           g == Begun(b, drag, side, anchor, center)
<1>1. mid # Nothing => mid \in [Dims -> Int]
  BY DEF BrushTyped, SoundGesture
<1>2. g = [brush |-> b, drag |-> drag, resize |-> resize, offset |-> anchor, center |-> mid,
           dims |-> some, plain |-> TRUE]
  BY DEF Begun
<1>3. some \subseteq Scales[b]
  OBVIOUS
<1> HIDE DEF resize, mid, some, g
<1> QED
  BY <1>1, <1>2, <1>3 DEF SoundGesture, GestureFields, g

LEMMA BeginKeeps ==
    ASSUME BrushInv, UNCHANGED present,
           NEW g, SoundGesture(g), g.drag # "space", ~jumped => AnchorFits(g),
           NEW p \in [Dims -> Int], NEW alt \in BOOLEAN, Begin(g, p, alt)
    PROVE  BrushInv'
<1> DEFINE c == Centered(g, extent[g.brush], p, alt)
           m == Moved(c, extent[g.brush], p)
<1>1. g.brush \in Brushes /\ extent[g.brush] \in [Dims -> Range1]
  BY DEF BrushInv, BrushTyped, SoundGesture
<1>2. /\ SoundGesture(c) /\ c.brush = g.brush /\ m \in [Dims -> Range1] /\ Anchored(c, m)
      /\ AnchorFits(g) /\ (\A i \in Dims : FitsIn(extent[g.brush][i])) =>
             AnchorFits(c) /\ \A i \in Dims : FitsIn(m[i])
  BY <1>1, MoveKeeps
<1>3. gesture' = c /\ extent' = [extent EXCEPT ![g.brush] = m] /\ jumped' = jumped
  BY DEF Begin
<1> HIDE DEF c, m
<1>4. BrushTyped'
  BY <1>1, <1>2, <1>3 DEF BrushInv, BrushTyped, SoundGesture, Brushes
<1>5. extent'[g.brush] = m /\ \A b \in Brushes : b # g.brush => extent'[b] = extent[b]
  BY <1>1, <1>3 DEF BrushInv, BrushTyped
<1>6. Anchored(gesture', extent'[gesture'.brush])
  BY <1>2, <1>3, <1>5
<1>7. ASSUME ~jumped
      PROVE  AnchorFits(gesture') /\ \A b \in Brushes : \A i \in Dims : FitsIn(extent'[b][i])
  BY <1>1, <1>2, <1>3, <1>5, <1>7 DEF BrushInv
<1> QED
  BY <1>3, <1>4, <1>6, <1>7 DEF BrushInv, Anchored, AnchorFits, Brushes, FitsIn

(***************************************************************************)
(* One step of the page keeps BrushInv.                                    *)
(***************************************************************************)
LEMMA BrushInvNext == BrushInv /\ [BrushNext]_brushVars => BrushInv'
<1> SUFFICES ASSUME BrushInv, [BrushNext]_brushVars PROVE BrushInv'
  OBVIOUS
<1> USE DEF BrushInv
<1>0. Size \in Nat /\ \A b \in present : b \in Brushes
  BY BrushAssumption DEF BrushTyped
<1>1. ASSUME NEW b \in present, NEW p \in Points(b), NEW alt \in BOOLEAN, UNCHANGED present,
             DownBackground(b, p, alt)
      PROVE  BrushInv'
  <2> DEFINE mid == IF alt THEN [i \in {1, 2} |-> 2 * p[i]] ELSE Nothing
             g == Begun(b, "no", Nothing, p, mid)
  <2>1. p \in [Dims -> Int] /\ b \in Brushes
    BY <1>0, PointsAreIntegers
  <2>2. mid # Nothing => mid \in [Dims -> Int]
    BY <2>1 DEF Dims
  <2>3. (\A i \in Scales[b] : p[i] \in 0 .. Size) /\ Begin(g, p, alt)
    BY <1>1 DEF DownBackground
  <2> HIDE DEF mid
  <2>4. SoundGesture(g) /\ g.brush = b /\ g.drag = "no" /\ g.offset = p
    BY <2>1, <2>2, BegunIs
  <2>5. AnchorFits(g)
    BY <2>3, <2>4 DEF AnchorFits, SoundGesture
  <2> HIDE DEF g
  <2> QED
    BY <1>1, <2>1, <2>3, <2>4, <2>5, BeginKeeps
<1>2. ASSUME NEW b \in present, NEW p \in Points(b), NEW alt \in BOOLEAN, UNCHANGED present,
             DownExtent(b, p, alt)
      PROVE  BrushInv'
  <2> DEFINE anchor == Grabbed(b, p)
             g == Begun(b, "extent", Nothing, anchor, Nothing)
  <2>1. p \in [Dims -> Int] /\ b \in Brushes
    BY <1>0, PointsAreIntegers
  <2>2. anchor \in [Dims -> Int]
    <3>1. \A i \in Dims : extent[b][i].lo \in Int
      BY <2>1 DEF BrushTyped, Range1
    <3> QED
      BY <2>1, <3>1 DEF Grabbed, Dims
  <2>3. Begin(g, p, alt)
    BY <1>2 DEF DownExtent
  <2> HIDE DEF anchor
  <2>4. SoundGesture(g) /\ g.brush = b /\ g.drag = "extent"
    BY <2>1, <2>2, BegunIs
  <2>5. AnchorFits(g)
    BY <2>4 DEF AnchorFits
  <2> HIDE DEF g
  <2> QED
    BY <1>2, <2>1, <2>3, <2>4, <2>5, BeginKeeps
<1>3. ASSUME NEW b \in present, NEW p \in Points(b), NEW alt \in BOOLEAN, UNCHANGED present,
             NEW s \in Sides(b), DownSide(b, s, p, alt)
      PROVE  BrushInv'
  <2> DEFINE anchor == Opposite(b, s)
             g == Begun(b, "no", s, anchor, Nothing)
  <2>1. p \in [Dims -> Int] /\ b \in Brushes
    BY <1>0, PointsAreIntegers
  <2>2. /\ anchor \in [Dims -> Int]
        /\ \A i \in Dims : anchor[i] \in {extent[b][i].lo, extent[b][i].hi}
    <3>1. \A i \in Dims : extent[b][i].lo \in Int /\ extent[b][i].hi \in Int
      BY <2>1 DEF BrushTyped, Range1
    <3>2. anchor = [i \in Dims |-> IF s[i] \in {"w", "n"} THEN extent[b][i].hi ELSE extent[b][i].lo]
      BY DEF Opposite, Dims
    <3> HIDE DEF anchor
    <3> QED
      BY <3>1, <3>2
  <2>3. Begin(g, p, alt)
    BY <1>3 DEF DownSide
  <2> HIDE DEF anchor
  <2>4. SoundGesture(g) /\ g.brush = b /\ g.drag = "no" /\ g.offset = anchor
    BY <2>1, <2>2, BegunIs
  <2>5. ~jumped => AnchorFits(g)
    <3> SUFFICES ASSUME ~jumped PROVE AnchorFits(g)
      OBVIOUS
    <3>1. \A i \in Dims : extent[b][i].lo \in 0 .. Size /\ extent[b][i].hi \in 0 .. Size
      BY <1>0, <2>1 DEF BrushTyped, Range1, FitsIn
    <3>2. g.dims \subseteq Dims
      BY <2>4, ScalesAreDims DEF SoundGesture
    <3> QED
      BY <2>2, <2>4, <3>1, <3>2 DEF AnchorFits
  <2> HIDE DEF g
  <2> QED
    BY <1>3, <2>1, <2>3, <2>4, <2>5, BeginKeeps
<1>4. ASSUME NEW p, NEW alt \in BOOLEAN, UNCHANGED present, BrushMove(p, alt) \/ BrushUp(p, alt)
      PROVE  BrushInv'
  <2> DEFINE b == gesture.brush
             c == Centered(gesture, extent[b], p, alt)
             m == Moved(c, extent[b], p)
  <2>1. gesture # Nothing /\ p \in Points(b)
    BY <1>4 DEF BrushMove, BrushUp
  <2>2. SoundGesture(gesture) /\ b \in Brushes /\ extent[b] \in [Dims -> Range1]
    BY <2>1 DEF BrushTyped, SoundGesture
  <2>3. p \in [Dims -> Int]
    BY <2>1, <2>2, PointsAreIntegers
  <2>4. /\ SoundGesture(c) /\ c.brush = b /\ m \in [Dims -> Range1] /\ Anchored(c, m)
        /\ AnchorFits(gesture) /\ (\A i \in Dims : FitsIn(extent[b][i])) =>
               AnchorFits(c) /\ \A i \in Dims : FitsIn(m[i])
    BY <2>1, <2>2, <2>3, MoveKeeps
  <2>5. extent' = [extent EXCEPT ![b] = m] /\ (gesture' = c \/ gesture' = Nothing) /\ jumped' = jumped
    <3>1. CASE BrushMove(p, alt)
      <4>1. gesture' = c /\ extent' = [extent EXCEPT ![c.brush] = m]
        BY <2>2, <2>4, <3>1 DEF BrushMove
      <4> HIDE DEF c, m
      <4> QED
        BY <2>4, <3>1, <4>1 DEF BrushMove
    <3>2. CASE BrushUp(p, alt)
      BY <3>2 DEF BrushUp
    <3> QED
      BY <1>4, <3>1, <3>2
  <2> HIDE DEF c, m
  <2>6. extent'[b] = m /\ \A other \in Brushes : other # b => extent'[other] = extent[other]
    BY <2>2, <2>5 DEF BrushTyped
  <2>7. BrushTyped'
    BY <1>4, <2>2, <2>4, <2>5 DEF BrushTyped, SoundGesture, Brushes
  <2>8. gesture' # Nothing => Anchored(gesture', extent'[gesture'.brush])
    BY <2>4, <2>5, <2>6
  <2>9. ASSUME ~jumped
        PROVE  /\ gesture' # Nothing => AnchorFits(gesture')
               /\ \A other \in Brushes : \A i \in Dims : FitsIn(extent'[other][i])
    BY <2>1, <2>2, <2>4, <2>5, <2>6, <2>9
  <2> QED
    BY <2>5, <2>7, <2>8, <2>9 DEF Anchored, AnchorFits, Brushes, FitsIn
<1>5. ASSUME UNCHANGED present, KeyDown PROVE BrushInv'
  <2> DEFINE b == gesture.brush
             rel == [i \in {1, 2} |-> gesture.offset[i] - extent[b][i].hi]
  <2>1. /\ gesture # Nothing /\ SoundGesture(gesture) /\ gesture.drag = "no"
        /\ jumped' = (jumped \/ ~gesture.plain) /\ extent' = extent
    BY <1>5 DEF KeyDown, BrushTyped
  <2>2. gesture' = [gesture EXCEPT !.center = Nothing, !.drag = "space", !.offset = rel]
    BY <1>5 DEF KeyDown
  <2>3. \A i \in Dims : gesture.offset[i] \in Int /\ extent[b][i].lo \in Int /\ extent[b][i].hi \in Int
    BY <2>1 DEF SoundGesture, BrushTyped, Range1
  <2>4. rel \in [Dims -> Int] /\ \A i \in Dims : rel[i] = gesture.offset[i] - extent[b][i].hi
    BY <2>3 DEF Dims
  <2> HIDE DEF rel
  <2>5. /\ DOMAIN gesture' = GestureFields /\ gesture'.brush = b /\ gesture'.dims = gesture.dims
        /\ gesture'.plain = gesture.plain /\ gesture'.offset = rel /\ gesture'.center = Nothing
        /\ gesture'.drag = "space"
    BY <2>1, <2>2 DEF SoundGesture, GestureFields
  <2>6. SoundGesture(gesture')
    BY <2>1, <2>4, <2>5 DEF SoundGesture
  <2>7. gesture.plain => \A i \in gesture.dims : rel[i] \in {0, extent[b][i].lo - extent[b][i].hi}
    <3> SUFFICES ASSUME gesture.plain, NEW i \in gesture.dims
                 PROVE  rel[i] \in {0, extent[b][i].lo - extent[b][i].hi}
      OBVIOUS
    <3>1. i \in Dims
      BY <2>1, ScalesAreDims DEF SoundGesture
    <3>2. gesture.offset[i] \in {extent[b][i].lo, extent[b][i].hi}
      BY <2>1 DEF Anchored
    <3> QED
      BY <2>3, <2>4, <3>1, <3>2
  <2>8. Anchored(gesture', extent'[gesture'.brush])
    BY <2>1, <2>5, <2>7 DEF Anchored
  <2>9. ~jumped' => AnchorFits(gesture')
    BY <2>1, <2>5 DEF AnchorFits
  <2>10. BrushTyped' /\ (~jumped' => ~jumped)
    BY <1>5, <2>1, <2>6 DEF BrushTyped, SoundGesture, Brushes
  <2> QED
    BY <2>1, <2>8, <2>9, <2>10 DEF Anchored, AnchorFits, Brushes, FitsIn
<1>6. ASSUME UNCHANGED present, KeyUp PROVE BrushInv'
  <2> DEFINE b == gesture.brush
             rel == [i \in {1, 2} |-> gesture.offset[i] + extent[b][i].hi]
  <2>1. /\ gesture # Nothing /\ SoundGesture(gesture) /\ gesture.drag = "space"
        /\ jumped' = jumped /\ extent' = extent
    BY <1>6 DEF KeyUp, BrushTyped
  <2>2. gesture' = [gesture EXCEPT !.drag = "no", !.offset = rel]
    BY <1>6 DEF KeyUp
  <2>3. \A i \in Dims : gesture.offset[i] \in Int /\ extent[b][i].lo \in Int /\ extent[b][i].hi \in Int
    BY <2>1 DEF SoundGesture, BrushTyped, Range1
  <2>4. rel \in [Dims -> Int] /\ \A i \in Dims : rel[i] = gesture.offset[i] + extent[b][i].hi
    BY <2>3 DEF Dims
  <2> HIDE DEF rel
  <2>5. /\ DOMAIN gesture' = GestureFields /\ gesture'.brush = b /\ gesture'.dims = gesture.dims
        /\ gesture'.plain = gesture.plain /\ gesture'.offset = rel /\ gesture'.center = gesture.center
        /\ gesture'.drag = "no"
    BY <2>1, <2>2 DEF SoundGesture, GestureFields
  <2>6. SoundGesture(gesture')
    BY <2>1, <2>4, <2>5 DEF SoundGesture
  <2>7. gesture.plain => \A i \in gesture.dims : rel[i] \in {extent[b][i].lo, extent[b][i].hi}
    <3> SUFFICES ASSUME gesture.plain, NEW i \in gesture.dims
                 PROVE  rel[i] \in {extent[b][i].lo, extent[b][i].hi}
      OBVIOUS
    <3>1. i \in Dims
      BY <2>1, ScalesAreDims DEF SoundGesture
    <3>2. gesture.offset[i] \in {0, extent[b][i].lo - extent[b][i].hi}
      BY <2>1 DEF Anchored
    <3> QED
      BY <2>3, <2>4, <3>1, <3>2
  <2>8. Anchored(gesture', extent'[gesture'.brush])
    BY <2>1, <2>5, <2>7 DEF Anchored
  <2>9. ASSUME ~jumped PROVE AnchorFits(gesture')
    <3>1. gesture.plain
      BY <2>1, <2>9 DEF AnchorFits
    <3>2. gesture.dims \subseteq Dims
      BY <2>1, ScalesAreDims DEF SoundGesture
    <3>3. \A i \in Dims : extent[b][i].lo \in 0 .. Size /\ extent[b][i].hi \in 0 .. Size
      BY <1>0, <2>1, <2>3, <2>9 DEF SoundGesture, FitsIn
    <3> QED
      BY <2>5, <2>7, <3>1, <3>2, <3>3 DEF AnchorFits
  <2>10. BrushTyped'
    BY <1>6, <2>1, <2>6 DEF BrushTyped, SoundGesture, Brushes
  <2> QED
    BY <2>1, <2>8, <2>9, <2>10 DEF Anchored, AnchorFits, Brushes, FitsIn
<1>7. ASSUME NEW b \in present, UNCHANGED present,
             Clear(b) \/ \E z \in {0, Size} \X {0, Size} : SetExtent(b, z)
      PROVE  BrushInv'
  <2>1. PICK ext : /\ Set(b, ext) /\ ext \in [Dims -> Range1]
                   /\ \A i \in Dims : FitsIn(extent[b][i]) => FitsIn(ext[i])
    <3>1. CASE Clear(b)
      <4> DEFINE none == [i \in {1, 2} |-> [lo |-> 0, hi |-> 0]]
      <4>1. Set(b, none)
        BY <3>1 DEF Clear
      <4>2. none \in [Dims -> Range1] /\ \A i \in Dims : FitsIn(none[i])
        BY <1>0 DEF Dims, Range1, FitsIn
      <4> QED
        BY <4>1, <4>2
    <3>2. ASSUME NEW z \in {0, Size} \X {0, Size}, SetExtent(b, z)
          PROVE  \E ext : /\ Set(b, ext) /\ ext \in [Dims -> Range1]
                          /\ \A i \in Dims : FitsIn(extent[b][i]) => FitsIn(ext[i])
      <4> DEFINE new == [i \in {1, 2} |-> IF i \in Scales[b] THEN ToPixels(i, z) ELSE extent[b][i]]
      <4>1. Set(b, new)
        BY <3>2 DEF SetExtent
      <4>2. \A i \in Dims : ToPixels(i, z) \in Range1 /\ FitsIn(ToPixels(i, z))
        <5> SUFFICES ASSUME NEW i \in Dims PROVE ToPixels(i, z) \in Range1 /\ FitsIn(ToPixels(i, z))
          OBVIOUS
        <5> DEFINE v == Scaled(i, z[1])
                   w == Scaled(i, z[2])
        <5>1. v \in 0 .. Size /\ w \in 0 .. Size /\ v \in Int /\ w \in Int
          BY <1>0 DEF Scaled
        <5>2. ToPixels(i, z) = Sorted(v, w)
          BY DEF ToPixels
        <5> HIDE DEF v, w
        <5>3. /\ Sorted(v, w) \in Range1 /\ Sorted(v, w).lo <= Sorted(v, w).hi
              /\ Sorted(v, w).lo \in {v, w} /\ Sorted(v, w).hi \in {v, w}
          BY <5>1, SortedIs DEF Range1
        <5> QED
          BY <1>0, <5>1, <5>2, <5>3 DEF FitsIn
      <4>3. \A i \in Dims : extent[b][i] \in Range1
        BY <1>0 DEF BrushTyped
      <4>4. new \in [Dims -> Range1] /\ \A i \in Dims : FitsIn(extent[b][i]) => FitsIn(new[i])
        BY <4>2, <4>3 DEF Dims
      <4> QED
        BY <4>1, <4>4
    <3> QED
      BY <1>7, <3>1, <3>2
  <2>2. /\ extent' = [extent EXCEPT ![b] = ext]
        /\ gesture' = IF gesture # Nothing THEN [gesture EXCEPT !.plain = FALSE] ELSE gesture
        /\ jumped' = (jumped \/ (gesture # Nothing /\ gesture.drag = "space"))
    BY <2>1 DEF Set
  <2>3. extent'[b] = ext /\ \A other \in Brushes : other # b => extent'[other] = extent[other]
    BY <1>0, <2>2 DEF BrushTyped
  <2>4. extent' \in [Brushes -> [Dims -> Range1]] /\ present' \subseteq Brushes /\ jumped' \in BOOLEAN
    BY <1>7, <2>1, <2>2 DEF BrushTyped
  <2>5. ~jumped' => ~jumped /\ \A other \in Brushes : \A i \in Dims : FitsIn(extent'[other][i])
    BY <1>0, <2>1, <2>2, <2>3
  <2>6. CASE gesture = Nothing
    BY <2>2, <2>4, <2>5, <2>6 DEF BrushTyped, Brushes, FitsIn
  <2>7. CASE gesture # Nothing
    <3>1. SoundGesture(gesture)
      BY <2>7 DEF BrushTyped
    <3>2. gesture' = [gesture EXCEPT !.plain = FALSE]
      BY <2>2, <2>7
    <3>3. /\ DOMAIN gesture' = GestureFields /\ gesture'.brush = gesture.brush
          /\ gesture'.dims = gesture.dims /\ gesture'.plain = FALSE /\ gesture'.drag = gesture.drag
          /\ gesture'.offset = gesture.offset /\ gesture'.center = gesture.center
      BY <3>1, <3>2 DEF SoundGesture, GestureFields
    <3>4. SoundGesture(gesture') /\ Anchored(gesture', extent'[gesture'.brush])
      BY <3>1, <3>3 DEF SoundGesture, Anchored
    <3>5. ~jumped' => AnchorFits(gesture')
      BY <2>2, <2>7, <3>3 DEF AnchorFits
    <3>6. BrushTyped'
      BY <2>4, <3>4 DEF BrushTyped, SoundGesture, Brushes
    <3> QED
      BY <2>5, <3>4, <3>5, <3>6 DEF Anchored, AnchorFits, Brushes, FitsIn
  <2> QED
    BY <2>6, <2>7
<1>8. ASSUME NEW b \in present, UNCHANGED present, Redraw(b) PROVE BrushInv'
  BY <1>8 DEF Redraw, BrushTyped, Anchored, AnchorFits, SoundGesture, Brushes, FitsIn
<1>9. CASE UNCHANGED brushVars
  BY <1>9 DEF brushVars, BrushTyped, Anchored, AnchorFits, SoundGesture, Brushes, FitsIn
<1> QED
  BY <1>1, <1>2, <1>3, <1>4, <1>5, <1>6, <1>7, <1>8, <1>9 DEF BrushNext

LEMMA BrushInvInit == BrushInit => BrushInv
<1> SUFFICES ASSUME BrushInit PROVE BrushInv
  OBVIOUS
<1>1. /\ present \subseteq Brushes /\ gesture = Nothing /\ jumped = FALSE
      /\ extent = [b \in Brushes |-> [i \in Dims |-> [lo |-> 0, hi |-> 0]]]
  BY BrushAssumption DEF BrushInit, Brushes, Dims
<1>2. extent \in [Brushes -> [Dims -> Range1]] /\ \A b \in Brushes : \A i \in Dims : FitsIn(extent[b][i])
  BY <1>1, BrushAssumption DEF Range1, FitsIn
<1> QED
  BY <1>1, <1>2 DEF BrushInv, BrushTyped

(***************************************************************************)
(* The ends of every extent are in order and in the range, in any number   *)
(* of brushes of any dimensions and for a mouse that may be anywhere:      *)
(* after every sequence of brushing, resizing, dragging, keys and calls of *)
(* the program but the space bar in a gesture with ALT (d3.js:4325-4365).  *)
(***************************************************************************)
THEOREM ExtentsStayInRange == BrushSpec => []ExtentInRange
<1>1. BrushInv => ExtentInRange
  BY ScalesAreDims DEF BrushInv, ExtentInRange, ExtentFits, FitsIn
<1> QED
  BY <1>1, BrushInvInit, BrushInvNext, PTL DEF BrushSpec

(***************************************************************************)
(* In a gesture without ALT that the program leaves alone the next move    *)
(* starts from an end of the extent, also after the space bar, and also    *)
(* when a gesture before was cut off (d3.js:4134-4141, 4266-4282).         *)
(***************************************************************************)
THEOREM AnchorsAreEdges == BrushSpec => []AnchorIsEdge
<1>1. BrushInv => AnchorIsEdge
  BY DEF BrushInv, AnchorIsEdge, Anchored
<1> QED
  BY <1>1, BrushInvInit, BrushInvNext, PTL DEF BrushSpec

-----------------------------------------------------------------------------
(***************************************************************************)
(* The word cloud: the arithmetic of the board.                            *)
(***************************************************************************)
LEMMA DivisionIs ==
    ASSUME NEW z \in Int, NEW n \in Nat \ {0}
    PROVE  \E q \in Int, m \in 0 .. n - 1 : z \div n = q /\ z % n = m /\ z = n * q + m
<1>1. z \div n \in Int /\ z % n \in 0 .. n - 1 /\ z = n * (z \div n) + (z % n)
  OBVIOUS
<1> QED
  BY <1>1

LEMMA DivisionBy ==
    ASSUME NEW z \in Int, NEW n \in Nat \ {0}, NEW q \in Int, NEW m \in 0 .. n - 1, z = n * q + m
    PROVE  z \div n = q /\ z % n = m
<1>1. PICK q1 \in Int, m1 \in 0 .. n - 1 : z \div n = q1 /\ z % n = m1 /\ z = n * q1 + m1
  BY DivisionIs
<1>2. n * (q1 - q) = m - m1
  <2>1. n * (q1 - q) = n * q1 - n * q
    OBVIOUS
  <2> QED
    BY <1>1, <2>1
<1>3. CASE q1 - q >= 1
  <2>1. n * (q1 - q) >= n
    BY <1>3
  <2> QED
    BY <1>2, <2>1
<1>4. CASE q1 - q <= -1
  <2>1. n * (q1 - q) <= -n
    BY <1>4
  <2> QED
    BY <1>2, <2>1
<1>5. CASE q1 = q
  BY <1>1, <1>5
<1> QED
  BY <1>3, <1>4, <1>5

\* The bit of the board that stands for a pixel.
BitOf(q) == <<q[2] * (Width \div Bits) + (q[1] \div Bits), q[1] % Bits>>

\* What a shift by a number modulo four integers comes to.
LEMMA ShiftIs ==
    ASSUME NEW z \in Int
    PROVE  \E q \in Int, m \in 0 .. Bits - 1 :
               /\ z = Bits * q + m /\ z \div Bits = q
               /\ (z % (4 * Bits)) % Bits = m
               /\ (Bits - (z % (4 * Bits))) % Bits = IF m = 0 THEN 0 ELSE Bits - m
<1>1. Bits \in Nat \ {0}
  BY CloudAssumption
<1>2. PICK n4 \in Nat \ {0} : n4 = 4 * Bits
  BY <1>1
<1>3. PICK q4 \in Int, m4 \in 0 .. n4 - 1 : z \div n4 = q4 /\ z % n4 = m4 /\ z = n4 * q4 + m4
  BY DivisionIs
<1>4. PICK k \in Int, m \in 0 .. Bits - 1 : m4 \div Bits = k /\ m4 % Bits = m /\ m4 = Bits * k + m
  BY <1>1, DivisionIs
<1>5. z = Bits * (4 * q4 + k) + m /\ 4 * q4 + k \in Int
  <2>1. n4 * q4 = Bits * (4 * q4)
    BY <1>1, <1>2
  <2>2. Bits * (4 * q4 + k) = Bits * (4 * q4) + Bits * k
    BY <1>1
  <2> QED
    BY <1>1, <1>3, <1>4, <2>1, <2>2
<1>6. z \div Bits = 4 * q4 + k
  BY <1>1, <1>5, DivisionBy
<1>7. (Bits - m4) % Bits = IF m = 0 THEN 0 ELSE Bits - m
  <2>1. Bits - m4 \in Int
    BY <1>1
  <2>2. CASE m = 0
    <3>1. Bits - m4 = Bits * (1 - k) + 0
      BY <1>1, <1>4, <2>2
    <3>2. 1 - k \in Int /\ 0 \in 0 .. Bits - 1
      BY <1>1
    <3>3. (Bits - m4) % Bits = 0
      BY <1>1, <2>1, <3>1, <3>2, DivisionBy
    <3> QED
      BY <2>2, <3>3
  <2>3. CASE m # 0
    <3>1. Bits - m4 = Bits * (-k) + (Bits - m)
      BY <1>1, <1>4
    <3>2. -k \in Int /\ Bits - m \in 0 .. Bits - 1
      BY <1>1, <2>3
    <3>3. (Bits - m4) % Bits = Bits - m
      BY <1>1, <2>1, <3>1, <3>2, DivisionBy
    <3> QED
      BY <2>3, <3>3
  <2> QED
    BY <2>2, <2>3
<1> QED
  BY <1>2, <1>3, <1>4, <1>5, <1>6, <1>7

\* A word takes the bits of all of its pixels.
LEMMA MaskCovers ==
    ASSUME NEW word, NEW p \in Int \X Int, Left(word, p) \in Int, word.y0 \in Int,
           NEW q \in word.sprite, q \in Int \X Int
    PROVE  BitOf(<<Left(word, p) + q[1], p[2] + word.y0 + q[2]>>) \in Mask(word, p)
<1>0. Bits \in Nat \ {0} /\ q[1] \in Int /\ q[2] \in Int /\ p[2] \in Int
  BY CloudAssumption
<1>1. PICK col \in Int : col = Left(word, p)
  OBVIOUS
<1>2. PICK k \in Int, m \in 0 .. Bits - 1 :
         /\ col = Bits * k + m /\ col \div Bits = k
         /\ (col % (4 * Bits)) % Bits = m
         /\ (Bits - (col % (4 * Bits))) % Bits = IF m = 0 THEN 0 ELSE Bits - m
  BY ShiftIs
<1>3. PICK c \in Int, bit \in 0 .. Bits - 1 : q[1] \div Bits = c /\ q[1] % Bits = bit /\ q[1] = Bits * c + bit
  BY <1>0, DivisionIs
<1>4. PICK up \in Int : up = (p[2] + word.y0 + q[2]) * (Width \div Bits)
  <2>1. Width \div Bits \in Int
    BY <1>0, DivisionIs, CloudAssumption
  <2>2. p[2] + word.y0 + q[2] \in Int
    BY <1>0
  <2> QED
    BY <2>1, <2>2
<1>5. PICK sum \in Int : sum = col + q[1]
  BY <1>0
<1>6. BitOf(<<Left(word, p) + q[1], p[2] + word.y0 + q[2]>>) = <<up + (sum \div Bits), sum % Bits>>
  BY <1>1, <1>4, <1>5 DEF BitOf
<1>7. CASE bit + m < Bits
  <2>1. <<up + k + c, bit + m>> \in Mask(word, p)
    BY <1>1, <1>2, <1>3, <1>4, <1>7 DEF Mask
  <2>2. sum = Bits * (k + c) + (bit + m)
    <3> DEFINE bk == Bits * k
               bc == Bits * c
               both == Bits * (k + c)
    <3>1. bk \in Int /\ bc \in Int /\ both = bk + bc
      BY <1>0
    <3>2. col = bk + m /\ q[1] = bc + bit
      BY <1>2, <1>3
    <3> HIDE DEF bk, bc, both
    <3>3. sum = both + (bit + m)
      BY <1>0, <1>5, <3>1, <3>2
    <3> QED
      BY <3>3 DEF both
  <2>3. k + c \in Int /\ bit + m \in 0 .. Bits - 1
    BY <1>0, <1>7
  <2>4. sum \div Bits = k + c /\ sum % Bits = bit + m
    BY <1>0, <2>2, <2>3, DivisionBy
  <2>5. up + (sum \div Bits) = up + k + c
    BY <2>4
  <2> QED
    BY <1>6, <2>1, <2>4, <2>5
<1>8. CASE bit + m >= Bits
  <2>1. m # 0 /\ bit >= Bits - m
    BY <1>0, <1>8
  <2>2. <<up + k + c + 1, bit - (Bits - m)>> \in Mask(word, p)
    BY <1>1, <1>2, <1>3, <1>4, <2>1 DEF Mask
  <2>3. sum = Bits * (k + c + 1) + (bit - (Bits - m))
    <3> DEFINE bk == Bits * k
               bc == Bits * c
               next == Bits * (k + c + 1)
    <3>1. bk \in Int /\ bc \in Int /\ next = bk + bc + Bits
      BY <1>0
    <3>2. col = bk + m /\ q[1] = bc + bit
      BY <1>2, <1>3
    <3> HIDE DEF bk, bc, next
    <3>3. sum = next + (bit - (Bits - m))
      BY <1>0, <1>5, <3>1, <3>2
    <3> QED
      BY <3>3 DEF next
  <2>4. k + c + 1 \in Int /\ bit - (Bits - m) \in 0 .. Bits - 1
    BY <1>0, <2>1
  <2>5. sum \div Bits = k + c + 1 /\ sum % Bits = bit - (Bits - m)
    BY <1>0, <2>3, <2>4, DivisionBy
  <2>6. up + (sum \div Bits) = up + k + c + 1
    BY <2>5
  <2> QED
    BY <1>6, <2>2, <2>5, <2>6
<1> QED
  BY <1>0, <1>7, <1>8

(***************************************************************************)
(* The state of a cloud: words, runs, and the steps that run inside of     *)
(* each other.                                                             *)
(***************************************************************************)
Rects == [left : Int, right : Int, top : Int, bottom : Int]

Tags == [rect : Rects, pixels : SUBSET (Int \X Int)]

WordTyped(w) ==
    /\ {"text", "sprite", "hasText"} \subseteq DOMAIN w /\ w.text \in DOMAIN Style \cup {Absent}
    /\ w.sprite # Absent => w.sprite \subseteq Int \X Int
    /\ w.hasText => /\ {"width", "y0", "y1"} \subseteq DOMAIN w
                    /\ w.width \in Int /\ w.y0 \in Int /\ w.y1 \in Int

WordsTyped(ws) == DOMAIN ws = Words /\ \A d \in Words : WordTyped(ws[d])

Named(ws) == \A d \in Words : ws[d].text \in DOMAIN Style

\* The tags of a run cover bits of its board, and none of them a pixel of another.
RunSound(run) ==
    /\ DOMAIN run = {"data", "i", "board", "bounds", "tags", "fate"}
    /\ run.data \in Seq(Words) /\ run.i \in Nat /\ run.bounds \in Rects \cup {Absent}
    /\ run.tags \in Seq(Tags)
    /\ \A k \in DOMAIN run.tags : \A q \in run.tags[k].pixels : BitOf(q) \in run.board
    /\ \A j, k \in DOMAIN run.tags : j # k => run.tags[j].pixels \cap run.tags[k].pixels = {}

\* The bounds tell whether a word was placed.
Settled(run) == run.bounds = Absent => run.tags = <<>>

Steps == [run : Nat, inside : BOOLEAN, fresh : BOOLEAN]

CloudInv ==
    /\ starts \in Nat /\ WordsTyped(words) /\ (starts > 0 => Named(words))
    /\ DOMAIN runs \subseteq 1 .. starts /\ \A r \in DOMAIN runs : RunSound(runs[r])
    /\ timer # Absent => timer = starts /\ timer \in DOMAIN runs
    /\ steps \in Seq(Steps) /\ \A k \in DOMAIN steps : steps[k].run \in DOMAIN runs
    /\ \A j, k \in DOMAIN steps : j < k => steps[j].run < steps[k].run
    /\ \A k \in DOMAIN steps : LET run == runs[steps[k].run]
                               IN  IF steps[k].inside THEN run.tags # <<>> ELSE Settled(run)
    /\ timer # Absent /\ (\A k \in DOMAIN steps : steps[k].run # timer) => Settled(runs[timer])

\* What a word is when it was read from the canvas.
LEMMA ReadIs ==
    ASSUME NEW w, WordTyped(w), w.hasText, NEW canvas
    PROVE  WordTyped(Read(w, canvas)) /\ Read(w, canvas).text = w.text
<1> DEFINE h == w.y1 - w.y0
           row == 0 .. w.width - 1
           set(i, j) == <<w.xoff + i, w.yoff + j>> \in canvas
           rows == {j \in 0 .. h - 1 : \E i \in row : set(i, j)}
           top == Min(rows \cup {h})
           image == {c \in row \X (0 .. h - top - 2) : set(c[1], top + c[2])}
           r == Read(w, canvas)
<1>1. h \in Int /\ row \subseteq Int
  BY DEF WordTyped
<1>2. top \in Int
  <2>1. \E m \in rows \cup {h} : \A n \in rows \cup {h} : m <= n
    <3>1. CASE h < 0
      <4>1. rows = {}
        BY <1>1, <3>1
      <4> HIDE DEF rows, h
      <4> QED
        BY <1>1, <4>1
    <3>2. CASE h >= 0
      <4>1. rows \subseteq Nat /\ h \in Nat
        BY <1>1, <3>2
      <4> HIDE DEF rows, h
      <4> QED
        BY <4>1, LeastOf
    <3> QED
      BY <1>1, <3>1, <3>2
  <2>2. rows \subseteq Int
    OBVIOUS
  <2> HIDE DEF rows, h
  <2> QED
    BY <1>1, <2>1, <2>2 DEF Min
<1>3. image \subseteq Int \X Int
  <2> DEFINE column == 0 .. h - top - 2
  <2>1. image \subseteq row \X column
    OBVIOUS
  <2>2. column \subseteq Int
    BY <1>1, <1>2
  <2> HIDE DEF image, row, column
  <2> QED
    BY <1>1, <2>1, <2>2
<1>4. r = [w EXCEPT !.y0 = @ + top, !.y1 = @ - 1, !.sprite = image]
  BY DEF Read
<1> HIDE DEF image, top, r
<1>5. /\ DOMAIN r = DOMAIN w /\ r.text = w.text /\ r.hasText = w.hasText /\ r.width = w.width
      /\ r.y0 = w.y0 + top /\ r.y1 = w.y1 - 1 /\ r.sprite = image
  BY <1>4 DEF WordTyped
<1>6. r.width \in Int /\ r.y0 \in Int /\ r.y1 \in Int /\ r.sprite \subseteq Int \X Int
  BY <1>2, <1>3, <1>5 DEF WordTyped
<1> QED
  BY <1>5, <1>6 DEF WordTyped, r

\* What cloudSprite makes of the words.
LEMMA SpritesAre ==
    ASSUME NEW ws, WordsTyped(ws), Named(ws), NEW data, NEW i
    PROVE  WordsTyped(Sprites(ws, data, i)) /\ Named(Sprites(ws, data, i))
<1> DEFINE rest == SubSeq(data, i, Len(data))
           at   == Packed([k \in DOMAIN rest |-> ws[rest[k]].text])
           last == i + Len(at) - 1
           canvas == UNION {{<<at[k][1] + p[1], at[k][2] + p[2]>> : p \in Style[ws[rest[k]].text].image} : k \in DOMAIN at}
           drawn == [d \in Words |->
             IF \E k \in DOMAIN at : rest[k] = d
             THEN LET k == SelectInSeq(rest, LAMBDA z : z = d)
                      t == ws[d].text
                  IN  [text |-> t, sprite |-> ws[d].sprite, hasText |-> TRUE, width |-> W(t),
                       xoff |-> at[k][1], yoff |-> at[k][2], y0 |-> -(H(t) \div 2), y1 |-> H(t) \div 2]
             ELSE ws[d]]
           all == [d \in Words |-> IF drawn[d].hasText /\ \E k \in 1 .. last : data[k] = d
                                   THEN Read(drawn[d], canvas) ELSE drawn[d]]
<1>1. Sprites(ws, data, i) = IF ws[data[i]].sprite # Absent THEN ws ELSE all
  BY DEF Sprites
<1> HIDE DEF rest, at, last, canvas
<1>2. ASSUME NEW d \in Words PROVE WordTyped(drawn[d]) /\ drawn[d].text = ws[d].text
  <2>1. WordTyped(ws[d]) /\ ws[d].text \in DOMAIN Style
    BY DEF WordsTyped, Named
  <2>2. CASE \E k \in DOMAIN at : rest[k] = d
    <3> DEFINE t == ws[d].text
               k == SelectInSeq(rest, LAMBDA z : z = d)
               e == [text |-> t, sprite |-> ws[d].sprite, hasText |-> TRUE, width |-> W(t),
                     xoff |-> at[k][1], yoff |-> at[k][2], y0 |-> -(H(t) \div 2), y1 |-> H(t) \div 2]
    <3>1. drawn[d] = e
      BY <2>2
    <3>2. W(t) \in Int
      BY <2>1, CloudAssumption DEF W
    <3>3. H(t) \div 2 \in Int /\ -(H(t) \div 2) \in Int
      BY <2>1, CloudAssumption DEF H
    <3>4. /\ DOMAIN e = {"text", "sprite", "hasText", "width", "xoff", "yoff", "y0", "y1"}
          /\ e.text = t /\ e.sprite = ws[d].sprite /\ e.width \in Int /\ e.y0 \in Int /\ e.y1 \in Int
      <4> HIDE DEF k
      <4> QED
        BY <3>2, <3>3
    <3> HIDE DEF e, drawn
    <3> QED
      BY <2>1, <3>1, <3>4 DEF WordTyped
  <2>3. CASE ~\E k \in DOMAIN at : rest[k] = d
    BY <2>1, <2>3
  <2> QED
    BY <2>2, <2>3
<1> HIDE DEF drawn
<1>3. \A d \in Words : WordTyped(all[d]) /\ all[d].text = ws[d].text
  BY <1>2, ReadIs
<1>4. DOMAIN all = Words
  OBVIOUS
<1> HIDE DEF all
<1> QED
  BY <1>1, <1>3, <1>4 DEF WordsTyped, Named

\* The rectangle of a word, and the bounds with it.
LEMMA RectIs ==
    ASSUME NEW word, word.width \in Int, word.y0 \in Int, word.y1 \in Int, NEW p \in Int \X Int
    PROVE  Left(word, p) \in Int /\ Rect(word, p) \in Rects
<1>1. p[1] \in Int /\ p[2] \in Int /\ word.width \div 2 \in Int
  OBVIOUS
<1>2. Left(word, p) \in Int /\ Right(word, p) \in Int
  BY <1>1 DEF Left, Right
<1> QED
  BY <1>1, <1>2 DEF Rect, Rects

LEMMA BoundsAre ==
    ASSUME NEW b \in Rects \cup {Absent}, NEW r \in Rects
    PROVE  Bounds(b, r) \in Rects /\ Bounds(b, r) # Absent
<1>1. Bounds(b, r) \in Rects
  <2>1. CASE b = Absent
    BY <2>1 DEF Bounds
  <2>2. CASE b # Absent
    <3>1. /\ b.left \in Int /\ b.right \in Int /\ b.top \in Int /\ b.bottom \in Int
          /\ r.left \in Int /\ r.right \in Int /\ r.top \in Int /\ r.bottom \in Int
      BY <2>2 DEF Rects
    <3>2. /\ Min({b.left, r.left}) \in Int /\ Max({b.right, r.right}) \in Int
          /\ Min({b.top, r.top}) \in Int /\ Max({b.bottom, r.bottom}) \in Int
      BY <3>1, OfTwo
    <3> QED
      BY <2>2, <3>2 DEF Bounds, Rects
  <2> QED
    BY <2>1, <2>2
<1> QED
  BY <1>1, CloudAssumption DEF Rects

\* The innermost step, and the stack after it changed.
LEMMA TopIs ==
    ASSUME CloudInv, steps # <<>>
    PROVE  /\ Len(steps) \in Nat /\ Len(steps) \in DOMAIN steps /\ DOMAIN steps = 1 .. Len(steps)
           /\ Top = steps[Len(steps)] /\ Top \in Steps /\ Top.run \in DOMAIN runs
           /\ \A k \in DOMAIN steps : k # Len(steps) => steps[k].run < Top.run
           /\ \A k \in DOMAIN steps : steps[k].run \in 1 .. starts
<1>1. steps \in Seq(Steps) /\ DOMAIN steps = 1 .. Len(steps) /\ Len(steps) \in Nat \ {0}
  BY DEF CloudInv
<1>2. Top = steps[Len(steps)] /\ Len(steps) \in DOMAIN steps
  BY <1>1 DEF Top, Last
<1>3. \A k \in DOMAIN steps : steps[k].run \in DOMAIN runs /\ steps[k].run \in 1 .. starts
  BY DEF CloudInv
<1>4. \A k \in DOMAIN steps : k # Len(steps) => k < Len(steps)
  BY <1>1
<1>5. \A k \in DOMAIN steps : k # Len(steps) => steps[k].run < Top.run
  BY <1>2, <1>4 DEF CloudInv
<1> QED
  BY <1>1, <1>2, <1>3, <1>5

LEMMA TopRemoved ==
    ASSUME CloudInv, steps # <<>>
    PROVE  /\ Front(steps) \in Seq(Steps) /\ Len(Front(steps)) = Len(steps) - 1
           /\ DOMAIN Front(steps) = DOMAIN steps \ {Len(steps)}
           /\ \A k \in DOMAIN Front(steps) : Front(steps)[k] = steps[k]
<1>1. steps \in Seq(Steps) /\ Len(steps) \in Nat \ {0}
  BY DEF CloudInv
<1>2. PICK n \in Nat : n = Len(steps) - 1
  BY <1>1
<1>3. Front(steps) = SubSeq(steps, 1, n)
  BY <1>2 DEF Front
<1>4. SubSeq(steps, 1, n) \in Seq(Steps) /\ Len(SubSeq(steps, 1, n)) = n
  BY <1>1, <1>2
<1>5. \A k \in 1 .. n : SubSeq(steps, 1, n)[k] = steps[k]
  BY <1>1, <1>2
<1>6. DOMAIN SubSeq(steps, 1, n) = 1 .. n /\ 1 .. n = DOMAIN steps \ {Len(steps)}
  BY <1>1, <1>2, <1>4
<1> QED
  BY <1>2, <1>3, <1>4, <1>5, <1>6

LEMMA TopReplaced ==
    ASSUME CloudInv, steps # <<>>, NEW e \in Steps
    PROVE  LET t == Append(Front(steps), e)
           IN  /\ t \in Seq(Steps) /\ DOMAIN t = DOMAIN steps /\ t[Len(steps)] = e
               /\ \A k \in DOMAIN steps : k # Len(steps) => t[k] = steps[k]
<1>1. steps \in Seq(Steps) /\ Len(steps) \in Nat \ {0}
  BY DEF CloudInv
<1>2. PICK t \in Seq(Steps) : t = Front(steps)
  BY TopRemoved
<1>3. Len(t) = Len(steps) - 1 /\ \A k \in 1 .. Len(steps) - 1 : t[k] = steps[k]
  BY <1>1, <1>2, TopRemoved
<1> QED
  BY <1>1, <1>2, <1>3

\* A step goes on with its run.
LEMMA GoesOn ==
    ASSUME CloudInv, steps # <<>>, UNCHANGED <<timer, starts>>,
           NEW e \in Steps, e.run = Top.run, steps' = Append(Front(steps), e),
           DOMAIN runs' = DOMAIN runs, RunSound(runs'[e.run]),
           \A r \in DOMAIN runs : r # e.run => runs'[r] = runs[r],
           IF e.inside THEN runs'[e.run].tags # <<>> ELSE Settled(runs'[e.run]),
           WordsTyped(words'), Named(words')
    PROVE  CloudInv'
<1>1. /\ steps' \in Seq(Steps) /\ DOMAIN steps' = DOMAIN steps /\ steps'[Len(steps)] = e
      /\ \A k \in DOMAIN steps : k # Len(steps) => steps'[k] = steps[k]
  BY TopReplaced
<1>2. /\ Len(steps) \in DOMAIN steps /\ Top = steps[Len(steps)] /\ Top.run \in DOMAIN runs
      /\ \A k \in DOMAIN steps : k # Len(steps) => steps[k].run < Top.run
      /\ \A k \in DOMAIN steps : steps[k].run \in 1 .. starts
  BY TopIs
<1>3. \A k \in DOMAIN steps : steps'[k].run = steps[k].run
  BY <1>1, <1>2
<1>4. \A r \in DOMAIN runs' : RunSound(runs'[r])
  BY DEF CloudInv
<1>5. \A k \in DOMAIN steps' : LET run == runs'[steps'[k].run]
                               IN  IF steps'[k].inside THEN run.tags # <<>> ELSE Settled(run)
  <2> SUFFICES ASSUME NEW k \in DOMAIN steps
               PROVE  IF steps'[k].inside THEN runs'[steps'[k].run].tags # <<>> ELSE Settled(runs'[steps'[k].run])
    BY <1>1
  <2>1. CASE k = Len(steps)
    BY <1>1, <2>1
  <2>2. CASE k # Len(steps)
    <3>1. steps'[k] = steps[k] /\ steps[k].run # e.run /\ steps[k].run \in DOMAIN runs
      BY <1>1, <1>2, <2>2 DEF CloudInv
    <3>2. runs'[steps[k].run] = runs[steps[k].run]
      BY <3>1
    <3> QED
      BY <3>1, <3>2 DEF CloudInv
  <2> QED
    BY <2>1, <2>2
<1>6. ASSUME timer # Absent, \A k \in DOMAIN steps' : steps'[k].run # timer
      PROVE  Settled(runs'[timer])
  BY <1>1, <1>2, <1>3, <1>6 DEF CloudInv
<1>7. \A j, k \in DOMAIN steps' : j < k => steps'[j].run < steps'[k].run
  BY <1>1, <1>3 DEF CloudInv
<1>8. \A k \in DOMAIN steps' : steps'[k].run \in DOMAIN runs'
  BY <1>1, <1>3 DEF CloudInv
<1>9. /\ starts' \in Nat /\ DOMAIN runs' \subseteq 1 .. starts'
      /\ timer' # Absent => timer' = starts' /\ timer' \in DOMAIN runs'
  BY DEF CloudInv
<1> QED
  BY <1>1, <1>4, <1>5, <1>6, <1>7, <1>8, <1>9 DEF CloudInv, WordsTyped, Named, WordTyped, RunSound, Settled

\* Steps are left, and a run may have changed.
LEMMA LeavesSteps ==
    ASSUME CloudInv, steps # <<>>, ~Top.inside, timer' \in {timer, Absent}, starts' = starts,
           steps' \in {Front(steps), <<>>},
           DOMAIN runs' = DOMAIN runs, RunSound(runs'[Top.run]), Settled(runs'[Top.run]),
           \A r \in DOMAIN runs : r # Top.run => runs'[r] = runs[r],
           WordsTyped(words'), Named(words')
    PROVE  CloudInv'
<1>1. /\ steps' \in Seq(Steps) /\ DOMAIN steps' \subseteq DOMAIN steps \ {Len(steps)}
      /\ \A k \in DOMAIN steps' : steps'[k] = steps[k]
  <2>1. CASE steps' = Front(steps)
    BY <2>1, TopRemoved
  <2>2. CASE steps' = <<>>
    BY <2>2
  <2> QED
    BY <2>1, <2>2
<1>2. /\ Len(steps) \in DOMAIN steps /\ Top = steps[Len(steps)] /\ Top.run \in DOMAIN runs
      /\ \A k \in DOMAIN steps : k # Len(steps) => steps[k].run < Top.run
      /\ \A k \in DOMAIN steps : steps[k].run \in 1 .. starts
  BY TopIs
<1>3. \A k \in DOMAIN steps' : steps[k].run \in DOMAIN runs /\ runs'[steps[k].run] = runs[steps[k].run]
  BY <1>1, <1>2 DEF CloudInv
<1>4. \A r \in DOMAIN runs' : RunSound(runs'[r])
  BY DEF CloudInv
<1>5. \A k \in DOMAIN steps' : LET run == runs'[steps'[k].run]
                               IN  IF steps'[k].inside THEN run.tags # <<>> ELSE Settled(run)
  BY <1>1, <1>3 DEF CloudInv
<1>6. ASSUME timer # Absent PROVE Settled(runs'[timer])
  <2>1. timer = starts /\ timer \in DOMAIN runs /\ starts \in Nat
    BY <1>6 DEF CloudInv
  <2>2. CASE timer = Top.run
    BY <2>2
  <2>3. CASE timer # Top.run
    <3>1. \A k \in DOMAIN steps : steps[k].run # timer
      BY <1>2, <2>1, <2>3
    <3>2. Settled(runs[timer])
      BY <1>6, <3>1 DEF CloudInv
    <3> QED
      BY <2>1, <2>3, <3>2
  <2> QED
    BY <2>2, <2>3
<1>7. \A j, k \in DOMAIN steps' : j < k => steps'[j].run < steps'[k].run
  BY <1>1 DEF CloudInv
<1>8. \A k \in DOMAIN steps' : steps'[k].run \in DOMAIN runs'
  BY <1>1 DEF CloudInv
<1>9. /\ starts' \in Nat /\ DOMAIN runs' \subseteq 1 .. starts'
      /\ timer' # Absent => timer' = starts' /\ timer' \in DOMAIN runs'
  BY DEF CloudInv
<1> QED
  BY <1>1, <1>4, <1>5, <1>6, <1>7, <1>8, <1>9 DEF CloudInv, WordsTyped, Named, WordTyped, RunSound, Settled

LEMMA OverIs ==
    ASSUME CloudInv, NEW fate
    PROVE  /\ DOMAIN Over(fate) = DOMAIN runs
           /\ \A r \in DOMAIN runs : /\ RunSound(Over(fate)[r])
                                     /\ Over(fate)[r].tags = runs[r].tags
                                     /\ Over(fate)[r].bounds = runs[r].bounds
<1>1. ASSUME NEW r \in DOMAIN runs
      PROVE  /\ RunSound(Over(fate)[r])
             /\ Over(fate)[r].tags = runs[r].tags /\ Over(fate)[r].bounds = runs[r].bounds
  <2>1. RunSound(runs[r])
    BY DEF CloudInv
  <2>2. Over(fate)[r] = IF runs[r].fate = "on" THEN [runs[r] EXCEPT !.fate = fate] ELSE runs[r]
    BY DEF Over
  <2>3. CASE runs[r].fate = "on"
    <3> DEFINE new == [runs[r] EXCEPT !.fate = fate]
    <3>1. /\ DOMAIN new = DOMAIN runs[r] /\ new.data = runs[r].data /\ new.i = runs[r].i
          /\ new.board = runs[r].board /\ new.bounds = runs[r].bounds /\ new.tags = runs[r].tags
      BY <2>1 DEF RunSound
    <3> HIDE DEF new
    <3>2. RunSound(new)
      BY <2>1, <3>1 DEF RunSound
    <3> QED
      BY <2>2, <2>3, <3>1, <3>2 DEF new
  <2>4. CASE runs[r].fate # "on"
    BY <2>1, <2>2, <2>4
  <2> QED
    BY <2>3, <2>4
<1> QED
  BY <1>1 DEF Over

\* A word that is placed: no bit of it was set before, and it shares no pixel.
LEMMA PlacedIsSound ==
    ASSUME NEW run, RunSound(run), Settled(run),
           NEW word, WordTyped(word), word.hasText, word.sprite # Absent,
           NEW p \in FreePlaces(word, run),
           NEW new, DOMAIN new = DOMAIN run, new.data = run.data, new.i = run.i + 1,
           new.bounds = run.bounds, new.board = run.board \cup Mask(word, p),
           new.tags = Append(run.tags, Tag(word, p))
    PROVE  RunSound(new) /\ new.tags # <<>>
<1> DEFINE tag == Tag(word, p)
           n == Len(run.tags)
<1>1. p \in Int \X Int
  BY CloudAssumption DEF FreePlaces
<1>2. word.sprite \subseteq Int \X Int /\ word.width \in Int /\ word.y0 \in Int /\ word.y1 \in Int
  BY DEF WordTyped
<1>3. Left(word, p) \in Int /\ Rect(word, p) \in Rects
  BY <1>1, <1>2, RectIs
<1>4. /\ tag.rect = Rect(word, p)
      /\ tag.pixels = {<<Left(word, p) + c[1], p[2] + word.y0 + c[2]>> : c \in word.sprite}
      /\ tag = [rect |-> tag.rect, pixels |-> tag.pixels]
  BY DEF Tag
<1> HIDE DEF tag
<1>5. \A q \in tag.pixels : q \in Int \X Int /\ BitOf(q) \in Mask(word, p)
  <2> SUFFICES ASSUME NEW c \in word.sprite
               PROVE  LET q == <<Left(word, p) + c[1], p[2] + word.y0 + c[2]>>
                      IN  q \in Int \X Int /\ BitOf(q) \in Mask(word, p)
    BY <1>4
  <2>1. c \in Int \X Int
    BY <1>2
  <2>2. BitOf(<<Left(word, p) + c[1], p[2] + word.y0 + c[2]>>) \in Mask(word, p)
    BY <1>1, <1>2, <1>3, <2>1, MaskCovers
  <2>3. Left(word, p) + c[1] \in Int /\ p[2] + word.y0 + c[2] \in Int
    BY <1>1, <1>2, <1>3, <2>1
  <2> QED
    BY <2>2, <2>3
<1>6. tag \in Tags
  <2>1. tag.pixels \in SUBSET (Int \X Int)
    BY <1>5
  <2> QED
    BY <1>3, <1>4, <2>1 DEF Tags
<1>7. run.tags \in Seq(Tags) /\ n \in Nat /\ DOMAIN run.tags = 1 .. n
  BY DEF RunSound
<1>8. /\ new.tags \in Seq(Tags) /\ DOMAIN new.tags = 1 .. n + 1 /\ new.tags[n + 1] = tag
      /\ \A k \in 1 .. n : new.tags[k] = run.tags[k]
  BY <1>6, <1>7 DEF tag
<1>9. ASSUME NEW k \in 1 .. n PROVE run.tags[k].pixels \cap tag.pixels = {}
  <2>1. run.bounds # Absent
    BY <1>7, <1>9 DEF Settled
  <2>2. Mask(word, p) \cap run.board = {}
    BY <2>1 DEF FreePlaces, Collides
  <2>3. \A q \in run.tags[k].pixels : BitOf(q) \in run.board
    BY <1>7, <1>9 DEF RunSound
  <2> QED
    BY <1>5, <2>2, <2>3
<1> HIDE DEF n
<1>10. \A k \in DOMAIN new.tags : k \in 1 .. n \/ k = n + 1
  BY <1>7, <1>8
<1>11. \A k \in DOMAIN new.tags : \A q \in new.tags[k].pixels : BitOf(q) \in new.board
  <2> SUFFICES ASSUME NEW k \in DOMAIN new.tags, NEW q \in new.tags[k].pixels PROVE BitOf(q) \in new.board
    OBVIOUS
  <2>1. CASE k \in 1 .. n
    BY <1>7, <1>8, <2>1 DEF RunSound
  <2>2. CASE k = n + 1
    BY <1>5, <1>8, <2>2
  <2> QED
    BY <1>10, <2>1, <2>2
<1>12. \A j, k \in DOMAIN new.tags : j # k => new.tags[j].pixels \cap new.tags[k].pixels = {}
  <2> SUFFICES ASSUME NEW j \in DOMAIN new.tags, NEW k \in DOMAIN new.tags, j # k
               PROVE  new.tags[j].pixels \cap new.tags[k].pixels = {}
    OBVIOUS
  <2>1. CASE j \in 1 .. n /\ k \in 1 .. n
    BY <1>7, <1>8, <2>1 DEF RunSound
  <2>2. CASE j \in 1 .. n /\ k = n + 1
    BY <1>8, <1>9, <2>2
  <2>3. CASE j = n + 1 /\ k \in 1 .. n
    BY <1>8, <1>9, <2>3
  <2> QED
    BY <1>10, <2>1, <2>2, <2>3
<1>13. new.i \in Nat /\ new.data \in Seq(Words) /\ new.bounds \in Rects \cup {Absent}
  BY DEF RunSound
<1>14. DOMAIN new = {"data", "i", "board", "bounds", "tags", "fate"}
  BY DEF RunSound
<1>15. new.tags # <<>>
  BY <1>7, <1>8
<1> QED
  BY <1>8, <1>11, <1>12, <1>13, <1>14, <1>15 DEF RunSound

(***************************************************************************)
(* One step of the cloud keeps CloudInv.                                   *)
(***************************************************************************)
LEMMA CloudInvNext == CloudInv /\ [CloudNext]_cloudVars => CloudInv'
<1> SUFFICES ASSUME CloudInv, [CloudNext]_cloudVars PROVE CloudInv'
  OBVIOUS
<1>0. /\ WordsTyped(words) /\ starts \in Nat /\ \A r \in DOMAIN runs : RunSound(runs[r])
      /\ steps \in Seq(Steps)
  BY DEF CloudInv
<1>1. ASSUME steps # <<>>
      PROVE  /\ Top \in Steps /\ Top.run \in DOMAIN runs /\ RunSound(Run) /\ Named(words)
             /\ Top = Last(steps) /\ Len(steps) \in DOMAIN steps /\ Top = steps[Len(steps)]
             /\ IF Top.inside THEN Run.tags # <<>> ELSE Settled(Run)
  <2>1. /\ Len(steps) \in DOMAIN steps /\ Top = steps[Len(steps)] /\ Top \in Steps
        /\ Top.run \in DOMAIN runs /\ steps[Len(steps)].run \in 1 .. starts
    BY <1>1, TopIs
  <2>2. starts > 0
    BY <1>0, <2>1
  <2> QED
    BY <2>1, <2>2 DEF CloudInv, Run, Top
<1>2. CASE SkipWord
  <2>1. steps # <<>> /\ ~Top.inside
    BY <1>2 DEF SkipWord, PageRuns, Top
  <2> DEFINE e == [Top EXCEPT !.fresh = FALSE]
  <2>2. e \in Steps /\ e.run = Top.run /\ e.inside = FALSE
    BY <1>1, <2>1 DEF Steps
  <2>3. steps' = Append(Front(steps), e) /\ UNCHANGED <<timer, starts>>
    BY <1>2 DEF SkipWord
  <2>4. WordsTyped(words') /\ Named(words')
    BY <1>0, <1>1, <1>2, <2>1, SpritesAre DEF SkipWord
  <2>5. /\ DOMAIN runs' = DOMAIN runs /\ \A r \in DOMAIN runs : r # Top.run => runs'[r] = runs[r]
        /\ runs'[Top.run] = [Run EXCEPT !.i = @ + 1]
    BY <1>1, <1>2, <2>1 DEF SkipWord, Run
  <2> DEFINE new == [Run EXCEPT !.i = @ + 1]
  <2>6. /\ DOMAIN new = DOMAIN Run /\ new.i = Run.i + 1 /\ new.data = Run.data /\ new.board = Run.board
        /\ new.bounds = Run.bounds /\ new.tags = Run.tags
    BY <1>1, <2>1 DEF RunSound
  <2> HIDE DEF new, e
  <2>7. RunSound(new) /\ Settled(new)
    BY <1>1, <2>1, <2>6 DEF RunSound, Settled
  <2>8. runs'[Top.run] = new
    BY <2>5 DEF new
  <2> QED
    BY <2>1, <2>2, <2>3, <2>4, <2>5, <2>7, <2>8, GoesOn
<1>3. CASE PlaceWord
  <2>1. steps # <<>> /\ ~Top.inside
    BY <1>3 DEF PlaceWord, PageRuns, Top
  <2> DEFINE e == [Top EXCEPT !.inside = TRUE, !.fresh = FALSE]
             sprites == Sprites(words, Run.data, Run.i + 1)
             d == Run.data[Run.i + 1]
             word == sprites[d]
  <2>2. e \in Steps /\ e.run = Top.run /\ e.inside = TRUE
    BY <1>1, <2>1 DEF Steps
  <2>3. /\ steps' = Append(Front(steps), e) /\ UNCHANGED <<timer, starts>>
        /\ word.hasText /\ word.sprite # Absent /\ words' = [sprites EXCEPT ![d].sprite = Absent]
        /\ MayGoOn
    BY <1>3 DEF PlaceWord
  <2>4. WordsTyped(sprites) /\ Named(sprites)
    BY <1>0, <1>1, <2>1, SpritesAre
  <2>5. d \in Words
    BY <1>1, <2>1, <2>3 DEF MayGoOn, RunSound
  <2>6. PICK p \in FreePlaces(word, Run) :
           runs' = [runs EXCEPT ![Top.run].i = @ + 1,
                                ![Top.run].board = @ \cup Mask(word, p),
                                ![Top.run].tags = Append(@, Tag(word, p))]
    BY <1>3 DEF PlaceWord
  <2> HIDE DEF e, sprites, d
  <2>7. WordsTyped(words') /\ Named(words')
    <3> DEFINE left == [sprites[d] EXCEPT !.sprite = Absent]
    <3>1. WordTyped(sprites[d]) /\ sprites[d].text \in DOMAIN Style /\ DOMAIN sprites = Words
      BY <2>4, <2>5 DEF WordsTyped, Named
    <3>2. /\ DOMAIN left = DOMAIN sprites[d] /\ left.sprite = Absent /\ left.text = sprites[d].text
          /\ left.hasText = sprites[d].hasText
          /\ left.hasText => left.width = sprites[d].width /\ left.y0 = sprites[d].y0 /\ left.y1 = sprites[d].y1
      BY <3>1 DEF WordTyped
    <3>3. DOMAIN words' = Words /\ words'[d] = left /\ \A other \in Words : other # d => words'[other] = sprites[other]
      BY <2>3, <2>5, <3>1
    <3> HIDE DEF left, word
    <3>4. WordTyped(left)
      BY <3>1, <3>2 DEF WordTyped
    <3> QED
      BY <2>4, <3>1, <3>2, <3>3, <3>4 DEF WordsTyped, Named
  <2>8. WordTyped(word)
    BY <2>4, <2>5 DEF WordsTyped
  <2> HIDE DEF word
  <2>9. /\ DOMAIN runs' = DOMAIN runs /\ \A r \in DOMAIN runs : r # Top.run => runs'[r] = runs[r]
        /\ DOMAIN runs'[Top.run] = DOMAIN Run
        /\ runs'[Top.run].data = Run.data /\ runs'[Top.run].i = Run.i + 1
        /\ runs'[Top.run].bounds = Run.bounds /\ runs'[Top.run].board = Run.board \cup Mask(word, p)
        /\ runs'[Top.run].tags = Append(Run.tags, Tag(word, p))
    <3>1. DOMAIN Run = {"data", "i", "board", "bounds", "tags", "fate"} /\ Top.run \in DOMAIN runs
      BY <1>1, <2>1 DEF RunSound
    <3> QED
      BY <2>6, <3>1 DEF Run
  <2>10. RunSound(runs'[Top.run]) /\ runs'[Top.run].tags # <<>>
    <3>1. RunSound(Run) /\ Settled(Run)
      BY <1>1, <2>1
    <3> QED
      BY <2>3, <2>8, <2>9, <3>1, PlacedIsSound
  <2> QED
    BY <2>1, <2>2, <2>3, <2>7, <2>9, <2>10, GoesOn
<1>4. CASE PlaceThrows
  <2>1. steps # <<>> /\ ~Top.inside
    BY <1>4 DEF PlaceThrows, PageRuns, Top
  <2>2. WordsTyped(words') /\ Named(words')
    BY <1>0, <1>1, <1>4, <2>1, SpritesAre DEF PlaceThrows
  <2>3. /\ DOMAIN runs' = DOMAIN runs /\ \A r \in DOMAIN runs : r # Top.run => runs'[r] = runs[r]
        /\ runs'[Top.run] = [Run EXCEPT !.i = @ + 1]
    BY <1>1, <1>4, <2>1 DEF PlaceThrows, Run
  <2> DEFINE new == [Run EXCEPT !.i = @ + 1]
  <2>4. /\ DOMAIN new = DOMAIN Run /\ new.i = Run.i + 1 /\ new.data = Run.data /\ new.board = Run.board
        /\ new.bounds = Run.bounds /\ new.tags = Run.tags
    BY <1>1, <2>1 DEF RunSound
  <2> HIDE DEF new
  <2>5. RunSound(new) /\ Settled(new)
    BY <1>1, <2>1, <2>4 DEF RunSound, Settled
  <2>6. runs'[Top.run] = new
    BY <2>3 DEF new
  <2>7. steps' = <<>> /\ timer' = timer /\ starts' = starts
    BY <1>4 DEF PlaceThrows
  <2> QED
    BY <2>1, <2>2, <2>3, <2>5, <2>6, <2>7, LeavesSteps
<1>5. CASE WordPlaced
  <2>1. steps # <<>> /\ Top.inside
    BY <1>5 DEF WordPlaced, Top
  <2> DEFINE e == [Top EXCEPT !.inside = FALSE]
             box == Bounds(Run.bounds, Last(Run.tags).rect)
             new == [Run EXCEPT !.bounds = box]
  <2>2. e \in Steps /\ e.run = Top.run /\ e.inside = FALSE
    BY <1>1, <2>1 DEF Steps
  <2>3. steps' = Append(Front(steps), e) /\ UNCHANGED <<words, timer, starts>>
    BY <1>5 DEF WordPlaced
  <2>4. RunSound(Run) /\ Run.tags # <<>>
    BY <1>1, <2>1
  <2>5. Last(Run.tags) \in Tags
    BY <2>4 DEF RunSound, Last
  <2>6. box \in Rects /\ box # Absent
    BY <2>4, <2>5, BoundsAre DEF RunSound, Tags
  <2>7. /\ DOMAIN runs' = DOMAIN runs /\ \A r \in DOMAIN runs : r # Top.run => runs'[r] = runs[r]
        /\ runs'[Top.run] = new
    BY <1>1, <1>5, <2>1 DEF WordPlaced, Run
  <2> HIDE DEF box
  <2>8. /\ DOMAIN new = DOMAIN Run /\ new.i = Run.i /\ new.data = Run.data /\ new.board = Run.board
        /\ new.bounds = box /\ new.tags = Run.tags
    BY <2>4 DEF RunSound
  <2> HIDE DEF new, e
  <2>9. RunSound(new) /\ Settled(new)
    BY <2>4, <2>6, <2>8 DEF RunSound, Settled
  <2>10. WordsTyped(words') /\ Named(words')
    BY <1>0, <1>1, <2>1, <2>3
  <2> QED
    BY <2>1, <2>2, <2>3, <2>7, <2>9, <2>10, GoesOn
<1>6. CASE Yield \/ Leave
  <2>1. steps # <<>> /\ ~Top.inside /\ steps' = Front(steps) /\ UNCHANGED <<words, starts>>
    BY <1>6 DEF Yield, Leave, PageRuns, Top
  <2>2. RunSound(Run) /\ Settled(Run) /\ Top.run \in DOMAIN runs /\ Named(words)
    BY <1>1, <2>1
  <2> DEFINE new == [Run EXCEPT !.fate = "ended"]
  <2>3. /\ DOMAIN new = DOMAIN Run /\ new.i = Run.i /\ new.data = Run.data /\ new.board = Run.board
        /\ new.bounds = Run.bounds /\ new.tags = Run.tags
    BY <2>2 DEF RunSound
  <2>4. RunSound(new) /\ Settled(new)
    <3> HIDE DEF new
    <3> QED
      BY <2>2, <2>3 DEF RunSound, Settled
  <2>5. /\ timer' \in {timer, Absent}
        /\ runs' = runs \/ runs' = [runs EXCEPT ![Top.run] = new]
    BY <1>6 DEF Yield, Leave, Run
  <2> HIDE DEF new
  <2>6. /\ DOMAIN runs' = DOMAIN runs /\ \A r \in DOMAIN runs : r # Top.run => runs'[r] = runs[r]
        /\ RunSound(runs'[Top.run]) /\ Settled(runs'[Top.run])
    BY <2>2, <2>4, <2>5 DEF Run
  <2>7. WordsTyped(words') /\ Named(words')
    BY <1>0, <2>1, <2>2
  <2> QED
    BY <2>1, <2>5, <2>6, <2>7, LeavesSteps
<1>7. CASE Stop
  <2>1. timer' = Absent /\ runs' = Over("stopped") /\ UNCHANGED <<words, steps, starts>>
    BY <1>7 DEF Stop
  <2>2. /\ DOMAIN runs' = DOMAIN runs
        /\ \A r \in DOMAIN runs : /\ RunSound(runs'[r]) /\ runs'[r].tags = runs[r].tags
                                  /\ runs'[r].bounds = runs[r].bounds
    BY <2>1, OverIs
  <2>3. \A k \in DOMAIN steps : LET run == runs'[steps[k].run]
                                IN  IF steps[k].inside THEN run.tags # <<>> ELSE Settled(run)
    BY <2>2 DEF CloudInv, Settled
  <2>4. starts' \in Nat /\ WordsTyped(words)' /\ (starts' > 0 => Named(words)')
    BY <2>1 DEF CloudInv, WordsTyped, Named, WordTyped
  <2>5. DOMAIN runs' \subseteq 1 .. starts' /\ \A r \in DOMAIN runs' : RunSound(runs[r])'
    <3>1. DOMAIN runs' \subseteq 1 .. starts'
      BY <2>1, <2>2 DEF CloudInv
    <3>2. \A r \in DOMAIN runs' : RunSound(runs'[r])
      BY <2>2
    <3> QED
      BY <3>1, <3>2 DEF RunSound
  <2>6. steps' \in Seq(Steps)' /\ \A k \in DOMAIN steps' : steps'[k].run \in DOMAIN runs'
    BY <2>1, <2>2 DEF CloudInv, Steps
  <2>7. \A j, k \in DOMAIN steps' : j < k => steps'[j].run < steps'[k].run
    BY <2>1 DEF CloudInv
  <2>8. \A k \in DOMAIN steps' : LET run == runs'[steps'[k].run]
                                 IN  IF steps'[k].inside THEN run.tags # <<>> ELSE Settled(run)
    BY <2>1, <2>3
  <2>9. timer' = Absent
    BY <2>1
  <2> QED
    BY <2>4, <2>5, <2>6, <2>7, <2>8, <2>9 DEF CloudInv, Settled
<1>8. CASE Interval
  <2>1. steps = <<>> /\ timer # Absent /\ UNCHANGED <<words, timer, runs, starts>>
    BY <1>8 DEF Interval
  <2> DEFINE e == [run |-> timer, inside |-> FALSE, fresh |-> TRUE]
  <2>2. steps' = <<e>>
    BY <1>8 DEF Interval
  <2>3. timer = starts /\ timer \in DOMAIN runs /\ Settled(runs[timer])
    BY <2>1 DEF CloudInv
  <2>4. e \in Steps /\ e.run = timer /\ e.inside = FALSE
    BY <1>0, <2>3 DEF Steps
  <2> HIDE DEF e
  <2>5. steps' \in Seq(Steps) /\ DOMAIN steps' = {1} /\ steps'[1] = e
    BY <2>2, <2>4
  <2> QED
    BY <2>1, <2>3, <2>4, <2>5 DEF CloudInv, WordsTyped, Named, WordTyped, RunSound, Settled
<1>9. ASSUME NEW texts \in TextsOf, Start(texts) PROVE CloudInv'
  <2> DEFINE e == [run |-> starts', inside |-> FALSE, fresh |-> TRUE]
             kept == {s.run : s \in ToSet(steps)}
             begun(data) == [data |-> data, i |-> 0, board |-> {}, bounds |-> Absent, tags |-> <<>>, fate |-> "on"]
  <2>1. /\ starts' = starts + 1 /\ timer' = starts' /\ steps' = Append(steps, e)
        /\ words' = [d \in Words |-> [words[d] EXCEPT !.text = texts[d]]]
    BY <1>9 DEF Start
  <2>2. PICK data \in SetToSeqs(Words) :
           runs' = [r \in kept \cup {starts'} |-> IF r = starts' THEN begun(data) ELSE Over("stopped")[r]]
    BY <1>9 DEF Start
  <2>3. data \in Seq(Words)
    <3>1. Cardinality(Words) \in Nat
      BY CloudAssumption, FS_CardinalityType
    <3>2. data \in [1 .. Cardinality(Words) -> Words]
      BY DEF SetToSeqs
    <3> QED
      BY <3>1, <3>2
  <2>4. RunSound(begun(data)) /\ Settled(begun(data))
    BY <2>3 DEF RunSound, Settled
  <2>5. \A r \in kept : \E k \in DOMAIN steps : r = steps[k].run
    BY DEF ToSet
  <2>6. kept \subseteq DOMAIN runs /\ \A k \in DOMAIN steps : steps[k].run \in kept
    <3>1. \A k \in DOMAIN steps : steps[k].run \in kept
      BY DEF ToSet
    <3> QED
      BY <2>5, <3>1 DEF CloudInv
  <2> HIDE DEF kept, begun, e
  <2>7. DOMAIN runs \subseteq 1 .. starts /\ starts' \notin kept /\ starts' \in Nat
    BY <1>0, <2>1, <2>6 DEF CloudInv
  <2>8. /\ DOMAIN runs' = kept \cup {starts'} /\ runs'[starts'] = begun(data)
        /\ \A r \in kept : runs'[r] = Over("stopped")[r]
    BY <2>2, <2>7
  <2>9. \A r \in kept : RunSound(runs'[r]) /\ runs'[r].tags = runs[r].tags /\ runs'[r].bounds = runs[r].bounds
    BY <2>6, <2>8, OverIs
  <2>10. e \in Steps /\ e.run = starts' /\ e.inside = FALSE
    BY <2>7 DEF Steps, e
  <2>11. /\ steps' \in Seq(Steps) /\ DOMAIN steps' = 1 .. Len(steps) + 1 /\ DOMAIN steps = 1 .. Len(steps)
         /\ Len(steps) \in Nat /\ steps'[Len(steps) + 1] = e /\ \A k \in DOMAIN steps : steps'[k] = steps[k]
    BY <1>0, <2>1, <2>10
  <2>12. \A k \in DOMAIN steps' : k \in DOMAIN steps \/ k = Len(steps) + 1
    BY <2>11
  <2>13. \A k \in DOMAIN steps' : steps'[k].run \in DOMAIN runs'
    BY <2>6, <2>8, <2>10, <2>11, <2>12
  <2>14. \A j, k \in DOMAIN steps' : j < k => steps'[j].run < steps'[k].run
    <3> SUFFICES ASSUME NEW j \in DOMAIN steps', NEW k \in DOMAIN steps', j < k PROVE steps'[j].run < steps'[k].run
      OBVIOUS
    <3>1. CASE k \in DOMAIN steps
      <4>1. j \in DOMAIN steps
        BY <2>11, <2>12, <3>1
      <4> QED
        BY <2>11, <3>1, <4>1 DEF CloudInv
    <3>2. CASE k = Len(steps) + 1
      <4>1. j \in DOMAIN steps
        BY <2>11, <2>12, <3>2
      <4>2. steps'[j].run \in 1 .. starts
        BY <2>6, <2>7, <2>11, <4>1
      <4> QED
        BY <1>0, <2>1, <2>10, <2>11, <3>2, <4>2
    <3> QED
      BY <2>12, <3>1, <3>2
  <2>15. \A k \in DOMAIN steps' : LET run == runs'[steps'[k].run]
                                  IN  IF steps'[k].inside THEN run.tags # <<>> ELSE Settled(run)
    <3> SUFFICES ASSUME NEW k \in DOMAIN steps'
                 PROVE  IF steps'[k].inside THEN runs'[steps'[k].run].tags # <<>> ELSE Settled(runs'[steps'[k].run])
      OBVIOUS
    <3>1. CASE k \in DOMAIN steps
      <4>1. steps'[k] = steps[k] /\ steps[k].run \in kept
        BY <2>6, <2>11, <3>1
      <4>2. IF steps[k].inside THEN runs[steps[k].run].tags # <<>> ELSE Settled(runs[steps[k].run])
        BY <3>1 DEF CloudInv
      <4> QED
        BY <2>9, <4>1, <4>2 DEF Settled
    <3>2. CASE k = Len(steps) + 1
      BY <2>4, <2>8, <2>10, <2>11, <3>2
    <3> QED
      BY <2>12, <3>1, <3>2
  <2>16. WordsTyped(words') /\ Named(words')
    <3>1. texts \in [Words -> DOMAIN Style]
      BY CloudAssumption
    <3>2. ASSUME NEW d \in Words PROVE WordTyped(words'[d]) /\ words'[d].text \in DOMAIN Style
      <4> DEFINE new == [words[d] EXCEPT !.text = texts[d]]
      <4>1. WordTyped(words[d]) /\ words'[d] = new
        BY <1>0, <2>1 DEF WordsTyped
      <4>2. /\ DOMAIN new = DOMAIN words[d] /\ new.text = texts[d] /\ new.sprite = words[d].sprite
            /\ new.hasText = words[d].hasText
            /\ new.hasText => new.width = words[d].width /\ new.y0 = words[d].y0 /\ new.y1 = words[d].y1
        BY <4>1 DEF WordTyped
      <4> HIDE DEF new
      <4> QED
        BY <3>1, <4>1, <4>2 DEF WordTyped
    <3> QED
      BY <2>1, <3>2 DEF WordsTyped, Named
  <2>17. \A r \in DOMAIN runs' : RunSound(runs'[r])
    BY <2>4, <2>8, <2>9
  <2>18. DOMAIN runs' \subseteq 1 .. starts'
    BY <1>0, <2>1, <2>6, <2>7, <2>8
  <2>19. Settled(runs'[timer']) /\ timer' = starts' /\ timer' \in DOMAIN runs'
    BY <2>1, <2>4, <2>8
  <2> QED
    BY <2>7, <2>11, <2>13, <2>14, <2>15, <2>16, <2>17, <2>18, <2>19
       DEF CloudInv, WordsTyped, Named, WordTyped, RunSound, Settled
<1>10. CASE UNCHANGED cloudVars
  BY <1>10 DEF cloudVars, CloudInv, WordsTyped, Named, WordTyped, RunSound, Settled
<1> QED
  BY <1>2, <1>3, <1>4, <1>5, <1>6, <1>7, <1>8, <1>9, <1>10 DEF CloudNext

LEMMA CloudInvInit == CloudInit => CloudInv
<1> SUFFICES ASSUME CloudInit PROVE CloudInv
  OBVIOUS
<1>1. /\ words = [d \in Words |-> [text |-> Absent, sprite |-> Absent, hasText |-> FALSE]]
      /\ timer = Absent /\ steps = <<>> /\ runs = <<>> /\ starts = 0
  BY DEF CloudInit
<1>2. WordsTyped(words)
  BY <1>1 DEF WordsTyped, WordTyped
<1>3. steps \in Seq(Steps) /\ DOMAIN steps = {} /\ DOMAIN runs = {}
  BY <1>1
<1> QED
  BY <1>1, <1>2, <1>3 DEF CloudInv

(***************************************************************************)
(* No two words of a run cover the same pixel, for integers of any number  *)
(* of bits, boards of any size, any images, and any words, also when a     *)
(* step threw and when layouts run inside of each other: a word takes the  *)
(* bits of all its pixels, a pixel is one bit, and a word is placed        *)
(* without a look at the board only as the first of its run                *)
(* (d3.layout.js:97-125, 306-325).                                         *)
(***************************************************************************)
THEOREM WordsNeverOverlap == CloudSpec => []WordsAreDisjoint
<1>1. CloudInv => WordsAreDisjoint
  BY DEF CloudInv, RunSound, WordsAreDisjoint
<1> QED
  BY <1>1, CloudInvInit, CloudInvNext, PTL DEF CloudSpec

(***************************************************************************)
(* A run goes on.                                                          *)
(***************************************************************************)
GoesOnInv ==
    /\ steps \in Seq(Steps) /\ nested \in BOOLEAN
    /\ \A r \in DOMAIN runs : runs[r].fate = "on" => timer = r /\ (steps # <<>> => Last(steps).run = r)
    /\ ~nested => Len(steps) <= 1

LEMMA StoppedIsNotOn == CloudInv => \A r \in DOMAIN runs : Over("stopped")[r].fate # "on"
<1> SUFFICES ASSUME CloudInv, NEW r \in DOMAIN runs PROVE Over("stopped")[r].fate # "on"
  OBVIOUS
<1>1. RunSound(runs[r])
  BY DEF CloudInv
<1>2. Over("stopped")[r] = IF runs[r].fate = "on" THEN [runs[r] EXCEPT !.fate = "stopped"] ELSE runs[r]
  BY DEF Over
<1> QED
  BY <1>1, <1>2 DEF RunSound

LEMMA GoesOnInvNext == CloudInv /\ GoesOnInv /\ [CloudNext]_cloudVars => GoesOnInv'
<1> SUFFICES ASSUME CloudInv, GoesOnInv, [CloudNext]_cloudVars PROVE GoesOnInv'
  OBVIOUS
<1>0. /\ \A r \in DOMAIN runs : RunSound(runs[r]) /\ r \in Nat /\ r # Absent
      /\ steps \in Seq(Steps)
  BY CloudAssumption DEF CloudInv
<1>1. ASSUME steps # <<>>
      PROVE  /\ Top \in Steps /\ Top.run \in DOMAIN runs /\ Top = Last(steps)
             /\ Len(Front(steps)) = Len(steps) - 1 /\ Front(steps) \in Seq(Steps) /\ Len(steps) \in Nat
  BY <1>1, TopIs, TopRemoved DEF Top
<1>2. ASSUME steps # <<>>, NEW e \in Steps, e.run = Top.run, steps' = Append(Front(steps), e),
             UNCHANGED <<timer, nested>>, DOMAIN runs' = DOMAIN runs,
             \A r \in DOMAIN runs : runs'[r].fate = runs[r].fate
      PROVE  GoesOnInv'
  <2>1. steps' \in Seq(Steps) /\ Len(steps') = Len(steps) /\ Last(steps') = e
    <3>1. PICK t \in Seq(Steps) : t = Front(steps)
      BY <1>1, <1>2
    <3> QED
      BY <1>1, <1>2, <3>1 DEF Last
  <2>2. \A r \in DOMAIN runs' : runs'[r].fate = "on" => timer' = r /\ Last(steps').run = r
    BY <1>1, <1>2, <2>1 DEF GoesOnInv
  <2> QED
    BY <1>2, <2>1, <2>2 DEF GoesOnInv
<1>3. CASE SkipWord
  <2>1. steps # <<>>
    BY <1>3 DEF SkipWord, PageRuns
  <2>2. PICK e : e \in Steps /\ e = [Top EXCEPT !.fresh = FALSE] /\ e.run = Top.run
    <3>1. Top \in Steps
      BY <1>1, <2>1
    <3>2. [Top EXCEPT !.fresh = FALSE] \in Steps /\ [Top EXCEPT !.fresh = FALSE].run = Top.run
      BY <3>1 DEF Steps
    <3> QED
      BY <3>2
  <2>3. DOMAIN runs' = DOMAIN runs /\ \A r \in DOMAIN runs : runs'[r].fate = runs[r].fate
    BY <1>0, <1>1, <1>3, <2>1 DEF SkipWord, RunSound
  <2> QED
    BY <1>2, <1>3, <2>1, <2>2, <2>3 DEF SkipWord
<1>4. CASE PlaceWord
  <2>1. steps # <<>>
    BY <1>4 DEF PlaceWord, PageRuns
  <2>2. PICK e : e \in Steps /\ e = [Top EXCEPT !.inside = TRUE, !.fresh = FALSE] /\ e.run = Top.run
    <3>1. Top \in Steps
      BY <1>1, <2>1
    <3>2. [Top EXCEPT !.inside = TRUE, !.fresh = FALSE] \in Steps /\ [Top EXCEPT !.inside = TRUE, !.fresh = FALSE].run = Top.run
      BY <3>1 DEF Steps
    <3> QED
      BY <3>2
  <2>3. PICK mask, tag : runs' = [runs EXCEPT ![Top.run].i = @ + 1, ![Top.run].board = @ \cup mask,
                                              ![Top.run].tags = Append(@, tag)]
    BY <1>4 DEF PlaceWord
  <2>4. DOMAIN runs' = DOMAIN runs /\ \A r \in DOMAIN runs : runs'[r].fate = runs[r].fate
    BY <1>0, <1>1, <2>1, <2>3 DEF RunSound
  <2> QED
    BY <1>2, <1>4, <2>1, <2>2, <2>4 DEF PlaceWord
<1>5. CASE WordPlaced
  <2>1. steps # <<>>
    BY <1>5 DEF WordPlaced
  <2>2. PICK e : e \in Steps /\ e = [Top EXCEPT !.inside = FALSE] /\ e.run = Top.run
    <3>1. Top \in Steps
      BY <1>1, <2>1
    <3>2. [Top EXCEPT !.inside = FALSE] \in Steps /\ [Top EXCEPT !.inside = FALSE].run = Top.run
      BY <3>1 DEF Steps
    <3> QED
      BY <3>2
  <2>3. DOMAIN runs' = DOMAIN runs /\ \A r \in DOMAIN runs : runs'[r].fate = runs[r].fate
    BY <1>0, <1>1, <1>5, <2>1 DEF WordPlaced, RunSound
  <2> QED
    BY <1>2, <1>5, <2>1, <2>2, <2>3 DEF WordPlaced
<1>6. CASE PlaceThrows
  <2>1. steps # <<>> /\ steps' = <<>> /\ UNCHANGED <<timer, nested>>
    BY <1>6 DEF PlaceThrows, PageRuns
  <2>2. DOMAIN runs' = DOMAIN runs /\ \A r \in DOMAIN runs : runs'[r].fate = runs[r].fate
    BY <1>0, <1>1, <1>6, <2>1 DEF PlaceThrows, RunSound
  <2>3. steps' \in Seq(Steps) /\ Len(steps') = 0
    BY <2>1
  <2> QED
    BY <2>1, <2>2, <2>3 DEF GoesOnInv
<1>7. CASE ~Clobbered /\ Yield
  <2>1. /\ steps # <<>> /\ yields /\ steps' = Front(steps) /\ UNCHANGED <<timer, runs, nested>>
        /\ ~Clobbered
    BY <1>7 DEF Yield, PageRuns
  <2>2. ~nested /\ Len(steps) <= 1
    BY <2>1 DEF Clobbered, GoesOnInv
  <2>3. steps' = <<>> /\ steps' \in Seq(Steps) /\ Len(steps') = 0
    BY <1>1, <2>1, <2>2
  <2> QED
    BY <2>1, <2>3 DEF GoesOnInv
<1>8. CASE Leave
  <2>1. steps # <<>> /\ steps' = Front(steps) /\ nested' = nested
    BY <1>8 DEF Leave, PageRuns
  <2>2. steps' \in Seq(Steps) /\ Len(steps') = Len(steps) - 1 /\ Len(steps) \in Nat
    BY <1>1, <2>1
  <2>3. \A r \in DOMAIN runs' : runs'[r].fate # "on"
    <3>1. CASE Run.i < Len(Run.data)
      <4>1. timer = Absent /\ runs' = runs
        BY <1>8, <3>1 DEF Leave, MayGoOn
      <4> QED
        BY <1>0, <4>1 DEF GoesOnInv
    <3>2. CASE ~(Run.i < Len(Run.data))
      <4>1. runs' = [runs EXCEPT ![Top.run].fate = "ended"]
        BY <1>8, <3>2 DEF Leave
      <4>2. \A r \in DOMAIN runs : r # Top.run => runs[r].fate # "on"
        BY <1>1, <2>1 DEF GoesOnInv
      <4> QED
        BY <1>0, <1>1, <2>1, <4>1, <4>2 DEF RunSound
    <3> QED
      BY <3>1, <3>2
  <2> QED
    BY <2>1, <2>2, <2>3 DEF GoesOnInv
<1>9. CASE Stop
  <2>1. runs' = Over("stopped") /\ UNCHANGED <<steps, nested>>
    BY <1>9 DEF Stop
  <2>2. \A r \in DOMAIN runs' : runs'[r].fate # "on"
    BY <2>1, StoppedIsNotOn, OverIs
  <2> QED
    BY <2>1, <2>2 DEF GoesOnInv
<1>10. CASE Interval
  <2> DEFINE e == [run |-> timer, inside |-> FALSE, fresh |-> TRUE]
  <2>1. steps = <<>> /\ timer # Absent /\ steps' = <<e>> /\ UNCHANGED <<timer, runs, nested>>
    BY <1>10 DEF Interval
  <2>2. e \in Steps /\ e.run = timer
    BY <2>1 DEF CloudInv, Steps
  <2> HIDE DEF e
  <2>3. steps' \in Seq(Steps) /\ Len(steps') = 1 /\ Last(steps') = e
    BY <2>1, <2>2 DEF Last
  <2> QED
    BY <2>1, <2>2, <2>3 DEF GoesOnInv
<1>11. ASSUME NEW texts \in TextsOf, Start(texts) PROVE GoesOnInv'
  <2> DEFINE e == [run |-> starts', inside |-> FALSE, fresh |-> TRUE]
             kept == {s.run : s \in ToSet(steps)}
  <2>1. /\ starts' = starts + 1 /\ timer' = starts' /\ steps' = Append(steps, e)
        /\ nested' = (nested \/ steps # <<>>)
    BY <1>11 DEF Start
  <2>2. PICK run : runs' = [r \in kept \cup {starts'} |-> IF r = starts' THEN run ELSE Over("stopped")[r]]
    BY <1>11 DEF Start
  <2>3. kept \subseteq DOMAIN runs
    BY DEF CloudInv, ToSet
  <2> HIDE DEF kept, e
  <2>4. \A r \in DOMAIN runs' : runs'[r].fate = "on" => timer' = r
    BY <2>1, <2>2, <2>3, StoppedIsNotOn
  <2>5. e \in Steps /\ e.run = starts'
    BY <2>1 DEF CloudInv, Steps, e
  <2>6. steps' \in Seq(Steps) /\ Len(steps') = Len(steps) + 1 /\ Last(steps') = e /\ Len(steps) \in Nat
    BY <1>0, <2>1, <2>5 DEF Last
  <2>7. ~nested' => Len(steps') <= 1
    <3>1. ~nested' => steps = <<>>
      BY <2>1
    <3>2. steps = <<>> => Len(steps) = 0
      OBVIOUS
    <3> QED
      BY <2>6, <3>1, <3>2
  <2>8. nested' \in BOOLEAN
    BY <2>1 DEF GoesOnInv
  <2> QED
    BY <2>1, <2>4, <2>5, <2>6, <2>7, <2>8 DEF GoesOnInv
<1>12. CASE UNCHANGED cloudVars
  BY <1>12 DEF cloudVars, GoesOnInv
<1> QED
  BY <1>3, <1>4, <1>5, <1>6, <1>7, <1>8, <1>9, <1>10, <1>11, <1>12 DEF CloudNext

(***************************************************************************)
(* A run that has not ended, was not stopped and was not replaced goes on, *)
(* for any words and any number of starts, also by listeners in the middle *)
(* of a step: its timer is always set, and if a step runs at all, the      *)
(* innermost is its own.  That start was not called by a listener when     *)
(* steps may give up, is where it ends (d3.layout.js:37-66).               *)
(***************************************************************************)
THEOREM RunsGoOn == CloudSpec => []CloudGoesOn
<1>1. CloudInit => GoesOnInv
  <2> SUFFICES ASSUME CloudInit PROVE GoesOnInv
    OBVIOUS
  <2>1. steps = <<>> /\ DOMAIN runs = {} /\ nested = FALSE
    BY DEF CloudInit
  <2>2. steps \in Seq(Steps) /\ Len(steps) = 0
    BY <2>1
  <2>3. nested \in BOOLEAN /\ \A r \in DOMAIN runs : FALSE
    BY <2>1
  <2>4. Len(steps) <= 1
    BY <2>2
  <2> QED
    BY <2>2, <2>3, <2>4 DEF GoesOnInv
<1>2. GoesOnInv => CloudGoesOn
  BY DEF GoesOnInv, CloudGoesOn
<1> QED
  BY <1>1, <1>2, CloudInvInit, CloudInvNext, GoesOnInvNext, PTL DEF CloudSpec

-----------------------------------------------------------------------------
(***************************************************************************)
(* Powers of two.  What pow is on 0 .. n is found by the least n for which *)
(* there would be nothing, or two things.                                  *)
(***************************************************************************)
PowersTo(n, g) ==
    /\ g \in [0 .. n -> Nat \ {0}]
    /\ \A i \in 0 .. n : g[i] = IF i = 0 THEN 1 ELSE 2 * g[i - 1]

LEMMA PowersToExists == \A n \in Nat : \E g : PowersTo(n, g)
<1> DEFINE T == {n \in Nat : ~\E g : PowersTo(n, g)}
<1> SUFFICES ASSUME T # {} PROVE FALSE
  OBVIOUS
<1>1. PICK m \in T : \A n \in T : m <= n
  <2> HIDE DEF T
  <2>1. T \subseteq Nat
    BY DEF T
  <2> QED
    BY <2>1, LeastOf
<1>2. CASE m = 0
  <2>1. PowersTo(0, [i \in 0 .. 0 |-> 1])
    BY DEF PowersTo
  <2> QED
    BY <1>2, <2>1
<1>3. CASE m # 0
  <2>1. m - 1 \in Nat /\ m - 1 \notin T
    BY <1>1, <1>3
  <2>2. PICK g : PowersTo(m - 1, g)
    BY <2>1
  <2> DEFINE h == [i \in 0 .. m |-> IF i = m THEN 2 * g[m - 1] ELSE g[i]]
  <2>3. g[m - 1] \in Nat \ {0} /\ \A i \in 0 .. m - 1 : g[i] \in Nat \ {0}
    BY <2>1, <2>2 DEF PowersTo
  <2>4. h \in [0 .. m -> Nat \ {0}]
    BY <2>1, <2>3
  <2>5. ASSUME NEW i \in 0 .. m PROVE h[i] = IF i = 0 THEN 1 ELSE 2 * h[i - 1]
    <3>1. CASE i = m
      BY <1>3, <2>1, <3>1
    <3>2. CASE i # m
      <4>1. i \in 0 .. m - 1 /\ (i # 0 => i - 1 \in 0 .. m - 1)
        BY <2>1, <3>2
      <4>2. g[i] = IF i = 0 THEN 1 ELSE 2 * g[i - 1]
        BY <2>2, <4>1 DEF PowersTo
      <4> QED
        BY <2>1, <3>2, <4>1, <4>2
    <3> QED
      BY <3>1, <3>2
  <2>6. PowersTo(m, h)
    BY <2>4, <2>5 DEF PowersTo
  <2> QED
    BY <1>1, <2>6
<1> QED
  BY <1>2, <1>3

LEMMA PowersToUnique ==
    ASSUME NEW m \in Nat, NEW n \in Nat, NEW g, NEW h, PowersTo(m, g), PowersTo(n, h),
           NEW i \in 0 .. m, i <= n
    PROVE  g[i] = h[i]
<1> DEFINE T == {j \in Nat : j <= m /\ j <= n /\ g[j] # h[j]}
<1> SUFFICES ASSUME T # {} PROVE FALSE
  OBVIOUS
<1>1. PICK j \in T : \A k \in T : j <= k
  <2> HIDE DEF T
  <2>1. T \subseteq Nat
    BY DEF T
  <2> QED
    BY <2>1, LeastOf
<1>2. j \in 0 .. m /\ j \in 0 .. n /\ g[j] # h[j]
  OBVIOUS
<1>3. /\ g[j] = IF j = 0 THEN 1 ELSE 2 * g[j - 1]
      /\ h[j] = IF j = 0 THEN 1 ELSE 2 * h[j - 1]
  BY <1>2 DEF PowersTo
<1>4. CASE j = 0
  BY <1>2, <1>3, <1>4
<1>5. CASE j # 0
  <2>1. j - 1 \in Nat /\ j - 1 \notin T
    BY <1>1, <1>2, <1>5
  <2>2. g[j - 1] = h[j - 1]
    BY <1>2, <2>1
  <2> QED
    BY <1>2, <1>3, <1>5, <2>2
<1> QED
  BY <1>4, <1>5

LEMMA PowIs ==
    /\ pow \in [Nat -> Nat \ {0}]
    /\ pow[0] = 1
    /\ \A n \in Nat : pow[n + 1] = 2 * pow[n]
<1> DEFINE To(n) == CHOOSE g : PowersTo(n, g)
           f == [n \in Nat |-> To(n)[n]]
           IsPow(g) == g = [n \in Nat |-> IF n = 0 THEN 1 ELSE 2 * g[n - 1]]
<1>1. \A n \in Nat : PowersTo(n, To(n))
  BY PowersToExists
<1> HIDE DEF To
<1>2. ASSUME NEW n \in Nat PROVE f[n] \in Nat \ {0} /\ f[n] = IF n = 0 THEN 1 ELSE 2 * f[n - 1]
  <2>1. PowersTo(n, To(n)) /\ n \in 0 .. n
    BY <1>1
  <2>2. To(n)[n] \in Nat \ {0} /\ To(n)[n] = IF n = 0 THEN 1 ELSE 2 * To(n)[n - 1]
    BY <2>1 DEF PowersTo
  <2>3. ASSUME n # 0 PROVE To(n)[n - 1] = To(n - 1)[n - 1]
    <3>1. n - 1 \in Nat /\ n - 1 \in 0 .. n - 1 /\ n - 1 <= n
      BY <2>3
    <3>2. PowersTo(n - 1, To(n - 1))
      BY <1>1, <3>1
    <3> QED
      BY <2>1, <3>1, <3>2, PowersToUnique
  <2> QED
    BY <2>2, <2>3
<1>3. f = [n \in Nat |-> f[n]]
  OBVIOUS
<1> HIDE DEF f
<1>4. IsPow(f)
  <2>1. [n \in Nat |-> f[n]] = [n \in Nat |-> IF n = 0 THEN 1 ELSE 2 * f[n - 1]]
    BY <1>2
  <2> QED
    BY <1>3, <2>1
<1>5. pow = CHOOSE g : IsPow(g)
  BY DEF pow
<1>6. IsPow(pow)
  <2> HIDE DEF IsPow
  <2> QED
    BY <1>4, <1>5
<1>7. \A n \in Nat : pow[n] = IF n = 0 THEN 1 ELSE 2 * pow[n - 1]
  <2> DEFINE p == pow
  <2>1. p = [n \in Nat |-> IF n = 0 THEN 1 ELSE 2 * p[n - 1]]
    BY <1>6
  <2> HIDE DEF p
  <2>2. \A n \in Nat : p[n] = IF n = 0 THEN 1 ELSE 2 * p[n - 1]
    BY <2>1
  <2> QED
    BY <2>2 DEF p
<1> DEFINE T == {n \in Nat : pow[n] \notin Nat \ {0}}
<1>8. T = {}
  <2> SUFFICES ASSUME T # {} PROVE FALSE
    OBVIOUS
  <2>1. PICK m \in T : \A n \in T : m <= n
    <3>1. T \subseteq Nat
      OBVIOUS
    <3> HIDE DEF T
    <3> QED
      BY <3>1, LeastOf
  <2>2. pow[m] = IF m = 0 THEN 1 ELSE 2 * pow[m - 1]
    BY <1>7, <2>1
  <2>3. CASE m = 0
    BY <2>1, <2>2, <2>3
  <2>4. CASE m # 0
    <3>1. m - 1 \in Nat /\ m - 1 \notin T
      BY <2>1, <2>4
    <3> QED
      BY <2>1, <2>2, <2>4, <3>1
  <2> QED
    BY <2>3, <2>4
<1>9. DOMAIN pow = Nat /\ pow = [n \in DOMAIN pow |-> pow[n]]
  <2> DEFINE p == pow
  <2>1. p = [n \in Nat |-> IF n = 0 THEN 1 ELSE 2 * p[n - 1]]
    BY <1>6
  <2> HIDE DEF p
  <2>2. DOMAIN p = Nat /\ p = [n \in DOMAIN p |-> p[n]]
    BY <2>1
  <2> QED
    BY <2>2 DEF p
<1>10. ASSUME NEW n \in Nat PROVE pow[n + 1] = 2 * pow[n]
  <2>1. n + 1 \in Nat /\ n + 1 # 0 /\ (n + 1) - 1 = n
    OBVIOUS
  <2> QED
    BY <1>7, <2>1
<1> HIDE DEF IsPow
<1>11. \A n \in Nat : pow[n] \in Nat \ {0}
  BY <1>8
<1>12. pow \in [Nat -> Nat \ {0}]
  <2> DEFINE p == pow
  <2>1. DOMAIN p = Nat /\ p = [n \in DOMAIN p |-> p[n]] /\ \A n \in Nat : p[n] \in Nat \ {0}
    BY <1>9, <1>11
  <2> HIDE DEF p
  <2>2. p \in [Nat -> Nat \ {0}]
    BY <2>1
  <2> QED
    BY <2>2 DEF p
<1>13. pow[0] = 1
  BY <1>7
<1> QED
  BY <1>10, <1>12, <1>13

\* A power divides every higher one.
LEMMA PowDivides ==
    ASSUME NEW m \in Nat, NEW l \in 0 .. m
    PROVE  \E k \in Nat \ {0} : pow[m] = k * pow[l]
<1> DEFINE T == {n \in Nat : n >= l /\ ~\E k \in Nat \ {0} : pow[n] = k * pow[l]}
<1> SUFFICES ASSUME T # {} PROVE FALSE
  OBVIOUS
<1>1. PICK n \in T : \A j \in T : n <= j
  <2>1. T \subseteq Nat
    OBVIOUS
  <2> HIDE DEF T
  <2> QED
    BY <2>1, LeastOf
<1>2. pow[l] \in Nat
  BY PowIs
<1>3. CASE n = l
  BY <1>1, <1>2, <1>3
<1>4. CASE n # l
  <2>1. n - 1 \in Nat /\ n - 1 >= l /\ n - 1 \notin T
    BY <1>1, <1>4
  <2>2. PICK k \in Nat \ {0} : pow[n - 1] = k * pow[l]
    BY <2>1
  <2>3. pow[(n - 1) + 1] = 2 * pow[n - 1] /\ (n - 1) + 1 = n
    BY <2>1, PowIs
  <2>4. pow[n] = (2 * k) * pow[l]
    BY <1>2, <2>2, <2>3
  <2> QED
    BY <1>1, <2>4
<1> QED
  BY <1>3, <1>4

-----------------------------------------------------------------------------
(***************************************************************************)
(* Zooms.  Views and locations are whole: what divides a translation at a  *)
(* level is the power of the level, so that nothing is rounded.  Fingers   *)
(* have locations of one level, whose middles are whole.                   *)
(***************************************************************************)
Views == [at : Int, level : 0 .. MaxLevel]

Multiple(p, n) == \E k \in Int : p = k * n

Whole(v) == v \in Views /\ Multiple(v.at, pow[v.level])

OnGrid(p) == p \in Int /\ Multiple(p, 2 * pow[MaxLevel])

Middle(p, q) == (p + q) \div 2

MiddleOf(loc, other) == [at |-> Middle(loc.at, other.at), level |-> loc.level]

ShownAt(v, p, loc) == (p - v.at) * pow[loc.level] = loc.at * pow[v.level]

FingersInv ==
    /\ zoomed \in Areas
    /\ \A f \in Down(touching) : OnGrid(touching[f]) /\ Whole(locations[f])
    /\ \A f, g \in Down(touching) :
           /\ locations[f].level = locations[g].level
           /\ Multiple(locations[f].at + locations[g].at, 2 * pow[locations[f].level])

ZoomInv ==
    /\ view \in [Areas -> Views] /\ \A area \in Areas : Whole(view[area])
    /\ mouse \in [area : Areas, p : Int, button : {"up", "pan", "other"}, click : BOOLEAN]
    /\ OnGrid(mouse.p)
    /\ DOMAIN touching = Fingers /\ DOMAIN locations = Fingers
    /\ zooming # Missing => Whole(zooming)
    /\ panning # Missing => Whole(panning) /\ zoomed \in Areas /\ mouse.button = "pan"
    /\ input = "mouse" => Down(touching) = {}
    /\ input # "mouse" => zooming = Missing /\ panning = Missing
    /\ ~crossed /\ Down(touching) # {} => FingersInv
    /\ PointsStay

LEMMA Powers == \A l \in 0 .. MaxLevel : pow[l] \in Nat \ {0}
BY PowIs, ZoomAssumption

LEMMA SpotsAreOnGrid == \A p \in Spots : OnGrid(p)
<1> SUFFICES ASSUME NEW p \in Spots PROVE OnGrid(p)
  OBVIOUS
<1>1. /\ MaxLevel \in Nat /\ p \in Int /\ p % pow[MaxLevel + 1] = 0
      /\ pow[MaxLevel + 1] = 2 * pow[MaxLevel] /\ pow[MaxLevel] \in Nat \ {0}
  BY ZoomAssumption, PowIs
<1> DEFINE n == 2 * pow[MaxLevel]
<1>2. n \in Nat \ {0} /\ p % n = 0
  BY <1>1
<1> HIDE DEF n
<1>3. PICK q \in Int, m \in 0 .. n - 1 : p \div n = q /\ p % n = m /\ p = n * q + m
  BY <1>1, <1>2, DivisionIs
<1>4. p = q * n
  BY <1>1, <1>2, <1>3
<1> QED
  BY <1>1, <1>4 DEF OnGrid, Multiple, n

\* Multiples that everything below divides.
LEMMA GridIsWhole ==
    ASSUME NEW l \in 0 .. MaxLevel, NEW p \in Int, Multiple(p, pow[MaxLevel])
    PROVE  Multiple(p, pow[l])
<1>1. MaxLevel \in Nat
  BY ZoomAssumption
<1>2. PICK k \in Nat \ {0} : pow[MaxLevel] = k * pow[l]
  BY <1>1, PowDivides
<1>3. PICK n \in Int : p = n * pow[MaxLevel]
  BY DEF Multiple
<1>4. pow[l] \in Nat
  BY Powers
<1>5. p = (n * k) * pow[l] /\ n * k \in Int
  BY <1>2, <1>3, <1>4
<1> QED
  BY <1>5 DEF Multiple

LEMMA GridIsGrid == ASSUME NEW p, OnGrid(p) PROVE p \in Int /\ Multiple(p, pow[MaxLevel])
<1>1. PICK n \in Int : p = n * (2 * pow[MaxLevel])
  BY DEF OnGrid, Multiple
<1>2. p = (2 * n) * pow[MaxLevel] /\ 2 * n \in Int
  BY <1>1, PowIs, ZoomAssumption
<1> QED
  BY <1>2 DEF OnGrid, Multiple

LEMMA SumOfMultiples ==
    ASSUME NEW p \in Int, NEW q \in Int, NEW n \in Int, Multiple(p, n), Multiple(q, n)
    PROVE  Multiple(p + q, n) /\ Multiple(p - q, n)
<1>1. PICK j \in Int : p = j * n
  BY DEF Multiple
<1>2. PICK k \in Int : q = k * n
  BY DEF Multiple
<1>3. p + q = (j + k) * n /\ p - q = (j - k) * n /\ j + k \in Int /\ j - k \in Int
  BY <1>1, <1>2
<1> QED
  BY <1>3 DEF Multiple

\* The middle of two points is where it should be.
LEMMA MiddleIs ==
    ASSUME NEW p \in Int, NEW q \in Int, NEW n \in Nat \ {0}, Multiple(p + q, 2 * n)
    PROVE  Middle(p, q) \in Int /\ p + q = 2 * Middle(p, q) /\ Multiple(Middle(p, q), n)
<1>1. PICK k \in Int : p + q = k * (2 * n)
  BY DEF Multiple
<1>2. p + q = 2 * (k * n) + 0 /\ k * n \in Int
  BY <1>1
<1>3. (p + q) \div 2 = k * n
  BY <1>2, DivisionBy
<1> QED
  BY <1>2, <1>3 DEF Middle, Multiple

LEMMA BetweenIs ==
    ASSUME NEW z \in Int, NEW low \in Int, NEW high \in Int
    PROVE  /\ Between3(z, low, high) \in {z, low, high}
           /\ low <= high => Between3(z, low, high) \in low .. high
<1> DEFINE m == Min({high, z})
<1>1. m \in {high, z} /\ m <= high
  BY OfTwo
<1>2. Max({low, m}) = IF low <= m THEN m ELSE low
  BY <1>1, OfTwo
<1> QED
  BY <1>1, <1>2 DEF Between3

(***************************************************************************)
(* zoomTo brings the location to the point, unless the extent bends it.    *)
(***************************************************************************)
LEMMA ZoomToIs ==
    ASSUME NEW area \in Areas, view \in [Areas -> Views], NEW level \in Int,
           NEW p \in Int, Multiple(p, pow[MaxLevel]), NEW loc, Whole(loc), ZoomTo(area, level, p, loc)
    PROVE  /\ view' \in [Areas -> Views] /\ Whole(view'[area])
           /\ \A b \in Areas \ {area} : view'[b] = view[b]
           /\ ~bent' => ShownAt(view'[area], p, loc)
<1> DEFINE l == Between3(level, 0, MaxLevel)
           wanted == p - (loc.at * pow[l]) \div pow[loc.level]
           new == [at |-> Clamped(wanted, l), level |-> l]
<1>1. view' = [view EXCEPT ![area] = new] /\ bent' = (Clamped(wanted, l) # wanted)
  BY DEF ZoomTo
<1>2. l \in 0 .. MaxLevel
  BY BetweenIs, ZoomAssumption
<1> HIDE DEF l
<1>3. /\ loc.at \in Int /\ loc.level \in 0 .. MaxLevel
      /\ pow[l] \in Nat \ {0} /\ pow[loc.level] \in Nat \ {0}
  BY <1>2, Powers DEF Whole, Views
<1>4. PICK n \in Int : loc.at = n * pow[loc.level]
  BY DEF Whole, Multiple
<1>5. (loc.at * pow[l]) \div pow[loc.level] = n * pow[l]
  <2>1. loc.at * pow[l] = pow[loc.level] * (n * pow[l]) + 0
    BY <1>3, <1>4
  <2>2. n * pow[l] \in Int /\ loc.at * pow[l] \in Int /\ 0 \in 0 .. pow[loc.level] - 1
    BY <1>3
  <2> QED
    BY <1>3, <2>1, <2>2, DivisionBy
<1>6. wanted \in Int /\ wanted = p - n * pow[l]
  BY <1>3, <1>5
<1>7. Multiple(wanted, pow[l])
  <2>1. Multiple(p, pow[l])
    BY <1>2, GridIsWhole
  <2>2. Multiple(n * pow[l], pow[l]) /\ n * pow[l] \in Int
    BY <1>3 DEF Multiple
  <2> QED
    BY <1>3, <1>6, <2>1, <2>2, SumOfMultiples
<1> HIDE DEF wanted
<1>8. Clamped(wanted, l) \in Int /\ Multiple(Clamped(wanted, l), pow[l])
  <2>1. High \in Int /\ Multiple(High, pow[l])
    <3>1. High \in Nat /\ High % pow[MaxLevel] = 0 /\ pow[MaxLevel] \in Nat \ {0}
      BY ZoomAssumption, PowIs
    <3> DEFINE n0 == pow[MaxLevel]
    <3>2. PICK q \in Int, m \in 0 .. n0 - 1 : High \div n0 = q /\ High % n0 = m /\ High = n0 * q + m
      <4>1. High \in Int /\ n0 \in Nat \ {0}
        BY <3>1
      <4> HIDE DEF n0
      <4> QED
        BY <4>1, DivisionIs
    <3>3. High = q * pow[MaxLevel]
      BY <3>1, <3>2
    <3>4. Multiple(High, pow[MaxLevel])
      BY <3>3 DEF Multiple
    <3> QED
      BY <1>2, <3>1, <3>4, GridIsWhole
  <2>2. Multiple(High * pow[l], pow[l]) /\ High * pow[l] \in Int
    BY <1>3, <2>1 DEF Multiple
  <2>3. High - High * pow[l] \in Int /\ Multiple(High - High * pow[l], pow[l])
    <3> DEFINE h == High * pow[l]
    <3>1. h \in Int /\ pow[l] \in Int /\ Multiple(h, pow[l])
      BY <1>3, <2>1, <2>2
    <3> HIDE DEF h
    <3>2. High - h \in Int /\ Multiple(High - h, pow[l])
      BY <2>1, <3>1, SumOfMultiples
    <3> QED
      BY <3>2 DEF h
  <2>4. Multiple(0, pow[l])
    <3>1. 0 = 0 * pow[l]
      BY <1>3
    <3> QED
      BY <3>1 DEF Multiple
  <2>5. Clamped(wanted, l) \in {wanted, High - High * pow[l], 0}
    <3> DEFINE low == High - High * pow[l]
    <3>1. low \in Int /\ wanted \in Int /\ 0 \in Int
      BY <1>6, <2>3
    <3>2. Clamped(wanted, l) = Between3(wanted, low, 0)
      BY DEF Clamped
    <3> HIDE DEF low
    <3>3. Between3(wanted, low, 0) \in {wanted, low, 0}
      BY <3>1, BetweenIs
    <3> QED
      BY <3>2, <3>3 DEF low
  <2> QED
    BY <1>6, <1>7, <2>3, <2>4, <2>5
<1>9. new \in Views /\ Whole(new)
  BY <1>2, <1>8 DEF Whole, Views
<1>10. ASSUME ~bent' PROVE ShownAt(new, p, loc)
  <2>1. new.at = p - n * pow[l] /\ new.level = l
    BY <1>1, <1>6, <1>10
  <2>2. (p - new.at) * pow[loc.level] = (n * pow[l]) * pow[loc.level]
    BY <1>3, <2>1
  <2>3. (n * pow[l]) * pow[loc.level] = (n * pow[loc.level]) * pow[l]
    BY <1>3
  <2> QED
    BY <1>4, <2>1, <2>2, <2>3 DEF ShownAt
<1> HIDE DEF new
<1>11. view'[area] = new
  BY <1>1
<1> QED
  BY <1>1, <1>9, <1>10, <1>11

(***************************************************************************)
(* Where a location comes from it is shown, and so is the middle of two.   *)
(***************************************************************************)
LEMMA LocationIs ==
    ASSUME NEW area \in Areas, view \in [Areas -> Views], Whole(view[area]), NEW p, OnGrid(p)
    PROVE  /\ Whole(Location(area, p)) /\ Location(area, p).level = view[area].level
           /\ ShownAt(view[area], p, Location(area, p))
<1>1. p \in Int /\ Multiple(p, pow[MaxLevel]) /\ view[area].at \in Int /\ view[area].level \in 0 .. MaxLevel
  BY GridIsGrid DEF Whole, Views
<1>2. Multiple(p, pow[view[area].level]) /\ Multiple(view[area].at, pow[view[area].level])
  BY <1>1, GridIsWhole DEF Whole
<1>3. Multiple(p - view[area].at, pow[view[area].level])
  BY <1>1, <1>2, Powers, SumOfMultiples
<1> QED
  BY <1>1, <1>3 DEF Whole, Views, Location, ShownAt

LEMMA MiddleOfLocations ==
    ASSUME NEW area \in Areas, view \in [Areas -> Views], Whole(view[area]),
           NEW p, OnGrid(p), NEW q, OnGrid(q)
    PROVE  /\ Multiple(Location(area, p).at + Location(area, q).at, 2 * pow[view[area].level])
           /\ ShownAt(view[area], Middle(p, q), MiddleOf(Location(area, p), Location(area, q)))
<1> DEFINE at == view[area].at
           w == pow[view[area].level]
<1>1. /\ p \in Int /\ q \in Int /\ at \in Int /\ w \in Nat \ {0} /\ pow[MaxLevel] \in Nat \ {0}
      /\ view[area].level \in 0 .. MaxLevel
  BY Powers, PowIs, ZoomAssumption DEF Whole, Views, OnGrid
<1>2. Multiple(p + q, 2 * pow[MaxLevel])
  BY <1>1, SumOfMultiples DEF OnGrid
<1>3. Middle(p, q) \in Int /\ p + q = 2 * Middle(p, q) /\ Multiple(Middle(p, q), pow[MaxLevel])
  BY <1>1, <1>2, MiddleIs
<1>4. Multiple(Middle(p, q), w)
  BY <1>1, <1>3, GridIsWhole
<1>5. Multiple(Middle(p, q) - at, w)
  <2>1. Multiple(at, w) /\ w \in Int
    BY <1>1 DEF Whole
  <2> HIDE DEF at, w
  <2> QED
    BY <1>1, <1>3, <1>4, <2>1, SumOfMultiples
<1>6. (p - at) + (q - at) = 2 * (Middle(p, q) - at)
  BY <1>1, <1>3
<1>7. Multiple((p - at) + (q - at), 2 * w)
  <2>1. PICK k \in Int : Middle(p, q) - at = k * w
    BY <1>5 DEF Multiple
  <2>2. (p - at) + (q - at) = k * (2 * w)
    BY <1>1, <1>6, <2>1
  <2> QED
    BY <2>2 DEF Multiple
<1>8. Middle(p - at, q - at) = Middle(p, q) - at
  <2>1. p - at \in Int /\ q - at \in Int
    BY <1>1
  <2>2. (p - at) + (q - at) = 2 * Middle(p - at, q - at) /\ Middle(p - at, q - at) \in Int
    BY <1>1, <1>7, <2>1, MiddleIs
  <2> QED
    <3> DEFINE x1 == Middle(p - at, q - at)
               x2 == Middle(p, q)
    <3>1. x1 \in Int /\ x2 \in Int /\ at \in Int /\ 2 * x1 = 2 * (x2 - at)
      BY <1>1, <1>3, <1>6, <2>2
    <3> HIDE DEF x1, x2, at
    <3>2. x1 = x2 - at
      BY <3>1
    <3> QED
      BY <3>2 DEF x1, x2
<1>9. Location(area, p) = [at |-> p - at, level |-> view[area].level] /\ Location(area, q) = [at |-> q - at, level |-> view[area].level]
  BY DEF Location
<1> QED
  BY <1>7, <1>8, <1>9 DEF ShownAt, MiddleOf

(***************************************************************************)
(* What is under the mouse, said of the view.                              *)
(***************************************************************************)
LEMMA UnderMouseIs ==
    UnderMouse <=> /\ zooming # Missing => ShownAt(view[mouse.area], mouse.p, zooming)
                   /\ panning # Missing /\ zooming = Missing => ShownAt(view[zoomed], mouse.p, panning)
BY DEF UnderMouse, Shows, ShownAt

LEMMA ZoomInvInit == ZoomInit => ZoomInv
<1> SUFFICES ASSUME ZoomInit PROVE ZoomInv
  OBVIOUS
<1>1. view \in [Areas -> Views] /\ \A area \in Areas : Whole(view[area])
  <2>1. MaxLevel \in Nat /\ [at |-> 0, level |-> 0] \in Views
    BY ZoomAssumption DEF Views
  <2>2. 0 = 0 * pow[0] /\ 0 \in Int
    BY PowIs
  <2> QED
    BY <2>1, <2>2 DEF ZoomInit, Whole, Multiple
<1>2. OnGrid(mouse.p) /\ mouse \in [area : Areas, p : Int, button : {"up", "pan", "other"}, click : BOOLEAN]
  <2>1. mouse.p = 0 /\ mouse \in [area : Areas, p : {0}, button : {"up"}, click : {FALSE}]
    BY DEF ZoomInit
  <2>2. 0 = 0 * (2 * pow[MaxLevel]) /\ 0 \in Int
    BY PowIs, ZoomAssumption
  <2> QED
    BY <2>1, <2>2 DEF OnGrid, Multiple
<1>3. Down(touching) = {} /\ zooming = Missing /\ panning = Missing
  BY DEF ZoomInit, Down
<1> QED
  BY <1>1, <1>2, <1>3 DEF ZoomInv, ZoomInit, PointsStay, UnderMouse, UnderFingers

(***************************************************************************)
(* The mouse.                                                              *)
(***************************************************************************)
LEMMA WholeIsNotMissing == \A loc : Whole(loc) => loc # Missing
BY ZoomAssumption DEF Whole, Views

\* What the mouse does while no finger is down.
LEMMA MouseKeeps ==
    ASSUME ZoomInv, input = "mouse", UNCHANGED <<input, touchState>>,
           view' \in [Areas -> Views], \A area \in Areas : Whole(view'[area]),
           mouse' \in [area : Areas, p : Int, button : {"up", "pan", "other"}, click : BOOLEAN],
           OnGrid(mouse'.p),
           zooming' # Missing => Whole(zooming'),
           panning' # Missing => Whole(panning') /\ zoomed' \in Areas /\ mouse'.button = "pan",
           ~bent' /\ ~crossed' =>
               /\ zooming' # Missing => ShownAt(view'[mouse'.area], mouse'.p, zooming')
               /\ panning' # Missing /\ zooming' = Missing => ShownAt(view'[zoomed'], mouse'.p, panning')
    PROVE  ZoomInv'
<1>1. Down(touching)' = {} /\ DOMAIN touching' = Fingers /\ DOMAIN locations' = Fingers
  BY DEF ZoomInv, Down, touchState
<1>2. UnderFingers'
  BY <1>1 DEF UnderFingers
<1>3. ~bent' /\ ~crossed' => UnderMouse'
  BY DEF UnderMouse, Shows, ShownAt
<1>4. PointsStay'
  BY <1>2, <1>3 DEF PointsStay
<1>5. (\A area \in Areas : Whole(view[area]))'
  BY DEF Whole
<1>6. (zooming # Missing => Whole(zooming))' /\ (panning # Missing => Whole(panning) /\ zoomed \in Areas /\ mouse.button = "pan")'
  BY DEF Whole
<1>7. OnGrid(mouse.p)'
  BY DEF OnGrid
<1> QED
  BY <1>1, <1>4, <1>5, <1>6, <1>7 DEF ZoomInv, Whole, OnGrid

LEMMA MouseSteps ==
    ASSUME ZoomInv, ~crossed, input = "mouse",
           \/ ZoomDown \/ ZoomDownElsewhere \/ ZoomClick
           \/ \E area \in Areas, p \in Spots : ZoomMove(area, p)
           \/ \E same \in BOOLEAN : ZoomUp(same)
           \/ \E delta \in {-1, 1} : Wheel(delta) \/ DoubleClick(delta)
    PROVE  ZoomInv'
<1> DEFINE at == mouse.area
           p == mouse.p
<1> USE DEF mouseState
<1>1. /\ at \in Areas /\ p \in Int /\ OnGrid(p) /\ Multiple(p, pow[MaxLevel])
      /\ mouse \in [area : Areas, p : Int, button : {"up", "pan", "other"}, click : BOOLEAN]
      /\ view \in [Areas -> Views] /\ (\A area \in Areas : Whole(view[area]) /\ view[area].level \in Int)
      /\ zooming # Missing => Whole(zooming)
      /\ panning # Missing => Whole(panning) /\ zoomed \in Areas /\ mouse.button = "pan"
      /\ ~bent => /\ zooming # Missing => ShownAt(view[at], p, zooming)
                  /\ panning # Missing /\ zooming = Missing => ShownAt(view[zoomed], p, panning)
  BY GridIsGrid, UnderMouseIs, ZoomAssumption DEF ZoomInv, PointsStay, Whole, Views
<1>2. Whole(Location(at, p)) /\ ShownAt(view[at], p, Location(at, p)) /\ Location(at, p) # Missing
  BY <1>1, LocationIs, WholeIsNotMissing
<1>3. CASE ZoomDown
  <2>1. /\ panning' = Location(at, p) /\ zoomed' = at /\ mouse' = [mouse EXCEPT !.button = "pan"]
        /\ UNCHANGED <<input, touchState, view, zooming, bent, crossed>>
    BY <1>3 DEF ZoomDown
  <2>2. mouse'.area = at /\ mouse'.p = p /\ mouse'.button = "pan"
        /\ mouse' \in [area : Areas, p : Int, button : {"up", "pan", "other"}, click : BOOLEAN]
    BY <1>1, <2>1
  <2> HIDE DEF at, p
  <2> QED
    BY <1>1, <1>2, <2>1, <2>2, MouseKeeps
<1>4. CASE ZoomDownElsewhere
  <2>1. /\ mouse.button = "up" /\ mouse' = [mouse EXCEPT !.button = "other"]
        /\ UNCHANGED <<input, touchState, view, zoomed, panning, zooming, bent, crossed>>
    BY <1>4 DEF ZoomDownElsewhere
  <2>2. mouse'.area = at /\ mouse'.p = p
        /\ mouse' \in [area : Areas, p : Int, button : {"up", "pan", "other"}, click : BOOLEAN]
    BY <1>1, <2>1
  <2> QED
    BY <1>1, <2>1, <2>2, MouseKeeps
<1>5. CASE ZoomClick
  <2>1. /\ mouse' = [mouse EXCEPT !.click = FALSE]
        /\ UNCHANGED <<input, touchState, view, zoomed, panning, zooming, bent, crossed>>
    BY <1>5 DEF ZoomClick
  <2>2. mouse'.area = at /\ mouse'.p = p /\ mouse'.button = mouse.button
        /\ mouse' \in [area : Areas, p : Int, button : {"up", "pan", "other"}, click : BOOLEAN]
    BY <1>1, <2>1
  <2> QED
    BY <1>1, <2>1, <2>2, MouseKeeps
<1>6. ASSUME NEW area \in Areas, NEW q \in Spots, ZoomMove(area, q) PROVE ZoomInv'
  <2>1. OnGrid(q) /\ q \in Int /\ Multiple(q, pow[MaxLevel])
    BY SpotsAreOnGrid, GridIsGrid
  <2>2. /\ mouse' = [mouse EXCEPT !.area = area, !.p = q] /\ zooming' = Missing
        /\ UNCHANGED <<input, touchState, zoomed, panning, crossed>>
        /\ IF panning = Missing THEN UNCHANGED <<view, panMoved, bent>>
           ELSE ZoomTo(zoomed, view[zoomed].level, q, panning)
    BY <1>6 DEF ZoomMove
  <2>3. mouse'.area = area /\ mouse'.p = q /\ mouse'.button = mouse.button
        /\ mouse' \in [area : Areas, p : Int, button : {"up", "pan", "other"}, click : BOOLEAN]
    BY <1>1, <2>1, <2>2
  <2>4. CASE panning = Missing
    BY <1>1, <2>1, <2>2, <2>3, <2>4, MouseKeeps
  <2>5. CASE panning # Missing
    <3>1. /\ view' \in [Areas -> Views] /\ Whole(view'[zoomed])
          /\ \A b \in Areas \ {zoomed} : view'[b] = view[b]
          /\ ~bent' => ShownAt(view'[zoomed], q, panning)
      BY <1>1, <2>1, <2>2, <2>5, ZoomToIs
    <3>2. \A b \in Areas : Whole(view'[b])
      BY <1>1, <3>1
    <3> QED
      BY <1>1, <2>1, <2>2, <2>3, <2>5, <3>1, <3>2, MouseKeeps
  <2> QED
    BY <2>4, <2>5
<1>7. ASSUME NEW same \in BOOLEAN, ZoomUp(same) PROVE ZoomInv'
  <2>1. /\ mouse' = [mouse EXCEPT !.button = "up", !.click = same] /\ panning' = Missing
        /\ UNCHANGED <<input, touchState, view, zooming, bent, crossed>>
    BY <1>7 DEF ZoomUp
  <2>2. mouse'.area = at /\ mouse'.p = p
        /\ mouse' \in [area : Areas, p : Int, button : {"up", "pan", "other"}, click : BOOLEAN]
    BY <1>1, <2>1
  <2> QED
    BY <1>1, <2>1, <2>2, MouseKeeps
<1>8. ASSUME NEW delta \in {-1, 1}, Wheel(delta) PROVE ZoomInv'
  <2>1. /\ zoomed' = at /\ zooming' = IF zooming = Missing THEN Location(at, p) ELSE zooming
        /\ ZoomTo(at, view[at].level + delta, p, zooming')
        /\ UNCHANGED <<input, panning, mouse, touchState>>
    BY <1>8 DEF Wheel
  <2>2. Whole(zooming') /\ zooming' # Missing
    BY <1>1, <1>2, <2>1
  <2>3. view[at].level + delta \in Int
    BY <1>1
  <2>4. /\ view' \in [Areas -> Views] /\ Whole(view'[at])
        /\ \A b \in Areas \ {at} : view'[b] = view[b]
        /\ ~bent' => ShownAt(view'[at], p, zooming')
    BY <1>1, <2>1, <2>2, <2>3, ZoomToIs
  <2>5. \A b \in Areas : Whole(view'[b])
    BY <1>1, <2>4
  <2> QED
    BY <1>1, <2>1, <2>2, <2>4, <2>5, MouseKeeps
<1>9. ASSUME NEW delta \in {-1, 1}, DoubleClick(delta) PROVE ZoomInv'
  <2>1. /\ mouse.button = "up" /\ zoomed' = at /\ crossed' = (crossed \/ (zooming # Missing /\ bent))
        /\ ZoomTo(at, view[at].level + delta, p, Location(at, p))
        /\ UNCHANGED <<input, panning, zooming, mouse, touchState>>
    BY <1>9 DEF DoubleClick
  <2>2. view[at].level + delta \in Int
    BY <1>1
  <2>3. /\ view' \in [Areas -> Views] /\ Whole(view'[at])
        /\ \A b \in Areas \ {at} : view'[b] = view[b]
        /\ ~bent' => ShownAt(view'[at], p, Location(at, p))
    BY <1>1, <1>2, <2>1, <2>2, ZoomToIs
  <2>4. \A b \in Areas : Whole(view'[b])
    BY <1>1, <2>3
  <2>5. ASSUME ~bent', ~crossed', zooming # Missing PROVE ShownAt(view'[at], p, zooming)
    <3> DEFINE across == p - view[at].at
               y == p - view'[at].at
               u == pow[view[at].level]
               v == pow[view'[at].level]
               w == pow[zooming.level]
               z == zooming.at
    <3>1. ShownAt(view[at], p, zooming)
      BY <1>1, <2>1, <2>5
    <3>2. across * w = z * u /\ y * u = across * v
      BY <2>3, <2>5, <3>1 DEF ShownAt, Location
    <3>3. across \in Int /\ y \in Int /\ z \in Int /\ u \in Nat \ {0} /\ v \in Nat /\ w \in Nat
      BY <1>1, <2>3, <2>5, Powers DEF Whole, Views
    <3>4. y * w = z * v
      <4> HIDE DEF across, y, z, u, v, w
      <4>1. (y * w) * u = (y * u) * w /\ (across * v) * w = (across * w) * v /\ (z * u) * v = (z * v) * u
        BY <3>3
      <4>2. (y * w) * u = (z * v) * u
        BY <3>2, <4>1
      <4>3. y * w \in Int /\ z * v \in Int
        BY <3>3
      <4>4. \A i, j \in Int : \A n \in Nat \ {0} : i * n = j * n => i = j
        <5> SUFFICES ASSUME NEW i \in Int, NEW j \in Int, NEW n \in Nat \ {0}, i * n = j * n PROVE i = j
          OBVIOUS
        <5>1. (i - j) * n = 0
          OBVIOUS
        <5> QED
          BY <5>1
      <4> QED
        BY <3>3, <4>2, <4>3, <4>4
    <3> QED
      BY <3>4 DEF ShownAt
  <2>6. panning = Missing
    BY <1>1, <2>1
  <2> QED
    BY <1>1, <2>1, <2>3, <2>4, <2>5, <2>6, MouseKeeps
<1> QED
  BY <1>3, <1>4, <1>5, <1>6, <1>7, <1>8, <1>9

(***************************************************************************)
(* Fingers.                                                                *)
(***************************************************************************)
LEMMA FingersKeep ==
    ASSUME ZoomInv, input # "mouse", UNCHANGED <<input, mouseState>>,
           view' \in [Areas -> Views], \A area \in Areas : Whole(view'[area]),
           DOMAIN touching' = Fingers, DOMAIN locations' = Fingers,
           ~crossed' /\ Down(touching') # {} =>
               /\ zoomed' \in Areas
               /\ \A f \in Down(touching') : OnGrid(touching'[f]) /\ Whole(locations'[f])
               /\ \A f, g \in Down(touching') :
                      /\ locations'[f].level = locations'[g].level
                      /\ Multiple(locations'[f].at + locations'[g].at, 2 * pow[locations'[f].level])
                      /\ ~bent' /\ Down(touching') = {f, g} =>
                             ShownAt(view'[zoomed'], Middle(touching'[f], touching'[g]),
                                   MiddleOf(locations'[f], locations'[g]))
    PROVE  ZoomInv'
<1>1. Down(touching)' = Down(touching') /\ zooming' = Missing /\ panning' = Missing
  BY DEF ZoomInv, Down, mouseState
<1>2. UnderMouse'
  BY <1>1 DEF UnderMouse
<1>3. ~bent' /\ ~crossed' => UnderFingers'
  BY <1>1 DEF UnderFingers, Shows, ShownAt, Middle, MiddleOf
<1>4. PointsStay'
  BY <1>2, <1>3 DEF PointsStay
<1>5. (\A area \in Areas : Whole(view[area]))' /\ OnGrid(mouse.p)'
  BY DEF Whole, OnGrid, ZoomInv, mouseState
<1>6. (~crossed /\ Down(touching) # {} => FingersInv)'
  BY <1>1 DEF FingersInv, Whole, OnGrid, Multiple
<1> QED
  BY <1>1, <1>4, <1>5, <1>6 DEF ZoomInv, mouseState

LEMMA LocatedIs ==
    ASSUME NEW area \in Areas, view \in [Areas -> Views], Whole(view[area]),
           NEW touches, \A f \in Down(touches) : OnGrid(touches[f]),
           NEW f \in Down(touches), NEW g \in Down(touches)
    PROVE  /\ Located(area, touches)[f] = Location(area, touches[f])
           /\ Whole(Located(area, touches)[f])
           /\ Located(area, touches)[f].level = Located(area, touches)[g].level
           /\ Multiple(Located(area, touches)[f].at + Located(area, touches)[g].at,
                       2 * pow[Located(area, touches)[f].level])
           /\ ShownAt(view[area], Middle(touches[f], touches[g]),
                    MiddleOf(Located(area, touches)[f], Located(area, touches)[g]))
<1>1. \A h \in Down(touches) : Located(area, touches)[h] = Location(area, touches[h])
  BY DEF Located, Down
<1>2. /\ Whole(Location(area, touches[f])) /\ Location(area, touches[f]).level = view[area].level
      /\ Location(area, touches[g]).level = view[area].level
  BY LocationIs
<1> QED
  BY <1>1, <1>2, MiddleOfLocations

\* One finger is the middle between itself and itself.
LEMMA MiddleOfOne ==
    ASSUME NEW p \in Int, NEW loc, Whole(loc)
    PROVE  Middle(p, p) = p /\ MiddleOf(loc, loc) = loc
<1>1. \A n \in Int : Middle(n, n) = n
  <2> SUFFICES ASSUME NEW n \in Int PROVE Middle(n, n) = n
    OBVIOUS
  <2>1. n + n = 2 * n + 0 /\ n + n \in Int /\ 0 \in 0 .. 2 - 1
    OBVIOUS
  <2>2. (n + n) \div 2 = n
    BY <2>1, DivisionBy
  <2> QED
    BY <2>2 DEF Middle
<1> QED
  BY <1>1 DEF Whole, Views, MiddleOf

LEMMA TouchStartKeeps ==
    ASSUME ZoomInv, ~crossed, input # "mouse",
           NEW area \in Areas, NEW f \in Fingers, NEW p \in Spots, NEW fast \in BOOLEAN,
           TouchStart(area, f, p, fast)
    PROVE  ZoomInv'
<1> DEFINE new == [touching EXCEPT ![f] = p]
<1>1. /\ touching[f] = Missing /\ (Down(touching) = {} \/ zoomed = area)
      /\ touching' = new /\ zoomed' = area /\ locations' = Located(area, new)
      /\ IF fast /\ Down(new) = {f} THEN ZoomTo(area, view[area].level + 1, p, locations'[f])
         ELSE bent' = FALSE /\ UNCHANGED view
      /\ UNCHANGED <<input, mouseState, crossed>>
  BY DEF TouchStart
<1>2. view \in [Areas -> Views] /\ (\A b \in Areas : Whole(view[b])) /\ DOMAIN touching = Fingers
  BY DEF ZoomInv
<1>3. OnGrid(p) /\ p \in Int /\ Multiple(p, pow[MaxLevel]) /\ p # Missing
  BY SpotsAreOnGrid, GridIsGrid, ZoomAssumption
<1>4. /\ DOMAIN new = Fingers /\ new[f] = p /\ \A g \in Fingers \ {f} : new[g] = touching[g]
      /\ DOMAIN Located(area, new) = Fingers
  BY <1>2 DEF Located
<1> HIDE DEF new
<1>5. Down(new) = Down(touching) \cup {f} /\ f \in Down(new)
  BY <1>3, <1>4 DEF Down
<1>6. \A g \in Down(new) : OnGrid(new[g])
  BY <1>1, <1>3, <1>4, <1>5 DEF ZoomInv, FingersInv, Down
<1>7. \A g, h \in Down(new) :
          /\ Whole(locations'[g]) /\ locations'[g].level = locations'[h].level
          /\ Multiple(locations'[g].at + locations'[h].at, 2 * pow[locations'[g].level])
          /\ ShownAt(view[area], Middle(new[g], new[h]), MiddleOf(locations'[g], locations'[h]))
  BY <1>1, <1>2, <1>6, LocatedIs
<1>8. CASE fast /\ Down(new) = {f}
  <2>1. Whole(locations'[f]) /\ view[area].level + 1 \in Int
    BY <1>2, <1>5, <1>7, ZoomAssumption DEF Views
  <2>2. ZoomTo(area, view[area].level + 1, p, locations'[f])
    BY <1>1, <1>8
  <2>3. /\ view' \in [Areas -> Views] /\ Whole(view'[area])
        /\ \A b \in Areas \ {area} : view'[b] = view[b]
        /\ ~bent' => ShownAt(view'[area], p, locations'[f])
    BY <1>2, <1>3, <2>1, <2>2, ZoomToIs
  <2>4. \A b \in Areas : Whole(view'[b])
    BY <1>2, <2>3
  <2>5. Middle(p, p) = p /\ MiddleOf(locations'[f], locations'[f]) = locations'[f]
    BY <1>3, <2>1, MiddleOfOne
  <2>6. \A g, h \in Down(new) : ~bent' =>
            ShownAt(view'[area], Middle(new[g], new[h]), MiddleOf(locations'[g], locations'[h]))
    BY <1>4, <1>8, <2>3, <2>5
  <2> QED
    BY <1>1, <1>4, <1>6, <1>7, <2>3, <2>4, <2>6, FingersKeep
<1>9. CASE ~(fast /\ Down(new) = {f})
  BY <1>1, <1>2, <1>4, <1>6, <1>7, <1>9, FingersKeep
<1> QED
  BY <1>8, <1>9

LEMMA TouchEndKeeps ==
    ASSUME ZoomInv, ~crossed, input # "mouse", NEW f \in Fingers, TouchEnd(f)
    PROVE  ZoomInv'
<1> DEFINE new == [touching EXCEPT ![f] = Missing]
<1>1. /\ touching[f] # Missing /\ touching' = new /\ locations' = Located(zoomed, new)
      /\ UNCHANGED <<input, mouseState, view, zoomed>>
  BY DEF TouchEnd
<1>2. view \in [Areas -> Views] /\ (\A b \in Areas : Whole(view[b])) /\ DOMAIN touching = Fingers
  BY DEF ZoomInv
<1>3. /\ DOMAIN new = Fingers /\ new[f] = Missing /\ \A g \in Fingers \ {f} : new[g] = touching[g]
      /\ DOMAIN Located(zoomed, new) = Fingers
  BY <1>2 DEF Located
<1> HIDE DEF new
<1>4. f \in Down(touching) /\ Down(new) \subseteq Down(touching) /\ FingersInv
  BY <1>1, <1>3 DEF Down, ZoomInv
<1>5. zoomed \in Areas /\ \A g \in Down(new) : OnGrid(new[g])
  BY <1>3, <1>4 DEF FingersInv, Down
<1>6. \A g, h \in Down(new) :
          /\ Whole(locations'[g]) /\ locations'[g].level = locations'[h].level
          /\ Multiple(locations'[g].at + locations'[h].at, 2 * pow[locations'[g].level])
          /\ ShownAt(view[zoomed], Middle(new[g], new[h]), MiddleOf(locations'[g], locations'[h]))
  BY <1>1, <1>2, <1>5, LocatedIs
<1> QED
  BY <1>1, <1>2, <1>3, <1>5, <1>6, FingersKeep

LEMMA TouchMoveKeeps ==
    ASSUME ZoomInv, ~crossed, input # "mouse",
           NEW f \in Fingers, NEW p \in Spots, NEW stretch \in {-1, 0, 1}, TouchMove(f, p, stretch)
    PROVE  ZoomInv'
<1> DEFINE new == [touching EXCEPT ![f] = p]
           others == Down(touching) \ {f}
           level == locations[f].level
<1>1. /\ touching[f] # Missing /\ touching' = new
      /\ IF others = {} THEN ZoomTo(zoomed, view[zoomed].level, p, locations[f])
         ELSE \E g \in others :
                 IF others = {g}
                 THEN ZoomTo(zoomed, level + stretch, Middle(p, touching[g]),
                             MiddleOf(locations[f], locations[g]))
                 ELSE UNCHANGED <<view, bent>>
      /\ UNCHANGED <<input, mouseState, locations, zoomed>>
  BY DEF TouchMove, Middle, MiddleOf
<1>2. /\ view \in [Areas -> Views] /\ (\A b \in Areas : Whole(view[b]))
      /\ DOMAIN touching = Fingers /\ DOMAIN locations = Fingers
  BY DEF ZoomInv
<1>3. OnGrid(p) /\ p \in Int /\ Multiple(p, pow[MaxLevel]) /\ p # Missing
  BY SpotsAreOnGrid, GridIsGrid, ZoomAssumption
<1>4. DOMAIN new = Fingers /\ new[f] = p /\ \A g \in Fingers \ {f} : new[g] = touching[g]
  BY <1>2
<1> HIDE DEF new
<1>5. f \in Down(touching) /\ Down(new) = Down(touching) /\ FingersInv
  BY <1>1, <1>3, <1>4 DEF Down, ZoomInv
<1>6. /\ zoomed \in Areas /\ view[zoomed].level \in Int
      /\ \A g \in Down(new) : OnGrid(new[g]) /\ Whole(locations[g])
      /\ \A g, h \in Down(new) :
             /\ locations[g].level = locations[h].level
             /\ Multiple(locations[g].at + locations[h].at, 2 * pow[locations[g].level])
  BY <1>2, <1>3, <1>4, <1>5 DEF FingersInv, Down, Views
<1>7. CASE others = {}
  <2>1. Down(new) = {f}
    BY <1>5, <1>7
  <2>2. /\ view' \in [Areas -> Views] /\ Whole(view'[zoomed])
        /\ \A b \in Areas \ {zoomed} : view'[b] = view[b]
        /\ ~bent' => ShownAt(view'[zoomed], p, locations[f])
    BY <1>1, <1>2, <1>3, <1>5, <1>6, <1>7, ZoomToIs
  <2>3. Middle(p, p) = p /\ MiddleOf(locations[f], locations[f]) = locations[f]
    BY <1>3, <1>5, <1>6, MiddleOfOne
  <2>4. \A b \in Areas : Whole(view'[b])
    BY <1>2, <2>2
  <2>5. \A g, h \in Down(new) : ~bent' =>
            ShownAt(view'[zoomed], Middle(new[g], new[h]), MiddleOf(locations[g], locations[h]))
    BY <1>4, <2>1, <2>2, <2>3
  <2> QED
    BY <1>1, <1>2, <1>4, <1>6, <2>2, <2>4, <2>5, FingersKeep
<1>8. ASSUME NEW g \in others, others = {g},
             ZoomTo(zoomed, level + stretch, Middle(p, touching[g]), MiddleOf(locations[f], locations[g]))
      PROVE  ZoomInv'
  <2> DEFINE q == touching[g]
             mid == MiddleOf(locations[f], locations[g])
  <2>1. g \in Down(new) /\ f \in Down(new) /\ f # g /\ Down(new) = {f, g} /\ new[g] = q /\ OnGrid(q) /\ q \in Int
    BY <1>4, <1>5, <1>6, <1>8 DEF Down, OnGrid
  <2>2. Middle(p, q) \in Int /\ Multiple(Middle(p, q), pow[MaxLevel])
    <3>1. pow[MaxLevel] \in Nat \ {0} /\ 2 * pow[MaxLevel] \in Int
      BY PowIs, ZoomAssumption
    <3>2. Multiple(p, 2 * pow[MaxLevel]) /\ Multiple(q, 2 * pow[MaxLevel])
      BY <1>3, <2>1 DEF OnGrid
    <3> DEFINE n == 2 * pow[MaxLevel]
    <3>3. Multiple(p + q, n)
      <4>1. n \in Int /\ Multiple(p, n) /\ Multiple(q, n)
        BY <3>1, <3>2
      <4> HIDE DEF n, q
      <4> QED
        BY <1>3, <2>1, <4>1, SumOfMultiples
    <3> QED
      BY <1>3, <2>1, <3>1, <3>3, MiddleIs
  <2>3. /\ locations[f].at \in Int /\ locations[g].at \in Int /\ level \in 0 .. MaxLevel
        /\ locations[g].level = level /\ pow[level] \in Nat \ {0} /\ level + stretch \in Int
        /\ Multiple(locations[f].at + locations[g].at, 2 * pow[level])
    BY <1>6, <2>1, Powers DEF Whole, Views
  <2>4. Whole(mid)
    <3>1. Middle(locations[f].at, locations[g].at) \in Int /\ Multiple(Middle(locations[f].at, locations[g].at), pow[level])
      BY <2>3, MiddleIs
    <3> QED
      BY <2>3, <3>1 DEF Whole, Views, MiddleOf
  <2>5. ZoomTo(zoomed, level + stretch, Middle(p, q), mid)
    BY <1>8
  <2> HIDE DEF mid, q, level
  <2>6. /\ view' \in [Areas -> Views] /\ Whole(view'[zoomed])
        /\ \A b \in Areas \ {zoomed} : view'[b] = view[b]
        /\ ~bent' => ShownAt(view'[zoomed], Middle(p, q), mid)
    BY <1>2, <1>6, <2>2, <2>3, <2>4, <2>5, ZoomToIs
  <2>7. \A b \in Areas : Whole(view'[b])
    BY <1>2, <2>6
  <2>8. ASSUME NEW i \in Down(new), NEW j \in Down(new), Down(new) = {i, j}, ~bent'
        PROVE  ShownAt(view'[zoomed], Middle(new[i], new[j]), MiddleOf(locations[i], locations[j]))
    <3>1. CASE i = f /\ j = g
      BY <1>4, <2>1, <2>6, <2>8, <3>1 DEF mid
    <3>2. CASE i = g /\ j = f
      <4>1. Middle(q, p) = Middle(p, q)
        BY <1>3, <2>1 DEF Middle
      <4>2. MiddleOf(locations[g], locations[f]) = mid
        <5>1. locations[g].at + locations[f].at = locations[f].at + locations[g].at
          BY <2>3
        <5>2. Middle(locations[g].at, locations[f].at) = Middle(locations[f].at, locations[g].at)
          BY <5>1 DEF Middle
        <5> QED
          BY <2>3, <5>2 DEF mid, MiddleOf, level
      <4> QED
        BY <1>4, <2>1, <2>6, <2>8, <3>2, <4>1, <4>2
    <3> QED
      BY <2>1, <2>8, <3>1, <3>2
  <2> QED
    BY <1>1, <1>2, <1>4, <1>6, <2>6, <2>7, <2>8, FingersKeep
<1>9. ASSUME NEW g \in others, others # {g}, UNCHANGED <<view, bent>> PROVE ZoomInv'
  <2>1. \A i, j \in Down(new) : Down(new) # {i, j}
    <3>1. PICK h \in others : h # g
      BY <1>9
    <3>2. f \in Down(new) /\ g \in Down(new) /\ h \in Down(new) /\ f # g /\ f # h
      BY <1>5, <3>1
    <3> HIDE DEF others
    <3> QED
      BY <3>1, <3>2
  <2> QED
    BY <1>1, <1>2, <1>4, <1>6, <1>9, <2>1, FingersKeep
<1> QED
  BY <1>1, <1>7, <1>8, <1>9

LEMMA TouchElsewhereKeeps ==
    ASSUME ZoomInv, input # "mouse", NEW f \in Fingers, NEW p \in Spots, TouchElsewhere(f, p)
    PROVE  ZoomInv'
<1>1. /\ touching' = [touching EXCEPT ![f] = p] /\ crossed' = TRUE
      /\ UNCHANGED <<input, view, zoomed, mouseState, locations, bent>>
  BY DEF TouchElsewhere
<1>2. /\ view \in [Areas -> Views] /\ (\A b \in Areas : Whole(view[b]))
      /\ DOMAIN touching = Fingers /\ DOMAIN locations = Fingers
  BY DEF ZoomInv
<1> QED
  BY <1>1, <1>2, FingersKeep

LEMMA ZoomInvNext == ZoomInv /\ [ZoomNext]_zoomVars => ZoomInv'
<1> SUFFICES ASSUME ZoomInv, [ZoomNext]_zoomVars PROVE ZoomInv'
  OBVIOUS
<1>1. CASE UNCHANGED zoomVars
  <2>1. ZoomInv' <=> ZoomInv
    BY <1>1 DEF ZoomInv, Whole, OnGrid, FingersInv, Down, PointsStay, UnderMouse, UnderFingers, Shows,
                zoomVars, mouseState, touchState
  <2> QED
    BY <2>1
<1>2. CASE ZoomNext
  <2>1. ~crossed
    BY <1>2 DEF ZoomNext
  <2>2. CASE input = "mouse"
    BY <1>2, <2>1, <2>2, MouseSteps DEF ZoomNext
  <2>3. CASE input # "mouse"
    <3>1. \/ \E f \in Fingers, p \in Spots :
                \/ \E area \in Areas, fast \in BOOLEAN : TouchStart(area, f, p, fast)
                \/ TouchElsewhere(f, p)
                \/ \E stretch \in {-1, 0, 1} : TouchMove(f, p, stretch)
          \/ \E f \in Fingers : TouchEnd(f)
      BY <1>2, <2>3 DEF ZoomNext
    <3> QED
      BY <2>1, <2>3, <3>1, TouchStartKeeps, TouchElsewhereKeeps, TouchMoveKeeps, TouchEndKeeps
  <2> QED
    BY <2>2, <2>3
<1> QED
  BY <1>1, <1>2

(***************************************************************************)
(* The mouse, a finger, or the middle of two fingers keeps the point of    *)
(* the drawing it holds, for any areas, any number of fingers, levels and  *)
(* an extent of any size that is not rounded: through every sequence of    *)
(* panning, turns of the wheel, double clicks and touches in which the     *)
(* extent does not bend the last step and nothing else is zoomed or        *)
(* touched in between (d3.js:4542-4583, 4645-4688, 4714-4745).             *)
(***************************************************************************)
THEOREM HeldPointsStay == ZoomSpec => []PointsStay
<1>1. ZoomInv => PointsStay
  BY DEF ZoomInv
<1> QED
  BY <1>1, ZoomInvInit, ZoomInvNext, PTL DEF ZoomSpec

-----------------------------------------------------------------------------
(***************************************************************************)
(* Ordinal scales.  A domain names each of its values once.                *)
(***************************************************************************)
ValueLists == {s \in Seq(DomainValues) : Distinct(s)}

LEMMA NewValueIsDistinct ==
    ASSUME NEW s \in ValueLists, NEW v \in DomainValues, v \notin ToSet(s)
    PROVE  Append(s, v) \in ValueLists
<1>1. s \in Seq(DomainValues) /\ Distinct(s) /\ \A i \in 1 .. Len(s) : s[i] # v
  BY DEF ValueLists, ToSet
<1>2. /\ Append(s, v) \in Seq(DomainValues) /\ DOMAIN Append(s, v) = 1 .. Len(s) + 1
      /\ Len(s) \in Nat /\ DOMAIN s = 1 .. Len(s)
      /\ \A i \in 1 .. Len(s) : Append(s, v)[i] = s[i]
      /\ Append(s, v)[Len(s) + 1] = v
  BY <1>1
<1>3. Distinct(Append(s, v))
  BY <1>1, <1>2 DEF Distinct
<1> QED
  BY <1>2, <1>3 DEF ValueLists

LEMMA DomainOfIs == ASSUME NEW xs \in Seq(DomainValues) PROVE DomainOf(xs) \in ValueLists
<1> DEFINE N == Len(xs)
           New(d, v) == IF v \in ToSet(d) THEN d ELSE Append(d, v)
           IsUpTo(f) == f = [n \in 0 .. N |-> IF n = 0 THEN <<>> ELSE New(f[n - 1], xs[n])]
           upTo == CHOOSE f : IsUpTo(f)
           next == [q \in (1 .. N) \X ValueLists |-> New(q[2], xs[q[1]])]
<1>1. N \in Nat /\ \A n \in 1 .. N : xs[n] \in DomainValues
  OBVIOUS
<1>2. <<>> \in ValueLists
  BY DEF ValueLists, Distinct
<1>3. \A d \in ValueLists, n \in 1 .. N : New(d, xs[n]) \in ValueLists
  BY <1>1, NewValueIsDistinct
<1>4. DomainOf(xs) = upTo[N]
  BY DEF DomainOf
<1> HIDE DEF New, N
<1>5. next \in [(1 .. N) \X ValueLists -> ValueLists]
  BY <1>3
<1>6. \A n \in 1 .. N, d \in ValueLists : next[<<n, d>>] = New(d, xs[n])
  OBVIOUS
<1> HIDE DEF next
<1>7. PICK g \in [0 .. N -> ValueLists] : RunsTo(N, g, <<>>, next)
  BY <1>1, <1>2, <1>5, RecursionExists
<1>8. IsUpTo(g)
  <2>1. \A n \in 0 .. N : g[n] = IF n = 0 THEN <<>> ELSE New(g[n - 1], xs[n])
    <3> SUFFICES ASSUME NEW n \in 0 .. N, n # 0 PROVE g[n] = New(g[n - 1], xs[n])
      BY <1>7 DEF RunsTo
    <3>1. n \in 1 .. N /\ n - 1 \in 0 .. N /\ g[n - 1] \in ValueLists
      BY <1>1
    <3> QED
      BY <1>6, <1>7, <3>1 DEF RunsTo
  <2>2. g = [n \in 0 .. N |-> g[n]]
    OBVIOUS
  <2>3. [n \in 0 .. N |-> g[n]] = [n \in 0 .. N |-> IF n = 0 THEN <<>> ELSE New(g[n - 1], xs[n])]
    BY <2>1
  <2> QED
    BY <2>2, <2>3
<1>9. IsUpTo(upTo)
  <2> HIDE DEF IsUpTo
  <2> QED
    BY <1>8
<1> HIDE DEF upTo
<1>10. \A n \in 0 .. N : upTo[n] = IF n = 0 THEN <<>> ELSE New(upTo[n - 1], xs[n])
  BY <1>9
<1> HIDE DEF IsUpTo
<1> DEFINE T == {n \in 0 .. N : upTo[n] \notin ValueLists}
<1>11. ASSUME T # {} PROVE FALSE
  <2>1. PICK m \in T : \A k \in T : m <= k
    <3>1. T \subseteq Nat
      OBVIOUS
    <3> HIDE DEF T
    <3> QED
      BY <1>11, <3>1, LeastOf
  <2>2. CASE m = 0
    BY <1>2, <1>10, <2>1, <2>2
  <2>3. CASE m # 0
    <3>1. m - 1 \in 0 .. N /\ m \in 1 .. N /\ m - 1 \notin T
      BY <1>1, <2>1, <2>3
    <3>2. upTo[m - 1] \in ValueLists
      BY <3>1
    <3>3. upTo[m] = New(upTo[m - 1], xs[m])
      BY <1>10, <3>1
    <3> QED
      BY <1>3, <2>1, <3>1, <3>2, <3>3
  <2> QED
    BY <2>2, <2>3
<1> QED
  BY <1>1, <1>4, <1>11

(***************************************************************************)
(* Every scale has a range that was computed for its domain, or for        *)
(* another one if it has grown since.                                      *)
(***************************************************************************)
AllRangers == Rangers \cup {Listed(<<>>)}

ScaleOf(domain, n, ranger, grown) ==
    [domain |-> domain, ranger |-> ranger, range |-> Ranged(n, ranger).range,
     rangeBand |-> Ranged(n, ranger).band, grown |-> grown]

FreshScales == {ScaleOf(q[1], Len(q[1]), q[2], FALSE) : q \in ValueLists \X AllRangers}

GrownScales == {ScaleOf(q[1], q[2], q[3], TRUE) : q \in ValueLists \X Nat \X AllRangers}

AllScales == FreshScales \cup GrownScales

OrdinalInv == scales \in Seq(AllScales)

LEMMA RescaledIsFresh ==
    ASSUME NEW d \in ValueLists, NEW r \in AllRangers
    PROVE  Rescaled(d, r) \in AllScales
<1> DEFINE q == <<d, r>>
<1>1. Rescaled(d, r) = ScaleOf(d, Len(d), r, FALSE) /\ q \in ValueLists \X AllRangers /\ q[1] = d /\ q[2] = r
  BY DEF Rescaled, ScaleOf
<1> HIDE DEF q
<1>2. Rescaled(d, r) = ScaleOf(q[1], Len(q[1]), q[2], FALSE)
  BY <1>1
<1> QED
  BY <1>1, <1>2 DEF AllScales, FreshScales

LEMMA ScaleIs ==
    ASSUME NEW s \in AllScales
    PROVE  /\ s.domain \in ValueLists /\ s.ranger \in AllRangers /\ s.grown \in BOOLEAN
           /\ \E n \in Nat : s = ScaleOf(s.domain, n, s.ranger, s.grown) /\ (~s.grown => n = Len(s.domain))
<1>1. CASE s \in FreshScales
  <2>1. PICK q \in ValueLists \X AllRangers : s = ScaleOf(q[1], Len(q[1]), q[2], FALSE)
    BY <1>1 DEF FreshScales
  <2>2. s.domain = q[1] /\ s.ranger = q[2] /\ s.grown = FALSE
    BY <2>1 DEF ScaleOf
  <2>3. Len(s.domain) \in Nat
    <3>1. s.domain \in Seq(DomainValues)
      BY <2>2 DEF ValueLists
    <3> QED
      BY <3>1
  <2> QED
    BY <2>1, <2>2, <2>3
<1>2. CASE s \in GrownScales
  <2>1. PICK q \in ValueLists \X Nat \X AllRangers : s = ScaleOf(q[1], q[2], q[3], TRUE)
    BY <1>2 DEF GrownScales
  <2>2. s.domain = q[1] /\ s.ranger = q[3] /\ s.grown = TRUE
    BY <2>1 DEF ScaleOf
  <2> QED
    BY <2>1, <2>2
<1> QED
  BY <1>1, <1>2 DEF AllScales

LEMMA GrownIsScale ==
    ASSUME NEW s \in AllScales, NEW d \in ValueLists
    PROVE  [s EXCEPT !.domain = d, !.grown = TRUE] \in AllScales
<1>1. PICK n \in Nat : s = ScaleOf(s.domain, n, s.ranger, s.grown)
  BY ScaleIs
<1> DEFINE domain == s.domain
           r == s.ranger
           grown == s.grown
<1>2. s = ScaleOf(domain, n, r, grown) /\ r \in AllRangers
  BY <1>1, ScaleIs
<1> HIDE DEF domain, r, grown
<1>3. [s EXCEPT !.domain = d, !.grown = TRUE] = ScaleOf(d, n, r, TRUE)
  <2> DEFINE range == Ranged(n, r).range
             band == Ranged(n, r).band
  <2>1. s = [domain |-> domain, ranger |-> r, range |-> range, rangeBand |-> band, grown |-> grown]
    BY <1>2 DEF ScaleOf
  <2>2. ScaleOf(d, n, r, TRUE) =
            [domain |-> d, ranger |-> r, range |-> range, rangeBand |-> band, grown |-> TRUE]
    BY DEF ScaleOf
  <2> HIDE DEF range, band
  <2> SUFFICES ASSUME NEW u, u = [s EXCEPT !.domain = d, !.grown = TRUE]
               PROVE  u = ScaleOf(d, n, r, TRUE)
    OBVIOUS
  <2>3. u = [domain |-> d, ranger |-> r, range |-> range, rangeBand |-> band, grown |-> TRUE]
    BY <2>1
  <2> QED
    BY <2>2, <2>3
<1> DEFINE q == <<d, n, r>>
<1>4. q \in ValueLists \X Nat \X AllRangers /\ q[1] = d /\ q[2] = n /\ q[3] = r
  BY <1>2
<1> HIDE DEF q
<1>5. [s EXCEPT !.domain = d, !.grown = TRUE] = ScaleOf(q[1], q[2], q[3], TRUE)
  BY <1>3, <1>4
<1> QED
  BY <1>4, <1>5 DEF AllScales, GrownScales

LEMMA OrdinalInvInit == OrdinalInit => OrdinalInv
<1>1. <<>> \in ValueLists /\ Listed(<<>>) \in AllRangers
  BY DEF ValueLists, Distinct, AllRangers
<1>2. Rescaled(<<>>, Listed(<<>>)) \in AllScales
  BY <1>1, RescaledIsFresh
<1> QED
  BY <1>2 DEF OrdinalInit, OrdinalInv

LEMMA OrdinalInvNext == OrdinalInv /\ [OrdinalNext]_ordinalVars => OrdinalInv'
<1> SUFFICES ASSUME OrdinalInv, [OrdinalNext]_ordinalVars PROVE OrdinalInv'
  OBVIOUS
<1>1. CASE UNCHANGED ordinalVars
  BY <1>1 DEF OrdinalInv, ordinalVars
<1>2. ASSUME NEW k \in DOMAIN scales, NEW s \in AllScales, scales' = [scales EXCEPT ![k] = s]
      PROVE  OrdinalInv'
  BY <1>2 DEF OrdinalInv
<1>3. \A k \in DOMAIN scales : scales[k] \in AllScales
  BY DEF OrdinalInv
<1>4. ASSUME NEW k \in DOMAIN scales, NEW v \in DomainValues, Use(k, v) PROVE OrdinalInv'
  <2> DEFINE s == scales[k]
             d == Append(s.domain, v)
  <2>1. s \in AllScales
    BY <1>3
  <2>2. d \in ValueLists
    BY <1>4, <2>1, ScaleIs, NewValueIsDistinct DEF Use
  <2>3. scales' = [scales EXCEPT ![k] = [s EXCEPT !.domain = d, !.grown = TRUE]]
    BY <1>4 DEF Use
  <2> HIDE DEF s, d
  <2>4. [s EXCEPT !.domain = d, !.grown = TRUE] \in AllScales
    BY <2>1, <2>2, GrownIsScale
  <2> QED
    BY <1>2, <2>3, <2>4
<1>5. ASSUME NEW k \in DOMAIN scales, NEW xs \in Domains, SetDomain(k, xs) PROVE OrdinalInv'
  <2>1. DomainOf(xs) \in ValueLists
    BY DomainOfIs, OrdinalAssumption
  <2>2. Rescaled(DomainOf(xs), scales[k].ranger) \in AllScales
    BY <1>3, <2>1, ScaleIs, RescaledIsFresh
  <2>3. scales' = [scales EXCEPT ![k] = Rescaled(DomainOf(xs), scales[k].ranger)]
    BY <1>5 DEF SetDomain
  <2> QED
    BY <1>2, <2>2, <2>3
<1>6. ASSUME NEW k \in DOMAIN scales, NEW ranger \in Rangers, SetRange(k, ranger) PROVE OrdinalInv'
  <2>1. ranger \in AllRangers
    BY DEF AllRangers
  <2>2. Rescaled(scales[k].domain, ranger) \in AllScales
    BY <1>3, <2>1, ScaleIs, RescaledIsFresh
  <2>3. scales' = [scales EXCEPT ![k] = Rescaled(scales[k].domain, ranger)]
    BY <1>6 DEF SetRange
  <2> QED
    BY <1>2, <2>2, <2>3
<1>7. ASSUME NEW k \in DOMAIN scales, Copy(k) PROVE OrdinalInv'
  <2>1. scales[k].domain \in Seq(DomainValues)
    BY <1>3, ScaleIs DEF ValueLists
  <2>2. DomainOf(scales[k].domain) \in ValueLists
    BY <2>1, DomainOfIs
  <2>3. Rescaled(DomainOf(scales[k].domain), scales[k].ranger) \in AllScales
    BY <1>3, <2>2, ScaleIs, RescaledIsFresh
  <2>4. scales' = Append(scales, Rescaled(DomainOf(scales[k].domain), scales[k].ranger))
    BY <1>7 DEF Copy
  <2> QED
    BY <2>3, <2>4 DEF OrdinalInv
<1> QED
  BY <1>1, <1>4, <1>5, <1>6, <1>7 DEF OrdinalNext

(***************************************************************************)
(* Bands of one step each do not overlap.  n is the length of the domain,  *)
(* which is not empty.                                                     *)
(***************************************************************************)
Fits(r, n, length) ==
    /\ r.range \in Seq(Int) /\ Len(r.range) = n /\ r.band \in Int
    /\ \A i \in 1 .. n : 0 <= r.range[i] /\ r.range[i] + r.band <= length
    /\ \A i, j \in 1 .. n : i < j => r.range[i] + r.band <= r.range[j]

LEMMA StepsFit ==
    ASSUME NEW n \in Nat \ {0}, NEW length \in Nat, NEW start \in Nat, NEW step \in Nat, NEW band \in Nat,
           band <= step, start + step * (n - 1) + band <= length
    PROVE  Fits([range |-> RangeSteps(n, start, step), band |-> band], n, length)
<1> DEFINE range == RangeSteps(n, start, step)
           r == [range |-> range, band |-> band]
<1>1. \A i \in 1 .. n : step * (i - 1) \in Nat /\ range[i] = start + step * (i - 1)
  BY DEF RangeSteps
<1>2. range \in Seq(Int) /\ Len(range) = n
  <2>1. range \in [1 .. n -> Int]
    BY DEF RangeSteps
  <2> HIDE DEF range
  <2> QED
    BY <2>1
<1> HIDE DEF range
<1>3. \A i, j \in 1 .. n : i < j => step * (i - 1) + step <= step * (j - 1)
  <2> SUFFICES ASSUME NEW i \in 1 .. n, NEW j \in 1 .. n, i < j
               PROVE  step * (i - 1) + step <= step * (j - 1)
    OBVIOUS
  <2>1. j - i - 1 \in Nat
    OBVIOUS
  <2>2. step * (j - 1) = step * (i - 1) + step + step * (j - i - 1)
    OBVIOUS
  <2>3. step * (j - i - 1) \in Nat /\ step * (i - 1) \in Nat
    BY <2>1
  <2> QED
    BY <2>2, <2>3
<1>4. \A i, j \in 1 .. n : i < j => range[i] + band <= range[j]
  BY <1>1, <1>3
<1>5. \A i \in 1 .. n : range[i] <= start + step * (n - 1)
  <2> SUFFICES ASSUME NEW i \in 1 .. n PROVE range[i] <= start + step * (n - 1)
    OBVIOUS
  <2>1. n \in 1 .. n /\ step * (i - 1) \in Nat /\ step * (n - 1) \in Nat
    BY <1>1
  <2>2. CASE i = n
    BY <1>1, <2>1, <2>2
  <2>3. CASE i < n
    BY <1>1, <1>3, <2>1, <2>3
  <2> QED
    BY <2>2, <2>3
<1>6. \A i \in 1 .. n : 0 <= range[i] /\ range[i] + band <= length
  <2> SUFFICES ASSUME NEW i \in 1 .. n PROVE 0 <= range[i] /\ range[i] + band <= length
    OBVIOUS
  <2>1. range[i] \in Nat /\ step * (n - 1) \in Nat
    BY <1>1
  <2> QED
    BY <1>5, <2>1
<1>7. Fits(r, n, length)
  BY <1>2, <1>4, <1>6 DEF Fits
<1> QED
  BY <1>7 DEF range

\* The step of bands and what the division leaves.
StepLeaves(n, length, p) ==
    \E s \in Nat, m \in Nat : /\ (2 * length) \div (2 * n + p) = s
                             /\ 2 * length = 2 * (s * n) + s * p + m
                             /\ s * n \in Nat

LEMMA StepIsFloor ==
    ASSUME NEW n \in Nat \ {0}, NEW length \in Nat, NEW p \in {0, 1}
    PROVE  StepLeaves(n, length, p)
<1> DEFINE d == 2 * n + p
           y == 2 * length
<1>1. d \in Nat \ {0} /\ y \in Int /\ y >= 0
  OBVIOUS
<1> HIDE DEF d, y
<1>2. PICK s \in Int, m \in 0 .. d - 1 : y \div d = s /\ y % d = m /\ y = d * s + m
  BY <1>1, DivisionIs
<1>3. s \in Nat
  <2> SUFFICES ASSUME s < 0 PROVE FALSE
    BY <1>2
  <2>1. d * s <= -d
    <3>1. d * (-s - 1) \in Nat
      BY <1>1, <1>2
    <3>2. d * (-s - 1) = -(d * s) - d
      BY <1>1, <1>2
    <3> QED
      BY <1>1, <1>2, <3>1, <3>2
  <2> QED
    BY <1>1, <1>2, <2>1
<1>4. d * s = 2 * (s * n) + s * p
  BY <1>3 DEF d
<1>5. s * n \in Nat
  BY <1>3
<1> QED
  BY <1>1, <1>2, <1>3, <1>4, <1>5 DEF d, y, StepLeaves

\* The half of an integer, rounded down.
LEMMA HalfIs == ASSUME NEW z \in Nat PROVE \E h \in Nat : z \div 2 = h /\ (z = 2 * h \/ z = 2 * h + 1)
<1>1. PICK h \in Int, m \in 0 .. 2 - 1 : z \div 2 = h /\ z % 2 = m /\ z = 2 * h + m
  BY DivisionIs
<1> QED
  BY <1>1

LEMMA RoundIs ==
    ASSUME NEW z \in Nat
    PROVE  \E h \in Nat : Round(z) = h /\ 4 * h <= z + 2 /\ z + 2 < 4 * h + 4
<1>1. PICK h \in Int, m \in 0 .. 4 - 1 : (z + 2) \div 4 = h /\ (z + 2) % 4 = m /\ z + 2 = 4 * h + m
  BY DivisionIs
<1> QED
  BY <1>1 DEF Round

LEMMA BandsAreApart ==
    ASSUME NEW n \in Nat \ {0}, NEW length \in Nat, NEW p \in {0, 1}
    PROVE  Fits(rangeBands(n, length, p), n, length)
<1>1. PICK s \in Nat, m \in Nat :
          (2 * length) \div (2 * n + p) = s /\ 2 * length = 2 * (s * n) + s * p + m /\ s * n \in Nat
  <2>1. StepLeaves(n, length, p)
    BY StepIsFloor
  <2> QED
    BY <2>1 DEF StepLeaves
<1> DEFINE start == (s * p) \div 2
           band == (s * (2 - p)) \div 2
<1>2. rangeBands(n, length, p) = [range |-> RangeSteps(n, start, s), band |-> band]
  BY <1>1 DEF rangeBands
<1>3. /\ start \in Nat /\ band \in Nat /\ band <= s
      /\ start + band <= s
  <2>1. CASE p = 0
    <3>1. s * p = 0 /\ s * (2 - p) = 2 * s
      BY <2>1
    <3>2. PICK h \in Nat : (2 * s) \div 2 = h /\ (2 * s = 2 * h \/ 2 * s = 2 * h + 1)
      BY HalfIs
    <3>3. 0 \div 2 = 0
      BY HalfIs
    <3> QED
      BY <3>1, <3>2, <3>3
  <2>2. CASE p = 1
    <3>1. s * p = s /\ s * (2 - p) = s
      BY <2>2
    <3>2. PICK h \in Nat : s \div 2 = h /\ (s = 2 * h \/ s = 2 * h + 1)
      BY HalfIs
    <3> QED
      BY <3>1, <3>2
  <2> QED
    BY <2>1, <2>2
<1>4. s * (n - 1) = s * n - s /\ s * p \in Nat
  OBVIOUS
<1> HIDE DEF start, band
<1>5. start + s * (n - 1) + band <= length
  <2> DEFINE sn == s * n
             sp == s * p
  <2>1. sn \in Nat /\ sp \in Nat /\ 2 * length = 2 * sn + sp + m /\ s * (n - 1) = sn - s
    BY <1>1, <1>4
  <2> HIDE DEF sn, sp
  <2>2. sn <= length
    BY <2>1
  <2> QED
    BY <1>3, <2>1, <2>2
<1> QED
  BY <1>2, <1>3, <1>5, StepsFit

LEMMA RoundBandsAreApart ==
    ASSUME NEW n \in Nat \ {0}, NEW length \in Nat, NEW p \in {0, 1}
    PROVE  Fits(rangeRoundBands(n, length, p), n, length)
<1>1. PICK s \in Nat, m \in Nat :
          (2 * length) \div (2 * n + p) = s /\ 2 * length = 2 * (s * n) + s * p + m /\ s * n \in Nat
  <2>1. StepLeaves(n, length, p)
    BY StepIsFloor
  <2> QED
    BY <2>1 DEF StepLeaves
<1> DEFINE rest == 2 * length - (2 * n - p) * s
           wide == 2 * s * (2 - p)
           start == Round(rest)
           band == Round(wide)
<1>2. rangeRoundBands(n, length, p) = [range |-> RangeSteps(n, start, s), band |-> band]
  <2> DEFINE step == (2 * length) \div (2 * n + p)
  <2>1. rangeRoundBands(n, length, p) =
            IF 2 * n + p = 0 THEN [range |-> <<>>, band |-> NotANumber]
            ELSE [range |-> RangeSteps(n, Round(2 * length - (2 * n - p) * step), step),
                  band |-> Round(2 * step * (2 - p))]
    BY DEF rangeRoundBands
  <2>2. step = s
    BY <1>1
  <2>3. 2 * n + p # 0
    OBVIOUS
  <2> HIDE DEF step
  <2> QED
    BY <2>1, <2>2, <2>3
<1>3. CASE p = 0
  <2>1. rest = m /\ wide = 4 * s
    <3>1. (2 * n - p) * s = 2 * (s * n) /\ s * p = 0
      BY <1>3
    <3> QED
      BY <1>1, <1>3, <3>1
  <2>2. PICK h \in Nat : Round(m) = h /\ 4 * h <= m + 2 /\ m + 2 < 4 * h + 4
    BY RoundIs
  <2>3. PICK b \in Nat : Round(4 * s) = b /\ 4 * b <= 4 * s + 2 /\ 4 * s + 2 < 4 * b + 4
    BY RoundIs
  <2>4. start = h /\ band = b /\ b = s /\ start \in Nat /\ band \in Nat
    BY <2>1, <2>2, <2>3
  <2> DEFINE sn == s * n
  <2>5. sn \in Nat /\ 2 * length = 2 * sn + m /\ s * (n - 1) = sn - s
    BY <1>1, <1>3
  <2> HIDE DEF sn, start, band
  <2>6. h + s + (sn - s) <= length
    BY <2>2, <2>5
  <2>7. start + s * (n - 1) + band <= length
    BY <2>4, <2>5, <2>6
  <2> QED
    BY <1>2, <2>4, <2>7, StepsFit
<1>4. CASE p = 1
  <2>1. rest = 2 * s + m /\ wide = 2 * s
    <3>1. (2 * n - p) * s = 2 * (s * n) - s /\ s * p = s
      BY <1>4
    <3> QED
      BY <1>1, <1>4, <3>1
  <2>2. PICK h \in Nat : Round(2 * s + m) = h /\ 4 * h <= 2 * s + m + 2
    BY RoundIs
  <2>3. PICK b \in Nat : Round(2 * s) = b /\ 4 * b <= 2 * s + 2
    BY RoundIs
  <2>4. start = h /\ band = b /\ start \in Nat /\ band \in Nat
    BY <2>1, <2>2, <2>3
  <2> DEFINE sn == s * n
  <2>5. sn \in Nat /\ 2 * length = 2 * sn + s + m /\ s * (n - 1) = sn - s
    BY <1>1, <1>4
  <2> HIDE DEF sn, start, band
  <2>6. b <= s
    BY <2>3
  <2>7. h + b + (sn - s) <= length
    <3>1. CASE s = 0
      BY <2>2, <2>3, <2>5, <3>1
    <3>2. CASE s = 1
      BY <2>2, <2>3, <2>5, <3>2
    <3>3. CASE s >= 2
      BY <2>2, <2>3, <2>5, <3>3
    <3> QED
      BY <3>1, <3>2, <3>3
  <2>8. start + s * (n - 1) + band <= length
    BY <2>4, <2>5, <2>7
  <2> QED
    BY <1>2, <2>4, <2>6, <2>8, StepsFit
<1> QED
  BY <1>3, <1>4

(***************************************************************************)
(* What a scale answers for a value of its domain, when there are enough   *)
(* values in its range.                                                    *)
(***************************************************************************)
LEMMA AtIs ==
    ASSUME NEW s, s.domain \in ValueLists, Len(s.range) \in Nat, Len(s.range) >= Len(s.domain),
           NEW i \in DOMAIN s.domain
    PROVE  At(s, s.domain[i]) = IF s.range = <<>> THEN NotANumber ELSE s.range[i]
<1> DEFINE d == s.domain
           n == Len(s.range)
           S == {j \in DOMAIN d : d[j] = d[i]}
<1>1. d \in Seq(DomainValues) /\ Distinct(d) /\ i \in 1 .. Len(d) /\ Len(d) \in Nat
  BY DEF ValueLists
<1>2. S = {i}
  BY <1>1 DEF Distinct
<1>3. Max(S) = i
  BY <1>1, <1>2 DEF Max
<1>4. i - 1 = n * 0 + (i - 1) /\ i - 1 \in 0 .. n - 1 /\ n \in Nat \ {0} /\ i - 1 \in Int
  BY <1>1
<1>5. (i - 1) % n = i - 1
  <2> DEFINE z == i - 1
  <2>1. z \in Int /\ z \in 0 .. n - 1 /\ z = n * 0 + z /\ n \in Nat \ {0}
    BY <1>4
  <2> HIDE DEF z, n
  <2>2. PICK q \in Int, m \in 0 .. n - 1 : z % n = m /\ z = n * q + m
    BY <2>1, DivisionIs
  <2>3. q = 0
    <3>1. CASE q >= 1
      <4>1. n * q >= n
        BY <2>1, <3>1
      <4> QED
        BY <2>1, <2>2, <4>1
    <3>2. CASE q <= -1
      <4>1. n * q <= -n
        BY <2>1, <3>2
      <4> QED
        BY <2>1, <2>2, <4>1
    <3> QED
      BY <2>2, <3>1, <3>2
  <2>4. z % n = z
    BY <2>1, <2>2, <2>3
  <2> QED
    BY <2>4 DEF z
<1>6. ((i - 1) % n) + 1 = i
  BY <1>1, <1>5
<1>7. At(s, d[i]) = IF s.range = <<>> THEN NotANumber ELSE s.range[((Max(S) - 1) % n) + 1]
  BY DEF At
<1> HIDE DEF S, n, d
<1>8. At(s, d[i]) = IF s.range = <<>> THEN NotANumber ELSE s.range[i]
  BY <1>3, <1>6, <1>7
<1> QED
  BY <1>8 DEF d

LEMMA ListedColoursDiffer ==
    ASSUME NEW s \in AllScales, s.ranger.t = "range"
    PROVE  ColoursDiffer(s)
<1>1. PICK n \in Nat : s = ScaleOf(s.domain, n, s.ranger, s.grown)
  BY ScaleIs
<1>2. s.range = s.ranger.x
  <2>1. s.range = Ranged(n, s.ranger).range
    <3> DEFINE d == s.domain
               r == s.ranger
               g == s.grown
    <3>1. s = ScaleOf(d, n, r, g)
      BY <1>1
    <3> HIDE DEF d, r, g
    <3>2. s.range = Ranged(n, r).range
      BY <3>1 DEF ScaleOf
    <3> QED
      BY <3>2 DEF r
  <2> QED
    BY <2>1 DEF Ranged
<1>3. s.ranger.x \in Colours \cup {<<>>}
  <2>1. s.ranger \in AllRangers
    BY ScaleIs
  <2> QED
    BY <2>1 DEF AllRangers, Rangers, Listed
<1>4. /\ DOMAIN s.range = 1 .. Len(s.range)
      /\ \A i, j \in DOMAIN s.range : s.range[i] = s.range[j] => i = j
  BY <1>2, <1>3, ColoursAssumption
<1>5. s.domain \in ValueLists
  BY ScaleIs
<1> SUFFICES ASSUME Len(s.range) >= Len(s.domain),
                    NEW i \in DOMAIN s.domain, NEW j \in DOMAIN s.domain, i # j
             PROVE  At(s, s.domain[i]) # At(s, s.domain[j])
  BY DEF ColoursDiffer
<1>6. Len(s.domain) \in Nat /\ DOMAIN s.domain = 1 .. Len(s.domain) /\ Len(s.range) \in Nat
  <2>1. s.domain \in Seq(DomainValues)
    BY <1>5 DEF ValueLists
  <2> QED
    BY <2>1, <1>2, <1>3, ColoursAssumption
<1>7. i \in DOMAIN s.range /\ j \in DOMAIN s.range /\ s.range # <<>>
  BY <1>4, <1>6
<1>8. At(s, s.domain[i]) = s.range[i] /\ At(s, s.domain[j]) = s.range[j]
  BY <1>5, <1>6, <1>7, AtIs
<1> QED
  BY <1>4, <1>7, <1>8

(***************************************************************************)
(* Bands that were computed for the domain that a scale has fit.           *)
(***************************************************************************)
LEMMA FreshBandsFit ==
    ASSUME NEW s \in AllScales, s.ranger.t \in {"rangeBands", "rangeRoundBands"}
    PROVE  BandsFit(s)
<1> DEFINE d == s.domain
           r == s.ranger
           n == Len(d)
<1>1. d \in ValueLists /\ d \in Seq(DomainValues) /\ n \in Nat /\ DOMAIN d = 1 .. n
  <2>1. d \in ValueLists
    BY ScaleIs
  <2> QED
    BY <2>1 DEF ValueLists
<1>2. r.x \in Nat /\ r.p \in {0, 1}
  <2>1. r \in AllRangers
    BY ScaleIs
  <2>2. r.t # "range"
    OBVIOUS
  <2>3. r \in [t : {"rangePoints", "rangeBands"}, x : {Length}, p : {0, 1}]
                 \cup [t : {"rangeRoundBands"}, x : Pixels, p : {0, 1}]
    BY <2>1, <2>2 DEF AllRangers, Rangers, Listed
  <2> QED
    BY <2>3, OrdinalAssumption
<1> SUFFICES ASSUME ~s.grown
             PROVE  /\ \A v \in ToSet(d) : 0 <= At(s, v) /\ At(s, v) + s.rangeBand <= r.x
                    /\ \A i, j \in DOMAIN d : i < j => At(s, d[i]) + s.rangeBand <= At(s, d[j])
  BY DEF BandsFit
<1>3. s = ScaleOf(d, n, r, FALSE)
  BY ScaleIs
<1>4. r.t \in {"rangeBands", "rangeRoundBands"}
  OBVIOUS
<1>5. CASE n = 0
  BY <1>1, <1>5 DEF ToSet
<1>6. CASE n # 0
  <2>1. s.range = Ranged(n, r).range /\ s.rangeBand = Ranged(n, r).band
    <3> HIDE DEF d, n, r
    <3> QED
      BY <1>3 DEF ScaleOf
  <2>2. Fits(Ranged(n, r), n, r.x)
    <3> HIDE DEF d, n, r
    <3>1. CASE r.t = "rangeBands"
      <4>1. Ranged(n, r) = rangeBands(n, r.x, r.p)
        BY <3>1 DEF Ranged
      <4> QED
        BY <1>1, <1>2, <1>6, <4>1, BandsAreApart
    <3>2. CASE r.t = "rangeRoundBands"
      <4>1. Ranged(n, r) = rangeRoundBands(n, r.x, r.p)
        BY <3>2 DEF Ranged
      <4> QED
        BY <1>1, <1>2, <1>6, <4>1, RoundBandsAreApart
    <3> QED
      BY <1>4, <3>1, <3>2
  <2>3. /\ s.range \in Seq(Int) /\ Len(s.range) = n /\ s.range # <<>>
        /\ \A i \in 1 .. n : 0 <= s.range[i] /\ s.range[i] + s.rangeBand <= r.x
        /\ \A i, j \in 1 .. n : i < j => s.range[i] + s.rangeBand <= s.range[j]
    <3> HIDE DEF d, n, r
    <3> QED
      BY <1>1, <1>6, <2>1, <2>2 DEF Fits
  <2>4. \A i \in 1 .. n : At(s, d[i]) = s.range[i]
    <3> SUFFICES ASSUME NEW i \in 1 .. n PROVE At(s, d[i]) = s.range[i]
      OBVIOUS
    <3>1. Len(s.range) \in Nat /\ Len(s.range) >= Len(s.domain) /\ i \in DOMAIN s.domain
      BY <1>1, <2>3
    <3> QED
      BY <1>1, <2>3, <3>1, AtIs
  <2>5. ASSUME NEW v \in ToSet(d) PROVE 0 <= At(s, v) /\ At(s, v) + s.rangeBand <= r.x
    <3>1. PICK i \in 1 .. n : v = d[i]
      BY <1>1 DEF ToSet
    <3> QED
      BY <2>3, <2>4, <3>1
  <2>6. ASSUME NEW i \in DOMAIN d, NEW j \in DOMAIN d, i < j
        PROVE  At(s, d[i]) + s.rangeBand <= At(s, d[j])
    BY <1>1, <2>3, <2>4, <2>6
  <2> QED
    BY <2>5, <2>6
<1> QED
  BY <1>5, <1>6

(***************************************************************************)
(* Scales tell the values of their domains apart: listed colours differ    *)
(* when there are enough of them, bands do not overlap and stay within the *)
(* length of the range, for every length, domain and padding, also when    *)
(* they are rounded and in copies (d3.js:2705-2784, 2833-2837).            *)
(***************************************************************************)
THEOREM ScalesTellApart == OrdinalSpec => []ValuesAreToldApart
<1>1. OrdinalInv => ValuesAreToldApart
  <2> SUFFICES ASSUME OrdinalInv, NEW k \in DOMAIN scales
               PROVE  /\ scales[k].ranger.t = "range" => ColoursDiffer(scales[k])
                      /\ scales[k].ranger.t \in {"rangeBands", "rangeRoundBands"} => BandsFit(scales[k])
    BY DEF ValuesAreToldApart
  <2>1. scales[k] \in AllScales
    BY DEF OrdinalInv
  <2> QED
    BY <2>1, ListedColoursDiffer, FreshBandsFit
<1> QED
  BY <1>1, OrdinalInvInit, OrdinalInvNext, PTL DEF OrdinalSpec
=============================================================================
