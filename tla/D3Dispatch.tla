------------------------------ MODULE D3Dispatch ------------------------------
(***************************************************************************)
(* Events of the chart library: a dispatch of one type (d3.dispatch), and  *)
(* a listener of a node (selection.on), with listeners that add and remove *)
(* listeners, fire events again, and throw.                                *)
(*                                                                         *)
(* The list of listeners is a JavaScript array, which an event that is     *)
(* being dispatched keeps a reference to; arrays holds all of them, so     *)
(* that what a change does to the array of a running dispatch is seen.  A  *)
(* holder is the object {on: listener}.  d3.event is the depth at which    *)
(* the event was fired.                                                    *)
(***************************************************************************)
EXTENDS Naturals, FiniteSets, SequencesExt

CONSTANTS
    Names,    \* the names of listeners ("click.foo" is named foo)
    MaxOns,   \* bound: changes of listeners
    MaxDepth  \* bound: events fired inside of each other

ASSUME DispatchAssumption == MaxOns \in Nat /\ MaxDepth \in Nat

VARIABLES
    arrays,     \* the arrays there ever were
    listeners,  \* which of them the dispatch has now
    holders,    \* of every holder: whether on is still set
    byName,     \* listenerByName, 0 where there is none
    attached,   \* the listeners that the node has in the document
    stash,      \* node.__on<type>, 0 where there is none
    ons,        \* bound: changes made
    stack,      \* the events that are being dispatched, the innermost last
    event       \* d3.event, 0 if there is none

dispatchVars == <<arrays, listeners, holders, byName, attached, stash, ons, stack, event>>

DispatchInit ==
    /\ arrays = << <<>> >> /\ listeners = 1
    /\ holders = <<>> /\ byName = [name \in Names |-> 0]
    /\ attached = {} /\ stash = 0 /\ ons = 0
    /\ stack = <<>> /\ event = 0

Live(h) == holders[h]

\* Code of the user runs: at the top level or inside of a listener.
UserRuns == IF stack = <<>> THEN TRUE ELSE Last(stack).inside

-----------------------------------------------------------------------------
\* Mutant: the listener is taken out of the array itself.
OnInPlace(name, add) ==
    LET old == byName[name]
        new == Len(holders) + 1
        kept == RemoveFirst(arrays[listeners], old)
    IN  /\ UserRuns /\ ons < MaxOns /\ ons' = ons + 1
        /\ arrays' = [arrays EXCEPT ![listeners] = IF add THEN Append(kept, new) ELSE kept]
        /\ holders' = LET removed == [h \in DOMAIN holders |-> holders[h] /\ h # old]
                      IN  IF add THEN Append(removed, TRUE) ELSE removed
        /\ byName' = [byName EXCEPT ![name] = IF add THEN new ELSE 0]
        /\ UNCHANGED <<listeners, attached, stash, stack, event>>

\* dispatch.on(type.name, listener): the old listener is removed with copy on write,
\* a new one is pushed to the array that is there then.
On(name, add) ==
    LET old == byName[name]
        new == Len(holders) + 1
        kept == RemoveFirst(arrays[listeners], old)
        copied == IF old = 0 THEN arrays ELSE Append(arrays, kept)
        removed == [h \in DOMAIN holders |-> holders[h] /\ h # old]
    IN  /\ UserRuns /\ ons < MaxOns /\ ons' = ons + 1
        /\ listeners' = Len(copied)
        /\ arrays' = IF add THEN [copied EXCEPT ![listeners'] = Append(@, new)] ELSE copied
        /\ holders' = IF add THEN Append(removed, TRUE) ELSE removed
        /\ byName' = [byName EXCEPT ![name] = IF add THEN new ELSE 0]
        /\ UNCHANGED <<attached, stash, stack, event>>

\* selection.on(type, listener) for a node: a listener that is removed stays in the
\* stash.
OnNode(add) ==
    /\ UserRuns /\ ons < MaxOns /\ ons' = ons + 1
    /\ attached' = (attached \ {stash}) \cup (IF add THEN {ons + 1} ELSE {})
    /\ stash' = IF add THEN ons + 1 ELSE stash
    /\ UNCHANGED <<arrays, listeners, holders, byName, stack, event>>

-----------------------------------------------------------------------------
\* A dispatch (of the brush, the drag or the zoom) sets d3.event and calls event().
Fire ==
    /\ UserRuns /\ Len(stack) < MaxDepth
    /\ stack' = Append(stack, [z |-> listeners, i |-> 0, n |-> Len(arrays[listeners]),
                               inside |-> FALSE, own |-> Len(stack) + 1, saved |-> event,
                               atStart |-> arrays[listeners], called |-> <<>>])
    /\ event' = Len(stack) + 1
    /\ UNCHANGED <<arrays, listeners, holders, byName, attached, stash, ons>>

\* The document calls the listener of the node.
FireNode ==
    /\ UserRuns /\ Len(stack) < MaxDepth
    /\ attached # {}
    /\ stack' = Append(stack, [z |-> listeners, i |-> 0, n |-> 0,
                               inside |-> TRUE, own |-> Len(stack) + 1, saved |-> event,
                               atStart |-> <<>>, called |-> <<>>])
    /\ event' = Len(stack) + 1
    /\ UNCHANGED <<arrays, listeners, holders, byName, attached, stash, ons>>

\* The loop of event(): the next element of the array, called unless on is null.
CallNext ==
    /\ ~UserRuns
    /\ LET top == Last(stack)
           array == arrays[top.z]
           next == top.i + 1
       IN  /\ top.i < top.n
           /\ stack' = Append(Front(stack),
                  IF next \in DOMAIN array /\ Live(array[next])
                  THEN [top EXCEPT !.i = next, !.inside = TRUE, !.called = Append(@, array[next])]
                  ELSE [top EXCEPT !.i = next])
    /\ UNCHANGED <<arrays, listeners, holders, byName, attached, stash, ons, event>>

Return ==
    /\ stack # <<>> /\ Last(stack).inside
    /\ stack' = Append(Front(stack), [Last(stack) EXCEPT !.inside = FALSE])
    /\ UNCHANGED <<arrays, listeners, holders, byName, attached, stash, ons, event>>

\* The end of an event: d3.event is set back.
Finish ==
    /\ ~UserRuns /\ Last(stack).i = Last(stack).n
    /\ stack' = Front(stack)
    /\ event' = Last(stack).saved
    /\ UNCHANGED <<arrays, listeners, holders, byName, attached, stash, ons>>

\* Mutant: d3.event is not set back when a listener throws.
ThrowLosing(depth) ==
    /\ stack # <<>> /\ Last(stack).inside
    /\ stack' = SubSeq(stack, 1, depth)
    /\ UNCHANGED <<arrays, listeners, holders, byName, attached, stash, ons, event>>

\* A listener throws; it is caught by the listener at that depth, or by nobody (0).
\* Every finally on the way sets d3.event back.
Throw(depth) ==
    /\ stack # <<>> /\ Last(stack).inside
    /\ stack' = SubSeq(stack, 1, depth)
    /\ event' = stack[depth + 1].saved
    /\ UNCHANGED <<arrays, listeners, holders, byName, attached, stash, ons>>

DispatchNext ==
    \/ \E name \in Names, add \in BOOLEAN : On(name, add)
    \/ \E add \in BOOLEAN : OnNode(add)
    \/ Fire \/ FireNode \/ CallNext \/ Return \/ Finish
    \/ \E depth \in 0 .. Len(stack) - 1 : Throw(depth)

DispatchSpec == DispatchInit /\ [][DispatchNext]_dispatchVars

-----------------------------------------------------------------------------
(***************************************************************************)
(* A dispatch calls listeners that were registered when it began, each at  *)
(* most once and in the order of registration, which numbers them; when it *)
(* comes to its end it has called all of them that still are registered,   *)
(* whatever listeners added and removed meanwhile, in the same dispatch or *)
(* in one fired by a listener (d3.js:512-538).                             *)
(***************************************************************************)
EveryListenerCalledOnce ==
    \A d \in DOMAIN stack :
        LET e == stack[d]
        IN  /\ \A j, k \in DOMAIN e.called : j < k => e.called[j] < e.called[k]
            /\ ToSet(e.called) \subseteq ToSet(e.atStart)
            /\ e.i = e.n /\ ~e.inside =>
                   {h \in ToSet(e.atStart) : Live(h)} \subseteq ToSet(e.called)

(***************************************************************************)
(* Code of the user finds in d3.event the event that it was called for,    *)
(* and none outside of events, also after events that were fired inside,   *)
(* and also when a listener threw (d3.js:1865-1873, 4158-4168).            *)
(***************************************************************************)
EventIsOwn == event = IF stack = <<>> THEN 0 ELSE Last(stack).own
=============================================================================
