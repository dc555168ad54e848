-------------------------------- MODULE D3Axis --------------------------------
(***************************************************************************)
(* An axis of the chart library (d3.js, d3.svg.axis) that is drawn again   *)
(* and again, at once or as a transition, while earlier transitions run.   *)
(*                                                                         *)
(* A redraw joins the ticks that are in the document with those of the     *)
(* scale: new ticks are inserted faint at their place in the old scale,    *)
(* all ticks of the scale become opaque and move to their place in the new *)
(* one, the others fade and are removed.  The scale is its version, the    *)
(* number of the redraw.  The minor ticks and the children of a tick are   *)
(* treated like the ticks and left out, as is the transition of the axis   *)
(* itself, which has no tweens.                                            *)
(***************************************************************************)
EXTENDS D3Transition

CONSTANTS
    Ticks,       \* the lists of ticks a scale may have
    Delays, Durations,
    MaxRedraws,  \* bound: redraws
    LastRedraw   \* bound: the time of the last redraw

ASSUME RedrawAssumption == /\ \A data \in Ticks : DOMAIN data = 1 .. Len(data) /\ Len(data) \in Nat
                           /\ Delays \subseteq Nat /\ Durations \subseteq Nat \ {0}
                           /\ MaxRedraws \in Nat /\ LastRedraw \in Nat

VARIABLES
    ticks,    \* the ticks of the last redraw
    version,  \* the number of redraws: the scale, and the id of its transitions
    waits,    \* history: the delays of the redraws as transitions
    mixed,    \* history: the last redraw was not a transition, and came while others ran
    midway    \* history: a redraw came in the middle of a step

chartVars == <<ticks, version, waits, mixed, midway>>
axisVars == <<now, timerVars, nodes, dom, thrown, late, chartVars>>

Path == "path"

\* The ticks of a scale differ; a hole is no node, and what is no lock is no lock.
ASSUME TickAssumption ==
    /\ \A data \in Ticks : /\ \A i, j \in 1 .. Len(data) : data[i] = data[j] => i = j
                           /\ \A i \in 1 .. Len(data) : data[i] \notin {Path, Hole}
    /\ Hole \notin Nat /\ Hole # Path
    /\ None \notin [active : Nat, count : Nat]

AxisInit ==
    /\ now = 0 /\ queue = <<>> /\ interval = 0 /\ frames = 0 /\ timeout = None /\ since = 0
    /\ nodes = <<>> /\ dom = <<>> /\ thrown = FALSE /\ late = FALSE
    /\ ticks = <<>> /\ version = 0 /\ waits = {} /\ mixed = FALSE /\ midway = FALSE

-----------------------------------------------------------------------------
Opaque(scale) == [opacity |-> "full", place |-> scale]
Faint(scale)  == [opacity |-> "faint", place |-> scale]

TickNodes(s) == {n \in ToSet(s.dom) : s.nodes[n].datum # Path}
Datum(s)     == [n \in DOMAIN s.nodes |-> s.nodes[n].datum]

\* The join of the ticks, and of the path, which has one datum.
TickJoin(s, data) == Bind(Among(s.dom, TickNodes(s)), Datum(s), data)
PathJoin(s)       == BindByIndex(Without(s.dom, TickNodes(s)), <<Path>>)

\* The document with the entering nodes: ticks in front of the path, the path at the end.
Draw(s, data, old) ==
    LET join  == TickJoin(s, data)
        path  == PathJoin(s)
        fresh == Nodes(join.enter) \o Nodes(path.enter)
        new   == [datum \in ToSet(fresh) |-> Len(s.nodes) + SelectInSeq(fresh, LAMBDA x : x = datum)]
        added == [i \in 1 .. Len(fresh) |->
                    [datum |-> fresh[i], lock |-> None,
                     look |-> IF fresh[i] = Path THEN Opaque(0) ELSE Faint(old)]]
        kids  == InsertBefore(s.dom, [i \in 1 .. Len(Nodes(join.enter)) |-> new[Nodes(join.enter)[i]]],
                              ToSet(s.dom) \ TickNodes(s))
    IN  [update |-> Entered(join, new),
         exit   |-> join.exit,
         path   |-> Entered(path, new),
         nodes  |-> s.nodes \o added,
         dom    |-> kids \o [i \in 1 .. Len(Nodes(path.enter)) |-> new[Path]]]

Stashed == IF version = 0 THEN 1 ELSE version

\* axis, called on a transition: three transitions with the id, delay and duration of
\* that one.
Animated(s, data, id, delay, duration) ==
    LET drawn == Draw(s, data, Stashed)
        begin(state, group, target, removes) ==
            Transition(state, id, group, delay, duration, target, removes, now)
        new == [s EXCEPT !.nodes = drawn.nodes, !.dom = drawn.dom]
    IN  begin(begin(begin(new, drawn.exit, Faint(version + 1), TRUE),
                    drawn.update, Opaque(version + 1), FALSE),
              drawn.path, Opaque(version + 1), FALSE)

\* axis, called on a selection: everything happens at once.  (The empty sequence
\* makes TLC evaluate the nodes before timers of the same step change them.)
RedrawnAtOnce(s, data) ==
    LET drawn == Draw(s, data, Stashed)
        shown == ToSet(Nodes(drawn.update)) \cup ToSet(drawn.path)
    IN  [s EXCEPT !.nodes = <<>> \o [n \in DOMAIN drawn.nodes |->
                                IF n \in shown THEN [drawn.nodes[n] EXCEPT !.look = Opaque(version + 1)]
                                ELSE drawn.nodes[n]],
                  !.dom = Without(drawn.dom, ToSet(Nodes(drawn.exit)))]

Redraws(data) ==
    /\ version < MaxRedraws /\ now <= LastRedraw
    /\ version' = version + 1 /\ ticks' = data

RedrawAxis(data, delay, duration) ==
    /\ Redraws(data) /\ mixed' = FALSE /\ waits' = waits \cup {delay}
    /\ Become(Animated(Current, data, version + 1, delay, duration))
    /\ UNCHANGED <<now, thrown, midway>>

RedrawAtOnce(data) ==
    /\ Redraws(data) /\ mixed' = (queue # <<>>)
    /\ nodes' = RedrawnAtOnce(Current, data).nodes /\ dom' = RedrawnAtOnce(Current, data).dom
    /\ UNCHANGED <<now, timerVars, thrown, late, waits, midway>>

(***************************************************************************)
(* A redraw in the middle of a step or a flush, after its i-th timer: by a *)
(* listener of a transition of the chart, or by a timer of the user.  At   *)
(* the end of a transition new ones inherit its id.  The timers that are   *)
(* added are not called by this step, and those that come after the i-th   *)
(* find the ticks joined.  Bound: one redraw in a step, between two of its *)
(* timers.                                                                 *)
(***************************************************************************)
Redrawn(s, data) ==
    {RedrawnAtOnce(s, data)} \cup
    {Animated(s, data, id, delay, duration) :
        id \in 1 .. version + 1, delay \in Delays, duration \in Durations}

Interrupted(s, i, ready, data) ==
    UNION {{CallFrom(drawn, i, ready) : drawn \in Redrawn(called, data)} :
               called \in {CallUpTo(s, i, ready)}}

RedrawInStep(data) ==
    /\ Redraws(data) /\ midway' = TRUE
    /\ \E i \in 0 .. Len(queue) :
        \/ /\ frames > 0
           /\ \E s \in Interrupted(AsFrame, i, DueNow, data) : Become(Reschedule(s, now))
        \/ /\ timeout # None /\ now >= timeout
           /\ \E s \in Interrupted(AsTimeout, i, DueNow, data) : Become(Reschedule(s, now))
        \/ /\ queue # <<>>
           /\ \E s \in Interrupted(Current, i, Undelayed, data) : Become(s)
    /\ UNCHANGED <<now, thrown, waits, mixed>>

-----------------------------------------------------------------------------
\* What comes after a callback has thrown is not looked at.
AxisNext ==
    /\ ~thrown
    /\ \/ \E data \in Ticks, delay \in Delays, duration \in Durations : RedrawAxis(data, delay, duration)
       \/ \E data \in Ticks : RedrawAtOnce(data) \/ RedrawInStep(data)
       \/ /\ Elapse \/ Frame \/ Timeout \/ Flush \/ \E i \in DOMAIN queue : FrameThrows(i)
          /\ UNCHANGED chartVars

AxisSpec == AxisInit /\ [][AxisNext]_axisVars

-----------------------------------------------------------------------------
(***************************************************************************)
(* When the last timer is gone, the axis shows the ticks of the last       *)
(* redraw, each once, opaque and at their place in its scale; others are   *)
(* gone or, if a redraw had a delay, at least invisible: one that is faded *)
(* stays in the document when an older transition has yet to notice that   *)
(* it was superseded.  This is for redraws between the steps of the timers *)
(* and transitions that last; without a redraw at once in the middle of    *)
(* transitions; and as long as frames come often enough that no transition *)
(* is over when it begins.  A listener that redraws in the middle of a     *)
(* step may join a tick that is leaving, which a timer further on in this  *)
(* step then removes, since the one that is to keep it has not begun       *)
(* (d3.js:1684-1788, 2024-2061, 2195-2200, 2274-2278, 3857-3977).          *)
(***************************************************************************)
AxisSettles ==
    (queue = <<>> /\ version > 0 /\ ~thrown /\ ~late /\ ~mixed /\ ~midway) =>
        LET shown == Among(dom, {n \in ToSet(dom) : nodes[n].look = Opaque(version)})
        IN  /\ {nodes[n].datum : n \in ToSet(shown)} = ToSet(ticks) \cup {Path}
            /\ Len(shown) = Len(ticks) + 1
            /\ \A n \in ToSet(dom) \ ToSet(shown) :
                  nodes[n].look.opacity = "faint" /\ waits # {0}

(***************************************************************************)
(* A transition is over when its delay and its duration are, and at most   *)
(* the lateness of one step later, or that of two after its delay, when    *)
(* the timeout it waits for is late and is given up for a frame: timeouts  *)
(* and frames, also those of several loops, leave no timer behind, and     *)
(* neither do redraws in the middle of a step (d3.js:2012-2065,            *)
(* 2221-2291).                                                             *)
(***************************************************************************)
AnimationEnds ==
    ~thrown => \A t \in ToSet(queue) :
        now <= t.then + t.wait + t.duration + Lag \/ now <= t.then + t.wait + 2 * Lag
=============================================================================
