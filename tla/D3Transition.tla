----------------------------- MODULE D3Transition -----------------------------
(***************************************************************************)
(* Timers and transitions of the chart library (d3.js, d3.timer and        *)
(* d3_transition).                                                         *)
(*                                                                         *)
(* The timers are a linked list to whose head new ones are added; one step *)
(* calls all that are due, and asks for the next step: a frame of the      *)
(* browser when something is due soon, a timeout otherwise.  A transition  *)
(* is three kinds of timer: "begin" for all its nodes at the first step,   *)
(* then for each node "start" after the delay and "tick" until the         *)
(* duration is over.  The transitions of a node share its lock, which      *)
(* says which is active and counts those that are not over.                *)
(*                                                                         *)
(* JavaScript runs one callback at a time, so a step is one action; its    *)
(* effects are computed by operators on the state as a record.             *)
(***************************************************************************)
EXTENDS D3Selection

CONSTANTS
    None,     \* no lock, no timeout
    Soon,     \* the 24 ms within which a frame is asked for
    Lag,      \* bound: how late the browser makes a step it was asked for
    MaxTime   \* bound: the clock

ASSUME TimeAssumption == Soon \in Nat /\ Lag \in Nat /\ MaxTime \in Nat /\ None \notin Int

VARIABLES
    now,       \* Date.now()
    queue,     \* d3_timer_queue, the head first
    interval,  \* d3_timer_interval: the program believes a frame is pending
    frames,    \* steps that are pending as frames of the browser
    timeout,   \* when the timeout that is pending is over
    nodes,     \* of every node: its datum, what it looks like, __transition__
    dom,       \* the nodes that are in the document, in order
    since,     \* when the frame that is pending was asked for
    thrown,    \* history: a callback has thrown
    late       \* history: a transition was over in the step it began

timerVars == <<queue, interval, frames, timeout, since>>

Between == [opacity |-> "between", place |-> 0]

\* What a step works on.  kept: the timers it visited that remain in the queue.
Current == [queue |-> queue, interval |-> interval, frames |-> frames, timeout |-> timeout,
            nodes |-> nodes, dom |-> dom, late |-> late, kept |-> <<>>,
            since |-> IF frames = 0 THEN now ELSE since]

Become(state) ==
    \E s \in {state} :
        /\ queue' = s.queue /\ interval' = s.interval /\ frames' = s.frames /\ timeout' = s.timeout
        /\ nodes' = s.nodes /\ dom' = s.dom /\ late' = s.late
        /\ since' = IF s.frames = 0 THEN 0 ELSE s.since

-----------------------------------------------------------------------------
\* Timers.

\* d3.timer, for a callback that is not in the queue.
Timer(s, timer) ==
    LET added == [s EXCEPT !.queue = <<timer>> \o @]
    IN  IF s.interval = 1 THEN added
        ELSE [added EXCEPT !.timeout = None, !.interval = 1, !.frames = @ + 1]

Due(timer, time) == time - timer.then >= timer.delay

\* Mutant: the next step waits for the last timer.
RescheduleLast(s, time) ==
    LET wait == Max({t.then + t.delay : t \in ToSet(s.queue)}) - time
    IN  IF s.queue = <<>> THEN [s EXCEPT !.interval = 0]
        ELSE IF wait > Soon THEN [s EXCEPT !.timeout = time + wait, !.interval = 0]
        ELSE [s EXCEPT !.interval = 1, !.frames = @ + 1]

\* The end of d3_timer_step.
Reschedule(s, time) ==
    LET wait == Min({t.then + t.delay : t \in ToSet(s.queue)}) - time
    IN  IF s.queue = <<>> THEN [s EXCEPT !.interval = 0]
        ELSE IF wait > Soon THEN [s EXCEPT !.timeout = time + wait, !.interval = 0]
        ELSE [s EXCEPT !.interval = 1, !.frames = @ + 1]

-----------------------------------------------------------------------------
\* Transitions.

NewLock == [active |-> 0, count |-> 0]

\* selection.transition, for the nodes of a group.
Transition(s, id, group, delay, duration, target, removes, time) ==
    Timer(s, [fn |-> "begin", id |-> id, group |-> Nodes(group), node |-> Hole, then |-> time, delay |-> 0,
              wait |-> delay, duration |-> duration, target |-> target, removes |-> removes, tweened |-> FALSE])

\* stop: the last one gives up the lock.
StopTransition(s, n) ==
    LET lock == s.nodes[n].lock
    IN  [s EXCEPT !.nodes[n].lock = IF lock.count = 1 THEN None ELSE [lock EXCEPT !.count = @ - 1]]

\* The end listener of transition.remove.
End(s, n, timer) ==
    IF timer.removes /\ s.nodes[n].lock = None THEN [s EXCEPT !.dom = Without(@, {n})] ELSE s

IsOver(timer, time) == time - timer.then - timer.wait >= timer.duration

\* A tween is made only for a value that differs from the target's.
Tweened(s, timer) == [timer EXCEPT !.fn = "tick", !.tweened = s.nodes[timer.node].look # timer.target]

\* What the tweens set, if there are any.
Shown(s, timer, look) == IF timer.tweened THEN [s EXCEPT !.nodes[timer.node].look = look] ELSE s

\* Mutant: an older transition goes on beside a newer one.
TickBlind(s, timer, time) ==
    IF IsOver(timer, time)
    THEN End(StopTransition(Shown(s, timer, timer.target), timer.node), timer.node, timer)
    ELSE [Shown(s, timer, Between) EXCEPT !.kept = Append(@, timer)]

\* tick.  A transition that is not the active one any more just stops.
Tick(s, timer, time) ==
    LET n == timer.node
    IN  IF s.nodes[n].lock.active # timer.id THEN StopTransition(s, n)
        ELSE IF IsOver(timer, time) THEN End(StopTransition(Shown(s, timer, timer.target), n), n, timer)
        ELSE [Shown(s, timer, Between) EXCEPT !.kept = Append(@, timer)]

\* start.  It ticks at once, and as a timer of its own if that was not the end.
StartTransition(s, timer, time) ==
    LET n == timer.node
        tick == [Tweened(s, timer) EXCEPT !.delay = 0]
        ticked == Tick([s EXCEPT !.nodes[n].lock.active = timer.id], tick, time)
    IN  IF s.nodes[n].lock.active > timer.id THEN StopTransition(s, n)
        ELSE IF IsOver(timer, time) THEN ticked
        ELSE Timer([ticked EXCEPT !.kept = s.kept], tick)

\* A node's lock counts the transition, which starts or waits.
BeginNode(s, timer, n, time) ==
    LET lock  == IF s.nodes[n].lock = None THEN NewLock ELSE s.nodes[n].lock
        count == [s EXCEPT !.nodes[n].lock = [lock EXCEPT !.count = @ + 1], !.late = @ \/ IsOver(timer, time)]
        start == [timer EXCEPT !.fn = "start", !.node = n, !.group = <<>>, !.delay = timer.wait]
    IN  IF timer.wait <= time - timer.then THEN StartTransition(count, start, time) ELSE Timer(count, start)

\* The first timer of a transition.
BeginTransition(s, timer, time) ==
    LET begun[k \in 0 .. Len(timer.group)] ==
            IF k = 0 THEN s ELSE BeginNode(begun[k - 1], timer, timer.group[k], time)
    IN  begun[Len(timer.group)]

Call(s, timer, time) ==
    CASE timer.fn = "begin" -> BeginTransition(s, timer, time)
      [] timer.fn = "start" -> StartTransition(s, timer, time)
      [] timer.fn = "tick"  -> Tick(s, timer, time)

Visit(s, timer, ready, time) ==
    IF timer \in ready THEN Call(s, timer, time) ELSE [s EXCEPT !.kept = Append(@, timer)]

\* The loop of d3_timer_step and d3_timer_flush: timers that are added meanwhile are
\* in front of those it visits; those that are over leave the queue.
CallAll(s, timers, ready, time) ==
    LET visited[k \in 0 .. Len(timers)] ==
            IF k = 0 THEN s ELSE Visit(visited[k - 1], timers[k], ready, time)
        done  == visited[Len(timers)]
        added == SubSeq(done.queue, 1, Len(done.queue) - Len(timers))
    IN  [done EXCEPT !.queue = added \o done.kept, !.kept = <<>>]

\* That loop as far as the i-th timer, and the rest of it.
CallUpTo(s, i, ready) ==
    LET called == CallAll([s EXCEPT !.queue = SubSeq(queue, 1, i)], SubSeq(queue, 1, i), ready, now)
    IN  [called EXCEPT !.queue = @ \o SubSeq(queue, i + 1, Len(queue))]

CallFrom(s, i, ready) == CallAll(s, SubSeq(queue, i + 1, Len(queue)), ready, now)

-----------------------------------------------------------------------------
Elapse ==
    /\ now < MaxTime /\ now' = now + 1
    /\ frames > 0 => now < since + Lag
    /\ timeout # None => now < timeout + Lag
    /\ UNCHANGED <<timerVars, nodes, dom, thrown, late>>

DueNow == {t \in ToSet(queue) : Due(t, now)}

\* d3_timer_step, as a frame or as a timeout.
Step(s) == Become(Reschedule(CallAll(s, queue, DueNow, now), now))

AsFrame   == [Current EXCEPT !.frames = @ - 1, !.since = now]
AsTimeout == [Current EXCEPT !.timeout = None, !.since = now]

Frame ==
    /\ frames > 0
    /\ Step(AsFrame)
    /\ UNCHANGED <<now, thrown>>

\* The step of a timeout finds interval unset: the first timer that it adds asks for
\* a frame, as the step itself does at its end.
Timeout ==
    /\ timeout # None /\ now >= timeout
    /\ Step(AsTimeout)
    /\ UNCHANGED <<now, thrown>>

\* A listener or a function of the user throws in the i-th timer: what follows does
\* not happen, neither the other timers nor the request for the next step.  What the
\* i-th timer did until then is left out; nothing is called any more that would see it.
FrameThrows(i) ==
    /\ thrown' = TRUE
    /\ frames > 0 /\ i \in DOMAIN queue /\ queue[i] \in DueNow
    /\ Become(CallUpTo(AsFrame, i - 1, DueNow))
    /\ UNCHANGED now

\* d3.timer.flush, called by the user: the timers without a delay.
Undelayed == {t \in ToSet(queue) : t.delay = 0}

Flush ==
    /\ queue # <<>>
    /\ Become(CallAll(Current, queue, Undelayed, now))
    /\ UNCHANGED <<now, thrown>>
=============================================================================
