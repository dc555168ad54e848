-------------------------------- MODULE D3Drag --------------------------------
(***************************************************************************)
(* Dragging elements with the mouse (d3.js, d3.behavior.drag): the element *)
(* that is dragged is kept in variables of the whole page, whose window    *)
(* gets the moves and the release of the mouse, and the click after it,    *)
(* before the elements of the page do.                                     *)
(*                                                                         *)
(* Positions have one dimension and are in half pixels, as a mouse over a  *)
(* zoomed drawing has them; what is told to a click from a drag has whole  *)
(* pixels only.  Touches are left out.                                     *)
(***************************************************************************)
EXTENDS Integers

CONSTANTS
    Elements,  \* the elements that can be dragged
    Elsewhere, \* the rest of the page
    Places,    \* where the mouse may be, in half pixels
    Nobody     \* no element

ASSUME PlacesAssumption ==
    /\ Places \subseteq Int /\ 0 \in Places
    /\ Elsewhere \notin Elements /\ Nobody \notin Elements \cup {Elsewhere}

VARIABLES
    target,   \* d3_behavior_dragTarget
    origin,   \* d3_behavior_dragOrigin
    offset,   \* d3_behavior_dragOffset
    moved,    \* d3_behavior_dragMoved
    place,    \* where the listener has put every element
    removed,  \* the elements that are not in the document any more
    pressed,  \* what the mouse is pressed on
    clicking, \* what the browser reports a click on next
    whole,    \* history: since the last press a drag moved by a pixel at once
    stuck     \* history: a listener of dragend threw, or an element was removed
              \* after its drag and before its click

mouseVars == <<pressed, clicking>>
dragVars == <<target, origin, offset, moved, place, removed, mouseVars, whole, stuck>>

DragInit ==
    /\ target = Nobody /\ origin = 0 /\ offset = 0 /\ moved = FALSE
    /\ place = [e \in Elements |-> 0] /\ removed = {}
    /\ pressed = Nobody /\ clicking = Nobody
    /\ whole = FALSE /\ stuck = FALSE

Things == Elements \cup {Elsewhere}

\* d3_behavior_dragMoved |= dx, which drops what is less than a pixel.
IsPixel(dx) == dx >= 2 \/ dx <= -2

\* What an event tells a listener that puts the target to event.x.
Report(p) ==
    /\ place' = [place EXCEPT ![target] = p + offset]
    /\ whole' = (whole \/ IsPixel(p - origin))

MovedBy(p) == moved \/ IsPixel(p - origin)

Release(e) ==
    /\ pressed' = Nobody
    /\ clicking' = IF e = pressed /\ e \notin removed THEN e ELSE Nobody

GiveUp == target' = Nobody /\ origin' = 0 /\ offset' = 0

-----------------------------------------------------------------------------
\* mousedown on an element that is near p: start, and the event dragstart, which moves
\* nothing.  With an origin function the element keeps its distance to the mouse.
DragDown(e, p) ==
    /\ pressed = Nobody /\ clicking = Nobody
    /\ e \notin removed /\ p \in place[e] .. place[e] + 1
    /\ pressed' = e
    /\ target' = e /\ origin' = p /\ offset' = place[e] - p
    /\ moved' = FALSE
    /\ whole' = FALSE
    /\ UNCHANGED <<place, removed, clicking, stuck>>

PressElsewhere ==
    /\ pressed = Nobody /\ clicking = Nobody
    /\ pressed' = Elsewhere /\ whole' = FALSE
    /\ UNCHANGED <<target, origin, offset, moved, place, removed, clicking, stuck>>

\* d3_behavior_dragMove; a target that is gone is given up, as if released elsewhere.
DragMove(p) ==
    /\ target # Nobody
    /\ IF target \in removed THEN GiveUp /\ moved' = FALSE /\ UNCHANGED <<place, whole>>
       ELSE Report(p) /\ moved' = MovedBy(p) /\ origin' = p /\ UNCHANGED <<target, offset>>
    /\ UNCHANGED <<removed, mouseVars, stuck>>

\* d3_behavior_dragUp, when the mouse is released over e.
DragUp(p, e) ==
    /\ target # Nobody
    /\ IF target \in removed THEN moved' = FALSE /\ UNCHANGED <<place, whole>>
       ELSE Report(p) /\ moved' = (MovedBy(p) /\ e = target)
    /\ GiveUp /\ Release(e)
    /\ UNCHANGED <<removed, stuck>>

\* A listener of dragend throws: the variables keep the target.
DragUpThrows(p, e) ==
    /\ target # Nobody /\ target \notin removed
    /\ Report(p) /\ moved' = MovedBy(p) /\ origin' = p
    /\ Release(e) /\ stuck' = TRUE
    /\ UNCHANGED <<target, offset, removed>>

ReleaseElsewhere(e) ==
    /\ target = Nobody /\ pressed # Nobody
    /\ Release(e)
    /\ UNCHANGED <<target, origin, offset, moved, place, removed, whole, stuck>>

\* Mutant: moved is not reset.
DragClickKeeping ==
    /\ clicking # Nobody /\ clicking' = Nobody
    /\ UNCHANGED <<target, origin, offset, moved, place, removed, pressed, whole, stuck>>

\* d3_behavior_dragClick: the click is cancelled if moved is set.
DragClick ==
    /\ clicking # Nobody /\ clicking' = Nobody
    /\ moved' = FALSE
    /\ UNCHANGED <<target, origin, offset, place, removed, pressed, whole, stuck>>

\* The program removes an element, also the one that is dragged.
RemoveElement(e) ==
    /\ removed' = removed \cup {e}
    /\ clicking' = IF clicking = e THEN Nobody ELSE clicking
    /\ stuck' = (stuck \/ (clicking = e /\ moved))
    /\ UNCHANGED <<target, origin, offset, moved, place, pressed, whole>>

\* What comes after the history stuck is not looked at.
DragNext ==
    /\ ~stuck
    /\ \/ PressElsewhere \/ DragClick
       \/ \E e \in Things : ReleaseElsewhere(e)
       \/ \E e \in Elements : RemoveElement(e)
       \/ \E p \in Places : \/ DragMove(p)
                            \/ \E e \in Elements : DragDown(e, p)
                            \/ \E e \in Things : DragUp(p, e) \/ DragUpThrows(p, e)

DragSpec == DragInit /\ [][DragNext]_dragVars

-----------------------------------------------------------------------------
(***************************************************************************)
(* A click is cancelled exactly when it ends a drag that moved: clicks     *)
(* that only pressed an element go through, as do those on the rest of the *)
(* page after a drag that ended elsewhere or lost its element              *)
(* (d3.js:4495-4519).                                                      *)
(***************************************************************************)
ClickAfterDragIsCancelled == clicking # Nobody /\ ~stuck => moved = whole

=============================================================================
