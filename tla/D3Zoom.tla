-------------------------------- MODULE D3Zoom --------------------------------
(***************************************************************************)
(* Panning and zooming areas (d3.js, d3.behavior.zoom), with the mouse and *)
(* its wheel or with fingers.  The area and the gesture are kept in        *)
(* variables of the whole page, whose window gets the moves.               *)
(*                                                                         *)
(* A point p of the screen shows the point (p - at) / pow[level] of the    *)
(* drawing; there is one dimension, levels are integers, and points and    *)
(* the extent are such multiples of powers that nothing is rounded.  A     *)
(* location is a point of the drawing as it lay at some level.             *)
(***************************************************************************)
EXTENDS Integers, FiniteSetsExt

CONSTANTS
    Areas,      \* the areas that can be zoomed
    MaxLevel,   \* the extent of the levels is 0 .. MaxLevel
    High,       \* the extent of the drawing is 0 .. High
    Spots,      \* where the mouse and the fingers may be
    Fingers,    \* the identifiers of touches
    Missing     \* no area, no location, no finger

\* Math.pow(2, level).
pow[level \in Nat] == IF level = 0 THEN 1 ELSE 2 * pow[level - 1]

ASSUME ZoomAssumption ==
    /\ MaxLevel \in Nat /\ High \in Nat /\ High % pow[MaxLevel] = 0
    /\ \A p \in Spots : p \in Int /\ p % pow[MaxLevel + 1] = 0
    /\ Missing \notin Int \cup [at : Int, level : Nat]

VARIABLES
    input,      \* the page is used with the mouse or with fingers
    view,       \* of every area: at and level (xyz)
    zoomed,     \* the area of the last start
    panning,    \* the location that a pan keeps under the mouse
    zooming,    \* the location that the wheel keeps under the mouse
    panMoved,   \* d3_behavior_zoomMoved
    mouse,      \* the area the mouse is over, where, the button, and if a click is next
    touching,   \* where the fingers are
    locations,  \* d3_behavior_zoomLocations
    bent,       \* history: the extent kept the last view from where it should go
    crossed     \* history: something else was zoomed or touched in the middle of a gesture

mouseState == <<panning, zooming, panMoved, mouse>>
touchState == <<touching, locations>>
zoomVars == <<input, view, zoomed, mouseState, touchState, bent, crossed>>

ZoomInit ==
    /\ input \in {"mouse", "touch"}
    /\ view = [a \in Areas |-> [at |-> 0, level |-> 0]]
    /\ zoomed = Missing /\ panning = Missing /\ zooming = Missing /\ panMoved = FALSE
    /\ mouse \in [area : Areas, p : {0}, button : {"up"}, click : {FALSE}]
    /\ touching = [f \in Fingers |-> Missing] /\ locations = [f \in Fingers |-> Missing]
    /\ bent = FALSE /\ crossed = FALSE

\* d3_behavior_zoomLocation.
Location(a, p) == [at |-> p - view[a].at, level |-> view[a].level]

Between3(x, low, high) == Max({low, Min({high, x})})

\* d3_behavior_zoomExtentClamp, of a translation.
Clamped(at, level) == Between3(at, High - High * pow[level], 0)

\* Mutant: the scale is taken from the view, not from the location.
ZoomToUnscaled(a, level, p, loc) ==
    LET l == Between3(level, 0, MaxLevel)
        wanted == p - (loc.at * pow[l]) \div pow[view[a].level]
    IN  /\ view' = [view EXCEPT ![a] = [at |-> Clamped(wanted, l), level |-> l]]
        /\ bent' = (Clamped(wanted, l) # wanted)

\* d3_behavior_zoomTo: the location shall be at p.
ZoomTo(a, level, p, loc) ==
    LET l == Between3(level, 0, MaxLevel)
        wanted == p - (loc.at * pow[l]) \div pow[loc.level]
    IN  /\ view' = [view EXCEPT ![a] = [at |-> Clamped(wanted, l), level |-> l]]
        /\ bent' = (Clamped(wanted, l) # wanted)

-----------------------------------------------------------------------------
\* The mouse.

\* mousedown on an area.
ZoomDown ==
    /\ mouse.button = "up" /\ ~mouse.click
    /\ mouse' = [mouse EXCEPT !.button = "pan"]
    /\ zoomed' = mouse.area /\ panning' = Location(mouse.area, mouse.p)
    /\ panMoved' = FALSE
    /\ UNCHANGED <<input, view, zooming, touchState, bent, crossed>>

\* The mouse is pressed on something that stands on top of the area.
ZoomDownElsewhere ==
    /\ mouse.button = "up" /\ ~mouse.click
    /\ mouse' = [mouse EXCEPT !.button = "other"]
    /\ UNCHANGED <<input, view, zoomed, panning, zooming, panMoved, touchState, bent, crossed>>

\* d3_behavior_zoomMousemove.
ZoomMove(a, p) ==
    /\ mouse' = [mouse EXCEPT !.area = a, !.p = p]
    /\ zooming' = Missing
    /\ IF panning = Missing THEN UNCHANGED <<view, panMoved, bent>>
       ELSE ZoomTo(zoomed, view[zoomed].level, p, panning) /\ panMoved' = TRUE
    /\ UNCHANGED <<input, zoomed, panning, touchState, crossed>>

\* d3_behavior_zoomMouseup.  same: the mouse is released where it was pressed, so that
\* a click follows.
ZoomUp(same) ==
    /\ mouse.button # "up"
    /\ mouse' = [mouse EXCEPT !.button = "up", !.click = same]
    /\ panning' = Missing
    /\ IF panning = Missing THEN UNCHANGED <<zoomed, panMoved>>
       ELSE zoomed' = Missing /\ panMoved' = (panMoved /\ same)
    /\ UNCHANGED <<input, view, zooming, touchState, bent, crossed>>

\* d3_behavior_zoomClick: the click is cancelled if the pan moved.
ZoomClick ==
    /\ mouse.click
    /\ mouse' = [mouse EXCEPT !.click = FALSE]
    /\ panMoved' = FALSE
    /\ UNCHANGED <<input, view, zoomed, panning, zooming, touchState, bent, crossed>>

\* mousewheel: the location under the mouse is remembered until the mouse moves.
Wheel(delta) ==
    /\ zoomed' = mouse.area
    /\ zooming' = IF zooming = Missing THEN Location(mouse.area, mouse.p) ELSE zooming
    /\ ZoomTo(mouse.area, view[mouse.area].level + delta, mouse.p, zooming')
    /\ crossed' = (crossed \/ (panning # Missing /\ zoomed # mouse.area))
    /\ UNCHANGED <<input, panning, panMoved, mouse, touchState>>

\* dblclick, after the second click; with SHIFT one level down.
DoubleClick(delta) ==
    /\ mouse.button = "up" /\ ~mouse.click
    /\ zoomed' = mouse.area
    /\ ZoomTo(mouse.area, view[mouse.area].level + delta, mouse.p, Location(mouse.area, mouse.p))
    /\ crossed' = (crossed \/ (zooming # Missing /\ bent))
    /\ UNCHANGED <<input, mouseState, touchState>>

-----------------------------------------------------------------------------
\* Fingers.

Down(touches) == {f \in Fingers : touches[f] # Missing}

\* d3_behavior_zoomTouchup: the locations of the fingers that are down.
Located(a, touches) ==
    [f \in Fingers |-> IF f \in Down(touches) THEN Location(a, touches[f]) ELSE locations[f]]

\* touchstart on an area.  fast: less than 300 ms after the one before it.
TouchStart(a, f, p, fast) ==
    /\ touching[f] = Missing /\ (Down(touching) = {} \/ zoomed = a)
    /\ fast => locations # [g \in Fingers |-> Missing]
    /\ touching' = [touching EXCEPT ![f] = p]
    /\ zoomed' = a
    /\ locations' = Located(a, touching')
    /\ IF fast /\ Down(touching') = {f} THEN ZoomTo(a, view[a].level + 1, p, locations'[f])
       ELSE bent' = FALSE /\ UNCHANGED view
    /\ UNCHANGED <<input, mouseState, crossed>>

\* A finger that starts elsewhere is a touch of the window too, with no location or an
\* old one.
TouchElsewhere(f, p) ==
    /\ zoomed # Missing /\ touching[f] = Missing
    /\ touching' = [touching EXCEPT ![f] = p]
    /\ crossed' = TRUE
    /\ UNCHANGED <<input, view, zoomed, mouseState, locations, bent>>

\* d3_behavior_zoomTouchmove, which looks at one finger and at two; stretch is what the
\* browser says of the scale since the second finger came down.
TouchMove(f, p, stretch) ==
    /\ touching[f] # Missing
    /\ touching' = [touching EXCEPT ![f] = p]
    /\ LET others == Down(touching) \ {f}
           level == locations[f].level
       IN  IF others = {} THEN stretch = 0 /\ ZoomTo(zoomed, view[zoomed].level, p, locations[f])
           ELSE \E g \in others :
                   IF others = {g}
                   THEN ZoomTo(zoomed, level + stretch, (p + touching[g]) \div 2,
                               [at |-> (locations[f].at + locations[g].at) \div 2, level |-> level])
                   ELSE UNCHANGED <<view, bent>>
    /\ UNCHANGED <<input, zoomed, mouseState, locations, crossed>>

TouchEnd(f) ==
    /\ touching[f] # Missing
    /\ touching' = [touching EXCEPT ![f] = Missing]
    /\ locations' = Located(zoomed, touching')
    /\ bent' = FALSE
    /\ UNCHANGED <<input, view, zoomed, mouseState, crossed>>

\* What comes after the history crossed is not looked at.
ZoomNext ==
    /\ ~crossed
    /\ \/ /\ input = "mouse"
          /\ \/ ZoomDown \/ ZoomDownElsewhere \/ ZoomClick
             \/ \E a \in Areas, p \in Spots : ZoomMove(a, p)
             \/ \E same \in BOOLEAN : ZoomUp(same)
             \/ \E delta \in {-1, 1} : Wheel(delta) \/ DoubleClick(delta)
       \/ /\ input = "touch"
          /\ \/ \E f \in Fingers, p \in Spots :
                   \/ \E a \in Areas, fast \in BOOLEAN : TouchStart(a, f, p, fast)
                   \/ TouchElsewhere(f, p)
                   \/ \E stretch \in {-1, 0, 1} : TouchMove(f, p, stretch)
             \/ \E f \in Fingers : TouchEnd(f)

ZoomSpec == ZoomInit /\ [][ZoomNext]_zoomVars

-----------------------------------------------------------------------------
\* The location is at p.
Shows(a, p, loc) == (p - view[a].at) * pow[loc.level] = loc.at * pow[view[a].level]

(***************************************************************************)
(* Panning and the wheel keep the point of the drawing that was under the  *)
(* mouse under it, also from several turns of the wheel at the limits of   *)
(* the extent to one that they allow again, and when the wheel is turned   *)
(* while panning.  A finger keeps its point, two fingers the one in the    *)
(* middle between them, when a finger comes or goes too (d3.js:4554,       *)
(* 4563-4564, 4640-4687, 4715-4722).                                       *)
(***************************************************************************)
UnderMouse ==
    /\ zooming # Missing => Shows(mouse.area, mouse.p, zooming)
    /\ panning # Missing /\ zooming = Missing => Shows(zoomed, mouse.p, panning)

UnderFingers ==
    \A f, g \in Down(touching) :
        LET middle == [at |-> (locations[f].at + locations[g].at) \div 2, level |-> locations[f].level]
        IN  Down(touching) = {f, g} => Shows(zoomed, (touching[f] + touching[g]) \div 2, middle)

PointsStay == ~bent /\ ~crossed => UnderMouse /\ UnderFingers
=============================================================================
