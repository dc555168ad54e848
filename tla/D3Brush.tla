------------------------------- MODULE D3Brush --------------------------------
(***************************************************************************)
(* The brushes of a page (d3.js, d3.svg.brush): one gesture of the mouse   *)
(* at a time, kept in variables that all brushes share, which starts,      *)
(* resizes or drags an extent, with ALT to keep the centre and the space   *)
(* bar to drag meanwhile.                                                  *)
(*                                                                         *)
(* Pixels are integers; both ranges are 0 .. Size, that of y turned        *)
(* around, as charts have it.  A centre is doubled, to be an integer.  A   *)
(* side is a pair of what it says of x and of y.  The rectangles that are  *)
(* moved along with the extent are left out.                               *)
(***************************************************************************)
EXTENDS Integers, FiniteSetsExt

CONSTANTS
    Scales,   \* of every brush: its dimensions, a subset of {1, 2} for x and y
    Pages,    \* the sets of brushes a page may have
    Size,     \* the length of both ranges
    Mouse,    \* in both dimensions: where the mouse may be, also outside of the range
    Nothing   \* no gesture, no side, no centre

ASSUME BrushAssumption ==
    /\ Size \in Nat /\ \A b \in DOMAIN Scales : Scales[b] \subseteq {1, 2}
    /\ Pages \subseteq SUBSET DOMAIN Scales
    /\ Mouse[1] \subseteq Int /\ Mouse[2] \subseteq Int

VARIABLES
    present,  \* the brushes of the page
    extent,   \* of every brush and dimension: its lower and its upper end
    handles,  \* whether the resizers of a brush can be clicked on
    gesture,  \* the variables d3_svg_brush...
    cut,      \* history: a gesture began before the one before it ended
    jumped    \* history: the space bar was used in a gesture with ALT, or while
              \* the program set the extent

brushVars == <<present, extent, handles, gesture, cut, jumped>>

Brushes == DOMAIN Scales
Points(b) ==
    {p \in [{1, 2} -> Mouse[1] \cup Mouse[2]] :
        \A i \in {1, 2} : p[i] \in IF i \in Scales[b] THEN Mouse[i] ELSE {0}}

Empty(b, ext) == \E i \in Scales[b] : ext[i].lo = ext[i].hi

BrushInit ==
    /\ present \in Pages
    /\ extent = [b \in Brushes |-> [i \in {1, 2} |-> [lo |-> 0, hi |-> 0]]]
    /\ handles = [b \in Brushes |-> FALSE]
    /\ gesture = Nothing /\ cut = FALSE /\ jumped = FALSE

Sorted(p, q) == [lo |-> Min({p, q}), hi |-> Max({p, q})]

Clamp(p, r0, r1) == Max({r0, Min({r1, p})})

-----------------------------------------------------------------------------
\* Moves.

\* Mutant: the range is not reduced by the size of the extent.
Move1Overhanging(g, e, p, i) ==
    LET drag == Clamp(p, -g.offset[i], Size - g.offset[i]) + g.offset[i]
        at   == Clamp(p, 0, Size)
    IN  IF g.drag # "no" THEN [lo |-> drag, hi |-> drag + e.hi - e.lo]
        ELSE IF g.center # Nothing THEN Sorted(at, Clamp(g.center[i] - at, 0, Size))
        ELSE Sorted(at, g.offset[i])

\* d3_svg_brushMove1: e is the extent in the dimension i.
Move1(g, e, p, i) ==
    LET size == e.hi - e.lo
        drag == Clamp(p, -g.offset[i], Size - size - g.offset[i]) + g.offset[i]
        at   == Clamp(p, 0, Size)
    IN  IF g.drag # "no" THEN [lo |-> drag, hi |-> drag + size]
        ELSE IF g.center # Nothing THEN Sorted(at, Clamp(g.center[i] - at, 0, Size))
        ELSE Sorted(at, g.offset[i])

\* The first part of d3_svg_brushMove: what ALT does to a gesture that is not a drag.
Centered(g, ext, p, alt) ==
    LET center == IF g.center = Nothing THEN [i \in {1, 2} |-> ext[i].lo + ext[i].hi] ELSE g.center
    IN  IF g.drag # "no" THEN g
        ELSE IF ~alt THEN [g EXCEPT !.center = Nothing]
        ELSE [g EXCEPT !.center = center, !.plain = FALSE,
                       !.offset = [i \in {1, 2} |-> IF 2 * p[i] < center[i] THEN ext[i].hi ELSE ext[i].lo]]

Moved(g, ext, p) == [i \in {1, 2} |-> IF i \in g.dims THEN Move1(g, ext[i], p[i], i) ELSE ext[i]]

-----------------------------------------------------------------------------
\* Where the mouse is when it is pressed: on the background, on the extent, on a side.

Sides(b) ==
    {s \in {"w", "e", ""} \X {"n", "s", ""} :
        s # <<"", "">> /\ (s[1] # "" => 1 \in Scales[b]) /\ (s[2] # "" => 2 \in Scales[b])}

Near(p, q) == p \in q - 1 .. q + 1

OnSide(b, s, p) ==
    /\ handles[b]
    /\ \A i \in Scales[b] :
          CASE s[i] \in {"w", "n"} -> Near(p[i], extent[b][i].lo)
            [] s[i] \in {"e", "s"} -> Near(p[i], extent[b][i].hi)
            [] s[i] = ""           -> p[i] \in extent[b][i].lo .. extent[b][i].hi

Opposite(b, s) ==
    [i \in {1, 2} |-> IF s[i] \in {"w", "n"} THEN extent[b][i].hi ELSE extent[b][i].lo]

Grabbed(b, p) == [i \in {1, 2} |-> extent[b][i].lo - p[i]]

\* What down stores.  A side and a centre that a gesture before it left are still there.
Begun(b, drag, side, offset, center) ==
    LET left == IF gesture = Nothing THEN [resize |-> Nothing, center |-> Nothing] ELSE gesture
        resize == IF side = Nothing THEN left.resize ELSE side
    IN  [brush |-> b, drag |-> drag, resize |-> resize, offset |-> offset,
         center |-> IF center = Nothing THEN left.center ELSE center,
         dims |-> {i \in Scales[b] : resize = Nothing \/ resize[i] # ""},
         plain |-> TRUE]

\* The rest of down: a first move.
Begin(g, p, alt) ==
    LET centered == Centered(g, extent[g.brush], p, alt)
    IN  /\ gesture' = centered
        /\ extent' = [extent EXCEPT ![g.brush] = Moved(centered, @, p)]
        /\ cut' = (cut \/ gesture # Nothing)
        /\ UNCHANGED <<handles, jumped>>

DownBackground(b, p, alt) ==
    /\ \A i \in Scales[b] : p[i] \in 0 .. Size
    /\ Begin(Begun(b, "no", Nothing, p, IF alt THEN [i \in {1, 2} |-> 2 * p[i]] ELSE Nothing), p, alt)

DownExtent(b, p, alt) ==
    /\ \A i \in Scales[b] : p[i] \in extent[b][i].lo .. extent[b][i].hi /\ extent[b][i].lo < extent[b][i].hi
    /\ Begin(Begun(b, "extent", Nothing, Grabbed(b, p), Nothing), p, alt)

DownSide(b, s, p, alt) ==
    /\ OnSide(b, s, p)
    /\ Begin(Begun(b, "no", s, Opposite(b, s), Nothing), p, alt)

\* d3_svg_brushMove, for a move of the mouse.
BrushMove(p, alt) ==
    /\ gesture # Nothing
    /\ p \in Points(gesture.brush)
    /\ LET g == Centered(gesture, extent[gesture.brush], p, alt)
       IN  /\ gesture' = g
           /\ extent' = [extent EXCEPT ![g.brush] = Moved(g, @, p)]
    /\ UNCHANGED <<handles, cut, jumped>>

\* d3_svg_brushUp.
BrushUp(p, alt) ==
    /\ gesture # Nothing
    /\ p \in Points(gesture.brush)
    /\ LET b == gesture.brush
       IN  /\ extent' = [extent EXCEPT ![b] = Moved(Centered(gesture, @, p, alt), @, p)]
           /\ handles' = [handles EXCEPT ![b] = ~Empty(b, extent'[b])]
    /\ gesture' = Nothing
    /\ UNCHANGED <<cut, jumped>>

\* d3_svg_brushKeydown: the space bar turns the gesture into a drag.
KeyDown ==
    /\ gesture # Nothing /\ gesture.drag = "no"
    /\ gesture' = [gesture EXCEPT !.center = Nothing, !.drag = "space",
                                  !.offset = [i \in {1, 2} |-> @[i] - extent[gesture.brush][i].hi]]
    /\ jumped' = (jumped \/ ~gesture.plain)
    /\ UNCHANGED <<extent, handles, cut>>

\* Mutant: the offset stays relative.
KeyUpRelative ==
    /\ gesture # Nothing /\ gesture.drag = "space"
    /\ gesture' = [gesture EXCEPT !.drag = "no"]
    /\ UNCHANGED <<extent, handles, cut, jumped>>

\* d3_svg_brushKeyup.
KeyUp ==
    /\ gesture # Nothing /\ gesture.drag = "space"
    /\ gesture' = [gesture EXCEPT !.drag = "no",
                                  !.offset = [i \in {1, 2} |-> @[i] + extent[gesture.brush][i].hi]]
    /\ UNCHANGED <<extent, handles, cut, jumped>>

-----------------------------------------------------------------------------
\* The program, also from a listener during a gesture.

\* Scaling and inverting: the range of y runs the other way.
Scaled(i, v) == IF i = 2 THEN Size - v ELSE v

ToPixels(i, z) == Sorted(Scaled(i, z[1]), Scaled(i, z[2]))

Set(b, ext) ==
    /\ extent' = [extent EXCEPT ![b] = ext]
    /\ gesture' = IF gesture # Nothing THEN [gesture EXCEPT !.plain = FALSE] ELSE gesture
    /\ jumped' = (jumped \/ (gesture # Nothing /\ gesture.drag = "space"))
    /\ UNCHANGED <<handles, cut>>

\* brush.extent(z) and brush.clear().
SetExtent(b, z) ==
    Set(b, [i \in {1, 2} |-> IF i \in Scales[b] THEN ToPixels(i, z) ELSE extent[b][i]])

Clear(b) == Set(b, [i \in {1, 2} |-> [lo |-> 0, hi |-> 0]])

\* brush(g).
Redraw(b) ==
    /\ handles' = [handles EXCEPT ![b] = ~Empty(b, extent[b])]
    /\ UNCHANGED <<extent, gesture, cut, jumped>>

BrushNext ==
    /\ UNCHANGED present
    /\ \/ \E b \in present, alt \in BOOLEAN : \E p \in Points(b) :
             \/ DownBackground(b, p, alt) \/ DownExtent(b, p, alt)
             \/ \E s \in Sides(b) : DownSide(b, s, p, alt)
       \/ \E p \in UNION {Points(b) : b \in present}, alt \in BOOLEAN : BrushMove(p, alt) \/ BrushUp(p, alt)
       \/ KeyDown \/ KeyUp
       \/ \E b \in present : Redraw(b) \/ Clear(b) \/ \E z \in {0, Size} \X {0, Size} : SetExtent(b, z)

BrushSpec == BrushInit /\ [][BrushNext]_brushVars

-----------------------------------------------------------------------------
(***************************************************************************)
(* The mouse is clamped "so that the extent fits within the range extent": *)
(* the ends of an extent are in order and in the range, whatever gestures  *)
(* and keys follow each other (d3.js:4341-4342).                           *)
(***************************************************************************)
ExtentFits ==
    \A b \in Brushes : \A i \in Scales[b] :
        0 <= extent[b][i].lo /\ extent[b][i].lo <= extent[b][i].hi /\ extent[b][i].hi <= Size

(***************************************************************************)
(* The same without the space bar in a gesture with ALT: after every       *)
(* sequence of brushing, resizing and dragging, also with the mouse        *)
(* outside, with sides that cross over, and with gestures that are cut off *)
(* (d3.js:4325-4365).                                                      *)
(***************************************************************************)
ExtentInRange == ~jumped => ExtentFits

(***************************************************************************)
(* In a gesture without ALT, in which the program does not interfere, the  *)
(* point that the next move starts from is an end of the extent, also when *)
(* the space bar was used meanwhile: the extent does not jump              *)
(* (d3.js:4134-4141, 4266-4282).                                           *)
(***************************************************************************)
AnchorIsEdge ==
    gesture # Nothing /\ gesture.drag = "no" /\ gesture.plain =>
        \A i \in gesture.dims : LET e == extent[gesture.brush][i] IN gesture.offset[i] \in {e.lo, e.hi}

=============================================================================
