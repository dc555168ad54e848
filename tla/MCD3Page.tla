------------------------------- MODULE MCD3Page -------------------------------
(* Pages with a behaviour of the chart library each: an axis, brushes,      *)
(* elements to drag, areas to zoom, a dispatch of events, a word cloud,     *)
(* ordinal scales, or a search.  The gestures have their variables to       *)
(* themselves and cancel the events they use, so that a page has only one   *)
(* of them at work.                                                         *)
EXTENDS D3Axis, D3Brush, D3Drag, D3Zoom, D3Dispatch, WordCloud, D3Ordinal, D3Bisect

VARIABLE page

\* A scale of an axis with two ticks, or without the first.
MCTicks == {<<"one", "two">>, <<"two">>}

\* A brush in two dimensions, and one in each.  The range is 0 .. 2.
MCScales == << {1, 2}, {1}, {2} >>
MCPages  == {{1}, {2, 3}}
MCMouse  == << {-1, 1, 3}, {0, 2} >>

\* A cloud with integers of 4 bits in 10 by 5 pixels, whose last two columns are no
\* whole integer.  A big text has 4 rows, a small one 2; the canvas has room for two.
MCStyle ==
    [big   |-> [size |-> 2, cells |-> 1, image |-> {<<0, 1>>, <<1, 1>>, <<3, 1>>, <<1, 2>>}],
     small |-> [size |-> 1, cells |-> 1, image |-> {<<1, 0>>, <<2, 0>>, <<3, 0>>}],
     huge  |-> [size |-> 4, cells |-> 1, image |-> {<<0, 0>>}]]

MCTexts == {[a |-> "big", b |-> "small", c |-> "small"], [a |-> "huge", b |-> "big", c |-> "big"]}

MCPositions == {<<2, 3>>, <<3, 3>>, <<4, 3>>, <<5, 2>>, <<7, 3>>, <<8, 2>>}

\* Domains with a value that comes twice and of all three values; ranges of two
\* colours and of one; sorted arrays of up to four integers.
MCDomains == {<<>>, <<"u", "v", "v">>, <<"w", "v", "u">>}

MCColours == {<<"red", "blue">>, <<"red">>}

MCArrays == {s \in SeqOf(1 .. 3, 4) : Ascending(s)}

pageVars == <<page, axisVars, brushVars, dragVars, zoomVars, dispatchVars, cloudVars, ordinalVars, bisectVars>>

MCInit ==
    /\ page \in {"axis", "brush", "drag", "zoom", "dispatch", "cloud", "scale", "search"}
    /\ AxisInit
    /\ BrushInit /\ (page # "brush" => present = {1})
    /\ DragInit /\ DispatchInit
    /\ ZoomInit /\ (page # "zoom" => input = "mouse" /\ mouse.area = 1)
    /\ CloudInit /\ (page # "cloud" => ~yields)
    /\ OrdinalInit
    /\ BisectInit /\ (page # "search" => a = <<>> /\ x = 0 /\ ~right)

\* Bounds: an axis that is drawn again in the middle of a step is drawn twice at most;
\* what comes after the history jumped is not looked at, nor, on the page with the brush
\* in two dimensions, what comes after a gesture was cut off.
MCNext ==
    /\ UNCHANGED page
    /\ \/ /\ page = "axis" /\ AxisNext /\ (midway' => version' <= 2)
          /\ UNCHANGED <<brushVars, dragVars, zoomVars, dispatchVars, cloudVars, ordinalVars, bisectVars>>
       \/ /\ page = "brush" /\ ~jumped /\ (cut => present # {1}) /\ BrushNext
          /\ UNCHANGED <<axisVars, dragVars, zoomVars, dispatchVars, cloudVars, ordinalVars, bisectVars>>
       \/ /\ page = "drag" /\ DragNext
          /\ UNCHANGED <<axisVars, brushVars, zoomVars, dispatchVars, cloudVars, ordinalVars, bisectVars>>
       \/ /\ page = "zoom" /\ ZoomNext
          /\ UNCHANGED <<axisVars, brushVars, dragVars, dispatchVars, cloudVars, ordinalVars, bisectVars>>
       \/ /\ page = "dispatch" /\ DispatchNext
          /\ UNCHANGED <<axisVars, brushVars, dragVars, zoomVars, cloudVars, ordinalVars, bisectVars>>
       \/ /\ page = "cloud" /\ CloudNext
          /\ UNCHANGED <<axisVars, brushVars, dragVars, zoomVars, dispatchVars, ordinalVars, bisectVars>>
       \/ /\ page = "scale" /\ OrdinalNext
          /\ UNCHANGED <<axisVars, brushVars, dragVars, zoomVars, dispatchVars, cloudVars, bisectVars>>
       \/ /\ page = "search" /\ Turn
          /\ UNCHANGED <<axisVars, brushVars, dragVars, zoomVars, dispatchVars, cloudVars, ordinalVars>>

MCSpec == MCInit /\ [][MCNext]_pageVars
=============================================================================
