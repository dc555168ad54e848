------------------------------- MODULE D3Bisect -------------------------------
(***************************************************************************)
(* The binary searches of the chart library (d3.js, d3.bisectLeft and      *)
(* d3.bisectRight), one turn of the loop a step.  The shift by which the   *)
(* middle is found is one of 32 bit integers; Half is 2^31.                *)
(*                                                                         *)
(* Indices count from 0 as in the code: the element at i is a[i + 1].      *)
(***************************************************************************)
EXTENDS Integers, Sequences

CONSTANTS
    Arrays,  \* the arrays that are searched
    Values,  \* what is looked for
    Half     \* the sums of indices that are below do not overflow

Ascending(s) == \A i, j \in 1 .. Len(s) : i <= j => s[i] <= s[j]

ASSUME BisectAssumption ==
    /\ Half \in Nat /\ Values \subseteq Int
    /\ \A s \in Arrays : s \in Seq(Int) /\ Ascending(s) /\ 2 * Len(s) <= Half

VARIABLES
    a, x, right,  \* what is searched for what, and from which side
    from, to,     \* the arguments lo and hi
    lo, hi,
    turns         \* history: the turns of the loop

bisectVars == <<a, x, right, from, to, lo, hi, turns>>

\* The optional arguments lo and hi are a part of the array.
BisectInit ==
    /\ a \in Arrays /\ x \in Values /\ right \in BOOLEAN
    /\ from \in 0 .. Len(a) /\ to \in from .. Len(a)
    /\ lo = from /\ hi = to /\ turns = 0

\* (lo + hi) >> 1.
Mid == (IF lo + hi < Half THEN lo + hi ELSE lo + hi - 2 * Half) \div 2

\* Whether the element at i belongs to the left half.
IsLeft(i) == IF right THEN ~(x < a[i + 1]) ELSE a[i + 1] < x

\* Mutant: the middle is left out on both sides.
TurnSkipping ==
    /\ lo < hi
    /\ IF IsLeft(Mid) THEN lo' = Mid + 1 /\ UNCHANGED hi
       ELSE hi' = Mid - 1 /\ UNCHANGED lo
    /\ turns' = turns + 1
    /\ UNCHANGED <<a, x, right, from, to>>

\* A turn of the loop.
Turn ==
    /\ lo < hi
    /\ IF IsLeft(Mid) THEN lo' = Mid + 1 /\ UNCHANGED hi
       ELSE hi' = Mid /\ UNCHANGED lo
    /\ turns' = turns + 1
    /\ UNCHANGED <<a, x, right, from, to>>

BisectSpec == BisectInit /\ [][Turn]_bisectVars

-----------------------------------------------------------------------------
(***************************************************************************)
(* "The returned insertion point i partitions the array into two halves so *)
(* that all v < x for v in a[lo:i] for the left side and all v >= x for v  *)
(* in a[i:hi] for the right side", and for bisectRight with <= and >       *)
(* (d3.js:201-203, 218-220).                                               *)
(***************************************************************************)
Partitions ==
    lo >= hi =>
        /\ lo \in from .. to
        /\ \A i \in from .. lo - 1 : IF right THEN a[i + 1] <= x ELSE a[i + 1] < x
        /\ \A i \in lo .. to - 1 : IF right THEN a[i + 1] > x ELSE a[i + 1] >= x

(***************************************************************************)
(* Every turn leaves at most half of what there was to search, so the loop *)
(* ends, and soon, for an empty part and for one of two elements too       *)
(* (d3.js:207-211, 225-229).                                               *)
(***************************************************************************)
LessThanHalf ==
    [][0 <= hi' - lo' /\ 2 * (hi' - lo') <= hi - lo]_bisectVars
=============================================================================
