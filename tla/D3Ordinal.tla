------------------------------ MODULE D3Ordinal -------------------------------
(***************************************************************************)
(* Ordinal scales of the chart library (d3.js, d3.scale.ordinal), such as  *)
(* the colour scales and the places of bars, and their copies.             *)
(*                                                                         *)
(* A scale is a function with a memory: a value it does not know joins its *)
(* domain, whereas the places of a range of points or bands are those of   *)
(* the domain when it was last set.  Paddings are halves, so that with     *)
(* lengths that are multiples of 420 places are integers; rounded bands    *)
(* have any length.  Ranges start at 0.                                    *)
(***************************************************************************)
EXTENDS Integers, SequencesExt

CONSTANTS
    DomainValues, \* the values that are scaled
    Domains,      \* the lists of values that are set as domains
    Colours,      \* the ranges that are lists
    Length,       \* of the ranges of points and bands
    Pixels,       \* the lengths of the ranges of rounded bands
    MaxScales,    \* bound: the scale and its copies
    MaxCalls,     \* bound: calls that are no uses
    NotANumber

ASSUME OrdinalAssumption ==
    /\ Length \in Nat /\ Length % 420 = 0 /\ Pixels \subseteq Nat
    /\ MaxScales \in Nat /\ MaxCalls \in Nat
    /\ Domains \subseteq Seq(DomainValues)

\* A list of colours names each of them once.
ASSUME ColoursAssumption ==
    \A c \in Colours : /\ DOMAIN c = 1 .. Len(c)
                       /\ \A i, j \in DOMAIN c : c[i] = c[j] => i = j

VARIABLES
    scales,  \* of every scale: domain, range, rangeBand, ranger; and history:
             \* grown, a value joined since the range was computed
    calls    \* bound: calls that are no uses

ordinalVars == <<scales, calls>>

Listed(colours) == [t |-> "range", x |-> colours, p |-> 0]

-----------------------------------------------------------------------------
\* Ranges.  n is the length of the domain, p the padding, doubled.  Infinity, from a
\* division by zero, is NotANumber as well, and so is undefined.

RangeSteps(n, start, step) == [i \in 1 .. n |-> start + step * (i - 1)]

rangePoints(n, x, p) ==
    LET step == (2 * x) \div (2 * (n - 1) + p)
    IN  [range |-> IF 2 * (n - 1) + p = 0 THEN [i \in 1 .. n |-> NotANumber]
                   ELSE RangeSteps(n, IF n < 2 THEN x \div 2 ELSE (step * p) \div 4, step),
         band  |-> 0]

rangeBands(n, x, p) ==
    LET step == (2 * x) \div (2 * n + p)
    IN  IF 2 * n + p = 0 THEN [range |-> <<>>, band |-> NotANumber]
        ELSE [range |-> RangeSteps(n, (step * p) \div 2, step), band |-> (step * (2 - p)) \div 2]

\* Math.round of q quarters.
Round(q) == (q + 2) \div 4

rangeRoundBands(n, x, p) ==
    LET step == (2 * x) \div (2 * n + p)
    IN  IF 2 * n + p = 0 THEN [range |-> <<>>, band |-> NotANumber]
        ELSE [range |-> RangeSteps(n, Round(2 * x - (2 * n - p) * step), step), band |-> Round(2 * step * (2 - p))]

\* scale[ranger.t](ranger.x, ranger.p).
Ranged(n, ranger) ==
    CASE ranger.t = "range"           -> [range |-> ranger.x, band |-> 0]
      [] ranger.t = "rangePoints"     -> rangePoints(n, ranger.x, ranger.p)
      [] ranger.t = "rangeBands"      -> rangeBands(n, ranger.x, ranger.p)
      [] ranger.t = "rangeRoundBands" -> rangeRoundBands(n, ranger.x, ranger.p)

-----------------------------------------------------------------------------
\* Mutant: a value that comes twice is taken twice.
DomainOfAll(xs) == xs

\* The values of a domain, each once.
DomainOf(xs) ==
    LET upTo[n \in 0 .. Len(xs)] ==
            IF n = 0 THEN <<>>
            ELSE IF xs[n] \in ToSet(upTo[n - 1]) THEN upTo[n - 1] ELSE Append(upTo[n - 1], xs[n])
    IN  upTo[Len(xs)]

Rescaled(domain, ranger) ==
    LET ranged == Ranged(Len(domain), ranger)
    IN  [domain |-> domain, ranger |-> ranger, range |-> ranged.range, rangeBand |-> ranged.band,
         grown |-> FALSE]

OrdinalInit ==
    /\ scales = <<Rescaled(<<>>, Listed(<<>>))>>
    /\ calls = 0

\* scale(x), for a value of the domain.  A value that comes twice has its last index.
At(s, x) ==
    LET i == Max({j \in DOMAIN s.domain : s.domain[j] = x})
    IN  IF s.range = <<>> THEN NotANumber ELSE s.range[((i - 1) % Len(s.range)) + 1]

Setting == calls < MaxCalls /\ calls' = calls + 1

\* scale(x), for a value that is new: it joins the domain.
Use(k, x) ==
    /\ x \notin ToSet(scales[k].domain)
    /\ scales' = [scales EXCEPT ![k].domain = Append(@, x), ![k].grown = TRUE]
    /\ UNCHANGED calls

\* scale.domain(x).
SetDomain(k, xs) ==
    /\ Setting
    /\ scales' = [scales EXCEPT ![k] = Rescaled(DomainOf(xs), @.ranger)]

\* scale.range, rangePoints, rangeBands and rangeRoundBands.
SetRange(k, ranger) ==
    /\ Setting
    /\ scales' = [scales EXCEPT ![k] = Rescaled(@.domain, ranger)]

\* scale.copy: a scale of its own, whose range is computed for the domain there is now.
Copy(k) ==
    /\ Setting /\ Len(scales) < MaxScales
    /\ scales' = Append(scales, Rescaled(DomainOf(scales[k].domain), scales[k].ranger))

Rangers ==
    {Listed(c) : c \in Colours}
        \cup [t : {"rangePoints", "rangeBands"}, x : {Length}, p : {0, 1}]
        \cup [t : {"rangeRoundBands"}, x : Pixels, p : {0, 1}]

OrdinalNext ==
    \E k \in DOMAIN scales :
        \/ \E x \in DomainValues : Use(k, x)
        \/ \E xs \in Domains : SetDomain(k, xs)
        \/ \E ranger \in Rangers : SetRange(k, ranger)
        \/ Copy(k)

OrdinalSpec == OrdinalInit /\ [][OrdinalNext]_ordinalVars

-----------------------------------------------------------------------------
(***************************************************************************)
(* A scale tells the values of its domain apart, also when a domain names  *)
(* one twice, and in copies: colours as long as there are enough of them,  *)
(* bands, rounded ones too, by not overlapping and by lying in the range,  *)
(* whatever is left over by rounding.  Bands of a domain that has grown    *)
(* are excepted: new values share those of the first (d3.js:2714-2781,     *)
(* 2833-2837).                                                             *)
(***************************************************************************)
ColoursDiffer(s) ==
    Len(s.range) >= Len(s.domain) =>
        \A i, j \in DOMAIN s.domain : i # j => At(s, s.domain[i]) # At(s, s.domain[j])

BandsFit(s) ==
    ~s.grown =>
        /\ \A x \in ToSet(s.domain) : 0 <= At(s, x) /\ At(s, x) + s.rangeBand <= s.ranger.x
        /\ \A i, j \in DOMAIN s.domain :
              i < j => At(s, s.domain[i]) + s.rangeBand <= At(s, s.domain[j])

ValuesAreToldApart ==
    \A k \in DOMAIN scales :
        CASE scales[k].ranger.t = "range" -> ColoursDiffer(scales[k])
          [] scales[k].ranger.t \in {"rangeBands", "rangeRoundBands"} -> BandsFit(scales[k])
          [] OTHER -> TRUE
=============================================================================
