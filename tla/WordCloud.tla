------------------------------- MODULE WordCloud ------------------------------
(***************************************************************************)
(* The word cloud layout (d3.layout.js): runs that place one word after    *)
(* the other, in steps of an interval timer, beside or on top of none that *)
(* is placed already.  The listener of an event "word" may stop the        *)
(* layout, or start it again, in the middle of a step.                     *)
(*                                                                         *)
(* Pixels of words are sets of <<column, row>>.  The board, an array of    *)
(* integers of Bits bits, is the set of the <<index, bit>> that are set,   *)
(* the leftmost bit being 0.  The spiral is any sequence of positions, the *)
(* order of words of one size any order; rotation is left out.             *)
(***************************************************************************)
EXTENDS Integers, FiniteSetsExt, SequencesExt

CONSTANTS
    Words,        \* the words of the layout
    Style,        \* of every text: its size, its cells (of Bits pixels), its image
    TextsOf,      \* what the accessors may return: sets of functions of the words
    Bits,         \* 32
    Width, Height,               \* size
    CanvasCells, CanvasHeight,   \* cw, ch
    Positions,    \* the positions that a spiral reaches
    MaxStarts,    \* bound: calls of start
    Absent          \* no timer, no sprite, no bounds

ASSUME CloudAssumption ==
    /\ Bits \in Nat \ {0} /\ Width \in Nat /\ Height \in Nat /\ MaxStarts \in Nat
    /\ CanvasCells \in Nat /\ CanvasHeight \in Nat /\ IsFiniteSet(Words)
    /\ \A t \in DOMAIN Style : Style[t].size \in Nat /\ Style[t].cells \in Nat
    /\ TextsOf \subseteq [Words -> DOMAIN Style] /\ Positions \subseteq Int \X Int
    /\ Absent \notin Nat \cup [left : Int, right : Int, top : Int, bottom : Int]

VARIABLES
    words,   \* of every word: its text, and what cloudSprite has found of it
    timer,   \* the run whose step the interval calls
    steps,   \* the steps that run, the innermost last
    runs,    \* of the runs: data, i, board, bounds, and history: tags, fate
    starts,  \* bound: calls of start
    yields,  \* timeInterval is finite
    nested   \* history: start was called by a listener

cloudVars == <<words, timer, steps, runs, starts, yields, nested>>

CloudInit ==
    /\ words = [d \in Words |-> [text |-> Absent, sprite |-> Absent, hasText |-> FALSE]]
    /\ timer = Absent /\ steps = <<>> /\ runs = <<>> /\ starts = 0
    /\ yields \in BOOLEAN /\ nested = FALSE

PageRuns == IF steps = <<>> THEN TRUE ELSE Last(steps).inside

-----------------------------------------------------------------------------
\* Sprites.

W(text) == Style[text].cells * Bits
H(text) == 2 * Style[text].size

\* Where texts are drawn on the canvas, in rows, until one does not fit.
Packed(texts) ==
    FoldLeft(LAMBDA c, t :
        LET high == Max({c.high, H(t)})
            row  == c.x + W(t) >= CanvasCells * Bits
            x    == IF row THEN 0 ELSE c.x
            y    == IF row THEN c.y + high ELSE c.y
        IN  IF c.full \/ y + H(t) >= CanvasHeight THEN [c EXCEPT !.full = TRUE]
            ELSE [c EXCEPT !.x = x + W(t), !.y = y, !.high = IF row THEN 0 ELSE high, !.at = Append(@, <<x, y>>)],
        [x |-> 0, y |-> 0, high |-> 0, full |-> FALSE, at |-> <<>>], texts).at

\* The part of cloudSprite that reads a word from the canvas: blank rows on top are
\* left out, and so is the last row.
Read(word, canvas) ==
    LET h   == word.y1 - word.y0
        row == 0 .. word.width - 1
        set(i, j) == <<word.xoff + i, word.yoff + j>> \in canvas
        top == Min({j \in 0 .. h - 1 : \E i \in row : set(i, j)} \cup {h})
    IN  [word EXCEPT !.y0 = @ + top, !.y1 = @ - 1,
                     !.sprite = {c \in row \X (0 .. h - top - 2) : set(c[1], top + c[2])}]

\* cloudSprite: all words from the i-th on that fit on the canvas are drawn, and all
\* before them that were ever drawn are read again.
Sprites(ws, data, i) ==
    LET rest == SubSeq(data, i, Len(data))
        at   == Packed([k \in DOMAIN rest |-> ws[rest[k]].text])
        last == i + Len(at) - 1
        canvas == UNION {{<<at[k][1] + p[1], at[k][2] + p[2]>> : p \in Style[ws[rest[k]].text].image} : k \in DOMAIN at}
        drawn == [d \in Words |->
            IF \E k \in DOMAIN at : rest[k] = d
            THEN LET k == SelectInSeq(rest, LAMBDA x : x = d)
                     t == ws[d].text
                 IN  [text |-> t, sprite |-> ws[d].sprite, hasText |-> TRUE, width |-> W(t),
                      xoff |-> at[k][1], yoff |-> at[k][2], y0 |-> -(H(t) \div 2), y1 |-> H(t) \div 2]
            ELSE ws[d]]
    IN  IF ws[data[i]].sprite # Absent THEN ws
        ELSE [d \in Words |-> IF drawn[d].hasText /\ \E k \in 1 .. last : data[k] = d
                              THEN Read(drawn[d], canvas) ELSE drawn[d]]

-----------------------------------------------------------------------------
\* Places.

Left(word, p)  == p[1] - word.width \div 2
Right(word, p) == p[1] + word.width \div 2

\* Mutant: bits that are shifted out of an integer are not carried to the next.
MaskCut(word, p) ==
    LET sw == Width \div Bits
        sx == (Left(word, p) % (4 * Bits)) % Bits
        at(c) == (p[2] + word.y0 + c[2]) * sw + Left(word, p) \div Bits + c[1] \div Bits
    IN  {<<at(c), (c[1] % Bits) + sx>> : c \in {s \in word.sprite : (s[1] % Bits) + sx < Bits}}

\* The bits of the board that a word at p takes.  The shifts of JavaScript are modulo
\* the width of integers: where sx is a multiple of it, msx shifts by nothing, and
\* every integer is also taken once more, one further to the right.
Mask(word, p) ==
    LET sw  == Width \div Bits
        sx  == (Left(word, p) % (4 * Bits)) % Bits
        msx == (Bits - (Left(word, p) % (4 * Bits))) % Bits
        at(c) == (p[2] + word.y0 + c[2]) * sw + Left(word, p) \div Bits + c[1] \div Bits
    IN  {<<at(c), (c[1] % Bits) + sx>> : c \in {s \in word.sprite : (s[1] % Bits) + sx < Bits}}
        \cup {<<at(c) + 1, (c[1] % Bits) - msx>> : c \in {s \in word.sprite : s[1] % Bits >= msx}}

\* cloudCollide and collideRects.
Collides(word, p, board) == Mask(word, p) \cap board # {}

Touches(word, p, b) ==
    /\ Right(word, p) > b.left /\ Left(word, p) < b.right
    /\ p[2] + word.y1 > b.top /\ p[2] + word.y0 < b.bottom

\* place: where a word may be put.
FreePlaces(word, run) ==
    {p \in Positions :
        /\ Left(word, p) >= 0 /\ p[2] + word.y0 >= 0
        /\ Right(word, p) <= Width /\ p[2] + word.y1 <= Height
        /\ run.bounds # Absent => ~Collides(word, p, run.board) /\ Touches(word, p, run.bounds)}

Rect(word, p) ==
    [left |-> Left(word, p), right |-> Right(word, p), top |-> p[2] + word.y0, bottom |-> p[2] + word.y1]

\* cloudBounds.
Bounds(b, r) ==
    IF b = Absent THEN r
    ELSE [left |-> Min({b.left, r.left}), right |-> Max({b.right, r.right}),
          top |-> Min({b.top, r.top}), bottom |-> Max({b.bottom, r.bottom})]

\* Where a word was placed, and what it covers.
Tag(word, p) ==
    [rect |-> Rect(word, p),
     pixels |-> {<<Left(word, p) + c[1], p[2] + word.y0 + c[2]>> : c \in word.sprite}]

-----------------------------------------------------------------------------
\* start, stop, and steps.

Descending(data, texts) ==
    \A j \in 1 .. Len(data) - 1 : Style[texts[data[j]]].size >= Style[texts[data[j + 1]]].size

Over(fate) == [r \in DOMAIN runs |-> IF runs[r].fate = "on" THEN [runs[r] EXCEPT !.fate = fate] ELSE runs[r]]

\* Mutant: an interval that is there is left.
StartBeside(texts) ==
    /\ PageRuns /\ starts < MaxStarts
    /\ starts' = starts + 1 /\ timer' = IF timer = Absent THEN starts' ELSE timer
    /\ nested' = (nested \/ steps # <<>>)
    /\ words' = [d \in Words |-> [words[d] EXCEPT !.text = texts[d]]]
    /\ \E data \in SetToSeqs(Words) :
          /\ Descending(data, texts)
          /\ runs' = [r \in {s.run : s \in ToSet(steps)} \cup {starts'} \cup (DOMAIN runs \cap {timer}) |->
                         IF r = starts' THEN [data |-> data, i |-> 0, board |-> {}, bounds |-> Absent,
                                              tags |-> <<>>, fate |-> "on"]
                         ELSE Over("stopped")[r]]
    /\ steps' = Append(steps, [run |-> starts', inside |-> FALSE, fresh |-> TRUE])
    /\ UNCHANGED yields

\* start: a new run, whose first step is called at once.  Runs that no step is left of
\* are forgotten.
Start(texts) ==
    /\ PageRuns /\ starts < MaxStarts
    /\ starts' = starts + 1 /\ timer' = starts'
    /\ nested' = (nested \/ steps # <<>>)
    /\ words' = [d \in Words |-> [words[d] EXCEPT !.text = texts[d]]]
    /\ \E data \in SetToSeqs(Words) :
          /\ Descending(data, texts)
          /\ runs' = [r \in {s.run : s \in ToSet(steps)} \cup {starts'} |->
                         IF r = starts' THEN [data |-> data, i |-> 0, board |-> {}, bounds |-> Absent,
                                              tags |-> <<>>, fate |-> "on"]
                         ELSE Over("stopped")[r]]
    /\ steps' = Append(steps, [run |-> starts', inside |-> FALSE, fresh |-> TRUE])
    /\ UNCHANGED yields

Stop ==
    /\ PageRuns /\ timer # Absent
    /\ timer' = Absent /\ runs' = Over("stopped")
    /\ UNCHANGED <<words, steps, starts, yields, nested>>

\* The interval calls step.
Interval ==
    /\ steps = <<>> /\ timer # Absent
    /\ steps' = <<[run |-> timer, inside |-> FALSE, fresh |-> TRUE]>>
    /\ UNCHANGED <<words, timer, runs, starts, yields, nested>>

Top == Last(steps)
Run == runs[Top.run]
MayGoOn == Run.i < Len(Run.data) /\ timer # Absent

\* The time of the step is over.  It is not when the step has just begun.
Yield ==
    /\ ~PageRuns /\ yields
    /\ ~Top.fresh
    /\ steps' = Front(steps)
    /\ UNCHANGED <<words, timer, runs, starts, yields, nested>>

\* A word that has no text, or finds no place: a spiral may miss the places there are.
SkipWord ==
    /\ ~PageRuns /\ MayGoOn
    /\ words' = Sprites(words, Run.data, Run.i + 1)
    /\ runs' = [runs EXCEPT ![Top.run].i = @ + 1]
    /\ steps' = Append(Front(steps), [Top EXCEPT !.fresh = FALSE])
    /\ UNCHANGED <<timer, starts, yields, nested>>

\* A word that finds a place; the event "word" follows.
PlaceWord ==
    /\ ~PageRuns /\ MayGoOn
    /\ \E sprites \in {Sprites(words, Run.data, Run.i + 1)}, d \in {Run.data[Run.i + 1]} :
       \E word \in {sprites[d]} :
          /\ word.hasText /\ word.sprite # Absent
          /\ words' = [sprites EXCEPT ![d].sprite = Absent]
          /\ \E p \in FreePlaces(word, Run) :
                 runs' = [runs EXCEPT ![Top.run].i = @ + 1,
                                      ![Top.run].board = @ \cup Mask(word, p),
                                      ![Top.run].tags = Append(@, Tag(word, p))]
    /\ steps' = Append(Front(steps), [Top EXCEPT !.inside = TRUE, !.fresh = FALSE])
    /\ UNCHANGED <<timer, starts, yields, nested>>

\* A word that does not fit on the canvas any more, but was placed by a run before: it
\* has text and no sprite, and the step throws, with those that it is inside of.
PlaceThrows ==
    /\ ~PageRuns /\ MayGoOn
    /\ words' = Sprites(words, Run.data, Run.i + 1)
    /\ LET word == words'[Run.data[Run.i + 1]] IN word.hasText /\ word.sprite = Absent
    /\ runs' = [runs EXCEPT ![Top.run].i = @ + 1]
    /\ steps' = <<>>
    /\ UNCHANGED <<timer, starts, yields, nested>>

\* The listener returns; the bounds are updated.
WordPlaced ==
    /\ steps # <<>> /\ Last(steps).inside
    /\ steps' = Append(Front(steps), [Top EXCEPT !.inside = FALSE])
    /\ runs' = [runs EXCEPT ![Top.run].bounds = Bounds(@, Last(Run.tags).rect)]
    /\ UNCHANGED <<words, timer, starts, yields, nested>>

\* The loop is left.  After the last word the layout is stopped, whose timer it may be,
\* and the event "end" follows.
Leave ==
    /\ ~PageRuns /\ ~MayGoOn
    /\ steps' = Front(steps)
    /\ IF Run.i < Len(Run.data) THEN UNCHANGED <<timer, runs>>
       ELSE timer' = Absent /\ runs' = [runs EXCEPT ![Top.run].fate = "ended"]
    /\ UNCHANGED <<words, starts, yields, nested>>

\* Start called by a listener when steps may give up: not looked at.
Clobbered == nested /\ yields

CloudNext ==
    /\ ~Clobbered
    /\ \/ Interval \/ SkipWord \/ PlaceWord \/ PlaceThrows \/ WordPlaced \/ Leave
       \/ Yield \/ Stop \/ \E texts \in TextsOf : Start(texts)

CloudSpec == CloudInit /\ [][CloudNext]_cloudVars

-----------------------------------------------------------------------------
(***************************************************************************)
(* No two words of a cloud cover the same pixel, wherever they lie in the  *)
(* integers of the board, also in the last columns when the width is not a *)
(* multiple of their bits (d3.layout.js:106-125, 306-325).                 *)
(***************************************************************************)
WordsAreDisjoint ==
    \A r \in DOMAIN runs : \A j, k \in DOMAIN runs[r].tags :
        j # k => runs[r].tags[j].pixels \cap runs[r].tags[k].pixels = {}

(***************************************************************************)
(* A run that has not come to its event "end", was not stopped, and was    *)
(* not replaced by another start, goes on: its step is running, or its     *)
(* interval is set, also when a step threw, and when start was called by a *)
(* listener.  The exception is that call when steps may give up: there a   *)
(* run that should be over stops the interval of the new one               *)
(* (d3.layout.js:37-66).                                                   *)
(***************************************************************************)
CloudGoesOn ==
    ~Clobbered => \A r \in DOMAIN runs :
        runs[r].fate = "on" => timer = r \/ \E s \in ToSet(steps) : s.run = r
=============================================================================
