----------------------------- MODULE NumpyRepr -----------------------------
(***************************************************************************)
(* The environment of the tensor formatter: numpy's repr() of an ndarray,  *)
(* the "array renderer" of spec section 6.  It is not code of this         *)
(* repository; it is modelled from the renderer contract of spec 4.1/6 and *)
(* numpy's _formatArray layout, at the level of detail the annotator and   *)
(* the locator read from the text:                                         *)
(*                                                                         *)
(*   lb     number of "[" characters on the line                           *)
(*   rb     number of "]" characters on the line                           *)
(*   items  the words of the line, in order: element coordinates and the   *)
(*          word "..." (Ellipsis), each followed by ", " unless a "]"      *)
(*          closes the row after it                                        *)
(*   first  the coordinate the line stands for: the first element shown    *)
(*          on it, or for a line holding only "...," the first hidden      *)
(*          element.  Ground truth for the properties; no code reads it.   *)
(*                                                                         *)
(* A row (innermost dimension) is wrapped into lines of at most `width`    *)
(* words: numpy pads every element to one common width, so a line width    *)
(* is a number of words.  When `summarize` holds (the array is larger than *)
(* numpy's threshold) every dimension longer than 2*edge shows only its    *)
(* first and last `edge` entries around "...".                             *)
(***************************************************************************)
EXTENDS Naturals, Sequences, SequencesExt

\* The word "...".  No coordinate has a negative component.
Ellipsis == <<-1>>

\* Row-major flat position of coordinate c in an array of shape dims.
RECURSIVE Flat(_, _)
Flat(c, dims) ==
    IF c = <<>> THEN 0
    ELSE c[Len(c)] + dims[Len(dims)] * Flat(Front(c), Front(dims))

\* All coordinates of an array of shape dims.
RECURSIVE Coords(_)
Coords(dims) ==
    IF dims = <<>> THEN {<<>>}
    ELSE { Append(c, k) : c \in Coords(Front(dims)), k \in 0..(Last(dims) - 1) }

\* Python's list comparison on two coordinates of equal length.
LexLess(a, b) ==
    \E d \in DOMAIN a : /\ a[d] < b[d]
                        /\ \A e \in 1..(d - 1) : a[e] = b[e]
LexLeq(a, b) == a = b \/ LexLess(a, b)

\* The indices numpy shows along a dimension of length n; -1 is "...".
Shown(n, opt) ==
    IF opt.summarize /\ n > 2 * opt.edge
    THEN [k \in 1..opt.edge |-> k - 1] \o <<-1>>
           \o [k \in 1..opt.edge |-> n - opt.edge + k - 1]
    ELSE [k \in 1..n |-> k - 1]

Zeros(n) == [k \in 1..n |-> 0]

\* Open one more bracket on the first line of a block, close one on its last.
Bracket(ls) == [ls EXCEPT ![1].lb = @ + 1, ![Len(ls)].rb = @ + 1]

BlankLine == [lb |-> 0, rb |-> 0, items |-> <<>>, first |-> <<>>]

\* The row of prefix p, wrapped into lines of at most opt.width words.
RowLines(p, opt) ==
    LET idx   == Shown(opt.dims[Len(p) + 1], opt)
        words == [k \in DOMAIN idx |->
                    IF idx[k] = -1 THEN Ellipsis ELSE Append(p, idx[k])]
        n     == (Len(words) + opt.width - 1) \div opt.width
        chunk(k) == SubSeq(words, (k - 1) * opt.width + 1,
                           IF k * opt.width < Len(words) THEN k * opt.width
                                                          ELSE Len(words))
        elems(ws) == SelectSeq(ws, LAMBDA w : w # Ellipsis)
    IN  [k \in 1..n |->
           [lb |-> 0, rb |-> 0, items |-> chunk(k),
            first |-> IF elems(chunk(k)) # <<>> THEN Head(elems(chunk(k)))
                      ELSE Append(p, opt.edge)]]

\* The lines of the sub-array with coordinate prefix p.  Between the entries
\* of dimension d numpy puts Len(dims) - d - 1 blank lines; an omitted run
\* of entries is a line "...," standing for the first hidden entry.
RECURSIVE Block(_, _)
Block(p, opt) ==
    LET d   == Len(p) + 1
        r   == Len(opt.dims)
        idx == Shown(opt.dims[d], opt)
        sep(k) == IF k < Len(idx) THEN [j \in 1..(r - d - 1) |-> BlankLine]
                  ELSE <<>>
        entry(k) ==
            IF idx[k] = -1
            THEN <<[lb |-> 0, rb |-> 0, items |-> <<Ellipsis>>,
                    first |-> Append(p, opt.edge) \o Zeros(r - d)]>>
            ELSE Block(Append(p, idx[k]), opt)
    IN  IF d = r THEN Bracket(RowLines(p, opt))
        ELSE Bracket(FlattenSeq([k \in DOMAIN idx |-> entry(k) \o sep(k)]))

\* repr(tensor).split("\n").  A 0-d array is one line "array(v)"; an array
\* with no elements is one line "array([], shape=..., dtype=...)".
Render(opt) ==
    CASE opt.dims = <<>>
           -> << [lb |-> 0, rb |-> 0, items |-> << <<>> >>, first |-> <<>>] >>
      [] \E d \in DOMAIN opt.dims : opt.dims[d] = 0
           -> << [lb |-> 1, rb |-> 1, items |-> <<>>, first |-> Zeros(Len(opt.dims))] >>
      [] OTHER -> Block(<<>>, opt)

IsBlank(l) == l.items = <<>> /\ l.lb = 0 /\ l.rb = 0

\* line.strip() == "...,"
IsOmissionText(l) == l.lb = 0 /\ l.rb = 0 /\ l.items = <<Ellipsis>>

\* Elements whose printed form _NUMBER_REGEX matches.  The regex needs two
\* characters before the separator ([0-9][-+0-9eE.]+), so an integer
\* printed with one digit ("5,", " 7]") is not matched; floats always print
\* a "." ("5.,") and nan/inf are matched literally.
\* A string array prints quoted words, never matched.
Lexable(c, opt) ==
    \/ opt.dtype = "float"
    \/ opt.dtype = "int" /\ Flat(c, opt.dims) >= 10

\* The coordinates of the matches of _NUMBER_REGEX in a sequence of words,
\* in order (re.finditer).  "...," is never matched.
NumberTokens(ws, opt) ==
    SelectSeq(ws, LAMBDA w : w # Ellipsis /\ Lexable(w, opt))

\* The coordinates shown anywhere in the rendering.
Displayed(ls) == UNION { Range(SelectSeq(l.items, LAMBDA w : w # Ellipsis))
                           : l \in Range(ls) }
=============================================================================
