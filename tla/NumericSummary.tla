--------------------------- MODULE NumericSummary ---------------------------
(***************************************************************************)
(* numeric_summary (tensor_data.py) and its table builder _counts_summary. *)
(*                                                                         *)
(* A tensor is a bag of element values: a value is NaN, an infinity with a *)
(* sign, or a finite number v.  numpy's predicates are defined on it as    *)
(* numpy evaluates them (every comparison with NaN is False), and np.sum   *)
(* of a mask is the number of elements it holds for.                       *)
(*                                                                         *)
(* Text is kept to what the table's layout depends on: a string is its     *)
(* length.  A row of a table is the sequence of the widths of its printed  *)
(* pieces: "|", one right-justified column per entry, " |", and with a     *)
(* total the "total" column and " |".  The mean and the standard deviation *)
(* are printed by numpy's float repr, whose length is a choice among       *)
(* StatLens.                                                               *)
(***************************************************************************)
EXTENDS Integers, Sequences, FiniteSets, Bags, FiniteSetsExt, SequencesExt

CONSTANTS
    None,
    Dtypes,       \* subset of {"float", "complex", "int", "bool", "string",
                  \* "other"}; "other" is a value that is not an ndarray
    FloatValues,  \* element values of float and complex tensors
    IntValues,    \* element values of int and string tensors
    Mults,        \* multiplicities an element value may have in a tensor
    StatLens      \* lengths numpy's repr of a mean or a std may have

VARIABLES
    dtype,    \* dtype of the tensor passed in
    tensor,   \* its elements, a bag of values
    summary   \* what the call returned or raised, None before it returns

vars == <<dtype, tensor, summary>>

Fin(x) == [kind |-> "fin", v |-> x]

BoolValues == {Fin(0), Fin(1)}

\* np.isnan, np.isneginf, np.isposinf, np.isinf, and the comparisons with
\* 0.0, element-wise.
IsNan(e)    == e.kind = "nan"
IsNegInf(e) == e.kind = "inf" /\ e.v < 0
IsPosInf(e) == e.kind = "inf" /\ e.v > 0
IsInf(e)    == e.kind = "inf"
Less0(e)    == e.kind # "nan" /\ e.v < 0
Eq0(e)      == e.kind # "nan" /\ e.v = 0
Greater0(e) == e.kind # "nan" /\ e.v > 0

\* np.sum(mask) over the tensor t, m the values the mask holds for.
NpSum(t, m) == MapThenSumSet(LAMBDA e : t[e], m)

\* The tensors of dtype dt: every value of the dtype with a multiplicity
\* from Mults (0 leaves it out).
ValuesOf(dt) ==
    CASE dt \in {"float", "complex"} -> FloatValues
      [] dt = "bool"                 -> BoolValues
      [] dt \in {"int", "string"}    -> IntValues
      [] OTHER                       -> {}
Tensors(dt) ==
    { [e \in {x \in ValuesOf(dt) : m[x] > 0} |-> m[e]] : m \in [ValuesOf(dt) -> Mults] }

\* len(str(n)) of an integer.
RECURSIVE Digits(_)
Digits(n) == IF n < 10 THEN 1 ELSE 1 + Digits(n \div 10)
IntLen(x) == IF x < 0 THEN 1 + Digits(-x) ELSE Digits(x)
\* str() of an integral float: "-12.0".
FloatLen(x) == IntLen(x) + 2

LabelLen ==
    ("nan" :> 3) @@ ("-inf" :> 4) @@ ("-" :> 1) @@ ("0" :> 1) @@ ("+" :> 1)
    @@ ("+inf" :> 4) @@ ("False" :> 5) @@ ("True" :> 4) @@ ("total" :> 5)
    @@ ("min" :> 3) @@ ("max" :> 3) @@ ("mean" :> 4) @@ ("std" :> 3)

\* An entry of a table: its label and its value (num is None for a
\* statistic, whose value the layout does not depend on).
Entry(label, num, len) == [label |-> label, num |-> num, len |-> len]
CountEntry(label, n) == Entry(label, n, Digits(n))

\* _pad_string_to_length: " " * (length - len(string)) + string; a negative
\* repeat count gives "".
PadLen(n, length) == IF length > n THEN length ELSE n

\* common_len taken from the label alone.
CommonLenKeyOnly(c) == LabelLen[c.label] + 1

\* common_len of one entry: the longer of label and value, plus one.
CommonLen(c) == Max({LabelLen[c.label] + 1, c.len + 1})

\* _counts_summary(counts, skip_zeros, total_count): the two rows.
CountsSummary(counts, skipZeros, total) ==
    LET cs  == IF skipZeros THEN SelectSeq(counts, LAMBDA c : c.num # 0) ELSE counts
        w   == Max({0} \cup {CommonLen(cs[k]) : k \in DOMAIN cs})
        tw  == Max({5 + 1, Digits(total)})
        tot(n) == IF total = None THEN <<>> ELSE <<PadLen(n, tw), 2>>
    IN  [entries |-> cs, total |-> total,
         keyLine |-> <<1>> \o [k \in DOMAIN cs |-> PadLen(LabelLen[cs[k].label], w)]
                     \o <<2>> \o tot(5),
         valLine |-> <<1>> \o [k \in DOMAIN cs |-> PadLen(cs[k].len, w)]
                     \o <<2>> \o tot(IF total = None THEN 0 ELSE Digits(total))]

\* The "-" mask without its exclusion of -inf.
CountsNegWithInf(t) ==
    << CountEntry("nan",  NpSum(t, {e \in DOMAIN t : IsNan(e)})),
       CountEntry("-inf", NpSum(t, {e \in DOMAIN t : IsNegInf(e)})),
       CountEntry("-",    NpSum(t, {e \in DOMAIN t : Less0(e)})),
       CountEntry("0",    NpSum(t, {e \in DOMAIN t : Eq0(e)})),
       CountEntry("+",    NpSum(t, {e \in DOMAIN t : Greater0(e) /\ ~IsPosInf(e)})),
       CountEntry("+inf", NpSum(t, {e \in DOMAIN t : IsPosInf(e)})) >>

\* The six counts of a float or int tensor, in the order of the code.
Counts(t) ==
    << CountEntry("nan",  NpSum(t, {e \in DOMAIN t : IsNan(e)})),
       CountEntry("-inf", NpSum(t, {e \in DOMAIN t : IsNegInf(e)})),
       CountEntry("-",    NpSum(t, {e \in DOMAIN t : Less0(e) /\ ~IsNegInf(e)})),
       CountEntry("0",    NpSum(t, {e \in DOMAIN t : Eq0(e)})),
       CountEntry("+",    NpSum(t, {e \in DOMAIN t : Greater0(e) /\ ~IsPosInf(e)})),
       CountEntry("+inf", NpSum(t, {e \in DOMAIN t : IsPosInf(e)})) >>

\* min, max, mean and std of the finite, non-NaN elements.
Stats(dt, valid, ml, sl) ==
    LET len(x) == IF dt = "int" THEN IntLen(x) ELSE FloatLen(x)
    IN  << Entry("min", None, len(Min({e.v : e \in valid}))),
           Entry("max", None, len(Max({e.v : e \in valid}))),
           Entry("mean", None, ml), Entry("std", None, sl) >>

\* numeric_summary(tensor).  A complex tensor raises: np.isneginf is
\* np.signbit of the infinite elements, and signbit has no complex loop.
NumericSummary(dt, t, ml, sl) ==
    LET valid == {e \in DOMAIN t : ~IsInf(e) /\ ~IsNan(e)}
        size  == BagCardinality(t)
    IN
    CASE dt = "other" \/ size = 0 -> [kind |-> "notice"]
      [] dt = "complex"           -> [kind |-> "raise", exc |-> "TypeError"]
      [] dt \in {"float", "int"}  ->
           [kind |-> "tables",
            tables |-> <<CountsSummary(Counts(t), TRUE, size)>>
                       \o (IF valid # {}
                           THEN <<CountsSummary(Stats(dt, valid, ml, sl), FALSE, None)>>
                           ELSE <<>>)]
      [] dt = "bool" ->
           [kind |-> "tables",
            tables |-> <<CountsSummary(<< CountEntry("False", NpSum(t, {e \in DOMAIN t : Eq0(e)})),
                                          CountEntry("True", NpSum(t, {e \in DOMAIN t : Greater0(e)})) >>,
                                       TRUE, size)>>]
      [] OTHER -> [kind |-> "notice"]

\* The argument of one call: any tensor of any dtype.
Init ==
    /\ dtype \in Dtypes
    /\ tensor \in Tensors(dtype)
    /\ summary = None

\* The call, from format_tensor(..., include_numeric_summary=True); a value
\* that is not an ndarray has no elements here.
Summarize ==
    /\ summary = None
    /\ \E ml, sl \in StatLens : summary' = NumericSummary(dtype, tensor, ml, sl)
    /\ UNCHANGED <<dtype, tensor>>

Next == Summarize

Spec == Init /\ [][Next]_vars

-----------------------------------------------------------------------------
\* Numeric summary (spec 4.3, 8): the counts in the first table of a
\* summary, zero columns dropped, add up to its total column, and the total
\* is the number of elements: numpy's six masks (NaN, -inf, finite
\* negative, zero, finite positive, +inf; False and True for booleans)
\* count every element exactly once, NaN and the infinities included.
CountsPartition ==
    summary # None /\ summary.kind = "tables" =>
        LET tb == summary.tables[1]
        IN  /\ FoldSeq(LAMBDA c, acc : c.num + acc, 0, tb.entries) = tb.total
            /\ tb.total = BagCardinality(tensor)

\* Layout (_counts_summary): in every table the label row and the value row
\* break at the same columns, so each value stands right under its label;
\* this needs each column's common width to cover the value as well as the
\* label, and the total column's own width to cover both of its strings.
TablesAligned ==
    summary # None /\ summary.kind = "tables" =>
        \A k \in DOMAIN summary.tables :
            summary.tables[k].keyLine = summary.tables[k].valLine
=============================================================================
