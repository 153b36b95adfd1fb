------------------------- MODULE MC_NumericSummary -------------------------
(***************************************************************************)
(* Model values for NumericSummary.                                        *)
(***************************************************************************)
EXTENDS NumericSummary

\* NaN, both infinities, and a negative, a zero and a positive finite value
\* whose reprs have different lengths.
MC_FloatValues ==
    {[kind |-> "nan", v |-> 0], [kind |-> "inf", v |-> -1], [kind |-> "inf", v |-> 1],
     Fin(-12), Fin(0), Fin(3)}

MC_IntValues == {Fin(-12), Fin(0), Fin(3)}
=============================================================================
