------------------------- MODULE MC_TensorFormatter -------------------------
(***************************************************************************)
(* Model values for TensorFormatter.  Each run's cfg picks one of the      *)
(* input families below.                                                   *)
(***************************************************************************)
EXTENDS TensorFormatter

\* Float tensors: a 1-d row, two 2-d arrays (the 3x3 one summarised has an
\* omitted row and rows with an omission), a 3-d array (blank separator
\* lines), and a 0-d scalar.
MC_FloatShapes == {<<>>, <<5>>, <<2, 3>>, <<3, 1, 2>>, <<3, 3>>}

\* Options that always name edgeitems, so that the annotator's edge_items
\* agrees with the renderer's: summarised and unwrapped, or not summarised
\* and wrapped two words to a line.
MC_ConsistentOptions ==
    { [edgeitems |-> 1, threshold |-> 0, linewidth |-> 8],
      [edgeitems |-> 1, threshold |-> 1000, linewidth |-> 2] }

\* A call that names edgeitems, then calls that pass np_printoptions=None
\* or options without edgeitems: numpy keeps the earlier edgeitems.
MC_StaleOptions ==
    { None,
      [edgeitems |-> 1, threshold |-> 0, linewidth |-> 8],
      [threshold |-> 0] }

\* Summarised rows wrapped over lines: "[0., 1., ...," then "4.]".
MC_WrappedSummaryOptions ==
    { [edgeitems |-> 1, threshold |-> 0, linewidth |-> 2] }

\* An integer tensor holding np.arange(12): values below 10 print with one
\* digit.
MC_IntShapes == {<<2, 6>>}

\* The float shapes and the integer one, for runs over both dtypes.
MC_MixedShapes == MC_FloatShapes \cup MC_IntShapes


\* Shapes at the edges, a 0-d scalar and tensors with no elements, and a
\* 2x3 tensor (of strings, when the dtype is string).
MC_EdgeShapes == {<<>>, <<0>>, <<2, 0>>, <<2, 3>>}
=============================================================================
