--------------------------- MODULE LineAnnotator ---------------------------
(***************************************************************************)
(* _annotate_ndarray_lines (tensor_data.py): one pass over the lines of    *)
(* repr(tensor) that recovers, from bracket and comma counts alone, the    *)
(* coordinate each line begins with ("i0") or, for a line "...,", the      *)
(* coordinate where the omitted run begins ("omitted").                    *)
(*                                                                         *)
(* One step is one iteration of the for-loop.  The inputs (the lines, the  *)
(* shape and the edge_items the function was given) are variables owned   *)
(* by the caller and never changed here.  Line numbers are 1-based:        *)
(* annotation key k is Python's offset + k - 1 with offset = 0.            *)
(***************************************************************************)
EXTENDS Naturals, Sequences, TLC, NumpyRepr

VARIABLES
    arrayLines,   \* array_lines: the renderer's lines (input)
    dims,         \* np.shape(tensor) (input)
    edgeItems,    \* edge_items: np_printoptions["edgeitems"] or 3 (input)
    ai,           \* the loop index i, 1-based
    currIndices,  \* curr_indices
    currDim,      \* curr_dim
    annotations   \* the int keys of the returned dict

annotatorVars == <<ai, currIndices, currDim, annotations>>

BeginIndices(idx) == [key |-> "i0", idx |-> idx]
Omitted(idx)      == [key |-> "omitted", idx |-> idx]

\* 1-based position of Python index k into a list of length Len(dims);
\* a negative k counts from the end as in Python.
PyIdx(k) == IF k < 0 THEN Len(dims) + k + 1 ELSE k + 1

\* line[line.rfind("[") + 1:].count(","): on a line without "]" every word,
\* "...," included, is followed by a comma.
CommasAfterLastBracket(l) == Len(l.items)

AnnotateInit ==
    /\ ai = 1
    /\ currIndices = Zeros(Len(dims))
    /\ currDim = 0
    /\ annotations = [k \in {} |-> BeginIndices(<<>>)]

\* The function has returned: at once for a 0-d tensor, else after the loop.
AnnotateDone == Len(dims) = 0 \/ ai > Len(arrayLines)

\* if not line: continue
AnnotateBlank ==
    /\ ~AnnotateDone
    /\ IsBlank(arrayLines[ai])
    /\ ai' = ai + 1
    /\ UNCHANGED <<currIndices, currDim, annotations>>

\* Mutant: the omitted run is recorded but the coordinate is not resumed.
AnnotateOmissionNoResume ==
    /\ ~AnnotateDone
    /\ IsOmissionText(arrayLines[ai])
    /\ annotations' = annotations @@ (ai :> Omitted(currIndices))
    /\ ai' = ai + 1
    /\ UNCHANGED <<currIndices, currDim>>

\* if line == _NUMPY_OMISSION: record the coordinate, then resume the
\* enclosing dimension at dims[curr_dim - 1] - edge_items.
AnnotateOmission ==
    /\ ~AnnotateDone
    /\ IsOmissionText(arrayLines[ai])
    /\ annotations' = annotations @@ (ai :> Omitted(currIndices))
    /\ currIndices' = [currIndices EXCEPT ![PyIdx(currDim - 1)] =
                           dims[PyIdx(currDim - 1)] - edgeItems]
    /\ ai' = ai + 1
    /\ UNCHANGED currDim

\* Mutant: curr_dim counts opening brackets only.
AnnotateElementsOpenOnly ==
    /\ ~AnnotateDone
    /\ ~IsBlank(arrayLines[ai])
    /\ ~IsOmissionText(arrayLines[ai])
    /\ LET l  == arrayLines[ai]
           cd == currDim + l.lb
       IN  /\ currDim' = cd
           /\ annotations' = annotations @@ (ai :> BeginIndices(currIndices))
           /\ currIndices' =
                IF l.rb = 0
                THEN [currIndices EXCEPT ![PyIdx(cd - 1)] =
                          @ + CommasAfterLastBracket(l)]
                ELSE IF cd > 0
                THEN [k \in DOMAIN currIndices |->
                        IF k = cd THEN currIndices[k] + 1
                        ELSE IF k > cd THEN 0 ELSE currIndices[k]]
                ELSE currIndices
    /\ ai' = ai + 1

\* Any other line: curr_dim += #"[" - #"]"; record the coordinate; a line
\* without "]" advances the innermost open dimension by its comma count, a
\* line with "]" moves to the next entry of the dimension left open and
\* resets the dimensions inside it.
AnnotateElements ==
    /\ ~AnnotateDone
    /\ ~IsBlank(arrayLines[ai])
    /\ ~IsOmissionText(arrayLines[ai])
    /\ LET l  == arrayLines[ai]
           cd == currDim + l.lb - l.rb
       IN  /\ currDim' = cd
           /\ annotations' = annotations @@ (ai :> BeginIndices(currIndices))
           /\ currIndices' =
                IF l.rb = 0
                THEN [currIndices EXCEPT ![PyIdx(cd - 1)] =
                          @ + CommasAfterLastBracket(l)]
                ELSE IF cd > 0
                THEN [k \in DOMAIN currIndices |->
                        IF k = cd THEN currIndices[k] + 1
                        ELSE IF k > cd THEN 0 ELSE currIndices[k]]
                ELSE currIndices
    /\ ai' = ai + 1

AnnotateStep == AnnotateBlank \/ AnnotateOmission \/ AnnotateElements
=============================================================================
