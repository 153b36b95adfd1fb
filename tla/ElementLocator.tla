--------------------------- MODULE ElementLocator ---------------------------
(***************************************************************************)
(* locate_tensor_element, _validate_indices_list and                       *)
(* _locate_elements_in_line (tensor_data.py), called with a batch.         *)
(*                                                                         *)
(* One step is one iteration of the sweep over the buffer's lines; the     *)
(* batch is resolved window by window: the queries in                      *)
(* [prev_indices, annot[i]) are looked up on the previous annotated line.  *)
(* A column is abstracted to the ordinal of the _NUMBER_REGEX match that   *)
(* starts it (distinct matches start at distinct columns, in order).       *)
(***************************************************************************)
EXTENDS Naturals, Sequences, NumpyRepr

CONSTANT None   \* Python's None

VARIABLES
    bufLines,     \* formatted.lines (input)
    bufAnnot,     \* the int keys of formatted.annotations (input)
    hasMetadata,  \* "tensor_metadata" in formatted.annotations (input)
    dims,         \* annotations["tensor_metadata"]["shape"] (input)
    opt,          \* how the array was printed: decides which words match
    query,        \* indices_list (input)
    li,           \* the loop index i, 1-based
    prevR,        \* prev_r
    prevLine,     \* prev_line
    prevIndices,  \* prev_indices
    batchPos,     \* batch_pos
    results,      \* zip(are_omitted, row_indices, start_columns)
    lstatus       \* "validate", "sweep", "done" or the exception raised

locatorVars == <<li, prevR, prevLine, prevIndices, batchPos, results, lstatus>>

\* prev_line = "": no words, no matches.
EmptyLine == [lb |-> 0, rb |-> 0, items |-> <<>>, first |-> <<>>, suffix |-> 0]

NoResult == [omitted |-> None, row |-> None, col |-> None]

LocateInit ==
    /\ li = 1
    /\ prevR = 1
    /\ prevLine = EmptyLine
    /\ prevIndices = Zeros(Len(dims))
    /\ batchPos = 1
    /\ results = [j \in DOMAIN query |-> NoResult]
    /\ lstatus = "validate"

\* _validate_indices_list: rank, bounds, ascending order (equal allowed).
ValidQuery ==
    /\ \A j \in DOMAIN query : Len(query[j]) = Len(dims)
    /\ \A j \in DOMAIN query : \A d \in DOMAIN dims :
          query[j][d] >= 0 /\ query[j][d] < dims[d]
    /\ \A j \in DOMAIN query : j > 1 /\ Len(dims) > 0 =>
          ~LexLess(query[j], query[j - 1])

LocateValidate ==
    /\ lstatus = "validate"
    /\ lstatus' = CASE ~hasMetadata -> "AttributeError"
                    [] ~ValidQuery  -> "ValueError"
                    [] OTHER        -> "sweep"
    /\ UNCHANGED <<li, prevR, prevLine, prevIndices, batchPos, results>>

\* Mutant: the scan does not stop at the ellipsis.
BeforeEllipsisUncut(ws) == ws

\* The words of a line up to its first "...,": matches starting after
\* line.find(_NUMPY_OMISSION) are never examined.
BeforeEllipsis(ws) ==
    IF \E k \in DOMAIN ws : ws[k] = Ellipsis
    THEN SubSeq(ws, 1, (CHOOSE k \in DOMAIN ws :
                           ws[k] = Ellipsis /\ \A m \in 1..(k - 1) : ws[m] # Ellipsis) - 1)
    ELSE ws

\* Number of matches the loop of _locate_elements_in_line may examine: the
\* matched words before the ellipsis, and, on a line without one, the
\* matches in any text appended after the array words (l.suffix).
MatchesBeforeEllipsis(l) ==
    IF \E k \in DOMAIN l.items : l.items[k] = Ellipsis
    THEN Len(NumberTokens(BeforeEllipsis(l.items), opt))
    ELSE Len(NumberTokens(l.items, opt)) + l.suffix

\* _locate_elements_in_line(line, ms, ref): the j-th query takes the match
\* whose ordinal equals its offset ms[j][-1] - ref[-1], scanning matches
\* once, left to right, and advancing to query j+1 only after query j hit.
LocateElementsInLine(l, ms, ref) ==
    LET offset(j) == ms[j][Len(ms[j])] - ref[Len(ref)]
        hit(j)    == \A k \in 1..j :
                       /\ 0 <= offset(k)
                       /\ offset(k) < MatchesBeforeEllipsis(l)
                       /\ k > 1 => offset(k - 1) < offset(k)
    IN  [j \in DOMAIN ms |-> IF hit(j) THEN offset(j) ELSE None]

\* Mutant: the results record the row being visited, not prev_r.
StoreResultsRowI(ms, omitted) ==
    LET cols == LocateElementsInLine(prevLine, ms, prevIndices)
    IN  [j \in DOMAIN results |->
           IF j >= batchPos /\ j < batchPos + Len(ms)
           THEN [omitted |-> omitted, row |-> li, col |-> cols[j - batchPos + 1]]
           ELSE results[j]]

\* Store the results of the matching queries in the slots from batch_pos on.
StoreResults(ms, omitted) ==
    LET cols == LocateElementsInLine(prevLine, ms, prevIndices)
    IN  [j \in DOMAIN results |->
           IF j >= batchPos /\ j < batchPos + Len(ms)
           THEN [omitted |-> omitted, row |-> prevR, col |-> cols[j - batchPos + 1]]
           ELSE results[j]]

\* Mutant: the window excludes its lower bound.
InWindowOpenLow(q, lo, hi) == LexLess(lo, q) /\ LexLess(q, hi)

\* prev_indices <= ind < annot[i][indices_key]
InWindow(q, lo, hi) == LexLeq(lo, q) /\ LexLess(q, hi)

\* The line is not annotated: continue.
LocateSkipLine ==
    /\ lstatus = "sweep"
    /\ li <= Len(bufLines)
    /\ li \notin DOMAIN bufAnnot
    /\ li' = li + 1
    /\ UNCHANGED <<prevR, prevLine, prevIndices, batchPos, results, lstatus>>

\* An annotated line: resolve the remaining queries in
\* [prev_indices, annot[i]) on the previous annotated line, then make this
\* line the previous one.  annot[prev_r] raises KeyError when prev_r is not
\* annotated; the sweep breaks once every query is resolved.
LocateAnnotatedLine ==
    /\ lstatus = "sweep"
    /\ li <= Len(bufLines)
    /\ li \in DOMAIN bufAnnot
    /\ LET idx == bufAnnot[li].idx
           ms  == SelectSeq(SubSeq(query, batchPos, Len(query)),
                            LAMBDA q : InWindow(q, prevIndices, idx))
       IN  IF ms = <<>>
           THEN /\ li' = li + 1
                /\ prevR' = li
                /\ prevLine' = bufLines[li]
                /\ prevIndices' = idx
                /\ UNCHANGED <<batchPos, results, lstatus>>
           ELSE IF prevR \notin DOMAIN bufAnnot
           THEN /\ lstatus' = "KeyError"
                /\ UNCHANGED <<li, prevR, prevLine, prevIndices, batchPos, results>>
           ELSE /\ results' = StoreResults(ms, bufAnnot[prevR].key = "omitted")
                /\ batchPos' = batchPos + Len(ms)
                /\ IF batchPos + Len(ms) > Len(query)
                   THEN /\ lstatus' = "done"
                        /\ UNCHANGED <<li, prevR, prevLine, prevIndices>>
                   ELSE /\ lstatus' = "sweep"
                        /\ li' = li + 1
                        /\ prevR' = li
                        /\ prevLine' = bufLines[li]
                        /\ prevIndices' = idx

\* After the sweep: the queries left are looked up on the last annotated
\* line.  For a 0-d tensor the offsets (indices[-1]) raise IndexError.
LocateTail ==
    /\ lstatus = "sweep"
    /\ li > Len(bufLines)
    /\ lstatus' =
         CASE batchPos > Len(query)          -> "done"
           [] Len(dims) = 0                  -> "IndexError"
           [] prevR \notin DOMAIN bufAnnot   -> "KeyError"
           [] OTHER                          -> "done"
    /\ results' =
         IF lstatus' = "done" /\ batchPos <= Len(query)
         THEN StoreResults(SubSeq(query, batchPos, Len(query)),
                           bufAnnot[prevR].key = "omitted")
         ELSE results
    /\ batchPos' = IF lstatus' = "done" THEN Len(query) + 1 ELSE batchPos
    /\ UNCHANGED <<li, prevR, prevLine, prevIndices>>

LocateStep == LocateValidate \/ LocateSkipLine \/ LocateAnnotatedLine \/ LocateTail

LocateFinished == lstatus \notin {"validate", "sweep"}
=============================================================================
