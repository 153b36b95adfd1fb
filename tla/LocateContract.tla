--------------------------- MODULE LocateContract ---------------------------
(***************************************************************************)
(* What locate_tensor_element promises (spec 4.2), stated without the      *)
(* sweep: a call takes a batch and, in one step, either fails or returns   *)
(* for each coordinate the line that shows it, whether that line is an     *)
(* omission, and the column of the element's own number on that line.     *)
(*                                                                         *)
(*   row      the last annotated line whose coordinate does not exceed the *)
(*            query (lexicographic order);                                 *)
(*   omitted  that line's annotation is Omitted;                           *)
(*   col      the ordinal of the query's own element among the numbers     *)
(*            printed on that line before its "...", or None when it is    *)
(*            not among them.                                              *)
(*                                                                         *)
(* The buffer and the batch are inputs: they are not in cvars, so the      *)
(* caller may change them between calls.                                   *)
(***************************************************************************)
EXTENDS Naturals, Sequences, NumpyRepr

CONSTANT None

VARIABLES
    bufLines, bufAnnot, hasMetadata, dims, opt, query,  \* inputs
    pending,   \* a call is under way
    outcome,   \* "done", the error it failed with, or None before any call
    answer     \* one [omitted, row, col] per coordinate of the batch

cvars == <<pending, outcome, answer>>

Unresolved == [omitted |-> None, row |-> None, col |-> None]

\* Spec 4.2 preconditions: rank, bounds, not decreasing.
WellFormed ==
    /\ \A j \in DOMAIN query :
          /\ Len(query[j]) = Len(dims)
          /\ \A d \in DOMAIN dims : 0 <= query[j][d] /\ query[j][d] < dims[d]
    /\ \A j \in DOMAIN query : j > 1 => ~LexLess(query[j], query[j - 1])

RowOf(q) ==
    CHOOSE k \in DOMAIN bufAnnot :
        /\ LexLeq(bufAnnot[k].idx, q)
        /\ \A m \in DOMAIN bufAnnot : m > k => ~LexLeq(bufAnnot[m].idx, q)

\* The numbers printed on a line before its first "...".
VisibleNumbers(l) ==
    LET cut == {k \in DOMAIN l.items : l.items[k] = Ellipsis}
        n   == IF cut = {} THEN Len(l.items)
               ELSE (CHOOSE k \in cut : \A m \in cut : k <= m) - 1
    IN  NumberTokens(SubSeq(l.items, 1, n), opt)

ColOf(q) ==
    LET ts == VisibleNumbers(bufLines[RowOf(q)])
    IN  IF \E i \in DOMAIN ts : ts[i] = q
        THEN (CHOOSE i \in DOMAIN ts : ts[i] = q) - 1
        ELSE None

Located(q) ==
    [omitted |-> bufAnnot[RowOf(q)].key = "omitted", row |-> RowOf(q), col |-> ColOf(q)]

CInit ==
    /\ pending = FALSE
    /\ outcome = None
    /\ answer = <<>>

\* A call with the batch the caller has just set up.
Call ==
    /\ ~pending
    /\ pending' = TRUE
    /\ outcome' = None
    /\ answer' = [j \in DOMAIN query' |-> Unresolved]

\* The call returns or raises.  Without metadata, or for a malformed batch,
\* it fails; a 0-d tensor has no coordinate on any line (spec 4.6), so it
\* fails too; otherwise every coordinate is located.
Return ==
    /\ pending
    /\ pending' = FALSE
    /\ CASE ~hasMetadata -> outcome' = "AttributeError" /\ UNCHANGED answer
         [] ~WellFormed  -> outcome' = "ValueError" /\ UNCHANGED answer
         [] Len(dims) = 0 -> outcome' \notin {"done", None} /\ UNCHANGED answer
         [] OTHER ->
              /\ outcome' = "done"
              /\ answer' = [j \in DOMAIN query |-> Located(query[j])]

CSpec == CInit /\ [][Call \/ Return]_cvars
=============================================================================
