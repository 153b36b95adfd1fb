-------------------------- MODULE TensorFormatter --------------------------
(***************************************************************************)
(* format_tensor (tensor_data.py) composed with the Line Annotator and the *)
(* Element Locator, over a sequence of calls that share numpy's global     *)
(* print options (np.set_printoptions is process-wide and format_tensor    *)
(* never restores it).                                                     *)
(*                                                                         *)
(* A call is three steps of the composition: FormatBegin (everything up to *)
(* and including repr(tensor)), the annotator's loop, FormatHighlight      *)
(* (extend the buffer, append the highlight summary to line 0, start the   *)
(* locator), the locator's loop, and FormatApplyHighlights (add a "bold"   *)
(* range for every located element).                                       *)
(***************************************************************************)
EXTENDS Naturals, Sequences, FiniteSets, FiniteSetsExt, TLC, NumpyRepr

CONSTANTS
    None,           \* Python's None
    TensorKinds,    \* subset of {"ndarray", "inconvertible", "other"}
    Dtypes,         \* subset of {"float", "int", "string"}
    Shapes,         \* shapes of the tensors passed in (sequences of Nat)
    PrintOptions,   \* np_printoptions arguments: None or records over
                    \* some of edgeitems, threshold, linewidth
    Labels,         \* subset of BOOLEAN: is tensor_label given
    MetadataFlags,  \* subset of BOOLEAN: include_metadata
    ExtraLines,     \* lines added by auxiliary_message and numeric summary
    MaxHighlighted, \* at most this many elements satisfy a criterion
    MaxCalls        \* bound on the number of format_tensor calls

VARIABLES
    npOptions,      \* numpy's global print options
    calls,          \* number of format_tensor calls begun
    phase,          \* "idle", "annotate", "locate"
    tensorDtype,    \* dtype of the tensor of the current call
    criterion,      \* elements the highlight criterion selects, or None
    hdr,            \* number of lines before the array lines
    highlights,     \* font_attr_segs ranges added by highlighting
    raised,         \* exception that ended the last call, or None
    \* shared with LineAnnotator
    arrayLines, dims, edgeItems, ai, currIndices, currDim, annotations,
    \* shared with ElementLocator
    bufLines, bufAnnot, hasMetadata, opt, query,
    li, prevR, prevLine, prevIndices, batchPos, results, lstatus

A == INSTANCE LineAnnotator
L == INSTANCE ElementLocator

callVars == <<npOptions, calls, phase, tensorDtype, criterion, hdr, highlights, raised>>
inputVars == <<arrayLines, dims, edgeItems, bufLines, bufAnnot, hasMetadata, opt, query>>
annotatorVars == <<ai, currIndices, currDim, annotations>>
locatorVars == <<li, prevR, prevLine, prevIndices, batchPos, results, lstatus>>
vars == <<callVars, inputVars, annotatorVars, locatorVars>>

_NUMPY_DEFAULT_EDGE_ITEMS == 3

\* numpy's defaults; a linewidth of 75 holds every row of the shapes used.
NumpyDefaults == [edgeitems |-> 3, threshold |-> 1000, linewidth |-> 8]

\* np.set_printoptions(**o): only the options named in o change.
SetPrintOptions(g, o) ==
    [k \in DOMAIN g |-> IF k \in DOMAIN o THEN o[k] ELSE g[k]]

Size(ds) == IF ds = <<>> THEN 1 ELSE FoldSeq(LAMBDA x, y : x * y, 1, ds)

\* How repr(tensor) prints under global options g.
PrintFormat(ds, dt, g) ==
    [dims |-> ds, edge |-> g.edgeitems, summarize |-> Size(ds) > g.threshold,
     width |-> g.linewidth, dtype |-> dt]

\* A line of the buffer: the renderer's line plus the number of number
\* matches in text appended after its words.
BufferLine(l) == [lb |-> l.lb, rb |-> l.rb, items |-> l.items, first |-> l.first,
                  suffix |-> 0]
HeaderLine == L!EmptyLine

\* The criteria's results: np.argwhere lists them in row-major order.
Criteria(ds) == {None} \cup
    UNION { kSubset(k, Coords(ds)) : k \in 0..MaxHighlighted }

\* Matches of _NUMBER_REGEX in " Highlighted: K of N element(s) (P%)": a
\* count is matched when it has two digits or more; P never is ("%").
SummaryMatches(k, n) == (IF k >= 10 THEN 1 ELSE 0) + (IF n >= 10 THEN 1 ELSE 0)

Init ==
    /\ npOptions = NumpyDefaults
    /\ calls = 0
    /\ phase = "idle"
    /\ tensorDtype = "float"
    /\ criterion = None
    /\ hdr = 0
    /\ highlights = {}
    /\ raised = None
    /\ arrayLines = <<>> /\ dims = <<>> /\ edgeItems = _NUMPY_DEFAULT_EDGE_ITEMS
    /\ bufLines = <<>> /\ bufAnnot = [k \in {} |-> A!BeginIndices(<<>>)]
    /\ hasMetadata = FALSE /\ opt = PrintFormat(<<>>, "float", NumpyDefaults)
    /\ query = <<>>
    /\ A!AnnotateInit
    /\ L!LocateInit

\* format_tensor up to the annotator: label line, the short path for a
\* value that is not an ndarray, metadata lines, the blank line, auxiliary
\* message and numeric summary, np.set_printoptions, repr(tensor).
FormatBegin ==
    /\ phase = "idle"
    /\ calls < MaxCalls
    /\ \E kind \in TensorKinds, dt \in Dtypes, ds \in Shapes, o \in PrintOptions,
          label \in Labels, meta \in MetadataFlags, extra \in ExtraLines :
         LET head == (IF label THEN 1 ELSE 0) + (IF meta THEN 2 ELSE 0)
             g    == IF o = None THEN npOptions ELSE SetPrintOptions(npOptions, o)
         IN
         /\ calls' = calls + 1
         /\ tensorDtype' = dt
         /\ dims' = ds
         /\ raised' = None
         /\ highlights' = {}
         /\ IF kind # "ndarray"
            THEN \* lines + [""] + repr(tensor).split("\n"); no annotations
                 /\ hdr' = IF label THEN 2 ELSE 0
                 /\ bufLines' = [k \in 1..(IF label THEN 3 ELSE 1) |-> HeaderLine]
                 /\ bufAnnot' = [k \in {} |-> A!BeginIndices(<<>>)]
                 /\ hasMetadata' = FALSE
                 /\ phase' = "idle"
                 /\ criterion' = None
                 /\ UNCHANGED <<npOptions, arrayLines, edgeItems, opt>>
            ELSE /\ hdr' = head + (IF head > 0 THEN 1 ELSE 0) + extra
                 /\ npOptions' = g
                 /\ opt' = PrintFormat(ds, dt, g)
                 /\ arrayLines' = Render(PrintFormat(ds, dt, g))
                 /\ edgeItems' = IF o # None /\ "edgeitems" \in DOMAIN o
                                 THEN o.edgeitems ELSE _NUMPY_DEFAULT_EDGE_ITEMS
                 /\ phase' = "annotate"
                 /\ criterion' = None
                 /\ UNCHANGED <<bufLines, bufAnnot, hasMetadata>>
         /\ ai' = 1 /\ currIndices' = Zeros(Len(ds)) /\ currDim' = 0
         /\ annotations' = [k \in {} |-> A!BeginIndices(<<>>)]
    /\ UNCHANGED <<query, locatorVars>>

\* A string tensor is not annotated.
Annotate ==
    /\ phase = "annotate"
    /\ tensorDtype # "string"
    /\ A!AnnotateStep
    /\ UNCHANGED <<callVars, arrayLines, dims, edgeItems, bufLines, bufAnnot,
                   hasMetadata, opt, query, locatorVars>>

\* formatted.extend(formatted_array), then, with highlight options, the
\* summary appended to formatted.lines[0] and locate_tensor_element on the
\* criterion's elements.  Without highlight options, or when no element
\* satisfies the criterion, the call returns here; the percentage in the
\* summary divides by np.size(tensor) first, whatever the criterion.
FormatHighlight ==
    /\ phase = "annotate"
    /\ tensorDtype = "string" \/ A!AnnotateDone
    /\ \E c \in Criteria(dims) :
       LET annot == IF tensorDtype = "string" THEN [k \in {} |-> A!BeginIndices(<<>>)]
                    ELSE annotations
           body  == [k \in 1..(hdr + Len(arrayLines)) |->
                       IF k <= hdr THEN HeaderLine ELSE BufferLine(arrayLines[k - hdr])]
       IN
       /\ criterion' = c
       /\ bufLines' = IF c = None THEN body
                      ELSE [body EXCEPT ![1].suffix =
                              SummaryMatches(Cardinality(c), Size(dims))]
       /\ bufAnnot' = [k \in {hdr + m : m \in DOMAIN annot} |-> annot[k - hdr]]
       /\ hasMetadata' = (tensorDtype # "string")
       /\ IF c = None \/ c = {} \/ Size(dims) = 0
          THEN /\ phase' = "idle"
               /\ raised' = IF c # None /\ Size(dims) = 0 THEN "ZeroDivisionError"
                            ELSE raised
               /\ UNCHANGED <<query, locatorVars>>
          ELSE /\ phase' = "locate"
               /\ UNCHANGED raised
               /\ query' = SetToSortSeq(c, LexLess)
               /\ li' = 1 /\ prevR' = 1 /\ prevLine' = L!EmptyLine
               /\ prevIndices' = Zeros(Len(dims)) /\ batchPos' = 1
               /\ results' = [j \in 1..Cardinality(c) |-> L!NoResult]
               /\ lstatus' = "validate"
    /\ UNCHANGED <<npOptions, calls, tensorDtype, hdr, highlights,
                   arrayLines, dims, edgeItems, opt, annotatorVars>>

Locate ==
    /\ phase = "locate"
    /\ L!LocateStep
    /\ UNCHANGED <<callVars, inputVars, annotatorVars>>

\* Add (start_col, end_col, font_attr) to font_attr_segs[row] for every
\* element not omitted and with known columns; an exception raised by the
\* locator ends the call.
FormatApplyHighlights ==
    /\ phase = "locate"
    /\ L!LocateFinished
    /\ phase' = "idle"
    /\ IF lstatus = "done"
       THEN /\ highlights' = { [row |-> results[j].row, col |-> results[j].col] :
                               j \in { j \in DOMAIN results :
                                         results[j].omitted = FALSE /\ results[j].col # None } }
            /\ UNCHANGED raised
       ELSE /\ raised' = lstatus
            /\ UNCHANGED highlights
    /\ UNCHANGED <<npOptions, calls, tensorDtype, criterion, hdr, inputVars,
                   annotatorVars, locatorVars>>

Next == FormatBegin \/ Annotate \/ FormatHighlight \/ Locate \/ FormatApplyHighlights

Spec == Init /\ [][Next]_vars

-----------------------------------------------------------------------------
Line == [lb : Nat, rb : Nat, items : Seq(Seq(Int)), first : Seq(Nat)]
Result == [omitted : BOOLEAN \cup {None}, row : Nat \cup {None}, col : Nat \cup {None}]

TypeOK ==
    /\ phase \in {"idle", "annotate", "locate"}
    /\ calls \in 0..MaxCalls
    /\ arrayLines \in Seq(Line)
    /\ currDim \in 0..Len(dims)
    /\ currIndices \in Seq(Int) /\ Len(currIndices) = Len(dims)
    /\ \A k \in DOMAIN annotations :
          k \in DOMAIN arrayLines /\ annotations[k].key \in {"i0", "omitted"}
    /\ \A k \in DOMAIN bufAnnot : k \in DOMAIN bufLines
    /\ batchPos \in 1..(Len(query) + 1)
    /\ results \in Seq(Result) /\ Len(results) = Len(query)
    /\ highlights \subseteq [row : DOMAIN bufLines, col : Nat]

\* Line Annotator (spec 3, LineAnnotation): every line the annotator has
\* marked "i0" begins with the element at the recorded coordinate, and
\* every "...," line is marked with the first element it hides.  The
\* coordinate is tracked from bracket and comma counts only, across rows
\* wrapped over several lines, omitted runs and blank separator lines.
AnnotationExact ==
    \A k \in DOMAIN annotations : annotations[k].idx = arrayLines[k].first

\* Highlighting (format_tensor with locate_tensor_element): every range
\* added to font_attr_segs covers the printed text of an element that the
\* criterion selected, never another element's or other text.
HighlightSound ==
    \A h \in highlights :
        LET ts == NumberTokens(bufLines[h.row].items, opt)
        IN  h.col < Len(ts) /\ criterion # None /\ ts[h.col + 1] \in criterion

\* Highlighting is complete: when a call returns normally, every selected
\* element printed on a line before that line's "...," is highlighted at
\* its own place.
HighlightComplete ==
    (phase = "idle" /\ criterion # None /\ raised = None) =>
        \A k \in DOMAIN arrayLines :
            LET ts == NumberTokens(L!BeforeEllipsis(arrayLines[k].items), opt)
            IN  \A j \in DOMAIN ts :
                    ts[j] \in criterion => [row |-> hdr + k, col |-> j - 1] \in highlights

\* Highlighting (spec 4.4, 7): format_tensor on an ndarray with highlight
\* options returns the highlighted buffer; its queries come from
\* np.argwhere, so none is a caller error, and nothing else may raise.
HighlightNoRaise == raised = None

\* The sweep seen as the contract's one-step call: pending from
\* FormatHighlight until the locator stops, its result only then.
Unfinished == lstatus \in {"validate", "sweep"}

LC == INSTANCE LocateContract
        WITH pending <- phase = "locate" /\ Unfinished,
             outcome <- IF Unfinished THEN None ELSE lstatus,
             answer  <- IF Unfinished THEN [j \in DOMAIN query |-> L!NoResult]
                        ELSE results

\* Element location (locate_tensor_element with _locate_elements_in_line):
\* the single forward sweep, with its windows [prev_indices, annot[i]),
\* its early break and its tail lookup, returns what spec 4.2 defines
\* without a sweep: for every coordinate the last annotated line not past
\* it, that line's omission flag, and the ordinal of the element's own
\* number before the line's "...".
LocateRefinesContract == LC!CSpec
=============================================================================
