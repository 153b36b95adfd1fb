\* Highlighting float tensors over two calls whose print options name
\* edgeitems: annotations exact, highlights sound and complete.
CONSTANTS
    None = None
    TensorKinds = {"ndarray", "other"}
    Dtypes = {"float"}
    Shapes <- MC_FloatShapes
    PrintOptions <- MC_ConsistentOptions
    Labels = {TRUE, FALSE}
    MetadataFlags = {FALSE}
    ExtraLines = {0}
    MaxHighlighted = 2
    MaxCalls = 2
SPECIFICATION Spec
INVARIANTS
    TypeOK
    AnnotationExact
    HighlightSound
    HighlightComplete
PROPERTY
    LocateRefinesContract
\* The debugger stops calling format_tensor after MaxCalls calls.
CHECK_DEADLOCK FALSE
