\* A summarised row wrapped over lines: the annotator counts "...," as an
\* element and resumes the row at the wrong coordinate.
CONSTANTS
    None = None
    TensorKinds = {"ndarray"}
    Dtypes = {"float"}
    Shapes <- MC_FloatShapes
    PrintOptions <- MC_WrappedSummaryOptions
    Labels = {TRUE}
    MetadataFlags = {FALSE}
    ExtraLines = {0}
    MaxHighlighted = 1
    MaxCalls = 1
SPECIFICATION Spec
INVARIANT AnnotationExact
CHECK_DEADLOCK FALSE
