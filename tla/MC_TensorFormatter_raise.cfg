\* Highlighted float and string tensors of shape (), (0), (2, 0) and (2, 3).
CONSTANTS
    None = None
    TensorKinds = {"ndarray"}
    Dtypes = {"float", "string"}
    Shapes <- MC_EdgeShapes
    PrintOptions <- MC_ConsistentOptions
    Labels = {TRUE}
    MetadataFlags = {FALSE}
    ExtraLines = {0}
    MaxHighlighted = 1
    MaxCalls = 1
SPECIFICATION Spec
INVARIANT HighlightNoRaise
\* The debugger stops calling format_tensor after MaxCalls calls.
CHECK_DEADLOCK FALSE
