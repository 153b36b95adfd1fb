\* Two causes of a highlight on the wrong element.  np.set_printoptions is
\* never undone: a later call without edgeitems is printed with the earlier
\* edgeitems while annotated with the default 3.  And in an integer tensor
\* one-digit values are not matched by _NUMBER_REGEX, so match ordinals and
\* element offsets disagree.
CONSTANTS
    None = None
    TensorKinds = {"ndarray"}
    Dtypes = {"float", "int"}
    Shapes <- MC_MixedShapes
    PrintOptions <- MC_StaleOptions
    Labels = {TRUE}
    MetadataFlags = {FALSE}
    ExtraLines = {0}
    MaxHighlighted = 1
    MaxCalls = 2
SPECIFICATION Spec
INVARIANT HighlightSound
CHECK_DEADLOCK FALSE
