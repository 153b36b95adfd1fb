\* numeric_summary on every tensor whose values occur 0, 1 or 100 times: a
\* count of 100 is wider than a one-character label plus its padding.
CONSTANTS
    None = None
    Dtypes = {"float", "complex", "int", "bool", "string", "other"}
    FloatValues <- MC_FloatValues
    IntValues <- MC_IntValues
    Mults = {0, 1, 100}
    StatLens = {3, 18}
SPECIFICATION Spec
INVARIANTS
    CountsPartition
    TablesAligned
\* One call per behaviour: the model ends when numeric_summary returns.
CHECK_DEADLOCK FALSE
