\* from_keras on models of chains, merges, dropout, shared layers and LSTMs,
\* three times in one process.
CONSTANTS
    Converters = {"from_keras"}
    Models <- MC_PassModels
    MaxConversions = 3
SPECIFICATION Spec
INVARIANTS
    ConversionSucceeds
    InputsWired
\* The walk stops after MaxConversions conversions.
CHECK_DEADLOCK FALSE
