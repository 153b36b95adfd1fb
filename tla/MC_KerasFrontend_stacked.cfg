\* from_keras on two stacked LSTMs.
CONSTANTS
    Converters = {"from_keras"}
    Models <- MC_StackedModels
    MaxConversions = 1
SPECIFICATION Spec
INVARIANT InputsWired
\* The walk stops after one conversion.
CHECK_DEADLOCK FALSE
