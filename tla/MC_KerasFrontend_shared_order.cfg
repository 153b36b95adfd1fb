\* from_keras on a layer shared before and after another.
CONSTANTS
    Converters = {"from_keras"}
    Models <- MC_SharedLateModels
    MaxConversions = 1
SPECIFICATION Spec
INVARIANT ConversionSucceeds
\* The walk stops after one conversion.
CHECK_DEADLOCK FALSE
