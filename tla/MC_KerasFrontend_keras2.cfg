\* from_keras2 on input -> Dense -> Dense.
CONSTANTS
    Converters = {"from_keras2"}
    Models <- MC_Keras2Models
    MaxConversions = 1
SPECIFICATION Spec
INVARIANT ConversionSucceeds
\* The walk stops after one conversion.
CHECK_DEADLOCK FALSE
