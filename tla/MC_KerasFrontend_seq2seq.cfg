\* from_keras on the seq2seq model of the tutorial.
CONSTANTS
    Converters = {"from_keras"}
    Models <- MC_Seq2SeqModels
    MaxConversions = 1
SPECIFICATION Spec
INVARIANT ConversionSucceeds
\* The walk stops after one conversion.
CHECK_DEADLOCK FALSE
