\* Two ways a saved setting is lost.  Two debugger processes at once over
\* the shared config file: each set saves the whole dict its process holds.
\* And a save that truncates the file and then fails or is cut short: the
\* next __init__ finds a file that does not parse and writes the defaults.
CONSTANTS
    None = None
    Instances = {p1, p2}
    KeyInputs = {"graph_recursion_depth", "mouse_mode", "nosuch"}
    SetInputs <- MC_SetInputs
    FileInits <- MC_FileInits
    SaveOutcomes = {"ok", "ioerror", "writeerror", "crash"}
SPECIFICATION Spec
INVARIANT
    SetSurvivesRestart
