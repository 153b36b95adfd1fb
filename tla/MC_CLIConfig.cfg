\* One debugger process at a time over the shared config file, with saves
\* that may fail to open, fail after truncating the file, or be cut short by
\* a crash.
CONSTANTS
    None = None
    Instances = {p1}
    KeyInputs = {"graph_recursion_depth", "mouse_mode", "nosuch"}
    SetInputs <- MC_SetInputs
    FileInits <- MC_FileInits
    SaveOutcomes = {"ok", "ioerror", "writeerror", "crash"}
SPECIFICATION Spec
INVARIANTS
    TypeOK
    SavedSetsSurvive
    SetKeepsType
