----------------------------- MODULE CLIConfig -----------------------------
(***************************************************************************)
(* CLIConfig (ui_config.py): the debugger's settings, an ordered dict in   *)
(* memory mirrored to one JSON file.  Every debugger process holds its own *)
(* instance; all instances share the file.                                 *)
(*                                                                         *)
(* A Python value is a record [t, v]: its type and its str() text.  The    *)
(* JSON round trip keeps both (json.dump writes true/false, numbers and    *)
(* strings back as the same types), so the file holds the same records.   *)
(* Key order is not modelled: nothing reads it but summarize().            *)
(***************************************************************************)
EXTENDS Naturals, FiniteSets, TLC

CONSTANTS
    None,         \* no instance in this process / Python's None
    Instances,    \* debugger processes, each holding at most one CLIConfig
    KeyInputs,    \* property names passed to set and set_callback
    SetInputs,    \* property values passed to set
    FileInits,    \* contents of the config file before any process starts
    SaveOutcomes  \* subset of {"ok", "ioerror", "writeerror", "crash"}:
                  \* how a dump ends

VARIABLES
    file,         \* the config file: [state |-> "absent"|"corrupt"|"ok", data]
    config,       \* config[i]: instance i's _config, or None
    callbacks,    \* callbacks[i]: the keys of instance i's _set_callbacks
    notified,     \* the config the last set-callback received, or None
    raised,       \* the exception the last call raised, or None
    latest,       \* ghost: key -> the value of its last set, by any instance
    unsaved,      \* ghost: unsaved[i]: keys i set since its last successful save
    loadedType,   \* ghost: loadedType[i][k] = type of config[i][k] after __init__
    truncated     \* ghost: a save has truncated the file and not completed

vars == <<file, config, callbacks, notified, raised, latest, unsaved, loadedType,
          truncated>>

Val(t, v) == [t |-> t, v |-> v]

\* An exception in place of a value.
Raise(e) == Val("error", e)

\* _DEFAULT_CONFIG
_DEFAULT_CONFIG == ("graph_recursion_depth" :> Val("int", "20"))
                   @@ ("mouse_mode" :> Val("bool", "True"))

Truthy == {"1", "true", "t", "yes", "y", "on"}
Falsy  == {"0", "false", "f", "no", "n", "off"}

\* The decimal numerals int() accepts among the texts the inputs can have.
Numerals == {"0", "1", "5", "20"}

NoFile  == [state |-> "absent", data |-> <<>>]
BadFile == [state |-> "corrupt", data |-> <<>>]
FileOf(c) == [state |-> "ok", data |-> c]

\* _load_from_file: the parsed dict, or {} when the JSON does not parse.
_load_from_file ==
    IF file.state = "corrupt" THEN <<>> ELSE file.data

\* Mutant: the loaded values are not merged over the defaults.
MergeLoadedDropped(loaded) == _DEFAULT_CONFIG

\* OrderedDict(_DEFAULT_CONFIG) updated with every loaded key.
MergeLoaded(loaded) ==
    [k \in DOMAIN _DEFAULT_CONFIG \cup DOMAIN loaded |->
        IF k \in DOMAIN loaded THEN loaded[k] ELSE _DEFAULT_CONFIG[k]]

\* Mutant: set stores the value it was given, uncoerced.
CoerceDropped(orig, x) == x

\* set's coercion of property_val to the type of the current value, or the
\* exception it raises.
Coerce(orig, x) ==
    CASE orig.t = "bool" /\ x.t = "str" ->
             IF x.v \in Truthy THEN Val("bool", "True")
             ELSE IF x.v \in Falsy THEN Val("bool", "False")
             ELSE Raise("ValueError")
      [] orig.t = "bool" ->
             Val("bool", IF x.v \in {"0", "False"} THEN "False" ELSE "True")
      [] orig.t = "int" /\ x.t = "bool" ->
             Val("int", IF x.v = "True" THEN "1" ELSE "0")
      [] orig.t = "int" ->
             IF x.v \in Numerals THEN Val("int", x.v) ELSE Raise("ValueError")
      [] orig.t = "str" -> Val("str", x.v)
      [] OTHER -> Raise("TypeError")

IsError(c) == c.t = "error"

Init ==
    /\ file \in FileInits
    /\ config = [i \in Instances |-> None]
    /\ callbacks = [i \in Instances |-> {}]
    /\ notified = None
    /\ raised = None
    /\ latest = <<>>
    /\ unsaved = [i \in Instances |-> {}]
    /\ loadedType = [i \in Instances |-> <<>>]
    /\ truncated = FALSE

\* _save_to_file of config c by instance i, as one of its outcomes: the
\* dump completes; open() raises IOError (swallowed, the file untouched);
\* open(path, "w") truncates the file and json.dump or the close raises
\* IOError, which line 122 swallows as well; or the process dies after the
\* truncation.  In the last two the file no longer parses.
SaveOutcome(c, out) ==
    CASE out = "ok"      -> FileOf(c)
      [] out = "ioerror" -> file
      [] OTHER           -> BadFile

\* The save left a truncated file behind.
Truncates(out) == out \in {"writeerror", "crash"}

\* Instance i is gone: the settings it never saved are lost with it.
Forget(i) == [k \in DOMAIN latest \ unsaved[i] |-> latest[k]]

\* The process of instance i dies: its instance and callbacks go with it,
\* and so do the settings it never saved.
Crash(i) ==
    /\ config' = [config EXCEPT ![i] = None]
    /\ callbacks' = [callbacks EXCEPT ![i] = {}]
    /\ latest' = Forget(i)
    /\ unsaved' = [unsaved EXCEPT ![i] = {}]
    /\ UNCHANGED <<notified, raised, loadedType>>

\* __init__: defaults, overridden by the file when it exists, then saved.
Construct(i) ==
    /\ config[i] = None
    /\ LET c == IF file.state = "absent" THEN _DEFAULT_CONFIG
                ELSE MergeLoaded(_load_from_file)
       IN  \E out \in SaveOutcomes :
             /\ file' = SaveOutcome(c, out)
             /\ truncated' = (truncated \/ Truncates(out))
             /\ IF out = "crash"
                THEN Crash(i)
                ELSE /\ config' = [config EXCEPT ![i] = c]
                     /\ callbacks' = [callbacks EXCEPT ![i] = {}]
                     /\ loadedType' = [loadedType EXCEPT ![i] =
                                         [k \in DOMAIN c |-> c[k].t]]
                     /\ raised' = None
                     /\ unsaved' = [unsaved EXCEPT ![i] = {}]
                     /\ UNCHANGED <<notified, latest>>

\* set(property_name, property_val): KeyError for an unknown name, the
\* coercion's exception, else assign, save, and call the set-callback.
Set(i) ==
    /\ config[i] # None
    /\ \E k \in KeyInputs, x \in SetInputs :
         IF k \notin DOMAIN config[i]
         THEN /\ raised' = "KeyError"
              /\ UNCHANGED <<file, config, callbacks, notified, latest, unsaved, loadedType, truncated>>
         ELSE LET c == Coerce(config[i][k], x)
                  new == [config[i] EXCEPT ![k] = c]
              IN  IF IsError(c)
                  THEN /\ raised' = c.v
                       /\ UNCHANGED <<file, config, callbacks, notified, latest, unsaved, loadedType, truncated>>
                  ELSE \E out \in SaveOutcomes :
                         /\ file' = SaveOutcome(new, out)
                         /\ truncated' = (truncated \/ Truncates(out))
                         /\ IF out = "crash"
                            THEN Crash(i)
                            ELSE /\ config' = [config EXCEPT ![i] = new]
                                 /\ latest' = (k :> c) @@ latest
                                 /\ unsaved' = [unsaved EXCEPT ![i] =
                                                  IF out = "ok" THEN {} ELSE @ \cup {k}]
                                 /\ notified' = IF k \in callbacks[i] THEN new
                                                ELSE notified
                                 /\ raised' = None
                                 /\ UNCHANGED <<callbacks, loadedType>>

\* Mutant: set_callback without the property-name check.
SetCallbackUnchecked(i) ==
    /\ config[i] # None
    /\ \E k \in KeyInputs, isCallable \in BOOLEAN :
         /\ raised' = IF isCallable THEN None ELSE "TypeError"
         /\ callbacks' = IF raised' = None
                         THEN [callbacks EXCEPT ![i] = @ \cup {k}]
                         ELSE callbacks
    /\ UNCHANGED <<file, config, notified, latest, unsaved, loadedType, truncated>>

\* set_callback(property_name, callback): KeyError for an unknown name,
\* TypeError for an object that is not callable.
SetCallback(i) ==
    /\ config[i] # None
    /\ \E k \in KeyInputs, isCallable \in BOOLEAN :
         /\ raised' = CASE k \notin DOMAIN config[i] -> "KeyError"
                        [] ~isCallable               -> "TypeError"
                        [] OTHER                     -> None
         /\ callbacks' = IF raised' = None
                         THEN [callbacks EXCEPT ![i] = @ \cup {k}]
                         ELSE callbacks
    /\ UNCHANGED <<file, config, notified, latest, unsaved, loadedType, truncated>>

\* The process exits normally: the instance is gone, the file stays.
Exit(i) ==
    /\ config[i] # None
    /\ config' = [config EXCEPT ![i] = None]
    /\ callbacks' = [callbacks EXCEPT ![i] = {}]
    /\ latest' = Forget(i)
    /\ unsaved' = [unsaved EXCEPT ![i] = {}]
    /\ UNCHANGED <<file, notified, raised, loadedType, truncated>>

Next == \E i \in Instances : Construct(i) \/ Set(i) \/ SetCallback(i) \/ Exit(i)

Spec == Init /\ [][Next]_vars

-----------------------------------------------------------------------------
TypeOK ==
    /\ file.state \in {"absent", "corrupt", "ok"}
    /\ \A i \in Instances :
         /\ config[i] # None => callbacks[i] \subseteq DOMAIN config[i]
         /\ config[i] = None => callbacks[i] = {}
    /\ raised \in {None, "KeyError", "ValueError", "TypeError"}

\* Persistence (__init__ loads, set saves the whole config): while the
\* file is readable it holds, for every property, the value of its last
\* set, whichever process made it, unless that process has not saved
\* successfully since (the open() IOError _save_to_file swallows).  A
\* process that exits or crashes forfeits only what it never saved.
SetSurvivesRestart ==
    file.state = "ok" =>
        \A k \in DOMAIN latest :
            \/ k \in DOMAIN file.data /\ file.data[k] = latest[k]
            \/ \E i \in Instances : k \in unsaved[i]

\* The same, as long as no save has truncated the file without completing
\* it: then every successfully saved setting survives any sequence of
\* exits, restarts (whose __init__ merges the file over the defaults and
\* saves again), failed opens and later sets.
SavedSetsSurvive == ~truncated => SetSurvivesRestart

\* set coerces the value to the property's type (its docstring): no
\* sequence of sets changes the type a property had when the instance
\* loaded it.
SetKeepsType ==
    \A i \in Instances : config[i] # None =>
        \A k \in DOMAIN config[i] : config[i][k].t = loadedType[i][k]
=============================================================================
