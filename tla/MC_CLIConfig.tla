---------------------------- MODULE MC_CLIConfig ----------------------------
EXTENDS CLIConfig

\* Config files a debugger may find: none, one that does not parse, one it
\* wrote itself, and one edited by hand to hold a string and a null.
MC_FileInits ==
    { NoFile, BadFile,
      FileOf([_DEFAULT_CONFIG EXCEPT !["mouse_mode"] = Val("bool", "False")]),
      FileOf(("graph_recursion_depth" :> Val("str", "20"))
             @@ ("mouse_mode" :> Val("none", "None"))) }

\* A string of each kind set parses, and an int and a bool.
MC_SetInputs ==
    { Val("str", "on"), Val("str", "x"), Val("str", "5"),
      Val("int", "0"), Val("bool", "True") }
=============================================================================
