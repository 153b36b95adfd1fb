# TLA+ models of the tvmdbg tensor display, its configuration, and the Keras frontend

This directory holds TLA+ models of the code under `src/`. TLC checks them. Each
definition is translated from the Python source it names in `PROJECT.json`
("map").

## The system

| Part | Source | What it does |
|---|---|---|
| Tensor Formatter | `tensor_data.py` `format_tensor` (53-188) | Builds the lines of the tensor display in order: label, metadata, blank line, auxiliary message, numeric summary, then `np.set_printoptions` and `repr(tensor)`. It annotates the array lines and, when asked, highlights the elements a criterion selects. |
| Line Annotator | `_annotate_ndarray_lines` (191-268) | Recovers, for each line of numpy's text, the coordinate of its first element (`"i0"`). A line `...,` gets the coordinate of the first hidden element (`"omitted"`). It works from the counts of `[`, `]` and `,` alone. |
| Element Locator | `locate_tensor_element`, `_validate_indices_list`, `_locate_elements_in_line` (271-468) | Takes a sorted batch of coordinates and sweeps the annotated lines once. Each coordinate is resolved on the last line whose annotation does not exceed it. Its column is the `offset`-th match of `_NUMBER_REGEX`, and the scan stops at `...,`. |
| Numeric Summarizer | `numeric_summary`, `_counts_summary` (471-559) | A pure function that turns the tensor's values into a two-row count table and a two-row statistics table. `format_tensor` puts its lines before the array. |
| CLI configuration | `ui_config.py` `CLIConfig` | The debugger's settings. It loads them from `~/.tvmdbg_config` over the defaults, saves the whole dict on every `set`, and calls a set-callback. |
| Keras frontend | `nnvm/frontend/keras.py` | Converts a Keras model into an NNVM graph through a symbol table keyed by layer and node names. |
| Tutorial | `tutorials/.../from_keras_s2s.py` | A download-and-run script. |

The three tensor parts interact through the buffer that `format_tensor` builds.
The annotator writes integer-keyed annotations into the buffer. The locator reads
those annotations and the text, and `format_tensor` turns what the locator
returns into highlight ranges.

numpy's print options are process-wide state. All `format_tensor` calls share
them, and no call restores them.

Every debugger process has its own `CLIConfig`, and all processes share one file.

## Modules

- **`NumpyRepr`** models the array renderer, which is numpy and not code of this
  repository. It is the environment of the formatter, so it has no map entries.
  - A rendered line is a record: the number of `[`, the number of `]`, the words
    on the line (element coordinates and `...` as `Ellipsis`), and `first`, the
    true coordinate of the line.
  - `first` is ground truth for the properties. No code reads it.
  - `Render` follows numpy's layout:
    - `edge` entries are shown at each end of every summarised dimension;
    - `width` words fit on a line;
    - `r-d-1` blank lines separate the entries of dimension `d`;
    - a line `...,` stands for an omitted run;
    - a 0-d array is one line with one element, and an array with no elements
      is one line `array([], ...)` with one `[` and one `]`.
  - `Lexable` states which words `_NUMBER_REGEX` matches:
    - floats always match;
    - integers match only when they print with at least two characters (here,
      flat index ≥ 10 of an `arange`);
    - strings never match.
- **`LineAnnotator`** has one action per branch of the loop body: `AnnotateBlank`,
  `AnnotateOmission` and `AnnotateElements`.
  - Its variables are the loop's locals: `ai` (i), `currIndices`, `currDim` and
    `annotations`.
  - `PyIdx` reproduces Python's negative indexing of `curr_indices[curr_dim - 1]`
    when `curr_dim` is 0.
- **`ElementLocator`** has one action per iteration of the sweep
  (`LocateSkipLine`, `LocateAnnotatedLine`), plus the tail lookup (`LocateTail`)
  and validation (`LocateValidate`).
  - Each action has its exception outcomes: AttributeError, ValueError, KeyError
    and IndexError.
  - `LocateElementsInLine` is the closed form of the inner match loop. Query `j`
    gets match `offset(j)` iff every earlier query hit and the offsets are
    strictly increasing and below the number of matches before the ellipsis.
  - Columns are match ordinals: distinct matches start at distinct columns, in
    order.
- **`TensorFormatter`** composes the two modules above by `INSTANCE` with shared
  variables. A call is `FormatBegin`, the annotator's steps, `FormatHighlight`,
  the locator's steps, and `FormatApplyHighlights`.
  - The criterion (any set of at most `MaxHighlighted` coordinates, or no
    highlight options) is chosen at `FormatHighlight`.
  - The lines before the array are counted (`hdr`), not spelled out. Line 1
    carries the number of regex matches in the appended highlight summary
    (`SummaryMatches`).
- **`CLIConfig`** has one action for each of `__init__` (`Construct`), `set` and
  `set_callback`. Two further actions model a process leaving: `Exit` and the
  crash inside `Crash`.
  - A Python value is a record of its type and its `str()` text. The JSON round
    trip keeps both.
  - `_save_to_file` ends in one of four ways:
    - it completes;
    - `open` raises an IOError that is swallowed, and the file is intact;
    - `open(path, "w")` truncates the file, then `json.dump` or the close
      raises an IOError that line 122 swallows (`writeerror`);
    - the process dies after the truncation (`crash`).
    In the last two the file is left unreadable.
  - `Crash` keeps the history of the settings the process saved before it
    died. A ghost variable `truncated` records that some save has truncated
    the file and not completed.
  - The ghosts `latest`, `unsaved` and `loadedType` record what the properties
    compare against.

- **`LocateContract`** is the abstract specification of `locate_tensor_element`,
  written from spec 4.2 without the sweep. A call is one `Call` step and one
  `Return` step. `Return` either fails (no metadata, a malformed batch, a 0-d
  tensor) or answers, for each coordinate:
  - `row`: the last annotated line whose coordinate does not exceed it;
  - `omitted`: whether that line's annotation is `Omitted`;
  - `col`: the ordinal of the coordinate's own number among the numbers printed
    on that line before its `...`, or `None`.

  `TensorFormatter` instantiates it (`LC`) with a refinement mapping:
  - `pending` is "phase is locate and the locator has not stopped";
  - the outcome and the answer are the locator's `lstatus` and `results` once it
    has stopped.

  `LocateRefinesContract` (`LC!CSpec`) is checked as a `PROPERTY`.
- **`KerasFrontend`** models `from_keras` and `from_keras2` (`keras.py`
  606-753). It steps through the walk over `model.layers`, and its actions are:
  - `Begin`: `_check_unsupported_layers` and a new `SymbolTable`;
  - `ConvertInputLayer`: `get_var(name, must_contain=False)`;
  - `ConvertNode`: one inbound node, with its lookups, the one-input unwrap,
    the converter, and `keras_op_to_nnvm`'s `set_var(name:my_idx)`;
  - `NextLayer`;
  - `Finish`: the output lookup.

  It also models these parts:
  - A Keras model is a record: its layer list, layer types, inbound nodes
    (`inbound_layers`, `node_indices`, `tensor_indices`) and output layer.
  - A symbol records what it computes: the output `q` of node `<<layer, idx>>`,
    or a Python list of symbols. The weights and operators are left out.
  - Symbol-table names are tuples: `"L:i"` is `<<L, i>>`.
  - The converters are modelled by what they read and return:
    - Dense and the other single-input layers return a new tensor;
    - a converter given a Python list raises. `ConvertError` and `LstmError`
      say which exception: Dense fails in nnvm's parameter parsing
      (`NNVMError`); a merge or an LSTM passes the list positionally to an
      nnvm operator, which raises TypeError; an LSTM list shorter than 3
      raises IndexError; the LSTM's third item (`in_state_h`) is never used;
    - Add, Subtract and Multiply (`MergeTypes`, `_convert_merge`) read the
      whole input list;
    - RepeatVector, TimeDistributed and the dropouts (`PassThrough`) return
      their input symbol unchanged;
    - LSTM returns `[next_h, next_c, next_h]` and reads a list input as
      `[data, c, h]`.
  - Without initial states, `_convert_lstm` makes two fresh Variables through
    `_new_state_sym`, named `lstm_c<n>` and `lstm_h<n>` from the module-global
    `_state_ctr`. The counter survives across conversions (`stateCtr`), and a
    fresh Variable is a record `kind "v"` carrying its name.
  - The ghost `wired` records the inputs each converted node computed from.
    `KerasInputs` states what Keras feeds that node. At inference Keras
    feeds an LSTM without initial states zeros, and `AsKeras` reads a fresh
    state Variable as those zeros (the runtime binds it to a zero array).
    Keras resolves a dropout predecessor to the dropout's own input.
  - `SymbolTable` (`nnvm/frontend/common.py`) is not in this tree. Its contract
    is taken from how `keras.py` uses it: `get_var` with `must_contain=True`
    asserts the name is present.
- **`NumericSummary`** models `numeric_summary` and `_counts_summary`
  (`tensor_data.py` 471-559). `Init` is the argument of one call, a dtype and a
  tensor, and `Summarize` is the call that `format_tensor` makes when
  `include_numeric_summary` is set (137-139).
  - A tensor is a bag of element values. A value is NaN, an infinity with a
    sign, or a finite number. `IsNan`, `IsNegInf`, `Less0` and the other masks
    are numpy's, with every comparison against NaN false. `NpSum` is `np.sum`
    of a mask.
  - A string is modelled by its length, since the layout depends on nothing
    else. A table row is the sequence of the widths of its printed pieces:
    `"|"`, one right-justified column per entry, `" |"`, and then the total
    column and `" |"`. `PadLen` is `_pad_string_to_length`: Python's
    `" " * negative` is `""`, so a piece is never narrower than its string.
  - `str()` of a count is its number of digits. Integral floats print as
    `-12.0`. The lengths of the mean's and the std's repr are a choice among
    `StatLens`.
  - Every branch is modelled: the notice for a non-ndarray or an empty tensor,
    the float and int tables, the bool table, and the notice for any other
    dtype. A complex tensor raises TypeError, because `np.isneginf` calls
    `np.signbit`, which has no complex loop.

## Runs

| Run | Expect | Checks | Shows |
|---|---|---|---|
| `formatter` (`MC_TensorFormatter.cfg`) | pass | `TypeOK`, `AnnotationExact`, `HighlightSound`, `HighlightComplete`, `LocateRefinesContract` | Two calls on float tensors of shape `()`, `(5)`, `(2,3)`, `(3,3)` or `(3,1,2)`. Options are either summarised with edgeitems 1, or wrapped at 2 words with edgeitems 1. There are 0 to 2 highlighted elements, with or without a label. The annotations are exact, every highlight covers a selected element, and every selected element shown before an ellipsis is highlighted. The sweep implements the spec 4.2 contract. |
| `highlight_unsound` | violation of `HighlightSound` | | Highlighted float and int tensors over two calls, where the options may leave out edgeitems. There are two causes, both in this state space. TLC reports the first: in `arange(12).reshape(2,6)` the one-digit elements are not regex matches, so match ordinals are not element offsets. With `Dtypes = {"float"}` TLC reports the second: a call with `{edgeitems: 1, threshold: 0}` and then a call with `{threshold: 0}` or with no options. The second call is printed with 1 edge item and annotated with 3, so a wrong element is highlighted. |
| `wrapped_summary` | violation of `AnnotationExact` | | A summarised row wrapped so that `...,` ends a line. Its comma is counted as an element. |
| `highlight_raises` | violation of `HighlightNoRaise` | | One highlighted call on a float or string tensor of shape `()`, `(0)`, `(2,0)` or `(2,3)`. TLC reports a tensor with no elements, where the summary's percentage divides by zero. The same state space also reaches two other raises, each confirmed by a run restricted to its case: IndexError for the 0-d tensor (`indices[-1]` of an empty coordinate), and AttributeError for the string tensor (never annotated, yet located). |
| `numeric_summary` (`MC_NumericSummary.cfg`) | pass | `CountsPartition`, `TablesAligned` | `numeric_summary` on every float, complex, int, bool and string tensor (and on a non-ndarray) whose values NaN, -inf, +inf, -12, 0 and 3 each occur 0, 1 or 100 times. The counts shown add up to the element count. In every table the label row and the value row break at the same columns. |
| `config` (`MC_CLIConfig.cfg`) | pass | `TypeOK`, `SavedSetsSurvive`, `SetKeepsType` | One process at a time, starting from each of four files: absent, corrupt, self-written, and hand-edited with a string and a null. Inputs are every kind of `set` value. Saves succeed, fail to open, fail after truncating, or crash after truncating. As long as no save has truncated the file without completing, each property's last successfully saved value survives every exit and restart. No set changes a property's type. |
| `config_setting_lost` (`MC_CLIConfig_two.cfg`) | violation of `SetSurvivesRestart` | | A saved setting is lost in two ways. First, with two processes, one process's whole-dict save reverts the other's setting. Second, with one process, a later save truncates the file and then fails or crashes, so the next `__init__` finds it unreadable and falls back to the defaults. |
| `keras` (`MC_KerasFrontend.cfg`) | pass | `ConversionSucceeds`, `InputsWired` | `from_keras`, three times in one process, on seven models: a Dense chain, two inputs merged by Add, a Dense shared by two inputs, a single LSTM, a Dense and its Dropout merged by Subtract, one LSTM applied to two inputs, and an unsupported layer (ValueError). Every supported model converts, every node computes from the tensors Keras feeds it. |
| `keras2_naming` | violation of `ConversionSucceeds` | | `from_keras2` on input → Dense → Dense. It stores `dense_1:0` and looks up `dense_1:0:0`, so the assertion fails. |
| `seq2seq_tensor_indices` | violation of `ConversionSucceeds` | | The tutorial's encoder-decoder. `from_keras` looks up the encoder's `state_h` and `state_c` as `lstm_1:0`, which is the whole output list, and the decoder LSTM raises TypeError. |
| `stacked_lstm_state` | violation of `InputsWired` | | Two stacked LSTMs. The second reads the first's output list as `[data, c, h]`, so it starts from the first's states instead of zeros. |
| `shared_layer_order` | violation of `ConversionSucceeds` | | A Dense applied before and after another layer. Keras lists it first, and its second node's lookup fails. |

Each property of a passing run has a mutant in `PROJECT.json`. The mutant is a
plausible bug in the definition it replaces, and TLC finds the property violated
with that definition replaced:
- the omission branch does not resume the index;
- `curr_dim` counts only `[`;
- the match scan ignores the ellipsis;
- the window drops its lower bound;
- the loaded file is not merged;
- `set` skips coercion;
- `set_callback` skips the name check;
- results record the visited line instead of `prev_r`;
- `keras_op_to_nnvm` stores the bare layer name;
- a predecessor is looked up under the consumer's node index;
- the finite-negative mask does not exclude -inf;
- a column's width comes from its label alone.

### Bounds

- **Tensor shapes.** They cover ranks 0 to 3 and these layouts:
  - a wrapped row (5 words at width 2);
  - a summarised dimension of length 3 with edge 1, which gives a `...,` line
    inside the row and a `...,` line between sub-arrays;
  - a summarised 3x3 array, whose omitted row sits between two rows that each
    have an omission;
  - a middle dimension of length 1;
  - blank separator lines (rank 3).
- **Calls.** Two calls are the fewest in which global options carry over.
- **Highlights.** Up to two highlighted elements make batches whose queries fall
  in one window, in two windows, and in the tail.
- **Config.** One process with restarts covers the save outcomes, including a
  truncating save after a successful one. Two processes are the fewest that
  share the file.
- **Keras.** The seven pass models cover every shape of the walk:
  - a node with one input (unwrapped) and with two inputs (a list);
  - a layer with two inbound nodes (`my_idx` 1), a Dense and an LSTM;
  - an LSTM without initial state, twice in one conversion;
  - a pass-through layer whose output is read by a merge;
  - a refused model.

  Three conversions show `_state_ctr` carrying over. Each violation uses the
  smallest model that has the feature in question.
- **Numeric summary.** The value set holds one member of every class the masks
  tell apart: NaN, -inf, +inf, and a negative, a zero and a positive finite
  value. Their reprs have different lengths. Multiplicities 0, 1 and 100 give
  the following:
  - every subset of the classes, which covers skipped zero columns and tensors
    with no finite element (no statistics table);
  - a count with three digits under a one-character label.

### Fairness

No run checks a liveness property, so no spec assumes fairness. The loops of
a `format_tensor` call are Python `for` loops over finite lists and always end.

`formatter` and `keras` stop after their bound on calls, and `numeric_summary`
after its one call, which is why their cfgs set `CHECK_DEADLOCK FALSE`. The config model never stops, because `Construct` is
always enabled once a process has exited.

## Not modelled, and why

- **The text of labels, metadata and summaries, and label colouring (97-111).**
  Only the number of header lines and the matches they add are modelled. The
  colour segments on line 0 are never read by the locator.
- **Two findings about `numeric_summary` that have no run.** The model computes
  both, but each would need a violation run of its own, and the runs are spent
  on findings that change which element is shown.
  - The `total` column is padded to `max(len("total") + 1, len(str(total)))`,
    with no `+ 1` on the value. From 100000 elements on, the total has no
    padding space, against spec 4.3. The rows still align.
  - A complex tensor raises TypeError, against spec 7.
- **The composition of `numeric_summary` into `format_tensor`.** The summary
  only adds lines before the array (`ExtraLines` in `TensorFormatter`), and the
  locator never reads them. Composing the two would multiply the formatter's
  states without a new question.
- **numpy's removed aliases.** `np.complex` and `np.bool` exist in the numpy of
  this code's time. From numpy 1.24 on they raise AttributeError for every
  non-float tensor.
- **The numeric content of every converter** (weights, shapes, activations).
  Each converter is modelled only by which symbols it reads and returns. These compute shapes and weights, and no property of the
  walk depends on them. `_convert_map`'s key set is modelled in full, because
  `_check_unsupported_layers` reads it.
- **The LSTM's recurrence.** `_convert_lstm` reads `in_state_h` but never uses
  it, and it converts a single time step. These are numerical semantics,
  outside what the symbol-table model tells apart.
- **`keras_op_to_nnvm2` and `_as_list`.** They are never called.
- **RepeatVector and TimeDistributed in a pass model.** Their converters
  return the input symbol (`PassThrough`), so the layer's own computation is
  skipped. That is modelled, but Keras computes something else there, so
  `InputsWired` would report it; the run slots are spent on the findings above.
- **The tutorial.** It only does I/O: download, load, and call `from_keras`. Its
  model is the `seq2seq_tensor_indices` input. Its download is listed as a
  hazard: an existing file is never re-fetched, so a partial download or the
  HTML page of the `blob` URL stays in place and `load_model` fails on every
  later run.
- **`CLIConfig.get` and `summarize`.** They only read state.
