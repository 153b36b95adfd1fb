---------------------------- MODULE KerasFrontend ----------------------------
(***************************************************************************)
(* from_keras and from_keras2 (nnvm/frontend/keras.py): the walk over      *)
(* model.layers that converts every inbound node of every layer, looking  *)
(* its inputs up in a SymbolTable by name and storing its output there.   *)
(*                                                                         *)
(* A Keras model is a record: `layers` (model.layers, in order), `type`    *)
(* (type(layer).__name__), `nodes` (the inbound nodes of each layer; a    *)
(* node is a sequence of inputs [pred, nidx, tidx]: inbound_layers,        *)
(* node_indices, tensor_indices) and `out` (model._output_layers[0]).      *)
(*                                                                         *)
(* A symbol is a record [kind "t", src, q]: the output q of node src =     *)
(* <<layer, node index>> it computes, or a Python list [kind "l", items].  *)
(* What a symbol computes is all the properties need: the operators built *)
(* from weights are left out.  A symbol-table name is a tuple: <<L>> for   *)
(* "L", <<L, i>> for "L:i", <<L, i, t>> for "L:i:t" (Keras layer names     *)
(* hold no ':').                                                           *)
(*                                                                         *)
(* SymbolTable (nnvm/frontend/common.py) is not in this tree; its contract *)
(* as keras.py uses it: get_var(name, must_contain=True) asserts the name  *)
(* is present, with must_contain=False it creates a Variable when absent;  *)
(* set_var(name, sym) binds the name.                                      *)
(***************************************************************************)
EXTENDS Naturals, Sequences, TLC

CONSTANTS
    Models,          \* the Keras models converted
    Converters,      \* subset of {"from_keras", "from_keras2"}
    MaxConversions   \* conversions in one process (_state_ctr outlives them)

VARIABLES
    converter,   \* the function running
    model,       \* its argument
    status,      \* "idle", "run", "done" or the exception raised
    li,          \* index into model.layers, 1-based
    ni,          \* my_idx + 1: the inbound node being converted
    symtab,      \* SymbolTable.vars: name -> symbol
    stateCtr,    \* _state_ctr, module-global
    wired,       \* ghost: <<L, my_idx>> -> the inputs its converter used
    conversions  \* number of conversions begun

vars == <<converter, model, status, li, ni, symtab, stateCtr, wired, conversions>>

Tensor(l, n, q) == [kind |-> "t", src |-> <<l, n>>, q |-> q]
List(s)         == [kind |-> "l", items |-> s]
IsList(s)       == s.kind = "l"

\* The layer types _convert_map has a converter for.
ConvertMap ==
    {"Dense", "Activation", "ReLU", "LeakyReLU", "PReLU", "ELU", "ThresholdedReLU",
     "AveragePooling2D", "MaxPooling2D", "GlobalAveragePooling2D", "GlobalMaxPooling2D",
     "Conv2D", "Conv2DTranspose", "DepthwiseConv2D", "SeparableConv2D", "Flatten",
     "Reshape", "Concatenate", "BatchNormalization", "Add", "Subtract", "Multiply",
     "ZeroPadding2D", "UpSampling2D", "LSTM", "TimeDistributed", "RepeatVector",
     "InputLayer", "Dropout", "SpatialDropout2D", "SpatialDropout1D"}

\* _state_ctr
_state_ctr == [lstm_c |-> 0, lstm_h |-> 0]

\* _check_unsupported_layers
Supported(m) == \A k \in DOMAIN m.layers : m.type[m.layers[k]] \in ConvertMap

\* _new_state_sym(name): the Variable name + "_state%d" % _state_ctr[name],
\* initialised with zeros by _get_state_buffer.
FreshState(name, ctr) == [kind |-> "v", name |-> <<name, ctr[name]>>]

\* _convert_lstm on a single symbol calls _get_state_buffer for lstm_c and
\* for lstm_h: each counter advances by one.
NextStateCtr(ctr, l, insym) ==
    IF model.type[l] = "LSTM" /\ ~IsList(insym)
    THEN [k \in DOMAIN ctr |-> ctr[k] + 1]
    ELSE ctr

\* _convert_repeat_vector, _convert_time_distributed and _default_skip
\* (Dropout, SpatialDropout1D/2D) return insym as it is.
PassThrough == {"RepeatVector", "TimeDistributed", "Dropout", "SpatialDropout2D",
                "SpatialDropout1D"}

\* _convert_merge: the merge types it computes.
MergeTypes == {"Add", "Subtract", "Multiply"}

\* The output of a converter: _convert_lstm returns the list
\* [next_h, next_c, next_h], a pass-through converter its input, any other
\* one new tensor.
Outputs(l, n, insym) ==
    CASE model.type[l] = "LSTM" ->
             List(<<Tensor(l, n, "h"), Tensor(l, n, "c"), Tensor(l, n, "h")>>)
      [] model.type[l] \in PassThrough -> insym
      [] OTHER -> Tensor(l, n, "out")

\* _convert_lstm on a list input: insym[2] raises IndexError for a shorter
\* list; in_data (reshape) and in_state_c (broadcast_mul) are passed
\* positionally to nnvm operators, whose _compose raises TypeError for a
\* list; in_state_h is read but never used.
LstmError(insym) ==
    CASE Len(insym.items) < 3 -> "IndexError"
      [] \E k \in 1..2 : IsList(insym.items[k]) -> "TypeError"
      [] OTHER -> "none"

\* The exception a converter raises on insym, or "none": _sym.dense given
\* a list as data= fails in nnvm's parameter parsing; elemwise_add and
\* the other merges take their operands positionally (TypeError).
ConvertError(l, insym) ==
    CASE model.type[l] = "Dense" /\ IsList(insym) -> "NNVMError"
      [] model.type[l] \in MergeTypes /\ \E k \in DOMAIN insym.items : IsList(insym.items[k])
           -> "TypeError"
      [] model.type[l] = "LSTM" /\ IsList(insym) -> LstmError(insym)
      [] OTHER -> "none"

\* The inputs a converter computes from: a merge node the list, a Dense or
\* pass-through node its one input; _convert_lstm takes a list as
\* [data, c, h] and otherwise starts from two fresh states.
Inputs(l, n, insym) ==
    CASE model.type[l] \in MergeTypes -> [xs |-> insym.items]
      [] model.type[l] # "LSTM" -> [x |-> insym]
      [] ~IsList(insym) ->
             [x |-> insym, c |-> FreshState("lstm_c", stateCtr),
              h |-> FreshState("lstm_h", stateCtr)]
      [] OTHER -> [x |-> insym.items[1], c |-> insym.items[2], h |-> insym.items[3]]

\* Mutant: keras_op_to_nnvm stores the output under the bare layer name.
OutputNameBare(l, myIdx) == <<l>>

\* keras_layer.name + ':' + str(my_idx)
OutputName(l, myIdx) == <<l, myIdx>>

\* from_keras2's name of a non-input predecessor:
\* pred.name + ':' + str(pred_idx) + ':' + str(t_idx).
Keras2PredName(e) == <<e.pred, e.nidx, e.tidx>>

\* Mutant: the predecessor's symbol is looked up under the consumer's
\* node index.
PredNameMyIdx(e, myIdx) ==
    IF model.type[e.pred] = "InputLayer" THEN <<e.pred>>
    ELSE IF converter = "from_keras" THEN <<e.pred, myIdx>>
    ELSE Keras2PredName(e)

\* The name an input is looked up under: an InputLayer by its own name,
\* any other layer by "name:pred_idx" (from_keras) or
\* "name:pred_idx:t_idx" (from_keras2).
PredName(e, myIdx) ==
    IF model.type[e.pred] = "InputLayer" THEN <<e.pred>>
    ELSE IF converter = "from_keras" THEN <<e.pred, e.nidx>>
    ELSE Keras2PredName(e)

\* model._output_layers[0].name + ':0' (from_keras) or + ':0:0'.
OutName == IF converter = "from_keras" THEN <<model.out, 0>> ELSE <<model.out, 0, 0>>

Init ==
    /\ converter \in Converters
    /\ model \in Models
    /\ status = "idle"
    /\ li = 1 /\ ni = 1
    /\ symtab = <<>>
    /\ stateCtr = _state_ctr
    /\ wired = <<>>
    /\ conversions = 0

\* from_keras(model) / from_keras2(model) is called: the unsupported-layer
\* check, then a new SymbolTable.
Begin ==
    /\ status \notin {"run"}
    /\ conversions < MaxConversions
    /\ \E c \in Converters, m \in Models :
         /\ converter' = c
         /\ model' = m
         /\ status' = IF Supported(m) THEN "run" ELSE "ValueError"
    /\ li' = 1 /\ ni' = 1
    /\ symtab' = <<>>
    /\ wired' = <<>>
    /\ conversions' = conversions + 1
    /\ UNCHANGED stateCtr

\* An InputLayer: symtab.get_var(name, must_contain=False).
ConvertInputLayer ==
    /\ status = "run"
    /\ li <= Len(model.layers)
    /\ LET l == model.layers[li]
       IN  /\ model.type[l] = "InputLayer"
           /\ symtab' = IF <<l>> \in DOMAIN symtab THEN symtab
                        ELSE (<<l>> :> Tensor(l, 0, "out")) @@ symtab
    /\ li' = li + 1
    /\ UNCHANGED <<converter, model, status, ni, stateCtr, wired, conversions>>

\* Every inbound node of the layer is converted: move to the next layer.
NextLayer ==
    /\ status = "run"
    /\ li <= Len(model.layers)
    /\ model.type[model.layers[li]] # "InputLayer"
    /\ ni > Len(model.nodes[model.layers[li]])
    /\ li' = li + 1 /\ ni' = 1
    /\ UNCHANGED <<converter, model, status, symtab, stateCtr, wired, conversions>>

\* One inbound node: get_var of every input in order (the first missing
\* name fails the assertion), a single input unwrapped from the list,
\* keras_op_to_nnvm: convert, then set_var(name + ':' + my_idx).
ConvertNode ==
    /\ status = "run"
    /\ li <= Len(model.layers)
    /\ LET l     == model.layers[li]
           node  == model.nodes[l][ni]
           names == [k \in DOMAIN node |-> PredName(node[k], ni - 1)]
           insym == IF Len(node) = 1 THEN symtab[names[1]]
                    ELSE List([k \in DOMAIN node |-> symtab[names[k]]])
           err   == ConvertError(l, insym)
       IN  /\ model.type[l] # "InputLayer"
           /\ ni <= Len(model.nodes[l])
           /\ IF \E k \in DOMAIN names : names[k] \notin DOMAIN symtab
              THEN /\ status' = "AssertionError"
                   /\ UNCHANGED <<ni, symtab, stateCtr, wired>>
              ELSE IF err # "none"
              THEN /\ status' = err
                   /\ UNCHANGED <<ni, symtab, stateCtr, wired>>
              ELSE /\ symtab' = (OutputName(l, ni - 1) :> Outputs(l, ni - 1, insym)) @@ symtab
                   /\ wired' = (<<l, ni - 1>> :> Inputs(l, ni - 1, insym)) @@ wired
                   /\ stateCtr' = NextStateCtr(stateCtr, l, insym)
                   /\ ni' = ni + 1
                   /\ UNCHANGED status
    /\ UNCHANGED <<converter, model, li, conversions>>

\* After the walk: outsym = symtab.get_var(output name).
Finish ==
    /\ status = "run"
    /\ li > Len(model.layers)
    /\ status' = IF OutName \in DOMAIN symtab THEN "done" ELSE "AssertionError"
    /\ UNCHANGED <<converter, model, li, ni, symtab, stateCtr, wired, conversions>>

Next == Begin \/ ConvertInputLayer \/ NextLayer \/ ConvertNode \/ Finish

Spec == Init /\ [][Next]_vars

-----------------------------------------------------------------------------
\* What Keras computes: tensor t of node n of a layer.  An LSTM built with
\* return_state returns [output, state_h, state_c]; every other layer of
\* the models has one output.
KerasQ(type, t) == IF type = "LSTM" THEN <<"h", "h", "c">>[t + 1] ELSE "out"

\* At inference a dropout layer passes its input on.
RECURSIVE KerasTensor(_)
KerasTensor(e) ==
    CASE model.type[e.pred] = "InputLayer" -> Tensor(e.pred, 0, "out")
      [] model.type[e.pred] \in {"Dropout", "SpatialDropout2D", "SpatialDropout1D"} ->
             KerasTensor(model.nodes[e.pred][e.nidx + 1][1])
      [] OTHER -> Tensor(e.pred, e.nidx, KerasQ(model.type[e.pred], e.tidx))

ZeroState == [kind |-> "zeros"]

\* The inputs of node n of layer l in Keras: an LSTM called with
\* initial_state=[h, c] has inputs [x, h, c], without it zero states.
KerasInputs(l, n) ==
    LET ins == model.nodes[l][n + 1]
    IN  CASE model.type[l] \in MergeTypes -> [xs |-> [k \in DOMAIN ins |-> KerasTensor(ins[k])]]
          [] model.type[l] # "LSTM" -> [x |-> KerasTensor(ins[1])]
          [] Len(ins) = 1 ->
                 [x |-> KerasTensor(ins[1]), c |-> ZeroState, h |-> ZeroState]
          [] OTHER ->
                 [x |-> KerasTensor(ins[1]), h |-> KerasTensor(ins[2]),
                  c |-> KerasTensor(ins[3])]

\* Conversion (from_keras, from_keras2): a model made only of supported
\* layers converts without an exception; every name looked up was stored
\* by an earlier step of the walk.
ConversionSucceeds ==
    status \notin {"AssertionError", "TypeError", "IndexError", "NNVMError"}

\* What a converted input stands for in Keras: a fresh state Variable is a
\* zero state.
AsKeras(r) ==
    [f \in DOMAIN r |-> IF f # "xs" /\ r[f].kind = "v" THEN ZeroState ELSE r[f]]

\* Every node converted computes from the tensors its Keras node reads, in
\* their roles: the converted graph is wired like the Keras graph.
InputsWired ==
    \A k \in DOMAIN wired : AsKeras(wired[k]) = KerasInputs(k[1], k[2])
=============================================================================
