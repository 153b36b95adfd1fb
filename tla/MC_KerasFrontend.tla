--------------------------- MODULE MC_KerasFrontend ---------------------------
EXTENDS KerasFrontend

\* An input of a node: tensor t of node n of layer p.
In(p, n, t) == [pred |-> p, nidx |-> n, tidx |-> t]

Model(layers, type, nodes, out) ==
    [layers |-> layers, type |-> type, nodes |-> nodes, out |-> out]

\* input -> Dense -> Dense
MC_Chain ==
    Model(<<"input_1", "dense_1", "dense_2">>,
          ("input_1" :> "InputLayer") @@ ("dense_1" :> "Dense") @@ ("dense_2" :> "Dense"),
          ("input_1" :> <<>>) @@ ("dense_1" :> << <<In("input_1", 0, 0)>> >>)
            @@ ("dense_2" :> << <<In("dense_1", 0, 0)>> >>),
          "dense_2")

\* two inputs -> Add -> Dense
MC_Merge ==
    Model(<<"input_1", "input_2", "add_1", "dense_1">>,
          ("input_1" :> "InputLayer") @@ ("input_2" :> "InputLayer")
            @@ ("add_1" :> "Add") @@ ("dense_1" :> "Dense"),
          ("input_1" :> <<>>) @@ ("input_2" :> <<>>)
            @@ ("add_1" :> << <<In("input_1", 0, 0), In("input_2", 0, 0)>> >>)
            @@ ("dense_1" :> << <<In("add_1", 0, 0)>> >>),
          "dense_1")

\* one Dense shared by two inputs (two inbound nodes), its outputs added
MC_Shared ==
    Model(<<"input_1", "input_2", "dense_1", "add_1">>,
          ("input_1" :> "InputLayer") @@ ("input_2" :> "InputLayer")
            @@ ("dense_1" :> "Dense") @@ ("add_1" :> "Add"),
          ("input_1" :> <<>>) @@ ("input_2" :> <<>>)
            @@ ("dense_1" :> << <<In("input_1", 0, 0)>>, <<In("input_2", 0, 0)>> >>)
            @@ ("add_1" :> << <<In("dense_1", 0, 0), In("dense_1", 1, 0)>> >>),
          "add_1")

\* input -> LSTM
MC_Lstm ==
    Model(<<"input_1", "lstm_1">>,
          ("input_1" :> "InputLayer") @@ ("lstm_1" :> "LSTM"),
          ("input_1" :> <<>>) @@ ("lstm_1" :> << <<In("input_1", 0, 0)>> >>),
          "lstm_1")

\* Dense, Dropout (a pass-through at inference), and their difference
MC_Dropout ==
    Model(<<"input_1", "dense_1", "dropout_1", "subtract_1">>,
          ("input_1" :> "InputLayer") @@ ("dense_1" :> "Dense")
            @@ ("dropout_1" :> "Dropout") @@ ("subtract_1" :> "Subtract"),
          ("input_1" :> <<>>) @@ ("dense_1" :> << <<In("input_1", 0, 0)>> >>)
            @@ ("dropout_1" :> << <<In("dense_1", 0, 0)>> >>)
            @@ ("subtract_1" :> << <<In("dense_1", 0, 0), In("dropout_1", 0, 0)>> >>),
          "subtract_1")

\* one LSTM applied to two inputs: two inbound nodes, each with its own
\* zero states
MC_SharedLstm ==
    Model(<<"input_1", "input_2", "lstm_1">>,
          ("input_1" :> "InputLayer") @@ ("input_2" :> "InputLayer") @@ ("lstm_1" :> "LSTM"),
          ("input_1" :> <<>>) @@ ("input_2" :> <<>>)
            @@ ("lstm_1" :> << <<In("input_1", 0, 0)>>, <<In("input_2", 0, 0)>> >>),
          "lstm_1")

\* a layer _convert_map does not have
MC_Unsupported ==
    Model(<<"input_1", "permute_1">>,
          ("input_1" :> "InputLayer") @@ ("permute_1" :> "Permute"),
          ("input_1" :> <<>>) @@ ("permute_1" :> << <<In("input_1", 0, 0)>> >>),
          "permute_1")

\* The seq2seq model of from_keras_s2s.py: the decoder LSTM starts from the
\* encoder's states, tensors 1 (state_h) and 2 (state_c) of its node.
MC_Seq2Seq ==
    Model(<<"input_1", "input_2", "lstm_1", "lstm_2", "dense_1">>,
          ("input_1" :> "InputLayer") @@ ("input_2" :> "InputLayer")
            @@ ("lstm_1" :> "LSTM") @@ ("lstm_2" :> "LSTM") @@ ("dense_1" :> "Dense"),
          ("input_1" :> <<>>) @@ ("input_2" :> <<>>)
            @@ ("lstm_1" :> << <<In("input_1", 0, 0)>> >>)
            @@ ("lstm_2" :> << <<In("input_2", 0, 0), In("lstm_1", 0, 1), In("lstm_1", 0, 2)>> >>)
            @@ ("dense_1" :> << <<In("lstm_2", 0, 0)>> >>),
          "dense_1")

\* Two stacked LSTMs: the second reads the first's output sequence only.
MC_Stacked ==
    Model(<<"input_1", "lstm_1", "lstm_2">>,
          ("input_1" :> "InputLayer") @@ ("lstm_1" :> "LSTM") @@ ("lstm_2" :> "LSTM"),
          ("input_1" :> <<>>) @@ ("lstm_1" :> << <<In("input_1", 0, 0)>> >>)
            @@ ("lstm_2" :> << <<In("lstm_1", 0, 0)>> >>),
          "lstm_2")

\* dense_1 applied twice, the second time to dense_2's output; Keras lists
\* a shared layer at the depth of its deepest node, before dense_2.
MC_SharedLate ==
    Model(<<"input_1", "dense_1", "dense_2">>,
          ("input_1" :> "InputLayer") @@ ("dense_1" :> "Dense") @@ ("dense_2" :> "Dense"),
          ("input_1" :> <<>>)
            @@ ("dense_1" :> << <<In("input_1", 0, 0)>>, <<In("dense_2", 0, 0)>> >>)
            @@ ("dense_2" :> << <<In("dense_1", 0, 0)>> >>),
          "dense_1")

MC_Keras2Models == {MC_Chain}
MC_Seq2SeqModels == {MC_Seq2Seq}
MC_StackedModels == {MC_Stacked}
MC_SharedLateModels == {MC_SharedLate}

MC_PassModels ==
    {MC_Chain, MC_Merge, MC_Shared, MC_Lstm, MC_Dropout, MC_SharedLstm, MC_Unsupported}
=============================================================================
