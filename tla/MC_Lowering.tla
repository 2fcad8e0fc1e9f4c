---------------------------- MODULE MC_Lowering ----------------------------
(***************************************************************************)
(* The operators of MC_AddFlow, composed by compose(), and the items of an *)
(* inter-fragment connection map over them: two items on w's kAnySize     *)
(* input m, one on v's "receivers" parameter, one on g's plain input "in"  *)
(* and one on a's output.  Each item gets its virtual operator (vt3, vr1,  *)
(* ...) and each input item its ForwardOp (fw1, ...).                      *)
(***************************************************************************)
EXTENDS Lowering

MCUserOps == {"a", "g", "v", "w"}
MCItems == 1..5
MCItemOp == <<"w", "w", "a", "v", "g">>
MCItemPort == <<"m", "m", "out", "receivers", "in">>
MCItemIo == <<"in", "in", "out", "in", "in">>
MCVOp == <<"vr1", "vr2", "vt3", "vr4", "vr5">>
MCFwOp == <<"fw1", "fw2", "none", "fw4", "fw5">>
Virtual == {"vr1", "vr2", "vt3", "vr4", "vr5"}
Forward == {"fw1", "fw2", "fw4", "fw5"}

MCOps == MCUserOps \cup Virtual \cup Forward
\* VirtualOperator and ForwardOp are native operators.
MCNative == MCOps \ {"g"}
(* VirtualReceiverOp::setup declares an output named after the port,     *)
(* VirtualTransmitterOp::setup an input; ForwardOp "in" and "out".       *)
MCDeclOuts == [op \in MCOps |-> CASE op = "a" -> {"out"}
                                  [] op = "g" -> {"out", "out2"}
                                  [] op = "w" -> {"out"}
                                  [] op \in Forward -> {"out"}
                                  [] op \in Virtual \ {"vt3"} ->
                                        {MCItemPort[CHOOSE c \in MCItems : MCVOp[c] = op]}
                                  [] OTHER -> {}]
MCDeclIns == [op \in MCOps |-> CASE op = "g" -> {"in"}
                                 [] op = "w" -> {"m"}
                                 [] op \in Forward -> {"in"}
                                 [] op = "vt3" -> {"out"}
                                 [] OTHER -> {}]
MCAnyIns == [op \in MCOps |-> IF op = "w" THEN {"m"} ELSE {}]
MCVecParams == [op \in MCOps |-> CASE op = "v" -> {"receivers"}
                                   [] op = "w" -> {"m"}
                                   [] OTHER -> {}]
MCRank == ("" :> 0) @@ ("__input_exec__" :> 1) @@ ("__output_exec__" :> 2)
          @@ ("in" :> 3) @@ ("m" :> 4) @@ ("out" :> 5) @@ ("out2" :> 6)
          @@ ("receivers" :> 7)
MCPortPairs ==
    { {}, {<<"out", "in">>}, {<<"out2", "in">>}, {<<"out", "m">>},
      {<<"out", "receivers">>}, {<<"out", "m">>, <<"out", "receivers">>} }
=============================================================================
