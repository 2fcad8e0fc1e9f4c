-------------------------- MODULE MC_ResourceGroups --------------------------
(* Three operators in node order a, b, c, two thread pools of up to two    *)
(* members each, and the UCX device id left at its default 0.  The        *)
(* components: GPUDevices g0 (CUDA 0) and g1 (CUDA 1); an allocator al     *)
(* whose GPUDevice argument is g1; a native resource nr and a GXF         *)
(* condition cd whose arguments are g0 and al; the receivers IOSpec rxs    *)
(* with connector rx and condition ma, and an IOSpec nos without a         *)
(* connector; a clock ck.  Each operator holds one of three argument      *)
(* lists; the scheduler holds ck as an argument; the NetworkContext holds  *)
(* al as a resource and cd as an argument.                                 *)
EXTENDS GraphEntities, TLC

MCNodeOrder == <<"a", "b", "c">>
MCPoolSeq == <<"p1", "p2">>

(* The worklist of a graph c -> b -> a whose nodes were added a, b, c:    *)
(* initialize_operator runs against node order.                          *)
MCInitOrder == <<"c", "b", "a">>

MCComps == {"g0", "g1", "al", "nr", "cd", "rxs", "rx", "ma", "nos", "ck"}

MCKind ==
    ("g0" :> "GxfResource") @@ ("g1" :> "GxfResource") @@ ("al" :> "GxfResource")
    @@ ("nr" :> "NativeResource") @@ ("cd" :> "GxfCondition") @@ ("rxs" :> "IOSpec")
    @@ ("rx" :> "GxfResource") @@ ("ma" :> "GxfCondition") @@ ("nos" :> "IOSpec")
    @@ ("ck" :> "GxfResource")

MCCompArgs ==
    [c \in MCComps |->
        CASE c = "al" -> {<<"g1", "kNative">>}
          [] c = "nr" -> {<<"g0", "kNative">>}
          [] c = "cd" -> {<<"al", "kNative">>}
          [] OTHER    -> {}]

MCConnector == ("rxs" :> "rx") @@ ("nos" :> NoConnector)
MCIoConds == ("rxs" :> {"ma"}) @@ ("nos" :> {"ma"})

MCDeviceOf == [c \in MCComps |-> CASE c = "g0" -> 0 [] c = "g1" -> 1 [] OTHER -> NoDev]

MCOpArgMenu ==
    { {<<"g0", "kNative">>},
      {<<"al", "kVector">>},
      {<<"cd", "kNative">>, <<"nr", "kVector">>, <<"g1", "kArray">>,
       <<"rxs", "kVector">>, <<"nos", "kVector">>} }

MCSchedResMenu == {{}}
MCSchedArgMenu == {{<<"ck", "kNative">>}}
MCNetResMenu == {{"al"}}
MCNetArgMenu == {{<<"cd", "kNative">>}}
=============================================================================
