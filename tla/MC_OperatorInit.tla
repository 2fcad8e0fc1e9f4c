------------------------- MODULE MC_OperatorInit -------------------------
(* An operator with two inputs and one output, for OperatorInit.          *)
EXTENDS OperatorInit

MCInOrder  == <<"in1", "in2">>
MCOutOrder == <<"out">>
MCAnySize  == -1    \* IOSpec::kAnySize
=============================================================================
