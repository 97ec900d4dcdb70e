---------------------------- MODULE MCPncModule ----------------------------
(* Instances of PncModule for model checking.                              *)
EXTENDS PncModule

OneBit == {1}
=============================================================================
