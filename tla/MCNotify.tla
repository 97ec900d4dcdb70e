----------------------------- MODULE MCNotify ------------------------------
(* Instances of Notify for model checking: the bits of a signal register.  *)
EXTENDS Notify

OneBit == {1}
TwoBits == {1, 2}
=============================================================================
