----------------------------- MODULE MCCDCData -----------------------------
(* Traffic for the model checker.                                          *)
EXTENDS CDCDataInv

Env(out, msgs, losses, resets) ==
  [out |-> out, msgs |-> msgs, losses |-> losses, resets |-> resets]

(* Short and full packets, messages of one packet, of a full one and of    *)
(* more than one.                                                          *)
SomeEnvironments ==
  {Env(out, msgs, losses, 2 - losses) :
     out \in {<<1, 2, 2>>, <<2, 1>>}, msgs \in {<<1, 4>>, <<3, 2>>}, losses \in 0 .. 2}
=============================================================================
