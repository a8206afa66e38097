--------------------------- MODULE MCI2CInterrupt ---------------------------
(* Scripts for the model checker: which rounds the two applications run.   *)
EXTENDS I2CLockstepInv

Ops == {"write", "read"}

Matched(op, n) == [op |-> op, M |-> n, S |-> n]

(* One round of either direction and of every size that the code treats    *)
(* apart (1, 2, 3) and one more.                                           *)
OneRound == {<<Matched(op, n)>> : op \in Ops, n \in 1 .. 4}

(* Two rounds, so that what the first leaves in the registers meets the    *)
(* second.                                                                 *)
TwoRounds ==
  {<<Matched(o1, n1), Matched(o2, n2)>> : o1 \in Ops, n1 \in 1 .. 4, o2 \in Ops, n2 \in 1 .. 4}

(* The two sides need not agree on the size.                               *)
AnySizes == {<<[op |-> op, M |-> m, S |-> s]>> : op \in Ops, m \in 1 .. 4, s \in 1 .. 4}

(* The master sends one byte more than the slave's buffer holds.           *)
LongWrite == {<<[op |-> "write", M |-> 2, S |-> 1]>>}
=============================================================================
