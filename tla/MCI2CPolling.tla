---------------------------- MODULE MCI2CPolling ----------------------------
(* Scripts and environments for the model checker.                         *)
EXTENDS I2CReceivedInv

Matched(op, n, r) == [op |-> op, M |-> n, S |-> n, reg |-> r]

(* Two rounds between boards, of the sizes that the code treats apart (1,  *)
(* 2, 3) and one more.                                                     *)
Boards ==
  {<<Matched(o1, n1, 0), Matched(o2, n2, 0)>> :
     o1 \in {"write", "read"}, n1 \in 1 .. 4, o2 \in {"write", "read"}, n2 \in 1 .. 2}

(* A write of registers and a read that overlaps it.                       *)
Registers ==
  {<<Matched("mem_write", n1, 2), Matched("mem_read", n2, r)>> :
     n1 \in 1 .. 3, n2 \in 1 .. 4, r \in 1 .. 3}

(* The two boards need not agree on the size.                              *)
AnySizes ==
  {<<[op |-> op, M |-> m, S |-> s, reg |-> 0]>> :
     op \in {"write", "read"}, <<m, s>> \in {<<1, 2>>, <<2, 1>>, <<3, 2>>, <<2, 3>>}}

Environment(f, t, k, r, s, p) ==
  [faults |-> f, timeouts |-> t, tries |-> k, reset |-> r, slaveFirst |-> s, prompt |-> p,
   dma |-> {}]

AllWell  == Environment(0, FALSE, 0, TRUE, TRUE, TRUE)
Slow     == Environment(0, FALSE, 0, TRUE, TRUE, FALSE)
TooEarly == Environment(0, FALSE, 2, FALSE, FALSE, TRUE)
BadLine  == Environment(1, TRUE, 1, TRUE, FALSE, TRUE)

SomeScenarios ==
  ((Boards \cup Registers) \X {AllWell, Slow})
    \cup (Boards \X {TooEarly})
    \cup ((AnySizes \cup {p \in Registers : p[1].M = 2 /\ p[2].M # 3}) \X {BadLine})
=============================================================================
