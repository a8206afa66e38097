------------------------------ MODULE MCI2CDma ------------------------------
(* Scripts, environments and modes for the model checker.                  *)
EXTENDS I2CDmaInv

Matched(op, n, r) == [op |-> op, M |-> n, S |-> n, reg |-> r]

(* Two rounds between boards, of the sizes that the code treats apart.     *)
Boards ==
  {<<Matched(o1, n1, 0), Matched(o2, n2, 0)>> :
     o1 \in {"write", "read"}, n1 \in {1, 3}, o2 \in {"write", "read"}, n2 \in 1 .. 2}

(* A write of registers and a read that overlaps it.                       *)
Registers ==
  {<<Matched("mem_write", n1, 2), Matched("mem_read", n2, r)>> :
     n1 \in 1 .. 2, n2 \in {1, 3}, r \in 1 .. 3}

(* The two boards need not agree on the size.                              *)
AnySizes ==
  {<<[op |-> op, M |-> m, S |-> s, reg |-> 0]>> :
     op \in {"write", "read"}, <<m, s>> \in {<<1, 2>>, <<2, 1>>, <<2, 2>>}}

Environment(f, t, k, r, s, p, d) ==
  [faults |-> f, timeouts |-> t, tries |-> k, reset |-> r, slaveFirst |-> s, prompt |-> p,
   dma |-> d]

(* A board by DMA, its partner by DMA or by polling.                       *)
AllWell(d) == Environment(0, FALSE, 0, TRUE, TRUE, TRUE, d)
Slow       == Environment(0, FALSE, 0, TRUE, TRUE, FALSE, Node)
TooEarly   == Environment(0, FALSE, 2, FALSE, FALSE, TRUE, Node)
BadLine    == Environment(1, TRUE, 1, TRUE, FALSE, TRUE, Node)

SomeScenarios ==
  ((Boards \cup Registers) \X {AllWell(Node), Slow})
    \cup (Boards \X {AllWell({"M"}), AllWell({"S"})})
    \cup (Boards \X {TooEarly})
    \cup ((AnySizes \cup {p \in Registers : p[1].M = 2 /\ p[2].M = 3 /\ p[2].reg = 3}) \X {BadLine})
=============================================================================
