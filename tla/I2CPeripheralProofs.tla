-------------------------- MODULE I2CPeripheralProofs --------------------------
(***************************************************************************)
(* Lemmas about the peripheral and the bus that the proofs of every        *)
(* transfer mode use.                                                      *)
(***************************************************************************)
EXTENDS I2CPeripheral, SequenceTheorems, TLAPS

(* What is read from the data register is a sequence of bytes, garbage     *)
(* standing for a read of an empty register.                               *)
LEMMA ReceivedType ==
  ASSUME rx \in [Node -> Seq(Byte)], NEW n \in Node, NEW k \in Nat
  PROVE  Received(n, k) \in Seq(Byte) /\ Len(Received(n, k)) = k
<1>1. \A i \in 1 .. k : (IF i <= Len(rx[n]) THEN rx[n][i] ELSE Garbage) \in Byte
  BY DEF Byte, Garbage
<1>2. Received(n, k) \in [1 .. k -> Byte]
  BY <1>1 DEF Received
<1> QED
  BY <1>2

(* What a read leaves in the data register.                                *)
LEMMA RestType ==
  ASSUME NEW s \in Seq(Byte), NEW k \in Nat
  PROVE  SubSeq(s, k + 1, Len(s)) \in Seq(Byte)
BY SubSeqProperties

(* One node's entry of a function replaced by a value of its range.        *)
LEMMA UpdateType ==
  ASSUME NEW R, NEW f \in [Node -> R], NEW n \in Node, NEW v \in R
  PROVE  [f EXCEPT ![n] = v] \in [Node -> R]
OBVIOUS

(* A byte that the master clocks out.                                      *)
LEMMA WriteByteTypes ==
  ASSUME HwTypeOK, NEW lost \in BOOLEAN, HwWriteByte(lost)
  PROVE  HwTypeOK'
<1> DEFINE ok == sel /\ "ACKEN" \in ctrl["S"] /\ ~lost
<1> "M" \in Node /\ "S" \in Node
  BY DEF Node
<1>1. tx["M"] \in Seq(Byte) /\ tx["M"] # <<>> /\ rx["S"] \in Seq(Byte)
  BY DEF HwWriteByte, HwTypeOK
<1>2. Append(rx["S"], Head(tx["M"])) \in Seq(Byte) /\ Tail(tx["M"]) \in Seq(Byte)
  BY <1>1, HeadTailProperties
<1>3. <<>> \in Seq(Byte)
  OBVIOUS
<1>4. rx' \in {rx, [rx EXCEPT !["S"] = Append(rx["S"], Head(tx["M"]))]}
  BY DEF HwWriteByte
<1>5. tx' \in {[tx EXCEPT !["M"] = Tail(tx["M"])], [tx EXCEPT !["M"] = <<>>]}
  BY DEF HwWriteByte
<1>6. rx' \in [Node -> Seq(Byte)]
  BY <1>2, <1>4, UpdateType DEF HwTypeOK
<1>7. tx' \in [Node -> Seq(Byte)]
  BY <1>2, <1>3, <1>5, UpdateType DEF HwTypeOK
<1>8. /\ flags' \in {flags, [flags EXCEPT !["M"] = flags["M"] \cup {"ACKFAIL"}]}
      /\ phase' \in {phase, "closing"}
      /\ clocked' = clocked + 1
      /\ acked' \in {acked, acked + 1}
      /\ UNCHANGED <<ctrl, ints, dir, sel>>
  <2>1. clocked' = clocked + 1 /\ UNCHANGED <<ctrl, ints, dir, sel>>
    BY DEF HwWriteByte
  <2>2. CASE ok
    BY <2>1, <2>2 DEF HwWriteByte
  <2>3. CASE ~ok
    BY <2>1, <2>3 DEF HwWriteByte
  <2>4. QED
    BY <2>2, <2>3
<1>9. flags' \in [Node -> SUBSET Flags]
  BY <1>8 DEF HwTypeOK, Flags
<1>10. QED
  BY <1>6, <1>7, <1>8, <1>9 DEF HwTypeOK

(* A byte that the master clocks in.                                       *)
LEMMA ReadByteTypes ==
  ASSUME HwTypeOK, NEW acks, HwReadByteAck(acks)
  PROVE  HwTypeOK'
<1> DEFINE byte == IF sel THEN Head(tx["S"]) ELSE Garbage
<1> "M" \in Node /\ "S" \in Node
  BY DEF Node
<1>1. dir = "read" /\ ~SlaveStretches /\ tx["S"] \in Seq(Byte) /\ rx["M"] \in Seq(Byte)
  BY DEF HwReadByteAck, HwTypeOK
<1>2. sel => tx["S"] # <<>>
  BY <1>1 DEF SlaveStretches
<1>3. sel => Head(tx["S"]) \in Byte /\ Tail(tx["S"]) \in Seq(Byte)
  BY <1>1, <1>2, HeadTailProperties
<1>4. Garbage \in Byte
  BY DEF Garbage, Byte
<1>5. Append(rx["M"], byte) \in Seq(Byte)
  BY <1>1, <1>3, <1>4
<1>6. rx' = [rx EXCEPT !["M"] = Append(rx["M"], byte)]
  BY DEF HwReadByteAck
<1>7. tx' = IF sel THEN [tx EXCEPT !["S"] = Tail(tx["S"])] ELSE tx
  BY DEF HwReadByteAck
<1>8. rx' \in [Node -> Seq(Byte)]
  BY <1>5, <1>6, UpdateType DEF HwTypeOK
<1>9. tx' \in [Node -> Seq(Byte)]
  BY <1>3, <1>7, UpdateType DEF HwTypeOK
<1>10. /\ flags' \in {flags, [flags EXCEPT !["S"] = flags["S"] \cup {"ACKFAIL"}]}
       /\ phase' \in {"data", "closing"}
       /\ clocked' = clocked + 1
       /\ acked' \in {acked, acked + 1}
       /\ sel' \in BOOLEAN
       /\ UNCHANGED <<ctrl, ints, dir>>
  BY DEF HwReadByteAck
<1>11. flags' \in [Node -> SUBSET Flags]
  BY <1>10 DEF HwTypeOK, Flags
<1>12. QED
  BY <1>8, <1>9, <1>10, <1>11 DEF HwTypeOK

(* The bus steps that move no byte of a buffer, and the garbage byte.      *)
LEMMA BusStepTypes ==
  ASSUME HwTypeOK,
         \/ HwStart \/ HwRestart \/ HwAddrAck \/ HwAddrNack \/ HwOverrunByte
         \/ HwSlaveRelease \/ HwStop \/ \E n \in Node : HwBusErr(n)
  PROVE  HwTypeOK'
<1> USE DEF HwTypeOK, busVars, Node, CtrlBits, Flags
<1>1. CASE HwStart
  BY <1>1 DEF HwStart
<1>2. CASE HwRestart
  BY <1>2 DEF HwRestart
<1>3. CASE HwAddrAck
  BY <1>3 DEF HwAddrAck
<1>4. CASE HwAddrNack
  BY <1>4 DEF HwAddrNack
<1>5. CASE HwOverrunByte
  <2>1. Append(rx["M"], Garbage) \in Seq(Byte)
    BY DEF Byte, Garbage
  <2>2. QED
    BY <1>5, <2>1 DEF HwOverrunByte
<1>6. CASE HwSlaveRelease
  BY <1>6 DEF HwSlaveRelease
<1>7. CASE HwStop
  BY <1>7 DEF HwStop
<1>8. CASE \E n \in Node : HwBusErr(n)
  BY <1>8 DEF HwBusErr
<1>9. QED
  BY <1>1, <1>2, <1>3, <1>4, <1>5, <1>6, <1>7, <1>8

(* A reset of a peripheral.                                                *)
LEMMA ResetTypes ==
  ASSUME HwTypeOK, NEW n \in Node, i2c_reset(n)
  PROVE  HwTypeOK'
<1>1. PICK busy \in SUBSET {"BUSYF"} : flags' = [flags EXCEPT ![n] = busy]
  BY DEF i2c_reset
<1>2. flags' \in [Node -> SUBSET Flags]
  BY <1>1 DEF HwTypeOK, Flags
<1>3. ctrl' \in [Node -> SUBSET CtrlBits] /\ ints' \in [Node -> SUBSET Interrupts]
  BY DEF i2c_reset, HwTypeOK
<1>4. tx' \in [Node -> Seq(Byte)] /\ rx' \in [Node -> Seq(Byte)]
  BY DEF i2c_reset, HwTypeOK
<1>5. QED
  BY <1>2, <1>3, <1>4 DEF i2c_reset, HwTypeOK

=============================================================================
