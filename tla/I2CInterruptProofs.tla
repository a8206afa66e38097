-------------------------- MODULE I2CInterruptProofs --------------------------
(***************************************************************************)
(* That I2CInterruptInv!IInv is inductive, and the theorems that follow    *)
(* from it.  A step belongs to one node or to the bus; each of the four    *)
(* parts of IInv has one lemma for the main thread, one for the handlers   *)
(* and one for the bus.  Then the same for two boards in step,             *)
(* LockstepInv, and for the bytes of a bad line, FramesInv.                *)
(***************************************************************************)
EXTENDS I2CFramesInv, I2CPeripheralProofs, SequenceTheorems

(***************************************************************************)
(* Every step is type correct, and a step of one board leaves the other    *)
(* board's registers, handle and thread alone.                             *)
(***************************************************************************)

(* A round that a node is in has a size that fits the counter, and says    *)
(* which of the interrupt-mode calls the node makes.                       *)
LEMMA PlanFacts ==
  ASSUME plan \in Plans, NEW n \in Node, round[n] \in 1 .. Len(plan)
  PROVE  /\ Size(n) \in UInt16 \ {0}
         /\ MyRound(n).op \in {"write", "read"}
         /\ ModeOf(n) \in Modes
<1>1. plan \in Seq(Round)
  BY PlansAssumption
<1>2. plan[round[n]] \in Round
  BY <1>1
<1>3. MyRound(n).op \in {"write", "read"} /\ Size(n) \in UInt16 \ {0}
  BY <1>2 DEF MyRound, Size, Round, Node
<1> QED
  BY <1>3 DEF ModeOf, Modes

-----------------------------------------------------------------------------
(* Type correctness, one action at a time.                                 *)

(* The main thread: i2c_config, the calls and their waits.                 *)
LEMMA MainTypes ==
  ASSUME TypeOK, HandleInv, NEW n \in Node, Main(n)
  PROVE  TypeOK'
<1> USE DEF TypeOK, HwTypeOK, SwTypeOK, hwVars, perVars, busVars, handle, app, Goto, Return, Fail,
            SetCtrl, ClearFlags, Node, CtrlBits, Flags, Interrupts, MainPc, Errors, Results, At
<1>1. CASE StartCall(n)
  <2>1. Size(n) \in UInt16 /\ ModeOf(n) \in Modes
    BY <1>1, PlanFacts DEF StartCall, HandleInv, HandleOf
  <2>2. QED
    BY <1>1, <2>1 DEF StartCall
<1>2. CASE BusyTimeout(n)
  BY <1>2 DEF BusyTimeout
<1>3. CASE EnableInterrupts(n)
  BY <1>3 DEF EnableInterrupts, i2c_interrupt_enable
<1>4. CASE i2c_wait_end(n)
  BY <1>4, SMTT(30) DEF i2c_wait_end
<1>5. CASE NextRound(n)
  <2>1. round' \in [Node -> Nat \ {0}]
    BY <1>5, SMTT(30) DEF NextRound
  <2>2. pc' \in [Node -> MainPc]
    BY <1>5, SMTT(30) DEF NextRound
  <2>3. QED
    BY <1>5, <2>1, <2>2 DEF NextRound
<1>6. CASE i2c_config(n)
  BY <1>6, SMTT(30) DEF i2c_config, i2c_reset
<1>7. CASE Retry(n)
  BY <1>7, SMTT(30) DEF Retry
<1>8. CASE GiveUp(n)
  BY <1>8, SMTT(30) DEF GiveUp
<1>9. CASE MasterStart
  BY <1>9 DEF MasterStart
<1>10. CASE MasterSendAddress
  BY <1>10 DEF MasterSendAddress, i2c_7bit_address_send
<1>11. CASE MasterClearAddr
  BY <1>11, SMTT(30) DEF MasterClearAddr
<1>12. CASE MasterEv6Stop
  BY <1>12 DEF MasterEv6Stop
<1>13. CASE MasterEv6Ack
  BY <1>13 DEF MasterEv6Ack
<1>14. CASE MasterAddrFail \/ MasterFailStop
  BY <1>14 DEF MasterAddrFail, MasterFailStop
<1>15. CASE MasterStepTimeout
  BY <1>15 DEF MasterStepTimeout
<1>16. CASE SlaveListen
  BY <1>16 DEF SlaveListen
<1>17. CASE SlaveClearAddr
  BY <1>17 DEF SlaveClearAddr
<1>18. CASE SlaveStepTimeout
  BY <1>18 DEF SlaveStepTimeout
<1>19. QED
  BY <1>1, <1>2, <1>3, <1>4, <1>5, <1>6, <1>7, <1>8, <1>9, <1>10, <1>11, <1>12, <1>13,
     <1>14, <1>15, <1>16, <1>17, <1>18 DEF Main, MasterMain, SlaveMain

(* k bytes taken from the data register: rx, the buffer and its pointer    *)
(* keep their types, provided that the counter allows k.                   *)
LEMMA ReadDataTypes ==
  ASSUME TypeOK, NEW n \in Node, NEW k \in {1, 2}, k <= pcount[n], ReadData(n, k)
  PROVE  /\ mem' \in [Node -> Seq(Byte)]
         /\ rx' \in [Node -> Seq(Byte)]
         /\ pbuff' \in [Node -> Nat]
         /\ pcount' \in [Node -> UInt16]
<1>1. Received(n, k) \in Seq(Byte)
  BY ReceivedType DEF TypeOK, HwTypeOK
<1>2. mem[n] \o Received(n, k) \in Seq(Byte)
  BY <1>1 DEF TypeOK, SwTypeOK
<1>3. SubSeq(rx[n], k + 1, Len(rx[n])) \in Seq(Byte)
  BY RestType DEF TypeOK, HwTypeOK
<1>4. pcount[n] - k \in UInt16
  BY DEF TypeOK, SwTypeOK, UInt16
<1>5. mem' \in [Node -> Seq(Byte)]
  BY <1>2 DEF ReadData, TypeOK, SwTypeOK
<1>6. rx' \in [Node -> Seq(Byte)]
  BY <1>3 DEF ReadData, i2c_data_receive, TypeOK, HwTypeOK
<1>7. pbuff' \in [Node -> Nat] /\ pcount' \in [Node -> UInt16]
  BY <1>4 DEF ReadData, Minus, TypeOK, SwTypeOK
<1>8. QED
  BY <1>5, <1>6, <1>7

(* Every step of the bus.                                                  *)
LEMMA BusTypes ==
  ASSUME TypeOK, Bus \/ Fault
  PROVE  TypeOK'
<1> USE DEF TypeOK
<1>1. SwTypeOK'
  <2>1. Quiet /\ faults' \in {faults, faults + 1}
    BY DEF Bus, Fault
  <2>2. QED
    BY <2>1 DEF Quiet, handle, app, SwTypeOK
<1>2. QED
  BY <1>1, BusStepTypes, WriteByteTypes, ReadByteTypes DEF Bus, Fault, HwReadByte

(* A byte put into the data register; the counter must not be zero.        *)
LEMMA SendDataTypes ==
  ASSUME TypeOK, NEW n \in Node, pcount[n] # 0, SendData(n)
  PROVE  /\ tx' \in [Node -> Seq(Byte)]
         /\ pbuff' \in [Node -> Nat]
         /\ pcount' \in [Node -> UInt16]
<1>1. <<round[n], pbuff[n] + 1>> \in Byte
  BY DEF TypeOK, SwTypeOK, Byte
<1>2. Append(tx[n], <<round[n], pbuff[n] + 1>>) \in Seq(Byte)
  BY <1>1 DEF TypeOK, HwTypeOK
<1>3. tx' \in [Node -> Seq(Byte)]
  BY <1>2, UpdateType DEF SendData, i2c_data_send, TypeOK, HwTypeOK
<1>4. 1 <= pcount[n] /\ pcount[n] - 1 \in UInt16
  BY DEF TypeOK, SwTypeOK, UInt16
<1>5. pbuff' \in [Node -> Nat] /\ pcount' \in [Node -> UInt16]
  BY <1>4 DEF SendData, Minus, TypeOK, SwTypeOK
<1>6. QED
  BY <1>3, <1>5

-----------------------------------------------------------------------------
(* A handler runs in its own part of a call, in the mode of the round.     *)
LEMMA HandlerContext ==
  ASSUME TypeOK, HandleInv, InterruptInv, NEW n \in Node, ints[n] # {} \/ isr[n] # "none"
  PROVE  HandlersTurn(n) /\ InCall(n) /\ mode[n] = ModeOf(n) /\ BoundsOf(n)
<1>1. HandlersTurn(n)
  BY DEF InterruptInv, InterruptOf
<1>2. InCall(n)
  BY <1>1 DEF HandlersTurn, InCall
<1>3. QED
  BY <1>1, <1>2 DEF HandleInv, HandleOf

(* In a master read the handler finds two bytes only when the counter is   *)
(* at least two, and one byte only when it is at least one.                *)
LEMMA ReadCounts ==
  ASSUME TypeOK, HandleInv, InterruptInv, ReadInv,
         isr["M"] = "none", EvtRequest("M"), mode["M"] = "I2C_INT_MA_RX"
  PROVE  /\ InData /\ BoundsOf("M")
         /\ Len(rx["M"]) \in Nat /\ Len(rx["M"]) <= pcount["M"]
         /\ TDC("M") => Len(rx["M"]) = 2 /\ pcount["M"] >= 2
         /\ ~TDC("M") /\ RDBF("M") => Len(rx["M"]) >= 1 /\ pcount["M"] >= 1
<1>1. "M" \in Node
  BY DEF Node
<1>2. HandlersTurn("M") /\ BoundsOf("M")
  BY <1>1, HandlerContext DEF EvtRequest
<1>3. InData
  BY <1>2 DEF InData, HandlersTurn
<1>4. rx["M"] \in Seq(Byte) /\ pcount["M"] \in Nat /\ pbuff["M"] \in Nat
  BY <1>1 DEF TypeOK, HwTypeOK, SwTypeOK, UInt16
<1>5. dir = "read" /\ clocked = pbuff["M"] + Len(rx["M"])
  BY <1>3 DEF ReadInv
<1>6. clocked <= Size("M")
  BY <1>2, <1>3, <1>4, <1>5 DEF ReadInv, ReadExact, BoundsOf
<1>7. Len(rx["M"]) \in Nat /\ Len(rx["M"]) <= pcount["M"]
  BY <1>2, <1>4, <1>5, <1>6 DEF BoundsOf
<1>8. TDC("M") <=> Len(rx["M"]) = 2
  BY <1>5 DEF TDC, Transmitting
<1>9. rx["M"] # <<>> => Len(rx["M"]) >= 1
  BY <1>4
<1>10. TDC("M") => pcount["M"] >= 2
  BY <1>4, <1>7, <1>8
<1>11. RDBF("M") => pcount["M"] >= 1
  BY <1>4, <1>7, <1>9 DEF RDBF
<1>12. QED
  BY <1>2, <1>3, <1>7, <1>8, <1>9, <1>10, <1>11 DEF RDBF

(* Every handler. The counter of a handler never wraps because each branch *)
(* of the handlers is entered with enough left of it (ReadCounts).         *)
LEMMA HandlerTypes ==
  ASSUME TypeOK, HandleInv, InterruptInv, ReadInv, NEW n \in Node, Handler(n)
  PROVE  TypeOK'
<1> DEFINE Counts == /\ rx' \in [Node -> Seq(Byte)]
                     /\ tx' \in [Node -> Seq(Byte)]
                     /\ mem' \in [Node -> Seq(Byte)]
                     /\ pbuff' \in [Node -> Nat]
                     /\ pcount' \in [Node -> UInt16]
<1>1. /\ ctrl' \in [Node -> SUBSET CtrlBits]
      /\ ints' \in [Node -> SUBSET Interrupts]
      /\ flags' \in [Node -> SUBSET Flags]
      /\ status' \in [Node -> {"START", "END"}]
      /\ isr' \in [Node -> {"none", "ackfail"}]
      /\ error_code' \in [Node -> Errors]
  <2>1. /\ ctrl \in [Node -> SUBSET CtrlBits] /\ ints \in [Node -> SUBSET Interrupts]
        /\ flags \in [Node -> SUBSET Flags] /\ status \in [Node -> {"START", "END"}]
        /\ isr \in [Node -> {"none", "ackfail"}] /\ error_code \in [Node -> Errors]
    BY DEF TypeOK, HwTypeOK, SwTypeOK
  <2> USE <2>1 DEF SetCtrl, ClearFlags, TransferComplete, Fail, i2c_interrupt_disable,
                   CtrlBits, Errors
  <2>2. CASE i2c_evt_irq_handler(n)
    <3>1. UNCHANGED error_code
      BY <2>2 DEF i2c_evt_irq_handler
    <3>2. CASE i2c_master_tx_isr_int(n)
      BY <3>1, <3>2 DEF i2c_master_tx_isr_int
    <3>3. CASE MasterRxTdc(n)
      BY <3>1, <3>3 DEF MasterRxTdc
    <3>4. CASE MasterRxRdbf(n)
      BY <3>1, <3>4 DEF MasterRxRdbf
    <3>5. CASE i2c_slave_tx_isr_int(n)
      BY <3>1, <3>5 DEF i2c_slave_tx_isr_int
    <3>6. CASE i2c_slave_rx_isr_int(n)
      BY <3>1, <3>6 DEF i2c_slave_rx_isr_int
    <3>7. QED
      BY <2>2, <3>2, <3>3, <3>4, <3>5, <3>6 DEF i2c_evt_irq_handler, i2c_master_rx_isr_int
  <2>3. CASE SlaveTxEnd(n)
    BY <2>3 DEF SlaveTxEnd
  <2>4. CASE i2c_err_irq_handler(n)
    BY <2>4 DEF i2c_err_irq_handler
  <2>5. QED
    BY <2>2, <2>3, <2>4 DEF Handler
<1>2. UNCHANGED <<busVars, mode, pc, ret, app, faults>>
  BY DEF Handler, i2c_evt_irq_handler, SlaveTxEnd, i2c_err_irq_handler
<1>3. Counts
  <2>1. pcount[n] \in Nat /\ (pcount[n] # 0 => 1 <= pcount[n])
    BY DEF TypeOK, SwTypeOK, UInt16
  <2>2. ASSUME NEW k \in {1, 2}, k <= pcount[n], ReadData(n, k), UNCHANGED tx
        PROVE  Counts
    BY <2>2, ReadDataTypes DEF TypeOK, HwTypeOK
  <2>3. ASSUME SendData(n), pcount[n] # 0, UNCHANGED <<rx, mem>>
        PROVE  Counts
    BY <2>3, SendDataTypes DEF TypeOK, HwTypeOK, SwTypeOK
  <2>4. ASSUME UNCHANGED <<rx, tx, mem, pbuff, pcount>>
        PROVE  Counts
    BY <2>4 DEF TypeOK, HwTypeOK, SwTypeOK
  <2>5. CASE i2c_evt_irq_handler(n) /\ i2c_master_tx_isr_int(n)
    BY <2>3, <2>4, <2>5 DEF i2c_evt_irq_handler, i2c_master_tx_isr_int
  <2>6. CASE i2c_evt_irq_handler(n) /\ mode[n] = "I2C_INT_MA_RX" /\ i2c_master_rx_isr_int(n)
    <3>1. n = "M" /\ isr["M"] = "none" /\ EvtRequest("M")
      BY <2>6, HandlerContext DEF i2c_evt_irq_handler, EvtRequest, ModeOf
    <3>2. /\ TDC(n) => 2 <= pcount[n]
          /\ ~TDC(n) /\ RDBF(n) => 1 <= pcount[n]
      BY <2>1, <2>6, <3>1, ReadCounts
    <3>3. CASE MasterRxTdc(n)
      <4>1. (ReadData(n, 1) \/ ReadData(n, 2)) /\ UNCHANGED tx
        BY <3>3 DEF MasterRxTdc
      <4>2. 1 <= pcount[n] /\ 2 <= pcount[n]
        BY <2>1, <3>2, <3>3 DEF MasterRxTdc
      <4>3. QED
        BY <2>2, <4>1, <4>2
    <3>4. CASE MasterRxRdbf(n)
      <4>1. 1 <= pcount[n] /\ UNCHANGED tx
        BY <3>2, <3>4 DEF MasterRxRdbf
      <4>2. ReadData(n, 1) \/ UNCHANGED <<rx, mem, pbuff, pcount>>
        BY <3>4 DEF MasterRxRdbf
      <4>3. QED
        BY <2>2, <2>4, <4>1, <4>2
    <3>5. QED
      BY <2>6, <3>3, <3>4 DEF i2c_master_rx_isr_int
  <2>7. CASE i2c_evt_irq_handler(n) /\ i2c_slave_tx_isr_int(n)
    BY <2>3, <2>7 DEF i2c_evt_irq_handler, i2c_slave_tx_isr_int
  <2>8. CASE i2c_evt_irq_handler(n) /\ i2c_slave_rx_isr_int(n)
    BY <2>1, <2>2, <2>4, <2>8 DEF i2c_evt_irq_handler, i2c_slave_rx_isr_int
  <2>9. CASE SlaveTxEnd(n)
    BY <2>4, <2>9 DEF SlaveTxEnd
  <2>10. CASE i2c_err_irq_handler(n)
    BY <2>4, <2>10 DEF i2c_err_irq_handler
  <2>11. QED
    BY <2>5, <2>6, <2>7, <2>8, <2>9, <2>10 DEF Handler, i2c_evt_irq_handler
<1>4. QED
  BY <1>1, <1>2, <1>3 DEF TypeOK, HwTypeOK, SwTypeOK, busVars, app

-----------------------------------------------------------------------------
(* What a step of node n leaves alone.                                     *)

SameNode(m) ==
  UNCHANGED <<ctrl[m], ints[m], flags[m], rx[m], mode[m], status[m], pcount[m], error_code[m],
              pbuff[m], pc[m], isr[m], ret[m], round[m]>>

SameBus == UNCHANGED <<phase, dir, clocked, acked>>

(* A step of a main thread changes its own board and, by a START or STOP   *)
(* request or an address byte, the bus only if the board is the master.    *)
LEMMA MainLocal ==
  ASSUME TypeOK, NEW n \in Node, Main(n)
  PROVE  /\ \A m \in Node \ {n} : SameNode(m)
         /\ n = "S" => SameBus
         /\ plan' = plan
<1>1. /\ ctrl \in [Node -> SUBSET CtrlBits] /\ ints \in [Node -> SUBSET Interrupts]
      /\ flags \in [Node -> SUBSET Flags] /\ rx \in [Node -> Seq(Byte)]
      /\ mode \in [Node -> Modes] /\ status \in [Node -> {"START", "END"}]
      /\ pcount \in [Node -> UInt16] /\ error_code \in [Node -> Errors]
      /\ pbuff \in [Node -> Nat] /\ pc \in [Node -> MainPc] /\ ret \in [Node -> Results]
      /\ round \in [Node -> Nat \ {0}]
  BY DEF TypeOK, HwTypeOK, SwTypeOK
<1> USE <1>1 DEF hwVars, busVars, handle, app, Goto, Return, Fail, SetCtrl, ClearFlags,
                 SameNode, SameBus
<1>2. CASE StartCall(n)
  BY <1>2 DEF StartCall
<1>3. CASE BusyTimeout(n)
  BY <1>3 DEF BusyTimeout
<1>4. CASE EnableInterrupts(n)
  BY <1>4 DEF EnableInterrupts, i2c_interrupt_enable
<1>5. CASE i2c_wait_end(n)
  BY <1>5 DEF i2c_wait_end
<1>6. CASE NextRound(n)
  BY <1>6 DEF NextRound
<1>7. CASE i2c_config(n)
  BY <1>7 DEF i2c_config, i2c_reset
<1>8. CASE Retry(n)
  BY <1>8 DEF Retry
<1>9. CASE GiveUp(n)
  BY <1>9 DEF GiveUp
<1>10. CASE n = "M" /\ MasterMain
  <2>1. CASE MasterStart
    BY <1>10, <2>1 DEF MasterStart
  <2>2. CASE MasterSendAddress
    BY <1>10, <2>2 DEF MasterSendAddress, i2c_7bit_address_send
  <2>3. CASE MasterClearAddr
    BY <1>10, <2>3 DEF MasterClearAddr
  <2>4. CASE MasterEv6Stop
    BY <1>10, <2>4 DEF MasterEv6Stop
  <2>5. CASE MasterEv6Ack
    BY <1>10, <2>5 DEF MasterEv6Ack
  <2>6. CASE MasterAddrFail \/ MasterFailStop
    BY <1>10, <2>6 DEF MasterAddrFail, MasterFailStop
  <2>7. CASE MasterStepTimeout
    BY <1>10, <2>7 DEF MasterStepTimeout
  <2>8. QED
    BY <1>10, <2>1, <2>2, <2>3, <2>4, <2>5, <2>6, <2>7 DEF MasterMain
<1>11. CASE n = "S" /\ SlaveMain
  <2>1. CASE SlaveListen
    BY <1>11, <2>1 DEF SlaveListen
  <2>2. CASE SlaveClearAddr
    BY <1>11, <2>2 DEF SlaveClearAddr
  <2>3. CASE SlaveStepTimeout
    BY <1>11, <2>3 DEF SlaveStepTimeout
  <2>4. QED
    BY <1>11, <2>1, <2>2, <2>3 DEF SlaveMain
<1>12. QED
  BY <1>2, <1>3, <1>4, <1>5, <1>6, <1>7, <1>8, <1>9, <1>10, <1>11 DEF Main

(* A handler changes its own board only.                                   *)
LEMMA HandlerLocal ==
  ASSUME TypeOK, NEW n \in Node, Handler(n)
  PROVE  /\ \A m \in Node \ {n} : SameNode(m)
         /\ SameBus
         /\ plan' = plan
<1>1. /\ ctrl \in [Node -> SUBSET CtrlBits] /\ ints \in [Node -> SUBSET Interrupts]
      /\ flags \in [Node -> SUBSET Flags] /\ rx \in [Node -> Seq(Byte)]
      /\ status \in [Node -> {"START", "END"}] /\ pcount \in [Node -> UInt16]
      /\ error_code \in [Node -> Errors] /\ pbuff \in [Node -> Nat]
      /\ isr \in [Node -> {"none", "ackfail"}]
  BY DEF TypeOK, HwTypeOK, SwTypeOK
<1> USE <1>1 DEF busVars, app, Fail, SetCtrl, ClearFlags, TransferComplete, ReadData, SendData,
                 i2c_data_receive, i2c_interrupt_disable, SameNode, SameBus
<1>2. CASE i2c_evt_irq_handler(n)
  <2>1. UNCHANGED <<busVars, mode, error_code, pc, ret, app, faults>>
    BY <1>2 DEF i2c_evt_irq_handler
  <2>2. CASE i2c_master_tx_isr_int(n)
    BY <2>1, <2>2 DEF i2c_master_tx_isr_int
  <2>3. CASE MasterRxTdc(n)
    BY <2>1, <2>3 DEF MasterRxTdc
  <2>4. CASE MasterRxRdbf(n)
    BY <2>1, <2>4 DEF MasterRxRdbf
  <2>5. CASE i2c_slave_tx_isr_int(n)
    BY <2>1, <2>5 DEF i2c_slave_tx_isr_int
  <2>6. CASE i2c_slave_rx_isr_int(n)
    BY <2>1, <2>6 DEF i2c_slave_rx_isr_int
  <2>7. QED
    BY <1>2, <2>2, <2>3, <2>4, <2>5, <2>6 DEF i2c_evt_irq_handler, i2c_master_rx_isr_int
<1>3. CASE SlaveTxEnd(n)
  BY <1>3 DEF SlaveTxEnd
<1>4. CASE i2c_err_irq_handler(n)
  BY <1>4 DEF i2c_err_irq_handler
<1>5. QED
  BY <1>2, <1>3, <1>4 DEF Handler

(***************************************************************************)
(* The handle: HandleInv and InterruptInv.                                 *)
(***************************************************************************)

(* What a node's handle promises depends on that node's state only.        *)
LEMMA HandleFrame ==
  ASSUME NEW m \in Node, SameNode(m), plan' = plan, HandleOf(m), InterruptOf(m)
  PROVE  HandleOf(m)' /\ InterruptOf(m)'
BY DEF SameNode, HandleOf, InterruptOf, HandlersTurn, InCall, ModeOf, BoundsOf, Size, MyRound

(* One step of the main thread; what it may assume is that no handler runs *)
LEMMA MainHandle ==
  ASSUME RetriesClean, TypeOK, HandleInv, InterruptInv, NEW n \in Node, Main(n)
  PROVE  HandleInv' /\ InterruptInv'
<1>1. \A m \in Node \ {n} : HandleOf(m)' /\ InterruptOf(m)'
  BY MainLocal, HandleFrame DEF HandleInv, InterruptInv
<1>2. HandleOf(n) /\ InterruptOf(n)
  BY DEF HandleInv, InterruptInv
<1>3. /\ ints \in [Node -> SUBSET Interrupts] /\ isr \in [Node -> {"none", "ackfail"}]
      /\ mode \in [Node -> Modes] /\ status \in [Node -> {"START", "END"}]
      /\ pcount \in [Node -> UInt16] /\ pbuff \in [Node -> Nat]
      /\ pc \in [Node -> MainPc] /\ ret \in [Node -> Results]
      /\ round \in [Node -> Nat \ {0}] /\ tries \in [Node -> Nat]
  BY DEF TypeOK, HwTypeOK, SwTypeOK
<1>4. HandleOf(n)' /\ InterruptOf(n)'
  <2> USE <1>2, <1>3 DEF HandleOf, InterruptOf, HandlersTurn, InCall, At, MainRuns, Goto, Return,
                         hwVars, handle, app
  <2> DEFINE SameSize == UNCHANGED <<plan, round[n], mode[n], status[n], pcount[n], pbuff[n]>>
  <2>1. SameSize => ModeOf(n)' = ModeOf(n) /\ BoundsOf(n)' = BoundsOf(n)
    BY DEF ModeOf, BoundsOf, Size, MyRound
  <2>2. CASE StartCall(n)
    <3>1. Size(n) \in Nat /\ Size(n)' = Size(n) /\ ModeOf(n)' = ModeOf(n)
      BY <2>2, PlanFacts DEF StartCall, TypeOK, SwTypeOK, UInt16, Size, MyRound, ModeOf
    <3>2. /\ pc'[n] = "busy" /\ status'[n] = "START" /\ pbuff'[n] = 0
          /\ mode'[n] = ModeOf(n) /\ pcount'[n] = Size(n)
          /\ UNCHANGED <<ints, isr, plan, round>>
      BY <2>2 DEF StartCall
    <3>3. ints[n] = {} /\ isr[n] = "none" /\ round[n] \in 1 .. Len(plan)
      BY <2>2 DEF StartCall
    <3>4. QED
      BY <3>1, <3>2, <3>3 DEF BoundsOf
  <2>3. CASE BusyTimeout(n)
    BY <2>1, <2>3 DEF BusyTimeout
  <2>4. CASE EnableInterrupts(n)
    BY <2>1, <2>4 DEF EnableInterrupts, i2c_interrupt_enable
  <2>5. CASE i2c_wait_end(n)
    BY <2>1, <2>5 DEF i2c_wait_end
  <2>6. CASE NextRound(n)
    <3>1. status[n] = "END" /\ pc'[n] = (IF round[n] = Len(plan) THEN "done" ELSE "idle")
          /\ round'[n] = round[n] + 1 /\ UNCHANGED <<ints, isr, plan, status>>
      BY <2>6 DEF NextRound
    <3>2. plan \in Seq(Round)
      BY PlansAssumption DEF TypeOK, SwTypeOK
    <3>3. pc'[n] # "done" => round'[n] \in 1 .. Len(plan)
      BY <2>6, <3>1, <3>2 DEF NextRound
    <3>4. QED
      BY <2>6, <3>1, <3>3 DEF NextRound
  <2>7. CASE i2c_config(n)
    BY <2>7 DEF i2c_config, i2c_reset
  <2>8. CASE Retry(n)
    BY <2>8 DEF Retry, RetriesClean, CleanFailure
  <2>9. CASE GiveUp(n)
    BY <2>1, <2>9 DEF GiveUp
  <2>10. CASE n = "M" /\ MasterMain
    <3>1. CASE MasterStart
      BY <2>1, <2>10, <3>1 DEF MasterStart
    <3>2. CASE MasterSendAddress
      BY <2>1, <2>10, <3>2 DEF MasterSendAddress
    <3>3. CASE MasterClearAddr
      BY <2>1, <2>10, <3>3 DEF MasterClearAddr
    <3>4. CASE MasterEv6Stop
      BY <2>1, <2>10, <3>4 DEF MasterEv6Stop
    <3>5. CASE MasterEv6Ack
      BY <2>1, <2>10, <3>5 DEF MasterEv6Ack
    <3>6. CASE MasterAddrFail \/ MasterFailStop
      BY <2>1, <2>10, <3>6 DEF MasterAddrFail, MasterFailStop
    <3>7. CASE MasterStepTimeout
      BY <2>1, <2>10, <3>7 DEF MasterStepTimeout
    <3>8. QED
      BY <2>10, <3>1, <3>2, <3>3, <3>4, <3>5, <3>6, <3>7 DEF MasterMain
  <2>11. CASE n = "S" /\ SlaveMain
    <3>1. CASE SlaveListen
      BY <2>1, <2>11, <3>1 DEF SlaveListen
    <3>2. CASE SlaveClearAddr
      BY <2>1, <2>11, <3>2 DEF SlaveClearAddr
    <3>3. CASE SlaveStepTimeout
      BY <2>1, <2>11, <3>3 DEF SlaveStepTimeout
    <3>4. QED
      BY <2>11, <3>1, <3>2, <3>3 DEF SlaveMain
  <2>12. QED
    BY <2>2, <2>3, <2>4, <2>5, <2>6, <2>7, <2>8, <2>9, <2>10, <2>11 DEF Main
<1>5. QED
  BY <1>1, <1>4 DEF HandleInv, InterruptInv

(* A handler moves bytes between the buffer pointer and the counter.       *)
LEMMA HandlerCounts ==
  ASSUME TypeOK, HandleInv, InterruptInv, ReadInv, NEW n \in Node, Handler(n)
  PROVE  pbuff'[n] + pcount'[n] = pbuff[n] + pcount[n]
<1>1. pbuff \in [Node -> Nat] /\ pcount \in [Node -> Nat]
  BY DEF TypeOK, SwTypeOK, UInt16
<1>2. pcount[n] \in Nat /\ pbuff[n] \in Nat /\ (pcount[n] # 0 => 1 <= pcount[n])
  BY <1>1
<1>3. ASSUME NEW k \in {1, 2}, k <= pcount[n], ReadData(n, k)
      PROVE  pbuff'[n] + pcount'[n] = pbuff[n] + pcount[n]
  BY <1>1, <1>3 DEF ReadData, Minus
<1>4. ASSUME SendData(n), pcount[n] # 0
      PROVE  pbuff'[n] + pcount'[n] = pbuff[n] + pcount[n]
  BY <1>1, <1>2, <1>4 DEF SendData, Minus
<1>5. CASE i2c_evt_irq_handler(n)
  <2>1. CASE mode[n] = "I2C_INT_MA_TX" /\ i2c_master_tx_isr_int(n)
    BY <1>4, <2>1 DEF i2c_master_tx_isr_int
  <2>2. CASE mode[n] = "I2C_INT_MA_RX" /\ i2c_master_rx_isr_int(n)
    <3>1. n = "M" /\ isr["M"] = "none" /\ EvtRequest("M")
      BY <1>5, <2>2, HandlerContext DEF i2c_evt_irq_handler, EvtRequest, ModeOf
    <3>2. /\ TDC(n) => 1 <= pcount[n] /\ 2 <= pcount[n]
          /\ ~TDC(n) /\ RDBF(n) => 1 <= pcount[n]
      BY <1>2, <2>2, <3>1, ReadCounts
    <3>3. CASE MasterRxTdc(n)
      BY <1>3, <3>2, <3>3 DEF MasterRxTdc
    <3>4. CASE MasterRxRdbf(n)
      BY <1>3, <3>2, <3>4 DEF MasterRxRdbf
    <3>5. QED
      BY <2>2, <3>3, <3>4 DEF i2c_master_rx_isr_int
  <2>3. CASE i2c_slave_tx_isr_int(n)
    BY <1>4, <2>3 DEF i2c_slave_tx_isr_int
  <2>4. CASE i2c_slave_rx_isr_int(n)
    BY <1>2, <1>3, <2>4 DEF i2c_slave_rx_isr_int
  <2>5. QED
    BY <1>5, <2>1, <2>2, <2>3, <2>4 DEF i2c_evt_irq_handler
<1>6. CASE SlaveTxEnd(n) \/ i2c_err_irq_handler(n)
  BY <1>6 DEF SlaveTxEnd, i2c_err_irq_handler
<1>7. QED
  BY <1>5, <1>6 DEF Handler

(* A handler keeps the handle right: it ends the call only with its        *)
(* interrupts off, and a slave that waits for the STOP has none enabled.   *)
LEMMA HandlerHandle ==
  ASSUME TypeOK, HandleInv, InterruptInv, ReadInv, NEW n \in Node, Handler(n)
  PROVE  HandleInv' /\ InterruptInv'
<1>1. \A m \in Node \ {n} : HandleOf(m)' /\ InterruptOf(m)'
  BY HandlerLocal, HandleFrame DEF HandleInv, InterruptInv
<1>2. HandleOf(n) /\ InterruptOf(n)
  BY DEF HandleInv, InterruptInv
<1>3. HandlersTurn(n) /\ InCall(n) /\ mode[n] = ModeOf(n) /\ BoundsOf(n)
  BY HandlerContext DEF Handler, i2c_evt_irq_handler, SlaveTxEnd, i2c_err_irq_handler,
                        EvtRequest, ErrRequest
<1>4. UNCHANGED <<pc, ret, mode, round, plan>>
  BY DEF Handler, i2c_evt_irq_handler, SlaveTxEnd, i2c_err_irq_handler, app
<1>5. HandleOf(n)'
  <2>1. BoundsOf(n)' /\ mode'[n] = ModeOf(n)'
    BY <1>3, <1>4, HandlerCounts DEF BoundsOf, Size, ModeOf, MyRound
  <2>2. QED
    BY <1>2, <1>3, <1>4, <2>1 DEF HandleOf, HandlersTurn
<1>6. InterruptOf(n)'
  <2>1. /\ ints \in [Node -> SUBSET Interrupts] /\ isr \in [Node -> {"none", "ackfail"}]
        /\ status \in [Node -> {"START", "END"}]
    BY DEF TypeOK, HwTypeOK, SwTypeOK
  <2> USE <1>2, <1>3, <1>4, <2>1 DEF InterruptOf, HandlersTurn, TransferComplete,
                                     i2c_interrupt_disable
  <2>2. CASE i2c_evt_irq_handler(n)
    <3>1. CASE i2c_master_tx_isr_int(n)
      BY <2>2, <3>1 DEF i2c_evt_irq_handler, i2c_master_tx_isr_int
    <3>2. CASE MasterRxTdc(n)
      BY <2>2, <3>2 DEF i2c_evt_irq_handler, MasterRxTdc
    <3>3. CASE MasterRxRdbf(n)
      BY <2>2, <3>3 DEF i2c_evt_irq_handler, MasterRxRdbf
    <3>4. CASE mode[n] = "I2C_INT_SLA_TX" /\ i2c_slave_tx_isr_int(n)
      <4>1. n = "S"
        BY <3>4 DEF ModeOf, Node
      <4>2. QED
        BY <2>2, <3>4, <4>1 DEF i2c_evt_irq_handler, i2c_slave_tx_isr_int
    <3>5. CASE i2c_slave_rx_isr_int(n)
      BY <2>2, <3>5 DEF i2c_evt_irq_handler, i2c_slave_rx_isr_int
    <3>6. QED
      BY <2>2, <3>1, <3>2, <3>3, <3>4, <3>5 DEF i2c_evt_irq_handler, i2c_master_rx_isr_int
  <2>3. CASE SlaveTxEnd(n)
    BY <2>3 DEF SlaveTxEnd
  <2>4. CASE i2c_err_irq_handler(n)
    BY <2>4 DEF i2c_err_irq_handler
  <2>5. QED
    BY <2>2, <2>3, <2>4 DEF Handler
<1>7. QED
  BY <1>1, <1>5, <1>6 DEF HandleInv, InterruptInv

(* The bus disables and enables nothing and knows no handle.               *)
LEMMA BusHandle ==
  ASSUME HandleInv, InterruptInv, Bus \/ Fault
  PROVE  HandleInv' /\ InterruptInv'
<1>1. Quiet
  BY DEF Bus, Fault
<1>2. UNCHANGED ints
  BY DEF Bus, Fault, HwStart, HwAddrAck, HwAddrNack, HwWriteByte, HwReadByte, HwReadByteAck, HwOverrunByte,
         HwStop, HwBusErr
<1>3. QED
  BY <1>1, <1>2 DEF Quiet, handle, app, HandleInv, InterruptInv, HandleOf, InterruptOf, InCall,
                    HandlersTurn, BoundsOf, ModeOf, Size, MyRound

(***************************************************************************)
(* The master's registers: MasterInv.                                      *)
(***************************************************************************)

(* MasterInv speaks of the master's state and of the bus only.             *)
LEMMA MasterFrame ==
  ASSUME SameNode("M"), SameBus, plan' = plan, MasterInv
  PROVE  MasterInv'
BY DEF SameNode, SameBus, MasterInv, FlagInv, RestInv, StartInv, WriteInv, ReadInv, EndInv,
       Resting, AtRest, InData, InCall, ReadExact, Size, MyRound

(* So no step of the slave's code can break it.                            *)
LEMMA SlaveKeepsMaster ==
  ASSUME TypeOK, MasterInv, Main("S") \/ Handler("S")
  PROVE  MasterInv'
<1>1. "S" \in Node /\ "M" \in Node \ {"S"}
  BY DEF Node
<1>2. SameNode("M") /\ SameBus /\ plan' = plan
  <2>1. CASE Main("S")
    BY <1>1, <2>1, MainLocal, SMTT(30)
  <2>2. CASE Handler("S")
    BY <1>1, <2>2, HandlerLocal
  <2>3. QED
    BY <2>1, <2>2
<1>3. QED
  BY <1>2, MasterFrame

(* What MasterClearAddr leaves is what ReadInv asks before the first byte:  *)
(* ACKEN off for one byte, ACKNEXT set for two, ACKEN on for more.          *)
LEMMA ReadStarts ==
  ASSUME Size("M") \in Nat \ {0}, Size("M")' = Size("M"),
         phase' = "data", clocked' = 0, acked' = 0, rx'["M"] = <<>>, dir' = "read",
         "ADDR7F" \notin flags'["M"], {"GENSTART", "GENSTOP"} \cap ctrl'["M"] = {},
         pbuff'["M"] = 0, pcount'["M"] = Size("M"),
         \/ Size("M") = 1 /\ ctrl'["M"] \cap {"ACKEN", "ACKNEXT"} = {} /\ pc'["M"] = "ev6stop"
         \/ Size("M") = 2 /\ {"ACKEN", "ACKNEXT"} \subseteq ctrl'["M"] /\ pc'["M"] = "ev6ack"
         \/ /\ Size("M") > 2 /\ "ACKEN" \in ctrl'["M"] /\ "ACKNEXT" \notin ctrl'["M"]
            /\ pc'["M"] = "enable"
  PROVE  ReadInv'
<1>1. /\ "GENSTART" \notin ctrl'["M"] /\ "GENSTOP" \notin ctrl'["M"]
      /\ Len(rx'["M"]) = 0 /\ clocked' < Size("M")'
  OBVIOUS
<1>2. CASE Size("M") = 1
  BY <1>1, <1>2, SMTT(30) DEF ReadInv
<1>3. CASE Size("M") = 2
  BY <1>1, <1>3, SMTT(30) DEF ReadInv
<1>4. CASE Size("M") > 2
  BY <1>1, <1>4, SMTT(30) DEF ReadInv
<1>5. QED
  BY <1>2, <1>3, <1>4

(* The parts of a call that the master's main thread is in.                *)
LEMMA MainKeepsMaster ==
  ASSUME RetriesClean, TypeOK, HandleInv, InterruptInv, MasterInv, Main("M")
  PROVE  MasterInv'
<1>1. "M" \in Node
  BY DEF Node
<1>2. HandleOf("M") /\ InterruptOf("M")
  BY <1>1 DEF HandleInv, InterruptInv
<1>3. /\ ctrl \in [Node -> SUBSET CtrlBits] /\ flags \in [Node -> SUBSET Flags]
      /\ rx \in [Node -> Seq(Byte)]
      /\ mode \in [Node -> Modes] /\ status \in [Node -> {"START", "END"}]
      /\ pcount \in [Node -> Nat] /\ pbuff \in [Node -> Nat]
      /\ pc \in [Node -> MainPc] /\ ret \in [Node -> Results]
      /\ clocked \in Nat
  BY DEF TypeOK, HwTypeOK, SwTypeOK, UInt16
<1> USE <1>1, <1>2, <1>3 DEF MasterInv, FlagInv, RestInv, StartInv, WriteInv, ReadInv, EndInv,
          Resting, AtRest, InData, InCall, HandleOf, At, Goto, Return, SetCtrl, ClearFlags,
          hwVars, busVars, handle, app, ReadExact, Size, MyRound
<1>4. CASE StartCall("M")
  BY <1>4 DEF StartCall
<1>5. CASE BusyTimeout("M")
  BY <1>5 DEF BusyTimeout
<1>6. CASE EnableInterrupts("M")
  BY <1>6 DEF EnableInterrupts
<1>7. CASE i2c_wait_end("M")
  BY <1>7 DEF i2c_wait_end
<1>8. CASE NextRound("M")
  BY <1>8 DEF NextRound
<1>9. CASE i2c_config("M")
  BY <1>9 DEF i2c_config, i2c_reset
<1>10. CASE Retry("M")
  <2>1. "M" \in Node /\ ~ResetOnError
    BY <1>10 DEF Retry, Node
  <2>2. AtRest
    BY <1>10, <2>1 DEF Retry, RetriesClean, CleanFailure
  <2>3. QED
    BY <1>10, <2>2 DEF Retry
<1>11. CASE GiveUp("M")
  BY <1>11 DEF GiveUp
<1>12. CASE MasterStart
  <2>1. pc["M"] = "busy" /\ phase = "free" /\ "GENSTOP" \notin ctrl["M"]
    BY <1>12 DEF MasterStart
  <2>2. /\ "GENSTART" \in ctrl'["M"] /\ {"GENSTOP", "ACKNEXT"} \cap ctrl'["M"] = {}
        /\ mode["M"] = "I2C_INT_MA_RX" => "ACKEN" \in ctrl'["M"]
    BY <1>12, <2>1 DEF MasterStart
  <2>3. pc'["M"] = "startf" /\ status["M"] = "START" /\ mode["M"] = ModeOf("M")
    BY <1>12 DEF MasterStart
  <2>4. UNCHANGED <<flags, rx, busVars, mode, status>>
    BY <1>12 DEF MasterStart
  <2>5. FlagInv'
    BY <2>4
  <2>6. ~Resting' /\ ~InData'
    BY <2>3, <2>4
  <2>7. RestInv' /\ WriteInv' /\ ReadInv' /\ EndInv'
    BY <2>3, <2>4, <2>6
  <2>8. StartInv'
    BY <2>1, <2>2, <2>3, <2>4 DEF ModeOf
  <2>9. QED
    BY <2>5, <2>7, <2>8
<1>13. CASE MasterSendAddress
  BY <1>13 DEF MasterSendAddress, i2c_7bit_address_send
<1>14. CASE MasterClearAddr
  <2>1. /\ pc["M"] = "addr" /\ status["M"] = "START" /\ pbuff["M"] = 0
        /\ phase = "data" /\ clocked = 0 /\ acked = 0
        /\ rx["M"] = <<>> /\ {"GENSTART", "GENSTOP", "ACKNEXT"} \cap ctrl["M"] = {}
        /\ dir = IF mode["M"] = "I2C_INT_MA_RX" THEN "read" ELSE "write"
        /\ mode["M"] = "I2C_INT_MA_RX" => "ACKEN" \in ctrl["M"]
    BY <1>14 DEF MasterClearAddr
  <2>2. pcount["M"] = Size("M") /\ Size("M") \in Nat \ {0} /\ mode["M"] = ModeOf("M")
    <3>1. round["M"] \in 1 .. Len(plan) /\ BoundsOf("M") /\ mode["M"] = ModeOf("M")
      BY <2>1
    <3>2. Size("M") \in Nat \ {0}
      BY <3>1, PlanFacts DEF TypeOK, SwTypeOK, UInt16
    <3>3. QED
      BY <2>1, <3>1, <3>2 DEF BoundsOf
  <2>3. /\ UNCHANGED <<rx, busVars, mode, status, pcount, pbuff, plan, round>>
        /\ pc'["M"] \in {"ev6stop", "ev6ack", "enable"}
        /\ flags'["M"] = flags["M"] \ {"ADDR7F"}
    BY <1>14 DEF MasterClearAddr
  <2>4. FlagInv'
    BY <2>3
  <2> HIDE <1>2 DEF MasterInv, Size
  <2>5. ~Resting' /\ InData'
    BY <2>1, <2>3
  <2>6. RestInv' /\ StartInv' /\ EndInv'
    BY <2>1, <2>3, <2>5
  <2>7. CASE mode["M"] = "I2C_INT_MA_TX"
    <3>1. pc'["M"] = "enable" /\ UNCHANGED ctrl
      BY <1>14, <2>7 DEF MasterClearAddr
    <3>2. WriteInv' /\ ReadInv'
      BY <2>1, <2>3, <2>7, <3>1
    <3>3. QED
      BY <2>4, <2>6, <3>2 DEF MasterInv
  <2>8. CASE mode["M"] = "I2C_INT_MA_RX"
    <3>1. WriteInv'
      BY <2>3, <2>8
    <3>2. /\ "GENSTART" \notin ctrl'["M"] /\ "GENSTOP" \notin ctrl'["M"]
          /\ \/ Size("M") = 1 /\ ctrl'["M"] \cap {"ACKEN", "ACKNEXT"} = {} /\ pc'["M"] = "ev6stop"
             \/ Size("M") = 2 /\ {"ACKEN", "ACKNEXT"} \subseteq ctrl'["M"] /\ pc'["M"] = "ev6ack"
             \/ /\ Size("M") > 2 /\ "ACKEN" \in ctrl'["M"] /\ "ACKNEXT" \notin ctrl'["M"]
                /\ pc'["M"] = "enable"
      <4>1. CASE pcount["M"] = 1
        <5>1. ctrl'["M"] = ctrl["M"] \ {"ACKEN"} /\ pc'["M"] = "ev6stop"
          BY <1>14, <2>8, <4>1 DEF MasterClearAddr
        <5>2. QED
          BY <2>1, <2>2, <2>8, <4>1, <5>1
      <4>2. CASE pcount["M"] = 2
        <5>1. ctrl'["M"] = ctrl["M"] \cup {"ACKNEXT"} /\ pc'["M"] = "ev6ack"
          BY <1>14, <2>8, <4>2 DEF MasterClearAddr
        <5>2. QED
          BY <2>1, <2>2, <2>8, <4>2, <5>1
      <4>3. CASE pcount["M"] \notin {1, 2}
        <5>1. Size("M") > 2
          BY <2>2, <4>3
        <5>2. ctrl'["M"] = ctrl["M"] \cup {"ACKEN"} /\ pc'["M"] = "enable"
          BY <1>14, <2>8, <4>3 DEF MasterClearAddr
        <5>3. QED
          BY <2>1, <5>1, <5>2
      <4>4. QED
        BY <4>1, <4>2, <4>3
    <3>3. Size("M")' = Size("M") /\ ReadExact' = ReadExact
      BY <2>3 DEF Size
    <3>4. Len(rx'["M"]) = 0 /\ pcount'["M"] = Size("M") /\ pbuff'["M"] = 0
      BY <2>1, <2>2, <2>3
    <3>5. /\ phase' = "data" /\ clocked' = 0 /\ acked' = 0 /\ rx'["M"] = <<>> /\ dir' = "read"
          /\ "ADDR7F" \notin flags'["M"] /\ {"GENSTART", "GENSTOP"} \cap ctrl'["M"] = {}
          /\ pbuff'["M"] = 0 /\ pcount'["M"] = Size("M")
      BY <2>1, <2>2, <2>3, <2>8, <3>2
    <3>6. ReadInv'
      BY <2>2, <3>2, <3>3, <3>5, ReadStarts
    <3>7. QED
      BY <2>4, <2>6, <3>1, <3>6 DEF MasterInv
  <2>9. QED
    BY <1>14, <2>7, <2>8 DEF MasterClearAddr
<1>15. CASE MasterEv6Stop
  BY <1>15 DEF MasterEv6Stop
<1>16. CASE MasterEv6Ack
  <2>1. /\ pc["M"] = "ev6ack" /\ pc'["M"] = "enable" /\ status["M"] = "START"
        /\ ctrl'["M"] = ctrl["M"] \ {"ACKEN"}
        /\ UNCHANGED <<flags, rx, busVars, mode, status, pcount, pbuff, plan, round>>
    BY <1>16 DEF MasterEv6Ack
  <2>2. mode["M"] = "I2C_INT_MA_RX"
    BY <2>1 DEF ModeOf
  <2>3. Size("M") = 2 /\ pcount["M"] = 2
    <3>1. BoundsOf("M") /\ pbuff["M"] = 0
      BY <2>1
    <3>2. Size("M") = 2
      BY <2>1, <2>2
    <3> HIDE <1>2 DEF MasterInv
    <3>3. QED
      BY <3>1, <3>2 DEF BoundsOf
  <2>4. FlagInv' /\ RestInv' /\ StartInv' /\ EndInv'
    BY <2>1
  <2>5. WriteInv'
    BY <2>1
  <2>6. ReadInv'
    <3>1. clocked = 0 /\ phase = "data" /\ acked = 0 /\ Len(rx["M"]) = 0 /\ pbuff["M"] = 0
      BY <2>1, <2>2, <2>3
    <3>2. QED
      BY <2>1, <2>2, <2>3, <3>1
  <2>7. QED
    BY <2>4, <2>5, <2>6
<1>17. CASE MasterAddrFail \/ MasterFailStop
  <2>1. /\ pc["M"] \in {"addr", "addrfail"} /\ status["M"] = "START"
        /\ pc'["M"] = "addrfail" \/ (pc'["M"] = "returned" /\ ret'["M"] = "STEP_2")
        /\ flags'["M"] = flags["M"] \ {"ACKFAIL"} \/ flags' = flags
        /\ UNCHANGED <<rx, busVars, mode, status, pcount, pbuff, plan, round>>
    BY <1>17 DEF MasterAddrFail, MasterFailStop
  <2> HIDE <1>2 DEF MasterInv
  <2>2. ~Resting' /\ ~InData'
    BY <2>1
  <2>3. FlagInv'
    BY <2>1 DEF MasterInv
  <2>4. RestInv' /\ StartInv' /\ WriteInv' /\ ReadInv' /\ EndInv'
    BY <2>1, <2>2
  <2>5. QED
    BY <2>3, <2>4 DEF MasterInv
<1>18. CASE MasterStepTimeout
  <2>1. /\ pc["M"] \in {"startf", "addr"} /\ status["M"] = "START"
        /\ pc'["M"] = "returned" /\ ret'["M"] = "STEP_2"
        /\ UNCHANGED <<flags, rx, busVars, mode, status, pcount, pbuff, plan, round>>
    BY <1>18 DEF MasterStepTimeout
  <2> HIDE <1>2 DEF MasterInv
  <2>2. ~Resting' /\ ~InData'
    BY <2>1
  <2>3. FlagInv'
    BY <2>1 DEF MasterInv
  <2>4. RestInv' /\ StartInv' /\ WriteInv' /\ ReadInv' /\ EndInv'
    BY <2>1, <2>2
  <2>5. QED
    BY <2>3, <2>4 DEF MasterInv
<1>19. QED
  BY <1>4, <1>5, <1>6, <1>7, <1>8, <1>9, <1>10, <1>11, <1>12, <1>13, <1>14, <1>15, <1>16,
     <1>17, <1>18, Zenon DEF Main, MasterMain

(* Taking k of the bytes that wait.                                        *)
LEMMA ReadDataEffect ==
  ASSUME TypeOK, NEW k \in {1, 2}, k <= Len(rx["M"]), k <= pcount["M"], ReadData("M", k)
  PROVE  /\ rx'["M"] \in Seq(Byte) /\ Len(rx'["M"]) = Len(rx["M"]) - k
         /\ pbuff'["M"] = pbuff["M"] + k
         /\ pcount'["M"] = pcount["M"] - k
<1>1. /\ rx \in [Node -> Seq(Byte)] /\ pbuff \in [Node -> Nat] /\ pcount \in [Node -> Nat]
      /\ "M" \in Node
  BY DEF TypeOK, HwTypeOK, SwTypeOK, UInt16, Node
<1>2. rx["M"] \in Seq(Byte) /\ rx'["M"] = SubSeq(rx["M"], k + 1, Len(rx["M"]))
  BY <1>1 DEF ReadData, i2c_data_receive
<1>3. rx'["M"] \in Seq(Byte) /\ Len(rx'["M"]) = Len(rx["M"]) - k
  BY <1>2, SubSeqProperties
<1>4. pbuff'["M"] = pbuff["M"] + k /\ pcount'["M"] = pcount["M"] - k
  BY <1>1 DEF ReadData, Minus
<1>5. QED
  BY <1>3, <1>4

(* A master read of one byte that has it in the register is the case in    *)
(* which i2c_master_rx_isr_int ends on RDBF.                               *)
LEMMA OneLeft ==
  ASSUME NEW count \in Nat, NEW waiting \in Nat, 1 <= waiting, waiting <= count, count < 2
  PROVE  count = 1 /\ waiting = 1
OBVIOUS

(* i2c_master_rx_isr_int: the counting of a master read.                   *)
LEMMA ReadHandler ==
  ASSUME TypeOK, HandleInv, InterruptInv, MasterInv,
         mode["M"] = "I2C_INT_MA_RX", isr["M"] = "none", EvtRequest("M"),
         i2c_master_rx_isr_int("M"),
         UNCHANGED <<phase, dir, clocked, acked, mode, pc, ret, round, plan>>
  PROVE  MasterInv'
<1> DEFINE waiting == Len(rx["M"])
           size == Size("M")
<1>1. HandlersTurn("M") /\ InData /\ InCall("M")
  BY HandlerContext DEF EvtRequest, HandlersTurn, InData, InCall, Node
<1>2. /\ pc["M"] \in {"wait_end", "returned", "gave_up"} /\ status["M"] = "START"
      /\ InData' <=> status'["M"] = "START"
  BY <1>1 DEF HandlersTurn, InData
<1>3. /\ pbuff["M"] \in Nat /\ pcount["M"] \in Nat /\ waiting \in Nat
      /\ pbuff["M"] + pcount["M"] = size /\ waiting <= pcount["M"]
  <2>1. pbuff["M"] \in Nat /\ pcount["M"] \in Nat
    BY DEF TypeOK, SwTypeOK, UInt16, Node
  <2>2. QED
    BY <2>1, ReadCounts DEF MasterInv, BoundsOf
<1>4. /\ "GENSTART" \notin ctrl["M"] /\ dir = "read" /\ "ADDR7F" \notin flags["M"]
      /\ clocked = pbuff["M"] + waiting
      /\ \/ phase = "data" /\ clocked < size /\ acked = clocked
         \/ phase \in {"closing", "free"} /\ clocked = size /\ acked = size - 1
      /\ size = 1 =>
           /\ pcount["M"] = 1
           /\ ctrl["M"] \cap {"ACKEN", "ACKNEXT"} = {}
           /\ "GENSTOP" \in ctrl["M"] <=> phase # "free"
      /\ size >= 2 =>
           /\ pcount["M"] >= 2
           /\ phase # "free"
           /\ "GENSTOP" \notin ctrl["M"]
           /\ "ACKNEXT" \in ctrl["M"] <=> size = 2
           /\ "ACKEN" \in ctrl["M"] <=> pcount["M"] > 2
           /\ size > 2 /\ pcount["M"] = 2 => waiting >= 1
  BY <1>1, <1>2 DEF MasterInv, ReadInv, ReadExact
<1>5. FlagInv' /\ UNCHANGED flags
  BY DEF MasterInv, FlagInv, i2c_master_rx_isr_int, MasterRxTdc, MasterRxRdbf
<1>6. size' = size
  BY DEF Size, MyRound
<1>7. StartInv' /\ WriteInv'
  BY <1>2 DEF StartInv, WriteInv
<1>8. ctrl \in [Node -> SUBSET CtrlBits] /\ status \in [Node -> {"START", "END"}] /\ "M" \in Node
  BY DEF TypeOK, HwTypeOK, SwTypeOK, Node
<1>9. ASSUME status'["M"] = "END", rx'["M"] = <<>>, "GENSTART" \notin ctrl'["M"],
             "GENSTOP" \in ctrl'["M"] <=> phase # "free",
             phase \in {"closing", "free"}, clocked = size, acked = size - 1
      PROVE  MasterInv'
  <2>1. ~InData'
    BY <1>9 DEF InData
  <2>2. RestInv'
    BY <1>4, <1>9 DEF RestInv, AtRest
  <2>3. ReadInv' /\ EndInv'
    BY <1>4, <1>6, <1>9, <2>1 DEF ReadInv, EndInv, ReadExact
  <2>4. QED
    BY <1>5, <1>7, <2>2, <2>3 DEF MasterInv
<1>10. ASSUME UNCHANGED status, clocked = pbuff'["M"] + Len(rx'["M"]),
              size = 1 => UNCHANGED <<ctrl, pcount>>,
              "GENSTART" \notin ctrl'["M"],
              size >= 2 =>
                /\ pcount'["M"] >= 2
                /\ "GENSTOP" \notin ctrl'["M"]
                /\ "ACKNEXT" \in ctrl'["M"] <=> size = 2
                /\ "ACKEN" \in ctrl'["M"] <=> pcount'["M"] > 2
                /\ size > 2 /\ pcount'["M"] = 2 => Len(rx'["M"]) >= 1
       PROVE  MasterInv'
  <2>1. ~Resting'
    BY <1>2, <1>10 DEF Resting
  <2>2. RestInv' /\ EndInv'
    BY <1>2, <1>10, <2>1 DEF RestInv, EndInv
  <2>3. ReadInv'
    BY <1>2, <1>4, <1>5, <1>6, <1>10 DEF ReadInv, ReadExact
  <2>4. QED
    BY <1>5, <1>7, <2>2, <2>3 DEF MasterInv
<1>11. CASE MasterRxTdc("M")
  <2>1. waiting = 2 /\ 2 <= pcount["M"]
    BY <1>11, ReadCounts, <1>3 DEF MasterRxTdc, MasterInv
  <2>2. CASE pcount["M"] = 3
    <3>1. /\ ctrl'["M"] = ctrl["M"] \ {"ACKEN"} /\ ReadData("M", 1) /\ UNCHANGED status
      BY <1>8, <1>11, <2>2 DEF MasterRxTdc, SetCtrl
    <3>2. /\ Len(rx'["M"]) = 1 /\ pbuff'["M"] = pbuff["M"] + 1 /\ pcount'["M"] = 2
      <4>1. 1 <= waiting /\ 1 <= pcount["M"]
        BY <2>1, <2>2
      <4>2. /\ Len(rx'["M"]) = waiting - 1 /\ pbuff'["M"] = pbuff["M"] + 1
            /\ pcount'["M"] = pcount["M"] - 1
        BY <3>1, <4>1, ReadDataEffect
      <4>3. Len(rx'["M"]) = 1
        BY <2>1, <4>2
      <4>4. pcount'["M"] = 2
        BY <2>2, <4>2
      <4>5. QED
        BY <4>2, <4>3, <4>4
    <3>3. size >= 3
      BY <1>3, <2>2
    <3>4. QED
      BY <1>3, <1>4, <1>10, <2>1, <2>2, <3>1, <3>2, <3>3
  <2>3. CASE pcount["M"] = 2
    <3>1. /\ ctrl'["M"] = ctrl["M"] \cup {"GENSTOP"} /\ ReadData("M", 2)
          /\ status'["M"] = "END"
      BY <1>8, <1>11, <2>3 DEF MasterRxTdc, SetCtrl, TransferComplete
    <3>2. rx'["M"] \in Seq(Byte) /\ Len(rx'["M"]) = 0
      BY <2>1, <3>1, ReadDataEffect
    <3>3. rx'["M"] = <<>>
      BY <3>2
    <3>4. clocked = size /\ size >= 2
      BY <1>3, <1>4, <2>1, <2>3
    <3>5. phase = "closing" /\ acked = size - 1
      BY <1>3, <1>4, <3>4
    <3>6. QED
      BY <1>4, <1>9, <3>1, <3>3, <3>4, <3>5
  <2>4. CASE pcount["M"] \notin {2, 3}
    <3>1. ReadData("M", 1) /\ UNCHANGED <<ctrl, status>>
      BY <1>11, <2>4 DEF MasterRxTdc
    <3>2. Len(rx'["M"]) = 1 /\ pbuff'["M"] = pbuff["M"] + 1 /\ pcount'["M"] = pcount["M"] - 1
      <4>1. 1 <= waiting /\ 1 <= pcount["M"]
        BY <1>3, <2>1
      <4>2. /\ Len(rx'["M"]) = waiting - 1 /\ pbuff'["M"] = pbuff["M"] + 1
            /\ pcount'["M"] = pcount["M"] - 1
        BY <3>1, <4>1, ReadDataEffect
      <4>3. Len(rx'["M"]) = 1
        BY <2>1, <4>2
      <4>4. QED
        BY <4>2, <4>3
    <3>3. pcount["M"] > 3 /\ size > 3
      BY <1>3, <2>1, <2>4
    <3>4. QED
      BY <1>3, <1>4, <1>10, <2>1, <3>1, <3>2, <3>3
  <2>5. QED
    BY <2>2, <2>3, <2>4
<1>12. CASE MasterRxRdbf("M")
  <2>1. 1 <= waiting /\ 1 <= pcount["M"] /\ UNCHANGED ctrl
    BY <1>3, <1>12, ReadCounts DEF MasterRxRdbf, MasterInv
  <2>2. CASE pcount["M"] > 3
    <3>1. ReadData("M", 1) /\ UNCHANGED status
      BY <1>3, <1>12, <2>2 DEF MasterRxRdbf
    <3>2. /\ Len(rx'["M"]) = waiting - 1 /\ pbuff'["M"] = pbuff["M"] + 1
          /\ pcount'["M"] = pcount["M"] - 1
      BY <2>1, <3>1, ReadDataEffect
    <3>3. size > 3 /\ clocked = pbuff'["M"] + Len(rx'["M"])
      BY <1>3, <1>4, <2>2, <3>2
    <3>4. QED
      BY <1>3, <1>4, <1>10, <2>1, <2>2, <3>1, <3>2, <3>3
  <2>3. CASE pcount["M"] \in {2, 3}
    <3>1. UNCHANGED <<rx, pbuff, pcount, status>>
      BY <1>12, <2>3 DEF MasterRxRdbf
    <3>2. QED
      BY <1>4, <1>10, <2>1, <3>1
  <2>4. CASE pcount["M"] < 2
    <3>1. ReadData("M", 1) /\ status'["M"] = "END"
      <4>1. ~(pcount["M"] > 3) /\ pcount["M"] \notin {2, 3}
        BY <1>3, <2>4
      <4>2. ReadData("M", 1) /\ TransferComplete("M")
        BY <1>12, <4>1 DEF MasterRxRdbf
      <4>3. QED
        BY <1>8, <4>2 DEF TransferComplete
    <3>2. pcount["M"] = 1 /\ waiting = 1
      BY <1>3, <2>1, <2>4, OneLeft
    <3>3. rx'["M"] \in Seq(Byte) /\ Len(rx'["M"]) = 0
      BY <2>1, <3>1, <3>2, ReadDataEffect
    <3>4. rx'["M"] = <<>>
      BY <3>3
    <3>5. clocked = size /\ size = 1
      BY <1>3, <1>4, <3>2
    <3>6. QED
      BY <1>4, <1>9, <2>1, <3>1, <3>4, <3>5
  <2>5. QED
    BY <1>3, <2>2, <2>3, <2>4
<1>13. QED
  BY <1>11, <1>12 DEF i2c_master_rx_isr_int

(* The master's handlers.                                                  *)
LEMMA HandlerKeepsMaster ==
  ASSUME TypeOK, HandleInv, InterruptInv, MasterInv, Handler("M")
  PROVE  MasterInv'
<1>1. "M" \in Node
  BY DEF Node
<1>2. HandlersTurn("M") /\ InCall("M") /\ mode["M"] = ModeOf("M")
  BY <1>1, HandlerContext DEF Handler, i2c_evt_irq_handler, SlaveTxEnd, i2c_err_irq_handler,
                              EvtRequest, ErrRequest
<1>3. mode["M"] \in {"I2C_INT_MA_TX", "I2C_INT_MA_RX"}
  BY <1>2 DEF ModeOf
<1>4. isr["M"] = "none"
  BY <1>1 DEF InterruptInv, InterruptOf
<1>5. UNCHANGED <<busVars, mode, pc, ret, plan, round>>
  BY DEF Handler, i2c_evt_irq_handler, SlaveTxEnd, i2c_err_irq_handler, app
<1>6. /\ ctrl \in [Node -> SUBSET CtrlBits] /\ flags \in [Node -> SUBSET Flags]
      /\ status \in [Node -> {"START", "END"}]
  BY DEF TypeOK, HwTypeOK, SwTypeOK
<1>7. CASE i2c_evt_irq_handler("M") /\ mode["M"] = "I2C_INT_MA_RX"
  BY <1>5, <1>7, ReadHandler DEF i2c_evt_irq_handler, busVars
<1>8. CASE i2c_evt_irq_handler("M") /\ mode["M"] = "I2C_INT_MA_TX"
  <2>1. i2c_master_tx_isr_int("M")
    BY <1>8 DEF i2c_evt_irq_handler
  <2>2. InData /\ UNCHANGED <<flags, rx>> /\ phase = "data" /\ dir = "write"
    BY <1>1, <1>2, <2>1 DEF InData, HandlersTurn, i2c_master_tx_isr_int, TDBE, Transmitting
  <2>3. rx["M"] = <<>> /\ ctrl["M"] \cap {"GENSTART", "GENSTOP"} = {}
    BY <1>8, <2>2 DEF MasterInv, WriteInv
  <2>4. FlagInv' /\ StartInv'
    BY <1>2, <1>5, <2>2 DEF MasterInv, FlagInv, StartInv, HandlersTurn, busVars
  <2>5. ReadInv' /\ EndInv'
    BY <1>5, <1>8 DEF ReadInv, EndInv
  <2>6. CASE pcount["M"] = 0
    <3>1. ctrl'["M"] = ctrl["M"] \cup {"GENSTOP"} /\ status'["M"] = "END"
      BY <1>1, <1>6, <2>1, <2>6 DEF i2c_master_tx_isr_int, SetCtrl, TransferComplete
    <3>2. RestInv' /\ WriteInv'
      BY <1>5, <2>2, <2>3, <3>1 DEF RestInv, AtRest, WriteInv, InData, busVars
    <3>3. QED
      BY <2>4, <2>5, <3>2 DEF MasterInv
  <2>7. CASE pcount["M"] # 0
    <3>1. UNCHANGED <<ctrl, status>>
      BY <2>1, <2>7 DEF i2c_master_tx_isr_int
    <3>2. RestInv' /\ WriteInv'
      BY <1>5, <2>2, <3>1 DEF MasterInv, RestInv, Resting, InCall, AtRest, WriteInv, InData, busVars
    <3>3. QED
      BY <2>4, <2>5, <3>2 DEF MasterInv
  <2>8. QED
    BY <2>6, <2>7
<1>9. CASE i2c_err_irq_handler("M")
  <2>1. /\ flags'["M"] = flags["M"] \ {"BUSERR", "ACKFAIL"}
        /\ UNCHANGED <<ctrl, rx, status, pcount, pbuff>>
    BY <1>1, <1>6, <1>9 DEF i2c_err_irq_handler, ClearFlags
  <2>2. pc["M"] \in {"wait_end", "returned", "gave_up"}
    BY <1>2 DEF HandlersTurn
  <2>3. QED
    BY <1>5, <2>1, <2>2 DEF MasterInv, FlagInv, RestInv, Resting, AtRest, StartInv, WriteInv, ReadInv,
         EndInv, InData, InCall, ReadExact, Size, MyRound, busVars
<1>10. QED
  BY <1>3, <1>4, <1>7, <1>8, <1>9 DEF Handler, SlaveTxEnd

(* Which bytes the acknowledge bits refuse: the last one of the size, and  *)
(* no other.                                                               *)
Acks(bits, got) == IF "ACKNEXT" \in bits /\ got = 0 THEN TRUE ELSE "ACKEN" \in bits

Counting(size, got, stored, count, waiting, bits) ==
  /\ {size, got, stored, count, waiting} \subseteq Nat
  /\ stored + count = size /\ got = stored + waiting /\ got < size /\ waiting < 2
  /\ size = 1 => bits \cap {"ACKEN", "ACKNEXT"} = {} /\ "GENSTOP" \in bits
  /\ size >= 2 =>
       /\ count >= 2
       /\ "GENSTOP" \notin bits
       /\ "ACKNEXT" \in bits <=> size = 2
       /\ "ACKEN" \in bits <=> count > 2
       /\ size > 2 /\ count = 2 => waiting >= 1

(* The byte that a master read refuses is the last one, and it is the only *)
(* one: this is what ACKEN and ACKNEXT amount to under ReadInv.            *)
LEMMA LastByteRefused ==
  ASSUME NEW size, NEW got, NEW stored, NEW count, NEW waiting, NEW bits,
         Counting(size, got, stored, count, waiting, bits)
  PROVE  \/ Acks(bits, got) /\ "GENSTOP" \notin bits /\ size >= 2 /\ got + 1 < size
         \/ ~Acks(bits, got) /\ got + 1 = size
<1> USE DEF Counting, Acks
<1>1. CASE size = 1
  BY <1>1
<1>2. CASE size = 2 /\ got = 0
  BY <1>2
<1>3. CASE size = 2 /\ got = 1
  BY <1>3
<1>4. CASE size > 2 /\ count > 2
  BY <1>4
<1>5. CASE size > 2 /\ count = 2
  BY <1>5
<1>6. QED
  BY <1>1, <1>2, <1>3, <1>4, <1>5

(* No byte ends before an EV6 write: it is within the byte, or the rounds  *)
(* have no read that it is for.                                            *)
LEMMA OnTime ==
  ASSUME Timely, TypeOK, HandleInv, MasterInv, InTime
  PROVE  pc["M"] \notin {"ev6stop", "ev6ack"}
<1> SUFFICES ASSUME pc["M"] \in {"ev6stop", "ev6ack"} PROVE FALSE
  OBVIOUS
<1>1. ~Prompt /\ "M" \in Node
  BY DEF InTime, Node
<1>2. InCall("M") /\ InData
  BY <1>1 DEF HandleInv, HandleOf, InData, InCall
<1>3. round["M"] \in 1 .. Len(plan) /\ mode["M"] = ModeOf("M")
  BY <1>1, <1>2 DEF HandleInv, HandleOf
<1>4. mode["M"] # "I2C_INT_MA_TX"
  BY <1>2 DEF MasterInv, WriteInv
<1>5. plan[round["M"]].op = "read"
  BY <1>1, <1>3, <1>4, PlanFacts DEF ModeOf, MyRound, TypeOK, SwTypeOK
<1>6. Size("M") >= 3
  BY <1>1, <1>3, <1>5 DEF Timely, TypeOK, SwTypeOK, Size, MyRound
<1>7. Size("M") \in {1, 2}
  BY <1>2, <1>3, <1>5 DEF MasterInv, ReadInv, ModeOf, MyRound
<1>8. QED
  BY <1>6, <1>7

(* A byte that the master clocks in.                                       *)
LEMMA ReadByteKeepsMaster ==
  ASSUME Timely, TypeOK, HandleInv, MasterInv, InTime, HwReadByte, Quiet
  PROVE  MasterInv'
<1> DEFINE waiting == Len(rx["M"])
           size == Size("M")
<1>1. phase = "data" /\ dir = "read" /\ "ADDR7F" \notin flags["M"] /\ waiting < 2
  BY DEF HwReadByte, HwReadByteAck
<1>2. pc["M"] \notin {"ev6stop", "ev6ack"}
  BY OnTime
<1>3. /\ UNCHANGED <<ctrl, dir, pc, ret, mode, status, pcount, pbuff, plan, round>>
      /\ flags'["M"] = flags["M"] /\ clocked' = clocked + 1
  BY DEF HwReadByte, HwReadByteAck, Quiet, handle, app, TypeOK, HwTypeOK, Node
<1>4. ~Resting /\ pc["M"] \notin {"startf", "addr"} /\ ~(InData /\ mode["M"] = "I2C_INT_MA_TX")
  BY <1>1 DEF MasterInv, RestInv, AtRest, StartInv, WriteInv
<1>5. RestInv' /\ StartInv' /\ WriteInv'
  BY <1>3, <1>4 DEF RestInv, StartInv, WriteInv, Resting, InData, InCall
<1>6. EndInv' /\ FlagInv'
  <2>1. phase' \in {"data", "closing"}
    BY DEF HwReadByte, HwReadByteAck
  <2>2. QED
    BY <1>1, <1>3, <1>4, <2>1 DEF MasterInv, FlagInv, EndInv, Resting, InCall
<1>7. ASSUME InData, mode["M"] = "I2C_INT_MA_RX"
      PROVE  ReadInv'
  <2>1. /\ "GENSTART" \notin ctrl["M"] /\ clocked = pbuff["M"] + waiting
        /\ clocked < size /\ acked = clocked
        /\ size = 1 =>
             /\ pcount["M"] = 1
             /\ ctrl["M"] \cap {"ACKEN", "ACKNEXT"} = {}
             /\ "GENSTOP" \in ctrl["M"]
        /\ size >= 2 =>
             /\ pcount["M"] >= 2
             /\ "GENSTOP" \notin ctrl["M"]
             /\ "ACKNEXT" \in ctrl["M"] <=> size = 2
             /\ "ACKEN" \in ctrl["M"] <=> pcount["M"] > 2
             /\ size > 2 /\ pcount["M"] = 2 => waiting >= 1
    BY <1>1, <1>2, <1>7 DEF MasterInv, ReadInv
  <2>2. /\ pbuff["M"] \in Nat /\ pcount["M"] \in Nat /\ clocked \in Nat
        /\ rx \in [Node -> Seq(Byte)] /\ "M" \in Node
    BY DEF TypeOK, HwTypeOK, SwTypeOK, UInt16, Node
  <2>3. waiting \in Nat /\ pbuff["M"] + pcount["M"] = size /\ size \in Nat
    BY <1>7, <2>2 DEF HandleInv, HandleOf, InData, InCall, BoundsOf
  <2>4. Len(rx'["M"]) = waiting + 1
    BY <2>2 DEF HwReadByte, HwReadByteAck
  <2>5. clocked' = pbuff'["M"] + Len(rx'["M"])
    <3>1. clocked = pbuff["M"] + waiting
      BY <2>1
    <3>2. waiting \in Nat /\ pbuff["M"] \in Nat /\ clocked \in Nat
      BY <2>2, <2>3
    <3> HIDE DEF waiting
    <3>3. clocked + 1 = pbuff["M"] + (waiting + 1)
      BY <3>1, <3>2
    <3>4. QED
      BY <1>3, <2>4, <3>3
  <2>6. size' = size
    BY <1>3 DEF Size, MyRound
  <2>7. MasterAcks = Acks(ctrl["M"], clocked)
    BY DEF MasterAcks, Acks
  <2>8. \/ MasterAcks /\ "GENSTOP" \notin ctrl["M"] /\ size >= 2 /\ clocked + 1 < size
        \/ ~MasterAcks /\ clocked + 1 = size
    <3>1. Counting(size, clocked, pbuff["M"], pcount["M"], waiting, ctrl["M"])
      BY <1>1, <2>1, <2>2, <2>3 DEF Counting
    <3>2. QED
      BY <2>7, <3>1, LastByteRefused
  <2>9. CASE MasterAcks /\ "GENSTOP" \notin ctrl["M"] /\ size >= 2 /\ clocked + 1 < size
    <3>1. phase' = "data" /\ acked' = clocked' /\ clocked' < size
      <4>1. phase' = "data" /\ acked' = acked + 1
        BY <2>9 DEF HwReadByte, HwReadByteAck
      <4>2. QED
        BY <1>3, <2>1, <2>9, <4>1
    <3>2. QED
      BY <1>1, <1>2, <1>3, <2>1, <2>2, <2>3, <2>4, <2>5, <2>6, <2>9, <3>1, SMTT(30) DEF ReadInv
  <2>10. CASE ~MasterAcks /\ clocked + 1 = size
    <3>1. phase' = "closing" /\ acked' = acked
      BY <2>10 DEF HwReadByte, HwReadByteAck
    <3>2. clocked' = size
      BY <1>3, <2>10
    <3>3. acked' = size - 1
      BY <2>1, <2>2, <2>10, <3>1
    <3>4. ReadExact'
      BY <2>6, <3>2, <3>3 DEF ReadExact
    <3>5. QED
      BY <1>1, <1>2, <1>3, <2>1, <2>2, <2>3, <2>4, <2>5, <2>6, <3>1, <3>4, SMTT(30) DEF ReadInv
  <2>11. QED
    BY <2>8, <2>9, <2>10
<1>8. ReadInv'
  BY <1>3, <1>7 DEF ReadInv, InData
<1>9. QED
  BY <1>5, <1>6, <1>8 DEF MasterInv

(* In the data part of the master's call the buffer pointer and the        *)
(* counter add up to the size of the round.                                *)
LEMMA CallSize ==
  ASSUME TypeOK, HandleInv, InData
  PROVE  /\ pbuff["M"] \in Nat /\ pcount["M"] \in Nat /\ Len(rx["M"]) \in Nat
         /\ pbuff["M"] + pcount["M"] = Size("M") /\ Size("M") \in Nat \ {0}
         /\ mode["M"] \in {"I2C_INT_MA_TX", "I2C_INT_MA_RX"}
<1>1. "M" \in Node
  BY DEF Node
<1>2. BoundsOf("M") /\ round["M"] \in 1 .. Len(plan) /\ mode["M"] = ModeOf("M")
  BY <1>1 DEF HandleInv, HandleOf, InData, InCall
<1>3. Size("M") \in Nat \ {0}
  BY <1>1, <1>2, PlanFacts DEF TypeOK, SwTypeOK, UInt16
<1>4. rx["M"] \in Seq(Byte) /\ pbuff["M"] \in Nat /\ pcount["M"] \in Nat
  BY <1>1 DEF TypeOK, HwTypeOK, SwTypeOK, UInt16
<1>5. QED
  BY <1>2, <1>3, <1>4 DEF BoundsOf, ModeOf

(* The other steps of the bus.                                             *)
LEMMA BusKeepsMaster ==
  ASSUME Timely, TypeOK, HandleInv, MasterInv, Bus \/ Fault
  PROVE  MasterInv'
<1>1. Quiet
  BY DEF Bus, Fault
<1>2. /\ ctrl \in [Node -> SUBSET CtrlBits] /\ flags \in [Node -> SUBSET Flags]
      /\ rx \in [Node -> Seq(Byte)] /\ Node = {"M", "S"}
  BY DEF TypeOK, HwTypeOK, Node
<1>3. UNCHANGED <<mode, status, pcount, pbuff, pc, ret, plan, round>>
  BY <1>1 DEF Quiet, handle, app
<1>4. ASSUME SameNode("M"), SameBus
      PROVE  MasterInv'
  BY <1>3, <1>4, MasterFrame
<1>5. CASE HwStart
  <2>1. /\ "GENSTART" \in ctrl["M"] /\ phase = "free"
        /\ ctrl'["M"] = ctrl["M"] \ {"GENSTART"} /\ phase' = "start"
        /\ flags'["M"] = flags["M"] \cup {"BUSYF", "STARTF"}
        /\ UNCHANGED <<rx, dir, clocked, acked>>
    BY <1>2, <1>5 DEF HwStart, MasterInv, FlagInv
  <2>2. ~Resting /\ ~InData
    BY <1>2, <2>1, CallSize DEF MasterInv, RestInv, AtRest, WriteInv, ReadInv
  <2>3. QED
    BY <1>3, <2>1, <2>2 DEF MasterInv, FlagInv, RestInv, StartInv, WriteInv, ReadInv, EndInv, Resting,
         InData, InCall
<1>6. CASE HwAddrAck
  BY <1>2, <1>3, <1>6 DEF HwAddrAck, MasterInv, FlagInv, RestInv, AtRest, StartInv, WriteInv, ReadInv,
       EndInv, Resting, InData, InCall, ReadExact
<1>7. CASE HwAddrNack
  BY <1>2, <1>3, <1>7 DEF HwAddrNack, MasterInv, FlagInv, RestInv, AtRest, StartInv, WriteInv, ReadInv,
       EndInv, Resting, InData, InCall, ReadExact
<1>8. ASSUME NEW lost \in BOOLEAN, HwWriteByte(lost)
      PROVE  MasterInv'
  <2>1. /\ phase = "data" /\ dir = "write" /\ "ADDR7F" \notin flags["M"]
        /\ UNCHANGED <<ctrl, dir>>
    BY <1>8 DEF HwWriteByte
  <2>2. rx'["M"] = rx["M"]
    BY <1>2, <1>8 DEF HwWriteByte
  <2>3. phase' \in {"data", "closing"}
    BY <1>8, <2>1 DEF HwWriteByte
  <2>4. flags'["M"] \in {flags["M"], flags["M"] \cup {"ACKFAIL"}}
    BY <1>2, <1>8 DEF HwWriteByte
  <2>5. QED
    BY <1>3, <2>1, <2>2, <2>3, <2>4 DEF MasterInv, FlagInv, RestInv, AtRest, StartInv, WriteInv,
         ReadInv, EndInv, Resting, InData, InCall
<1>9. CASE InTime /\ HwReadByte
  BY <1>1, <1>9, ReadByteKeepsMaster
<1>10. CASE HwOverrunByte
  <2>1. /\ phase = "closing" /\ dir = "read" /\ "GENSTOP" \notin ctrl["M"] /\ clocked > 0
        /\ Len(rx["M"]) < 2 /\ UNCHANGED <<ctrl, flags, phase, dir, acked>>
    BY <1>10 DEF HwOverrunByte
  <2>2. ~Resting /\ pc["M"] \notin {"startf", "addr"}
    BY <2>1 DEF MasterInv, RestInv, AtRest, StartInv
  <2>3. ~(InData /\ mode["M"] = "I2C_INT_MA_TX")
    BY <2>1 DEF MasterInv, WriteInv
  <2>4. ASSUME InData, mode["M"] = "I2C_INT_MA_RX"
        PROVE  FALSE
    <3>1. /\ clocked = pbuff["M"] + Len(rx["M"]) /\ clocked = Size("M")
          /\ Size("M") # 1
          /\ Size("M") >= 2 => pcount["M"] >= 2
      BY <2>1, <2>4 DEF MasterInv, ReadInv, ReadExact
    <3>2. /\ pbuff["M"] \in Nat /\ pcount["M"] \in Nat /\ Len(rx["M"]) \in Nat
          /\ pbuff["M"] + pcount["M"] = Size("M") /\ Size("M") \in Nat \ {0}
      BY <2>4, CallSize
    <3>3. pcount["M"] >= 2
      BY <3>1, <3>2
    <3>4. QED
      BY <2>1, <3>1, <3>2, <3>3
  <2>5. QED
    BY <1>3, <2>1, <2>2, <2>3, <2>4 DEF MasterInv, FlagInv, RestInv, StartInv, WriteInv, ReadInv, EndInv,
         Resting, InData, InCall
<1>11. CASE InTime /\ HwStop
  <2>1. /\ "GENSTOP" \in ctrl["M"] /\ ByteBoundary
        /\ ctrl'["M"] = ctrl["M"] \ {"GENSTOP"} /\ phase' = "free"
        /\ flags'["M"] = flags["M"] \ {"BUSYF", "STARTF", "ADDR7F"}
        /\ UNCHANGED <<rx, dir, clocked, acked>>
    BY <1>2, <1>11 DEF HwStop
  <2>2. FlagInv' /\ RestInv' /\ StartInv' /\ WriteInv' /\ EndInv'
    BY <1>3, <2>1 DEF MasterInv, FlagInv, RestInv, AtRest, StartInv, WriteInv, EndInv, Resting,
         InData, InCall, ReadExact, Size, MyRound
  <2>3. ASSUME InData, mode["M"] = "I2C_INT_MA_RX"
        PROVE  ReadInv'
    <3>1. Size("M") \in Nat \ {0} /\ Len(rx["M"]) \in Nat /\ pbuff["M"] \in Nat
      BY <2>3, CallSize
    <3>2. Size("M") = 1
      BY <2>1, <2>3, <3>1 DEF MasterInv, ReadInv
    <3>3. phase \in {"data", "closing", "free"} /\ phase # "free"
      BY <2>1, <2>3, <3>2 DEF MasterInv, ReadInv
    <3>4. phase # "data"
      <4>1. SUFFICES ASSUME phase = "data" PROVE FALSE
        OBVIOUS
      <4>2. Len(rx["M"]) = 2
        BY <2>1, <2>3, <4>1 DEF ByteBoundary, MasterInv, ReadInv
      <4>3. pbuff["M"] + Len(rx["M"]) < 1
        BY <2>3, <3>2, <4>1 DEF MasterInv, ReadInv
      <4>4. QED
        BY <3>1, <4>2, <4>3
    <3>5. Size("M")' = Size("M") /\ ReadExact
      BY <1>3, <2>3, <3>3, <3>4 DEF MasterInv, ReadInv, Size, MyRound
    <3>6. ReadExact'
      BY <2>1, <3>5 DEF ReadExact
    <3>7. QED
      BY <1>3, <2>1, <2>3, <3>2, <3>3, <3>4, <3>5, <3>6 DEF MasterInv, ReadInv
  <2>4. ReadInv'
    BY <1>3, <2>3 DEF ReadInv, InData
  <2>5. QED
    BY <2>2, <2>4 DEF MasterInv
<1>12. ASSUME NEW n \in Node, HwBusErr(n)
       PROVE  MasterInv'
  <2>1. /\ flags'["M"] \in {flags["M"], flags["M"] \cup {"BUSERR"}}
        /\ UNCHANGED <<ctrl, rx, busVars>>
    BY <1>2, <1>12 DEF HwBusErr
  <2>2. QED
    BY <1>3, <2>1 DEF MasterInv, FlagInv, RestInv, AtRest, StartInv, WriteInv, ReadInv, EndInv,
         Resting, InData, InCall, ReadExact, Size, MyRound, busVars
<1>13. QED
  BY <1>5, <1>6, <1>7, <1>8, <1>9, <1>10, <1>11, <1>12 DEF Bus, Fault

-----------------------------------------------------------------------------
(* IInv is an inductive invariant.                                         *)

(* The initial states satisfy the inductive invariant.                     *)
LEMMA InitInv == Init => IInv
<1> SUFFICES ASSUME Init PROVE IInv
  OBVIOUS
<1> USE DEF Init, HwInit
<1>1. TypeOK
  <2>1. <<>> \in Seq(Byte)
    OBVIOUS
  <2>2. HwTypeOK
    BY <2>1 DEF HwTypeOK
  <2>3. SwTypeOK
    BY <2>1 DEF SwTypeOK, Modes, Errors, Results, MainPc, UInt16
  <2>4. QED
    BY <2>2, <2>3 DEF TypeOK
<1>2. HandleInv /\ InterruptInv
  <2>1. plan \in Seq(Round) /\ plan # <<>>
    BY PlansAssumption
  <2>2. 1 \in 1 .. Len(plan)
    BY <2>1
  <2>3. QED
    BY <2>2 DEF HandleInv, HandleOf, InterruptInv, InterruptOf, InCall
<1>3. MasterInv
  <2>1. "M" \in Node
    BY DEF Node
  <2>2. FlagInv /\ RestInv
    BY <2>1 DEF FlagInv, RestInv, AtRest
  <2>3. StartInv /\ WriteInv /\ ReadInv /\ EndInv
    BY <2>1 DEF StartInv, WriteInv, ReadInv, EndInv, InData, InCall
  <2>4. QED
    BY <2>2, <2>3 DEF MasterInv
<1>4. QED
  BY <1>1, <1>2, <1>3 DEF IInv

(* Every step preserves the inductive invariant.                           *)
LEMMA NextInv ==
  ASSUME RetriesClean, Timely, IInv, [Next]_vars
  PROVE  IInv'
<1> USE DEF IInv
<1>1. ASSUME NEW n \in Node, Main(n)
      PROVE  IInv'
  <2>1. TypeOK'
    BY <1>1, MainTypes
  <2>2. HandleInv' /\ InterruptInv'
    BY <1>1, MainHandle
  <2>3. MasterInv'
    BY <1>1, MainKeepsMaster, SlaveKeepsMaster DEF Node
  <2>4. QED
    BY <2>1, <2>2, <2>3
<1>2. ASSUME NEW n \in Node, Handler(n)
      PROVE  IInv'
  <2>1. ReadInv
    BY DEF MasterInv
  <2>2. TypeOK'
    BY <1>2, <2>1, HandlerTypes
  <2>3. HandleInv' /\ InterruptInv'
    BY <1>2, <2>1, HandlerHandle
  <2>4. MasterInv'
    BY <1>2, HandlerKeepsMaster, SlaveKeepsMaster DEF Node
  <2>5. QED
    BY <2>2, <2>3, <2>4
<1>3. CASE Bus \/ Fault
  BY <1>3, BusTypes, BusHandle, BusKeepsMaster
<1>4. CASE UNCHANGED vars
  <2>1. TypeOK'
    BY <1>4 DEF vars, hwVars, handle, app, TypeOK, HwTypeOK, SwTypeOK
  <2>2. SameNode("M") /\ SameBus /\ plan' = plan
    BY <1>4 DEF vars, hwVars, handle, app, SameNode, SameBus
  <2>3. HandleInv' /\ InterruptInv'
    <3>1. \A n \in Node : SameNode(n)
      BY <1>4 DEF vars, hwVars, handle, app, SameNode
    <3>2. QED
      BY <2>2, <3>1, HandleFrame DEF HandleInv, InterruptInv
  <2>4. QED
    BY <2>1, <2>2, <2>3, MasterFrame
<1>5. QED
  BY <1>1, <1>2, <1>3, <1>4 DEF Next

-----------------------------------------------------------------------------
(* Interrupt-mode transfers keep IInv, whatever scripts the applications   *)
(* run, over whatever line and with whatever timeouts, provided that a     *)
(* failed call is followed by i2c_config and the main thread reaches the   *)
(* EV6 writes of MasterEv6Stop and MasterEv6Ack within a byte where there  *)
(* are rounds that need them.                                              *)
THEOREM Invariant ==
  ASSUME ResetOnError, Timely
  PROVE  Spec => []IInv
<1>1. Init => IInv
  BY InitInv
<1>2. IInv /\ [Next]_vars => IInv'
  BY NextInv DEF RetriesClean
<1>3. QED
  BY <1>1, <1>2, PTL DEF Spec

(* Every variable of the library, the peripherals and the bus keeps its    *)
(* type; pcount in particular never leaves a uint16_t.                     *)
THEOREM TypeCorrect ==
  ASSUME ResetOnError, Timely
  PROVE  Spec => []TypeOK
<1>1. IInv => TypeOK
  BY DEF IInv
<1>2. QED
  BY <1>1, Invariant, PTL

(* pbuff and pcount divide the size of the call: no handler writes past    *)
(* the buffer or wraps the counter.                                        *)
THEOREM BoundsHold ==
  ASSUME ResetOnError, Timely
  PROVE  Spec => []BufferBounds
<1>1. IInv => BufferBounds
  BY DEF IInv, HandleInv, HandleOf, BufferBounds
<1>2. QED
  BY <1>1, Invariant, PTL

(* I2C_END is reported with the interrupts off and, by a master, with the  *)
(* STOP requested or out.                                                  *)
THEOREM EndIsQuiet ==
  ASSUME ResetOnError, Timely
  PROVE  Spec => []EndQuiesces
<1>1. IInv => EndQuiesces
  BY DEF IInv, InterruptInv, InterruptOf, HandlersTurn, MasterInv, RestInv, Resting, AtRest,
         EndQuiesces
<1>2. QED
  BY <1>1, Invariant, PTL

(* A master read clocks exactly its size and refuses exactly the last      *)
(* byte, for every size.                                                   *)
THEOREM ReadsAreExact ==
  ASSUME ResetOnError, Timely
  PROVE  Spec => []ReadClocksExactly
<1>1. IInv => ReadClocksExactly
  BY DEF IInv, MasterInv, EndInv, ReadClocksExactly
<1>2. QED
  BY <1>1, Invariant, PTL

-----------------------------------------------------------------------------
(***************************************************************************)
(* Two boards together: that I2CLockstepInv!LockstepInv is invariant over  *)
(* a sound line, and what follows: what a receive stores, when a write     *)
(* stops, and that interrupt mode moves and reports rounds as I2CTransfer  *)
(* says.  A step of one board leaves the other board's half of the         *)
(* invariant alone; only the bus touches both.                             *)
(***************************************************************************)

(***************************************************************************)
(* Sequences of bytes: what is sent, and pieces of it.                     *)
(***************************************************************************)

(* A sent buffer is a sequence of bytes of the length asked for.           *)
LEMMA SentType ==
  ASSUME NEW k \in Nat, NEW m \in Nat
  PROVE  Sent(k, m) \in Seq(Byte) /\ Len(Sent(k, m)) = m
         /\ \A i \in 1 .. m : Sent(k, m)[i] = <<k, i>>
<1>1. \A i \in 1 .. m : <<k, i>> \in Byte
  BY DEF Byte
<1>2. Sent(k, m) \in [1 .. m -> Byte]
  BY <1>1 DEF Sent
<1>3. QED
  BY <1>2 DEF Sent

(* Nothing of a buffer.                                                    *)
LEMMA SentEmpty ==
  ASSUME NEW k \in Nat
  PROVE  Sent(k, 0) = <<>>
BY SentType

(* What appending a byte amounts to.                                       *)
LEMMA AppendIs ==
  ASSUME NEW s \in Seq(Byte), NEW t \in Seq(Byte), NEW e \in Byte,
         Len(t) = Len(s) + 1, \A i \in 1 .. Len(s) : t[i] = s[i], t[Len(s) + 1] = e
  PROVE  Append(s, e) = t
<1>1. /\ Append(s, e) \in Seq(Byte) /\ Len(Append(s, e)) = Len(s) + 1
      /\ \A i \in 1 .. Len(s) : Append(s, e)[i] = s[i]
      /\ Append(s, e)[Len(s) + 1] = e
  BY AppendProperties
<1>2. Len(s) \in Nat
  OBVIOUS
<1> DEFINE v == Append(s, e)
<1> HIDE DEF v
<1>3. ASSUME NEW i \in 1 .. Len(v)
      PROVE  v[i] = t[i]
  <2>1. i \in 1 .. Len(s) \/ i = Len(s) + 1
    BY <1>1, <1>2 DEF v
  <2>2. QED
    BY <1>1, <2>1 DEF v
<1>4. v = t
  BY <1>1, <1>3, SeqEqual DEF v
<1> QED
  BY <1>4 DEF v

(* One byte more.                                                          *)
LEMMA SentNext ==
  ASSUME NEW k \in Nat, NEW m \in Nat
  PROVE  Append(Sent(k, m), <<k, m + 1>>) = Sent(k, m + 1)
<1> DEFINE s == Sent(k, m)
           t == Sent(k, m + 1)
           b == <<k, m + 1>>
           m1 == m + 1
<1>1. /\ s \in Seq(Byte) /\ Len(s) = m /\ t \in Seq(Byte) /\ Len(t) = m + 1
      /\ \A i \in 1 .. m : s[i] = <<k, i>>
      /\ \A i \in 1 .. m + 1 : t[i] = <<k, i>>
  <2>1. /\ Sent(k, m) \in Seq(Byte) /\ Len(Sent(k, m)) = m
        /\ \A i \in 1 .. m : Sent(k, m)[i] = <<k, i>>
    BY SentType
  <2>2. m1 \in Nat
    OBVIOUS
  <2> HIDE DEF m1
  <2>3. /\ Sent(k, m1) \in Seq(Byte) /\ Len(Sent(k, m1)) = m1
        /\ \A i \in 1 .. m1 : Sent(k, m1)[i] = <<k, i>>
    BY <2>2, SentType
  <2>4. QED
    BY <2>1, <2>3 DEF m1
<1>2. b \in Byte
  BY DEF Byte
<1>3. t[m + 1] = b
  BY <1>1
<1> HIDE DEF s, t, b, m1
<1>4. Len(t) = Len(s) + 1 /\ (\A i \in 1 .. Len(s) : t[i] = s[i]) /\ t[Len(s) + 1] = b
  <2>1. \A i \in 1 .. m : i \in 1 .. m + 1
    OBVIOUS
  <2>2. QED
    BY <1>1, <1>3, <2>1
<1>5. Append(s, b) = t
  BY <1>1, <1>2, <1>4, AppendIs
<1> QED
  BY <1>5 DEF s, t, b

(* Bytes a + 1 to b are a sequence of b - a bytes.                         *)
LEMMA PiecesType ==
  ASSUME NEW k \in Nat, NEW a \in Nat, NEW b \in Nat, a <= b
  PROVE  /\ Pieces(k, a, b) \in Seq(Byte) /\ Len(Pieces(k, a, b)) = b - a
         /\ \A i \in 1 .. b - a : Pieces(k, a, b)[i] = <<k, a + i>>
<1>1. \A i \in 1 .. b - a : <<k, a + i>> \in Byte
  BY DEF Byte
<1>2. Pieces(k, a, b) \in [1 .. b - a -> Byte] /\ b - a \in Nat
  BY <1>1 DEF Pieces
<1>3. QED
  BY <1>2 DEF Pieces

(* Nothing is on its way exactly if all that was posted has moved.         *)
LEMMA PiecesEmpty ==
  ASSUME NEW k \in Nat, NEW a \in Nat, NEW b \in Nat, a <= b
  PROVE  Pieces(k, a, b) = <<>> <=> a = b
<1>1. /\ Pieces(k, a, b) \in Seq(Byte) /\ Len(Pieces(k, a, b)) = b - a
  BY PiecesType
<1>2. QED
  BY <1>1

(* The first piece, and what is left without it.                           *)
LEMMA PiecesHead ==
  ASSUME NEW k \in Nat, NEW a \in Nat, NEW b \in Nat, a <= b, Pieces(k, a, b) # <<>>
  PROVE  /\ a + 1 <= b
         /\ Head(Pieces(k, a, b)) = <<k, a + 1>>
         /\ Tail(Pieces(k, a, b)) = Pieces(k, a + 1, b)
<1> DEFINE s == Pieces(k, a, b)
           t == Pieces(k, a + 1, b)
<1>1. /\ s \in Seq(Byte) /\ Len(s) = b - a
      /\ \A i \in 1 .. b - a : s[i] = <<k, a + i>>
  BY PiecesType
<1>2. a < b
  BY <1>1, PiecesEmpty
<1> DEFINE a1 == a + 1
<1>3. /\ t \in Seq(Byte) /\ Len(t) = b - a - 1
      /\ \A i \in 1 .. b - a - 1 : t[i] = <<k, a + 1 + i>>
  <2>1. a1 \in Nat /\ a1 <= b /\ b - a1 = b - a - 1
    BY <1>2
  <2> HIDE DEF a1
  <2>2. /\ Pieces(k, a1, b) \in Seq(Byte) /\ Len(Pieces(k, a1, b)) = b - a1
        /\ \A i \in 1 .. b - a1 : Pieces(k, a1, b)[i] = <<k, a1 + i>>
    BY <2>1, PiecesType, ZenonT(40)
  <2>3. QED
    BY <2>1, <2>2 DEF a1
<1>4. s # <<>>
  OBVIOUS
<1> HIDE DEF s, t
<1>5. Head(s) = s[1] /\ Tail(s) \in Seq(Byte) /\ Len(Tail(s)) = b - a - 1
      /\ \A i \in 1 .. b - a - 1 : Tail(s)[i] = s[i + 1]
  BY <1>1, <1>2, <1>4, HeadTailProperties
<1>6. Head(s) = <<k, a + 1>>
  BY <1>1, <1>2, <1>5
<1>7. ASSUME NEW i \in 1 .. b - a - 1
      PROVE  Tail(s)[i] = t[i]
  <2>1. i + 1 \in 1 .. b - a /\ a + (i + 1) = a + 1 + i
    BY <1>2
  <2>2. s[i + 1] = <<k, a + (i + 1)>>
    BY <1>1, <2>1
  <2>3. QED
    BY <1>3, <1>5, <2>1, <2>2
<1>8. Tail(s) = t
  BY <1>3, <1>5, <1>7, SeqEqual
<1>9. a + 1 <= b
  BY <1>2
<1> QED
  BY <1>6, <1>8, <1>9 DEF s, t

(* One piece more.                                                         *)
LEMMA PiecesNext ==
  ASSUME NEW k \in Nat, NEW a \in Nat, NEW b \in Nat, a <= b
  PROVE  Append(Pieces(k, a, b), <<k, b + 1>>) = Pieces(k, a, b + 1)
<1> DEFINE s == Pieces(k, a, b)
           t == Pieces(k, a, b + 1)
           e == <<k, b + 1>>
<1>1. /\ s \in Seq(Byte) /\ Len(s) = b - a
      /\ \A i \in 1 .. b - a : s[i] = <<k, a + i>>
  BY PiecesType
<1> DEFINE b1 == b + 1
<1>2. /\ t \in Seq(Byte) /\ Len(t) = b - a + 1
      /\ \A i \in 1 .. b - a + 1 : t[i] = <<k, a + i>>
  <2>1. b1 \in Nat /\ a <= b1 /\ b1 - a = b - a + 1
    OBVIOUS
  <2> HIDE DEF b1
  <2>2. /\ Pieces(k, a, b1) \in Seq(Byte) /\ Len(Pieces(k, a, b1)) = b1 - a
        /\ \A i \in 1 .. b1 - a : Pieces(k, a, b1)[i] = <<k, a + i>>
    BY <2>1, PiecesType
  <2>3. QED
    BY <2>1, <2>2 DEF b1
<1>3. e \in Byte /\ a + (b - a + 1) = b + 1 /\ b - a + 1 \in 1 .. b - a + 1 /\ b - a \in Nat
  BY DEF Byte
<1>4. t[b - a + 1] = e
  BY <1>2, <1>3
<1>5. ASSUME NEW i \in 1 .. b - a
      PROVE  t[i] = s[i]
  <2>1. i \in 1 .. b - a + 1
    OBVIOUS
  <2> HIDE DEF s, t
  <2>2. QED
    BY <1>1, <1>2, <2>1
<1> HIDE DEF s, t, e
<1>7. Append(s, e) = t
  BY <1>1, <1>2, <1>3, <1>4, <1>5, AppendIs
<1> QED
  BY <1>7 DEF s, t, e

(* Reading the data register moves bytes from rx to mem: together they     *)
(* stay as they are.                                                       *)
LEMMA ReadKeepsStored ==
  ASSUME NEW s \in Seq(Byte), NEW t \in Seq(Byte), NEW j \in 0 .. Len(t), NEW r,
         r = [i \in 1 .. j |-> IF i <= Len(t) THEN t[i] ELSE Garbage]
  PROVE  (s \o r) \o SubSeq(t, j + 1, Len(t)) = s \o t
<1>1. r \in Seq(Byte) /\ Len(r) = j /\ \A i \in 1 .. j : r[i] = t[i]
  <2>1. \A i \in 1 .. j : t[i] \in Byte /\ i <= Len(t)
    BY ElementOfSeq
  <2>2. r \in [1 .. j -> Byte]
    BY <2>1
  <2>3. QED
    BY <2>1, <2>2
<1> DEFINE u == SubSeq(t, j + 1, Len(t))
<1>2. u \in Seq(Byte)
  BY SubSeqProperties
<1>3. r = SubSeq(t, 1, j)
  <2>1. /\ SubSeq(t, 1, j) \in Seq(Byte) /\ Len(SubSeq(t, 1, j)) = j
        /\ \A i \in 1 .. j : SubSeq(t, 1, j)[i] = t[i]
    BY SubSeqProperties
  <2>2. QED
    BY <1>1, <2>1, SeqEqual
<1>4. r \o u = t
  <2>1. SubSeq(t, 1, j) \o SubSeq(t, j + 1, Len(t)) = SubSeq(t, 1, Len(t))
    <3>1. 1 \in 1 .. Len(t) + 1 /\ j \in 1 - 1 .. Len(t) /\ Len(t) \in j .. Len(t)
      OBVIOUS
    <3>2. QED
      BY <3>1, ConcatAdjacentSubSeq, Zenon
  <2>2. QED
    BY <1>3, <2>1, SubSeqFull
<1> HIDE DEF u
<1>5. (s \o r) \o u = s \o t
  <2>1. (s \o r) \o u = s \o (r \o u)
    BY <1>1, <1>2, ConcatAssociative, SMTT(30)
  <2>2. QED
    BY <1>4, <2>1
<1> QED
  BY <1>5 DEF u

(* A byte that arrives is stored or waits behind those that do.            *)
LEMMA ArrivesBehind ==
  ASSUME NEW s \in Seq(Byte), NEW t \in Seq(Byte), NEW e \in Byte
  PROVE  s \o Append(t, e) = Append(s \o t, e)
<1>1. Append(t, e) = t \o <<e>> /\ <<e>> \in Seq(Byte)
  BY AppendIsConcat
<1>2. s \o t \in Seq(Byte)
  OBVIOUS
<1>3. Append(s \o t, e) = (s \o t) \o <<e>>
  BY <1>2, AppendIsConcat
<1>4. (s \o t) \o <<e>> = s \o (t \o <<e>>)
  BY <1>1, ConcatAssociative
<1>5. QED
  BY <1>1, <1>3, <1>4

(***************************************************************************)
(* Frames: what a step of one board leaves alone.                          *)
(***************************************************************************)

SameBoard(m) == SameNode(m) /\ UNCHANGED <<tx[m], mem[m]>>

(* The slave's half of the invariant, and where it is in the script.       *)
LEMMA SlaveFrame ==
  ASSUME SlaveLock, SameBoard("S"), UNCHANGED <<sel, clocked, plan>>,
         phase' = "data" <=> phase = "data", phase = "free" => phase' = "free"
  PROVE  /\ SlaveLock'
         /\ Served' = Served /\ SlaveOpen' = SlaveOpen /\ Ended("S")' = Ended("S")
<1> USE DEF SameBoard, SameNode
<1>1. Served' = Served /\ SlaveOpen' = SlaveOpen /\ Ended("S")' = Ended("S")
  BY DEF Served, SlaveOpen, Ended, InCall
<1>2. CallOf("S")' /\ SlaveWire' /\ LatchInv'
  BY <1>1 DEF SlaveLock, CallOf, Returned, SlaveWire, LatchInv
<1>3. Stored("S")' = Stored("S") /\ Size("S")' = Size("S")
  BY DEF Stored, Size, MyRound
<1>4. SlaveStores' /\ SlaveSends'
  BY <1>1, <1>3 DEF SlaveLock, SlaveStores, SlaveSends, Sent, Pieces, InCall
<1>5. QED
  BY <1>1, <1>2, <1>4 DEF SlaveLock

(* The master's half of the invariant, and how far the bus has come.       *)
LEMMA MasterLockFrame ==
  ASSUME MasterLock, SameBoard("M"), UNCHANGED <<phase, dir, clocked, acked, plan>>
  PROVE  MasterLock' /\ Moved' = Moved /\ FrameRound' = FrameRound
<1> USE DEF SameBoard, SameNode
<1>1. /\ FrameRound' = FrameRound /\ InData' = InData /\ Ended("M")' = Ended("M")
      /\ Stored("M")' = Stored("M") /\ Size("M")' = Size("M") /\ AtRest' = AtRest
  BY DEF FrameRound, InData, Ended, InCall, Stored, Size, MyRound, AtRest
<1>2. Moved' = Moved /\ Posted' = Posted
  BY <1>1 DEF Moved, Posted
<1>3. CallOf("M")' /\ MasterWire'
  BY <1>1 DEF MasterLock, CallOf, Returned, MasterWire
<1>4. MasterStores' /\ MasterSends'
  BY <1>1, <1>2 DEF MasterLock, MasterStores, MasterSends, Sent, Pieces, InCall
<1>5. QED
  BY <1>1, <1>2, <1>3, <1>4 DEF MasterLock

(* A step of the slave's board.                                            *)
LEMMA SlaveStep ==
  ASSUME LockstepInv, SameBoard("M"), UNCHANGED <<phase, dir, clocked, acked, plan>>,
         CallOf("S")', SlaveWire', LatchInv', SlaveStores', SlaveSends',
         Served' => SlaveOpen',
         Ended("S")' = IF SlaveOpen' /\ ~Served' THEN Moved - 1 ELSE Moved
  PROVE  LockstepInv'
<1>1. MasterLock' /\ Moved' = Moved
  BY MasterLockFrame DEF LockstepInv
<1>2. QED
  BY <1>1 DEF LockstepInv, SlaveLock, RoundInv

(* A step of the master's board.                                           *)
LEMMA MasterStep ==
  ASSUME LockstepInv, SameBoard("S"), UNCHANGED <<sel, clocked, plan>>,
         phase' = "data" <=> phase = "data", phase = "free" => phase' = "free",
         CallOf("M")', MasterWire', MasterStores', MasterSends', Moved' = Moved
  PROVE  LockstepInv'
<1>1. /\ SlaveLock'
      /\ Served' = Served /\ SlaveOpen' = SlaveOpen /\ Ended("S")' = Ended("S")
  BY SlaveFrame DEF LockstepInv
<1>2. QED
  BY <1>1 DEF LockstepInv, MasterLock, RoundInv

(* What a main thread or a handler leaves alone.                           *)
LEMMA OtherBoard ==
  ASSUME TypeOK, NEW n \in Node, Main(n) \/ Handler(n)
  PROVE  /\ \A m \in Node \ {n} : SameBoard(m)
         /\ n = "S" => UNCHANGED <<phase, dir, clocked, acked>>
         /\ Handler(n) => UNCHANGED <<phase, dir, clocked, acked>>
         /\ sel' = sel \/ i2c_config("S")
         /\ plan' = plan
<1>1. /\ tx \in [Node -> Seq(Byte)] /\ mem \in [Node -> Seq(Byte)]
  BY DEF TypeOK, HwTypeOK, SwTypeOK
<1>2. \A m \in Node \ {n} : SameNode(m)
  BY MainLocal, HandlerLocal
<1>3. plan' = plan /\ (n = "S" \/ Handler(n) => UNCHANGED <<phase, dir, clocked, acked>>)
  BY MainLocal, HandlerLocal DEF SameBus
<1> DEFINE Rest == /\ \A m \in Node \ {n} : UNCHANGED <<tx[m], mem[m]>>
                   /\ sel' = sel \/ i2c_config("S")
<1> USE <1>1 DEF hwVars, busVars, handle, app
<1>4. Rest
  <2>1. CASE StartCall(n) \/ BusyTimeout(n) \/ EnableInterrupts(n) \/ i2c_wait_end(n)
    BY <2>1 DEF StartCall, BusyTimeout, EnableInterrupts, i2c_wait_end
  <2>2. CASE NextRound(n) \/ Retry(n) \/ GiveUp(n)
    BY <2>2 DEF NextRound, Retry, GiveUp
  <2>3. CASE i2c_config(n)
    <3>1. /\ \A m \in Node \ {n} : UNCHANGED <<tx[m], mem[m]>>
          /\ n # "S" => sel' = sel
      BY <2>3 DEF i2c_config, i2c_reset, SwTypeOK, HwTypeOK, TypeOK
    <3>2. QED
      BY <2>3, <3>1
  <2>4. CASE n = "M" /\ MasterMain
    BY <2>4 DEF MasterMain, MasterStart, MasterSendAddress, MasterClearAddr, MasterEv6Stop, MasterEv6Ack,
       MasterAddrFail, MasterFailStop, MasterStepTimeout, i2c_7bit_address_send
  <2>5. CASE n = "S" /\ SlaveMain
    BY <2>5 DEF SlaveMain, SlaveListen, SlaveClearAddr, SlaveStepTimeout
  <2>6. CASE i2c_evt_irq_handler(n)
    <3>1. sel' = sel
      BY <2>6 DEF i2c_evt_irq_handler
    <3>2. tx' = tx \/ \E b : tx' = [tx EXCEPT ![n] = Append(@, b)]
      BY <2>6 DEF i2c_evt_irq_handler, i2c_master_tx_isr_int, i2c_master_rx_isr_int, MasterRxTdc,
         MasterRxRdbf, i2c_slave_tx_isr_int, i2c_slave_rx_isr_int, SendData, i2c_data_send
    <3>3. mem' = mem \/ \E k : mem' = [mem EXCEPT ![n] = @ \o Received(n, k)]
      BY <2>6 DEF i2c_evt_irq_handler, i2c_master_tx_isr_int, i2c_master_rx_isr_int, MasterRxTdc,
         MasterRxRdbf, i2c_slave_tx_isr_int, i2c_slave_rx_isr_int, ReadData
    <3>4. QED
      BY <3>1, <3>2, <3>3
  <2>7. CASE SlaveTxEnd(n) \/ i2c_err_irq_handler(n)
    BY <2>7 DEF SlaveTxEnd, i2c_err_irq_handler
  <2>8. QED
    BY <2>1, <2>2, <2>3, <2>4, <2>5, <2>6, <2>7, Zenon DEF Main, Handler
<1>5. QED
  BY <1>2, <1>3, <1>4 DEF SameBoard

(***************************************************************************)
(* The slave's board.                                                      *)
(***************************************************************************)

(* Over a sound line the slave's call neither times out nor fails.         *)
LEMMA SlaveNeverFails ==
  ASSUME SoundLine, LockstepInv, Main("S")
  PROVE  \/ StartCall("S") \/ EnableInterrupts("S") \/ i2c_wait_end("S") \/ NextRound("S")
         \/ SlaveListen \/ SlaveClearAddr
<1>1. ~BusyTimeout("S") /\ ~SlaveStepTimeout
  BY DEF SoundLine, BusyTimeout, SlaveStepTimeout
<1>2. ~(pc["S"] = "returned" /\ ret["S"] # "OK")
  BY DEF LockstepInv, SlaveLock, CallOf, Returned
<1>3. ~i2c_config("S") /\ ~Retry("S") /\ ~GiveUp("S")
  BY <1>2 DEF i2c_config, Retry, GiveUp, At
<1>4. QED
  BY <1>1, <1>3 DEF Main, SlaveMain

(* i2c_slave_receive_int and i2c_slave_transmit_int.                       *)
LEMMA SlaveMainStep ==
  ASSUME SoundLine, TypeOK, HandleInv, LockstepInv, Main("S")
  PROVE  LockstepInv'
<1>1. /\ \/ StartCall("S") \/ EnableInterrupts("S") \/ i2c_wait_end("S") \/ NextRound("S")
         \/ SlaveListen \/ SlaveClearAddr
      /\ ~i2c_config("S")
  BY SlaveNeverFails DEF LockstepInv, SlaveLock, CallOf, Returned, i2c_config, At
<1>2. "S" \in Node /\ "M" \in Node /\ "M" # "S"
  BY DEF Node
<1>3. SameBoard("M") /\ UNCHANGED <<phase, dir, sel, clocked, acked, plan>>
  BY <1>1, <1>2, OtherBoard
<1>4. /\ ctrl \in [Node -> SUBSET CtrlBits] /\ flags \in [Node -> SUBSET Flags]
      /\ mode \in [Node -> Modes] /\ status \in [Node -> {"START", "END"}]
      /\ pcount \in [Node -> UInt16] /\ pbuff \in [Node -> Nat]
      /\ error_code \in [Node -> Errors] /\ mem \in [Node -> Seq(Byte)]
      /\ pc \in [Node -> MainPc] /\ isr \in [Node -> {"none", "ackfail"}]
      /\ ret \in [Node -> Results] /\ round \in [Node -> Nat \ {0}]
  BY DEF TypeOK, HwTypeOK, SwTypeOK
<1>5. /\ CallOf("S") /\ SlaveWire /\ LatchInv /\ SlaveStores /\ SlaveSends
      /\ Served => SlaveOpen
      /\ Ended("S") = IF SlaveOpen /\ ~Served THEN Moved - 1 ELSE Moved
  BY DEF LockstepInv, SlaveLock, RoundInv
<1> USE <1>2, <1>4 DEF Goto, Return, Fail, SetCtrl, ClearFlags, hwVars, busVars, handle, app, At, MainRuns
<1>6. CASE StartCall("S")
  <2>1. /\ pc["S"] = "idle" /\ pc'["S"] = "busy" /\ status'["S"] = "START" /\ mem'["S"] = <<>>
        /\ error_code'["S"] = "OK" /\ isr["S"] = "none"
        /\ UNCHANGED <<ctrl, flags, tx, rx, isr, round>>
    BY <1>6 DEF StartCall
  <2>2. ~SlaveOpen /\ ~SlaveOpen' /\ Served' = Served /\ Ended("S")' = Ended("S")
    BY <1>3, <2>1 DEF SlaveOpen, Served, Ended, InCall
  <2>3. CallOf("S")' /\ SlaveWire' /\ LatchInv'
    BY <1>3, <1>5, <2>1, <2>2 DEF CallOf, Returned, SlaveWire, LatchInv
  <2>4. SlaveStores' /\ SlaveSends'
    BY <1>5, <2>1, <2>2 DEF SlaveStores, SlaveSends
  <2>5. QED
    BY <1>3, <1>5, <2>2, <2>3, <2>4, SlaveStep
<1>7. CASE SlaveListen
  <2>1. /\ pc["S"] = "busy" /\ pc'["S"] = "addr" /\ "ACKEN" \in ctrl'["S"]
        /\ UNCHANGED <<flags, tx, rx, handle, isr, round>>
    BY <1>7 DEF SlaveListen
  <2>2. ~SlaveOpen /\ ~SlaveOpen' /\ Served' = Served /\ Ended("S")' = Ended("S")
    BY <1>3, <2>1 DEF SlaveOpen, Served, Ended, InCall
  <2>3. CallOf("S")' /\ SlaveWire' /\ LatchInv'
    BY <1>3, <1>5, <2>1, <2>2 DEF CallOf, Returned, SlaveWire, LatchInv
  <2>4. SlaveStores' /\ SlaveSends'
    BY <1>3, <1>5, <2>1, <2>2 DEF SlaveStores, SlaveSends, InCall, Size, MyRound, Sent
  <2>5. QED
    BY <1>3, <1>5, <2>2, <2>3, <2>4, SlaveStep
<1>8. CASE SlaveClearAddr
  <2>1. /\ pc["S"] = "addr" /\ pc'["S"] = "enable" /\ "ADDR7F" \in flags["S"]
        /\ flags'["S"] = flags["S"] \ {"ADDR7F"} /\ isr["S"] = "none"
        /\ UNCHANGED <<ctrl, tx, rx, handle, isr, round>>
    BY <1>8 DEF SlaveClearAddr
  <2>2. /\ status["S"] = "START" /\ pbuff["S"] = 0 /\ pcount["S"] # 0
        /\ round["S"] \in 1 .. Len(plan)
    <3>1. status["S"] = "START" /\ pbuff["S"] = 0 /\ BoundsOf("S") /\ round["S"] \in 1 .. Len(plan)
      BY <2>1 DEF HandleInv, HandleOf, InCall
    <3>2. Size("S") \in UInt16 \ {0}
      BY <3>1, PlanFacts DEF TypeOK, SwTypeOK
    <3>3. QED
      BY <3>1, <3>2 DEF BoundsOf, UInt16
  <2>3. ~SlaveOpen /\ SlaveOpen' /\ ~Served /\ Served' /\ Ended("S")' = Ended("S")
    BY <1>3, <1>5, <2>1, <2>2 DEF SlaveOpen, Served, Ended, InCall, SlaveWire
  <2>4. CallOf("S")' /\ SlaveWire' /\ LatchInv'
    BY <1>3, <1>5, <2>1, <2>3 DEF CallOf, Returned, SlaveWire, LatchInv
  <2>5. /\ mem["S"] = <<>> /\ rx["S"] = <<>> /\ clocked = 0 /\ tx["S"] = <<>>
    BY <1>5, <2>1, <2>3 DEF SlaveStores, SlaveWire
  <2>6. /\ Stored("S")' = Sent(round["S"], 0) /\ <<>> = Pieces(round["S"], 0, 0)
    <3>1. <<>> \o <<>> = <<>>
      OBVIOUS
    <3>2. Stored("S")' = <<>>
      BY <2>1, <2>5, <3>1 DEF Stored
    <3>3. Sent(round["S"], 0) = <<>> /\ Pieces(round["S"], 0, 0) = <<>>
      BY SentEmpty, PiecesEmpty
    <3>4. QED
      BY <3>2, <3>3
  <2>7. SlaveStores'
    <3>1. Stored("S")' = Sent(round["S"], clocked)'
      BY <1>3, <2>1, <2>5, <2>6 DEF Sent
    <3>2. QED
      BY <1>3, <1>5, <2>1, <2>2, <2>3, <2>5, <3>1 DEF SlaveStores, handle
  <2>8. SlaveSends'
    BY <1>3, <1>5, <2>1, <2>2, <2>3, <2>5, <2>6 DEF SlaveSends, Pieces
  <2>9. QED
    BY <1>3, <1>5, <2>3, <2>4, <2>7, <2>8, SlaveStep
<1>9. CASE EnableInterrupts("S")
  <2>1. /\ pc["S"] = "enable" /\ pc'["S"] = "wait_end"
        /\ UNCHANGED <<ctrl, flags, tx, rx, handle, isr, round>>
    BY <1>9 DEF EnableInterrupts
  <2>2. SlaveOpen' = SlaveOpen /\ Served' = Served /\ Ended("S")' = Ended("S")
    BY <1>3, <2>1 DEF SlaveOpen, Served, Ended, InCall
  <2>3. CallOf("S")' /\ SlaveWire' /\ LatchInv'
    BY <1>3, <1>5, <2>1, <2>2 DEF CallOf, Returned, SlaveWire, LatchInv
  <2>4. SlaveStores' /\ SlaveSends'
    BY <1>3, <1>5, <2>1, <2>2 DEF SlaveStores, SlaveSends, InCall, Size, MyRound, Sent, Pieces, Stored
  <2>5. QED
    BY <1>3, <1>5, <2>2, <2>3, <2>4, SlaveStep
<1>10. CASE i2c_wait_end("S")
  <2>1. /\ pc["S"] = "wait_end" /\ pc'["S"] = "returned" /\ status["S"] = "END"
        /\ ret'["S"] = error_code["S"]
        /\ UNCHANGED <<ctrl, flags, tx, rx, handle, isr, round>>
    BY <1>10 DEF i2c_wait_end, SoundLine
  <2>2. ~SlaveOpen /\ ~SlaveOpen' /\ Served' = Served /\ Ended("S")' = Ended("S")
    BY <1>3, <2>1 DEF SlaveOpen, Served, Ended, InCall
  <2>3. CallOf("S")' /\ SlaveWire' /\ LatchInv'
    BY <1>3, <1>5, <2>1, <2>2 DEF CallOf, Returned, SlaveWire, LatchInv
  <2>4. SlaveStores' /\ SlaveSends'
    BY <1>3, <1>5, <2>1, <2>2 DEF SlaveStores, SlaveSends, InCall, Size, MyRound, Sent, Pieces, Stored
  <2>5. QED
    BY <1>3, <1>5, <2>2, <2>3, <2>4, SlaveStep
<1>11. CASE NextRound("S")
  <2>1. /\ pc["S"] = "returned" /\ pc'["S"] \in {"done", "idle"} /\ round'["S"] = round["S"] + 1
        /\ status["S"] = "END" /\ UNCHANGED <<ctrl, flags, tx, rx, handle, isr>>
    BY <1>5, <1>11 DEF NextRound, CallOf, Returned
  <2>2. ~SlaveOpen /\ ~SlaveOpen' /\ Served' = Served /\ Ended("S")' = Ended("S")
    <3>1. round["S"] \in Nat
      BY <1>4
    <3>2. Ended("S") = round["S"] - 0 /\ Ended("S")' = round'["S"] - 1
      BY <2>1 DEF Ended, InCall
    <3>3. Ended("S")' = Ended("S")
      BY <2>1, <3>1, <3>2
    <3>4. QED
      BY <1>3, <2>1, <3>3 DEF SlaveOpen, Served
  <2>3. CallOf("S")' /\ SlaveWire' /\ LatchInv'
    BY <1>3, <1>5, <2>1, <2>2 DEF CallOf, Returned, SlaveWire, LatchInv
  <2>4. SlaveStores' /\ SlaveSends'
    BY <1>3, <1>5, <2>1, <2>2 DEF SlaveStores, SlaveSends, InCall
  <2>5. QED
    BY <1>3, <1>5, <2>2, <2>3, <2>4, SlaveStep
<1>12. QED
  BY <1>1, <1>6, <1>7, <1>8, <1>9, <1>10, <1>11
(* The slave's handlers.  Only the transmit handler and the receive        *)
(* handler of a call that is open find something to do.                    *)
LEMMA SlaveHandlerStep ==
  ASSUME SoundLine, TypeOK, HandleInv, InterruptInv, LockstepInv, Handler("S")
  PROVE  LockstepInv'
<1>1. "S" \in Node /\ "M" \in Node /\ "M" # "S"
  BY DEF Node
<1>2. ~i2c_config("S")
  BY DEF LockstepInv, SlaveLock, CallOf, Returned, i2c_config, At
<1>3. SameBoard("M") /\ UNCHANGED <<phase, dir, sel, clocked, acked, plan>>
  BY <1>1, <1>2, OtherBoard
<1>4. /\ ctrl \in [Node -> SUBSET CtrlBits] /\ flags \in [Node -> SUBSET Flags]
      /\ ints \in [Node -> SUBSET Interrupts]
      /\ status \in [Node -> {"START", "END"}]
      /\ pcount \in [Node -> UInt16] /\ pbuff \in [Node -> Nat]
      /\ mem \in [Node -> Seq(Byte)] /\ rx \in [Node -> Seq(Byte)] /\ tx \in [Node -> Seq(Byte)]
      /\ pc \in [Node -> MainPc] /\ isr \in [Node -> {"none", "ackfail"}]
      /\ round \in [Node -> Nat \ {0}] /\ UInt16 \subseteq Nat
  BY DEF TypeOK, HwTypeOK, SwTypeOK, UInt16
<1>5. /\ CallOf("S") /\ SlaveWire /\ LatchInv /\ SlaveStores /\ SlaveSends
      /\ Served => SlaveOpen
      /\ Ended("S") = IF SlaveOpen /\ ~Served THEN Moved - 1 ELSE Moved
  BY DEF LockstepInv, SlaveLock, RoundInv
<1>6. /\ pc["S"] = "wait_end" /\ status["S"] = "START" /\ SlaveOpen
      /\ mode["S"] = ModeOf("S") /\ BoundsOf("S")
  <2>1. ints["S"] # {} \/ isr["S"] # "none"
    BY DEF Handler, i2c_evt_irq_handler, i2c_err_irq_handler, SlaveTxEnd, EvtRequest, ErrRequest
  <2>2. HandlersTurn("S") /\ mode["S"] = ModeOf("S") /\ BoundsOf("S")
    BY <1>1, <2>1, HandlerContext
  <2>3. pc["S"] = "wait_end" /\ status["S"] = "START"
    BY <1>5, <2>2 DEF HandlersTurn, CallOf, Returned
  <2>4. QED
    BY <2>2, <2>3 DEF SlaveOpen
<1>7. mode["S"] \in {"I2C_INT_SLA_TX", "I2C_INT_SLA_RX"}
  BY <1>6 DEF ModeOf
<1>8. Served' = (sel /\ "ADDR7F" \notin flags'["S"])
  BY <1>3 DEF Served
<1>9. SlaveOpen /\ round["S"] \in Nat /\ pbuff["S"] \in Nat /\ pcount["S"] \in Nat
  <2>1. round["S"] \in Nat /\ pbuff["S"] \in Nat /\ pcount["S"] \in Nat
    BY <1>1, <1>4
  <2>2. QED
    BY <1>6, <2>1
<1> USE <1>1, <1>4 DEF ClearFlags, TransferComplete, i2c_interrupt_disable, busVars, app
<1>10. CASE i2c_evt_irq_handler("S") /\ mode["S"] = "I2C_INT_SLA_TX"
  <2>1. /\ i2c_slave_tx_isr_int("S")
        /\ UNCHANGED <<mode, error_code, pc, ret, round>>
    BY <1>10 DEF i2c_evt_irq_handler
  <2>2. /\ TDBE("S") /\ pcount["S"] # 0 /\ SendData("S") /\ isr["S"] = "none"
        /\ UNCHANGED <<ctrl, flags, rx, mem, status>>
        /\ isr'["S"] = IF pcount["S"] = 1 THEN "ackfail" ELSE "none"
    BY <1>10, <2>1 DEF i2c_slave_tx_isr_int, i2c_evt_irq_handler
  <2>3. Served
    BY <2>2 DEF TDBE, Transmitting, Served
  <2>4. /\ pbuff'["S"] = pbuff["S"] + 1 /\ pcount'["S"] = pcount["S"] - 1
        /\ tx'["S"] = Append(tx["S"], <<round["S"], pbuff["S"] + 1>>)
    <3>1. 1 <= pcount["S"]
      BY <1>9, <2>2
    <3>2. pbuff'["S"] = pbuff["S"] + 1 /\ pcount'["S"] = pcount["S"] - 1
      BY <2>2, <3>1 DEF SendData, Minus
    <3>3. tx'["S"] = Append(tx["S"], <<round["S"], pbuff["S"] + 1>>)
      BY <2>2, Zenon DEF SendData, i2c_data_send
    <3>4. QED
      BY <3>2, <3>3
  <2>5. SlaveOpen' = SlaveOpen /\ Served' = Served /\ Ended("S")' = Ended("S")
    BY <1>3, <2>1, <2>2 DEF SlaveOpen, Served, Ended, InCall
  <2>6. CallOf("S")' /\ LatchInv'
    BY <1>3, <1>5, <2>1, <2>2, <2>5 DEF CallOf, Returned, LatchInv
  <2>7. SlaveWire'
    BY <1>3, <1>5, <2>1, <2>2, <2>3 DEF SlaveWire, Served
  <2>8. SlaveStores'
    BY <1>3, <1>5, <1>10, <2>1, <2>2, <2>5 DEF SlaveStores, InCall, Size, MyRound
  <2>9. /\ clocked <= pbuff["S"] /\ clocked \in Nat
        /\ tx["S"] = Pieces(round["S"], clocked, pbuff["S"])
    BY <1>5, <1>9, <1>10, <2>3 DEF SlaveSends, TypeOK, HwTypeOK
  <2>10. tx'["S"] = Pieces(round["S"], clocked, pbuff["S"] + 1)
    <3>1. Append(Pieces(round["S"], clocked, pbuff["S"]), <<round["S"], pbuff["S"] + 1>>)
            = Pieces(round["S"], clocked, pbuff["S"] + 1)
      BY <1>9, <2>9, PiecesNext
    <3>2. QED
      BY <2>4, <2>9, <3>1
  <2>11. clocked <= pbuff["S"] + 1 /\ (pcount["S"] = 1 <=> pcount'["S"] = 0)
    BY <2>4, <2>9
  <2>12. SlaveSends'
    BY <1>3, <1>10, <2>1, <2>2, <2>3, <2>4, <2>5, <2>10, <2>11 DEF SlaveSends, Pieces
  <2>13. QED
    BY <1>3, <1>5, <2>5, <2>6, <2>7, <2>8, <2>12, SlaveStep
<1>11. CASE /\ i2c_evt_irq_handler("S") /\ mode["S"] = "I2C_INT_SLA_RX"
            /\ RDBF("S") /\ pcount["S"] # 0 /\ ReadData("S", 1)
            /\ UNCHANGED <<ints, flags, status>>
  <2>1. UNCHANGED <<ctrl, flags, tx, isr, mode, status, error_code, pc, ret, round>>
    BY <1>11 DEF i2c_evt_irq_handler, i2c_slave_rx_isr_int
  <2>2. SlaveOpen' = SlaveOpen /\ Served' = Served /\ Ended("S")' = Ended("S")
    BY <1>3, <2>1 DEF SlaveOpen, Served, Ended, InCall
  <2>3. CallOf("S")' /\ SlaveWire' /\ LatchInv'
    BY <1>3, <1>5, <2>1, <2>2 DEF CallOf, Returned, SlaveWire, LatchInv
  <2>4. SlaveSends'
    BY <1>5, <1>11, <2>1, <2>2 DEF SlaveSends
  <2>5. Stored("S")' = Stored("S")
    <3>1. rx["S"] # <<>> /\ 1 \in 0 .. Len(rx["S"])
      BY <1>11 DEF RDBF
    <3>2. /\ mem'["S"] = mem["S"] \o Received("S", 1)
          /\ rx'["S"] = SubSeq(rx["S"], 1 + 1, Len(rx["S"]))
      BY <1>11 DEF ReadData, i2c_data_receive
    <3>3. (mem["S"] \o Received("S", 1)) \o SubSeq(rx["S"], 1 + 1, Len(rx["S"])) = mem["S"] \o rx["S"]
      BY <3>1, ReadKeepsStored, ZenonT(40) DEF Received
    <3>4. QED
      BY <3>2, <3>3 DEF Stored
  <2>6. SlaveStores'
    BY <1>3, <1>5, <1>6, <1>9, <1>11, <2>1, <2>2, <2>5 DEF SlaveStores, InCall, Size, MyRound, Sent
  <2>7. QED
    BY <1>3, <1>5, <2>2, <2>3, <2>4, <2>6, SlaveStep
<1>12. CASE /\ i2c_evt_irq_handler("S") /\ mode["S"] = "I2C_INT_SLA_RX"
            /\ ~RDBF("S") /\ "STOPF" \in flags["S"] /\ ClearFlags("S", {"STOPF"})
            /\ TransferComplete("S") /\ UNCHANGED <<rx, mem, pbuff, pcount>>
  <2>1. /\ UNCHANGED <<ctrl, tx, rx, mem, isr, mode, error_code, pc, ret, round>>
        /\ status'["S"] = "END" /\ flags'["S"] = flags["S"] \ {"STOPF"}
    BY <1>12 DEF i2c_evt_irq_handler, i2c_slave_rx_isr_int
  <2>2. ~Served /\ Served' = Served /\ ~SlaveOpen'
    BY <1>3, <1>5, <1>12, <2>1 DEF SlaveOpen, Served, LatchInv
  <2>3. Ended("S")' = Moved
    <3>1. Ended("S") = round["S"] - 1 /\ Ended("S")' = round["S"] - 0
      BY <1>6, <2>1 DEF Ended, InCall
    <3>2. round["S"] - 1 = Moved - 1
      BY <1>5, <1>9, <2>2, <3>1
    <3>3. Moved \in Int
      BY DEF Moved, FrameRound, Ended
    <3>4. QED
      BY <3>1, <3>2, <3>3
  <2>4. CallOf("S")' /\ SlaveWire' /\ LatchInv'
    BY <1>3, <1>5, <1>6, <1>12, <2>1, <2>2 DEF CallOf, Returned, SlaveWire, LatchInv
  <2>5. SlaveSends'
    BY <1>5, <1>12, <2>1, <2>2 DEF SlaveSends
  <2>6. mem["S"] = Sent(round["S"], Size("S")) /\ rx["S"] = <<>>
    <3>1. rx["S"] = <<>>
      BY <1>12 DEF RDBF
    <3>2. Stored("S") = mem["S"]
      BY <3>1, ConcatEmptySeq DEF Stored
    <3>3. QED
      BY <1>5, <1>9, <1>12, <2>2, <3>1, <3>2 DEF SlaveStores
  <2>7. SlaveStores'
    BY <1>3, <1>6, <2>1, <2>2, <2>6 DEF SlaveStores, Size, MyRound, Sent
  <2>8. QED
    BY <1>3, <1>5, <2>2, <2>3, <2>4, <2>5, <2>7, SlaveStep
<1>13. CASE SlaveTxEnd("S")
  <2>1. /\ isr["S"] = "ackfail" /\ "ACKFAIL" \in flags["S"]
        /\ flags'["S"] = flags["S"] \ {"ACKFAIL"} /\ status'["S"] = "END" /\ isr'["S"] = "none"
        /\ UNCHANGED <<ctrl, tx, rx, mode, mem, error_code, pc, ret, round>>
    BY <1>13 DEF SlaveTxEnd, SoundLine
  <2>2. ~Served /\ Served' = Served /\ ~SlaveOpen' /\ mode["S"] = "I2C_INT_SLA_TX"
    BY <1>3, <1>5, <2>1 DEF SlaveOpen, Served, LatchInv
  <2>3. Ended("S")' = Moved
    <3>1. Ended("S") = round["S"] - 1 /\ Ended("S")' = round["S"] - 0
      BY <1>6, <2>1 DEF Ended, InCall
    <3>2. round["S"] - 1 = Moved - 1
      BY <1>5, <1>9, <2>2, <3>1
    <3>3. Moved \in Int
      BY DEF Moved, FrameRound, Ended
    <3>4. QED
      BY <3>1, <3>2, <3>3
  <2>4. CallOf("S")' /\ SlaveWire' /\ LatchInv'
    BY <1>3, <1>5, <1>6, <2>1, <2>2 DEF CallOf, Returned, SlaveWire, LatchInv
  <2>5. SlaveSends' /\ SlaveStores'
    BY <1>5, <1>6, <2>1, <2>2 DEF SlaveSends, SlaveStores
  <2>6. QED
    BY <1>3, <1>5, <2>2, <2>3, <2>4, <2>5, SlaveStep
<1>14. ~i2c_err_irq_handler("S")
  <2>1. SUFFICES ASSUME i2c_err_irq_handler("S") PROVE FALSE
    OBVIOUS
  <2>2. isr["S"] = "none" /\ ints["S"] # {} /\ "ACKFAIL" \in flags["S"]
    BY <1>5, <2>1 DEF i2c_err_irq_handler, ErrRequest, CallOf
  <2>3. isr["S"] = "ackfail"
    BY <1>5, <2>2 DEF LatchInv, SlaveSends
  <2>4. QED
    BY <2>2, <2>3
<1>15. QED
  BY <1>7, <1>10, <1>11, <1>12, <1>13, <1>14 DEF Handler, i2c_evt_irq_handler, i2c_slave_rx_isr_int
(***************************************************************************)
(* The master's board.                                                     *)
(***************************************************************************)

(* Over a sound line the master's waits do not give up.                    *)
LEMMA MasterWaits ==
  ASSUME SoundLine, Main("M")
  PROVE  \/ StartCall("M") \/ EnableInterrupts("M") \/ i2c_wait_end("M") \/ NextRound("M")
         \/ i2c_config("M") \/ Retry("M") \/ GiveUp("M")
         \/ MasterStart \/ MasterSendAddress \/ MasterClearAddr
         \/ MasterEv6Stop \/ MasterEv6Ack \/ MasterAddrFail \/ MasterFailStop
<1>1. ~BusyTimeout("M") /\ ~MasterStepTimeout
  BY DEF SoundLine, BusyTimeout, MasterStepTimeout
<1>2. QED
  BY <1>1 DEF Main, MasterMain

(* The steps between the calls and at their ends: nothing moves, and the   *)
(* frame stays in the round that it is in.                                 *)
LEMMA MasterOutsideStep ==
  ASSUME SoundLine, TypeOK, HandleInv, MasterInv, LockstepInv,
         \/ StartCall("M") \/ EnableInterrupts("M") \/ i2c_wait_end("M") \/ NextRound("M")
         \/ Retry("M") \/ GiveUp("M")
  PROVE  LockstepInv'
<1>1. "S" \in Node /\ "M" \in Node /\ "M" # "S"
  BY DEF Node
<1>2. SameBoard("S") /\ UNCHANGED <<phase, dir, sel, clocked, acked, plan>>
  <2>1. Main("M")
    BY DEF Main
  <2>2. UNCHANGED <<phase, dir, sel, clocked, acked, plan>>
    BY DEF StartCall, EnableInterrupts, i2c_wait_end, NextRound, Retry, GiveUp, hwVars, busVars, app
  <2>3. QED
    BY <1>1, <2>1, <2>2, OtherBoard
<1>3. /\ mode \in [Node -> Modes] /\ status \in [Node -> {"START", "END"}]
      /\ pcount \in [Node -> UInt16] /\ pbuff \in [Node -> Nat]
      /\ error_code \in [Node -> Errors] /\ mem \in [Node -> Seq(Byte)]
      /\ pc \in [Node -> MainPc] /\ isr \in [Node -> {"none", "ackfail"}]
      /\ ret \in [Node -> Results] /\ round \in [Node -> Nat \ {0}]
      /\ UNCHANGED <<ctrl, flags, tx, rx>>
  BY DEF TypeOK, HwTypeOK, SwTypeOK, StartCall, EnableInterrupts, i2c_wait_end, NextRound, Retry,
     GiveUp, hwVars, busVars
<1>4. CallOf("M") /\ MasterWire /\ MasterStores /\ MasterSends
  BY DEF LockstepInv, MasterLock
<1> DEFINE Outside == pc["M"] \in {"idle", "busy", "done"}
<1>5. ASSUME FrameRound' = FrameRound, Moved' = Moved, pc["M"] \notin {"startf", "addr"},
             Outside' \/ status'["M"] = "END" => Outside \/ status["M"] = "END",
             ~Outside' /\ status'["M"] = "START" =>
               ~Outside /\ status["M"] = "START" /\ UNCHANGED pbuff,
             Returned("M")' /\ status'["M"] = "START" => Returned("M") /\ status["M"] = "START",
             CallOf("M")', MasterStores',
             InData' /\ mode'["M"] = "I2C_INT_MA_TX" => InData /\ mode["M"] = "I2C_INT_MA_TX"
      PROVE  LockstepInv'
  <2>0. pc'["M"] = "addrfail" => pc["M"] = "addrfail"
    BY <1>1, <1>3 DEF StartCall, EnableInterrupts, i2c_wait_end, NextRound, Retry, GiveUp, Goto, Return
  <2>1. status'["M"] \in {"START", "END"} /\ status["M"] \in {"START", "END"}
    <3>1. status' = status \/ \E v \in {"START", "END"} : status' = [status EXCEPT !["M"] = v]
      BY DEF StartCall, EnableInterrupts, i2c_wait_end, NextRound, Retry, GiveUp, handle
    <3>2. QED
      BY <1>1, <1>3, <3>1
  <2>2. Posted' = Posted
    BY <1>2, <1>5, <2>1 DEF Posted
  <2>3. MasterWire'
    BY <1>2, <1>3, <1>4, <1>5, <2>0 DEF MasterWire, AtRest
  <2>4. MasterSends'
    BY <1>2, <1>3, <1>4, <1>5, <2>2 DEF MasterSends, Pieces
  <2>5. QED
    BY <1>2, <1>5, <2>3, <2>4, MasterStep
<1> USE <1>1, <1>3 DEF Goto, Return, Fail, hwVars, busVars, handle, app, At, MainRuns
<1>6. CASE StartCall("M")
  <2>1. /\ pc["M"] = "idle" /\ pc'["M"] = "busy" /\ status'["M"] = "START" /\ mem'["M"] = <<>>
        /\ error_code'["M"] = "OK" /\ UNCHANGED <<ret, round>>
    BY <1>6 DEF StartCall
  <2>2. ~InData /\ ~InData' /\ Ended("M")' = Ended("M") /\ FrameRound' = FrameRound
    BY <2>1 DEF InData, Ended, InCall, FrameRound
  <2>3. Moved' = Moved
    BY <1>2, <2>2 DEF Moved
  <2>4. CallOf("M")' /\ MasterStores'
    BY <1>4, <2>1, <2>2 DEF CallOf, Returned, MasterStores
  <2>5. QED
    BY <1>5, <2>1, <2>2, <2>3, <2>4 DEF Returned
<1>7. CASE EnableInterrupts("M")
  <2>1. /\ pc["M"] = "enable" /\ pc'["M"] = "wait_end" /\ UNCHANGED <<handle, ret, round>>
    BY <1>7 DEF EnableInterrupts
  <2>2. InData' = InData /\ Ended("M")' = Ended("M") /\ FrameRound' = FrameRound
    BY <2>1 DEF InData, Ended, InCall, FrameRound
  <2>3. Moved' = Moved
    BY <1>2, <2>1, <2>2 DEF Moved
  <2>4. CallOf("M")' /\ MasterStores'
    BY <1>2, <1>4, <2>1, <2>2 DEF CallOf, Returned, MasterStores, InCall, Stored, Sent, Size, MyRound
  <2>5. QED
    BY <1>5, <2>1, <2>2, <2>3, <2>4 DEF Returned
<1>8. CASE i2c_wait_end("M")
  <2>1. /\ pc["M"] = "wait_end" /\ pc'["M"] = "returned" /\ status["M"] = "END"
        /\ ret'["M"] = error_code["M"] /\ UNCHANGED <<handle, round>>
    BY <1>8 DEF i2c_wait_end, SoundLine
  <2>2. ~InData' /\ ~InData /\ Ended("M")' = Ended("M") /\ FrameRound' = FrameRound
    BY <2>1 DEF InData, Ended, InCall, FrameRound
  <2>3. Moved' = Moved
    BY <1>2, <2>1, <2>2 DEF Moved
  <2>4. CallOf("M")' /\ MasterStores'
    BY <1>2, <1>4, <2>1, <2>2 DEF CallOf, Returned, MasterStores, InCall, Stored, Sent, Size, MyRound
  <2>5. QED
    BY <1>5, <2>1, <2>2, <2>3, <2>4 DEF Returned
<1>9. CASE NextRound("M")
  <2>1. /\ pc["M"] = "returned" /\ pc'["M"] \in {"done", "idle"} /\ round'["M"] = round["M"] + 1
        /\ status["M"] = "END" /\ UNCHANGED <<handle, ret>>
    BY <1>4, <1>9 DEF NextRound, CallOf, Returned
  <2>2. /\ Ended("M") = round["M"] - 0 /\ Ended("M")' = round'["M"] - 1
        /\ FrameRound = round["M"] /\ FrameRound' = round'["M"] - 1
    BY <2>1 DEF Ended, InCall, FrameRound
  <2>3. round["M"] \in Nat /\ Ended("M")' = Ended("M") /\ FrameRound' = FrameRound
    <3>1. round["M"] \in Nat
      OBVIOUS
    <3>2. QED
      BY <2>1, <2>2, <3>1
  <2>4. ~InData' /\ ~InData
    BY <2>1 DEF InData
  <2>5. Moved' = Moved
    BY <1>2, <2>3, <2>4 DEF Moved
  <2>6. CallOf("M")' /\ MasterStores'
    BY <1>4, <2>1, <2>4 DEF CallOf, Returned, MasterStores, InCall
  <2>7. QED
    BY <1>5, <2>1, <2>3, <2>4, <2>5, <2>6 DEF Returned
<1>10. CASE Retry("M") \/ GiveUp("M")
  <2>1. /\ pc["M"] = "returned" /\ pc'["M"] \in {"idle", "gave_up"} /\ ret["M"] = "STEP_2"
        /\ status["M"] = "START" /\ UNCHANGED <<handle, ret, round>>
    BY <1>4, <1>10 DEF Retry, GiveUp, CallOf, Returned
  <2>2. /\ phase # "data" /\ ~InData /\ ~InData' /\ Ended("M")' = Ended("M")
    BY <1>4, <2>1 DEF MasterWire, Returned, InData, Ended, InCall
  <2>3. Moved' = Moved
    BY <1>2, <2>2 DEF Moved
  <2>4. CallOf("M")' /\ MasterStores'
    BY <1>4, <2>1, <2>2 DEF CallOf, Returned, MasterStores, InCall
  <2>5. MasterWire' /\ MasterSends'
    BY <1>2, <1>4, <2>1, <2>2 DEF MasterWire, MasterSends, AtRest, Returned
  <2>6. QED
    BY <1>2, <2>3, <2>4, <2>5, MasterStep
<1>11. QED
  BY <1>6, <1>7, <1>8, <1>9, <1>10
(* The steps of a call, from START to the EV6 writes, and i2c_config.      *)
LEMMA MasterConnectStep ==
  ASSUME SoundLine, TypeOK, HandleInv, InterruptInv, MasterInv, LockstepInv,
         MasterFailStop => Prompt \/ ResetOnError,
         \/ MasterStart \/ MasterSendAddress \/ MasterClearAddr
         \/ MasterEv6Stop \/ MasterEv6Ack \/ MasterAddrFail \/ MasterFailStop
         \/ i2c_config("M")
  PROVE  LockstepInv'
<1>1. "S" \in Node /\ "M" \in Node /\ "M" # "S"
  BY DEF Node
<1>2. SameBoard("S") /\ UNCHANGED <<sel, plan>>
  <2>1. Main("M")
    BY DEF Main, MasterMain
  <2>2. ~i2c_config("S")
    BY DEF LockstepInv, SlaveLock, CallOf, Returned, i2c_config, At
  <2>3. QED
    BY <1>1, <2>1, <2>2, OtherBoard
<1>3. /\ mode \in [Node -> Modes] /\ status \in [Node -> {"START", "END"}]
      /\ pcount \in [Node -> UInt16] /\ pbuff \in [Node -> Nat]
      /\ error_code \in [Node -> Errors] /\ mem \in [Node -> Seq(Byte)]
      /\ pc \in [Node -> MainPc] /\ isr \in [Node -> {"none", "ackfail"}]
      /\ ret \in [Node -> Results] /\ round \in [Node -> Nat \ {0}]
      /\ ctrl \in [Node -> SUBSET CtrlBits] /\ flags \in [Node -> SUBSET Flags]
      /\ tx \in [Node -> Seq(Byte)] /\ rx \in [Node -> Seq(Byte)]
  BY DEF TypeOK, HwTypeOK, SwTypeOK
<1>4. CallOf("M") /\ MasterWire /\ MasterStores /\ MasterSends
  BY DEF LockstepInv, MasterLock
<1>5. /\ FlagInv /\ StartInv
      /\ pc["M"] \in {"busy", "startf", "addr", "ev6stop", "ev6ack", "addrfail", "enable"}
           => status["M"] = "START" /\ pbuff["M"] = 0
      /\ InCall("M") => mode["M"] = ModeOf("M")
      /\ pc["M"] # "done" => round["M"] \in 1 .. Len(plan)
  BY <1>1 DEF MasterInv, HandleInv, HandleOf
<1> USE <1>1, <1>3 DEF Goto, Return, Fail, SetCtrl, ClearFlags, hwVars, busVars, handle, app, At, MainRuns
<1>6. CASE MasterStart
  <2>1. /\ pc["M"] = "busy" /\ pc'["M"] = "startf" /\ "BUSYF" \notin flags["M"]
        /\ UNCHANGED <<flags, tx, rx, busVars, handle, ret, round>>
    BY <1>6 DEF MasterStart
  <2>2. phase = "free" /\ status["M"] = "START"
    BY <1>5, <2>1 DEF FlagInv
  <2>3. ~InData /\ ~InData' /\ Ended("M")' = Ended("M")
    BY <2>1 DEF InData, Ended, InCall
  <2>4. Moved' = Moved
    BY <2>1, <2>2, <2>3 DEF Moved
  <2>5. CallOf("M")' /\ MasterWire'
    BY <1>4, <2>1, <2>2 DEF CallOf, MasterWire, Returned
  <2>6. MasterStores' /\ MasterSends'
    BY <1>4, <2>1, <2>2, <2>3 DEF MasterStores, MasterSends
  <2>7. QED
    BY <1>2, <2>1, <2>4, <2>5, <2>6, MasterStep
<1>7. CASE MasterSendAddress
  <2>1. /\ pc["M"] = "startf" /\ pc'["M"] = "addr" /\ "STARTF" \in flags["M"] /\ phase' = "addr"
        /\ flags'["M"] = flags["M"] \ {"STARTF"}
        /\ UNCHANGED <<ctrl, tx, rx, clocked, acked, handle, ret, round>>
    BY <1>7 DEF MasterSendAddress, i2c_7bit_address_send
  <2>2. phase = "start" /\ status["M"] = "START"
    BY <1>5, <2>1 DEF FlagInv
  <2>3. ~InData /\ ~InData' /\ Ended("M")' = Ended("M")
    BY <2>1 DEF InData, Ended, InCall
  <2>4. Moved' = Moved
    BY <2>1, <2>2, <2>3 DEF Moved
  <2>5. CallOf("M")' /\ MasterWire'
    BY <1>4, <2>1, <2>2 DEF CallOf, MasterWire, Returned
  <2>6. MasterStores' /\ MasterSends'
    BY <1>4, <2>1, <2>2, <2>3 DEF MasterStores, MasterSends
  <2>7. QED
    BY <1>2, <2>1, <2>2, <2>4, <2>5, <2>6, MasterStep
<1>8. CASE MasterClearAddr
  <2>1. /\ pc["M"] = "addr" /\ pc'["M"] \in {"ev6stop", "ev6ack", "enable"}
        /\ "ADDR7F" \in flags["M"] /\ flags'["M"] = flags["M"] \ {"ADDR7F"}
        /\ UNCHANGED <<tx, rx, busVars, handle, ret, round>>
    BY <1>8 DEF MasterClearAddr
  <2>2. /\ phase = "data" /\ status["M"] = "START" /\ pbuff["M"] = 0 /\ clocked = 0
        /\ rx["M"] = <<>> /\ mem["M"] = <<>>
    BY <1>4, <1>5, <2>1 DEF FlagInv, StartInv, MasterStores
  <2>3. ~InData /\ InData' /\ Ended("M")' = Ended("M") /\ FrameRound' = FrameRound
    BY <2>1, <2>2 DEF InData, Ended, InCall, FrameRound
  <2>4. Moved' = Moved
    BY <2>1, <2>2, <2>3 DEF Moved
  <2>5. CallOf("M")' /\ MasterWire'
    BY <1>2, <1>4, <2>1, <2>2, <2>3 DEF CallOf, MasterWire, Returned
  <2>6. Stored("M")' = Sent(round["M"], clocked)'
    <3>1. Stored("M")' = <<>> \o <<>> /\ <<>> \o <<>> = <<>>
      BY <2>1, <2>2 DEF Stored
    <3>2. Sent(round["M"], 0) = <<>>
      BY SentEmpty
    <3>3. Sent(round["M"], clocked)' = Sent(round["M"], 0)
      BY <2>1, <2>2 DEF Sent
    <3>4. QED
      BY <3>1, <3>2, <3>3
  <2>7. MasterStores'
    BY <2>1, <2>2, <2>6 DEF MasterStores
  <2>8. MasterSends'
    <3>1. Posted' = Posted
      BY <2>1, <2>2 DEF Posted
    <3>2. QED
      BY <1>4, <2>1, <2>2, <2>3, <3>1 DEF MasterSends, Pieces
  <2>9. QED
    BY <1>2, <2>1, <2>4, <2>5, <2>7, <2>8, MasterStep
<1>9. CASE MasterEv6Stop \/ MasterEv6Ack
  <2>1. /\ pc["M"] \in {"ev6stop", "ev6ack"} /\ pc'["M"] = "enable"
        /\ UNCHANGED <<flags, tx, rx, busVars, handle, ret, round>>
    BY <1>9 DEF MasterEv6Stop, MasterEv6Ack
  <2>2. InData /\ InData' /\ Ended("M")' = Ended("M") /\ FrameRound' = FrameRound
    BY <1>5, <2>1 DEF InData, Ended, InCall, FrameRound
  <2>3. Moved' = Moved /\ Posted' = Posted
    BY <1>2, <2>1, <2>2 DEF Moved, Posted
  <2>4. CallOf("M")' /\ MasterWire'
    BY <1>2, <1>4, <2>1, <2>2 DEF CallOf, MasterWire, Returned
  <2>5. MasterStores' /\ MasterSends'
    BY <1>2, <1>4, <2>1, <2>2, <2>3 DEF MasterStores, MasterSends, InData, Stored, Sent, Pieces
  <2>6. QED
    BY <1>2, <2>1, <2>3, <2>4, <2>5, MasterStep
<1>10. CASE MasterAddrFail
  <2>1. /\ pc["M"] = "addr" /\ pc'["M"] = "addrfail"
        /\ "ADDR7F" \notin flags["M"] /\ "ACKFAIL" \in flags["M"]
        /\ ctrl'["M"] = ctrl["M"] \cup {"GENSTOP"} /\ flags'["M"] = flags["M"] \ {"ACKFAIL"}
        /\ UNCHANGED <<tx, rx, busVars, mode, status, pbuff, mem, round>>
    BY <1>10 DEF MasterAddrFail
  <2>2. /\ phase = "closing" /\ rx["M"] = <<>> /\ "GENSTART" \notin ctrl["M"] /\ status["M"] = "START"
    BY <1>4, <1>5, <2>1 DEF MasterWire, StartInv
  <2>3. AtRest'
    BY <2>1, <2>2 DEF AtRest
  <2>4. ~InData /\ ~InData' /\ Ended("M")' = Ended("M")
    BY <2>1 DEF InData, Ended, InCall
  <2>5. Moved' = Moved
    BY <2>1, <2>2, <2>4 DEF Moved
  <2>6. CallOf("M")' /\ MasterWire'
    BY <1>4, <2>1, <2>2, <2>3 DEF CallOf, MasterWire, Returned
  <2>7. MasterStores' /\ MasterSends'
    BY <2>1, <2>2, <2>4 DEF MasterStores, MasterSends
  <2>8. QED
    BY <1>2, <2>1, <2>5, <2>6, <2>7, MasterStep
<1>11. CASE MasterFailStop
  <2>1. /\ pc["M"] = "addrfail" /\ pc'["M"] = "returned" /\ ret'["M"] = "STEP_2"
        /\ ctrl'["M"] = ctrl["M"] \cup {"GENSTOP"}
        /\ UNCHANGED <<flags, tx, rx, busVars, handle, round>>
    BY <1>11 DEF MasterFailStop
  <2>2. /\ phase \in {"free", "closing"} /\ rx["M"] = <<>> /\ "GENSTART" \notin ctrl["M"]
        /\ status["M"] = "START"
        /\ Prompt => phase = "closing"
    BY <1>4, <1>5, <2>1 DEF MasterWire, AtRest
  <2>3. ResetOnError \/ AtRest'
    <3>1. Prompt \/ ResetOnError
      BY <1>11
    <3>2. QED
      BY <2>1, <2>2, <3>1 DEF AtRest
  <2>4. ~InData /\ ~InData' /\ Ended("M")' = Ended("M")
    BY <2>1 DEF InData, Ended, InCall
  <2>5. Moved' = Moved
    BY <2>1, <2>2, <2>4 DEF Moved
  <2>6. CallOf("M")' /\ MasterWire'
    BY <1>4, <2>1, <2>2, <2>3 DEF CallOf, MasterWire, Returned
  <2>7. MasterStores' /\ MasterSends'
    BY <2>1, <2>2, <2>4 DEF MasterStores, MasterSends
  <2>8. QED
    BY <1>2, <2>1, <2>5, <2>6, <2>7, MasterStep
<1>12. CASE i2c_config("M")
  <2>1. /\ pc["M"] = "returned" /\ ret["M"] = "STEP_2" /\ status["M"] = "START"
        /\ pc'["M"] = "idle" /\ phase' = "free"
        /\ UNCHANGED <<clocked, handle, round>>
    BY <1>4, <1>12 DEF i2c_config, i2c_reset, CallOf, Returned
  <2>2. phase # "data"
    BY <1>4, <2>1 DEF MasterWire, Returned
  <2>3. flags'["M"] \subseteq {"BUSYF"}
    BY <1>12, ZenonT(40) DEF i2c_config, i2c_reset
  <2>4. ~InData /\ ~InData' /\ Ended("M")' = Ended("M")
    BY <2>1 DEF InData, Ended, InCall
  <2>5. Moved' = Moved
    BY <2>1, <2>2, <2>4 DEF Moved
  <2>6. CallOf("M")' /\ MasterWire'
    BY <1>4, <2>1, <2>2, <2>3 DEF CallOf, MasterWire, Returned
  <2>7. MasterStores' /\ MasterSends'
    BY <2>1, <2>2, <2>4 DEF MasterStores, MasterSends, InCall
  <2>8. QED
    BY <1>2, <2>1, <2>2, <2>5, <2>6, <2>7, MasterStep
<1>13. QED
  BY <1>6, <1>7, <1>8, <1>9, <1>10, <1>11, <1>12
(* A handler of a master that reads moves bytes from the register to the   *)
(* buffer, or none.                                                        *)
LEMMA ReadMovesBytes ==
  ASSUME TypeOK, HandleInv, InterruptInv, ReadInv,
         isr["M"] = "none", EvtRequest("M"), mode["M"] = "I2C_INT_MA_RX",
         i2c_master_rx_isr_int("M")
  PROVE  Stored("M")' = Stored("M") /\ UNCHANGED <<flags, tx, isr>>
<1>1. /\ Len(rx["M"]) \in Nat /\ (TDC("M") => Len(rx["M"]) = 2)
      /\ (~TDC("M") /\ RDBF("M") => Len(rx["M"]) >= 1)
  BY ReadCounts
<1>2. /\ "M" \in Node /\ mem \in [Node -> Seq(Byte)] /\ rx \in [Node -> Seq(Byte)]
  BY DEF TypeOK, HwTypeOK, SwTypeOK, Node
<1>3. ASSUME NEW k \in {1, 2}, ReadData("M", k), k <= Len(rx["M"])
      PROVE  Stored("M")' = Stored("M")
  <2>1. mem["M"] \in Seq(Byte) /\ rx["M"] \in Seq(Byte) /\ k \in 0 .. Len(rx["M"])
    BY <1>1, <1>2, <1>3
  <2>2. /\ mem'["M"] = mem["M"] \o Received("M", k)
        /\ rx'["M"] = SubSeq(rx["M"], k + 1, Len(rx["M"]))
    BY <1>2, <1>3 DEF ReadData, i2c_data_receive
  <2>3. (mem["M"] \o Received("M", k)) \o SubSeq(rx["M"], k + 1, Len(rx["M"])) = mem["M"] \o rx["M"]
    <3>1. CASE k = 1
      BY <2>1, <3>1, ReadKeepsStored, ZenonT(40) DEF Received
    <3>2. CASE k = 2
      BY <2>1, <3>2, ReadKeepsStored, ZenonT(40) DEF Received
    <3>3. QED
      BY <3>1, <3>2
  <2>4. QED
    BY <2>2, <2>3 DEF Stored
<1>4. CASE MasterRxTdc("M")
  <2>1. ReadData("M", 1) \/ ReadData("M", 2)
    BY <1>4 DEF MasterRxTdc
  <2>2. 1 <= Len(rx["M"]) /\ 2 <= Len(rx["M"])
    BY <1>1, <1>4, SMTT(30) DEF MasterRxTdc
  <2>3. QED
    BY <1>3, <1>4, <2>1, <2>2 DEF MasterRxTdc
<1>5. CASE MasterRxRdbf("M")
  <2>1. ReadData("M", 1) \/ UNCHANGED <<mem, rx>>
    BY <1>5 DEF MasterRxRdbf
  <2>2. 1 <= Len(rx["M"])
    BY <1>1, <1>5 DEF MasterRxRdbf
  <2>3. QED
    BY <1>3, <1>5, <2>1, <2>2 DEF MasterRxRdbf, Stored
<1>6. QED
  BY <1>4, <1>5 DEF i2c_master_rx_isr_int

(* The master's handlers.                                                  *)
LEMMA MasterHandlerStep ==
  ASSUME TypeOK, HandleInv, InterruptInv, MasterInv, MasterInv', LockstepInv, Handler("M")
  PROVE  LockstepInv'
<1>1. "S" \in Node /\ "M" \in Node /\ "M" # "S"
  BY DEF Node
<1>2. SameBoard("S") /\ UNCHANGED <<phase, dir, sel, clocked, acked, plan>>
  <2>1. ~i2c_config("S")
    BY DEF LockstepInv, SlaveLock, CallOf, Returned, i2c_config, At
  <2>2. QED
    BY <1>1, <2>1, OtherBoard
<1>3. /\ status \in [Node -> {"START", "END"}]
      /\ pcount \in [Node -> UInt16] /\ pbuff \in [Node -> Nat] /\ UInt16 \subseteq Nat
      /\ pc \in [Node -> MainPc] /\ isr \in [Node -> {"none", "ackfail"}]
      /\ round \in [Node -> Nat \ {0}] /\ clocked \in Nat
      /\ tx \in [Node -> Seq(Byte)] /\ mem \in [Node -> Seq(Byte)] /\ rx \in [Node -> Seq(Byte)]
  BY DEF TypeOK, HwTypeOK, SwTypeOK, UInt16
<1>4. CallOf("M") /\ MasterWire /\ MasterStores /\ MasterSends
  BY DEF LockstepInv, MasterLock
<1>5. /\ pc["M"] = "wait_end" /\ status["M"] = "START" /\ mode["M"] = ModeOf("M")
      /\ pbuff["M"] + pcount["M"] = Size("M") /\ isr["M"] = "none"
  <2>1. ints["M"] # {} \/ isr["M"] # "none"
    BY DEF Handler, i2c_evt_irq_handler, i2c_err_irq_handler, SlaveTxEnd, EvtRequest, ErrRequest
  <2>2. HandlersTurn("M") /\ mode["M"] = ModeOf("M") /\ BoundsOf("M")
    BY <1>1, <2>1, HandlerContext
  <2>3. pc["M"] = "wait_end" /\ status["M"] = "START"
    BY <1>4, <2>2 DEF HandlersTurn, CallOf, Returned
  <2>4. isr["M"] = "none"
    BY <1>1, <1>3 DEF InterruptInv, InterruptOf
  <2>5. QED
    BY <2>2, <2>3, <2>4 DEF BoundsOf
<1>6. InData /\ FrameRound = round["M"] /\ Posted = pbuff["M"]
  BY <1>5 DEF InData, FrameRound, Posted
<1>7. /\ pbuff["M"] \in Nat /\ pcount["M"] \in Nat /\ round["M"] \in Nat
  BY <1>1, <1>3
<1>8. CASE i2c_evt_irq_handler("M")
  <2>1. /\ EvtRequest("M") /\ UNCHANGED <<mode, error_code, pc, ret, round>>
        /\ \/ mode["M"] = "I2C_INT_MA_TX" /\ i2c_master_tx_isr_int("M")
           \/ mode["M"] = "I2C_INT_MA_RX" /\ i2c_master_rx_isr_int("M")
    BY <1>5, <1>8 DEF i2c_evt_irq_handler, app, ModeOf
  <2>2. FrameRound' = FrameRound
    BY <2>1 DEF FrameRound
  <2>3. ASSUME UNCHANGED flags
        PROVE  CallOf("M")' /\ MasterWire'
    BY <1>2, <1>4, <1>5, <2>1, <2>2, <2>3 DEF CallOf, MasterWire, Returned
  <2>4. CASE mode["M"] = "I2C_INT_MA_TX" /\ i2c_master_tx_isr_int("M")
    <3>1. TDBE("M") /\ UNCHANGED <<flags, rx, mem, isr>>
      BY <2>4 DEF i2c_master_tx_isr_int
    <3>2. phase = "data" /\ dir = "write"
      BY <3>1 DEF TDBE, Transmitting
    <3>3. Moved' = Moved
      BY <1>2, <2>2, <3>2 DEF Moved
    <3>4. MasterStores'
      BY <2>1, <2>4, <1>5 DEF MasterStores
    <3>5. clocked <= pbuff["M"] /\ tx["M"] = Pieces(round["M"], clocked, pbuff["M"])
      BY <1>4, <1>6, <3>2 DEF MasterSends
    <3>6. CASE pcount["M"] = 0
      <4>1. status'["M"] = "END" /\ UNCHANGED <<tx, pbuff, pcount>>
        BY <1>1, <1>3, <2>4, <3>6 DEF i2c_master_tx_isr_int, TransferComplete
      <4>2. Posted' = plan[round["M"]].M
        BY <1>2, <1>6, <2>2, <4>1 DEF Posted
      <4>3. Posted' = pbuff["M"]
        BY <1>5, <1>7, <3>6, <4>2 DEF Size, MyRound
      <4>4. MasterSends'
        BY <1>2, <1>6, <2>2, <3>2, <3>5, <4>1, <4>3 DEF MasterSends, Pieces
      <4>5. QED
        BY <1>2, <2>3, <3>1, <3>3, <3>4, <4>4, MasterStep
    <3>7. CASE pcount["M"] # 0
      <4>1. SendData("M") /\ UNCHANGED status
        BY <2>4, <3>7 DEF i2c_master_tx_isr_int
      <4>2. pbuff'["M"] = pbuff["M"] + 1
        BY <1>1, <1>3, <4>1 DEF SendData
      <4>3. tx'["M"] = Append(tx["M"], <<round["M"], pbuff["M"] + 1>>)
        BY <1>1, <1>3, <4>1, Zenon DEF SendData, i2c_data_send
      <4>4. tx'["M"] = Pieces(round["M"], clocked, pbuff["M"] + 1) /\ clocked <= pbuff["M"] + 1
        <5>1. Append(Pieces(round["M"], clocked, pbuff["M"]), <<round["M"], pbuff["M"] + 1>>)
                = Pieces(round["M"], clocked, pbuff["M"] + 1)
          BY <1>3, <1>7, <3>5, PiecesNext
        <5>2. clocked <= pbuff["M"] + 1
          BY <1>3, <1>7, <3>5
        <5>3. QED
          BY <3>5, <4>3, <5>1, <5>2
      <4>5. Posted' = pbuff["M"] + 1
        BY <1>5, <2>1, <4>1, <4>2 DEF Posted
      <4>6. MasterSends'
        BY <1>2, <1>6, <2>2, <3>2, <4>4, <4>5 DEF MasterSends, Pieces
      <4>7. QED
        BY <1>2, <2>3, <3>1, <3>3, <3>4, <4>6, MasterStep
    <3>8. QED
      BY <3>6, <3>7
  <2>5. CASE mode["M"] = "I2C_INT_MA_RX" /\ i2c_master_rx_isr_int("M")
    <3>1. Stored("M")' = Stored("M") /\ UNCHANGED <<flags, tx>>
      BY <1>5, <2>1, <2>5, ReadMovesBytes DEF MasterInv
    <3>2. dir = "read" /\ (phase = "data" => clocked < Size("M"))
      BY <1>6, <2>5 DEF MasterInv, ReadInv
    <3>3. MasterSends'
      BY <1>2, <2>1, <2>5, <3>2 DEF MasterSends
    <3>4. Stored("M") = Sent(round["M"], clocked)
      BY <1>4, <1>6, <2>5 DEF MasterStores
    <3>5. CASE status'["M"] = "START"
      <4>1. InData' /\ Ended("M")' = Ended("M")
        BY <1>5, <2>1, <3>5 DEF InData, Ended, InCall
      <4>2. Moved' = Moved
        BY <1>2, <1>6, <2>1, <2>2, <4>1 DEF Moved
      <4>3. MasterStores'
        BY <1>2, <1>5, <2>1, <3>1, <3>4, <3>5 DEF MasterStores, Sent
      <4>4. QED
        BY <1>2, <2>3, <3>1, <3>3, <4>2, <4>3, MasterStep
    <3>6. CASE status'["M"] = "END"
      <4>1. InCall("M")' /\ mode'["M"] = "I2C_INT_MA_RX" /\ ~InData'
        BY <1>5, <2>1, <2>5, <3>6 DEF InCall, InData
      <4>2. rx'["M"] = <<>>
        BY <3>6, <4>1 DEF MasterInv, RestInv, Resting, AtRest
      <4>3. clocked' = Size("M")'
        BY <3>6, <4>1 DEF MasterInv, EndInv, ReadExact
      <4>4. Size("M")' = Size("M") /\ clocked = Size("M")
        BY <1>2, <2>1, <4>3 DEF Size, MyRound
      <4>5. mem'["M"] = Stored("M")'
        <5>1. mem'["M"] \in Seq(Byte)
          <6>1. TypeOK'
            BY <1>1, HandlerTypes DEF MasterInv
          <6>2. QED
            BY <1>1, <6>1 DEF TypeOK, SwTypeOK
        <5>2. QED
          BY <4>2, <5>1, ConcatEmptySeq DEF Stored
      <4>6. MasterStores'
        BY <1>2, <1>5, <2>1, <3>1, <3>4, <3>6, <4>1, <4>4, <4>5 DEF MasterStores, Sent
      <4>7. Moved' = Moved
        <5>1. phase # "data"
          BY <1>3, <3>2, <4>4
        <5>2. Ended("M")' = round["M"] - 0
          BY <2>1, <3>6, <4>1 DEF Ended
        <5>3. QED
          BY <1>2, <1>6, <1>7, <2>5, <4>1, <5>1, <5>2 DEF Moved
      <4>8. QED
        BY <1>2, <2>3, <3>1, <3>3, <4>6, <4>7, MasterStep
    <3>7. status'["M"] \in {"START", "END"}
      <4>1. TypeOK'
        BY <1>1, HandlerTypes DEF MasterInv
      <4>2. QED
        BY <1>1, <4>1 DEF TypeOK, SwTypeOK
    <3>8. QED
      BY <3>5, <3>6, <3>7
  <2>6. QED
    BY <2>1, <2>4, <2>5
<1>9. ~SlaveTxEnd("M")
  BY <1>5 DEF SlaveTxEnd
<1>10. ~i2c_err_irq_handler("M")
  BY <1>4, <1>5 DEF i2c_err_irq_handler, ErrRequest, CallOf, MasterWire
<1>11. QED
  BY <1>8, <1>9, <1>10 DEF Handler

(***************************************************************************)
(* The bus.                                                                *)
(***************************************************************************)

(* What the software has of its own does not change while the bus moves.   *)
LEMMA QuietFacts ==
  ASSUME Quiet
  PROVE  /\ UNCHANGED <<mode, status, pcount, error_code, pbuff, mem, pc, isr, ret, plan, round>>
         /\ FrameRound' = FrameRound /\ Posted' = Posted /\ InData' = InData
         /\ SlaveOpen' = SlaveOpen /\ Resting' = Resting
         /\ \A n \in Node : /\ Ended(n)' = Ended(n) /\ Size(n)' = Size(n)
                            /\ InCall(n)' = InCall(n) /\ Returned(n)' = Returned(n)
<1>1. UNCHANGED <<mode, status, pcount, error_code, pbuff, mem, pc, isr, ret, plan, round>>
  BY DEF Quiet, handle, app
<1>2. FrameRound' = FrameRound
  BY <1>1 DEF FrameRound
<1>3. Posted' = Posted /\ InData' = InData /\ SlaveOpen' = SlaveOpen /\ Resting' = Resting
  BY <1>1, <1>2 DEF Posted, InData, SlaveOpen, Resting, InCall
<1>4. \A n \in Node : /\ Ended(n)' = Ended(n) /\ Size(n)' = Size(n)
                      /\ InCall(n)' = InCall(n) /\ Returned(n)' = Returned(n)
  BY <1>1 DEF Ended, Size, MyRound, InCall, Returned
<1>5. QED
  BY <1>1, <1>2, <1>3, <1>4

(* A slave that is served is in the round of the frame, in the mode of its *)
(* direction, with a buffer of the size that the master passed.            *)
LEMMA ServedRound ==
  ASSUME SizesMatch, TypeOK, HandleInv, LockstepInv, Served
  PROVE  /\ SlaveOpen /\ phase = "data" /\ InCall("S") /\ BoundsOf("S")
         /\ round["S"] = FrameRound /\ FrameRound \in 1 .. Len(plan)
         /\ mode["S"] = IF dir = "write" THEN "I2C_INT_SLA_RX" ELSE "I2C_INT_SLA_TX"
         /\ Size("S") = plan[FrameRound].M /\ Size("S") \in Nat
<1>1. "S" \in Node /\ round \in [Node -> Nat \ {0}] /\ plan \in Plans
  BY DEF Node, TypeOK, SwTypeOK
<1>2. SlaveOpen /\ phase = "data" /\ InCall("S")
  BY DEF LockstepInv, RoundInv, SlaveLock, SlaveWire, Served, SlaveOpen, InCall
<1>3. FrameRound \in 1 .. Len(plan) /\ dir = plan[FrameRound].op
  BY <1>2 DEF LockstepInv, MasterLock, MasterWire
<1>4. round["S"] = FrameRound
  <2>1. Ended("S") = FrameRound - 1
    BY <1>2 DEF LockstepInv, RoundInv, Moved
  <2>2. Ended("S") = round["S"] - 1
    BY <1>2 DEF Ended, SlaveOpen
  <2>3. round["S"] \in Nat /\ FrameRound \in Nat
    BY <1>1, <1>3
  <2>4. QED
    BY <2>1, <2>2, <2>3
<1>5. mode["S"] = ModeOf("S") /\ BoundsOf("S")
  BY <1>1, <1>2 DEF HandleInv, HandleOf
<1>6. mode["S"] = IF dir = "write" THEN "I2C_INT_SLA_RX" ELSE "I2C_INT_SLA_TX"
  BY <1>3, <1>4, <1>5 DEF ModeOf, MyRound
<1>7. Size("S") = plan[FrameRound].M
  BY <1>1, <1>3, <1>4 DEF SizesMatch, Size, MyRound
<1>8. Size("S") \in Nat
  BY <1>1, <1>3, <1>4, PlanFacts DEF UInt16
<1>9. QED
  BY <1>2, <1>3, <1>4, <1>5, <1>6, <1>7, <1>8

(* The bytes of a read move while the master is in the data part of the    *)
(* call that asked for them.                                               *)
LEMMA ReadFrame ==
  ASSUME TypeOK, HandleInv, MasterInv, LockstepInv,
         phase = "data", dir = "read", "ADDR7F" \notin flags["M"]
  PROVE  /\ InData /\ mode["M"] = "I2C_INT_MA_RX" /\ InCall("M")
         /\ FrameRound = round["M"] /\ clocked < Size("M") /\ acked = clocked
<1>1. ~Resting /\ pc["M"] \notin {"startf", "addr"}
  BY DEF MasterInv, RestInv, AtRest, StartInv
<1>2. ~(Returned("M") /\ status["M"] = "START") /\ pc["M"] # "addrfail"
  BY DEF LockstepInv, MasterLock, MasterWire
<1>3. status["M"] \in {"START", "END"} /\ pc["M"] \in MainPc
  BY DEF TypeOK, SwTypeOK, Node
<1>4. InData
  BY <1>1, <1>2, <1>3 DEF Resting, InCall, Returned, InData, MainPc
<1>5. mode["M"] = "I2C_INT_MA_RX"
  BY <1>4, CallSize DEF MasterInv, WriteInv
<1>6. QED
  BY <1>1, <1>4, <1>5 DEF MasterInv, ReadInv, FrameRound, Resting, InCall

(* A slave that is not served does not notice the bus.                     *)
LEMMA UnservedSlave ==
  ASSUME SlaveLock, Quiet, ~Served, ~Served', rx'["S"] = rx["S"],
         flags'["S"] \cap {"STOPF", "ACKFAIL", "BUSERR"} = flags["S"] \cap {"STOPF", "ACKFAIL", "BUSERR"}
  PROVE  CallOf("S")' /\ LatchInv' /\ SlaveStores' /\ SlaveSends'
<1>1. /\ UNCHANGED <<mode, status, pcount, error_code, pbuff, mem, pc, isr, ret, plan, round>>
      /\ SlaveOpen' = SlaveOpen /\ Size("S")' = Size("S") /\ InCall("S")' = InCall("S")
      /\ Returned("S")' = Returned("S")
  BY QuietFacts DEF Node
<1>2. CallOf("S")' /\ LatchInv'
  BY <1>1 DEF SlaveLock, CallOf, LatchInv
<1>3. SlaveStores' /\ SlaveSends'
  BY <1>1 DEF SlaveLock, SlaveStores, SlaveSends, Stored, Sent
<1>4. QED
  BY <1>2, <1>3

(* START and address.                                                      *)
LEMMA AddressStep ==
  ASSUME TypeOK, HandleInv, MasterInv, LockstepInv, Quiet, HwStart \/ HwAddrAck \/ HwAddrNack
  PROVE  LockstepInv'
<1>1. /\ CallOf("M") /\ MasterWire /\ MasterStores /\ MasterSends
      /\ SlaveLock /\ SlaveWire
      /\ Served => SlaveOpen
      /\ Ended("S") = IF SlaveOpen /\ ~Served THEN Moved - 1 ELSE Moved
  BY DEF LockstepInv, MasterLock, SlaveLock, RoundInv
<1>2. /\ UNCHANGED <<mode, status, error_code, pbuff, mem, pc, ret, plan, round>>
      /\ FrameRound' = FrameRound /\ Posted' = Posted /\ InData' = InData
      /\ SlaveOpen' = SlaveOpen
      /\ \A n \in {"M", "S"} : /\ Ended(n)' = Ended(n) /\ Size(n)' = Size(n)
                               /\ InCall(n)' = InCall(n) /\ Returned(n)' = Returned(n)
  BY QuietFacts DEF Node
<1>3. /\ ctrl \in [Node -> SUBSET CtrlBits] /\ flags \in [Node -> SUBSET Flags]
      /\ rx \in [Node -> Seq(Byte)] /\ tx \in [Node -> Seq(Byte)]
      /\ pc["M"] \in MainPc /\ status["M"] \in {"START", "END"} /\ Node = {"M", "S"}
      /\ round["M"] \in Nat /\ pbuff["M"] \in Nat
  BY DEF TypeOK, HwTypeOK, SwTypeOK, Node
<1>4. CASE HwStart
  <2>1. /\ "GENSTART" \in ctrl["M"] /\ phase = "free" /\ phase' = "start" /\ sel' = FALSE
        /\ flags'["M"] = flags["M"] \cup {"BUSYF", "STARTF"}
        /\ flags'["S"] = flags["S"] \cup {"BUSYF"}
        /\ ctrl'["S"] = ctrl["S"]
        /\ UNCHANGED <<rx, tx, dir, clocked, acked>>
    BY <1>3, <1>4 DEF HwStart, MasterInv, FlagInv
  <2>2. ~Resting /\ ~InData
    BY <2>1, CallSize DEF MasterInv, RestInv, AtRest, WriteInv, ReadInv
  <2>3. pc["M"] = "startf" /\ ~Returned("M")
    <3>1. pc["M"] # "addr"
      BY <2>1 DEF MasterInv, StartInv
    <3>2. ~(Returned("M") /\ status["M"] = "START") /\ pc["M"] # "addrfail"
      BY <1>1, <2>1 DEF MasterWire, AtRest
    <3>3. QED
      BY <1>3, <2>2, <3>1, <3>2 DEF Resting, InCall, Returned, InData, MainPc
  <2>4. ~Served /\ ~Served'
    BY <1>1, <2>1 DEF SlaveWire, Served
  <2>5. Moved' = Moved
    BY <1>2, <2>1, <2>2 DEF Moved
  <2>6. CallOf("M")' /\ MasterWire'
    BY <1>1, <1>2, <2>1, <2>3 DEF CallOf, MasterWire, Returned
  <2>7. MasterStores' /\ MasterSends'
    BY <1>1, <1>2, <2>1, <2>2 DEF MasterStores, MasterSends, Sent
  <2>8. SlaveWire'
    BY <1>1, <1>2, <2>1 DEF SlaveWire
  <2>9. CallOf("S")' /\ LatchInv' /\ SlaveStores' /\ SlaveSends'
    BY <1>1, <2>1, <2>4, UnservedSlave
  <2>10. QED
    BY <1>1, <1>2, <2>4, <2>5, <2>6, <2>7, <2>8, <2>9 DEF LockstepInv, MasterLock, SlaveLock, RoundInv
<1>5. ASSUME phase = "addr"
      PROVE  /\ pc["M"] = "addr" /\ ~InData /\ ~Returned("M") /\ FrameRound = round["M"]
             /\ Ended("M") = round["M"] - 1 /\ Moved = round["M"] - 1
             /\ mode["M"] = ModeOf("M") /\ round["M"] \in 1 .. Len(plan) /\ Posted = 0
             /\ dir = plan[round["M"]].op
             /\ flags["M"] \cap {"ADDR7F", "ACKFAIL"} = {}
             /\ sel = FALSE /\ "ADDR7F" \notin flags["S"] /\ "BUSYF" \in flags["S"]
  <2>1. pc["M"] = "addr"
    BY <1>1, <1>5 DEF MasterWire, MasterInv, StartInv
  <2>2. status["M"] = "START" /\ pbuff["M"] = 0 /\ mode["M"] = ModeOf("M") /\ round["M"] \in 1 .. Len(plan)
    BY <1>3, <2>1 DEF HandleInv, HandleOf, InCall
  <2>3. ~InData /\ ~Returned("M") /\ FrameRound = round["M"] /\ Ended("M") = round["M"] - 1 /\ Posted = 0
    BY <2>1, <2>2 DEF InData, Returned, FrameRound, Ended, Posted
  <2>4. Moved = round["M"] - 1
    BY <1>5, <2>3 DEF Moved
  <2>5. dir = plan[round["M"]].op
    <3>1. dir = IF mode["M"] = "I2C_INT_MA_RX" THEN "read" ELSE "write"
      BY <2>1 DEF MasterInv, StartInv
    <3>2. plan[round["M"]].op \in {"write", "read"}
      BY <1>3, <2>2, PlanFacts DEF TypeOK, SwTypeOK, MyRound
    <3>3. QED
      BY <2>2, <3>1, <3>2 DEF ModeOf, MyRound
  <2>6. flags["M"] \cap {"ADDR7F", "ACKFAIL"} = {}
    BY <1>1, <1>5 DEF MasterWire, MasterInv, FlagInv
  <2>7. sel = FALSE /\ "ADDR7F" \notin flags["S"] /\ "BUSYF" \in flags["S"]
    BY <1>1, <1>5 DEF SlaveWire, TypeOK, HwTypeOK
  <2>8. QED
    BY <2>1, <2>2, <2>3, <2>4, <2>5, <2>6, <2>7
<1>6. CASE HwAddrAck
  <2>1. /\ phase = "addr" /\ "ACKEN" \in ctrl["S"] /\ phase' = "data" /\ sel' = TRUE
        /\ \A n \in Node : flags'[n] = flags[n] \cup {"ADDR7F"} /\ tx'[n] = <<>>
        /\ clocked' = 0 /\ acked' = 0
        /\ UNCHANGED <<ctrl, rx, dir>>
    BY <1>6 DEF HwAddrAck
  <2>2. ~Served /\ ~Served'
    BY <1>3, <1>5, <2>1 DEF Served
  <2>3. Moved' = Moved
    BY <1>2, <1>5, <2>1 DEF Moved
  <2>4. CallOf("M")' /\ MasterWire'
    BY <1>1, <1>2, <1>3, <1>5, <2>1 DEF CallOf, MasterWire
  <2>5. MasterStores' /\ MasterSends'
    <3>1. Pieces(round["M"], 0, 0) = <<>>
      BY <1>3, PiecesEmpty
    <3>2. Pieces(FrameRound, clocked, Posted)' = Pieces(round["M"], 0, 0)
      BY <1>2, <1>5, <2>1 DEF Pieces
    <3>3. QED
      BY <1>1, <1>2, <1>3, <1>5, <2>1, <3>1, <3>2 DEF MasterStores, MasterSends, Sent
  <2>6. SlaveWire'
    BY <1>3, <1>5, <2>1 DEF SlaveWire
  <2>7. CallOf("S")' /\ LatchInv' /\ SlaveStores' /\ SlaveSends'
    BY <1>1, <1>3, <2>1, <2>2, UnservedSlave
  <2>8. QED
    BY <1>1, <1>2, <2>2, <2>3, <2>4, <2>5, <2>6, <2>7 DEF LockstepInv, MasterLock, SlaveLock, RoundInv
<1>7. CASE HwAddrNack
  <2>1. /\ phase = "addr" /\ phase' = "closing"
        /\ flags'["M"] = flags["M"] \cup {"ACKFAIL"} /\ flags'["S"] = flags["S"]
        /\ UNCHANGED <<ctrl, rx, tx, dir, sel>>
    BY <1>3, <1>7 DEF HwAddrNack
  <2>2. ~Served /\ ~Served'
    BY <1>3, <1>5, <2>1 DEF Served
  <2>3. Moved' = Moved
    BY <1>2, <1>5, <2>1 DEF Moved
  <2>4. CallOf("M")' /\ MasterWire'
    BY <1>1, <1>2, <1>3, <1>5, <2>1 DEF CallOf, MasterWire
  <2>5. MasterStores' /\ MasterSends'
    BY <1>1, <1>2, <1>3, <1>5, <2>1 DEF MasterStores, MasterSends, Sent
  <2>6. SlaveWire'
    BY <1>1, <1>2, <1>3, <1>5, <2>1 DEF SlaveWire
  <2>7. CallOf("S")' /\ LatchInv' /\ SlaveStores' /\ SlaveSends'
    BY <1>1, <1>3, <2>1, <2>2, UnservedSlave
  <2>8. QED
    BY <1>1, <1>2, <2>2, <2>3, <2>4, <2>5, <2>6, <2>7 DEF LockstepInv, MasterLock, SlaveLock, RoundInv
<1>8. QED
  BY <1>4, <1>6, <1>7

(* A byte of a write: the slave stores what the master sent.               *)
LEMMA WriteByteStep ==
  ASSUME SizesMatch, TypeOK, HandleInv, MasterInv, LockstepInv, Quiet, HwWriteByte(FALSE)
  PROVE  LockstepInv'
<1>1. /\ CallOf("M") /\ MasterWire /\ MasterStores /\ MasterSends
      /\ CallOf("S") /\ SlaveWire /\ LatchInv /\ SlaveStores /\ SlaveSends
      /\ Served => SlaveOpen
      /\ Ended("S") = IF SlaveOpen /\ ~Served THEN Moved - 1 ELSE Moved
  BY DEF LockstepInv, MasterLock, SlaveLock, RoundInv
<1>2. /\ UNCHANGED <<mode, status, pcount, error_code, pbuff, mem, pc, isr, ret, plan, round>>
      /\ FrameRound' = FrameRound /\ Posted' = Posted /\ InData' = InData
      /\ SlaveOpen' = SlaveOpen
      /\ \A n \in {"M", "S"} : /\ Ended(n)' = Ended(n) /\ Size(n)' = Size(n)
                               /\ InCall(n)' = InCall(n) /\ Returned(n)' = Returned(n)
  BY QuietFacts DEF Node
<1>3. /\ rx \in [Node -> Seq(Byte)] /\ tx \in [Node -> Seq(Byte)] /\ mem \in [Node -> Seq(Byte)]
      /\ Node = {"M", "S"} /\ clocked \in Nat /\ acked \in Nat /\ round \in [Node -> Nat \ {0}]
      /\ pbuff \in [Node -> Nat]
  BY DEF TypeOK, HwTypeOK, SwTypeOK, Node
<1>4. /\ phase = "data" /\ dir = "write" /\ tx["M"] # <<>> /\ ~SlaveStretches /\ clocked' = clocked + 1
      /\ UNCHANGED <<ctrl, dir, sel>>
  BY DEF HwWriteByte
<1>5. sel /\ "ACKEN" \in ctrl["S"] /\ "ADDR7F" \notin flags["S"] /\ Served
  BY <1>1, <1>4 DEF SlaveWire, SlaveStretches, Served
<1>6. /\ rx'["S"] = Append(rx["S"], Head(tx["M"])) /\ rx'["M"] = rx["M"]
      /\ tx'["M"] = Tail(tx["M"]) /\ tx'["S"] = tx["S"]
      /\ acked' = acked + 1 /\ UNCHANGED <<flags, phase>>
  BY <1>3, <1>5 DEF HwWriteByte
<1>7. /\ SlaveOpen /\ round["S"] = FrameRound /\ FrameRound \in 1 .. Len(plan)
      /\ mode["S"] = "I2C_INT_SLA_RX"
  BY <1>4, <1>5, ServedRound
<1>8. Served' = Served /\ Moved' = Moved
  BY <1>2, <1>4, <1>6 DEF Served, Moved
<1>9. /\ clocked <= Posted /\ tx["M"] = Pieces(FrameRound, clocked, Posted)
      /\ Posted \in Nat /\ FrameRound \in Nat
  <2>1. Posted \in Nat
    <3>1. plan[FrameRound].M \in Nat
      BY <1>4, <1>5, ServedRound
    <3>2. QED
      BY <1>3, <3>1 DEF Posted
  <2>2. QED
    BY <1>1, <1>4, <1>7, <2>1 DEF MasterSends
<1>10. /\ clocked + 1 <= Posted
       /\ Head(tx["M"]) = <<FrameRound, clocked + 1>>
       /\ Tail(tx["M"]) = Pieces(FrameRound, clocked + 1, Posted)
  <2>1. Pieces(FrameRound, clocked, Posted) # <<>>
    BY <1>4, <1>9
  <2>2. /\ clocked + 1 <= Posted
        /\ Head(Pieces(FrameRound, clocked, Posted)) = <<FrameRound, clocked + 1>>
        /\ Tail(Pieces(FrameRound, clocked, Posted)) = Pieces(FrameRound, clocked + 1, Posted)
    BY <1>3, <1>9, <2>1, PiecesHead, ZenonT(40)
  <2>3. QED
    BY <1>9, <2>2
<1>11. CallOf("M")' /\ MasterWire'
  <2>1. acked' = clocked'
    BY <1>1, <1>3, <1>4, <1>6 DEF MasterWire
  <2>2. ~(Returned("M") /\ status["M"] = "START")
    BY <1>1, <1>4 DEF MasterWire
  <2>3. QED
    BY <1>1, <1>2, <1>4, <1>6, <2>1, <2>2 DEF CallOf, MasterWire
<1>12. MasterStores' /\ MasterSends'
  <2>1. ~(InData /\ mode["M"] = "I2C_INT_MA_RX")
    BY <1>4 DEF MasterInv, ReadInv
  <2>2. Pieces(FrameRound, clocked, Posted)' = Pieces(FrameRound, clocked + 1, Posted)
    BY <1>2, <1>4 DEF Pieces
  <2>3. QED
    BY <1>1, <1>2, <1>4, <1>6, <1>10, <2>1, <2>2 DEF MasterStores, MasterSends, Sent
<1>13. CallOf("S")' /\ SlaveWire' /\ LatchInv'
  BY <1>1, <1>2, <1>4, <1>5, <1>6, <1>8 DEF CallOf, SlaveWire, LatchInv
<1>14. SlaveStores'
  <2>1. Stored("S")' = Append(Stored("S"), <<FrameRound, clocked + 1>>)
    <3>1. <<FrameRound, clocked + 1>> \in Byte
      BY <1>3, <1>9, SMTT(30) DEF Byte
    <3>2. mem["S"] \o Append(rx["S"], <<FrameRound, clocked + 1>>)
            = Append(mem["S"] \o rx["S"], <<FrameRound, clocked + 1>>)
      BY <1>3, <3>1, ArrivesBehind
    <3>3. QED
      BY <1>2, <1>6, <1>10, <3>2 DEF Stored
  <2>2. Stored("S") = Sent(round["S"], clocked)
    BY <1>1, <1>5, <1>7 DEF SlaveStores
  <2>3. Stored("S")' = Sent(round["S"], clocked + 1)
    BY <1>3, <1>7, <1>9, <2>1, <2>2, SentNext
  <2>4. Sent(round["S"], IF Served THEN clocked ELSE Size("S"))' = Sent(round["S"], clocked + 1)
    BY <1>2, <1>4, <1>5, <1>8 DEF Sent
  <2>5. pc["S"] \notin {"busy", "addr"} /\ status["S"] # "END"
    BY <1>7 DEF SlaveOpen
  <2>6. QED
    BY <1>2, <1>7, <2>3, <2>4, <2>5 DEF SlaveStores
<1>15. SlaveSends'
  BY <1>1, <1>2, <1>7 DEF SlaveSends
<1>16. QED
  BY <1>1, <1>2, <1>8, <1>11, <1>12, <1>13, <1>14, <1>15 DEF LockstepInv, MasterLock, SlaveLock, RoundInv

(* A byte of a read: the master gets what the slave sent, and the byte     *)
(* that it refuses is the slave's last.                                    *)
LEMMA ReadByteStep ==
  ASSUME SizesMatch, TypeOK, HandleInv, MasterInv, MasterInv', LockstepInv, Quiet, HwReadByte
  PROVE  LockstepInv'
<1>1. /\ CallOf("M") /\ MasterWire /\ MasterStores /\ MasterSends
      /\ CallOf("S") /\ SlaveWire /\ LatchInv /\ SlaveStores /\ SlaveSends
      /\ Served => SlaveOpen
      /\ Ended("S") = IF SlaveOpen /\ ~Served THEN Moved - 1 ELSE Moved
  BY DEF LockstepInv, MasterLock, SlaveLock, RoundInv
<1>2. /\ UNCHANGED <<mode, status, pcount, error_code, pbuff, mem, pc, isr, ret, plan, round>>
      /\ FrameRound' = FrameRound /\ InData' = InData /\ SlaveOpen' = SlaveOpen
      /\ \A n \in {"M", "S"} : /\ Ended(n)' = Ended(n) /\ Size(n)' = Size(n)
                               /\ InCall(n)' = InCall(n) /\ Returned(n)' = Returned(n)
  BY QuietFacts DEF Node
<1>3. /\ rx \in [Node -> Seq(Byte)] /\ tx \in [Node -> Seq(Byte)] /\ mem \in [Node -> Seq(Byte)]
      /\ flags \in [Node -> SUBSET Flags] /\ sel \in BOOLEAN
      /\ Node = {"M", "S"} /\ clocked \in Nat /\ acked \in Nat /\ round \in [Node -> Nat \ {0}]
      /\ pbuff \in [Node -> Nat] /\ pcount \in [Node -> Nat]
  BY SMTT(30) DEF TypeOK, HwTypeOK, SwTypeOK, Node, UInt16
<1>4. /\ phase = "data" /\ dir = "read" /\ "ADDR7F" \notin flags["M"] /\ ~SlaveStretches
      /\ clocked' = clocked + 1 /\ UNCHANGED <<ctrl, dir>>
  BY DEF HwReadByte, HwReadByteAck
<1>5. sel /\ "ADDR7F" \notin flags["S"] /\ tx["S"] # <<>> /\ Served
  BY <1>1, <1>4 DEF SlaveWire, SlaveStretches, Served
<1>6. /\ rx'["M"] = Append(rx["M"], Head(tx["S"])) /\ rx'["S"] = rx["S"]
      /\ tx'["S"] = Tail(tx["S"]) /\ tx'["M"] = tx["M"] /\ flags'["M"] = flags["M"]
  BY <1>3, <1>5 DEF HwReadByte, HwReadByteAck
<1>7. /\ SlaveOpen /\ round["S"] = FrameRound /\ FrameRound \in 1 .. Len(plan)
      /\ mode["S"] = "I2C_INT_SLA_TX" /\ Size("S") = plan[FrameRound].M /\ BoundsOf("S")
  BY <1>4, <1>5, ServedRound
<1>8. /\ InData /\ mode["M"] = "I2C_INT_MA_RX" /\ InCall("M") /\ FrameRound = round["M"]
      /\ clocked < Size("M") /\ acked = clocked
  BY <1>4, ReadFrame
<1>9. Size("S") = Size("M") /\ Size("M") \in Nat /\ round["S"] = round["M"] /\ round["M"] \in Nat
      /\ pc["M"] \notin {"idle", "busy", "done", "startf", "addr"} /\ status["M"] = "START"
  <2>1. Size("M") \in Nat
    BY <1>8, CallSize
  <2>2. QED
    BY <1>3, <1>7, <1>8, <2>1 DEF Size, MyRound, InData
<1>10. /\ clocked + 1 <= pbuff["S"]
       /\ Head(tx["S"]) = <<round["S"], clocked + 1>>
       /\ Tail(tx["S"]) = Pieces(round["S"], clocked + 1, pbuff["S"])
  <2>1. /\ clocked <= pbuff["S"] /\ tx["S"] = Pieces(round["S"], clocked, pbuff["S"])
        /\ pbuff["S"] \in Nat /\ round["S"] \in Nat
    BY <1>1, <1>3, <1>5, <1>7 DEF SlaveSends
  <2>2. Pieces(round["S"], clocked, pbuff["S"]) # <<>>
    BY <1>5, <2>1
  <2>3. /\ clocked + 1 <= pbuff["S"]
        /\ Head(Pieces(round["S"], clocked, pbuff["S"])) = <<round["S"], clocked + 1>>
        /\ Tail(Pieces(round["S"], clocked, pbuff["S"])) = Pieces(round["S"], clocked + 1, pbuff["S"])
    BY <1>3, <2>1, <2>2, PiecesHead, ZenonT(40)
  <2>4. QED
    BY <2>1, <2>3
<1>11. MasterStores'
  <2>1. Stored("M")' = Append(Stored("M"), <<round["M"], clocked + 1>>)
    <3>1. <<round["M"], clocked + 1>> \in Byte
      BY <1>3, <1>9 DEF Byte
    <3>2. mem["M"] \o Append(rx["M"], <<round["M"], clocked + 1>>)
            = Append(mem["M"] \o rx["M"], <<round["M"], clocked + 1>>)
      BY <1>3, <3>1, ArrivesBehind
    <3>3. QED
      BY <1>2, <1>6, <1>9, <1>10, <3>2 DEF Stored
  <2>2. Stored("M") = Sent(round["M"], clocked)
    BY <1>1, <1>8 DEF MasterStores
  <2>3. Stored("M")' = Sent(round["M"], clocked + 1)
    BY <1>3, <1>9, <2>1, <2>2, SentNext
  <2>4. Sent(round["M"], clocked)' = Sent(round["M"], clocked + 1)
    BY <1>2, <1>4 DEF Sent
  <2>5. QED
    BY <1>2, <1>9, <2>3, <2>4 DEF MasterStores
<1>12. MasterSends'
  BY <1>2, <1>4, <1>8 DEF MasterSends
<1>13. CallOf("M")'
  BY <1>1, <1>2, <1>6 DEF CallOf
<1>14. CallOf("S")'
  <2>1. "BUSERR" \notin flags'["S"]
    BY <1>1, <1>3 DEF CallOf, HwReadByte, HwReadByteAck
  <2>2. QED
    BY <1>1, <1>2, <2>1 DEF CallOf
<1>15. SlaveStores'
  <2>1. SlaveStores /\ rx'["S"] = rx["S"] /\ mode["S"] # "I2C_INT_SLA_RX"
    BY <1>1, <1>6, <1>7
  <2>2. QED
    BY <1>2, <2>1 DEF SlaveStores
<1>16. InData' /\ mode'["M"] = "I2C_INT_MA_RX"
  BY <1>2, <1>8
<1>17. CASE MasterAcks /\ "GENSTOP" \notin ctrl["M"]
  <2>1. phase' = "data" /\ sel' /\ flags' = flags
    BY <1>5, <1>17 DEF HwReadByte, HwReadByteAck
  <2>2. acked' = clocked'
    BY <1>16, <2>1 DEF MasterInv, ReadInv
  <2>3. Served' /\ Moved' = Moved
    BY <1>2, <1>4, <1>5, <2>1 DEF Served, Moved
  <2>4. MasterWire'
    BY <1>1, <1>2, <1>4, <1>6, <1>8, <1>9, <2>1, <2>2 DEF MasterWire, Returned
  <2>5. SlaveWire' /\ LatchInv'
    BY <1>1, <1>2, <1>4, <1>5, <1>7, <2>1, <2>3 DEF SlaveWire, LatchInv
  <2>6. SlaveSends'
    BY <1>1, <1>2, <1>4, <1>6, <1>7, <1>10, <2>3 DEF SlaveSends, Pieces
  <2>7. QED
    BY <1>1, <1>2, <1>5, <1>11, <1>12, <1>13, <1>14, <1>15, <2>3, <2>4, <2>5, <2>6
    DEF LockstepInv, MasterLock, SlaveLock, RoundInv
<1>18. CASE ~(MasterAcks /\ "GENSTOP" \notin ctrl["M"])
  <2>1. phase' = "closing"
    BY <1>18 DEF HwReadByte, HwReadByteAck
  <2>2. clocked' = Size("M") /\ acked' = Size("M") - 1
    BY <1>2, <1>16, <2>1 DEF MasterInv, ReadInv, ReadExact
  <2>3. ~MasterAcks
    <3>1. MasterAcks => acked' = acked + 1
      BY DEF HwReadByte, HwReadByteAck
    <3>2. QED
      BY <1>3, <1>4, <1>8, <1>9, <2>2, <3>1
  <2>4. sel' = FALSE /\ flags'["S"] = flags["S"] \cup {"ACKFAIL"}
    BY <1>3, <1>5, <2>3 DEF HwReadByte, HwReadByteAck
  <2>5. ~Served'
    BY <2>4 DEF Served
  <2>6. Moved = round["M"] - 1 /\ Moved' = round["M"]
    BY <1>2, <1>4, <1>8, <1>16, <2>1 DEF Moved
  <2>7. Ended("S")' = IF SlaveOpen' /\ ~Served' THEN Moved' - 1 ELSE Moved'
    BY <1>1, <1>2, <1>5, <1>7, <2>5, <2>6
  <2>8. MasterWire'
    BY <1>1, <1>2, <1>4, <1>6, <1>8, <1>9, <2>1 DEF MasterWire, Returned
  <2>9. SlaveWire' /\ LatchInv'
    BY <1>1, <1>2, <1>4, <1>5, <1>7, <2>1, <2>4, <2>5 DEF SlaveWire, LatchInv, SlaveOpen
  <2>10. SlaveSends'
    <3>1. pcount["S"] = 0
      <4>1. pbuff["S"] + pcount["S"] = Size("M") /\ clocked + 1 = Size("M")
        BY <1>4, <1>7, <1>9, <2>2 DEF BoundsOf
      <4>2. pbuff["S"] \in Nat /\ pcount["S"] \in Nat
        BY <1>3
      <4>3. QED
        BY <1>3, <1>9, <1>10, <4>1, <4>2, SMTT(30)
    <3>2. QED
      BY <1>1, <1>2, <1>7, <2>5, <3>1 DEF SlaveSends
  <2>11. QED
    BY <1>11, <1>12, <1>13, <1>14, <1>15, <2>5, <2>7, <2>8, <2>9, <2>10
    DEF LockstepInv, MasterLock, SlaveLock, RoundInv
<1>19. QED
  BY <1>17, <1>18

(* The STOP of a read comes in time: the master clocks no byte beyond the  *)
(* one it refused.                                                         *)
LEMMA NoOverrun ==
  ASSUME TypeOK, HandleInv, MasterInv, LockstepInv
  PROVE  ~HwOverrunByte
<1> SUFFICES ASSUME HwOverrunByte PROVE FALSE
  OBVIOUS
<1>1. /\ phase = "closing" /\ dir = "read" /\ "GENSTOP" \notin ctrl["M"] /\ clocked > 0
      /\ Len(rx["M"]) < 2
  BY DEF HwOverrunByte
<1>2. ~Resting /\ pc["M"] \notin {"startf", "addr"}
  BY <1>1 DEF MasterInv, RestInv, AtRest, StartInv
<1>3. ~(Returned("M") /\ status["M"] = "START") /\ pc["M"] # "addrfail"
  BY <1>1 DEF LockstepInv, MasterLock, MasterWire, AtRest
<1>4. status["M"] \in {"START", "END"} /\ pc["M"] \in MainPc
  BY DEF TypeOK, SwTypeOK, Node
<1>5. InData
  BY <1>2, <1>3, <1>4 DEF Resting, InCall, Returned, InData, MainPc
<1>6. mode["M"] = "I2C_INT_MA_RX"
  BY <1>1, <1>5, CallSize DEF MasterInv, WriteInv
<1>7. /\ clocked = pbuff["M"] + Len(rx["M"]) /\ clocked = Size("M") /\ Size("M") # 1
      /\ Size("M") >= 2 => pcount["M"] >= 2
  BY <1>1, <1>5, <1>6 DEF MasterInv, ReadInv, ReadExact
<1>8. /\ pbuff["M"] \in Nat /\ pcount["M"] \in Nat /\ Len(rx["M"]) \in Nat
      /\ pbuff["M"] + pcount["M"] = Size("M") /\ Size("M") \in Nat \ {0}
  BY <1>5, CallSize
<1>9. pcount["M"] >= 2
  BY <1>7, <1>8
<1>10. QED
  BY <1>1, <1>7, <1>8, <1>9

(* A STOP in the middle of the data part of a frame ends a write, and all  *)
(* of its bytes are out.                                                   *)
LEMMA StopInData ==
  ASSUME SizesMatch, TypeOK, HandleInv, MasterInv, LockstepInv, HwStop, phase = "data"
  PROVE  /\ dir = "write" /\ Served /\ ~InData
         /\ clocked = Size("S") /\ acked = Size("S")
         /\ Ended("M") = FrameRound
<1>1. MasterWire /\ MasterSends /\ SlaveWire
  BY DEF LockstepInv, MasterLock, SlaveLock
<1>2. /\ "GENSTOP" \in ctrl["M"] /\ ByteBoundary /\ ~SlaveStretches
  BY DEF HwStop
<1>3. /\ pc["M"] \in MainPc /\ status["M"] \in {"START", "END"} /\ round["M"] \in Nat
      /\ clocked \in Nat /\ pbuff["M"] \in Nat /\ "M" \in Node
  BY DEF TypeOK, HwTypeOK, SwTypeOK, Node
<1>4. pc["M"] \notin {"startf", "addr"} /\ "ADDR7F" \notin flags["M"]
  BY <1>1, <1>2 DEF MasterInv, StartInv, MasterWire
<1>5. ~InData
  <2>1. SUFFICES ASSUME InData PROVE FALSE
    OBVIOUS
  <2>2. mode["M"] = "I2C_INT_MA_RX" /\ dir = "read" /\ Size("M") = 1
    BY <1>2, <2>1, CallSize DEF MasterInv, WriteInv, ReadInv
  <2>3. pbuff["M"] + Len(rx["M"]) < 1
    BY <2>1, <2>2 DEF MasterInv, ReadInv
  <2>4. Len(rx["M"]) = 2
    BY <1>2, <1>4, <2>2 DEF ByteBoundary
  <2>5. QED
    BY <1>3, <2>3, <2>4
<1>6. ~(Returned("M") /\ status["M"] = "START") /\ pc["M"] # "addrfail"
  BY <1>1 DEF MasterWire
<1>7. Resting
  BY <1>3, <1>4, <1>5, <1>6 DEF Resting, InCall, InData, Returned, MainPc
<1>8. dir = "write"
  <2>1. dir # "read"
    BY <1>7 DEF MasterInv, RestInv, AtRest
  <2>2. QED
    BY <2>1 DEF TypeOK, HwTypeOK
<1>9. sel /\ Served
  BY <1>1, <1>2 DEF SlaveWire, SlaveStretches, Served
<1>10. /\ FrameRound \in 1 .. Len(plan) /\ Size("S") = plan[FrameRound].M /\ Size("S") \in Nat
  BY <1>9, ServedRound
<1>11. Posted = plan[FrameRound].M
  BY <1>7 DEF Posted, Resting
<1>12. clocked = Posted
  <2>1. clocked <= Posted /\ tx["M"] = Pieces(FrameRound, clocked, Posted)
    BY <1>1, <1>8 DEF MasterSends
  <2>2. tx["M"] = <<>>
    BY <1>2, <1>4, <1>8 DEF ByteBoundary
  <2>3. Posted \in Nat /\ FrameRound \in Nat
    BY <1>10, <1>11
  <2>4. Pieces(FrameRound, clocked, Posted) = <<>> <=> clocked = Posted
    BY <1>3, <2>1, <2>3, PiecesEmpty
  <2>5. QED
    BY <2>1, <2>2, <2>4
<1>13. acked = clocked
  BY <1>1 DEF MasterWire
<1>14. Ended("M") = FrameRound
  <2>1. CASE pc["M"] \in {"idle", "done"}
    BY <2>1 DEF Ended, InCall, FrameRound
  <2>2. CASE pc["M"] = "busy"
    <3>1. status["M"] = "START"
      BY <1>3, <2>2 DEF HandleInv, HandleOf
    <3>2. QED
      BY <2>2, <3>1 DEF Ended, FrameRound
  <2>3. CASE pc["M"] \notin {"idle", "done", "busy"}
    <3>1. FrameRound = round["M"] /\ Ended("M") = round["M"] - 0
      BY <1>7, <2>3 DEF Resting, Ended, FrameRound
    <3>2. QED
      BY <1>3, <3>1
  <2>4. QED
    BY <2>1, <2>2, <2>3
<1>15. QED
  BY <1>5, <1>8, <1>9, <1>10, <1>11, <1>12, <1>13, <1>14

(* STOP.                                                                   *)
LEMMA StopStep ==
  ASSUME SizesMatch, TypeOK, HandleInv, MasterInv, LockstepInv, Quiet, InTime, HwStop
  PROVE  LockstepInv'
<1>1. /\ CallOf("M") /\ MasterWire /\ MasterStores /\ MasterSends /\ SlaveLock
      /\ CallOf("S") /\ SlaveWire /\ LatchInv /\ SlaveStores /\ SlaveSends
      /\ Served => SlaveOpen
      /\ Ended("S") = IF SlaveOpen /\ ~Served THEN Moved - 1 ELSE Moved
  BY DEF LockstepInv, MasterLock, SlaveLock, RoundInv
<1>2. /\ UNCHANGED <<mode, status, pcount, error_code, pbuff, mem, pc, isr, ret, plan, round>>
      /\ FrameRound' = FrameRound /\ InData' = InData /\ SlaveOpen' = SlaveOpen
      /\ \A n \in {"M", "S"} : /\ Ended(n)' = Ended(n) /\ Size(n)' = Size(n)
                               /\ InCall(n)' = InCall(n) /\ Returned(n)' = Returned(n)
  BY QuietFacts DEF Node
<1>3. /\ flags \in [Node -> SUBSET Flags] /\ sel \in BOOLEAN /\ Node = {"M", "S"}
      /\ ctrl \in [Node -> SUBSET CtrlBits]
      /\ phase \in {"free", "start", "addr", "data", "closing"}
  BY DEF TypeOK, HwTypeOK, Node
<1>4. /\ "GENSTOP" \in ctrl["M"] /\ ByteBoundary /\ phase' = "free" /\ sel' = FALSE
      /\ \A n \in Node : ctrl'[n] = ctrl[n] \ {"GENSTOP"}
      /\ flags'["M"] = flags["M"] \ {"BUSYF", "STARTF", "ADDR7F"}
      /\ flags'["S"] = (flags["S"] \ {"BUSYF"}) \cup IF sel /\ dir = "write" THEN {"STOPF"} ELSE {}
      /\ UNCHANGED <<tx, rx, dir, clocked, acked>>
  BY <1>3 DEF HwStop
<1>5. phase \in {"closing", "data"}
  BY <1>1, <1>3, <1>4 DEF ByteBoundary, MasterWire, MasterInv, StartInv
<1>6. ~Served'
  BY <1>4 DEF Served
<1>7. CallOf("M")' /\ MasterWire'
  <2>1. CallOf("M")'
    BY <1>1, <1>2, <1>4 DEF CallOf
  <2>2. "ADDR7F" \notin flags'["M"] /\ "ACKFAIL" \notin flags'["M"]
    <3>1. "ACKFAIL" \notin flags["M"]
      BY <1>1, <1>4 DEF MasterWire, MasterInv, StartInv
    <3>2. QED
      BY <1>4, <3>1
  <2>3. /\ Returned("M") /\ status["M"] = "START" =>
             rx'["M"] = <<>> /\ "GENSTART" \notin ctrl'["M"] /\ (ResetOnError \/ AtRest')
        /\ pc["M"] = "addrfail" => AtRest' /\ ~Prompt
    BY <1>1, <1>3, <1>4 DEF MasterWire, AtRest, InTime
  <2>4. QED
    BY <1>2, <1>4, <2>1, <2>2, <2>3 DEF MasterWire
<1>8. MasterStores'
  BY <1>1, <1>2, <1>4 DEF MasterStores, Stored, Sent
<1>9. MasterSends'
  <2>1. ~(InData /\ mode["M"] = "I2C_INT_MA_TX")
    BY <1>4 DEF MasterInv, WriteInv
  <2>2. QED
    BY <1>2, <1>4, <2>1 DEF MasterSends
<1>10. CASE phase = "closing"
  <2>1. sel = FALSE /\ ~Served
    BY <1>1, <1>3, <1>10 DEF SlaveWire, Served
  <2>2. Moved' = Moved
    BY <1>2, <1>4, <1>10 DEF Moved
  <2>3. flags'["S"] = flags["S"] \ {"BUSYF"}
    BY <1>4, <2>1
  <2>4. SlaveWire'
    BY <1>1, <1>2, <1>3, <1>4, <2>1, <2>3 DEF SlaveWire
  <2>5. CallOf("S")' /\ LatchInv' /\ SlaveStores' /\ SlaveSends'
    BY <1>1, <1>4, <1>6, <2>1, <2>3, UnservedSlave
  <2>6. QED
    BY <1>1, <1>2, <1>6, <1>7, <1>8, <1>9, <2>1, <2>2, <2>4, <2>5
    DEF LockstepInv, MasterLock, SlaveLock, RoundInv
<1>11. CASE phase = "data"
  <2>1. dir = "write" /\ Served /\ ~InData /\ clocked = Size("S") /\ Ended("M") = FrameRound
    BY <1>11, StopInData
  <2>2. SlaveOpen /\ mode["S"] = "I2C_INT_SLA_RX" /\ FrameRound \in Nat
    BY <2>1, ServedRound
  <2>3. Moved = FrameRound - 1 /\ Moved' = FrameRound
    BY <1>2, <1>4, <1>11, <2>1 DEF Moved
  <2>4. Ended("S")' = IF SlaveOpen' /\ ~Served' THEN Moved' - 1 ELSE Moved'
    BY <1>1, <1>2, <1>6, <2>1, <2>2, <2>3
  <2>5. flags'["S"] = (flags["S"] \ {"BUSYF"}) \cup {"STOPF"} /\ "ADDR7F" \notin flags["S"]
    BY <1>4, <2>1 DEF Served
  <2>6. SlaveWire'
    BY <1>1, <1>2, <1>3, <1>4, <2>5 DEF SlaveWire
  <2>7. CallOf("S")' /\ LatchInv'
    BY <1>1, <1>2, <1>6, <2>1, <2>2, <2>5 DEF CallOf, LatchInv
  <2>8. SlaveStores'
    <3>1. Stored("S") = Sent(round["S"], Size("S"))
      BY <1>1, <2>1, <2>2 DEF SlaveStores
    <3>2. status["S"] = "START" /\ pc["S"] \notin {"busy", "addr"}
      BY <2>2 DEF SlaveOpen
    <3>3. QED
      BY <1>1, <1>2, <1>4, <1>6, <2>2, <3>1, <3>2 DEF SlaveStores, Stored, Sent
  <2>9. SlaveSends'
    BY <1>1, <1>2, <2>2 DEF SlaveSends
  <2>10. QED
    BY <1>6, <1>7, <1>8, <1>9, <2>4, <2>6, <2>7, <2>8, <2>9
    DEF LockstepInv, MasterLock, SlaveLock, RoundInv
<1>12. QED
  BY <1>5, <1>10, <1>11

-----------------------------------------------------------------------------
(* LockstepInv is an inductive invariant, on top of IInv.                  *)

(* The initial states satisfy it.                                          *)
LEMMA LockstepInit == Init => LockstepInv
<1> SUFFICES ASSUME Init PROVE LockstepInv
  OBVIOUS
<1> USE DEF Init, HwInit, Node
<1>1. ~SlaveOpen /\ ~Served /\ ~InData /\ Ended("S") = 0 /\ Ended("M") = 0 /\ Moved = 0
  BY DEF SlaveOpen, Served, InData, Ended, InCall, Moved
<1>2. CallOf("M") /\ CallOf("S")
  BY DEF CallOf, Returned
<1>3. MasterWire /\ SlaveWire /\ LatchInv
  BY <1>1 DEF MasterWire, SlaveWire, LatchInv, Returned
<1>4. MasterStores /\ MasterSends /\ SlaveStores /\ SlaveSends
  BY <1>1 DEF MasterStores, MasterSends, SlaveStores, SlaveSends, InCall
<1>5. QED
  BY <1>1, <1>2, <1>3, <1>4 DEF LockstepInv, MasterLock, SlaveLock, RoundInv

(* A call that fails leaves nothing behind, so applications that do not    *)
(* reset their peripheral may try again as well.                           *)
LEMMA FailsClean ==
  ASSUME IInv, LockstepInv
  PROVE  RetriesClean
<1>1. ASSUME ~ResetOnError, NEW n \in Node
      PROVE  CleanFailure(n)
  <2>1. SUFFICES ASSUME pc[n] = "returned", ret[n] # "OK"
                 PROVE  ints[n] = {} /\ isr[n] = "none" /\ (n = "M" => AtRest)
    BY DEF CleanFailure
  <2>2. n = "M" /\ status[n] = "START" /\ ret[n] = "STEP_2"
    BY <1>1, <2>1 DEF LockstepInv, MasterLock, SlaveLock, CallOf, Returned, Node
  <2>3. AtRest
    BY <1>1, <2>1, <2>2 DEF LockstepInv, MasterLock, MasterWire, Returned
  <2>4. ~HandlersTurn(n)
    BY <2>1, <2>2 DEF HandlersTurn
  <2>5. isr[n] \in {"none", "ackfail"}
    BY <1>1 DEF IInv, TypeOK, SwTypeOK
  <2>6. QED
    BY <1>1, <2>3, <2>4, <2>5 DEF IInv, InterruptInv, InterruptOf
<1>2. QED
  BY <1>1 DEF RetriesClean

(* Every step keeps both invariants.                                       *)
LEMMA LockstepNext ==
  ASSUME SoundLine, SizesMatch, Timely, NoStrayStop, IInv, MatchedInv, [Next]_vars
  PROVE  IInv' /\ LockstepInv'
<1> USE DEF MatchedInv
<1>1. IInv'
  BY FailsClean, NextInv
<1> SUFFICES LockstepInv'
  BY <1>1
<1>0. TypeOK /\ HandleInv /\ InterruptInv /\ MasterInv /\ MasterInv'
  BY <1>1 DEF IInv
<1>2. CASE Main("S")
  BY <1>0, <1>2, SlaveMainStep
<1>3. CASE Handler("S")
  BY <1>0, <1>3, SlaveHandlerStep
<1>4. CASE Main("M")
  <2>1. \/ StartCall("M") \/ EnableInterrupts("M") \/ i2c_wait_end("M") \/ NextRound("M")
        \/ i2c_config("M") \/ Retry("M") \/ GiveUp("M")
        \/ MasterStart \/ MasterSendAddress \/ MasterClearAddr
        \/ MasterEv6Stop \/ MasterEv6Ack \/ MasterAddrFail \/ MasterFailStop
    BY <1>4, MasterWaits
  <2>2. MasterFailStop => Prompt \/ ResetOnError
    BY DEF NoStrayStop, InvitedInv, MasterFailStop, At
  <2>3. QED
    BY <1>0, <2>1, <2>2, MasterOutsideStep, MasterConnectStep
<1>5. CASE Handler("M")
  BY <1>0, <1>5, MasterHandlerStep
<1>6. CASE Bus
  <2>1. Quiet
    BY <1>6 DEF Bus
  <2>2. CASE HwStart \/ HwAddrAck \/ HwAddrNack
    BY <1>0, <2>1, <2>2, AddressStep
  <2>3. CASE HwWriteByte(FALSE)
    BY <1>0, <2>1, <2>3, WriteByteStep
  <2>4. CASE HwReadByte
    BY <1>0, <2>1, <2>4, ReadByteStep
  <2>5. CASE InTime /\ HwStop
    BY <1>0, <2>1, <2>5, StopStep
  <2>6. QED
    BY <1>0, <1>6, <2>2, <2>3, <2>4, <2>5, NoOverrun DEF Bus
<1>7. ~Fault
  <2>1. faults \in Nat /\ MaxFaults = 0
    BY <1>0 DEF SoundLine, TypeOK, SwTypeOK
  <2>2. ~(faults < MaxFaults)
    BY <2>1
  <2>3. QED
    BY <2>2 DEF Fault
<1>8. CASE UNCHANGED vars
  <2>1. SameBoard("M") /\ SameBoard("S") /\ UNCHANGED <<phase, dir, sel, clocked, acked, plan>>
    BY <1>8 DEF vars, hwVars, handle, app, SameBoard, SameNode
  <2>2. MasterLock' /\ Moved' = Moved
    BY <2>1, MasterLockFrame DEF LockstepInv
  <2>3. /\ SlaveLock'
        /\ Served' = Served /\ SlaveOpen' = SlaveOpen /\ Ended("S")' = Ended("S")
    BY <2>1, SlaveFrame DEF LockstepInv
  <2>4. QED
    BY <2>2, <2>3 DEF LockstepInv, RoundInv
<1>9. QED
  <2>1. \/ Main("M") \/ Main("S") \/ Handler("M") \/ Handler("S") \/ Bus \/ UNCHANGED vars
    BY <1>7 DEF Next, Node
  <2>2. QED
    BY <1>1, <1>2, <1>3, <1>4, <1>5, <1>6, <1>8, <2>1

(***************************************************************************)
(* A master that calls only a listening slave.                             *)
(***************************************************************************)

(* Such a master does not begin its next call while bytes still move.      *)
LEMMA NoCallInData ==
  ASSUME TypeOK, HandleInv, MasterInv, LockstepInv, InvitedInv, phase = "data"
  PROVE  pc["M"] \notin {"busy", "startf"}
<1>1. pc["M"] # "startf"
  BY DEF MasterInv, StartInv
<1>2. ASSUME pc["M"] = "busy"
      PROVE  FALSE
  <2>1. pc["S"] = "addr" /\ round["S"] = round["M"] /\ round["M"] \in Nat
    BY <1>2 DEF InvitedInv, TypeOK, SwTypeOK, Node
  <2>2. status["S"] = "START" /\ ~SlaveOpen
    BY <2>1 DEF HandleInv, HandleOf, Node, SlaveOpen
  <2>3. Ended("S") = round["M"] - 1
    BY <2>1, <2>2 DEF Ended
  <2>4. Ended("S") = (round["M"] - 1) - 1
    BY <1>2, <2>2 DEF LockstepInv, RoundInv, Moved, FrameRound
  <2>5. QED
    BY <2>1, <2>3, <2>4
<1>3. QED
  BY <1>1, <1>2

(* What a call says that has returned.                                     *)
LEMMA NeverRefused ==
  ASSUME LockstepInv, InvitedInv
  PROVE  /\ ~MasterAddrFail /\ ~MasterFailStop
         /\ ~i2c_config("M") /\ ~Retry("M") /\ ~GiveUp("M")
<1>1. Returned("M") => ret["M"] = "OK"
  BY DEF InvitedInv, LockstepInv, MasterLock, CallOf
<1>2. QED
  BY <1>1 DEF InvitedInv, MasterAddrFail, MasterFailStop, i2c_config, Retry, GiveUp, At, Returned

(* No software step disturbs it.                                           *)
LEMMA InvitedSoftware ==
  ASSUME SoundLine, SlaveFirst, TypeOK, HandleInv, MasterInv, LockstepInv, InvitedInv,
         NEW n \in Node, Main(n) \/ Handler(n)
  PROVE  InvitedInv'
<1>1. /\ pc \in [Node -> MainPc] /\ flags \in [Node -> SUBSET Flags] /\ Node = {"M", "S"}
      /\ status \in [Node -> {"START", "END"}] /\ round \in [Node -> Nat \ {0}]
  BY DEF TypeOK, HwTypeOK, SwTypeOK, Node
<1>2. /\ ~i2c_config("S") /\ ~i2c_config("M") /\ ~Retry("M") /\ ~GiveUp("M")
      /\ ~MasterAddrFail /\ ~MasterFailStop
  BY NeverRefused DEF LockstepInv, SlaveLock, CallOf, Returned, i2c_config, At
<1>3. /\ \A m \in Node \ {n} : SameBoard(m)
      /\ n = "S" \/ Handler(n) => UNCHANGED <<phase, clocked>>
      /\ sel' = sel /\ plan' = plan
  BY <1>2, OtherBoard
<1> USE <1>1 DEF hwVars, busVars, handle, app, Goto, Return, At, MainRuns, ClearFlags
<1>4. CASE n = "S" /\ Main("S")
  <2>1. SameBoard("M") /\ UNCHANGED <<phase, clocked>>
    BY <1>3, <1>4
  <2>2. /\ \/ StartCall("S") \/ EnableInterrupts("S") \/ i2c_wait_end("S") \/ NextRound("S")
           \/ SlaveListen \/ SlaveClearAddr
    BY <1>4, SlaveNeverFails
  <2>3. CASE SlaveClearAddr
    <3>1. /\ pc["S"] = "addr" /\ "ADDR7F" \in flags["S"]
          /\ "ADDR7F" \notin flags'["S"]
      BY <2>3 DEF SlaveClearAddr
    <3>2. sel /\ phase = "data"
      BY <3>1 DEF LockstepInv, SlaveLock, SlaveWire
    <3>3. pc["M"] \notin {"busy", "startf"}
      BY <3>2, NoCallInData
    <3>4. Served'
      BY <1>3, <3>1, <3>2 DEF Served
    <3>5. QED
      BY <2>1, <3>1, <3>2, <3>3, <3>4 DEF InvitedInv, SameBoard, SameNode, Returned
  <2>4. CASE StartCall("S") \/ EnableInterrupts("S") \/ i2c_wait_end("S") \/ NextRound("S") \/ SlaveListen
    <3>1. /\ pc["S"] # "addr" /\ flags' = flags /\ (SlaveOpen' => SlaveOpen)
          /\ SlaveOpen' => Size("S")' = Size("S")
      BY <1>3, <2>4 DEF StartCall, EnableInterrupts, i2c_wait_end, NextRound, SlaveListen, SlaveOpen,
         Size, MyRound
    <3>2. Served' = Served
      BY <1>3, <3>1 DEF Served
    <3>3. QED
      BY <2>1, <3>1, <3>2 DEF InvitedInv, SameBoard, SameNode, Returned
  <2>5. QED
    BY <2>2, <2>3, <2>4
<1>5. CASE n = "S" /\ Handler("S")
  <2>1. SameBoard("M") /\ UNCHANGED <<phase, clocked>>
    BY <1>3, <1>5
  <2>2. /\ UNCHANGED <<pc, round>> /\ flags'["S"] \cap {"ADDR7F"} = flags["S"] \cap {"ADDR7F"}
    BY <1>5 DEF Handler, i2c_evt_irq_handler, SlaveTxEnd, i2c_err_irq_handler, i2c_master_tx_isr_int,
       i2c_master_rx_isr_int, MasterRxTdc, MasterRxRdbf, i2c_slave_tx_isr_int, i2c_slave_rx_isr_int
  <2>3. status'["S"] \in {status["S"], "END"}
    BY <1>5 DEF Handler, i2c_evt_irq_handler, SlaveTxEnd, i2c_err_irq_handler, i2c_master_tx_isr_int,
       i2c_master_rx_isr_int, MasterRxTdc, MasterRxRdbf, i2c_slave_tx_isr_int, i2c_slave_rx_isr_int,
       TransferComplete
  <2>4. Served' = Served /\ (SlaveOpen' => SlaveOpen) /\ Size("S")' = Size("S")
    BY <1>3, <2>2, <2>3 DEF Served, SlaveOpen, Size, MyRound
  <2>5. QED
    BY <2>1, <2>2, <2>4 DEF InvitedInv, SameBoard, SameNode, Returned
<1>6. ASSUME n = "M", UNCHANGED clocked, flags'["M"] \subseteq flags["M"],
             (pc'["M"] \in {"busy", "startf"} \/ (pc'["M"] = "addr" /\ phase' = "addr"))
               => pc["S"] = "addr" /\ round["S"] = round["M"] /\ round'["M"] = round["M"],
             Returned("M")' => status'["M"] = "END",
             pc'["M"] # "addrfail"
      PROVE  InvitedInv'
  <2>1. SameBoard("S")
    BY <1>3, <1>6
  <2>2. Served' = Served /\ SlaveOpen' = SlaveOpen /\ Size("S")' = Size("S")
    BY <1>3, <2>1 DEF SameBoard, SameNode, Served, SlaveOpen, Size, MyRound
  <2>3. QED
    BY <1>6, <2>1, <2>2 DEF InvitedInv, SameBoard, SameNode
<1>7. CASE n = "M" /\ Main("M")
  <2>1. \/ StartCall("M") \/ EnableInterrupts("M") \/ i2c_wait_end("M") \/ NextRound("M")
        \/ MasterStart \/ MasterSendAddress \/ MasterClearAddr \/ MasterEv6Stop \/ MasterEv6Ack
    BY <1>2, <1>7, MasterWaits
  <2>2. CASE StartCall("M")
    <3>1. /\ pc["S"] = "addr" /\ round["S"] = round["M"] /\ pc'["M"] = "busy"
          /\ UNCHANGED <<clocked, flags, round>>
      BY <2>2 DEF StartCall
    <3>2. QED
      BY <1>6, <1>7, <3>1 DEF Returned
  <2>3. CASE MasterStart
    <3>1. /\ pc["M"] = "busy" /\ pc'["M"] = "startf" /\ UNCHANGED <<clocked, flags, round>>
      BY <2>3 DEF MasterStart
    <3>2. QED
      BY <1>6, <1>7, <3>1 DEF InvitedInv, Returned
  <2>4. CASE MasterSendAddress
    <3>1. /\ pc["M"] = "startf" /\ pc'["M"] = "addr" /\ flags'["M"] \subseteq flags["M"]
          /\ UNCHANGED <<clocked, round>>
      BY <2>4 DEF MasterSendAddress, i2c_7bit_address_send
    <3>2. QED
      BY <1>6, <1>7, <3>1 DEF InvitedInv, Returned
  <2>5. CASE MasterClearAddr \/ MasterEv6Stop \/ MasterEv6Ack \/ EnableInterrupts("M")
    <3>1. /\ pc'["M"] \in {"enable", "ev6stop", "ev6ack", "wait_end"}
          /\ flags'["M"] \subseteq flags["M"] /\ UNCHANGED clocked
      BY <2>5 DEF MasterClearAddr, MasterEv6Stop, MasterEv6Ack, EnableInterrupts
    <3>2. QED
      BY <1>6, <1>7, <3>1 DEF Returned
  <2>6. CASE i2c_wait_end("M") \/ NextRound("M")
    <3>1. /\ UNCHANGED <<clocked, flags>>
          /\ pc'["M"] \in {"idle", "done"} \/ (pc'["M"] = "returned" /\ status'["M"] = "END")
      BY <2>6 DEF SoundLine, i2c_wait_end, NextRound
    <3>2. QED
      BY <1>6, <1>7, <3>1 DEF Returned
  <2>7. QED
    BY <2>1, <2>2, <2>3, <2>4, <2>5, <2>6
<1>8. CASE n = "M" /\ Handler("M")
  <2>1. /\ UNCHANGED <<pc, round, phase, clocked>> /\ flags'["M"] \subseteq flags["M"]
        /\ status'["M"] \in {status["M"], "END"}
    <3>1. UNCHANGED <<pc, round>> /\ flags'["M"] \subseteq flags["M"]
      BY <1>8 DEF Handler, i2c_evt_irq_handler, SlaveTxEnd, i2c_err_irq_handler, i2c_master_tx_isr_int,
         i2c_master_rx_isr_int, MasterRxTdc, MasterRxRdbf, i2c_slave_tx_isr_int, i2c_slave_rx_isr_int
    <3>2. status'["M"] \in {status["M"], "END"}
      BY <1>8 DEF Handler, i2c_evt_irq_handler, SlaveTxEnd, i2c_err_irq_handler, i2c_master_tx_isr_int,
         i2c_master_rx_isr_int, MasterRxTdc, MasterRxRdbf, i2c_slave_tx_isr_int, i2c_slave_rx_isr_int,
         TransferComplete
    <3>3. QED
      BY <1>3, <1>8, <3>1, <3>2
  <2>2. QED
    BY <1>6, <1>8, <2>1 DEF InvitedInv, Returned
<1>9. QED
  BY <1>4, <1>5, <1>7, <1>8

(* Nor does the bus: the address is acknowledged, and the slave's last     *)
(* byte is the last of the frame.                                          *)
LEMMA InvitedBus ==
  ASSUME SizesMatch, TypeOK, HandleInv, MasterInv, MasterInv', LockstepInv, InvitedInv, Bus
  PROVE  InvitedInv'
<1>1. /\ flags \in [Node -> SUBSET Flags] /\ sel \in BOOLEAN /\ Node = {"M", "S"}
  BY DEF TypeOK, HwTypeOK, Node
<1>2. /\ UNCHANGED <<status, pc, plan, round, mode>>
      /\ InData' = InData /\ SlaveOpen' = SlaveOpen
      /\ \A n \in {"M", "S"} : Size(n)' = Size(n) /\ Returned(n)' = Returned(n)
  <2>1. Quiet
    BY DEF Bus
  <2>2. QED
    BY <2>1, QuietFacts DEF Node
<1>3. SlaveWire /\ (phase = "addr" => pc["M"] = "addr" /\ pc["S"] = "addr" /\ ~SlaveOpen)
  BY DEF LockstepInv, SlaveLock, MasterLock, MasterWire, MasterInv, StartInv, InvitedInv, SlaveOpen
<1>4. CASE HwStart
  <2>1. /\ phase = "free" /\ phase' = "start" /\ sel' = FALSE /\ clocked' = clocked
        /\ flags'["M"] = flags["M"] \cup {"BUSYF", "STARTF"} /\ flags'["S"] = flags["S"] \cup {"BUSYF"}
    BY <1>1, <1>4 DEF HwStart, MasterInv, FlagInv
  <2>2. ~Served
    BY <1>3, <2>1 DEF Served, SlaveWire
  <2>3. QED
    BY <1>2, <2>1, <2>2 DEF InvitedInv
<1>5. CASE HwAddrAck
  <2>1. /\ phase = "addr" /\ phase' = "data"
        /\ flags'["M"] = flags["M"] \cup {"ADDR7F"} /\ flags'["S"] = flags["S"] \cup {"ADDR7F"}
    BY <1>1, <1>5 DEF HwAddrAck
  <2>2. QED
    BY <1>2, <1>3, <2>1 DEF InvitedInv
<1>6. ~HwAddrNack
  BY <1>3 DEF HwAddrNack, SlaveWire
<1>7. CASE HwWriteByte(FALSE)
  <2>1. phase = "data" /\ ~SlaveStretches
    BY <1>7 DEF HwWriteByte
  <2>2. sel /\ "ACKEN" \in ctrl["S"] /\ "ADDR7F" \notin flags["S"]
    BY <1>3, <2>1 DEF SlaveWire, SlaveStretches
  <2>3. UNCHANGED <<flags, phase, sel>>
    BY <1>7, <2>2 DEF HwWriteByte
  <2>4. Served'
    BY <2>2, <2>3 DEF Served
  <2>5. QED
    BY <1>2, <2>3, <2>4 DEF InvitedInv
<1>8. CASE HwReadByte
  <2>1. /\ phase = "data" /\ dir = "read" /\ "ADDR7F" \notin flags["M"] /\ ~SlaveStretches
        /\ phase' \in {"data", "closing"}
    BY <1>8 DEF HwReadByte, HwReadByteAck
  <2>2. sel /\ "ADDR7F" \notin flags["S"] /\ Served
    BY <1>3, <2>1 DEF SlaveWire, SlaveStretches, Served
  <2>3. /\ flags'["M"] = flags["M"] /\ ("ADDR7F" \in flags'["S"] => "ADDR7F" \in flags["S"])
        /\ ~MasterAcks => phase' = "closing"
        /\ MasterAcks => sel'
    BY <1>1, <1>8, <2>2 DEF HwReadByte, HwReadByteAck
  <2>4. ASSUME ~Served'
        PROVE  clocked' = Size("S")
    <3>1. phase' = "closing"
      BY <2>2, <2>3, <2>4 DEF Served
    <3>2. InData /\ mode["M"] = "I2C_INT_MA_RX" /\ FrameRound = round["M"]
      BY <2>1, ReadFrame
    <3>3. clocked' = Size("M")
      BY <1>2, <3>1, <3>2 DEF MasterInv, ReadInv, ReadExact
    <3>4. Size("S") = plan[round["M"]].M
      BY <2>2, <3>2, ServedRound
    <3>5. QED
      BY <3>3, <3>4 DEF Size, MyRound
  <2>5. QED
    BY <1>2, <2>1, <2>3, <2>4 DEF InvitedInv
<1>9. CASE HwStop
  <2>1. /\ phase' = "free" /\ UNCHANGED clocked
        /\ flags'["M"] \subseteq flags["M"] /\ ("ADDR7F" \in flags'["S"] => "ADDR7F" \in flags["S"])
    BY <1>1, <1>9 DEF HwStop
  <2>2. phase = "data" => clocked = Size("S")
    BY <1>9, StopInData
  <2>3. phase # "data" => ~Served
    BY <1>3 DEF SlaveWire, Served
  <2>4. QED
    BY <1>2, <2>1, <2>2, <2>3 DEF InvitedInv
<1>10. QED
  BY <1>4, <1>5, <1>6, <1>7, <1>8, <1>9, NoOverrun DEF Bus

LEMMA InvitedInit == Init => InvitedInv
<1> SUFFICES ASSUME Init PROVE InvitedInv
  OBVIOUS
<1>1. pc["M"] = "idle" /\ pc["S"] = "idle" /\ flags["M"] = {} /\ flags["S"] = {}
  BY DEF Init, HwInit, Node
<1>2. QED
  BY <1>1 DEF InvitedInv, Returned, SlaveOpen

LEMMA InvitedNext ==
  ASSUME SoundLine, SizesMatch, SlaveFirst, IInv, IInv', LockstepInv, InvitedInv, [Next]_vars
  PROVE  InvitedInv'
<1>1. TypeOK /\ HandleInv /\ MasterInv /\ MasterInv'
  BY DEF IInv
<1>2. ASSUME NEW n \in Node, Main(n) \/ Handler(n)
      PROVE  InvitedInv'
  BY <1>1, <1>2, InvitedSoftware
<1>3. CASE Bus
  BY <1>1, <1>3, InvitedBus
<1>4. ~Fault
  <2>1. faults \in Nat /\ MaxFaults = 0
    BY <1>1 DEF SoundLine, TypeOK, SwTypeOK
  <2>2. ~(faults < MaxFaults)
    BY <2>1
  <2>3. QED
    BY <2>2 DEF Fault
<1>5. CASE UNCHANGED vars
  BY <1>5 DEF vars, hwVars, handle, app, InvitedInv, Returned, SlaveOpen, Served, Size, MyRound
<1>6. QED
  BY <1>2, <1>3, <1>4, <1>5 DEF Next

(***************************************************************************)
(* I2CTransfer: the rounds that the handles report over.                   *)
(***************************************************************************)

(* The script and the count of bytes moved, as ReliableTransfer maps them. *)
Script == [k \in DOMAIN plan |-> [op |-> plan[k].op, size |-> plan[k].S]]

InRound == IF Addressed THEN clocked ELSE 0

LEMMA ScriptFacts ==
  ASSUME plan \in Plans
  PROVE  /\ Script \in Seq([op : {"write", "read"}, size : Nat]) /\ Len(Script) = Len(plan)
         /\ \A k \in 1 .. Len(plan) : Script[k].op = plan[k].op /\ Script[k].size = plan[k].S
<1>1. plan \in Seq(Round) /\ UInt16 \subseteq Nat
  BY PlansAssumption DEF UInt16
<1>2. \A k \in 1 .. Len(plan) : [op |-> plan[k].op, size |-> plan[k].S] \in [op : {"write", "read"}, size : Nat]
  <2>1. ASSUME NEW k \in 1 .. Len(plan)
        PROVE  plan[k].op \in {"write", "read"} /\ plan[k].S \in Nat
    <3>1. plan[k] \in Round
      BY <1>1
    <3>2. QED
      BY <1>1, <3>1 DEF Round
  <2>2. QED
    BY <2>1
<1>3. Script \in [1 .. Len(plan) -> [op : {"write", "read"}, size : Nat]]
  BY <1>1, <1>2 DEF Script
<1>4. QED
  BY <1>1, <1>3 DEF Script

(* The three steps of I2CTransfer, in terms of the handles.                *)
LEMMA AsStutter ==
  ASSUME UNCHANGED plan, Ended("M")' = Ended("M"), Ended("S")' = Ended("S"), InRound' = InRound
  PROVE  UNCHANGED Transfer!vars
<1>1. Script' = Script
  BY DEF Script
<1>2. QED
  BY <1>1 DEF Transfer!vars, Script, InRound

LEMMA AsMoveByte ==
  ASSUME plan \in Plans, UNCHANGED plan, NEW k \in 1 .. Len(plan),
         Ended("S") = k - 1, Ended("S") <= Ended("M"), InRound < plan[k].S,
         Ended("M")' = Ended("M"), Ended("S")' = Ended("S"), InRound' = InRound + 1
  PROVE  Transfer!Next
<1>1. /\ Script' = Script /\ Len(Script) = Len(plan) /\ Script[k].size = plan[k].S
      /\ Ended("S") + 1 = k /\ Ended("S") < Len(Script)
  BY ScriptFacts DEF Script
<1>2. Transfer!MoveByte
  BY <1>1 DEF Transfer!MoveByte, Transfer!Current, Script, InRound
<1>3. QED
  BY <1>2 DEF Transfer!Next

LEMMA AsMasterEnds ==
  ASSUME plan \in Plans, UNCHANGED plan, NEW k \in 1 .. Len(plan), Ended("M") = k - 1,
         \/ Ended("S") = k
         \/ /\ Ended("S") = k - 1
            /\ InRound + (IF plan[k].op = "write" THEN 1 ELSE 0) >= plan[k].S,
         Ended("M")' = Ended("M") + 1, Ended("S")' = Ended("S"), InRound' = InRound
  PROVE  Transfer!Next
<1>1. /\ Script' = Script /\ Len(Script) = Len(plan)
      /\ Script[k].size = plan[k].S /\ Script[k].op = plan[k].op
  BY ScriptFacts DEF Script
<1>2. CASE Ended("S") = k
  <2>1. Ended("M") < Ended("S")
    BY <1>2
  <2>2. Transfer!MasterEnds
    BY <1>1, <2>1 DEF Transfer!MasterEnds, Script, InRound
  <2>3. QED
    BY <2>2 DEF Transfer!Next
<1>3. CASE Ended("S") = k - 1 /\ InRound + (IF plan[k].op = "write" THEN 1 ELSE 0) >= plan[k].S
  <2>1. Ended("S") + 1 = k /\ Ended("S") < Len(Script) /\ Ended("M") = Ended("S")
    BY <1>1, <1>3
  <2>2. Transfer!Current = Script[k]
    BY <2>1 DEF Transfer!Current, Script
  <2>3. InRound + Transfer!Early >= Transfer!Current.size
    BY <1>1, <1>3, <2>2 DEF Transfer!Early
  <2>4. Transfer!MasterEnds
    BY <1>1, <2>1, <2>3 DEF Transfer!MasterEnds, Script, InRound
  <2>5. QED
    BY <2>4 DEF Transfer!Next
<1>4. QED
  BY <1>2, <1>3

LEMMA AsSlaveEnds ==
  ASSUME plan \in Plans, UNCHANGED plan, NEW k \in 1 .. Len(plan),
         Ended("S") = k - 1, InRound = plan[k].S,
         Ended("M")' = Ended("M"), Ended("S")' = Ended("S") + 1, InRound' = 0
  PROVE  Transfer!Next
<1>1. /\ Script' = Script /\ Len(Script) = Len(plan) /\ Script[k].size = plan[k].S
      /\ Ended("S") + 1 = k /\ Ended("S") < Len(Script)
  BY ScriptFacts DEF Script
<1>2. Transfer!SlaveEnds
  BY <1>1 DEF Transfer!SlaveEnds, Transfer!Current, Script, InRound
<1>3. QED
  BY <1>2 DEF Transfer!Next

TransferStep == Transfer!Next \/ UNCHANGED Transfer!vars

(* The slave's handle reports the end of the round whose bytes have moved. *)
LEMMA SlaveRefines ==
  ASSUME SoundLine, TypeOK, HandleInv, InterruptInv, LockstepInv, InvitedInv,
         Main("S") \/ Handler("S")
  PROVE  TransferStep
<1>1. "S" \in Node /\ "M" \in Node /\ "M" # "S"
  BY DEF Node
<1>2. SameBoard("M") /\ UNCHANGED <<phase, clocked, plan>>
  BY <1>1, OtherBoard
<1>3. Ended("M")' = Ended("M")
  BY <1>2 DEF SameBoard, SameNode, Ended, InCall
<1>4. /\ pc \in [Node -> MainPc] /\ flags \in [Node -> SUBSET Flags] /\ plan \in Plans
      /\ status \in [Node -> {"START", "END"}] /\ round \in [Node -> Nat \ {0}]
      /\ mode \in [Node -> Modes] /\ isr \in [Node -> {"none", "ackfail"}]
  BY DEF TypeOK, HwTypeOK, SwTypeOK
<1>5. ASSUME Ended("S")' = Ended("S"), Addressed' = Addressed
      PROVE  TransferStep
  <2>1. InRound' = InRound
    BY <1>2, <1>5 DEF InRound
  <2>2. QED
    BY <1>2, <1>3, <1>5, <2>1, AsStutter DEF TransferStep
<1>6. CASE Main("S")
  <2>1. \/ StartCall("S") \/ EnableInterrupts("S") \/ i2c_wait_end("S") \/ NextRound("S")
        \/ SlaveListen \/ SlaveClearAddr
    BY <1>6, SlaveNeverFails
  <2> USE <1>1, <1>4 DEF hwVars, busVars, handle, app, Goto, Return, At, MainRuns, ClearFlags
  <2>2. CASE StartCall("S")
    <3>1. /\ pc["S"] = "idle" /\ pc'["S"] = "busy" /\ status'["S"] = "START" /\ UNCHANGED round
      BY <2>2 DEF StartCall
    <3>2. QED
      BY <1>5, <3>1 DEF Ended, Addressed, InCall
  <2>3. CASE SlaveListen
    <3>1. /\ pc["S"] = "busy" /\ pc'["S"] = "addr" /\ UNCHANGED <<flags, status, round>>
      BY <2>3 DEF SlaveListen
    <3>2. "ADDR7F" \notin flags["S"]
      BY <3>1 DEF InvitedInv
    <3>3. QED
      BY <1>5, <3>1, <3>2 DEF Ended, Addressed, InCall
  <2>4. CASE SlaveClearAddr
    <3>1. /\ pc["S"] = "addr" /\ pc'["S"] = "enable" /\ "ADDR7F" \in flags["S"] /\ UNCHANGED <<status, round>>
      BY <2>4 DEF SlaveClearAddr
    <3>2. QED
      BY <1>5, <3>1 DEF Ended, Addressed, InCall
  <2>5. CASE EnableInterrupts("S")
    <3>1. /\ pc["S"] = "enable" /\ pc'["S"] = "wait_end" /\ UNCHANGED <<flags, status, round>>
      BY <2>5 DEF EnableInterrupts
    <3>2. QED
      BY <1>5, <3>1 DEF Ended, Addressed, InCall
  <2>6. CASE i2c_wait_end("S")
    <3>1. /\ pc["S"] = "wait_end" /\ pc'["S"] = "returned" /\ status["S"] = "END"
          /\ UNCHANGED <<flags, status, round>>
      BY <2>6 DEF i2c_wait_end, SoundLine
    <3>2. QED
      BY <1>5, <3>1 DEF Ended, Addressed, InCall
  <2>7. CASE NextRound("S")
    <3>1. /\ pc["S"] = "returned" /\ pc'["S"] \in {"idle", "done"} /\ round'["S"] = round["S"] + 1
      BY <2>7 DEF NextRound
    <3>2. status["S"] = "END"
      BY <2>7 DEF HandleInv, HandleOf, NextRound
    <3>3. Ended("S") = round["S"] - 0 /\ Ended("S")' = round'["S"] - 1 /\ round["S"] \in Nat
      BY <3>1, <3>2 DEF Ended, InCall
    <3>4. Ended("S")' = Ended("S") /\ Addressed' = Addressed
      BY <3>1, <3>2, <3>3 DEF Addressed, InCall
    <3>5. QED
      BY <1>5, <3>4
  <2>8. QED
    BY <2>1, <2>2, <2>3, <2>4, <2>5, <2>6, <2>7
<1>7. CASE Handler("S")
  <2>1. ints["S"] # {} \/ isr["S"] # "none"
    BY <1>7 DEF Handler, i2c_evt_irq_handler, i2c_err_irq_handler, SlaveTxEnd, EvtRequest, ErrRequest
  <2>2. HandlersTurn("S") /\ mode["S"] = ModeOf("S")
    BY <1>1, <2>1, HandlerContext
  <2>3. pc["S"] = "wait_end" /\ status["S"] = "START" /\ InCall("S") /\ SlaveOpen
    BY <2>2 DEF HandlersTurn, LockstepInv, SlaveLock, CallOf, Returned, InCall, SlaveOpen
  <2>4. /\ UNCHANGED <<pc, round>> /\ flags'["S"] \cap {"ADDR7F"} = flags["S"] \cap {"ADDR7F"}
    BY <1>1, <1>4, <1>7 DEF Handler, i2c_evt_irq_handler, SlaveTxEnd, i2c_err_irq_handler,
       i2c_master_tx_isr_int, i2c_master_rx_isr_int, MasterRxTdc, MasterRxRdbf, i2c_slave_tx_isr_int,
       i2c_slave_rx_isr_int, ClearFlags, handle, app
  <2>5. CASE status'["S"] = "START"
    BY <1>5, <2>3, <2>4, <2>5 DEF Ended, Addressed, InCall
  <2>6. CASE status'["S"] # "START"
    <3>1. flags["S"] \cap {"STOPF", "ACKFAIL"} # {} /\ status'["S"] = "END"
      <4>1. CASE SlaveTxEnd("S")
        BY <1>1, <1>4, <4>1 DEF SlaveTxEnd, SoundLine
      <4>2. CASE i2c_err_irq_handler("S")
        BY <2>3, <2>6, <4>2 DEF i2c_err_irq_handler
      <4>3. CASE i2c_evt_irq_handler("S")
        <5>1. mode["S"] \notin {"I2C_INT_MA_TX", "I2C_INT_MA_RX"}
          BY <1>1, <2>2 DEF ModeOf
        <5>2. i2c_slave_tx_isr_int("S") \/ i2c_slave_rx_isr_int("S")
          BY <4>3, <5>1 DEF i2c_evt_irq_handler
        <5>3. ~i2c_slave_tx_isr_int("S")
          BY <2>3, <2>6 DEF i2c_slave_tx_isr_int
        <5>4. QED
          BY <1>1, <1>4, <2>3, <2>6, <5>2, <5>3 DEF i2c_slave_rx_isr_int, TransferComplete
      <4>4. QED
        BY <1>7, <4>1, <4>2, <4>3 DEF Handler
    <3>2. ~Served
      BY <3>1 DEF LockstepInv, SlaveLock, LatchInv
    <3>3. clocked = Size("S")
      BY <2>3, <3>2 DEF InvitedInv
    <3>4. InRound = plan[round["S"]].S
      BY <1>1, <2>3, <3>3 DEF InRound, Addressed, SlaveOpen, Size, MyRound
    <3>5. /\ Ended("S") = round["S"] - 1 /\ Ended("S")' = round["S"] - 0
          /\ round["S"] \in 1 .. Len(plan) /\ InRound' = 0
      BY <1>1, <1>4, <2>3, <2>4, <3>1 DEF Ended, InCall, InRound, Addressed, HandleInv, HandleOf
    <3>6. Ended("S")' = Ended("S") + 1
      BY <3>5
    <3>7. QED
      BY <1>2, <1>3, <1>4, <3>4, <3>5, <3>6, AsSlaveEnds DEF TransferStep
  <2>7. QED
    BY <2>5, <2>6
<1>8. QED
  BY <1>6, <1>7

(* The master's handle reports the end of a read after its last byte, of a *)
(* write when at most one byte has still to move.                          *)
LEMMA MasterRefines ==
  ASSUME SoundLine, SizesMatch, TypeOK, HandleInv, InterruptInv, MasterInv, MasterInv',
         LockstepInv, InvitedInv, Main("M") \/ Handler("M")
  PROVE  TransferStep
<1>1. "S" \in Node /\ "M" \in Node /\ "M" # "S"
  BY DEF Node
<1>2. ~i2c_config("S") /\ ~i2c_config("M")
  BY NeverRefused DEF LockstepInv, SlaveLock, CallOf, Returned, i2c_config, At
<1>3. SameBoard("S") /\ UNCHANGED <<sel, plan>>
  BY <1>1, <1>2, OtherBoard
<1>4. /\ pc \in [Node -> MainPc] /\ flags \in [Node -> SUBSET Flags] /\ plan \in Plans
      /\ status \in [Node -> {"START", "END"}] /\ round \in [Node -> Nat \ {0}]
      /\ clocked \in Nat /\ tx \in [Node -> Seq(Byte)]
      /\ pbuff \in [Node -> Nat] /\ pcount \in [Node -> Nat]
  BY DEF TypeOK, HwTypeOK, SwTypeOK, UInt16
<1>5. Ended("S")' = Ended("S") /\ Addressed' = Addressed
  BY <1>3 DEF SameBoard, SameNode, Ended, InCall, Addressed
<1>6. ASSUME Ended("M")' = Ended("M"), clocked' = clocked
      PROVE  TransferStep
  <2>1. InRound' = InRound
    BY <1>5, <1>6 DEF InRound
  <2>2. QED
    BY <1>3, <1>5, <1>6, <2>1, AsStutter DEF TransferStep
<1>7. CASE Main("M")
  <2>1. \/ StartCall("M") \/ EnableInterrupts("M") \/ i2c_wait_end("M") \/ NextRound("M")
        \/ MasterStart \/ MasterSendAddress \/ MasterClearAddr \/ MasterEv6Stop \/ MasterEv6Ack
    BY <1>2, <1>7, MasterWaits, NeverRefused
  <2> USE <1>1, <1>4 DEF hwVars, busVars, handle, app, Goto, Return, At, MainRuns
  <2>2. CASE StartCall("M")
    <3>1. /\ pc["M"] = "idle" /\ pc'["M"] = "busy" /\ status'["M"] = "START" /\ UNCHANGED <<round, clocked>>
      BY <2>2 DEF StartCall
    <3>2. QED
      BY <1>6, <3>1 DEF Ended, InCall
  <2>3. CASE NextRound("M")
    <3>1. /\ pc["M"] = "returned" /\ pc'["M"] \in {"idle", "done"} /\ round'["M"] = round["M"] + 1
          /\ UNCHANGED clocked
      BY <2>3 DEF NextRound
    <3>2. status["M"] = "END"
      BY <2>3 DEF HandleInv, HandleOf, NextRound
    <3>3. Ended("M") = round["M"] - 0 /\ Ended("M")' = round'["M"] - 1 /\ round["M"] \in Nat
      BY <3>1, <3>2 DEF Ended, InCall
    <3>4. Ended("M")' = Ended("M")
      BY <3>1, <3>3
    <3>5. QED
      BY <1>6, <3>1, <3>4
  <2>4. CASE \/ EnableInterrupts("M") \/ i2c_wait_end("M")
             \/ MasterStart \/ MasterSendAddress \/ MasterClearAddr \/ MasterEv6Stop \/ MasterEv6Ack
    <3>1. /\ pc["M"] \notin {"idle", "done"} /\ pc'["M"] \notin {"idle", "done"}
          /\ UNCHANGED <<status, round, clocked>>
      BY <2>4 DEF EnableInterrupts, i2c_wait_end, MasterStart, MasterSendAddress, MasterClearAddr,
         MasterEv6Stop, MasterEv6Ack
    <3>2. QED
      BY <1>6, <3>1 DEF Ended, InCall
  <2>5. QED
    BY <2>1, <2>2, <2>3, <2>4
<1>8. CASE Handler("M")
  <2>1. UNCHANGED <<phase, dir, clocked>>
    BY <1>1, <1>8, OtherBoard
  <2>2. ints["M"] # {} \/ isr["M"] # "none"
    BY <1>8 DEF Handler, i2c_evt_irq_handler, i2c_err_irq_handler, SlaveTxEnd, EvtRequest, ErrRequest
  <2>3. HandlersTurn("M") /\ mode["M"] = ModeOf("M") /\ BoundsOf("M")
    BY <1>1, <2>2, HandlerContext
  <2>4. pc["M"] = "wait_end" /\ status["M"] = "START" /\ InCall("M") /\ InData
    BY <2>3 DEF HandlersTurn, LockstepInv, MasterLock, CallOf, Returned, InCall, InData
  <2>5. /\ UNCHANGED <<pc, round, mode>>
    BY <1>8 DEF Handler, i2c_evt_irq_handler, SlaveTxEnd, i2c_err_irq_handler, handle, app,
       i2c_master_tx_isr_int, i2c_master_rx_isr_int, MasterRxTdc, MasterRxRdbf, i2c_slave_tx_isr_int,
       i2c_slave_rx_isr_int
  <2>6. CASE status'["M"] = "START"
    BY <1>6, <2>1, <2>4, <2>5, <2>6 DEF Ended, InCall
  <2>7. CASE status'["M"] # "START"
    <3> DEFINE k == round["M"]
    <3>1. k \in 1 .. Len(plan) /\ k \in Nat /\ plan[k].M = plan[k].S
      BY <1>1, <1>4, <2>4 DEF HandleInv, HandleOf, SizesMatch
    <3>2. Size("M") = plan[k].S /\ Size("M") \in Nat
      BY <2>4, <3>1, CallSize DEF Size, MyRound
    <3>3. FrameRound = k
      BY <2>4 DEF FrameRound
    <3>4. status'["M"] = "END" /\ (mode["M"] = "I2C_INT_MA_RX" \/ i2c_master_tx_isr_int("M"))
      <4>1. ~SlaveTxEnd("M") /\ ~i2c_err_irq_handler("M")
        BY <1>1, <1>4, <2>2, <2>4, <2>7 DEF SlaveTxEnd, i2c_err_irq_handler, InterruptInv, InterruptOf
      <4>2. i2c_evt_irq_handler("M")
        BY <1>8, <4>1 DEF Handler
      <4>3. mode["M"] = "I2C_INT_MA_RX" \/ i2c_master_tx_isr_int("M")
        BY <1>1, <2>3, <4>2 DEF i2c_evt_irq_handler, ModeOf
      <4>4. status'["M"] \in {status["M"], "END"}
        BY <1>1, <1>4, <4>2 DEF i2c_evt_irq_handler, i2c_master_tx_isr_int, i2c_master_rx_isr_int, MasterRxTdc,
           MasterRxRdbf, i2c_slave_tx_isr_int, i2c_slave_rx_isr_int, TransferComplete
      <4>5. QED
        BY <2>4, <2>7, <4>3, <4>4
    <3>5. Ended("M") = k - 1 /\ Ended("M")' = k - 0
      BY <2>4, <2>5, <3>4 DEF Ended, InCall
    <3>6. Ended("M")' = Ended("M") + 1 /\ InRound' = InRound
      BY <1>5, <2>1, <3>1, <3>5 DEF InRound
    <3>7. \/ Ended("S") = k
          \/ /\ Ended("S") = k - 1
             /\ InRound + (IF plan[k].op = "write" THEN 1 ELSE 0) >= plan[k].S
      <4>1. CASE mode["M"] = "I2C_INT_MA_RX"
        <5>1. clocked' = Size("M")'
          BY <2>4, <2>5, <3>4, <4>1 DEF MasterInv, EndInv, ReadExact, InCall
        <5>2. clocked = Size("M")
          BY <1>3, <2>1, <2>5, <5>1 DEF Size, MyRound
        <5>3. phase # "data"
          BY <1>4, <2>4, <3>2, <4>1, <5>2 DEF MasterInv, ReadInv
        <5>4. Moved = k
          BY <2>4, <4>1, <5>3 DEF Moved
        <5>5. CASE ~(SlaveOpen /\ ~Served)
          BY <5>4, <5>5 DEF LockstepInv, RoundInv
        <5>6. CASE SlaveOpen /\ ~Served
          <6>1. Ended("S") = k - 1
            BY <5>4, <5>6 DEF LockstepInv, RoundInv
          <6>2. Addressed
            BY <5>6 DEF SlaveOpen, Addressed, InCall
          <6>3. InRound = plan[k].S
            BY <3>2, <5>2, <6>2 DEF InRound
          <6>4. QED
            BY <3>1, <3>2, <6>1, <6>3
        <5>7. QED
          BY <5>5, <5>6
      <4>2. CASE i2c_master_tx_isr_int("M") /\ mode["M"] # "I2C_INT_MA_RX"
        <5>1. TDBE("M") /\ pcount["M"] = 0
          BY <2>4, <2>7, <4>2 DEF i2c_master_tx_isr_int
        <5>2. phase = "data" /\ dir = "write" /\ Len(tx["M"]) < 2
          BY <5>1 DEF TDBE, Transmitting
        <5>3. pbuff["M"] = Size("M") /\ Posted = pbuff["M"]
          BY <1>1, <1>4, <2>3, <2>4, <3>2, <5>1 DEF BoundsOf, Posted
        <5>4. clocked <= Size("M") /\ tx["M"] = Pieces(k, clocked, Size("M"))
          BY <3>3, <5>2, <5>3 DEF LockstepInv, MasterLock, MasterSends
        <5>5. Len(tx["M"]) = Size("M") - clocked
          <6> HIDE DEF k
          <6>1. k \in Nat /\ clocked \in Nat /\ Size("M") \in Nat /\ clocked <= Size("M")
            BY <1>4, <3>1, <3>2, <5>4
          <6>2. Len(Pieces(k, clocked, Size("M"))) = Size("M") - clocked
            BY <6>1, PiecesType
          <6>3. QED
            BY <5>4, <6>2
        <5>6. clocked + 1 >= plan[k].S
          BY <1>4, <3>2, <5>2, <5>5
        <5>7. plan[k].op = "write"
          BY <3>3, <5>2 DEF LockstepInv, MasterLock, MasterWire
        <5>8. sel /\ Moved = k - 1
          BY <3>3, <5>2 DEF LockstepInv, SlaveLock, SlaveWire, Moved
        <5>9. ~(SlaveOpen /\ ~Served) /\ Addressed
          <6>1. CASE "ADDR7F" \in flags["S"]
            <7>1. pc["S"] = "addr"
              BY <6>1 DEF InvitedInv
            <7>2. status["S"] = "START"
              BY <1>1, <7>1 DEF HandleInv, HandleOf
            <7>3. QED
              BY <6>1, <7>1, <7>2 DEF SlaveOpen, Addressed, InCall
          <6>2. CASE "ADDR7F" \notin flags["S"]
            BY <5>8, <6>2 DEF Served, LockstepInv, RoundInv, SlaveOpen, Addressed, InCall
          <6>3. QED
            BY <6>1, <6>2
        <5>10. Ended("S") = k - 1
          BY <5>8, <5>9 DEF LockstepInv, RoundInv
        <5>11. InRound = clocked
          BY <5>9 DEF InRound
        <5>12. QED
          BY <5>6, <5>7, <5>10, <5>11
      <4>3. QED
        BY <3>4, <4>1, <4>2
    <3>8. QED
      BY <1>3, <1>4, <1>5, <3>1, <3>5, <3>6, <3>7, AsMasterEnds DEF TransferStep
  <2>8. QED
    BY <2>6, <2>7
<1>9. QED
  BY <1>7, <1>8

(* While bytes move, the master has ended the round of the frame or is     *)
(* about to.                                                               *)
LEMMA MasterKeepsUp ==
  ASSUME TypeOK, HandleInv
  PROVE  Ended("M") = FrameRound \/ Ended("M") = FrameRound - 1
<1>1. round["M"] \in Nat /\ status["M"] \in {"START", "END"} /\ "M" \in Node
  BY DEF TypeOK, SwTypeOK, Node
<1>2. CASE pc["M"] \in {"idle", "done"}
  BY <1>2 DEF Ended, InCall, FrameRound
<1>3. CASE pc["M"] = "busy"
  <2>1. status["M"] = "START"
    BY <1>1, <1>3 DEF HandleInv, HandleOf
  <2>2. QED
    BY <1>3, <2>1 DEF Ended, FrameRound
<1>4. CASE pc["M"] \notin {"idle", "done", "busy"}
  <2>1. FrameRound = round["M"]
    BY <1>4 DEF FrameRound
  <2>2. Ended("M") = round["M"] - 0 \/ Ended("M") = round["M"] - 1
    BY <1>1 DEF Ended
  <2>3. QED
    BY <1>1, <2>1, <2>2
<1>5. QED
  BY <1>2, <1>3, <1>4

(* A byte on the bus is a byte of the slave's round; nothing else that the *)
(* bus does is seen by the abstract transfer.                              *)
LEMMA BusRefines ==
  ASSUME SizesMatch, TypeOK, HandleInv, MasterInv, LockstepInv, InvitedInv, Bus
  PROVE  TransferStep
<1>1. /\ flags \in [Node -> SUBSET Flags] /\ Node = {"M", "S"} /\ plan \in Plans
      /\ clocked \in Nat /\ pbuff \in [Node -> Nat] /\ pcount \in [Node -> Nat]
      /\ round \in [Node -> Nat \ {0}]
  BY DEF TypeOK, HwTypeOK, SwTypeOK, Node, UInt16
<1>2. /\ UNCHANGED <<status, pc, plan, round, mode>>
      /\ SlaveOpen' = SlaveOpen
      /\ Ended("M")' = Ended("M") /\ Ended("S")' = Ended("S")
  <2>1. Quiet
    BY DEF Bus
  <2>2. QED
    BY <2>1, QuietFacts DEF Node
<1>3. MasterWire /\ MasterSends /\ SlaveWire
  BY DEF LockstepInv, MasterLock, SlaveLock
<1>4. ASSUME UNCHANGED clocked, "ADDR7F" \in flags'["S"] <=> "ADDR7F" \in flags["S"]
      PROVE  TransferStep
  <2>1. InRound' = InRound
    BY <1>2, <1>4 DEF InRound, Addressed, InCall
  <2>2. QED
    BY <1>2, <2>1, AsStutter DEF TransferStep
<1>5. CASE HwStart
  BY <1>1, <1>4, <1>5 DEF HwStart
<1>6. CASE HwStop
  BY <1>1, <1>4, <1>6 DEF HwStop
<1>7. CASE HwAddrAck
  <2>1. phase = "addr" /\ clocked' = 0
    BY <1>7 DEF HwAddrAck
  <2>2. pc["S"] = "addr" /\ ~sel
    BY <1>3, <2>1 DEF MasterWire, InvitedInv, SlaveWire
  <2>3. ~Addressed
    BY <1>3, <2>2 DEF Addressed, SlaveWire
  <2>4. InRound' = InRound
    BY <2>1, <2>3 DEF InRound
  <2>5. QED
    BY <1>2, <2>4, AsStutter DEF TransferStep
<1>8. ~HwAddrNack
  <2>1. phase = "addr" => pc["S"] = "addr"
    BY <1>3 DEF MasterWire, MasterInv, StartInv, InvitedInv
  <2>2. QED
    BY <1>3, <2>1 DEF HwAddrNack, SlaveWire
<1> DEFINE k == FrameRound
<1>9. ASSUME phase = "data", ~SlaveStretches, clocked' = clocked + 1,
             clocked < plan[k].M, "ADDR7F" \in flags'["S"] <=> "ADDR7F" \in flags["S"]
      PROVE  TransferStep
  <2>1. sel /\ "ADDR7F" \notin flags["S"] /\ Served
    BY <1>3, <1>9 DEF SlaveWire, SlaveStretches, Served
  <2>2. k \in 1 .. Len(plan) /\ SlaveOpen /\ plan[k].M = plan[k].S
    BY <1>1, <2>1, ServedRound DEF SizesMatch
  <2>3. Ended("S") = k - 1
    BY <1>9, <2>1 DEF LockstepInv, RoundInv, Moved
  <2>4. Ended("S") <= Ended("M")
    BY <2>2, <2>3, MasterKeepsUp
  <2>5. Addressed /\ Addressed'
    BY <1>2, <2>2 DEF SlaveOpen, Addressed, InCall
  <2>6. InRound < plan[k].S /\ InRound' = InRound + 1
    BY <1>9, <2>2, <2>5 DEF InRound
  <2>7. QED
    BY <1>1, <1>2, <2>2, <2>3, <2>4, <2>6, AsMoveByte DEF TransferStep
<1>10. CASE HwWriteByte(FALSE)
  <2>1. phase = "data" /\ dir = "write" /\ tx["M"] # <<>> /\ ~SlaveStretches /\ clocked' = clocked + 1
    BY <1>10 DEF HwWriteByte
  <2>2. sel /\ "ACKEN" \in ctrl["S"] /\ Served
    BY <1>3, <2>1 DEF SlaveWire, SlaveStretches, Served
  <2>3. UNCHANGED flags
    BY <1>10, <2>2 DEF HwWriteByte
  <2>4. k \in 1 .. Len(plan) /\ plan[k].M \in Nat
    BY <2>2, ServedRound
  <2>5. Posted <= plan[k].M /\ Posted \in Nat
    <3>1. CASE pc["M"] \notin {"idle", "busy", "done"} /\ status["M"] = "START"
      <4>1. BoundsOf("M") /\ k = round["M"]
        BY <1>1, <3>1 DEF HandleInv, HandleOf, InCall, FrameRound
      <4>2. pbuff["M"] + pcount["M"] = plan[k].M /\ pbuff["M"] \in Nat /\ pcount["M"] \in Nat
        BY <1>1, <4>1 DEF BoundsOf, Size, MyRound
      <4>3. QED
        BY <2>4, <3>1, <4>2 DEF Posted
    <3>2. CASE ~(pc["M"] \notin {"idle", "busy", "done"} /\ status["M"] = "START")
      <4>1. Posted = plan[k].M
        BY <3>2 DEF Posted
      <4>2. QED
        BY <2>4, <4>1
    <3>3. QED
      BY <3>1, <3>2
  <2>6. clocked < Posted
    <3>1. clocked <= Posted /\ Pieces(k, clocked, Posted) # <<>> /\ k \in Nat
      BY <1>3, <2>1, <2>4 DEF MasterSends
    <3> HIDE DEF k
    <3>2. Pieces(k, clocked, Posted) = <<>> <=> clocked = Posted
      BY <1>1, <2>5, <3>1, PiecesEmpty
    <3>3. QED
      BY <1>1, <2>5, <3>1, <3>2
  <2>7. clocked < plan[k].M
    BY <1>1, <2>4, <2>5, <2>6
  <2>8. QED
    BY <1>9, <2>1, <2>3, <2>7
<1>11. CASE HwReadByte
  <2>1. /\ phase = "data" /\ dir = "read" /\ "ADDR7F" \notin flags["M"] /\ ~SlaveStretches
        /\ clocked' = clocked + 1
        /\ "ADDR7F" \in flags'["S"] <=> "ADDR7F" \in flags["S"]
    BY <1>1, <1>11 DEF HwReadByte, HwReadByteAck
  <2>2. clocked < plan[k].M
    BY <2>1, ReadFrame DEF Size, MyRound
  <2>3. QED
    BY <1>9, <2>1, <2>2
<1>12. QED
  BY <1>5, <1>6, <1>7, <1>8, <1>10, <1>11, NoOverrun DEF Bus

LEMMA TransferInit ==
  ASSUME Init
  PROVE  Transfer!Init
<1>1. /\ plan \in Plans /\ pc["S"] = "idle" /\ pc["M"] = "idle"
      /\ round["M"] = 1 /\ round["S"] = 1
  BY DEF Init, Node
<1>2. Ended("M") = 0 /\ Ended("S") = 0 /\ ~Addressed
  BY <1>1 DEF Ended, InCall, Addressed
<1>3. Script \in Seq([op : {"write", "read"}, size : Nat])
  BY <1>1, ScriptFacts
<1>4. QED
  BY <1>2, <1>3 DEF Transfer!Init, Script

LEMMA TransferNext ==
  ASSUME SoundLine, SizesMatch, SlaveFirst, IInv, IInv', LockstepInv, InvitedInv, [Next]_vars
  PROVE  TransferStep
<1>1. TypeOK /\ HandleInv /\ InterruptInv /\ MasterInv /\ MasterInv'
  BY DEF IInv
<1>2. CASE Main("S") \/ Handler("S")
  BY <1>1, <1>2, SlaveRefines
<1>3. CASE Main("M") \/ Handler("M")
  BY <1>1, <1>3, MasterRefines
<1>4. CASE Bus
  BY <1>1, <1>4, BusRefines
<1>5. ~Fault
  <2>1. faults \in Nat /\ MaxFaults = 0
    BY <1>1 DEF SoundLine, TypeOK, SwTypeOK
  <2>2. ~(faults < MaxFaults)
    BY <2>1
  <2>3. QED
    BY <2>2 DEF Fault
<1>6. CASE UNCHANGED vars
  <2>1. UNCHANGED <<plan, pc, round, status, flags, clocked>>
    BY <1>6 DEF vars, hwVars, handle, app
  <2>2. Ended("M")' = Ended("M") /\ Ended("S")' = Ended("S") /\ InRound' = InRound
    BY <2>1 DEF Ended, InCall, InRound, Addressed
  <2>3. QED
    BY <2>1, <2>2, AsStutter DEF TransferStep
<1>7. QED
  <2>1. \/ Main("M") \/ Main("S") \/ Handler("M") \/ Handler("S") \/ Bus \/ UNCHANGED vars
    BY <1>5 DEF Next, Node
  <2>2. QED
    BY <1>2, <1>3, <1>4, <1>6, <2>1

(* Only a STOP and a reset of the master free the bus, and the reset comes *)
(* after a call that was refused.                                          *)
LEMMA StopIsLate ==
  ASSUME SoundLine, SizesMatch, IInv, LockstepInv, [Next]_vars,
         phase = "data", dir = "write", phase' = "free"
  PROVE  clocked = Size("S") /\ acked = Size("S")
<1>1. TypeOK /\ HandleInv /\ MasterInv
  BY DEF IInv
<1>2. CASE HwStop
  BY <1>1, <1>2, StopInData
<1>3. CASE i2c_config("M")
  <2>1. Returned("M") /\ ret["M"] # "OK"
    BY <1>3 DEF i2c_config, At, Returned
  <2>2. status["M"] = "START"
    BY <2>1 DEF LockstepInv, MasterLock, CallOf
  <2>3. QED
    BY <2>1, <2>2 DEF LockstepInv, MasterLock, MasterWire
<1>4. ASSUME NEW n \in Node, Main(n), ~i2c_config("M")
      PROVE  FALSE
  BY <1>4 DEF Main, MasterMain, SlaveMain, StartCall, BusyTimeout, EnableInterrupts, i2c_wait_end,
     NextRound, i2c_config, i2c_reset, Retry, GiveUp, MasterStart, MasterSendAddress,
     i2c_7bit_address_send, MasterClearAddr, MasterEv6Stop, MasterEv6Ack, MasterAddrFail,
     MasterFailStop, MasterStepTimeout, SlaveListen, SlaveClearAddr, SlaveStepTimeout, hwVars, busVars, Node
<1>5. ASSUME NEW n \in Node, Handler(n)
      PROVE  FALSE
  BY <1>5 DEF Handler, i2c_evt_irq_handler, SlaveTxEnd, i2c_err_irq_handler, busVars
<1>6. ASSUME Bus, ~HwStop
      PROVE  FALSE
  BY <1>6 DEF Bus, HwStart, HwAddrAck, HwAddrNack, HwWriteByte, HwReadByte, HwReadByteAck,
     HwOverrunByte
<1>7. CASE Fault
  BY <1>7 DEF Fault, HwWriteByte, HwBusErr, busVars
<1>8. CASE UNCHANGED vars
  BY <1>8 DEF vars, hwVars, busVars
<1>9. QED
  BY <1>2, <1>3, <1>4, <1>5, <1>6, <1>7, <1>8 DEF Next

-----------------------------------------------------------------------------
(* Two boards that run the same script over a sound line stay in step: the *)
(* frame on the bus is the one that the slave's call waits for, or the     *)
(* slave is one round behind with the end of its call latched; and what    *)
(* has been stored is what has been sent, whatever the sizes of the rounds *)
(* and their number.  Unlike Invariant this needs no i2c_config where the  *)
(* main thread is in time: calls fail only when the address is refused,    *)
(* and then the bus is left at rest.  A late main thread that tries again  *)
(* as it is, is ruled out by NoStrayStop: its second STOP would cut off    *)
(* the next frame.  That a listening slave is never refused is part of the *)
(* induction, since a late main thread does no harm then.                  *)
THEOREM LockstepInvariant ==
  ASSUME SoundLine, SizesMatch, Timely, NoStrayStop
  PROVE  Spec => [](IInv /\ LockstepInv)
<1>1. Init => IInv /\ MatchedInv
  BY InitInv, LockstepInit, InvitedInit DEF MatchedInv
<1>2. (IInv /\ MatchedInv) /\ [Next]_vars => (IInv /\ MatchedInv)'
  BY LockstepNext, InvitedNext DEF MatchedInv
<1>3. MatchedInv => LockstepInv
  BY DEF MatchedInv
<1>4. QED
  BY <1>1, <1>2, <1>3, PTL DEF Spec

(* A receive that returns I2C_OK, of a master or a slave, has stored all   *)
(* the bytes that the other side sent for the same round, each once and in *)
(* order, for every size.                                                  *)
THEOREM ReceivesAreIntact ==
  ASSUME SoundLine, SizesMatch, Timely, NoStrayStop
  PROVE  Spec => []ReceivedIntact
<1>1. ASSUME IInv, LockstepInv
      PROVE  ReceivedIntact
  <2>1. SUFFICES ASSUME NEW n \in Node, pc[n] = "returned", ret[n] = "OK", Receiving(n)
                 PROVE  mem[n] = Sent(round[n], Size(n))
    BY DEF ReceivedIntact
  <2>2. InCall(n) /\ status[n] = "END" /\ mode[n] = ModeOf(n)
    BY <1>1, <2>1 DEF IInv, HandleInv, HandleOf, InCall
  <2>3. \/ n = "M" /\ mode[n] = "I2C_INT_MA_RX"
        \/ n = "S" /\ mode[n] = "I2C_INT_SLA_RX"
    BY <2>1, <2>2 DEF Node, ModeOf, Receiving
  <2>4. QED
    BY <1>1, <2>2, <2>3 DEF LockstepInv, MasterLock, SlaveLock, MasterStores, SlaveStores
<1>2. IInv /\ LockstepInv => ReceivedIntact
  BY <1>1
<1>3. QED
  BY <1>2, LockstepInvariant, PTL

(* The STOP that ends a write comes when the slave has acknowledged as     *)
(* many bytes as its call has room for, although the master reports        *)
(* I2C_END and asks for the STOP while the last byte is still on the wire. *)
THEOREM StopsAfterLastByte ==
  ASSUME SoundLine, SizesMatch, Timely, NoStrayStop
  PROVE  Spec => StopAfterLastByte
<1>1. (IInv /\ LockstepInv) /\ [Next]_vars =>
        [phase = "data" /\ dir = "write" /\ phase' = "free"
           => clocked = Size("S") /\ acked = Size("S")]_vars
  BY StopIsLate
<1>2. QED
  BY <1>1, LockstepInvariant, PTL DEF Spec, StopAfterLastByte

(* When the master calls only a listening slave no call is refused, and    *)
(* the two stay in step from the address to the end of each call.          *)
THEOREM MatchedInvariant ==
  ASSUME SoundLine, SizesMatch, Timely, NoStrayStop
  PROVE  Spec => []MatchedInv
<1>1. Init => IInv /\ MatchedInv
  BY InitInv, LockstepInit, InvitedInit DEF MatchedInv
<1>2. (IInv /\ MatchedInv) /\ [Next]_vars => (IInv /\ MatchedInv)'
  BY LockstepNext, InvitedNext DEF MatchedInv
<1>3. QED
  BY <1>1, <1>2, PTL DEF Spec

(* Interrupt-mode transfers are the rounds of I2CTransfer: the two handles *)
(* report the end of each round once, in the order of the script, and not  *)
(* before its bytes have moved - the writing master at most one byte       *)
(* before.  This is the safety of ReliableTransfer.                        *)
THEOREM ImplementsTransfer ==
  ASSUME SoundLine, SizesMatch, Timely, SlaveFirst
  PROVE  Spec => Transfer!Init /\ [][Transfer!Next]_Transfer!vars
<1> NoStrayStop
  BY DEF NoStrayStop
<1>1. Init => Transfer!Init /\ IInv /\ MatchedInv
  BY TransferInit, InitInv, LockstepInit, InvitedInit DEF MatchedInv
<1>2. (IInv /\ MatchedInv) /\ [Next]_vars => (IInv /\ MatchedInv)'
  BY LockstepNext, InvitedNext DEF MatchedInv
<1>3. (IInv /\ MatchedInv) /\ (IInv /\ MatchedInv)' /\ [Next]_vars => [Transfer!Next]_Transfer!vars
  BY TransferNext DEF MatchedInv, TransferStep
<1>4. QED
  BY <1>1, <1>2, <1>3, PTL DEF Spec

(***************************************************************************)
(* Any line, any scripts: that I2CFramesInv!FramesInv is invariant, and    *)
(* with it NoMixedBuffer.  A step of one board's software leaves the other *)
(* half of the invariant alone; what is stored changes only when a byte    *)
(* arrives, a call starts or a peripheral is reset.                        *)
(***************************************************************************)

(* What is stored is the buffer first and then the registers.              *)
LEMMA StoredParts ==
  ASSUME NEW s \in Seq(Byte), NEW t \in Seq(Byte)
  PROVE  /\ s \o t \in Seq(Byte) /\ Len(s \o t) = Len(s) + Len(t)
         /\ \A i \in 1 .. Len(s) : i \in 1 .. Len(s \o t) /\ (s \o t)[i] = s[i]
         /\ s \o t = <<>> <=> s = <<>> /\ t = <<>>
<1>1. /\ s \o t \in Seq(Byte) /\ Len(s \o t) = Len(s) + Len(t)
      /\ \A i \in 1 .. Len(s) : i \in 1 .. Len(s \o t) /\ (s \o t)[i] = s[i]
  BY ConcatProperties
<1>2. \A u \in Seq(Byte) : u = <<>> <=> Len(u) = 0
  BY EmptySeq
<1>3. Len(s) + Len(t) = 0 <=> Len(s) = 0 /\ Len(t) = 0
  OBVIOUS
<1>4. QED
  BY <1>1, <1>2, <1>3

(* What the slave's half of the invariant depends on.                      *)
SlaveSame ==
  /\ UNCHANGED <<rx["S"], tx["S"], mem["S"], mode["S"], status["S"], error_code["S"], pbuff["S"],
                 pc["S"], isr["S"], ret["S"], round["S"]>>
  /\ \A f \in {"STOPF", "ACKFAIL", "ADDR7F"} : f \in flags'["S"] <=> f \in flags["S"]

(* Whatever the bus does to a frame that the slave does not follow, and    *)
(* whatever ends one that it does.                                         *)
LEMMA SlaveHalf ==
  ASSUME SlaveKeeps, SlaveEnds, SlaveTx, SlaveSame,
         sel' => /\ sel /\ dir' = dir /\ phase' \notin {"start", "addr"}
                 /\ phase' = "data" => phase = "data" /\ clocked' = clocked
  PROVE  SlaveKeeps' /\ SlaveEnds' /\ SlaveTx'
<1>1. (Served' => Served) /\ SlaveBusy' = SlaveBusy
  BY DEF Served, SlaveBusy, Returned, SlaveSame
<1>2. SlaveKeeps' /\ SlaveEnds'
  <2>1. SlaveKeeps'
    BY <1>1 DEF SlaveKeeps, SlaveSame
  <2>2. Served' => dir' = dir
    BY DEF Served
  <2>3. SlaveEnds'
    BY <1>1, <2>2 DEF SlaveEnds, SlaveSame
  <2>4. QED
    BY <2>1, <2>3
<1>3. SlaveTx'
  BY <1>1 DEF SlaveTx, SlaveSame, Served
<1>4. QED
  BY <1>2, <1>3

(* The master's half under the steps of the slave.                         *)
LEMMA MasterHalf ==
  ASSUME MasterFresh, MasterTx, SameBoard("M"), UNCHANGED <<phase, dir, clocked, plan>>
  PROVE  /\ MasterFresh' /\ MasterTx'
         /\ WireRound' = WireRound /\ Stored("M")' = Stored("M")
<1> USE DEF SameBoard, SameNode
<1>1. WireRound' = WireRound /\ Stored("M")' = Stored("M") /\ InData' = InData
  BY DEF WireRound, Returned, Stored, InData
<1>2. MasterFresh'
  BY <1>1 DEF MasterFresh, Returned
<1>3. MasterTx'
  BY <1>1 DEF MasterTx
<1>4. QED
  BY <1>1, <1>2, <1>3

(* What is stored, under steps that store nothing.                         *)
LEMMA ContentsKept ==
  ASSUME Contents, plan' = plan, Stored("S")' = Stored("S"), Stored("M")' = Stored("M"),
         Served' /\ phase' = "data" =>
           /\ Served /\ phase = "data"
           /\ dir' = dir /\ clocked' = clocked /\ round'["S"] = round["S"]
           /\ dir = "write" => WireRound' = WireRound,
         phase' = "data" /\ dir' = "read" => Len(Stored("M")) = clocked'
  PROVE  Contents'
<1>1. PICK k \in 1 .. Len(plan) : SlaveHas(k)
  BY DEF Contents
<1>2. PICK j \in 1 .. Len(plan), m \in 0 .. Len(Stored("M")) : MasterHas(j, m)
  BY DEF Contents
<1>3. SlaveHas(k)'
  BY <1>1 DEF SlaveHas
<1>4. MasterHas(j, m)'
  BY <1>2 DEF MasterHas
<1>5. QED
  BY <1>3, <1>4 DEF Contents

(* The steps of the master's main thread that neither store nor send, and  *)
(* begin no frame and no transfer.                                         *)
LEMMA MasterQuiet ==
  ASSUME FramesInv, SameBoard("S"),
         UNCHANGED <<plan, sel, clocked, tx["M"], mem["M"], rx["M"], pbuff["M"]>>,
         phase' = phase \/ (phase = "start" /\ phase' = "addr"),
         dir' = dir \/ phase = "start",
         "ADDR7F" \in flags'["M"] => "ADDR7F" \in flags["M"],
         "GENSTART" \in ctrl'["M"] => "GENSTART" \in ctrl["M"],
         phase' = "data" => WireRound' = WireRound /\ (InData' => InData),
         pc'["M"] = "busy" => mem["M"] = <<>>,
         "GENSTART" \in ctrl'["M"] \/ phase' \in {"start", "addr"} =>
           ~(Returned("M")' /\ ret'["M"] = "STEP_1")
  PROVE  FramesInv'
<1>1. SlaveKeeps /\ SlaveEnds /\ SlaveTx /\ MasterFresh /\ MasterTx /\ Contents
  BY DEF FramesInv
<1>2. sel => phase' = phase /\ dir' = dir /\ phase \notin {"start", "addr"}
  BY <1>1 DEF SlaveTx
<1>3. SlaveSame /\ Stored("S")' = Stored("S") /\ Stored("M")' = Stored("M")
  BY DEF SameBoard, SameNode, SlaveSame, Stored
<1>4. SlaveKeeps' /\ SlaveEnds' /\ SlaveTx'
  BY <1>1, <1>2, <1>3, SlaveHalf
<1>5. MasterFresh'
  BY <1>1, <1>3 DEF MasterFresh
<1>6. phase' = "data" => phase = "data" /\ dir' = dir
  OBVIOUS
<1>7. MasterTx'
  BY <1>1, <1>6 DEF MasterTx
<1>8. Contents'
  <2>1. Served' = Served /\ round'["S"] = round["S"]
    BY DEF Served, SameBoard, SameNode
  <2>2. phase' = "data" /\ dir' = "read" => Len(Stored("M")) = clocked'
    BY <1>1, <1>6 DEF Contents
  <2>3. QED
    BY <1>1, <1>3, <1>6, <2>1, <2>2, ContentsKept
<1>9. QED
  BY <1>4, <1>5, <1>7, <1>8 DEF FramesInv

(* A call or an address byte: what the master begins, it begins with       *)
(* nothing stored and nothing sent.                                        *)
LEMMA MasterBegins ==
  ASSUME IInv, FramesInv, SameBoard("S"), UNCHANGED <<plan, sel, clocked>>,
         StartCall("M") \/ MasterStart \/ MasterClearAddr \/ i2c_config("M")
  PROVE  FramesInv'
<1>1. SlaveKeeps /\ SlaveEnds /\ SlaveTx /\ MasterFresh /\ MasterTx /\ Contents
  BY DEF FramesInv
<1>2. /\ "M" \in Node /\ "S" \in Node
      /\ ctrl \in [Node -> SUBSET CtrlBits] /\ flags \in [Node -> SUBSET Flags]
      /\ mode \in [Node -> Modes] /\ status \in [Node -> {"START", "END"}]
      /\ pbuff \in [Node -> Nat] /\ pc \in [Node -> MainPc] /\ round \in [Node -> Nat \ {0}]
      /\ mem \in [Node -> Seq(Byte)] /\ rx \in [Node -> Seq(Byte)] /\ tx \in [Node -> Seq(Byte)]
      /\ clocked \in Nat /\ plan \in Plans
  BY DEF IInv, TypeOK, HwTypeOK, SwTypeOK, Node
<1>3. SlaveSame /\ Stored("S")' = Stored("S") /\ Served' = Served /\ round'["S"] = round["S"]
  BY DEF SameBoard, SameNode, SlaveSame, Stored, Served
<1>4. Len(plan) \in Nat /\ 1 \in 1 .. Len(plan)
  <2>1. plan \in Seq(Round) /\ plan # <<>>
    BY <1>2, PlansAssumption
  <2>2. QED
    BY <2>1, EmptySeq
<1>5. pc["M"] \in {"idle", "busy", "done"} => AtRest
  BY DEF IInv, MasterInv, RestInv, Resting
<1>6. mem["M"] \o <<>> = mem["M"] /\ <<>> \o <<>> = <<>> /\ mem["M"] \in Seq(Byte)
  BY <1>2, ConcatEmptySeq
<1>7. CASE StartCall("M")
  <2>1. /\ UNCHANGED <<ctrl, flags, tx, rx, phase, dir, round>> /\ pc["M"] = "idle"
        /\ pc'["M"] = "busy" /\ mem'["M"] = <<>>
    BY <1>2, <1>7 DEF StartCall, At, Goto, hwVars, app
  <2>2. rx["M"] = <<>> /\ ~(phase = "data" /\ dir = "read") /\ phase \notin {"start", "addr"}
        /\ "GENSTART" \notin ctrl["M"]
    BY <1>5, <2>1 DEF AtRest
  <2>3. Stored("M")' = <<>> /\ WireRound' = WireRound /\ ~InData'
    BY <1>6, <2>1, <2>2 DEF Stored, WireRound, InData, Returned
  <2>4. SlaveKeeps' /\ SlaveEnds' /\ SlaveTx'
    BY <1>1, <1>3, <2>1, <2>2, SlaveHalf
  <2>5. MasterFresh' /\ MasterTx'
    BY <1>1, <2>1, <2>2, <2>3 DEF MasterFresh, MasterTx
  <2>6. Contents'
    <3>1. PICK k \in 1 .. Len(plan) : SlaveHas(k)
      BY <1>1 DEF Contents
    <3>2. SlaveHas(k)'
      BY <1>3, <2>1, <2>3, <3>1 DEF SlaveHas
    <3>3. Len(Stored("M")') = 0
      BY <2>3
    <3>4. MasterHas(1, 0)'
      BY <2>1, <2>2, <3>3 DEF MasterHas
    <3>5. QED
      BY <1>4, <2>1, <2>2, <3>2, <3>3, <3>4 DEF Contents
  <2>7. QED
    BY <2>4, <2>5, <2>6 DEF FramesInv
<1>8. CASE MasterStart
  <2>1. /\ pc["M"] = "busy" /\ pc'["M"] = "startf" /\ "BUSYF" \notin flags["M"]
        /\ UNCHANGED <<flags, tx, rx, mem, phase, dir>>
    BY <1>2, <1>8 DEF MasterStart, At, Goto, busVars, handle
  <2>2. phase = "free" /\ rx["M"] = <<>> /\ mem["M"] = <<>>
    BY <1>1, <1>5, <2>1 DEF IInv, MasterInv, FlagInv, AtRest, MasterFresh
  <2>3. Stored("M")' = Stored("M") /\ Stored("M")' = <<>>
    BY <1>6, <2>1, <2>2 DEF Stored
  <2>4. SlaveKeeps' /\ SlaveEnds' /\ SlaveTx'
    BY <1>1, <1>3, <2>1, <2>2, SlaveHalf
  <2>5. MasterFresh' /\ MasterTx'
    BY <1>1, <2>1, <2>2, <2>3 DEF MasterFresh, MasterTx, Returned
  <2>6. Contents'
    BY <1>1, <1>3, <2>1, <2>2, <2>3, ContentsKept
  <2>7. QED
    BY <2>4, <2>5, <2>6 DEF FramesInv
<1>9. CASE MasterClearAddr
  <2>1. /\ pc["M"] = "addr" /\ "ADDR7F" \in flags["M"] /\ "ADDR7F" \notin flags'["M"]
        /\ UNCHANGED <<tx, rx, mem, pbuff, phase, dir, round, ret>>
        /\ pc'["M"] \in {"enable", "ev6stop", "ev6ack"}
        /\ "GENSTART" \in ctrl'["M"] => "GENSTART" \in ctrl["M"]
    BY <1>2, <1>9 DEF MasterClearAddr, At, Goto, ClearFlags, SetCtrl, busVars, handle, app
  <2>2. /\ phase = "data" /\ clocked = 0 /\ tx["M"] = <<>> /\ pbuff["M"] = 0
    BY <1>1, <1>2, <2>1 DEF IInv, MasterInv, FlagInv, StartInv, HandleInv, HandleOf, MasterTx
  <2>3. Stored("M")' = Stored("M") /\ WireRound' = WireRound /\ Len(tx["M"]) = 0
    BY <2>1, <2>2 DEF Stored, WireRound, Returned
  <2>4. SlaveKeeps' /\ SlaveEnds' /\ SlaveTx'
    BY <1>1, <1>3, <2>1, <2>2, SlaveHalf
  <2>5. MasterFresh' /\ MasterTx'
    BY <1>1, <2>1, <2>2, <2>3 DEF MasterFresh, MasterTx
  <2>6. Contents'
    <3>1. phase' = "data" /\ dir' = "read" => Len(Stored("M")) = clocked'
      BY <1>1, <2>1 DEF Contents
    <3>2. QED
      BY <1>1, <1>3, <2>1, <2>3, <3>1, ContentsKept
  <2>7. QED
    BY <2>4, <2>5, <2>6 DEF FramesInv
<1>10. CASE i2c_config("M")
  <2>1. /\ phase' = "free" /\ dir' = dir /\ UNCHANGED <<mem, round>> /\ pc'["M"] = "idle"
        /\ ctrl'["M"] = {} /\ tx'["M"] = <<>> /\ rx'["M"] = <<>>
        /\ "ADDR7F" \notin flags'["M"]
    <3>1. PICK b \in SUBSET {"BUSYF"} : flags' = [flags EXCEPT !["M"] = b]
      BY <1>10 DEF i2c_config, i2c_reset
    <3>2. "ADDR7F" \notin flags'["M"]
      BY <1>2, <3>1
    <3>3. QED
      BY <1>2, <1>10, <3>2 DEF i2c_config, i2c_reset, Goto, handle
  <2>2. Stored("M")' = mem["M"]
    BY <1>6, <2>1 DEF Stored
  <2>3. SlaveKeeps' /\ SlaveEnds' /\ SlaveTx'
    BY <1>1, <1>3, <2>1, SlaveHalf
  <2>4. MasterFresh' /\ MasterTx'
    BY <1>1, <2>1 DEF MasterFresh, MasterTx
  <2>5. Contents'
    <3>1. PICK k \in 1 .. Len(plan) : SlaveHas(k)
      BY <1>1 DEF Contents
    <3>2. SlaveHas(k)'
      BY <1>3, <2>1, <3>1 DEF SlaveHas
    <3>3. PICK j \in 1 .. Len(plan), m \in 0 .. Len(Stored("M")) : MasterHas(j, m)
      BY <1>1 DEF Contents
    <3>4. m <= Len(mem["M"]) \/ Len(mem["M"]) <= m
      BY <1>6, <3>3
    <3>5. PICK l \in 0 .. Len(mem["M"]) :
            \A i \in 1 .. Len(mem["M"]) : mem["M"][i] = IF i <= l THEN <<j, i>> ELSE Garbage
      <4>1. rx["M"] \in Seq(Byte) /\ Len(mem["M"]) \in Nat
        BY <1>2
      <4>2. \A i \in 1 .. Len(mem["M"]) :
              i \in 1 .. Len(Stored("M")) /\ Stored("M")[i] = mem["M"][i]
        BY <1>6, <4>1, StoredParts DEF Stored
      <4>3. \A i \in 1 .. Len(mem["M"]) : mem["M"][i] = IF i <= m THEN <<j, i>> ELSE Garbage
        BY <3>3, <4>2 DEF MasterHas
      <4>4. CASE m <= Len(mem["M"])
        <5>1. m \in 0 .. Len(mem["M"])
          BY <3>3, <4>1, <4>4
        <5>2. QED
          BY <4>3, <5>1
      <4>5. CASE Len(mem["M"]) <= m
        <5>1. \A i \in 1 .. Len(mem["M"]) : i <= m /\ i <= Len(mem["M"])
          BY <3>3, <4>1, <4>5
        <5>2. Len(mem["M"]) \in 0 .. Len(mem["M"])
          BY <4>1
        <5>3. QED
          BY <4>3, <5>1, <5>2
      <4>6. QED
        BY <3>4, <4>4, <4>5
    <3>6. MasterHas(j, l)'
      BY <2>1, <2>2, <3>5 DEF MasterHas
    <3>7. l \in 0 .. Len(Stored("M")')
      BY <2>2, <3>5
    <3>8. QED
      BY <2>1, <3>2, <3>6, <3>7 DEF Contents
  <2>6. QED
    BY <2>3, <2>4, <2>5 DEF FramesInv
<1>11. QED
  BY <1>7, <1>8, <1>9, <1>10

(* The master's main thread.                                               *)
LEMMA MasterMainFrames ==
  ASSUME ResetOnError, IInv, FramesInv, Main("M")
  PROVE  FramesInv'
<1>1. SlaveTx /\ MasterFresh /\ MasterTx
  BY DEF FramesInv
<1>2. /\ "M" \in Node /\ "S" \in Node /\ "M" # "S"
      /\ ctrl \in [Node -> SUBSET CtrlBits] /\ flags \in [Node -> SUBSET Flags]
      /\ pc \in [Node -> MainPc] /\ ret \in [Node -> Results] /\ round \in [Node -> Nat \ {0}]
      /\ error_code \in [Node -> Errors]
  BY DEF IInv, TypeOK, HwTypeOK, SwTypeOK, Node
<1>3. SameBoard("S") /\ plan' = plan /\ sel' = sel
  <2>1. SameBoard("S") /\ plan' = plan /\ (sel' = sel \/ i2c_config("S"))
    BY <1>2, OtherBoard DEF IInv
  <2>2. ~i2c_config("S")
    BY <1>2, <2>1 DEF i2c_config, At, Goto, SameBoard, SameNode
  <2>3. QED
    BY <2>1, <2>2
<1>4. pc["M"] \in {"idle", "busy", "done"} => AtRest
  BY DEF IInv, MasterInv, RestInv, Resting
<1> DEFINE Still == UNCHANGED <<clocked, dir, phase, tx["M"], mem["M"], rx["M"], pbuff["M"], status["M"]>>
<1> USE DEF hwVars, busVars, handle, app, At, Goto, Return, Fail
<1>5. CASE StartCall("M") \/ MasterStart \/ MasterClearAddr \/ i2c_config("M")
  <2>1. clocked' = clocked
    BY <1>5 DEF StartCall, MasterStart, MasterClearAddr, i2c_config, i2c_reset
  <2>2. QED
    BY <1>3, <1>5, <2>1, MasterBegins
<1>6. CASE BusyTimeout("M")
  <2>1. Still /\ UNCHANGED <<ctrl, flags, round>> /\ pc["M"] = "busy" /\ pc'["M"] = "returned"
        /\ ret'["M"] = "STEP_1"
    BY <1>2, <1>6 DEF BusyTimeout
  <2>2. WireRound' = WireRound /\ ~InData'
    BY <2>1 DEF WireRound, Returned, InData
  <2>3. QED
    BY <1>3, <1>4, <2>1, <2>2, MasterQuiet DEF AtRest
<1>7. CASE EnableInterrupts("M")
  <2>1. Still /\ UNCHANGED <<ctrl, flags, round, ret>> /\ pc["M"] = "enable" /\ pc'["M"] = "wait_end"
    BY <1>2, <1>7 DEF EnableInterrupts
  <2>2. WireRound' = WireRound /\ (InData' => InData)
    BY <2>1 DEF WireRound, Returned, InData
  <2>3. QED
    BY <1>3, <2>1, <2>2, MasterQuiet DEF Returned
<1>8. CASE i2c_wait_end("M")
  <2>1. Still /\ UNCHANGED <<ctrl, flags, round>> /\ pc["M"] = "wait_end" /\ pc'["M"] = "returned"
        /\ ret'["M"] \in {error_code["M"], "TIMEOUT"} /\ ret'["M"] # "STEP_1"
    <3>1. error_code["M"] # "STEP_1"
      BY <1>2 DEF Errors
    <3>2. QED
      BY <1>2, <1>8, <3>1, SMTT(30) DEF i2c_wait_end
  <2>2. WireRound' = WireRound /\ (InData' => InData)
    BY <2>1 DEF WireRound, Returned, InData
  <2>3. QED
    BY <1>3, <2>1, <2>2, MasterQuiet
<1>9. CASE NextRound("M")
  <2>1. Still /\ UNCHANGED <<ctrl, flags, ret>> /\ pc["M"] = "returned" /\ pc'["M"] \in {"idle", "done"}
        /\ round'["M"] = round["M"] + 1 /\ ret["M"] = "OK" /\ round["M"] \in Nat
    BY <1>2, <1>9, SMTT(30) DEF NextRound
  <2>2. WireRound' = WireRound /\ ~InData'
    BY <2>1 DEF WireRound, Returned, InData
  <2>3. QED
    BY <1>3, <2>1, <2>2, MasterQuiet
<1>10. ~Retry("M")
  BY DEF Retry
<1>11. CASE GiveUp("M")
  <2>1. Still /\ UNCHANGED <<ctrl, flags, round, ret>> /\ pc["M"] = "returned" /\ pc'["M"] = "gave_up"
    BY <1>2, <1>11 DEF GiveUp
  <2>2. WireRound' = WireRound /\ (InData' => InData) /\ Returned("M") /\ Returned("M")'
    BY <2>1 DEF WireRound, Returned, InData
  <2>3. QED
    BY <1>1, <1>3, <2>1, <2>2, MasterQuiet DEF MasterFresh
<1>12. CASE MasterSendAddress
  <2>1. /\ UNCHANGED <<ctrl, clocked, tx, mem, rx, pbuff, round, ret>> /\ pc'["M"] = "addr"
        /\ phase = "start" /\ phase' = "addr"
        /\ "ADDR7F" \in flags'["M"] => "ADDR7F" \in flags["M"]
    <3>1. phase = "start"
      BY <1>12 DEF MasterSendAddress, IInv, MasterInv, FlagInv
    <3>2. QED
      BY <1>2, <1>12, <3>1 DEF MasterSendAddress, i2c_7bit_address_send, ClearFlags
  <2>2. QED
    BY <1>3, <2>1, MasterQuiet DEF Returned
<1>13. CASE MasterEv6Stop \/ MasterEv6Ack
  <2>1. /\ Still /\ UNCHANGED <<flags, round, ret>> /\ pc["M"] \in {"ev6stop", "ev6ack"} /\ pc'["M"] = "enable"
        /\ "GENSTART" \in ctrl'["M"] => "GENSTART" \in ctrl["M"]
    BY <1>2, <1>13 DEF MasterEv6Stop, MasterEv6Ack, SetCtrl
  <2>2. WireRound' = WireRound /\ (InData' => InData)
    BY <2>1 DEF WireRound, Returned, InData
  <2>3. QED
    BY <1>3, <2>1, <2>2, MasterQuiet DEF Returned
<1>14. CASE MasterAddrFail \/ MasterFailStop \/ MasterStepTimeout
  <2>1. /\ Still /\ UNCHANGED round /\ pc["M"] \in {"startf", "addr", "addrfail"}
        /\ pc'["M"] = "addrfail" \/ (pc'["M"] = "returned" /\ ret'["M"] = "STEP_2")
        /\ "GENSTART" \in ctrl'["M"] => "GENSTART" \in ctrl["M"]
        /\ "ADDR7F" \in flags'["M"] => "ADDR7F" \in flags["M"]
    BY <1>2, <1>14 DEF MasterAddrFail, MasterFailStop, MasterStepTimeout, SetCtrl, ClearFlags
  <2>2. WireRound' = WireRound /\ ~InData'
    BY <2>1 DEF WireRound, Returned, InData
  <2>3. QED
    BY <1>3, <2>1, <2>2, MasterQuiet DEF Returned
<1>15. QED
  BY <1>5, <1>6, <1>7, <1>8, <1>9, <1>10, <1>11, <1>12, <1>13, <1>14 DEF Main, MasterMain

(* The master's handlers: a byte sent is the next one of the call's round, *)
(* and a byte read from the registers is in the buffer.                    *)
LEMMA MasterHandlerFrames ==
  ASSUME IInv, FramesInv, Handler("M")
  PROVE  FramesInv'
<1>1. /\ TypeOK /\ HandleInv /\ InterruptInv /\ ReadInv /\ WriteInv
      /\ SlaveKeeps /\ SlaveEnds /\ SlaveTx /\ MasterFresh /\ MasterTx /\ Contents
  BY DEF FramesInv, IInv, MasterInv
<1>2. /\ "M" \in Node /\ "S" \in Node /\ "M" # "S"
      /\ ctrl \in [Node -> SUBSET CtrlBits] /\ flags \in [Node -> SUBSET Flags]
      /\ status \in [Node -> {"START", "END"}] /\ pbuff \in [Node -> Nat]
      /\ tx \in [Node -> Seq(Byte)] /\ round \in [Node -> Nat \ {0}] /\ clocked \in Nat
      /\ isr \in [Node -> {"none", "ackfail"}] /\ pc \in [Node -> MainPc]
  BY <1>1 DEF TypeOK, HwTypeOK, SwTypeOK, Node
<1>3. /\ SameBoard("S") /\ SlaveSame /\ Stored("S")' = Stored("S")
      /\ UNCHANGED <<phase, dir, sel, clocked, plan>>
  <2>1. /\ SameBoard("S") /\ UNCHANGED <<phase, dir, clocked, plan>>
        /\ sel' = sel \/ i2c_config("S")
    BY <1>1, <1>2, OtherBoard
  <2>2. ~i2c_config("S")
    BY <1>2, <2>1 DEF i2c_config, At, Goto, SameBoard, SameNode
  <2>3. QED
    BY <2>1, <2>2 DEF SameBoard, SameNode, SlaveSame, Stored
<1>4. UNCHANGED <<pc, ret, round, mode>>
  BY DEF Handler, i2c_evt_irq_handler, SlaveTxEnd, i2c_err_irq_handler, app
<1>5. /\ isr["M"] = "none" /\ InData /\ InCall("M") /\ mode["M"] = ModeOf("M") /\ status["M"] = "START"
      /\ pc["M"] \notin {"idle", "busy", "done"} /\ ~(Returned("M") /\ ret["M"] = "STEP_1")
  <2>1. ints["M"] # {} \/ isr["M"] # "none"
    BY <1>2 DEF Handler, i2c_evt_irq_handler, SlaveTxEnd, i2c_err_irq_handler, EvtRequest, ErrRequest
  <2>2. HandlersTurn("M") /\ InCall("M") /\ mode["M"] = ModeOf("M")
    BY <1>1, <1>2, <2>1, HandlerContext
  <2>3. isr["M"] = "none"
    BY <1>1, <1>2 DEF InterruptInv, InterruptOf
  <2>4. QED
    BY <2>2, <2>3 DEF HandlersTurn, InData, Returned
<1>6. WireRound = round["M"] /\ WireRound' = WireRound
  BY <1>4, <1>5 DEF WireRound, Returned
<1>7. SlaveKeeps' /\ SlaveEnds' /\ SlaveTx'
  BY <1>1, <1>3, SlaveHalf DEF SlaveTx
<1> USE <1>2 DEF ClearFlags, SetCtrl, TransferComplete, Fail, SendData, i2c_data_send
<1>8. CASE i2c_evt_irq_handler("M") /\ mode["M"] = "I2C_INT_MA_TX"
  <2>1. /\ i2c_master_tx_isr_int("M") /\ TDBE("M") /\ UNCHANGED <<flags, rx, mem>>
    BY <1>8 DEF i2c_evt_irq_handler, i2c_master_tx_isr_int
  <2>2. phase = "data" /\ dir = "write" /\ "ADDR7F" \notin flags["M"] /\ "GENSTART" \notin ctrl["M"]
    BY <1>1, <1>5, <1>8, <2>1 DEF TDBE, Transmitting, WriteInv
  <2>3. CASE pcount["M"] = 0
    <3>1. /\ UNCHANGED <<tx, pbuff>> /\ status'["M"] = "END"
          /\ ctrl'["M"] = (ctrl["M"] \ {}) \cup {"GENSTOP"}
      BY <2>1, <2>3 DEF i2c_master_tx_isr_int
    <3>2. ~InData'
      BY <3>1 DEF InData
    <3>3. QED
      BY <1>3, <1>4, <1>5, <1>6, <2>1, <2>2, <3>1, <3>2, MasterQuiet
  <2>4. CASE pcount["M"] # 0
    <3>1. /\ UNCHANGED <<ctrl, status>> /\ pbuff'["M"] = pbuff["M"] + 1
          /\ tx' = [tx EXCEPT !["M"] = Append(@, <<round["M"], pbuff["M"] + 1>>)]
      BY <2>1, <2>4 DEF i2c_master_tx_isr_int
    <3>2. /\ \A i \in 1 .. Len(tx["M"]) : tx["M"][i] = <<WireRound, clocked + i>>
          /\ clocked + Len(tx["M"]) = pbuff["M"] /\ WireRound \in 1 .. Len(plan)
      BY <1>1, <1>5, <2>2 DEF MasterTx
    <3> DEFINE b == <<round["M"], pbuff["M"] + 1>>
    <3>3. b \in Byte
      BY DEF Byte
    <3>4. tx'["M"] = Append(tx["M"], b)
      BY <3>1
    <3>5. /\ Len(tx'["M"]) = Len(tx["M"]) + 1 /\ tx'["M"][Len(tx["M"]) + 1] = b
          /\ \A i \in 1 .. Len(tx["M"]) : tx'["M"][i] = tx["M"][i]
      BY <3>3, <3>4, AppendProperties
    <3>6. b = <<WireRound, clocked + (Len(tx["M"]) + 1)>>
      BY <1>6, <3>2
    <3> HIDE DEF b
    <3>7. ASSUME NEW i \in 1 .. Len(tx'["M"])
          PROVE  tx'["M"][i] = <<WireRound, clocked + i>>
      <4>1. i \in 1 .. Len(tx["M"]) \/ i = Len(tx["M"]) + 1
        BY <3>5
      <4>2. QED
        BY <3>2, <3>5, <3>6, <4>1
    <3>8. clocked + Len(tx'["M"]) = pbuff'["M"]
      BY <3>1, <3>2, <3>5
    <3>9. MasterTx'
      BY <1>3, <1>6, <2>1, <2>2, <3>2, <3>7, <3>8 DEF MasterTx
    <3>10. MasterFresh' /\ Stored("M")' = Stored("M")
      BY <1>1, <1>3, <1>4, <2>1, <3>1 DEF MasterFresh, Stored, Returned
    <3>11. Contents'
      <4>1. Served' = Served /\ round'["S"] = round["S"]
        BY <1>3, <1>4, <2>1 DEF Served
      <4>2. QED
        BY <1>1, <1>3, <1>6, <2>2, <3>10, <4>1, ContentsKept
    <3>12. QED
      BY <1>7, <3>9, <3>10, <3>11 DEF FramesInv
  <2>5. QED
    BY <2>3, <2>4
<1>9. CASE i2c_evt_irq_handler("M") /\ mode["M"] = "I2C_INT_MA_RX"
  <2>1. EvtRequest("M") /\ i2c_master_rx_isr_int("M")
    BY <1>9 DEF i2c_evt_irq_handler
  <2>2. Stored("M")' = Stored("M") /\ UNCHANGED <<flags, tx>>
    BY <1>1, <1>5, <1>9, <2>1, ReadMovesBytes
  <2>3. dir = "read" /\ "GENSTART" \notin ctrl["M"] /\ phase \in {"data", "closing", "free"}
    BY <1>1, <1>5, <1>9 DEF ReadInv
  <2>4. "GENSTART" \notin ctrl'["M"]
    BY <2>1, <2>3 DEF i2c_master_rx_isr_int, MasterRxTdc, MasterRxRdbf
  <2>5. MasterFresh' /\ MasterTx'
    BY <1>1, <1>3, <1>4, <1>5, <2>2, <2>3, <2>4 DEF MasterFresh, MasterTx
  <2>6. Contents'
    <3>1. Served' = Served /\ round'["S"] = round["S"]
      BY <1>3, <1>4, <2>2 DEF Served
    <3>2. phase' = "data" /\ dir' = "read" => Len(Stored("M")) = clocked'
      BY <1>1, <1>3 DEF Contents
    <3>3. QED
      BY <1>1, <1>3, <1>6, <2>2, <3>1, <3>2, ContentsKept
  <2>7. QED
    BY <1>7, <2>5, <2>6 DEF FramesInv
<1>10. CASE i2c_err_irq_handler("M")
  <2>1. UNCHANGED <<ctrl, tx, rx, mem, pbuff, status>> /\ flags'["M"] \subseteq flags["M"]
    BY <1>10 DEF i2c_err_irq_handler
  <2>2. InData' = InData
    BY <1>4, <2>1 DEF InData
  <2>3. QED
    BY <1>3, <1>4, <1>5, <1>6, <2>1, <2>2, MasterQuiet DEF Returned
<1>11. ~SlaveTxEnd("M")
  BY <1>5 DEF SlaveTxEnd
<1>12. QED
  BY <1>5, <1>8, <1>9, <1>10, <1>11 DEF Handler, i2c_evt_irq_handler, ModeOf

(* The steps of the slave's main thread that touch neither its registers   *)
(* nor its buffer.                                                         *)
LEMMA SlaveQuiet ==
  ASSUME FramesInv, SameBoard("M"),
         UNCHANGED <<phase, dir, sel, clocked, plan, flags["S"], tx["S"], rx["S"], mem["S"],
                     mode["S"], pbuff["S"], isr["S"]>>,
         SlaveBusy => SlaveBusy' /\ round'["S"] = round["S"],
         pc'["S"] \in {"busy", "addr"} => pc["S"] \in {"busy", "addr"}
  PROVE  FramesInv'
<1>1. SlaveKeeps /\ SlaveEnds /\ SlaveTx /\ MasterFresh /\ MasterTx /\ Contents
  BY DEF FramesInv
<1>2. /\ MasterFresh' /\ MasterTx'
      /\ WireRound' = WireRound /\ Stored("M")' = Stored("M")
  BY <1>1, MasterHalf
<1>3. /\ Served' = Served /\ Stored("S")' = Stored("S")
      /\ Served => round'["S"] = round["S"]
  BY <1>1 DEF Served, Stored, SlaveKeeps
<1>4. SlaveKeeps'
  BY <1>1, <1>3 DEF SlaveKeeps
<1>5. SlaveEnds'
  BY <1>1, <1>3 DEF SlaveEnds
<1>6. SlaveTx'
  BY <1>1, <1>3 DEF SlaveTx
<1>7. Contents'
  <2>1. phase' = "data" /\ dir' = "read" => Len(Stored("M")) = clocked'
    BY <1>1 DEF Contents
  <2>2. QED
    BY <1>1, <1>2, <1>3, <2>1, ContentsKept
<1>8. QED
  BY <1>2, <1>4, <1>5, <1>6, <1>7 DEF FramesInv

(* A call, an address or a reset: the slave follows no frame before it,    *)
(* and one from its beginning after it.                                    *)
LEMMA SlaveBegins ==
  ASSUME IInv, FramesInv, SameBoard("M"), UNCHANGED <<phase, dir, clocked, plan>>,
         StartCall("S") \/ SlaveClearAddr \/ i2c_config("S")
  PROVE  FramesInv'
<1>1. SlaveKeeps /\ SlaveEnds /\ SlaveTx /\ MasterFresh /\ MasterTx /\ Contents
  BY DEF FramesInv
<1>2. /\ "M" \in Node /\ "S" \in Node
      /\ flags \in [Node -> SUBSET Flags] /\ isr \in [Node -> {"none", "ackfail"}]
      /\ mode \in [Node -> Modes] /\ status \in [Node -> {"START", "END"}]
      /\ pbuff \in [Node -> Nat] /\ pc \in [Node -> MainPc] /\ round \in [Node -> Nat \ {0}]
      /\ mem \in [Node -> Seq(Byte)] /\ rx \in [Node -> Seq(Byte)] /\ tx \in [Node -> Seq(Byte)]
      /\ clocked \in Nat /\ plan \in Plans
  BY DEF IInv, TypeOK, HwTypeOK, SwTypeOK, Node
<1>3. /\ MasterFresh' /\ MasterTx'
      /\ WireRound' = WireRound /\ Stored("M")' = Stored("M")
  BY <1>1, MasterHalf
<1>4. Len(plan) \in Nat /\ 1 \in 1 .. Len(plan)
  <2>1. plan \in Seq(Round) /\ plan # <<>>
    BY <1>2, PlansAssumption
  <2>2. QED
    BY <2>1, EmptySeq
<1>5. mem["S"] \o <<>> = mem["S"] /\ <<>> \o <<>> = <<>> /\ mem["S"] \in Seq(Byte)
  BY <1>2, ConcatEmptySeq
<1>6. PICK j \in 1 .. Len(plan), m \in 0 .. Len(Stored("M")) : MasterHas(j, m)
  BY <1>1 DEF Contents
<1>7. phase' = "data" /\ dir' = "read" => Len(Stored("M")') = clocked'
  BY <1>1, <1>3 DEF Contents
<1>8. ASSUME ~Served'
      PROVE  MasterHas(j, m)'
  BY <1>3, <1>6, <1>8 DEF MasterHas
<1>9. pc["S"] \in {"idle", "busy", "addr"} =>
        ~Served /\ rx["S"] = <<>> /\ flags["S"] \cap {"STOPF", "ACKFAIL"} = {}
  BY <1>1 DEF SlaveKeeps, SlaveBusy, Returned
<1>10. CASE StartCall("S")
  <2>1. /\ UNCHANGED <<flags, tx, rx, sel, isr>> /\ pc["S"] = "idle" /\ isr["S"] = "none"
        /\ pc'["S"] = "busy" /\ mem'["S"] = <<>> /\ pbuff'["S"] = 0
    BY <1>2, <1>10 DEF StartCall, At, MainRuns, Goto, hwVars
  <2>2. ~Served' /\ rx'["S"] = <<>> /\ flags'["S"] \cap {"STOPF", "ACKFAIL"} = {}
    BY <1>9, <2>1 DEF Served
  <2>3. SlaveKeeps' /\ SlaveEnds'
    BY <2>1, <2>2 DEF SlaveKeeps, SlaveEnds
  <2>4. SlaveTx'
    BY <1>1, <2>1, <2>2 DEF SlaveTx
  <2>5. Stored("S")' = <<>> /\ Len(Stored("S")') = 0
    BY <1>5, <2>1, <2>2 DEF Stored
  <2>6. SlaveHas(1)'
    BY <2>2, <2>5 DEF SlaveHas
  <2>7. Contents'
    BY <1>3, <1>4, <1>6, <1>7, <1>8, <2>2, <2>6 DEF Contents
  <2>8. QED
    BY <1>3, <2>3, <2>4, <2>7 DEF FramesInv
<1>11. CASE SlaveClearAddr
  <2>1. /\ UNCHANGED <<tx, rx, mem, mode, pbuff, status, sel, isr, round>> /\ pc["S"] = "addr"
        /\ isr["S"] = "none" /\ "ADDR7F" \in flags["S"] /\ pc'["S"] = "enable"
        /\ flags'["S"] = flags["S"] \ {"ADDR7F"}
    BY <1>2, <1>11 DEF SlaveClearAddr, At, MainRuns, Goto, ClearFlags, busVars, handle, app
  <2>2. ~Served /\ rx["S"] = <<>> /\ mem["S"] = <<>> /\ flags'["S"] \cap {"STOPF", "ACKFAIL"} = {}
    BY <1>1, <1>9, <2>1 DEF SlaveKeeps
  <2>3. status["S"] = "START" /\ pbuff["S"] = 0 /\ round["S"] \in 1 .. Len(plan)
    BY <1>2, <2>1 DEF IInv, HandleInv, HandleOf
  <2>4. (Served' <=> sel) /\ SlaveBusy'
    BY <2>1, <2>3 DEF Served, SlaveBusy
  <2>5. SlaveKeeps' /\ SlaveEnds'
    BY <2>1, <2>2, <2>3, <2>4 DEF SlaveKeeps, SlaveEnds
  <2>6. sel => tx["S"] = <<>> /\ (phase = "data" => clocked = 0) /\ phase \notin {"start", "addr"}
    BY <1>1, <2>1 DEF SlaveTx
  <2>7. SlaveTx'
    BY <2>1, <2>3, <2>4, <2>6 DEF SlaveTx
  <2>8. Stored("S")' = <<>> /\ Len(Stored("S")') = 0
    BY <1>5, <2>1, <2>2 DEF Stored
  <2>9. \E k \in 1 .. Len(plan) : SlaveHas(k)'
    <3>1. CASE sel /\ phase = "data" /\ dir = "write"
      <4>1. PICK k : k = WireRound
        OBVIOUS
      <4>2. k \in 1 .. Len(plan)
        BY <1>1, <3>1, <4>1 DEF MasterTx
      <4>3. SlaveHas(k)'
        BY <1>3, <2>6, <2>8, <3>1, <4>1 DEF SlaveHas
      <4>4. QED
        BY <4>2, <4>3
    <3>2. CASE ~(sel /\ phase = "data" /\ dir = "write")
      <4>1. SlaveHas(1)'
        BY <2>4, <2>8, <3>2 DEF SlaveHas
      <4>2. QED
        BY <1>4, <4>1
    <3>3. QED
      BY <3>1, <3>2
  <2>10. \E k \in 1 .. Len(plan), l \in 0 .. Len(Stored("M")) : MasterHas(k, l)'
    <3>1. CASE sel /\ phase = "data" /\ dir = "read"
      <4>1. Len(Stored("M")) = 0
        BY <1>1, <2>6, <3>1 DEF Contents
      <4>2. PICK k : k = round["S"]
        OBVIOUS
      <4>3. MasterHas(k, 0)'
        BY <1>3, <2>1, <4>1, <4>2 DEF MasterHas
      <4>4. QED
        BY <2>3, <4>1, <4>2, <4>3
    <3>2. CASE ~(sel /\ phase = "data" /\ dir = "read")
      <4>1. MasterHas(j, m)'
        BY <1>3, <1>6, <2>4, <3>2 DEF MasterHas
      <4>2. QED
        BY <4>1
    <3>3. QED
      BY <3>1, <3>2
  <2>11. Contents'
    BY <1>3, <1>7, <2>9, <2>10 DEF Contents
  <2>12. QED
    BY <1>3, <2>5, <2>7, <2>11 DEF FramesInv
<1>12. CASE i2c_config("S")
  <2>1. /\ sel' = FALSE /\ UNCHANGED <<mem, mode, pbuff, isr>> /\ pc'["S"] = "idle" /\ isr["S"] = "none"
        /\ tx'["S"] = <<>> /\ rx'["S"] = <<>>
    BY <1>2, <1>12 DEF i2c_config, i2c_reset, At, MainRuns, Goto, handle
  <2>2. flags'["S"] \subseteq {"BUSYF"}
    <3>1. PICK b \in SUBSET {"BUSYF"} : flags' = [flags EXCEPT !["S"] = b]
      BY <1>12 DEF i2c_config, i2c_reset
    <3>2. QED
      BY <1>2, <3>1
  <2>3. ~Served'
    BY <2>1 DEF Served
  <2>4. SlaveKeeps' /\ SlaveEnds' /\ SlaveTx'
    BY <2>1, <2>2, <2>3 DEF SlaveKeeps, SlaveEnds, SlaveTx
  <2>5. Stored("S")' = mem["S"]
    BY <1>5, <2>1 DEF Stored
  <2>6. PICK k \in 1 .. Len(plan) : SlaveHas(k)
    BY <1>1 DEF Contents
  <2>7. \A i \in 1 .. Len(mem["S"]) : mem["S"][i] = <<k, i>>
    <3>1. rx["S"] \in Seq(Byte)
      BY <1>2
    <3>2. \A i \in 1 .. Len(mem["S"]) :
            i \in 1 .. Len(Stored("S")) /\ Stored("S")[i] = mem["S"][i]
      BY <1>5, <3>1, StoredParts DEF Stored
    <3>3. QED
      BY <2>6, <3>2 DEF SlaveHas
  <2>8. SlaveHas(k)'
    BY <2>3, <2>5, <2>7 DEF SlaveHas
  <2>9. Contents'
    BY <1>3, <1>6, <1>7, <1>8, <2>3, <2>6, <2>8 DEF Contents
  <2>10. QED
    BY <1>3, <2>4, <2>9 DEF FramesInv
<1>13. QED
  BY <1>10, <1>11, <1>12

(* The slave's main thread.                                                *)
LEMMA SlaveMainFrames ==
  ASSUME ResetOnError, IInv, FramesInv, Main("S")
  PROVE  FramesInv'
<1>1. /\ "M" \in Node /\ "S" \in Node /\ "M" # "S"
      /\ ctrl \in [Node -> SUBSET CtrlBits] /\ flags \in [Node -> SUBSET Flags]
      /\ status \in [Node -> {"START", "END"}]
      /\ pc \in [Node -> MainPc] /\ ret \in [Node -> Results] /\ round \in [Node -> Nat \ {0}]
      /\ error_code \in [Node -> Errors]
  BY DEF IInv, TypeOK, HwTypeOK, SwTypeOK, Node
<1>2. SameBoard("M") /\ UNCHANGED <<phase, dir, clocked, plan>>
  BY <1>1, OtherBoard DEF IInv
<1> DEFINE Still == UNCHANGED <<sel, flags["S"], tx["S"], rx["S"], mem["S"], mode["S"], pbuff["S"],
                                isr["S"], status["S"]>>
<1> USE <1>1 DEF hwVars, busVars, handle, app, At, Goto, Return, Fail
<1>3. CASE StartCall("S") \/ SlaveClearAddr \/ i2c_config("S")
  BY <1>2, <1>3, SlaveBegins
<1>4. CASE BusyTimeout("S") \/ SlaveListen \/ SlaveStepTimeout
  <2>1. /\ Still /\ UNCHANGED round /\ pc["S"] \in {"busy", "addr"}
    BY <1>4 DEF BusyTimeout, SlaveListen, SlaveStepTimeout
  <2>2. ~SlaveBusy
    BY <2>1 DEF SlaveBusy, Returned
  <2>3. QED
    BY <1>2, <2>1, <2>2, SlaveQuiet
<1>5. CASE EnableInterrupts("S")
  <2>1. /\ Still /\ UNCHANGED <<round, error_code, ret>> /\ pc["S"] = "enable" /\ pc'["S"] = "wait_end"
    BY <1>5 DEF EnableInterrupts
  <2>2. SlaveBusy => SlaveBusy'
    BY <2>1 DEF SlaveBusy, Returned
  <2>3. QED
    BY <1>2, <2>1, <2>2, SlaveQuiet
<1>6. CASE i2c_wait_end("S")
  <2>1. /\ Still /\ UNCHANGED <<round, error_code>> /\ pc["S"] = "wait_end" /\ pc'["S"] = "returned"
        /\ \/ status["S"] = "END" /\ ret'["S"] = error_code["S"]
           \/ ret'["S"] = "TIMEOUT"
    BY <1>6, SMTT(30) DEF i2c_wait_end
  <2>2. SlaveBusy => SlaveBusy'
    BY <2>1 DEF SlaveBusy, Returned
  <2>3. QED
    BY <1>2, <2>1, <2>2, SlaveQuiet
<1>7. CASE NextRound("S")
  <2>1. /\ Still /\ pc["S"] = "returned" /\ ret["S"] = "OK" /\ pc'["S"] \in {"idle", "done"}
    BY <1>7, SMTT(30) DEF NextRound
  <2>2. ~SlaveBusy
    BY <2>1 DEF SlaveBusy, Returned
  <2>3. QED
    BY <1>2, <2>1, <2>2, SlaveQuiet
<1>8. ~Retry("S")
  BY DEF Retry
<1>9. CASE GiveUp("S")
  <2>1. /\ Still /\ UNCHANGED <<round, ret>> /\ pc["S"] = "returned" /\ pc'["S"] = "gave_up"
    BY <1>9 DEF GiveUp
  <2>2. SlaveBusy => SlaveBusy'
    BY <2>1 DEF SlaveBusy, Returned
  <2>3. QED
    BY <1>2, <2>1, <2>2, SlaveQuiet
<1>10. QED
  BY <1>3, <1>4, <1>5, <1>6, <1>7, <1>8, <1>9 DEF Main, SlaveMain

(* The slave's handlers: a byte sent is the next one of the call's round,  *)
(* a byte read is in the buffer, and the end of a call is the end of the   *)
(* frame that it served or an error.                                       *)
LEMMA SlaveHandlerFrames ==
  ASSUME IInv, FramesInv, Handler("S")
  PROVE  FramesInv'
<1>1. /\ TypeOK /\ HandleInv /\ InterruptInv
      /\ SlaveKeeps /\ SlaveEnds /\ SlaveTx /\ MasterFresh /\ MasterTx /\ Contents
  BY DEF FramesInv, IInv
<1>2. /\ "M" \in Node /\ "S" \in Node /\ "M" # "S"
      /\ flags \in [Node -> SUBSET Flags]
      /\ status \in [Node -> {"START", "END"}] /\ pbuff \in [Node -> Nat]
      /\ tx \in [Node -> Seq(Byte)] /\ rx \in [Node -> Seq(Byte)] /\ mem \in [Node -> Seq(Byte)]
      /\ round \in [Node -> Nat \ {0}] /\ clocked \in Nat
      /\ isr \in [Node -> {"none", "ackfail"}] /\ pc \in [Node -> MainPc]
      /\ error_code \in [Node -> Errors]
  BY <1>1 DEF TypeOK, HwTypeOK, SwTypeOK, Node
<1>3. SameBoard("M") /\ UNCHANGED <<phase, dir, clocked, plan>>
  BY <1>1, <1>2, OtherBoard
<1>4. UNCHANGED <<pc, ret, round, mode, sel>>
  BY DEF Handler, i2c_evt_irq_handler, SlaveTxEnd, i2c_err_irq_handler, app, busVars
<1>5. /\ pc["S"] = "wait_end" \/ (Returned("S") /\ ret["S"] # "OK")
      /\ pc["S"] \notin {"busy", "addr"} /\ status["S"] = "START" /\ SlaveBusy
      /\ mode["S"] \in {"I2C_INT_SLA_RX", "I2C_INT_SLA_TX"}
  <2>1. ints["S"] # {} \/ isr["S"] # "none"
    BY <1>2 DEF Handler, i2c_evt_irq_handler, SlaveTxEnd, i2c_err_irq_handler, EvtRequest, ErrRequest
  <2>2. HandlersTurn("S") /\ InCall("S") /\ mode["S"] = ModeOf("S")
    BY <1>1, <1>2, <2>1, HandlerContext
  <2>3. QED
    BY <2>2 DEF HandlersTurn, Returned, SlaveBusy, ModeOf
<1>6. /\ MasterFresh' /\ MasterTx'
      /\ WireRound' = WireRound /\ Stored("M")' = Stored("M")
  BY <1>1, <1>3, MasterHalf
<1>7. ASSUME Stored("S")' = Stored("S"), Served' => Served
      PROVE  Contents'
  <2>1. phase' = "data" /\ dir' = "read" => Len(Stored("M")) = clocked'
    BY <1>1, <1>3 DEF Contents
  <2>2. QED
    BY <1>1, <1>3, <1>4, <1>6, <1>7, <2>1, ContentsKept
<1> USE <1>2 DEF ClearFlags, TransferComplete, Fail
<1>8. CASE i2c_evt_irq_handler("S") /\ mode["S"] = "I2C_INT_SLA_TX"
  <2>1. /\ i2c_slave_tx_isr_int("S") /\ TDBE("S") /\ UNCHANGED <<flags, rx, mem, status, error_code>>
        /\ pbuff'["S"] = pbuff["S"] + 1
        /\ tx' = [tx EXCEPT !["S"] = Append(@, <<round["S"], pbuff["S"] + 1>>)]
    BY <1>8 DEF i2c_evt_irq_handler, i2c_slave_tx_isr_int, SendData, i2c_data_send
  <2>2. Served /\ Served' /\ dir = "read" /\ rx["S"] = <<>> /\ flags["S"] \cap {"STOPF", "ACKFAIL"} = {}
    <3>1. dir \in {"write", "read"}
      BY <1>1 DEF TypeOK, HwTypeOK
    <3>2. sel /\ "ADDR7F" \notin flags["S"] /\ dir = "read"
      BY <2>1, <3>1 DEF TDBE, Transmitting
    <3>3. QED
      BY <1>1, <1>4, <2>1, <3>2 DEF Served, SlaveEnds
  <2>3. SlaveBusy'
    BY <1>4, <1>5, <2>1 DEF SlaveBusy, Returned
  <2>4. pbuff'["S"] # 0
    BY <2>1
  <2>5. SlaveKeeps' /\ SlaveEnds'
    BY <1>3, <1>4, <1>5, <1>8, <2>1, <2>2, <2>3, <2>4 DEF SlaveKeeps, SlaveEnds
  <2>6. /\ tx'["S"] = Append(tx["S"], <<round["S"], pbuff["S"] + 1>>)
        /\ <<round["S"], pbuff["S"] + 1>> \in Byte
    <3>1. tx'["S"] = Append(tx["S"], <<round["S"], pbuff["S"] + 1>>)
      BY <2>1
    <3>2. round["S"] \in Nat /\ pbuff["S"] + 1 \in Nat
      OBVIOUS
    <3>3. QED
      BY <3>1, <3>2 DEF Byte
  <2>7. /\ Len(tx'["S"]) = Len(tx["S"]) + 1 /\ Len(tx["S"]) \in Nat
        /\ tx'["S"][Len(tx["S"]) + 1] = <<round["S"], pbuff["S"] + 1>>
        /\ \A i \in 1 .. Len(tx["S"]) : tx'["S"][i] = tx["S"][i]
    <3>1. PICK s \in Seq(Byte) : s = tx["S"]
      OBVIOUS
    <3>2. PICK b \in Byte : b = <<round["S"], pbuff["S"] + 1>>
      BY <2>6
    <3>3. /\ Len(Append(s, b)) = Len(s) + 1 /\ Len(s) \in Nat
          /\ Append(s, b)[Len(s) + 1] = b
          /\ \A i \in 1 .. Len(s) : Append(s, b)[i] = s[i]
      BY AppendProperties
    <3>4. QED
      BY <2>6, <3>1, <3>2, <3>3
  <2>8. ASSUME phase = "data"
        PROVE  /\ \A i \in 1 .. Len(tx'["S"]) : tx'["S"][i] = <<round["S"], clocked + i>>
               /\ clocked + Len(tx'["S"]) = pbuff'["S"]
    <3>1. /\ \A i \in 1 .. Len(tx["S"]) : tx["S"][i] = <<round["S"], clocked + i>>
          /\ clocked + Len(tx["S"]) = pbuff["S"]
      BY <1>1, <1>8, <2>2, <2>8 DEF SlaveTx
    <3>2. <<round["S"], pbuff["S"] + 1>> = <<round["S"], clocked + (Len(tx["S"]) + 1)>>
      BY <3>1
    <3>3. ASSUME NEW i \in 1 .. Len(tx'["S"])
          PROVE  tx'["S"][i] = <<round["S"], clocked + i>>
      <4>1. i \in 1 .. Len(tx["S"]) \/ i = Len(tx["S"]) + 1
        <5>1. PICK a \in Nat : a = Len(tx["S"])
          BY <2>7
        <5>2. i \in 1 .. a + 1
          BY <2>7, <5>1
        <5>3. i \in 1 .. a \/ i = a + 1
          BY <5>2
        <5>4. QED
          BY <5>1, <5>3
      <4>2. QED
        BY <2>7, <3>1, <3>2, <4>1
    <3>4. clocked + Len(tx'["S"]) = pbuff'["S"]
      BY <2>1, <2>7, <3>1
    <3>5. QED
      BY <3>3, <3>4
  <2>9. SlaveTx'
    BY <1>1, <1>3, <1>4, <1>8, <2>1, <2>2, <2>8 DEF SlaveTx, Served
  <2>10. Contents'
    BY <1>7, <2>1, <2>2 DEF Stored
  <2>11. QED
    BY <1>6, <2>5, <2>9, <2>10 DEF FramesInv
<1>9. CASE i2c_evt_irq_handler("S") /\ mode["S"] = "I2C_INT_SLA_RX"
  <2>1. i2c_slave_rx_isr_int("S") /\ UNCHANGED <<tx, isr, error_code>>
    BY <1>9 DEF i2c_evt_irq_handler, i2c_slave_rx_isr_int
  <2>2. CASE RDBF("S")
    <3>1. /\ UNCHANGED <<flags, status>> /\ rx["S"] # <<>>
          /\ mem'["S"] = mem["S"] \o Received("S", 1)
          /\ rx'["S"] = SubSeq(rx["S"], 2, Len(rx["S"]))
      <4>1. ReadData("S", 1) /\ UNCHANGED <<flags, status>> /\ rx["S"] # <<>>
        BY <2>1, <2>2 DEF i2c_slave_rx_isr_int, RDBF
      <4>2. /\ mem' = [mem EXCEPT !["S"] = @ \o Received("S", 1)]
            /\ rx' = [rx EXCEPT !["S"] = SubSeq(@, 1 + 1, Len(@))]
        BY <4>1 DEF ReadData, i2c_data_receive
      <4>3. mem'["S"] = mem["S"] \o Received("S", 1)
        BY <4>2
      <4>4. rx'["S"] = SubSeq(rx["S"], 1 + 1, Len(rx["S"])) /\ 1 + 1 = 2
        BY <4>2
      <4>5. QED
        BY <4>1, <4>3, <4>4
    <3>2. SlaveBusy' /\ Served' = Served /\ ~(Served /\ dir = "read")
      BY <1>1, <1>4, <1>5, <2>1, <3>1 DEF SlaveBusy, Returned, Served, SlaveEnds
    <3>3. SlaveKeeps' /\ SlaveEnds' /\ SlaveTx'
      BY <1>1, <1>3, <1>4, <1>5, <1>9, <2>1, <3>1, <3>2 DEF SlaveKeeps, SlaveEnds, SlaveTx, Served
    <3>4. Stored("S")' = Stored("S")
      <4>1. /\ mem["S"] \in Seq(Byte) /\ rx["S"] \in Seq(Byte) /\ 1 \in 0 .. Len(rx["S"])
            /\ 1 + 1 = 2
        BY <3>1, EmptySeq
      <4>2. (mem["S"] \o Received("S", 1)) \o SubSeq(rx["S"], 1 + 1, Len(rx["S"]))
              = mem["S"] \o rx["S"]
        BY <4>1, ReadKeepsStored, ZenonT(40) DEF Received
      <4>3. QED
        BY <3>1, <4>1, <4>2 DEF Stored
    <3>5. QED
      BY <1>6, <1>7, <3>2, <3>3, <3>4 DEF FramesInv
  <2>3. CASE ~RDBF("S")
    <3>1. /\ rx["S"] = <<>> /\ "STOPF" \in flags["S"] /\ UNCHANGED <<rx, mem, pbuff>>
          /\ flags'["S"] = flags["S"] \ {"STOPF"}
      BY <2>1, <2>3 DEF i2c_slave_rx_isr_int, RDBF
    <3>2. ~Served /\ ~Served' /\ flags'["S"] \cap {"STOPF", "ACKFAIL"} = {}
      BY <1>1, <1>4, <1>9, <3>1 DEF SlaveEnds, Served
    <3>3. SlaveKeeps' /\ SlaveEnds' /\ SlaveTx'
      BY <1>1, <1>3, <1>4, <1>5, <1>9, <2>1, <3>1, <3>2 DEF SlaveKeeps, SlaveEnds, SlaveTx
    <3>4. QED
      BY <1>6, <1>7, <3>1, <3>2, <3>3 DEF FramesInv, Stored
  <2>4. QED
    BY <2>2, <2>3
<1>10. CASE SlaveTxEnd("S")
  <2>1. /\ isr["S"] # "none" /\ isr'["S"] = "none" /\ UNCHANGED <<tx, rx, mem, pbuff>>
        /\ flags'["S"] = flags["S"] \ {"ACKFAIL"}
    BY <1>10 DEF SlaveTxEnd
  <2>2. /\ mode["S"] = "I2C_INT_SLA_TX" /\ pbuff["S"] # 0
        /\ rx["S"] = <<>> /\ flags'["S"] \cap {"STOPF", "ACKFAIL"} = {}
    BY <1>1, <2>1 DEF SlaveEnds
  <2>3. (Served' <=> Served) /\ (Served => SlaveBusy')
    <3>1. Served' <=> Served
      BY <1>4, <2>1 DEF Served
    <3>2. CASE "ACKFAIL" \in flags["S"]
      BY <1>1, <3>1, <3>2 DEF SlaveEnds
    <3>3. CASE error_code'["S"] = "TIMEOUT"
      BY <1>4, <1>5, <3>1, <3>3 DEF SlaveBusy, Returned
    <3>4. QED
      BY <1>10, <3>2, <3>3 DEF SlaveTxEnd
  <2>4. SlaveKeeps' /\ SlaveEnds'
    BY <1>1, <1>3, <1>4, <1>5, <2>1, <2>2, <2>3 DEF SlaveKeeps, SlaveEnds
  <2>5. SlaveTx'
    BY <1>1, <1>3, <1>4, <2>1, <2>3 DEF SlaveTx
  <2>6. QED
    BY <1>6, <1>7, <2>1, <2>3, <2>4, <2>5 DEF FramesInv, Stored
<1>11. CASE i2c_err_irq_handler("S")
  <2>1. /\ isr["S"] = "none" /\ UNCHANGED <<isr, tx, rx, mem, pbuff, status>>
        /\ flags'["S"] = flags["S"] \ {"BUSERR", "ACKFAIL"} /\ error_code'["S"] = "INTERRUPT"
    BY <1>11 DEF i2c_err_irq_handler
  <2>2. (Served' <=> Served) /\ SlaveBusy'
    BY <1>4, <1>5, <2>1 DEF Served, SlaveBusy, Returned
  <2>3. SlaveKeeps' /\ SlaveEnds'
    BY <1>1, <1>3, <1>4, <1>5, <2>1, <2>2 DEF SlaveKeeps, SlaveEnds
  <2>4. SlaveTx'
    BY <1>1, <1>3, <1>4, <2>1, <2>2 DEF SlaveTx
  <2>5. QED
    BY <1>6, <1>7, <2>1, <2>2, <2>3, <2>4 DEF FramesInv, Stored
<1>12. QED
  BY <1>5, <1>8, <1>9, <1>10, <1>11 DEF Handler, i2c_evt_irq_handler

(* What the bus cannot change.                                             *)
LEMMA QuietFrames ==
  ASSUME Quiet
  PROVE  /\ UNCHANGED <<mode, status, error_code, pbuff, mem, pc, isr, ret, plan, round>>
         /\ WireRound' = WireRound /\ SlaveBusy' = SlaveBusy /\ InData' = InData
         /\ Returned("M")' = Returned("M")
<1>1. UNCHANGED <<mode, status, error_code, pbuff, mem, pc, isr, ret, plan, round>>
  BY DEF Quiet, handle, app
<1>2. QED
  BY <1>1 DEF WireRound, SlaveBusy, InData, Returned

(* A START, a refused address, a STOP and a disturbance move no byte, and  *)
(* the slave follows no frame after them that it did not follow before.    *)
LEMMA EndsOfFrames ==
  ASSUME IInv, FramesInv, Quiet,
         HwStart \/ HwAddrNack \/ HwStop \/ \E n \in Node : HwBusErr(n)
  PROVE  FramesInv'
<1>1. SlaveKeeps /\ SlaveEnds /\ SlaveTx /\ MasterFresh /\ MasterTx /\ Contents
  BY DEF FramesInv
<1>2. /\ "M" \in Node /\ "S" \in Node /\ Node = {"M", "S"}
      /\ ctrl \in [Node -> SUBSET CtrlBits] /\ flags \in [Node -> SUBSET Flags]
  BY DEF IInv, TypeOK, HwTypeOK, Node
<1>3. /\ UNCHANGED <<mode, status, error_code, pbuff, mem, pc, isr, ret, plan, round>>
      /\ WireRound' = WireRound /\ SlaveBusy' = SlaveBusy /\ InData' = InData
      /\ Returned("M")' = Returned("M")
  BY QuietFrames
<1>4. /\ UNCHANGED <<tx, rx, dir>> /\ (sel' => sel) /\ (phase' # phase => clocked' = clocked \/ phase' # "data")
      /\ Stored("M")' = Stored("M") /\ Stored("S")' = Stored("S")
  <2>1. /\ UNCHANGED <<tx, rx, dir>> /\ (sel' => sel)
        /\ (phase' # phase => clocked' = clocked \/ phase' # "data")
    BY DEF HwStart, HwAddrNack, HwStop, HwBusErr, busVars
  <2>2. QED
    BY <1>3, <2>1 DEF Stored
<1>5. phase' = "data" => phase = "data" /\ clocked' = clocked /\ sel' = sel
  BY DEF HwStart, HwAddrNack, HwStop, HwBusErr, busVars
<1>6. Contents'
  <2>1. Served' /\ phase' = "data" => Served
    <3>1. CASE HwStop
      BY <3>1 DEF HwStop, Served
    <3>2. CASE ~HwStop
      <4>1. "ADDR7F" \in flags["S"] => "ADDR7F" \in flags'["S"]
        BY <1>2, <3>2, SMTT(30) DEF HwStart, HwAddrNack, HwBusErr
      <4>2. QED
        BY <1>4, <4>1 DEF Served
    <3>3. QED
      BY <3>1, <3>2
  <2>2. phase' = "data" /\ dir' = "read" => Len(Stored("M")) = clocked'
    BY <1>1, <1>4, <1>5 DEF Contents
  <2>3. QED
    BY <1>1, <1>3, <1>4, <1>5, <2>1, <2>2, ContentsKept
<1>7. MasterFresh' /\ MasterTx'
  <2>1. /\ "GENSTART" \in ctrl'["M"] => "GENSTART" \in ctrl["M"] /\ phase' = phase
        /\ phase' \in {"start", "addr"} => "GENSTART" \in ctrl["M"] \/ phase' = phase
        /\ "ADDR7F" \in flags'["M"] => "ADDR7F" \in flags["M"]
    <3>1. CASE HwStart
      BY <1>2, <3>1 DEF HwStart
    <3>2. CASE HwAddrNack
      BY <1>1, <1>2, <3>2 DEF HwAddrNack, MasterFresh
    <3>3. CASE HwStop
      <4>1. phase' = "free" /\ ctrl'["M"] = ctrl["M"] \ {"GENSTOP"}
        BY <1>2, <3>3 DEF HwStop
      <4>2. "ADDR7F" \notin flags'["M"]
        BY <1>2, <3>3, SMTT(30) DEF HwStop
      <4>3. "GENSTART" \in ctrl["M"] => phase = "free"
        BY <1>1 DEF MasterFresh
      <4>4. QED
        BY <4>1, <4>2, <4>3
    <3>4. CASE \E n \in Node : HwBusErr(n)
      BY <1>2, <3>4, SMTT(30) DEF HwBusErr, busVars
    <3>5. QED
      BY <3>1, <3>2, <3>3, <3>4
  <2>2. MasterFresh'
    BY <1>1, <1>3, <1>4, <2>1 DEF MasterFresh
  <2>3. MasterTx'
    BY <1>1, <1>3, <1>4, <1>5, <2>1 DEF MasterTx
  <2>4. QED
    BY <2>2, <2>3
<1>8. SlaveKeeps' /\ SlaveEnds' /\ SlaveTx'
  <2>1. CASE HwStop
    <3>1. /\ sel' = FALSE /\ ~SlaveStretches
          /\ flags'["S"] = (flags["S"] \ {"BUSYF"}) \cup IF sel /\ dir = "write" THEN {"STOPF"} ELSE {}
      BY <1>2, <2>1, SMTT(30) DEF HwStop
    <3>2. ~Served' /\ (sel => Served)
      BY <3>1 DEF Served, SlaveStretches
    <3>3. SlaveKeeps' /\ SlaveEnds' /\ SlaveTx'
      BY <1>1, <1>3, <1>4, <3>1, <3>2 DEF SlaveKeeps, SlaveEnds, SlaveTx
    <3>4. QED
      BY <3>3
  <2>2. CASE HwStart \/ HwAddrNack \/ \E n \in Node : HwBusErr(n)
    <3>1. SlaveSame
      <4>1. \A f \in {"STOPF", "ACKFAIL", "ADDR7F"} : f \in flags'["S"] <=> f \in flags["S"]
        BY <1>2, <2>2, SMTT(30) DEF HwStart, HwAddrNack, HwBusErr
      <4>2. QED
        BY <1>3, <1>4, <4>1 DEF SlaveSame
    <3>2. sel' => phase' = phase \/ phase' = "closing"
      BY <1>1, <2>2 DEF HwStart, HwAddrNack, HwBusErr, busVars, SlaveTx
    <3>3. sel' => sel /\ phase \notin {"start", "addr"}
      BY <1>1, <1>4 DEF SlaveTx
    <3>4. QED
      BY <1>1, <1>4, <1>5, <3>1, <3>2, <3>3, SlaveHalf
  <2>3. QED
    BY <2>1, <2>2
<1>9. QED
  BY <1>6, <1>7, <1>8 DEF FramesInv

(* An acknowledged address begins a frame with nothing stored and nothing  *)
(* sent on either side, in a round that the script has.                    *)
LEMMA AddressFrames ==
  ASSUME IInv, FramesInv, Quiet, HwAddrAck
  PROVE  FramesInv'
<1>1. SlaveKeeps /\ SlaveEnds /\ SlaveTx /\ MasterFresh /\ MasterTx /\ Contents
  BY DEF FramesInv
<1>2. /\ "M" \in Node /\ "S" \in Node
      /\ flags \in [Node -> SUBSET Flags]
  BY DEF IInv, TypeOK, HwTypeOK, Node
<1>3. /\ UNCHANGED <<mode, status, error_code, pbuff, mem, pc, isr, ret, plan, round>>
      /\ WireRound' = WireRound /\ SlaveBusy' = SlaveBusy /\ InData' = InData
      /\ Returned("M")' = Returned("M")
  BY QuietFrames
<1>4. /\ phase = "addr" /\ phase' = "data" /\ sel' = TRUE /\ clocked' = 0
      /\ UNCHANGED <<ctrl, rx, dir>>
      /\ tx'["M"] = <<>> /\ tx'["S"] = <<>>
      /\ flags'["S"] = flags["S"] \cup {"ADDR7F"}
  BY <1>2 DEF HwAddrAck
<1>5. ~Served' /\ ~sel
  BY <1>1, <1>4 DEF Served, SlaveTx
<1>6. SlaveKeeps' /\ SlaveEnds' /\ SlaveTx'
  BY <1>1, <1>3, <1>4, <1>5 DEF SlaveKeeps, SlaveEnds, SlaveTx
<1>7. Stored("M")' = Stored("M") /\ Stored("S")' = Stored("S") /\ Len(Stored("M")) = 0
  BY <1>1, <1>3, <1>4 DEF Stored, MasterFresh
<1>8. MasterFresh'
  BY <1>1, <1>3, <1>4 DEF MasterFresh
<1>9. WireRound \in 1 .. Len(plan) /\ ~InData
  <2>1. ~Resting
    BY <1>4 DEF IInv, MasterInv, RestInv, AtRest
  <2>2. ~InData
    <3>1. ASSUME InData
          PROVE  FALSE
      <4>1. InCall("M")
        BY <3>1 DEF InData, InCall
      <4>2. mode["M"] = ModeOf("M")
        BY <1>2, <4>1 DEF IInv, HandleInv, HandleOf
      <4>3. mode["M"] \in {"I2C_INT_MA_TX", "I2C_INT_MA_RX"}
        BY <4>2 DEF ModeOf
      <4>4. QED
        BY <1>4, <3>1, <4>3 DEF IInv, MasterInv, WriteInv, ReadInv
    <3>2. QED
      BY <3>1
  <2>3. round["M"] \in 1 .. Len(plan)
    BY <1>2, <2>1 DEF Resting, IInv, HandleInv, HandleOf
  <2>4. WireRound = round["M"]
    BY <1>1, <1>4, <2>1 DEF WireRound, Resting, MasterFresh
  <2>5. QED
    BY <2>2, <2>3, <2>4
<1>10. MasterTx'
  BY <1>3, <1>4, <1>9 DEF MasterTx
<1>11. Contents'
  BY <1>1, <1>3, <1>4, <1>5, <1>7, ContentsKept
<1>12. QED
  BY <1>6, <1>8, <1>10, <1>11 DEF FramesInv

(* The bytes behind the one that goes out, and the one that does.          *)
LEMMA NextOut ==
  ASSUME NEW s \in Seq(Byte), s # <<>>, NEW k \in Nat, NEW c \in Nat,
         \A i \in 1 .. Len(s) : s[i] = <<k, c + i>>
  PROVE  /\ Head(s) = <<k, c + 1>> /\ Len(Tail(s)) = Len(s) - 1 /\ Len(s) \in Nat
         /\ \A i \in 1 .. Len(Tail(s)) : Tail(s)[i] = <<k, (c + 1) + i>>
<1>1. /\ Len(Tail(s)) = Len(s) - 1
      /\ \A i \in 1 .. Len(Tail(s)) : Tail(s)[i] = s[i + 1]
  BY HeadTailProperties
<1>2. Head(s) = s[1] /\ 1 \in 1 .. Len(s) /\ Len(s) \in Nat
  BY EmptySeq
<1>3. ASSUME NEW i \in 1 .. Len(Tail(s))
      PROVE  Tail(s)[i] = <<k, (c + 1) + i>>
  <2>1. i + 1 \in 1 .. Len(s) /\ c + (i + 1) = (c + 1) + i
    BY <1>1, <1>2
  <2>2. QED
    BY <1>1, <2>1
<1>4. QED
  BY <1>1, <1>2, <1>3

(* What a node has stored after a byte has come in.                        *)
LEMMA ByteArrives ==
  ASSUME NEW s \in Seq(Byte), NEW t \in Seq(Byte), NEW e \in Byte
  PROVE  /\ Len(s \o Append(t, e)) = Len(s \o t) + 1 /\ Len(s \o t) \in Nat
         /\ (s \o Append(t, e))[Len(s \o t) + 1] = e
         /\ \A i \in 1 .. Len(s \o t) : (s \o Append(t, e))[i] = (s \o t)[i]
<1>1. s \o t \in Seq(Byte)
  OBVIOUS
<1>2. s \o Append(t, e) = Append(s \o t, e)
  BY ArrivesBehind
<1>3. QED
  BY <1>1, <1>2, AppendProperties

(* The same of the state, when a byte comes in.                            *)
LEMMA ByteStored ==
  ASSUME NEW n \in Node, NEW e \in Byte, TypeOK, mem'[n] = mem[n], rx'[n] = Append(rx[n], e)
  PROVE  /\ Len(Stored(n)) \in Nat /\ Len(Stored(n)') = Len(Stored(n)) + 1
         /\ Stored(n)'[Len(Stored(n)) + 1] = e
         /\ \A i \in 1 .. Len(Stored(n)) : Stored(n)'[i] = Stored(n)[i]
<1>1. mem[n] \in Seq(Byte) /\ rx[n] \in Seq(Byte)
  BY DEF TypeOK, HwTypeOK, SwTypeOK
<1>2. PICK s \in Seq(Byte) : s = mem[n]
  BY <1>1
<1>3. PICK t \in Seq(Byte) : t = rx[n]
  BY <1>1
<1>4. PICK v : v = s \o t
  OBVIOUS
<1>5. PICK u : u = s \o Append(t, e)
  OBVIOUS
<1>6. /\ Len(u) = Len(v) + 1 /\ Len(v) \in Nat /\ u[Len(v) + 1] = e
      /\ \A i \in 1 .. Len(v) : u[i] = v[i]
  <2>1. /\ Len(s \o Append(t, e)) = Len(s \o t) + 1 /\ Len(s \o t) \in Nat
        /\ (s \o Append(t, e))[Len(s \o t) + 1] = e
        /\ \A i \in 1 .. Len(s \o t) : (s \o Append(t, e))[i] = (s \o t)[i]
    BY ByteArrives
  <2>2. QED
    BY <1>4, <1>5, <2>1
<1>7. Stored(n)' = u /\ Stored(n) = v
  BY <1>2, <1>3, <1>4, <1>5 DEF Stored
<1>8. QED
  BY <1>6, <1>7

(* A byte of a write: the slave stores what the master's call sent, behind *)
(* what it has of that call.                                               *)
LEMMA WriteByteFrames ==
  ASSUME IInv, FramesInv, Quiet, NEW lost \in BOOLEAN, HwWriteByte(lost)
  PROVE  FramesInv'
<1>1. SlaveKeeps /\ SlaveEnds /\ SlaveTx /\ MasterFresh /\ MasterTx /\ Contents
  BY DEF FramesInv
<1>2. /\ "M" \in Node /\ "S" \in Node /\ "M" # "S"
      /\ flags \in [Node -> SUBSET Flags] /\ clocked \in Nat
      /\ tx \in [Node -> Seq(Byte)] /\ rx \in [Node -> Seq(Byte)] /\ mem \in [Node -> Seq(Byte)]
      /\ round \in [Node -> Nat \ {0}] /\ plan \in Plans
  BY DEF IInv, TypeOK, HwTypeOK, SwTypeOK, Node
<1>3. /\ UNCHANGED <<mode, status, error_code, pbuff, mem, pc, isr, ret, plan, round>>
      /\ WireRound' = WireRound /\ SlaveBusy' = SlaveBusy /\ InData' = InData
      /\ Returned("M")' = Returned("M")
  BY QuietFrames
<1>4. /\ phase = "data" /\ dir = "write" /\ "ADDR7F" \notin flags["M"] /\ tx["M"] # <<>>
      /\ ~SlaveStretches /\ clocked' = clocked + 1 /\ phase' \in {"data", "closing"}
      /\ UNCHANGED <<ctrl, dir, sel>>
      /\ tx'["M"] = Tail(tx["M"]) \/ phase' = "closing"
      /\ UNCHANGED <<rx["M"], tx["S"], flags["S"]>>
      /\ sel \/ phase' = "closing"
      /\ "ADDR7F" \notin flags'["M"]
  BY <1>2, SMTT(30) DEF HwWriteByte
<1>5. WireRound \in 1 .. Len(plan) /\ WireRound \in Nat
  BY <1>1, <1>4 DEF MasterTx
<1>6. /\ Head(tx["M"]) = <<WireRound, clocked + 1>>
      /\ Len(Tail(tx["M"])) = Len(tx["M"]) - 1 /\ Len(tx["M"]) \in Nat
      /\ \A i \in 1 .. Len(Tail(tx["M"])) : Tail(tx["M"])[i] = <<WireRound, (clocked + 1) + i>>
  <2>1. tx["M"] \in Seq(Byte) /\ \A i \in 1 .. Len(tx["M"]) : tx["M"][i] = <<WireRound, clocked + i>>
    BY <1>1, <1>2, <1>4 DEF MasterTx
  <2>2. QED
    BY <1>2, <1>4, <1>5, <2>1, NextOut
<1>7. MasterFresh'
  <2>1. Stored("M")' = Stored("M")
    BY <1>3, <1>4 DEF Stored
  <2>2. QED
    BY <1>1, <1>3, <1>4, <2>1 DEF MasterFresh
<1>8. MasterTx'
  <2>1. CASE phase' = "closing"
    BY <1>4, <2>1 DEF MasterTx
  <2>2. CASE tx'["M"] = Tail(tx["M"])
    <3>1. InData => clocked + Len(tx["M"]) = pbuff["M"]
      BY <1>1, <1>4 DEF MasterTx
    <3>2. InData' => clocked' + Len(tx'["M"]) = pbuff'["M"]
      BY <1>2, <1>3, <1>4, <1>6, <2>2, <3>1
    <3>3. QED
      BY <1>3, <1>4, <1>5, <1>6, <2>2, <3>2 DEF MasterTx
  <2>3. QED
    BY <1>4, <2>1, <2>2
<1>9. CASE ~sel
  <2>1. rx' = rx
    BY <1>9 DEF HwWriteByte
  <2>2. SlaveSame
    BY <1>3, <1>4, <2>1 DEF SlaveSame
  <2>3. SlaveKeeps' /\ SlaveEnds' /\ SlaveTx'
    BY <1>1, <1>4, <1>9, <2>2, SlaveHalf
  <2>4. Stored("M")' = Stored("M") /\ Stored("S")' = Stored("S") /\ phase' = "closing"
    BY <1>3, <1>4, <1>9, <2>1 DEF Stored
  <2>5. Contents'
    BY <1>1, <1>3, <2>4, ContentsKept
  <2>6. QED
    BY <1>7, <1>8, <2>3, <2>5 DEF FramesInv
<1>10. CASE sel
  <2>1. Served /\ (Served' <=> Served) /\ SlaveBusy
    BY <1>1, <1>4, <1>10 DEF Served, SlaveStretches, SlaveKeeps
  <2>2. rx'["S"] = Append(rx["S"], <<WireRound, clocked + 1>>)
    BY <1>2, <1>6, <1>10 DEF HwWriteByte
  <2>3. SlaveKeeps' /\ SlaveEnds'
    BY <1>1, <1>3, <1>4, <2>1, <2>2 DEF SlaveKeeps, SlaveEnds
  <2>4. SlaveTx'
    BY <1>1, <1>3, <1>4, <2>1 DEF SlaveTx, Served
  <2>5. PICK k \in 1 .. Len(plan) : SlaveHas(k)
    BY <1>1 DEF Contents
  <2>6. k = WireRound /\ Len(Stored("S")) = clocked
    BY <1>4, <2>1, <2>5 DEF SlaveHas
  <2>7. /\ Len(Stored("S")') = clocked + 1
        /\ Stored("S")'[clocked + 1] = <<k, clocked + 1>>
        /\ \A i \in 1 .. clocked : Stored("S")'[i] = Stored("S")[i]
    <3>1. PICK e \in Byte : e = <<k, clocked + 1>>
      <4>1. k \in Nat /\ clocked + 1 \in Nat
        BY <1>2, <1>5, <2>6
      <4>2. QED
        BY <4>1 DEF Byte
    <3>2. rx'["S"] = Append(rx["S"], e) /\ mem'["S"] = mem["S"] /\ TypeOK
      BY <1>3, <2>2, <2>6, <3>1 DEF IInv
    <3>3. /\ Len(Stored("S")') = Len(Stored("S")) + 1 /\ Stored("S")'[Len(Stored("S")) + 1] = e
          /\ \A i \in 1 .. Len(Stored("S")) : Stored("S")'[i] = Stored("S")[i]
      BY <1>2, <3>2, ByteStored
    <3>4. QED
      BY <2>6, <3>1, <3>3
  <2>8. ASSUME NEW i \in 1 .. Len(Stored("S")')
        PROVE  Stored("S")'[i] = <<k, i>>
    <3>1. i \in 1 .. clocked \/ i = clocked + 1
      BY <1>2, <2>7
    <3>2. QED
      BY <2>5, <2>6, <2>7, <3>1 DEF SlaveHas
  <2>9. SlaveHas(k)'
    BY <1>3, <1>4, <2>6, <2>7, <2>8 DEF SlaveHas
  <2>10. PICK j \in 1 .. Len(plan), m \in 0 .. Len(Stored("M")) : MasterHas(j, m)
    BY <1>1 DEF Contents
  <2>11. Stored("M")' = Stored("M")
    BY <1>3, <1>4 DEF Stored
  <2>12. MasterHas(j, m)'
    BY <1>4, <2>10, <2>11 DEF MasterHas
  <2>13. Contents'
    BY <1>3, <1>4, <2>9, <2>11, <2>12 DEF Contents
  <2>14. QED
    BY <1>7, <1>8, <2>3, <2>4, <2>13 DEF FramesInv
<1>11. QED
  BY <1>9, <1>10

(* A byte that nobody sent stays behind the bytes of the slave's call.     *)
LEMMA GarbageStored ==
  ASSUME TypeOK, UNCHANGED mem["M"], rx'["M"] = Append(rx["M"], Garbage),
         NEW j, NEW m \in 0 .. Len(Stored("M")), MasterHas(j, m)
  PROVE  /\ m \in 0 .. Len(Stored("M")') /\ Len(Stored("M")') = Len(Stored("M")) + 1
         /\ \A i \in 1 .. Len(Stored("M")') :
              Stored("M")'[i] = IF i <= m THEN <<j, i>> ELSE Garbage
<1>1. Garbage \in Byte
  BY DEF Garbage, Byte
<1>2. /\ Len(Stored("M")) \in Nat /\ Len(Stored("M")') = Len(Stored("M")) + 1
      /\ Stored("M")'[Len(Stored("M")) + 1] = Garbage
      /\ \A i \in 1 .. Len(Stored("M")) : Stored("M")'[i] = Stored("M")[i]
  BY <1>1, ByteStored DEF Node
<1>3. ASSUME NEW i \in 1 .. Len(Stored("M")')
      PROVE  Stored("M")'[i] = IF i <= m THEN <<j, i>> ELSE Garbage
  <2>1. CASE i \in 1 .. Len(Stored("M"))
    BY <1>2, <2>1 DEF MasterHas
  <2>2. CASE i = Len(Stored("M")) + 1
    <3>1. ~(i <= m)
      BY <1>2, <2>2
    <3>2. QED
      BY <1>2, <2>2, <3>1
  <2>3. QED
    BY <1>2, <2>1, <2>2
<1>4. QED
  BY <1>2, <1>3

(* The next byte of the slave's call goes behind the ones that came.       *)
LEMMA NextStored ==
  ASSUME TypeOK, UNCHANGED mem["M"], NEW j, NEW c \in Nat, <<j, c + 1>> \in Byte,
         rx'["M"] = Append(rx["M"], <<j, c + 1>>),
         Len(Stored("M")) = c, MasterHas(j, c)
  PROVE  /\ Len(Stored("M")') = c + 1
         /\ \A i \in 1 .. c + 1 : Stored("M")'[i] = <<j, i>>
<1>1. /\ Len(Stored("M")') = c + 1 /\ Stored("M")'[c + 1] = <<j, c + 1>>
      /\ \A i \in 1 .. c : Stored("M")'[i] = Stored("M")[i]
  <2>1. PICK e \in Byte : e = <<j, c + 1>>
    OBVIOUS
  <2>2. /\ Len(Stored("M")') = c + 1 /\ Stored("M")'[c + 1] = e
        /\ \A i \in 1 .. c : Stored("M")'[i] = Stored("M")[i]
    BY <2>1, ByteStored DEF Node
  <2>3. QED
    BY <2>1, <2>2
<1>2. ASSUME NEW i \in 1 .. c + 1
      PROVE  Stored("M")'[i] = <<j, i>>
  <2>1. i \in 1 .. c \/ i = c + 1
    OBVIOUS
  <2>2. CASE i \in 1 .. c
    <3>1. i \in 1 .. Len(Stored("M")) /\ i <= c /\ Stored("M")'[i] = Stored("M")[i]
      BY <1>1, <2>2
    <3>2. QED
      BY <3>1 DEF MasterHas
  <2>3. CASE i = c + 1
    BY <1>1, <2>3
  <2>4. QED
    BY <2>1, <2>2, <2>3
<1>3. QED
  BY <1>1, <1>2

(* A byte of a read: the next one of the slave's call, or what the line    *)
(* shows when the slave no longer follows.                                 *)
LEMMA ReadByteFrames ==
  ASSUME IInv, FramesInv, Quiet, NEW acks \in BOOLEAN, HwReadByteAck(acks)
  PROVE  FramesInv'
<1>1. SlaveKeeps /\ SlaveEnds /\ SlaveTx /\ MasterFresh /\ MasterTx /\ Contents
  BY DEF FramesInv
<1>2. /\ "M" \in Node /\ "S" \in Node /\ "M" # "S"
      /\ flags \in [Node -> SUBSET Flags] /\ clocked \in Nat
      /\ tx \in [Node -> Seq(Byte)] /\ rx \in [Node -> Seq(Byte)] /\ mem \in [Node -> Seq(Byte)]
      /\ round \in [Node -> Nat \ {0}] /\ pbuff \in [Node -> Nat] /\ sel \in BOOLEAN
  BY DEF IInv, TypeOK, HwTypeOK, SwTypeOK, Node
<1>3. /\ UNCHANGED <<mode, status, error_code, pbuff, mem, pc, isr, ret, plan, round>>
      /\ WireRound' = WireRound /\ SlaveBusy' = SlaveBusy /\ InData' = InData
      /\ Returned("M")' = Returned("M")
  BY QuietFrames
<1>4. /\ phase = "data" /\ dir = "read" /\ "ADDR7F" \notin flags["M"]
      /\ ~SlaveStretches /\ clocked' = clocked + 1 /\ phase' \in {"data", "closing"}
      /\ UNCHANGED <<ctrl, dir, flags["M"], rx["S"], tx["M"]>>
      /\ sel' = (sel /\ acks)
      /\ rx'["M"] = Append(rx["M"], IF sel THEN Head(tx["S"]) ELSE Garbage)
      /\ tx'["S"] = IF sel THEN Tail(tx["S"]) ELSE tx["S"]
      /\ flags'["S"] = flags["S"] \cup IF sel /\ ~acks THEN {"ACKFAIL"} ELSE {}
  BY <1>2, SMTT(30) DEF HwReadByteAck
<1>5. MasterFresh' /\ MasterTx'
  BY <1>1, <1>3, <1>4 DEF MasterFresh, MasterTx
<1>6. Len(Stored("M")) = clocked
  BY <1>1, <1>4 DEF Contents
<1>7. PICK k \in 1 .. Len(plan) : SlaveHas(k)
  BY <1>1 DEF Contents
<1>8. SlaveHas(k)'
  <2>1. Stored("S")' = Stored("S")
    BY <1>3, <1>4 DEF Stored
  <2>2. QED
    BY <1>4, <1>7, <2>1 DEF SlaveHas
<1>9. PICK j \in 1 .. Len(plan), m \in 0 .. Len(Stored("M")) : MasterHas(j, m)
  BY <1>1 DEF Contents
<1>10. CASE ~sel
  <2>1. SlaveSame /\ ~sel'
    BY <1>3, <1>4, <1>10 DEF SlaveSame
  <2>2. SlaveKeeps' /\ SlaveEnds' /\ SlaveTx'
    BY <1>1, <2>1, SlaveHalf
  <2>3. rx'["M"] = Append(rx["M"], Garbage) /\ UNCHANGED mem["M"] /\ TypeOK
    BY <1>3, <1>4, <1>10 DEF IInv
  <2>4. /\ m \in 0 .. Len(Stored("M")') /\ Len(Stored("M")') = clocked + 1
        /\ \A i \in 1 .. Len(Stored("M")') :
             Stored("M")'[i] = IF i <= m THEN <<j, i>> ELSE Garbage
    BY <1>6, <1>9, <2>3, GarbageStored
  <2>5. MasterHas(j, m)'
    BY <2>1, <2>4 DEF MasterHas, Served
  <2>6. Contents'
    BY <1>3, <1>4, <1>8, <2>4, <2>5 DEF Contents
  <2>7. QED
    BY <1>5, <2>2, <2>6 DEF FramesInv
<1>11. CASE sel
  <2>1. Served /\ SlaveBusy /\ tx["S"] # <<>> /\ rx["S"] = <<>> /\ (Served' => sel')
    BY <1>1, <1>4, <1>11 DEF Served, SlaveStretches, SlaveKeeps, SlaveEnds
  <2>2. mode["S"] = "I2C_INT_SLA_TX"
    <3>1. InCall("S")
      BY <2>1 DEF SlaveBusy, Returned, InCall
    <3>2. mode["S"] = ModeOf("S")
      BY <1>2, <3>1 DEF IInv, HandleInv, HandleOf
    <3>3. QED
      BY <1>1, <2>1, <3>2 DEF ModeOf, SlaveTx
  <2>3. /\ Head(tx["S"]) = <<round["S"], clocked + 1>>
        /\ Len(Tail(tx["S"])) = Len(tx["S"]) - 1 /\ Len(tx["S"]) \in Nat
        /\ \A i \in 1 .. Len(Tail(tx["S"])) : Tail(tx["S"])[i] = <<round["S"], (clocked + 1) + i>>
    <3>1. /\ tx["S"] \in Seq(Byte) /\ round["S"] \in Nat
          /\ \A i \in 1 .. Len(tx["S"]) : tx["S"][i] = <<round["S"], clocked + i>>
      BY <1>1, <1>2, <1>4, <2>1 DEF SlaveTx
    <3>2. clocked \in Nat /\ tx["S"] # <<>>
      BY <1>2, <2>1
    <3>3. QED
      BY <3>1, <3>2, NextOut, ZenonT(40)
  <2>4. j = round["S"] /\ m = clocked
    BY <1>4, <1>6, <1>9, <2>1 DEF MasterHas
  <2>5. /\ clocked + 1 \in 0 .. Len(Stored("M")') /\ Len(Stored("M")') = clocked + 1
        /\ \A i \in 1 .. Len(Stored("M")') :
             Stored("M")'[i] = IF i <= clocked + 1 THEN <<j, i>> ELSE Garbage
    <3>1. <<j, clocked + 1>> \in Byte
      <4>1. j \in Nat /\ clocked + 1 \in Nat
        BY <1>2, <2>4
      <4>2. QED
        BY <4>1 DEF Byte
    <3>2. rx'["M"] = Append(rx["M"], <<j, clocked + 1>>) /\ UNCHANGED mem["M"] /\ TypeOK
      BY <1>3, <1>4, <1>11, <2>3, <2>4 DEF IInv
    <3>3. clocked \in Nat /\ MasterHas(j, clocked)
      BY <1>2, <1>9, <2>4
    <3>4. /\ Len(Stored("M")') = clocked + 1
          /\ \A i \in 1 .. clocked + 1 : Stored("M")'[i] = <<j, i>>
      BY <1>6, <3>1, <3>2, <3>3, NextStored
    <3>5. /\ clocked + 1 \in 0 .. clocked + 1
          /\ \A i \in 1 .. clocked + 1 : i <= clocked + 1
      BY <3>3
    <3>6. QED
      BY <3>4, <3>5
  <2>6. PICK l \in 0 .. Len(Stored("M")') : l = clocked + 1
    BY <2>5
  <2>7. MasterHas(j, l)'
    BY <1>3, <2>4, <2>5, <2>6 DEF MasterHas
  <2>8. Contents'
    BY <1>3, <1>4, <1>8, <2>5, <2>7 DEF Contents
  <2>9. SlaveKeeps' /\ SlaveEnds'
    BY <1>1, <1>3, <1>4, <1>11, <2>1, <2>2 DEF SlaveKeeps, SlaveEnds, Served
  <2>10. SlaveTx'
    <3>1. clocked + Len(tx["S"]) = pbuff["S"]
      BY <1>1, <1>4, <2>1, <2>2 DEF SlaveTx
    <3>2. /\ tx'["S"] = Tail(tx["S"]) /\ clocked' + Len(tx'["S"]) = pbuff'["S"]
          /\ \A i \in 1 .. Len(tx'["S"]) : tx'["S"][i] = <<round'["S"], clocked' + i>>
      <4>1. tx'["S"] = Tail(tx["S"]) /\ clocked' = clocked + 1
        BY <1>4, <1>11
      <4>2. clocked' + Len(tx'["S"]) = pbuff'["S"]
        <5>1. Len(tx'["S"]) = Len(tx["S"]) - 1 /\ Len(tx["S"]) \in Nat /\ pbuff'["S"] = pbuff["S"]
          BY <1>3, <2>3, <4>1
        <5>2. (clocked + 1) + (Len(tx["S"]) - 1) = clocked + Len(tx["S"])
          BY <1>2, <5>1
        <5>3. QED
          BY <3>1, <4>1, <5>1, <5>2, Zenon
      <4>3. QED
        BY <1>3, <2>3, <4>1, <4>2
    <3>3. "ADDR7F" \notin flags'["S"]
      BY <1>4, <2>1 DEF Served
    <3>4. QED
      BY <1>3, <1>4, <2>2, <3>2, <3>3 DEF SlaveTx
  <2>11. QED
    BY <1>5, <2>8, <2>9, <2>10 DEF FramesInv
<1>12. QED
  BY <1>2, <1>10, <1>11

(* A byte that the master clocks in because its STOP is late.              *)
LEMMA OverrunFrames ==
  ASSUME IInv, FramesInv, Quiet, HwOverrunByte
  PROVE  FramesInv'
<1>1. SlaveKeeps /\ SlaveEnds /\ SlaveTx /\ MasterFresh /\ MasterTx /\ Contents
  BY DEF FramesInv
<1>2. /\ "M" \in Node /\ "S" \in Node /\ "M" # "S" /\ TypeOK
      /\ rx \in [Node -> Seq(Byte)]
  BY DEF IInv, TypeOK, HwTypeOK, Node
<1>3. /\ UNCHANGED <<mode, status, error_code, pbuff, mem, pc, isr, ret, plan, round>>
      /\ WireRound' = WireRound /\ SlaveBusy' = SlaveBusy /\ InData' = InData
      /\ Returned("M")' = Returned("M")
  BY QuietFrames
<1>4. /\ phase = "closing" /\ UNCHANGED <<ctrl, flags, tx, phase, dir, sel, rx["S"]>>
      /\ rx'["M"] = Append(rx["M"], Garbage)
  BY <1>2 DEF HwOverrunByte
<1>5. SlaveKeeps' /\ SlaveEnds' /\ SlaveTx'
  <2>1. SlaveSame
    BY <1>3, <1>4 DEF SlaveSame
  <2>2. sel' => sel /\ dir' = dir /\ phase' = "closing"
    BY <1>4
  <2>3. QED
    BY <1>1, <2>1, <2>2, SlaveHalf
<1>6. MasterFresh'
  BY <1>1, <1>3, <1>4 DEF MasterFresh
<1>7. MasterTx'
  BY <1>1, <1>3, <1>4 DEF MasterTx
<1>8. PICK k \in 1 .. Len(plan) : SlaveHas(k)
  BY <1>1 DEF Contents
<1>9. PICK j \in 1 .. Len(plan), m \in 0 .. Len(Stored("M")) : MasterHas(j, m)
  BY <1>1 DEF Contents
<1>10. SlaveHas(k)'
  <2>1. Stored("S")' = Stored("S")
    BY <1>3, <1>4 DEF Stored
  <2>2. QED
    BY <1>4, <1>8, <2>1 DEF SlaveHas
<1>11. /\ m \in 0 .. Len(Stored("M")')
       /\ \A i \in 1 .. Len(Stored("M")') :
            Stored("M")'[i] = IF i <= m THEN <<j, i>> ELSE Garbage
  <2>1. UNCHANGED mem["M"]
    BY <1>3
  <2>2. QED
    BY <1>2, <1>4, <1>9, <2>1, GarbageStored
<1>12. MasterHas(j, m)'
  BY <1>4, <1>11 DEF MasterHas
<1>13. Contents'
  BY <1>3, <1>4, <1>10, <1>11, <1>12 DEF Contents
<1>14. QED
  BY <1>5, <1>6, <1>7, <1>13 DEF FramesInv

(* Before the first call nothing has been sent and nothing is stored.      *)
LEMMA FramesInit == Init => FramesInv
<1> SUFFICES ASSUME Init PROVE FramesInv
  OBVIOUS
<1>1. /\ flags["M"] = {} /\ flags["S"] = {} /\ ctrl["M"] = {}
      /\ tx["M"] = <<>> /\ tx["S"] = <<>> /\ rx["M"] = <<>> /\ rx["S"] = <<>>
      /\ mem["M"] = <<>> /\ mem["S"] = <<>> /\ pbuff["S"] = 0
      /\ isr["M"] = "none" /\ isr["S"] = "none" /\ pc["M"] = "idle" /\ pc["S"] = "idle"
      /\ phase = "free" /\ dir = "write" /\ sel = FALSE
      /\ plan \in Plans
  BY DEF Init, HwInit, Node
<1>2. SlaveKeeps /\ SlaveEnds /\ SlaveTx
  BY <1>1 DEF SlaveKeeps, SlaveEnds, SlaveTx, Served
<1>3. MasterFresh /\ MasterTx
  BY <1>1 DEF MasterFresh, MasterTx
<1>4. Stored("M") = <<>> /\ Stored("S") = <<>>
  BY <1>1 DEF Stored
<1>5. 1 \in 1 .. Len(plan)
  BY <1>1, PlansAssumption
<1>6. SlaveHas(1)
  BY <1>1, <1>4 DEF SlaveHas
<1>7. 0 \in 0 .. Len(Stored("M")) /\ MasterHas(1, 0)
  BY <1>1, <1>4 DEF MasterHas
<1>8. Contents
  BY <1>1, <1>5, <1>6, <1>7 DEF Contents
<1>9. QED
  BY <1>2, <1>3, <1>8 DEF FramesInv

LEMMA FramesNext ==
  ASSUME ResetOnError, IInv, FramesInv, [Next]_vars
  PROVE  FramesInv'
<1>1. ASSUME NEW n \in Node, Main(n) \/ Handler(n)
      PROVE  FramesInv'
  BY <1>1, MasterMainFrames, MasterHandlerFrames, SlaveMainFrames, SlaveHandlerFrames DEF Node
<1>2. CASE Bus
  <2>1. Quiet
    BY <1>2 DEF Bus
  <2>2. CASE HwStart \/ HwAddrNack \/ HwStop
    BY <2>1, <2>2, EndsOfFrames
  <2>3. CASE HwAddrAck
    BY <2>1, <2>3, AddressFrames
  <2>4. CASE HwWriteByte(FALSE)
    BY <2>1, <2>4, WriteByteFrames
  <2>5. CASE HwReadByte
    <3>1. CASE MasterAcks
      <4>1. HwReadByteAck(TRUE)
        BY <2>5, <3>1 DEF HwReadByte, HwReadByteAck
      <4>2. QED
        BY <2>1, <4>1, ReadByteFrames
    <3>2. CASE ~MasterAcks
      <4>1. HwReadByteAck(FALSE)
        BY <2>5, <3>2 DEF HwReadByte, HwReadByteAck
      <4>2. QED
        BY <2>1, <4>1, ReadByteFrames
    <3>3. QED
      BY <3>1, <3>2
  <2>6. CASE HwOverrunByte
    BY <2>1, <2>6, OverrunFrames
  <2>7. QED
    BY <1>2, <2>2, <2>3, <2>4, <2>5, <2>6 DEF Bus
<1>3. CASE Fault
  <2>1. Quiet /\ (HwWriteByte(TRUE) \/ \E n \in Node : HwBusErr(n))
    BY <1>3 DEF Fault
  <2>2. QED
    BY <2>1, WriteByteFrames, EndsOfFrames
<1>4. CASE UNCHANGED vars
  <2>1. UNCHANGED <<ctrl, ints, flags, tx, rx, phase, dir, sel, clocked, acked, mode, status,
                    pcount, error_code, pbuff, mem, pc, isr, ret, plan, round>>
    BY <1>4 DEF vars, hwVars, handle, app
  <2>2. Stored("M")' = Stored("M") /\ Stored("S")' = Stored("S") /\ WireRound' = WireRound
        /\ Returned("M")' = Returned("M") /\ InData' = InData /\ Served' = Served
    BY <2>1 DEF Stored, WireRound, Returned, InData, Served
  <2>3. SlaveKeeps' /\ SlaveEnds' /\ SlaveTx'
    BY <2>1, <2>2 DEF FramesInv, SlaveKeeps, SlaveEnds, SlaveTx, SlaveBusy, Returned
  <2>4. MasterFresh' /\ MasterTx'
    BY <2>1, <2>2 DEF FramesInv, MasterFresh, MasterTx
  <2>5. Contents'
    BY <2>1, <2>2, ContentsKept DEF FramesInv, Contents
  <2>6. QED
    BY <2>3, <2>4, <2>5 DEF FramesInv
<1>5. QED
  BY <1>1, <1>2, <1>3, <1>4 DEF Next

(* Elementwise, or as NoMixedBuffer writes it: what a call sent, and then  *)
(* bytes of a line that nobody drove.                                      *)
LEMMA PrefixAndGarbage ==
  ASSUME NEW s \in Seq(Byte), NEW k \in Nat, NEW m \in 0 .. Len(s),
         \A i \in 1 .. Len(s) : s[i] = IF i <= m THEN <<k, i>> ELSE Garbage
  PROVE  s = Sent(k, m) \o [i \in 1 .. Len(s) - m |-> Garbage]
<1>1. Len(s) \in Nat /\ m \in Nat
  OBVIOUS
<1>2. PICK n \in Nat : n = Len(s) - m
  BY <1>1
<1>3. PICK g : g = [i \in 1 .. n |-> Garbage]
  OBVIOUS
<1>4. PICK a : a = Sent(k, m)
  OBVIOUS
<1>5. g \in Seq(Byte) /\ Len(g) = n /\ \A i \in 1 .. n : g[i] = Garbage
  <2>1. Garbage \in Byte
    BY DEF Garbage, Byte
  <2>2. g \in [1 .. n -> Byte]
    BY <1>3, <2>1
  <2>3. QED
    BY <1>3, <2>2
<1>6. a \in Seq(Byte) /\ Len(a) = m /\ \A i \in 1 .. m : a[i] = <<k, i>>
  BY <1>1, <1>4, SentType
<1>7. /\ a \o g \in Seq(Byte) /\ Len(a \o g) = Len(s)
      /\ \A i \in 1 .. Len(s) : (a \o g)[i] = IF i <= m THEN a[i] ELSE g[i - m]
  <2>1. m + n = Len(s)
    BY <1>1, <1>2
  <2>2. QED
    BY <1>5, <1>6, <2>1, ConcatProperties
<1>8. ASSUME NEW i \in 1 .. Len(s)
      PROVE  s[i] = (a \o g)[i]
  <2>1. CASE i <= m
    <3>1. i \in 1 .. m
      BY <2>1
    <3>2. QED
      BY <1>6, <1>7, <2>1, <3>1
  <2>2. CASE ~(i <= m)
    <3>1. i - m \in 1 .. n
      BY <1>1, <1>2, <2>2
    <3>2. QED
      BY <1>5, <1>7, <2>2, <3>1
  <2>3. QED
    BY <2>1, <2>2
<1>9. s = a \o g
  BY <1>7, <1>8, SeqEqual
<1>10. QED
  BY <1>2, <1>3, <1>4, <1>9

(* What is stored is stored in the buffer first.                           *)
LEMMA BufferHolds ==
  ASSUME TypeOK, plan \in Plans, NEW n \in Node,
         NEW k \in 1 .. Len(plan), NEW m \in 0 .. Len(Stored(n)),
         \A i \in 1 .. Len(Stored(n)) :
           Stored(n)[i] = IF i <= m THEN <<k, i>> ELSE Garbage
  PROVE  \E h \in 1 .. Len(plan), l \in 0 .. Len(mem[n]) :
           mem[n] = Sent(h, l) \o [i \in 1 .. Len(mem[n]) - l |-> Garbage]
<1>1. mem[n] \in Seq(Byte) /\ rx[n] \in Seq(Byte)
  BY DEF TypeOK, HwTypeOK, SwTypeOK
<1>2. PICK s \in Seq(Byte) : s = mem[n]
  BY <1>1
<1>3. PICK t \in Seq(Byte) : t = rx[n]
  BY <1>1
<1>4. /\ s \o t \in Seq(Byte)
      /\ \A i \in 1 .. Len(s) : i \in 1 .. Len(s \o t) /\ (s \o t)[i] = s[i]
  BY StoredParts
<1>5. Stored(n) = s \o t
  BY <1>2, <1>3 DEF Stored
<1>6. \A i \in 1 .. Len(s) : s[i] = IF i <= m THEN <<k, i>> ELSE Garbage
  BY <1>4, <1>5
<1>7. k \in Nat /\ m \in Nat /\ Len(s) \in Nat
  BY <1>4, <1>5, PlansAssumption
<1>8. PICK l \in 0 .. Len(s) : l = IF m <= Len(s) THEN m ELSE Len(s)
  BY <1>7
<1>9. \A i \in 1 .. Len(s) : s[i] = IF i <= l THEN <<k, i>> ELSE Garbage
  BY <1>6, <1>7, <1>8
<1>10. s = Sent(k, l) \o [i \in 1 .. Len(s) - l |-> Garbage]
  BY <1>7, <1>9, PrefixAndGarbage
<1>11. QED
  BY <1>2, <1>10

(* Over any line, for calls of any sizes that fail, are reset and tried    *)
(* again, every receive buffer holds a prefix of what one call sent, and   *)
(* then bytes of a line that nobody drove: no bytes of two calls, and none *)
(* out of order.                                                           *)
THEOREM BuffersAreNotMixed ==
  ASSUME ResetOnError, Timely
  PROVE  Spec => []NoMixedBuffer
<1>1. Init => FramesInv
  BY FramesInit
<1>2. IInv /\ FramesInv /\ [Next]_vars => FramesInv'
  BY FramesNext
<1>3. ASSUME IInv, FramesInv
      PROVE  NoMixedBuffer
  <2>1. Contents /\ TypeOK /\ plan \in Plans
    BY <1>3 DEF FramesInv, IInv, TypeOK, SwTypeOK
  <2>2. PICK k \in 1 .. Len(plan) : SlaveHas(k)
    BY <2>1 DEF Contents
  <2>3. PICK j \in 1 .. Len(plan), m \in 0 .. Len(Stored("M")) : MasterHas(j, m)
    BY <2>1 DEF Contents
  <2>4. \E h \in 1 .. Len(plan), l \in 0 .. Len(mem["S"]) :
          mem["S"] = Sent(h, l) \o [i \in 1 .. Len(mem["S"]) - l |-> Garbage]
    <3>1. \A i \in 1 .. Len(Stored("S")) :
            Stored("S")[i] = IF i <= Len(Stored("S")) THEN <<k, i>> ELSE Garbage
      BY <2>2 DEF SlaveHas
    <3>2. Len(Stored("S")) \in 0 .. Len(Stored("S"))
      BY <2>1, StoredParts DEF Stored, TypeOK, HwTypeOK, SwTypeOK, Node
    <3>3. QED
      BY <2>1, <3>1, <3>2, BufferHolds DEF Node
  <2>5. \E h \in 1 .. Len(plan), l \in 0 .. Len(mem["M"]) :
          mem["M"] = Sent(h, l) \o [i \in 1 .. Len(mem["M"]) - l |-> Garbage]
    BY <2>1, <2>3, BufferHolds DEF Node, MasterHas
  <2>6. QED
    BY <2>4, <2>5 DEF NoMixedBuffer, Node
<1>4. IInv /\ FramesInv => NoMixedBuffer
  BY <1>3
<1>5. QED
  BY <1>1, <1>2, <1>4, Invariant, PTL DEF Spec

=============================================================================
