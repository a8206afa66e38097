-------------------------------- MODULE I2CDma --------------------------------
(***************************************************************************)
(* DMA-mode transfers of i2c_application.c, beside polling-mode ones: each *)
(* board uses one of the two modes for all its calls.                      *)
(*                                                                         *)
(* A DMA call goes through START and address as a polling call does        *)
(* (I2CPolling), and hands the data over to a DMA channel, whose           *)
(* transfer-complete interrupt ends it.  The handler waits for the bus     *)
(* inside the interrupt, and the application waits in i2c_wait_end.        *)
(***************************************************************************)
EXTENDS I2CPolling

(* An application that goes on after a wait that gave up resets first:     *)
(* without that the interrupt of the call it gave up on may come in its    *)
(* next call, whose mode and buffer it then works on.                      *)
ASSUME ResetAssumption == \A s \in Scenarios : s[2].timeouts => s[2].reset

Modes == {"I2C_DMA_MA_TX", "I2C_DMA_MA_RX", "I2C_DMA_SLA_TX", "I2C_DMA_SLA_RX"}

VARIABLES
  mode,       \* hi2c->mode; hi2c->pcount is the variable left
  status,     \* hi2c->status
  error_code, \* hi2c->error_code
  isr,        \* the flag a DMA handler waits for, or "none"
  dmaen,      \* DMA requests of the peripheral are enabled
  last,       \* the DMA end-of-transfer bit, which nothing resets
  cnt,        \* transfers left in the channel configured last
  tcint,      \* its transfer-complete interrupt is enabled
  tc          \* its transfer-complete flag

chan    == <<dmaen, last, cnt, tcint, tc>>
dmaVars == <<mode, status, error_code, isr, chan>>
allVars == <<vars, dmaVars>>

(* Registers, handle and channel keep their types; the channel's counter   *)
(* never goes below zero.                                                  *)
DmaTypeOK ==
  /\ HwTypeOK
  /\ pc \in [Node -> MainPc]
  /\ checking \in [Node -> BOOLEAN]
  /\ left \in [Node -> Nat]
  /\ mode \in [Node -> Modes]
  /\ status \in [Node -> {"START", "END"}]
  /\ error_code \in [Node -> {"OK", "ERR"}]
  /\ isr \in [Node -> {"none", "tdc", "ackfail", "stopf"}]
  /\ dmaen \in [Node -> BOOLEAN]
  /\ last \in [Node -> BOOLEAN]
  /\ cnt \in [Node -> Nat]
  /\ tcint \in [Node -> BOOLEAN]
  /\ tc \in [Node -> BOOLEAN]

DmaInit ==
  /\ Init
  /\ mode = [n \in Node |-> "I2C_DMA_MA_TX"]
  /\ status = [n \in Node |-> "START"]
  /\ error_code = [n \in Node |-> "OK"]
  /\ isr = [n \in Node |-> "none"]
  /\ dmaen = [n \in Node |-> FALSE]
  /\ last = [n \in Node |-> FALSE]
  /\ cnt = [n \in Node |-> 0]
  /\ tcint = [n \in Node |-> FALSE]
  /\ tc = [n \in Node |-> FALSE]

ByDma(n) == n \in env.dma

Request(n) == tc[n] /\ tcint[n]

(* A main thread needs the CPU.                                            *)
CpuFree(n) == isr[n] = "none" /\ ~Request(n)

Board(n) == UNCHANGED <<mode, status, error_code, isr>>

ModeOf(n) ==
  IF n = "M" THEN IF Reads("M") THEN "I2C_DMA_MA_RX" ELSE "I2C_DMA_MA_TX"
             ELSE IF Reads("S") THEN "I2C_DMA_SLA_RX" ELSE "I2C_DMA_SLA_TX"

-----------------------------------------------------------------------------
(* The start functions.                                                    *)

DmaStartCall(n) ==
  /\ pc[n] = "idle"
  /\ n = "M" /\ env.slaveFirst /\ ~Memory => Listening
  /\ left' = [left EXCEPT ![n] = Size(n)]
  /\ mem' = [mem EXCEPT ![n] = <<>>]
  /\ mode' = [mode EXCEPT ![n] = ModeOf(n)]
  /\ status' = [status EXCEPT ![n] = "START"]
  /\ error_code' = [error_code EXCEPT ![n] = "OK"]
  /\ Goto(n, "free")
  /\ UNCHANGED <<hwVars, ret, isr, chan>> /\ Stay

(* Defect: the channel is configured for a byte too few.                   *)
i2c_dma_config_one_less(n) ==
  /\ dmaen' = [dmaen EXCEPT ![n] = FALSE]
  /\ cnt' = [cnt EXCEPT ![n] = left[n] - 1]
  /\ tcint' = [tcint EXCEPT ![n] = TRUE]
  /\ UNCHANGED <<last, tc>>

(* The DMA request is disabled and the channel configured for the call.    *)
i2c_dma_config(n) ==
  /\ dmaen' = [dmaen EXCEPT ![n] = FALSE]
  /\ cnt' = [cnt EXCEPT ![n] = left[n]]
  /\ tcint' = [tcint EXCEPT ![n] = TRUE]
  /\ UNCHANGED <<last, tc>>

DmaGenerateStart ==
  /\ GenerateStart
  /\ i2c_dma_config("M")
  /\ Board("M")

(* Unlike i2c_slave_receive the slave waits for a free bus.                *)
DmaEnableAck ==
  /\ Came("S", "free")
  /\ SetCtrl("S", {"ACKEN"}, {"ACKNEXT"})
  /\ Goto("S", "addr7")
  /\ i2c_dma_config("S")
  /\ Board("S")
  /\ UNCHANGED <<ints, flags, tx, rx, busVars, local>> /\ Stay

EnableDma(n) == dmaen' = [dmaen EXCEPT ![n] = TRUE]

(* Clearing ADDR7F lets the bus move on: before the DMA request is enabled *)
(* where a board sends, after it where it receives.                        *)
DmaClearAddrToSend(n) ==
  /\ Came(n, "addr7") /\ ~Reads(n)
  /\ ClearFlags(n, {"ADDR7F"})
  /\ Goto(n, IF Memory THEN "tdbe_reg" ELSE "dma_on")
  /\ UNCHANGED <<ctrl, ints, tx, rx, busVars, local, chan>> /\ Stay /\ Board(n)

(* i2c_memory_read_dma addresses the device for writing first.             *)
DmaClearAddrOfDevice ==
  /\ Came("M", "addr7") /\ MyRound("M").op = "mem_read"
  /\ ClearFlags("M", {"ADDR7F"})
  /\ Goto("M", "tdbe_reg")
  /\ UNCHANGED <<ctrl, ints, tx, rx, busVars, local, chan>> /\ Stay /\ Board("M")

DmaClearAddrToReceive ==
  /\ Came("S", "addr7") /\ Reads("S")
  /\ EnableDma("S")
  /\ ClearFlags("S", {"ADDR7F"})
  /\ Goto("S", "wait_end")
  /\ UNCHANGED <<ctrl, ints, tx, rx, busVars, local, last, cnt, tcint, tc>> /\ Stay /\ Board("S")

(* Defect: the end-of-transfer bit is not set.                             *)
DmaClearAddrToRead_not_last ==
  /\ \/ Came("M", "readdr7")
     \/ Came("M", "addr7") /\ MyRound("M").op = "read"
  /\ ClearFlags("M", {"ADDR7F"})
  /\ \/ /\ left["M"] = 1
        /\ Goto("M", "dma_ack")
        /\ UNCHANGED chan
     \/ /\ left["M"] > 1
        /\ EnableDma("M")
        /\ Goto("M", "wait_end")
        /\ UNCHANGED <<last, cnt, tcint, tc>>
  /\ UNCHANGED <<ctrl, ints, tx, rx, busVars, local>> /\ Stay /\ Board("M")

(* A read of one byte ends with the acknowledge off and a STOP, in that    *)
(* order and after ADDR7F is cleared; a longer one by the end-of-transfer  *)
(* bit.                                                                    *)
DmaClearAddrToRead ==
  /\ \/ Came("M", "readdr7")
     \/ Came("M", "addr7") /\ MyRound("M").op = "read"
  /\ ClearFlags("M", {"ADDR7F"})
  /\ \/ /\ left["M"] = 1
        /\ Goto("M", "dma_ack")
        /\ UNCHANGED chan
     \/ /\ left["M"] > 1
        /\ last' = [last EXCEPT !["M"] = TRUE]
        /\ EnableDma("M")
        /\ Goto("M", "wait_end")
        /\ UNCHANGED <<cnt, tcint, tc>>
  /\ UNCHANGED <<ctrl, ints, tx, rx, busVars, local>> /\ Stay /\ Board("M")

DmaAckOff ==
  /\ pc["M"] = "dma_ack"
  /\ SetCtrl("M", {}, {"ACKEN"})
  /\ Goto("M", "dma_stop")
  /\ UNCHANGED <<ints, flags, tx, rx, busVars, local, chan>> /\ Stay /\ Board("M")

DmaStop ==
  /\ pc["M"] = "dma_stop"
  /\ SetCtrl("M", {"GENSTOP"}, {})
  /\ Goto("M", "dma_on")
  /\ UNCHANGED <<ints, flags, tx, rx, busVars, local, chan>> /\ Stay /\ Board("M")

(* i2c_memory_write_dma waits until the register number has left.          *)
DmaEnable(n) ==
  /\ pc[n] = "dma_on" \/ Came(n, "tdbe")
  /\ EnableDma(n)
  /\ Goto(n, "wait_end")
  /\ UNCHANGED <<hwVars, local, last, cnt, tcint, tc>> /\ Stay /\ Board(n)

i2c_wait_end(n) ==
  /\ pc[n] = "wait_end"
  /\ \/ status[n] = "END" /\ Return(n, error_code[n])
     \/ env.timeouts /\ status[n] # "END" /\ Return(n, "ERR")
  /\ UNCHANGED <<hwVars, left, mem, chan>> /\ Stay /\ Board(n)

-----------------------------------------------------------------------------
(* i2c_dma_tx_irq_handler and i2c_dma_rx_irq_handler.                      *)

(* Defect: the DMA request stays on.                                       *)
TransferComplete_request_on(n) ==
  /\ left' = [left EXCEPT ![n] = 0]
  /\ status' = [status EXCEPT ![n] = "END"]
  /\ UNCHANGED dmaen

(* The common end of both handlers.                                        *)
TransferComplete(n) ==
  /\ left' = [left EXCEPT ![n] = 0]
  /\ dmaen' = [dmaen EXCEPT ![n] = FALSE]
  /\ status' = [status EXCEPT ![n] = "END"]

(* Defect: a read ends without its STOP.                                   *)
DmaReadComplete_no_stop(n) ==
  /\ mode[n] = "I2C_DMA_MA_RX"
  /\ ClearFlags(n, {"ACKFAIL"})
  /\ TransferComplete(n)
  /\ UNCHANGED <<ctrl, isr>>

(* A master's read: STOP, unless the call has requested it for one byte.   *)
DmaReadComplete(n) ==
  /\ mode[n] = "I2C_DMA_MA_RX"
  /\ ClearFlags(n, {"ACKFAIL"})
  /\ SetCtrl(n, IF left[n] # 1 THEN {"GENSTOP"} ELSE {}, {})
  /\ TransferComplete(n)
  /\ UNCHANGED isr

(* The other modes wait for a flag inside the handler.                     *)
DmaHandlerWaits(n) ==
  /\ isr' = [isr EXCEPT ![n] = CASE mode[n] = "I2C_DMA_MA_TX"  -> "tdc"
                                 [] mode[n] = "I2C_DMA_SLA_TX" -> "ackfail"
                                 [] mode[n] = "I2C_DMA_SLA_RX" -> "stopf"
                                 [] OTHER                      -> "none"]
  /\ isr'[n] # "none"
  /\ UNCHANGED <<ctrl, flags, left, dmaen, status>>

DmaHandler(n) ==
  /\ isr[n] = "none" /\ Request(n)
  /\ tcint' = [tcint EXCEPT ![n] = FALSE]
  /\ tc' = [tc EXCEPT ![n] = FALSE]
  /\ DmaReadComplete(n) \/ DmaHandlerWaits(n)
  /\ UNCHANGED <<ints, tx, rx, busVars, pc, checking, mem, ret, device, app, faults>>
  /\ UNCHANGED <<mode, error_code, last, cnt>>

(* Defect: the handler does not wait for TDC.                              *)
Awaited_no_tdc(n) ==
  \/ isr[n] = "tdc"
  \/ isr[n] = "ackfail" /\ "ACKFAIL" \in flags[n]
  \/ isr[n] = "stopf" /\ "STOPF" \in flags[n]

Awaited(n) ==
  \/ isr[n] = "tdc" /\ TDC(n)
  \/ isr[n] = "ackfail" /\ "ACKFAIL" \in flags[n]
  \/ isr[n] = "stopf" /\ "STOPF" \in flags[n]

(* The wait ends or gives up; what follows it does not ask which.          *)
DmaHandlerEnds(n) ==
  /\ isr[n] # "none"
  /\ \/ Awaited(n) /\ UNCHANGED error_code
     \/ ~Awaited(n) /\ env.timeouts /\ error_code' = [error_code EXCEPT ![n] = "ERR"]
  /\ \/ /\ isr[n] = "tdc"
        /\ SetCtrl(n, {"GENSTOP"}, {})
        /\ UNCHANGED flags
     \/ /\ isr[n] = "ackfail"
        /\ ClearFlags(n, {"ACKFAIL"})
        /\ SetCtrl(n, {}, {"ACKEN"})
     \/ /\ isr[n] = "stopf"
        /\ ClearFlags(n, {"STOPF"})
        /\ UNCHANGED ctrl
  /\ isr' = [isr EXCEPT ![n] = "none"]
  /\ TransferComplete(n)
  /\ UNCHANGED <<ints, tx, rx, busVars, pc, checking, mem, ret, device, app, faults>>
  /\ UNCHANGED <<mode, last, cnt, tcint, tc>>

-----------------------------------------------------------------------------
(* The DMA controller moves a byte when the peripheral asks for one, and   *)
(* before the bus gets on by a byte.                                       *)

Sends(n) == mode[n] \in {"I2C_DMA_MA_TX", "I2C_DMA_SLA_TX"}

DmaReady(n) ==
  /\ dmaen[n] /\ cnt[n] > 0
  /\ IF Sends(n) THEN TDBE(n) ELSE RDBF(n)

DmaMove(n) ==
  /\ DmaReady(n)
  /\ cnt' = [cnt EXCEPT ![n] = @ - 1]
  /\ tc' = [tc EXCEPT ![n] = cnt[n] = 1]
  /\ \/ /\ Sends(n)
        /\ i2c_data_send(n, <<round[n], Size(n) - cnt[n] + 1>>)
        /\ UNCHANGED <<rx, mem>>
     \/ /\ ~Sends(n)
        /\ mem' = [mem EXCEPT ![n] = Append(@, Head(rx[n]))]
        /\ i2c_data_receive(n, 1)
        /\ UNCHANGED tx
  /\ UNCHANGED <<ctrl, ints, flags, busVars, pc, checking, left, ret, device, app, faults>>
  /\ UNCHANGED <<mode, status, error_code, isr, dmaen, last, tcint>>

(* With the end-of-transfer bit the master refuses the byte that is the    *)
(* last transfer of the channel, and then waits for its STOP.              *)
EndedByDma == dmaen["M"] /\ last["M"]

DmaMasterAcks == IF EndedByDma THEN cnt["M"] # 1 ELSE MasterAcks

DmaInTime ==
  /\ InTime
  /\ env.prompt => pc["M"] \notin {"dma_ack", "dma_stop"}

DmaBus ==
  /\ DeviceReady
  /\ \A n \in Node : ~DmaReady(n)
  /\ \/ HwStart
     \/ HwRestart
     \/ DmaInTime /\ (HwAddrAck \/ HwAddrNack \/ HwReadByteAck(DmaMasterAcks) \/ HwStop)
     \/ HwWriteByte(FALSE)
     \/ ~EndedByDma /\ HwOverrunByte
     \/ HwSlaveRelease
  /\ Quiet /\ UNCHANGED <<faults, dmaVars>>

-----------------------------------------------------------------------------

(* Defect: an application that resets on errors forgets it.                *)
DmaTryAgain_no_reset(n) == TryAgain_no_reset(n) /\ UNCHANGED chan /\ Board(n)

(* i2c_config resets the peripheral, and its DMA bits with it, but not the *)
(* DMA channel.                                                            *)
DmaTryAgain(n) ==
  /\ TryAgain(n)
  /\ dmaen' = [dmaen EXCEPT ![n] = @ /\ ~env.reset]
  /\ last' = [last EXCEPT ![n] = @ /\ ~env.reset]
  /\ UNCHANGED <<cnt, tcint, tc>> /\ Board(n)

DmaMaster ==
  \/ DmaGenerateStart \/ DmaClearAddrOfDevice \/ DmaClearAddrToRead \/ DmaAckOff \/ DmaStop
  \/ (SendAddress \/ SendRegister \/ GenerateRestart) /\ UNCHANGED dmaVars

DmaSlave == DmaEnableAck \/ DmaClearAddrToReceive

DmaMain(n) ==
  /\ CpuFree(n)
  /\ \/ DmaStartCall(n) \/ DmaTryAgain(n)
     \/ DmaClearAddrToSend(n) \/ DmaEnable(n) \/ i2c_wait_end(n)
     \/ (NextRound(n) \/ GiveUp(n) \/ Wait(n)) /\ UNCHANGED dmaVars
     \/ n = "M" /\ DmaMaster
     \/ n = "S" /\ DmaSlave

BoardMain(n) ==
  \/ ByDma(n) /\ DmaMain(n)
  \/ ~ByDma(n) /\ Main(n) /\ UNCHANGED dmaVars

Cpu(n) == BoardMain(n) \/ DmaHandler(n) \/ DmaHandlerEnds(n)

Hardware ==
  \/ DmaBus
  \/ Device /\ UNCHANGED dmaVars
  \/ \E n \in Node : DmaMove(n)

DmaFault ==
  /\ \A n \in Node : ~DmaReady(n)
  /\ Fault
  /\ UNCHANGED dmaVars

DmaNext ==
  \/ \E n \in Node : Cpu(n)
  \/ Hardware
  \/ DmaFault
  \/ Finished /\ UNCHANGED allVars

DmaSpec == DmaInit /\ [][DmaNext]_allVars

(* As in I2CPolling; the handlers and the DMA controller keep going too.   *)
DmaFairSpec ==
  /\ DmaSpec
  /\ WF_allVars(Hardware)
  /\ \A n \in Node : WF_allVars(Cpu(n)) /\ SF_allVars(WaitTimeout(n) /\ UNCHANGED dmaVars)

-----------------------------------------------------------------------------
(* Properties.  ReceivedIntact, NothingMisplaced and EveryCallReturns of   *)
(* I2CPolling are about DMA calls as well.                                 *)

(* As CountsHold of I2CPolling, for the counters of handle and channel.    *)
(* Where CountsHold leaves reads out that a slow main thread makes too     *)
(* late, a master that transfers by DMA loses its next writes as well: a   *)
(* byte too many in both of its data registers is a TDC, which the handler *)
(* of a write takes for its own.                                           *)
MasterInTime ==
  ByDma("M") =>
    env.prompt \/ \A k \in DOMAIN plan : k <= round["M"] => TimingFree(plan[k])

DmaCountsHold == DmaTypeOK /\ (MasterInTime => CallsExact)

(* A DMA handle that says I2C_END has left its peripheral alone: its       *)
(* channel has moved every byte, no DMA request is on, and a master has    *)
(* asked for the STOP that frees the bus or has got it.                    *)
DmaInCall(n) == ByDma(n) /\ pc[n] \notin {"idle", "done"}

EndQuiesces ==
  \A n \in Node :
    DmaInCall(n) /\ status[n] = "END" =>
      /\ cnt[n] = 0 /\ ~dmaen[n] /\ ~Request(n)
      /\ n = "M" => "GENSTOP" \in ctrl["M"] \/ phase = "free"

DmaReported(n) ==
  round[n] - IF ByDma(n) THEN IF DmaInCall(n) /\ status[n] = "END" THEN 0 ELSE 1
                         ELSE IF Ended(n, "OK") THEN 0 ELSE 1

DmaAddressed ==
  IF ~ByDma("S") THEN Addressed
  ELSE /\ DmaInCall("S") /\ status["S"] = "START"
       /\ \/ pc["S"] \in {"dma_on", "wait_end"}
          \/ pc["S"] = "addr7" /\ "ADDR7F" \in flags["S"]

DmaPromise ==
  INSTANCE I2CTransfer WITH
    EarlyEnd <- 0,
    script <- IF Promised THEN [k \in DOMAIN plan |-> [op |-> plan[k].op, size |-> plan[k].S]]
                          ELSE <<>>,
    master <- IF Promised THEN DmaReported("M") ELSE 0,
    slave <- IF Promised THEN DmaReported("S") ELSE 0,
    moved <- IF Promised /\ DmaAddressed THEN clocked ELSE 0

(* DMA transfers, with a partner in either mode, are the same reliable     *)
(* transfer as polling ones.                                               *)
ReliableDma == DmaPromise!Spec

=============================================================================
