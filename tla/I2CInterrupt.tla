----------------------------- MODULE I2CInterrupt -----------------------------
(***************************************************************************)
(* Interrupt-mode transfers of i2c_application.c: a master and a slave     *)
(* board, each running an application that calls the library, the library  *)
(* code in the main thread, and the event and error interrupt handlers.    *)
(*                                                                         *)
(* The main thread of a node is split where the hardware or a handler can  *)
(* come between: at every i2c_wait_flag, and after every register write    *)
(* that lets the bus move on.  A main-thread step needs the CPU: it is not *)
(* taken while an interrupt request of the node is pending or a handler    *)
(* runs.  A handler is one step, except where it waits.                    *)
(***************************************************************************)
EXTENDS I2CPeripheral

CONSTANTS
  Plans,        \* scripts of rounds the two applications may have agreed on
  MaxTries,     \* failed calls after which an application gives up
  MaxFaults,    \* line faults in a behaviour
  Timeouts,     \* may a wait give up before its flag comes?
  ResetOnError, \* does the application call i2c_config after a failed call?
  SlaveFirst,   \* does the master call only when the slave is listening?
  Prompt        \* does the main thread get from one register write to the
                \* next before the bus has done what the first allows?

UInt16 == {c \in Nat : c < 65536}

Round == [op : {"write", "read"}, M : UInt16 \ {0}, S : UInt16 \ {0}]

ASSUME PlansAssumption == Plans \subseteq Seq(Round) \ {<<>>}
ASSUME BoundsAssumption == MaxTries \in Nat /\ MaxFaults \in Nat
ASSUME SwitchesAssumption == {Timeouts, ResetOnError, SlaveFirst, Prompt} \subseteq BOOLEAN

Modes == {"I2C_INT_MA_TX", "I2C_INT_MA_RX", "I2C_INT_SLA_TX", "I2C_INT_SLA_RX"}
Errors == {"OK", "START", "ADDR", "TIMEOUT", "INTERRUPT"}
Results == Errors \cup {"STEP_1", "STEP_2"}
MainPc == {"idle", "busy", "startf", "addr", "ev6stop", "ev6ack", "addrfail",
           "enable", "wait_end", "returned", "done", "gave_up"}

VARIABLES
  \* i2c_handle_type
  mode, status, pcount, error_code,
  pbuff,    \* bytes by which pbuff has advanced over the buffer of the call
  mem,      \* what the call has stored in that buffer
  \* threads
  pc,       \* where the main thread is
  isr,      \* "none", or "ackfail" while a handler waits for that flag
  ret,      \* result of the last call
  \* applications and faults
  plan, round, tries, faults

handle == <<mode, status, pcount, error_code, pbuff, mem>>
app    == <<plan, round, tries>>
vars   == <<hwVars, handle, pc, isr, ret, app, faults>>

SwTypeOK ==
  /\ mode \in [Node -> Modes]
  /\ status \in [Node -> {"START", "END"}]
  /\ pcount \in [Node -> UInt16]
  /\ error_code \in [Node -> Errors]
  /\ pbuff \in [Node -> Nat]
  /\ mem \in [Node -> Seq(Byte)]
  /\ pc \in [Node -> MainPc]
  /\ isr \in [Node -> {"none", "ackfail"}]
  /\ ret \in [Node -> Results]
  /\ plan \in Plans
  /\ round \in [Node -> Nat \ {0}]
  /\ tries \in [Node -> Nat]
  /\ faults \in Nat

(* Registers and handles keep their types; pcount, which no handler guards *)
(* against zero, does not wrap around, and what is stored are bytes.       *)
TypeOK == HwTypeOK /\ SwTypeOK

Init ==
  /\ HwInit
  /\ mode = [n \in Node |-> "I2C_INT_MA_TX"]
  /\ status = [n \in Node |-> "START"]
  /\ pcount = [n \in Node |-> 0]
  /\ error_code = [n \in Node |-> "OK"]
  /\ pbuff = [n \in Node |-> 0]
  /\ mem = [n \in Node |-> <<>>]
  /\ pc = [n \in Node |-> "idle"]
  /\ isr = [n \in Node |-> "none"]
  /\ ret = [n \in Node |-> "OK"]
  /\ plan \in Plans
  /\ round = [n \in Node |-> 1]
  /\ tries = [n \in Node |-> 0]
  /\ faults = 0

-----------------------------------------------------------------------------
(* Helpers.                                                                *)

MainRuns(n) == isr[n] = "none" /\ ~EvtRequest(n) /\ ~ErrRequest(n)

At(n, label) == pc[n] = label /\ MainRuns(n)

Goto(n, label) == pc' = [pc EXCEPT ![n] = label] /\ UNCHANGED ret

Return(n, result) ==
  /\ pc' = [pc EXCEPT ![n] = "returned"]
  /\ ret' = [ret EXCEPT ![n] = result]

Fail(n, code) == error_code' = [error_code EXCEPT ![n] = code]

(* The round a node is in, the size its application passes, the mode its   *)
(* start function sets.                                                    *)
MyRound(n) == plan[round[n]]

Size(n) == MyRound(n)[n]

ModeOf(n) ==
  IF n = "M" THEN IF MyRound(n).op = "write" THEN "I2C_INT_MA_TX" ELSE "I2C_INT_MA_RX"
             ELSE IF MyRound(n).op = "write" THEN "I2C_INT_SLA_RX" ELSE "I2C_INT_SLA_TX"

(* pcount is a uint16_t.                                                   *)
Minus(count, k) == IF k <= count THEN count - k ELSE count + 65536 - k

-----------------------------------------------------------------------------
(* The main thread: i2c_master_transmit_int, i2c_master_receive_int,       *)
(* i2c_slave_receive_int and i2c_slave_transmit_int.                       *)

(* Defect: the call leaves pbuff where the last one did.                   *)
StartCall_pbuff_kept(n) ==
  /\ At(n, "idle")
  /\ n = "M" /\ SlaveFirst => pc["S"] = "addr" /\ round["S"] = round["M"]
  /\ mode' = [mode EXCEPT ![n] = ModeOf(n)]
  /\ status' = [status EXCEPT ![n] = "START"]
  /\ pcount' = [pcount EXCEPT ![n] = Size(n)]
  /\ Fail(n, "OK")
  /\ Goto(n, "busy")
  /\ UNCHANGED <<hwVars, pbuff, mem, isr, app, faults>>

(* The call and its initialization of the handle.                          *)
StartCall(n) ==
  /\ At(n, "idle")
  /\ n = "M" /\ SlaveFirst => pc["S"] = "addr" /\ round["S"] = round["M"]
  /\ mode' = [mode EXCEPT ![n] = ModeOf(n)]
  /\ status' = [status EXCEPT ![n] = "START"]
  /\ pcount' = [pcount EXCEPT ![n] = Size(n)]
  /\ pbuff' = [pbuff EXCEPT ![n] = 0]
  /\ mem' = [mem EXCEPT ![n] = <<>>]
  /\ Fail(n, "OK")
  /\ Goto(n, "busy")
  /\ UNCHANGED <<hwVars, isr, app, faults>>

(* Step 1, the master's bus is free: i2c_master_write_addr or              *)
(* i2c_master_read_addr up to its first wait.                              *)
MasterStart ==
  /\ At("M", "busy") /\ "BUSYF" \notin flags["M"]
  /\ SetCtrl("M", {"GENSTART"} \cup IF mode["M"] = "I2C_INT_MA_RX" THEN {"ACKEN"} ELSE {},
             {"ACKNEXT"})
  /\ Goto("M", "startf")
  /\ UNCHANGED <<ints, flags, tx, rx, busVars, handle, isr, app, faults>>

MasterSendAddress ==
  /\ At("M", "startf") /\ "STARTF" \in flags["M"]
  /\ i2c_7bit_address_send(IF mode["M"] = "I2C_INT_MA_RX" THEN "read" ELSE "write")
  /\ Goto("M", "addr")
  /\ UNCHANGED <<ctrl, ints, tx, rx, sel, clocked, acked, handle, isr, app, faults>>

(* Defect: a read of two bytes is set up like a longer one.                *)
MasterClearAddr_no_ack_next ==
  /\ At("M", "addr") /\ "ADDR7F" \in flags["M"]
  /\ ClearFlags("M", {"ADDR7F"})
  /\ \/ /\ mode["M"] = "I2C_INT_MA_TX"
        /\ Goto("M", "enable")
        /\ UNCHANGED ctrl
     \/ /\ mode["M"] = "I2C_INT_MA_RX" /\ pcount["M"] = 1
        /\ SetCtrl("M", {}, {"ACKEN"})
        /\ Goto("M", "ev6stop")
     \/ /\ mode["M"] = "I2C_INT_MA_RX" /\ pcount["M"] # 1
        /\ SetCtrl("M", {"ACKEN"}, {})
        /\ Goto("M", "enable")
  /\ UNCHANGED <<ints, tx, rx, busVars, handle, isr, app, faults>>

(* Step 2, the address was acknowledged: clear ADDR7F, which lets the bus  *)
(* move on, after the acknowledge set-up that the size of a read calls for *)
MasterClearAddr ==
  /\ At("M", "addr") /\ "ADDR7F" \in flags["M"]
  /\ ClearFlags("M", {"ADDR7F"})
  /\ \/ /\ mode["M"] = "I2C_INT_MA_TX"
        /\ Goto("M", "enable")
        /\ UNCHANGED ctrl
     \/ /\ mode["M"] = "I2C_INT_MA_RX" /\ pcount["M"] = 1
        /\ SetCtrl("M", {}, {"ACKEN"})
        /\ Goto("M", "ev6stop")
     \/ /\ mode["M"] = "I2C_INT_MA_RX" /\ pcount["M"] = 2
        /\ SetCtrl("M", {"ACKNEXT"}, {})
        /\ Goto("M", "ev6ack")
     \/ /\ mode["M"] = "I2C_INT_MA_RX" /\ pcount["M"] \notin {1, 2}
        /\ SetCtrl("M", {"ACKEN"}, {})
        /\ Goto("M", "enable")
  /\ UNCHANGED <<ints, tx, rx, busVars, handle, isr, app, faults>>

(* Receiving one byte: STOP after ADDR7F is cleared.                       *)
MasterEv6Stop ==
  /\ At("M", "ev6stop")
  /\ SetCtrl("M", {"GENSTOP"}, {})
  /\ Goto("M", "enable")
  /\ UNCHANGED <<ints, flags, tx, rx, busVars, handle, isr, app, faults>>

(* Receiving two bytes: no acknowledge for the second.                     *)
MasterEv6Ack ==
  /\ At("M", "ev6ack")
  /\ SetCtrl("M", {}, {"ACKEN"})
  /\ Goto("M", "enable")
  /\ UNCHANGED <<ints, flags, tx, rx, busVars, handle, isr, app, faults>>

(* The address was not acknowledged: i2c_wait_flag generates STOP and      *)
(* clears ACKFAIL, the address function returns its own error, ...         *)
MasterAddrFail ==
  /\ At("M", "addr") /\ "ADDR7F" \notin flags["M"] /\ "ACKFAIL" \in flags["M"]
  /\ SetCtrl("M", {"GENSTOP"}, {})
  /\ ClearFlags("M", {"ACKFAIL"})
  /\ Fail("M", "ADDR")
  /\ Goto("M", "addrfail")
  /\ UNCHANGED <<ints, tx, rx, busVars, mode, status, pcount, pbuff, mem, isr, app, faults>>

(* ... and the start function generates a STOP of its own.  If the first   *)
(* one has gone out by then, the second waits on the free bus.             *)
MasterFailStop ==
  /\ At("M", "addrfail")
  /\ SetCtrl("M", {"GENSTOP"}, {})
  /\ Return("M", "STEP_2")
  /\ UNCHANGED <<ints, flags, tx, rx, busVars, handle, isr, app, faults>>

(* A wait of the master for STARTF or ADDR7F gives up.                     *)
MasterStepTimeout ==
  /\ Timeouts
  /\ \/ /\ At("M", "startf") /\ "STARTF" \notin flags["M"]
        /\ Fail("M", "START")
     \/ /\ At("M", "addr") /\ flags["M"] \cap {"ADDR7F", "ACKFAIL"} = {}
        /\ Fail("M", "ADDR")
  /\ SetCtrl("M", {"GENSTOP"}, {})
  /\ Return("M", "STEP_2")
  /\ UNCHANGED <<ints, flags, tx, rx, busVars, mode, status, pcount, pbuff, mem, isr, app, faults>>

(* Step 1 of the slave: its address is acknowledged from here on.          *)
SlaveListen ==
  /\ At("S", "busy") /\ "BUSYF" \notin flags["S"]
  /\ SetCtrl("S", {"ACKEN"}, {"ACKNEXT"})
  /\ Goto("S", "addr")
  /\ UNCHANGED <<ints, flags, tx, rx, busVars, handle, isr, app, faults>>

SlaveClearAddr ==
  /\ At("S", "addr") /\ "ADDR7F" \in flags["S"]
  /\ ClearFlags("S", {"ADDR7F"})
  /\ Goto("S", "enable")
  /\ UNCHANGED <<ctrl, ints, tx, rx, busVars, handle, isr, app, faults>>

SlaveStepTimeout ==
  /\ Timeouts
  /\ At("S", "addr") /\ "ADDR7F" \notin flags["S"]
  /\ Fail("S", "TIMEOUT")
  /\ Return("S", "STEP_2")
  /\ UNCHANGED <<hwVars, mode, status, pcount, pbuff, mem, isr, app, faults>>

BusyTimeout(n) ==
  /\ Timeouts
  /\ At(n, "busy") /\ "BUSYF" \in flags[n]
  /\ Fail(n, "TIMEOUT")
  /\ Return(n, "STEP_1")
  /\ UNCHANGED <<hwVars, mode, status, pcount, pbuff, mem, isr, app, faults>>

(* The start function's last step; the application goes on to wait.        *)
EnableInterrupts(n) ==
  /\ At(n, "enable")
  /\ i2c_interrupt_enable(n, Interrupts)
  /\ Goto(n, "wait_end")
  /\ UNCHANGED <<ctrl, flags, tx, rx, busVars, handle, isr, app, faults>>

i2c_wait_end(n) ==
  /\ At(n, "wait_end")
  /\ \/ status[n] = "END" /\ Return(n, error_code[n])
     \/ Timeouts /\ status[n] # "END" /\ Return(n, "TIMEOUT")
  /\ UNCHANGED <<hwVars, handle, isr, app, faults>>

-----------------------------------------------------------------------------
(* The application: next round after success, else another try, after      *)
(* i2c_config if it resets on errors, until it gives up.                   *)

NextRound(n) ==
  /\ At(n, "returned") /\ ret[n] = "OK"
  /\ round' = [round EXCEPT ![n] = @ + 1]
  /\ Goto(n, IF round[n] = Len(plan) THEN "done" ELSE "idle")
  /\ UNCHANGED <<hwVars, handle, isr, plan, tries, faults>>

i2c_config(n) ==
  /\ At(n, "returned") /\ ret[n] # "OK" /\ ResetOnError
  /\ tries[n] < MaxTries
  /\ tries' = [tries EXCEPT ![n] = @ + 1]
  /\ i2c_reset(n)
  /\ Goto(n, "idle")
  /\ UNCHANGED <<handle, isr, plan, round, faults>>

Retry(n) ==
  /\ At(n, "returned") /\ ret[n] # "OK" /\ ~ResetOnError
  /\ tries[n] < MaxTries
  /\ tries' = [tries EXCEPT ![n] = @ + 1]
  /\ Goto(n, "idle")
  /\ UNCHANGED <<hwVars, handle, isr, plan, round, faults>>

GiveUp(n) ==
  /\ At(n, "returned") /\ ret[n] # "OK"
  /\ tries[n] = MaxTries
  /\ Goto(n, "gave_up")
  /\ UNCHANGED <<hwVars, handle, isr, app, faults>>

-----------------------------------------------------------------------------
(* Event interrupt handlers.                                               *)

(* Storing k received bytes and sending the next one.                      *)
ReadData(n, k) ==
  /\ mem' = [mem EXCEPT ![n] = @ \o Received(n, k)]
  /\ i2c_data_receive(n, k)
  /\ pbuff' = [pbuff EXCEPT ![n] = @ + k]
  /\ pcount' = [pcount EXCEPT ![n] = Minus(@, k)]

SendData(n) ==
  /\ i2c_data_send(n, <<round[n], pbuff[n] + 1>>)
  /\ pbuff' = [pbuff EXCEPT ![n] = @ + 1]
  /\ pcount' = [pcount EXCEPT ![n] = Minus(@, 1)]

TransferComplete(n) ==
  /\ status' = [status EXCEPT ![n] = "END"]
  /\ i2c_interrupt_disable(n, Interrupts)

(* Defects: the end of a write one byte early, and without its STOP.       *)
i2c_master_tx_isr_int_early(n) ==
  /\ TDBE(n)
  /\ \/ /\ pcount[n] <= 1
        /\ TransferComplete(n)
        /\ SetCtrl(n, {"GENSTOP"}, {})
        /\ UNCHANGED <<tx, pbuff, pcount>>
     \/ /\ pcount[n] > 1
        /\ SendData(n)
        /\ UNCHANGED <<ctrl, ints, status>>
  /\ UNCHANGED <<flags, rx, mem, isr>>

i2c_master_tx_isr_int_no_stop(n) ==
  /\ TDBE(n)
  /\ IF pcount[n] = 0
       THEN TransferComplete(n) /\ UNCHANGED <<tx, pbuff, pcount>>
       ELSE SendData(n) /\ UNCHANGED <<ints, status>>
  /\ UNCHANGED <<ctrl, flags, rx, mem, isr>>

i2c_master_tx_isr_int(n) ==
  /\ TDBE(n)
  /\ \/ /\ pcount[n] = 0
        /\ TransferComplete(n)
        /\ SetCtrl(n, {"GENSTOP"}, {})
        /\ UNCHANGED <<tx, pbuff, pcount>>
     \/ /\ pcount[n] # 0
        /\ SendData(n)
        /\ UNCHANGED <<ctrl, ints, status>>
  /\ UNCHANGED <<flags, rx, mem, isr>>

(* TDC: two bytes wait in the registers.                                   *)
MasterRxTdc(n) ==
  /\ TDC(n)
  /\ \/ /\ pcount[n] = 3
        /\ SetCtrl(n, {}, {"ACKEN"})
        /\ ReadData(n, 1)
        /\ UNCHANGED <<ints, status>>
     \/ /\ pcount[n] = 2
        /\ SetCtrl(n, {"GENSTOP"}, {})
        /\ ReadData(n, 2)
        /\ TransferComplete(n)
     \/ /\ pcount[n] \notin {2, 3}
        /\ ReadData(n, 1)
        /\ UNCHANGED <<ctrl, ints, status>>
  /\ UNCHANGED <<flags, tx, isr>>

(* Defect: RDBF reads at three bytes left, when TDC must be waited for.    *)
MasterRxRdbf_reads_at_three(n) ==
  /\ ~TDC(n) /\ RDBF(n)
  /\ \/ /\ pcount[n] >= 3
        /\ ReadData(n, 1)
        /\ UNCHANGED <<ints, status>>
     \/ /\ pcount[n] = 2
        /\ i2c_interrupt_disable(n, {"DATA"})
        /\ UNCHANGED <<rx, mem, pbuff, pcount, status>>
     \/ /\ pcount[n] < 2
        /\ ReadData(n, 1)
        /\ TransferComplete(n)
  /\ UNCHANGED <<ctrl, flags, tx, isr>>

(* RDBF alone: one byte waits.                                             *)
MasterRxRdbf(n) ==
  /\ ~TDC(n) /\ RDBF(n)
  /\ \/ /\ pcount[n] > 3
        /\ ReadData(n, 1)
        /\ UNCHANGED <<ints, status>>
     \/ /\ pcount[n] \in {2, 3}
        /\ i2c_interrupt_disable(n, {"DATA"})
        /\ UNCHANGED <<rx, mem, pbuff, pcount, status>>
     \/ /\ pcount[n] < 2
        /\ ReadData(n, 1)
        /\ TransferComplete(n)
  /\ UNCHANGED <<ctrl, flags, tx, isr>>

i2c_master_rx_isr_int(n) == MasterRxTdc(n) \/ MasterRxRdbf(n)

(* Defect: the last byte ends the call without the wait for ACKFAIL.       *)
i2c_slave_tx_isr_int_no_wait(n) ==
  /\ TDBE(n) /\ pcount[n] # 0
  /\ SendData(n)
  /\ IF pcount[n] = 1 THEN TransferComplete(n) ELSE UNCHANGED <<ints, status>>
  /\ UNCHANGED <<ctrl, flags, rx, mem, isr>>

(* The last byte: disable the interrupts and wait for ACKFAIL in the       *)
(* handler.                                                                *)
i2c_slave_tx_isr_int(n) ==
  /\ TDBE(n) /\ pcount[n] # 0
  /\ SendData(n)
  /\ IF pcount[n] = 1
       THEN /\ i2c_interrupt_disable(n, Interrupts)
            /\ isr' = [isr EXCEPT ![n] = "ackfail"]
       ELSE UNCHANGED <<ints, isr>>
  /\ UNCHANGED <<ctrl, flags, rx, mem, status>>

(* Defects: bytes beyond the buffer are stored; the end leaves the flag    *)
(* and the interrupts as they are.                                         *)
i2c_slave_rx_isr_int_unbounded(n) ==
  /\ \/ /\ RDBF(n)
        /\ ReadData(n, 1)
        /\ UNCHANGED <<ints, flags, status>>
     \/ /\ ~RDBF(n) /\ "STOPF" \in flags[n]
        /\ ClearFlags(n, {"STOPF"})
        /\ TransferComplete(n)
        /\ UNCHANGED <<rx, mem, pbuff, pcount>>
  /\ UNCHANGED <<ctrl, tx, isr>>

i2c_slave_rx_isr_int_flag_kept(n) ==
  /\ \/ /\ RDBF(n) /\ pcount[n] # 0
        /\ ReadData(n, 1)
        /\ UNCHANGED status
     \/ /\ ~RDBF(n) /\ "STOPF" \in flags[n]
        /\ status' = [status EXCEPT ![n] = "END"]
        /\ UNCHANGED <<rx, mem, pbuff, pcount>>
  /\ UNCHANGED <<ctrl, ints, flags, tx, isr>>

i2c_slave_rx_isr_int(n) ==
  /\ \/ /\ RDBF(n) /\ pcount[n] # 0
        /\ ReadData(n, 1)
        /\ UNCHANGED <<ints, flags, status>>
     \/ /\ ~RDBF(n) /\ "STOPF" \in flags[n]
        /\ ClearFlags(n, {"STOPF"})
        /\ TransferComplete(n)
        /\ UNCHANGED <<rx, mem, pbuff, pcount>>
  /\ UNCHANGED <<ctrl, tx, isr>>

(* The dispatch on the handle's mode.  Where a handler finds nothing to do *)
(* it returns with the request still pending: the same state, so no step.  *)
i2c_evt_irq_handler(n) ==
  /\ isr[n] = "none" /\ EvtRequest(n)
  /\ \/ mode[n] = "I2C_INT_MA_TX"  /\ i2c_master_tx_isr_int(n)
     \/ mode[n] = "I2C_INT_MA_RX"  /\ i2c_master_rx_isr_int(n)
     \/ mode[n] = "I2C_INT_SLA_TX" /\ i2c_slave_tx_isr_int(n)
     \/ mode[n] = "I2C_INT_SLA_RX" /\ i2c_slave_rx_isr_int(n)
  /\ UNCHANGED <<busVars, mode, error_code, pc, ret, app, faults>>

(* The rest of i2c_slave_tx_isr_int: ACKFAIL came, or the wait timed out.  *)
SlaveTxEnd(n) ==
  /\ isr[n] = "ackfail"
  /\ \/ "ACKFAIL" \in flags[n] /\ UNCHANGED error_code
     \/ Timeouts /\ "ACKFAIL" \notin flags[n] /\ Fail(n, "TIMEOUT")
  /\ ClearFlags(n, {"ACKFAIL"})
  /\ status' = [status EXCEPT ![n] = "END"]
  /\ isr' = [isr EXCEPT ![n] = "none"]
  /\ UNCHANGED <<ctrl, ints, tx, rx, busVars, mode, pcount, pbuff, mem, pc, ret, app, faults>>

i2c_err_irq_handler(n) ==
  /\ isr[n] = "none" /\ ErrRequest(n)
  /\ Fail(n, "INTERRUPT")
  /\ ClearFlags(n, {"BUSERR", "ACKFAIL"})
  /\ i2c_interrupt_disable(n, {"ERR"})
  /\ UNCHANGED <<ctrl, tx, rx, busVars, mode, status, pcount, pbuff, mem, pc, isr, ret, app, faults>>

-----------------------------------------------------------------------------
(* The hardware.                                                           *)

Quiet == UNCHANGED <<handle, pc, isr, ret, app>>

(* With Prompt no byte ends between ADDR7F and the EV6 write after it, and *)
(* no STOP goes out between the two requests for one after a refusal.      *)
InTime == Prompt => pc["M"] \notin {"ev6stop", "ev6ack", "addrfail"}

Bus ==
  /\ \/ HwStart
     \/ HwAddrAck
     \/ HwAddrNack
     \/ HwWriteByte(FALSE)
     \/ InTime /\ HwReadByte
     \/ HwOverrunByte
     \/ InTime /\ HwStop
  /\ Quiet /\ UNCHANGED faults

Fault ==
  /\ faults < MaxFaults
  /\ faults' = faults + 1
  /\ HwWriteByte(TRUE) \/ \E n \in Node : HwBusErr(n)
  /\ Quiet

MasterMain ==
  \/ MasterStart \/ MasterSendAddress \/ MasterClearAddr
  \/ MasterEv6Stop \/ MasterEv6Ack \/ MasterAddrFail \/ MasterFailStop
  \/ MasterStepTimeout

SlaveMain == SlaveListen \/ SlaveClearAddr \/ SlaveStepTimeout

Main(n) ==
  \/ StartCall(n) \/ BusyTimeout(n) \/ EnableInterrupts(n) \/ i2c_wait_end(n)
  \/ NextRound(n) \/ i2c_config(n) \/ Retry(n) \/ GiveUp(n)
  \/ n = "M" /\ MasterMain
  \/ n = "S" /\ SlaveMain

Handler(n) == i2c_evt_irq_handler(n) \/ SlaveTxEnd(n) \/ i2c_err_irq_handler(n)

Finished == \A n \in Node : pc[n] \in {"done", "gave_up"}

Next ==
  \/ \E n \in Node : Main(n) \/ Handler(n)
  \/ Bus
  \/ Fault
  \/ Finished /\ UNCHANGED vars

Spec == Init /\ [][Next]_vars

(* The CPUs and the bus keep going; faults need not happen.                *)
FairSpec ==
  /\ Spec
  /\ WF_vars(Bus)
  /\ \A n \in Node : WF_vars(Main(n)) /\ WF_vars(Handler(n))

-----------------------------------------------------------------------------
(* Properties.                                                             *)

InCall(n) == pc[n] \notin {"idle", "done"}

Receiving(n) == mode[n] \in {"I2C_INT_MA_RX", "I2C_INT_SLA_RX"}

(* The counter of a call never wraps below zero and its buffer pointer     *)
(* never passes the buffer's end, whatever order the handlers, the main    *)
(* thread and the bus come in: pbuff and pcount always divide the size     *)
(* that the application passed.                                            *)
BoundsOf(n) == pbuff[n] + pcount[n] = Size(n)

BufferBounds == \A n \in Node : InCall(n) => BoundsOf(n)

(* A handle that says I2C_END has left its peripheral alone: no interrupt  *)
(* of it is enabled, and a master has asked for the STOP that frees the    *)
(* bus or has already got it.                                              *)
EndQuiesces ==
  \A n \in Node :
    InCall(n) /\ status[n] = "END" =>
      /\ ints[n] = {}
      /\ n = "M" => "GENSTOP" \in ctrl["M"] \/ phase = "free"

(* A receive that returns I2C_OK has stored the bytes the other side sent  *)
(* for the same round, all of them, each once and in order.                *)
Sent(k, m) == [i \in 1 .. m |-> <<k, i>>]

ReceivedIntact ==
  \A n \in Node :
    pc[n] = "returned" /\ ret[n] = "OK" /\ Receiving(n)
      => mem[n] = Sent(round[n], Size(n))

(* Even over a bad line, with calls that fail, are reset and tried again,  *)
(* a receive buffer never holds bytes out of order or of two calls: it is  *)
(* a prefix of what some call sent, and then bytes of a line that nobody   *)
(* drove.                                                                  *)
NoMixedBuffer ==
  \A n \in Node :
    InCall(n) /\ Receiving(n) =>
      \E k \in 1 .. Len(plan), m \in 0 .. Len(mem[n]) :
        mem[n] = Sent(k, m) \o [i \in 1 .. Len(mem[n]) - m |-> Garbage]

(* When a master read ends, the bus has seen exactly the bytes asked for,  *)
(* and the master has refused the acknowledge of the last one and of no    *)
(* other.  It does not matter how long after the EV6 writes the main       *)
(* thread enables the interrupts: the bus goes on for two bytes and waits. *)
ReadExact == clocked = Size("M") /\ acked = Size("M") - 1

ReadClocksExactly ==
  InCall("M") /\ mode["M"] = "I2C_INT_MA_RX" /\ status["M"] = "END" => ReadExact

(* The STOP that ends a write comes after the last byte: the slave, whose  *)
(* call it ends, has acknowledged as many bytes as that call has room for. *)
(* (The master may be in its next call by then: it reports I2C_END before  *)
(* the last byte is out.)                                                  *)
StopAfterLastByte ==
  [][phase = "data" /\ dir = "write" /\ phase' = "free"
       => clocked = Size("S") /\ acked = Size("S")]_vars

(* Every call returns, if the waits are bounded, whatever the other side   *)
(* and the line do to the transfer.                                        *)
EveryCallReturns == \A n \in Node : pc[n] = "busy" ~> pc[n] = "returned"

(* The rounds the handles report over, as I2CTransfer promises them.       *)
Ended(n) == round[n] - (IF InCall(n) /\ status[n] = "END" THEN 0 ELSE 1)

Addressed ==
  /\ InCall("S") /\ status["S"] = "START"
  /\ \/ pc["S"] \in {"enable", "wait_end"}
     \/ pc["S"] = "addr" /\ "ADDR7F" \in flags["S"]

Transfer ==
  INSTANCE I2CTransfer WITH
    EarlyEnd <- 1,
    script <- [k \in DOMAIN plan |-> [op |-> plan[k].op, size |-> plan[k].S]],
    master <- Ended("M"),
    slave <- Ended("S"),
    moved <- IF Addressed THEN clocked ELSE 0

(* Over a sound line and with scripts that agree, interrupt mode is the    *)
(* reliable transfer of I2CTransfer, round after round.                    *)
ReliableTransfer == Transfer!Spec

(* "timeout: maximum waiting time": i2c_wait_end returns.                  *)
WaitEndReturns == \A n \in Node : pc[n] = "wait_end" ~> pc[n] # "wait_end"

=============================================================================
