------------------------------ MODULE I2CPolling ------------------------------
(***************************************************************************)
(* Polling-mode transfers of i2c_application.c.  The partner of the master *)
(* is either a second board that runs i2c_slave_receive and                *)
(* i2c_slave_transmit, or a memory device, which the master reads and      *)
(* writes with i2c_memory_read and i2c_memory_write.                       *)
(*                                                                         *)
(* Everything happens in the main threads; a thread is split at every      *)
(* i2c_wait_flag, inside its loop between the read of the awaited flag and *)
(* the read of the event flag, and after every register write that lets    *)
(* the bus move on.                                                        *)
(***************************************************************************)
EXTENDS I2CPeripheral

CONSTANTS
  Scenarios, \* scripts of rounds, each with the environment it runs in
  NReg       \* registers of the memory device

Ops == {"write", "read", "mem_write", "mem_read"}

Round == [op : Ops, M : Nat \ {0}, S : Nat \ {0}, reg : 0 .. NReg]

(* What surrounds the library in a behaviour: line faults that may happen, *)
(* waits that may give up, failed calls before an application gives up, a  *)
(* call of i2c_config after a failed call, a master that calls only when   *)
(* the slave is in its call, main threads that are never held up for as    *)
(* long as a byte takes on the bus, and the boards that transfer by DMA,   *)
(* which is for I2CDma.                                                    *)
Env == [faults : Nat, timeouts : BOOLEAN, tries : Nat, reset : BOOLEAN,
        slaveFirst : BOOLEAN, prompt : BOOLEAN, dma : SUBSET Node]

ASSUME ScenariosAssumption == Scenarios \subseteq (Seq(Round) \ {<<>>}) \X Env
ASSUME NRegAssumption == NReg \in Nat

Waits == {"free", "busy", "startf", "addr7", "tdbe_reg", "tdbe_restart", "restartf",
          "readdr7", "tdbe", "tdc", "rdbf", "rtdc", "stopf", "ackfail"}

(* These belong to the calls of I2CDma.                                    *)
DmaPc == {"dma_ack", "dma_stop", "dma_on", "wait_end"}

MainPc ==
  Waits \cup DmaPc \cup {"idle", "ev6stop", "ev6ack", "fail", "returned", "done", "gave_up"}

VARIABLES
  pc,       \* where the main thread is; in Waits it is in an i2c_wait_flag
  checking, \* that loop has seen the awaited flag missing, the event is next
  left,     \* the local variable size
  mem,      \* what the call has stored in its buffer
  ret,      \* result of the last call
  store,    \* registers of the memory device
  pointer,  \* its register pointer; 0 when the next byte written sets it
  env, plan, round, tries, faults

device == <<store, pointer>>
app    == <<env, plan, round, tries>>
local  == <<left, mem, ret>>
vars   == <<hwVars, pc, checking, local, device, app, faults>>

SwTypeOK ==
  /\ pc \in [Node -> MainPc]
  /\ checking \in [Node -> BOOLEAN]
  /\ left \in [Node -> Nat]
  /\ mem \in [Node -> Seq(Byte)]
  /\ ret \in [Node -> {"OK", "ERR"}]
  /\ store \in [1 .. NReg -> Byte]
  /\ pointer \in 0 .. NReg
  /\ <<plan, env>> \in Scenarios
  /\ round \in [Node -> Nat \ {0}]
  /\ tries \in [Node -> Nat]
  /\ faults \in Nat

(* Registers and locals keep their types; size never goes below zero, and  *)
(* what is stored are bytes of a transfer.                                 *)
TypeOK == HwTypeOK /\ SwTypeOK

-----------------------------------------------------------------------------
(* Helpers.                                                                *)

MyRound(n) == plan[round[n]]

Size(n) == MyRound(n)[n]

Memory == plan[1].op \in {"mem_write", "mem_read"}

Reads(n)  == MyRound(n).op \in IF n = "M" THEN {"read", "mem_read"} ELSE {"write"}

SlaveReceives == MyRound("S").op = "write"

(* The next register; the device's pointer wraps at its last one.          *)
After(r) == IF r = NReg THEN 1 ELSE r + 1

(* The flag that the wait at pc[n] is for.                                 *)
FlagCame(n) ==
  \/ pc[n] = "free" /\ "BUSYF" \notin flags[n]
  \/ pc[n] = "busy" /\ "BUSYF" \in flags[n]
  \/ pc[n] \in {"startf", "restartf"} /\ "STARTF" \in flags[n]
  \/ pc[n] \in {"addr7", "readdr7"} /\ "ADDR7F" \in flags[n]
  \/ pc[n] \in {"tdbe_reg", "tdbe_restart", "tdbe"} /\ TDBE(n)
  \/ pc[n] = "rdbf" /\ RDBF(n)
  \/ pc[n] \in {"tdc", "rtdc"} /\ TDC(n)
  \/ pc[n] = "stopf" /\ "STOPF" \in flags[n]
  \/ pc[n] = "ackfail" /\ "ACKFAIL" \in flags[n]

(* The event_check argument of that wait.                                  *)
EventCheck(n) ==
  IF n = "M"
    THEN IF pc[n] \in {"addr7", "readdr7", "tdbe_reg", "tdbe_restart", "tdbe", "tdc"}
           THEN {"ACKFAIL"} ELSE {}
    ELSE IF pc[n] = "rdbf" THEN {"STOPF"}
         ELSE IF pc[n] \in {"tdbe", "stopf"} THEN {"ACKFAIL"} ELSE {}

(* i2c_wait_flag returns I2C_OK at this wait.                              *)
Came(n, label) == pc[n] = label /\ ~checking[n] /\ FlagCame(n)

Goto(n, label) == pc' = [pc EXCEPT ![n] = label]

Stay == UNCHANGED <<checking, device, app, faults>>

Return(n, result) ==
  /\ Goto(n, "returned")
  /\ ret' = [ret EXCEPT ![n] = result]

Count(n, k) == left' = [left EXCEPT ![n] = @ - k]

-----------------------------------------------------------------------------
(* The application and the start of its calls.                             *)

Init ==
  /\ \E s \in Scenarios : plan = s[1] /\ env = s[2]
  /\ ctrl = [n \in Node |-> IF n = "S" /\ Memory THEN {"ACKEN"} ELSE {}]
  /\ ints = [n \in Node |-> {}]
  /\ flags = [n \in Node |-> {}]
  /\ tx = [n \in Node |-> <<>>]
  /\ rx = [n \in Node |-> <<>>]
  /\ phase = "free" /\ dir = "write" /\ sel = FALSE
  /\ clocked = 0 /\ acked = 0
  /\ pc = [n \in Node |-> IF n = "S" /\ Memory THEN "done" ELSE "idle"]
  /\ checking = [n \in Node |-> FALSE]
  /\ left = [n \in Node |-> 0]
  /\ mem = [n \in Node |-> <<>>]
  /\ ret = [n \in Node |-> "OK"]
  /\ store = [r \in 1 .. NReg |-> <<0, NReg + r>>]
  /\ pointer = 0
  /\ round = [n \in Node |-> 1]
  /\ tries = [n \in Node |-> 0]
  /\ faults = 0

(* The memory device has served its peripheral.                            *)
DeviceReady ==
  Memory =>
    /\ "ADDR7F" \notin flags["S"]
    /\ ~RDBF("S")
    /\ sel /\ dir = "read" => tx["S"] # <<>>

(* The slave is in the wait that the master's frame ends.                  *)
Listening ==
  /\ round["S"] = round["M"]
  /\ pc["S"] \in {"busy", "addr7"}

(* A call begins with a wait for the bus: to be free, except in            *)
(* i2c_slave_receive, which waits for the bus to be busy.                  *)
FirstWait(n) == IF n = "S" /\ SlaveReceives THEN "busy" ELSE "free"

StartCall(n) ==
  /\ pc[n] = "idle"
  /\ n = "M" /\ env.slaveFirst /\ ~Memory => Listening
  /\ left' = [left EXCEPT ![n] = Size(n)]
  /\ mem' = [mem EXCEPT ![n] = <<>>]
  /\ Goto(n, FirstWait(n))
  /\ UNCHANGED <<hwVars, ret>> /\ Stay

NextRound(n) ==
  /\ pc[n] = "returned" /\ ret[n] = "OK"
  /\ round' = [round EXCEPT ![n] = @ + 1]
  /\ Goto(n, IF round[n] = Len(plan) THEN "done" ELSE "idle")
  /\ UNCHANGED <<hwVars, checking, local, device, env, plan, tries, faults>>

(* Defect: an application that resets on errors forgets it.                *)
TryAgain_no_reset(n) ==
  /\ pc[n] = "returned" /\ ret[n] = "ERR"
  /\ tries[n] < env.tries
  /\ tries' = [tries EXCEPT ![n] = @ + 1]
  /\ Goto(n, "idle")
  /\ UNCHANGED <<hwVars, checking, local, device, env, plan, round, faults>>

(* After a failed call: another try, after i2c_config where the            *)
(* application resets on errors, until it gives up.                        *)
TryAgain(n) ==
  /\ pc[n] = "returned" /\ ret[n] = "ERR"
  /\ tries[n] < env.tries
  /\ tries' = [tries EXCEPT ![n] = @ + 1]
  /\ Goto(n, "idle")
  /\ IF env.reset THEN DeviceReady /\ i2c_reset(n) ELSE UNCHANGED hwVars
  /\ UNCHANGED <<checking, local, device, env, plan, round, faults>>

GiveUp(n) ==
  /\ pc[n] = "returned" /\ ret[n] = "ERR"
  /\ tries[n] = env.tries
  /\ Goto(n, "gave_up")
  /\ UNCHANGED <<hwVars, local>> /\ Stay

-----------------------------------------------------------------------------
(* i2c_wait_flag.                                                          *)

(* Defect: the event flag is looked at before the awaited flag.            *)
LookAgain_event_first(n) ==
  /\ pc[n] \in Waits /\ ~checking[n]
  /\ ~FlagCame(n) \/ EventCheck(n) \cap flags[n] # {}
  /\ EventCheck(n) # {} \/ env.timeouts
  /\ checking' = [checking EXCEPT ![n] = TRUE]
  /\ UNCHANGED <<hwVars, pc, local, device, app, faults>>

(* The awaited flag is not there: the loop goes on to the event flag.      *)
LookAgain(n) ==
  /\ pc[n] \in Waits /\ ~checking[n] /\ ~FlagCame(n)
  /\ EventCheck(n) # {} \/ env.timeouts
  /\ checking' = [checking EXCEPT ![n] = TRUE]
  /\ UNCHANGED <<hwVars, pc, local, device, app, faults>>

(* No event, and time left: the next turn of the loop.                     *)
NoEvent(n) ==
  /\ checking[n]
  /\ EventCheck(n) \cap flags[n] = {}
  /\ checking' = [checking EXCEPT ![n] = FALSE]
  /\ UNCHANGED <<hwVars, pc, local, device, app, faults>>

(* ACKFAIL makes i2c_wait_flag generate STOP, on a slave as on a master.   *)
WaitAckFail(n) ==
  /\ checking[n]
  /\ "ACKFAIL" \in EventCheck(n) \cap flags[n]
  /\ SetCtrl(n, {"GENSTOP"}, {})
  /\ ClearFlags(n, {"ACKFAIL"})
  /\ checking' = [checking EXCEPT ![n] = FALSE]
  /\ Goto(n, "fail")
  /\ UNCHANGED <<ints, tx, rx, busVars, local, device, app, faults>>

WaitStop(n) ==
  /\ checking[n]
  /\ "STOPF" \in EventCheck(n) \cap flags[n]
  /\ ClearFlags(n, {"STOPF"})
  /\ checking' = [checking EXCEPT ![n] = FALSE]
  /\ Goto(n, "fail")
  /\ UNCHANGED <<ctrl, ints, tx, rx, busVars, local, device, app, faults>>

(* After these two waits the call returns without a clean-up: step 1 of    *)
(* every call, and step 5 of i2c_slave_transmit.                           *)
NoCleanUp == {"free", "busy", "ackfail"}

(* Defect: the wait for the stop condition has no time-out.                *)
WaitTimeout_not_stopf(n) ==
  /\ env.timeouts
  /\ checking[n] /\ pc[n] # "stopf"
  /\ EventCheck(n) \cap flags[n] = {}
  /\ checking' = [checking EXCEPT ![n] = FALSE]
  /\ \/ pc[n] \in NoCleanUp /\ Return(n, "ERR")
     \/ pc[n] \notin NoCleanUp /\ Goto(n, "fail") /\ UNCHANGED ret
  /\ UNCHANGED <<hwVars, left, mem, device, app, faults>>

WaitTimeout(n) ==
  /\ env.timeouts
  /\ checking[n]
  /\ EventCheck(n) \cap flags[n] = {}
  /\ checking' = [checking EXCEPT ![n] = FALSE]
  /\ \/ pc[n] \in NoCleanUp /\ Return(n, "ERR")
     \/ pc[n] \notin NoCleanUp /\ Goto(n, "fail") /\ UNCHANGED ret
  /\ UNCHANGED <<hwVars, left, mem, device, app, faults>>

(* What a call does before it returns an error: a master generates STOP,   *)
(* a slave refuses its address from here on.                               *)
CleanUp(n) ==
  /\ pc[n] = "fail"
  /\ IF n = "M" THEN SetCtrl("M", {"GENSTOP"}, {}) ELSE SetCtrl("S", {}, {"ACKEN"})
  /\ Return(n, "ERR")
  /\ UNCHANGED <<ints, flags, tx, rx, busVars, left, mem>> /\ Stay

-----------------------------------------------------------------------------
(* The master: START and address.                                          *)

GenerateStart ==
  /\ Came("M", "free")
  /\ SetCtrl("M", {"GENSTART"} \cup IF Reads("M") THEN {"ACKEN"} ELSE {}, {"ACKNEXT"})
  /\ Goto("M", "startf")
  /\ UNCHANGED <<ints, flags, tx, rx, busVars, local>> /\ Stay

(* i2c_memory_read addresses the device for writing first.                 *)
SendAddress ==
  /\ \/ /\ Came("M", "startf")
        /\ i2c_7bit_address_send(IF MyRound("M").op = "read" THEN "read" ELSE "write")
        /\ Goto("M", "addr7")
     \/ /\ Came("M", "restartf")
        /\ i2c_7bit_address_send("read")
        /\ Goto("M", "readdr7")
  /\ UNCHANGED <<ctrl, ints, tx, rx, sel, clocked, acked, local>> /\ Stay

(* Clearing ADDR7F for writing lets the bus move on.                       *)
ClearAddrToWrite ==
  /\ Came("M", "addr7") /\ MyRound("M").op # "read"
  /\ ClearFlags("M", {"ADDR7F"})
  /\ Goto("M", IF Memory THEN "tdbe_reg" ELSE "tdbe")
  /\ UNCHANGED <<ctrl, ints, tx, rx, busVars, local>> /\ Stay

SendRegister ==
  /\ Came("M", "tdbe_reg")
  /\ i2c_data_send("M", <<0, MyRound("M").reg>>)
  /\ Goto("M", IF Reads("M") THEN "tdbe_restart" ELSE "tdbe")
  /\ UNCHANGED <<ctrl, ints, flags, rx, busVars, local>> /\ Stay

(* i2c_master_read_addr in the middle of i2c_memory_read.                  *)
GenerateRestart ==
  /\ Came("M", "tdbe_restart")
  /\ SetCtrl("M", {"ACKEN", "GENSTART"}, {})
  /\ Goto("M", "restartf")
  /\ UNCHANGED <<ints, flags, tx, rx, busVars, local>> /\ Stay

-----------------------------------------------------------------------------
(* The master: data.                                                       *)

SendData(n, last) ==
  /\ Came(n, "tdbe")
  /\ i2c_data_send(n, <<round[n], Size(n) - left[n] + 1>>)
  /\ Count(n, 1)
  /\ Goto(n, IF left[n] = 1 THEN last ELSE "tdbe")
  /\ UNCHANGED <<ctrl, ints, flags, rx, busVars, mem, ret>> /\ Stay

(* Defect: the end of a write without the wait for TDC.                    *)
StopWrite_no_wait ==
  /\ pc["M"] = "tdc"
  /\ SetCtrl("M", {"GENSTOP"}, {})
  /\ Return("M", "OK")
  /\ UNCHANGED <<ints, flags, tx, rx, busVars, left, mem>> /\ Stay

(* TDC: the last byte of a write is out and acknowledged.                  *)
StopWrite ==
  /\ Came("M", "tdc")
  /\ SetCtrl("M", {"GENSTOP"}, {})
  /\ Return("M", "OK")
  /\ UNCHANGED <<ints, flags, tx, rx, busVars, left, mem>> /\ Stay

(* Which wait the loop of a read starts with, and goes on with, when k     *)
(* bytes are left.                                                         *)
ReadWait(k) == IF k \in {2, 3} THEN "rtdc" ELSE "rdbf"

(* Clearing ADDR7F for reading, with the acknowledge set-up that the size  *)
(* calls for.  For two bytes i2c_master_receive turns the acknowledge off  *)
(* before ADDR7F is cleared, i2c_memory_read after it.                     *)
ClearAddrToRead ==
  /\ \/ Came("M", "readdr7")
     \/ Came("M", "addr7") /\ MyRound("M").op = "read"
  /\ ClearFlags("M", {"ADDR7F"})
  /\ \/ /\ left["M"] = 1
        /\ SetCtrl("M", {}, {"ACKEN"})
        /\ Goto("M", "ev6stop")
     \/ /\ left["M"] = 2
        /\ IF Memory
             THEN SetCtrl("M", {"ACKNEXT"}, {}) /\ Goto("M", "ev6ack")
             ELSE SetCtrl("M", {"ACKNEXT"}, {"ACKEN"}) /\ Goto("M", "rtdc")
     \/ /\ left["M"] > 2
        /\ SetCtrl("M", {"ACKEN"}, {})
        /\ Goto("M", ReadWait(left["M"]))
  /\ UNCHANGED <<ints, tx, rx, busVars, local>> /\ Stay

Ev6Stop ==
  /\ pc["M"] = "ev6stop"
  /\ SetCtrl("M", {"GENSTOP"}, {})
  /\ Goto("M", "rdbf")
  /\ UNCHANGED <<ints, flags, tx, rx, busVars, local>> /\ Stay

Ev6Ack ==
  /\ pc["M"] = "ev6ack"
  /\ SetCtrl("M", {}, {"ACKEN"})
  /\ Goto("M", "rtdc")
  /\ UNCHANGED <<ints, flags, tx, rx, busVars, local>> /\ Stay

ReadData(n, k) ==
  /\ mem' = [mem EXCEPT ![n] = @ \o Received(n, k)]
  /\ i2c_data_receive(n, k)
  /\ Count(n, k)

(* Defect: the last byte is followed by a STOP, the second one.            *)
ReadByte_stop ==
  /\ Came("M", "rdbf")
  /\ ReadData("M", 1)
  /\ IF left["M"] = 1 THEN Return("M", "OK") /\ SetCtrl("M", {"GENSTOP"}, {})
                      ELSE Goto("M", ReadWait(left["M"] - 1)) /\ UNCHANGED <<ret, ctrl>>
  /\ UNCHANGED <<ints, flags, tx, busVars>> /\ Stay

(* One byte while more than three are left, or the only one.               *)
ReadByte ==
  /\ Came("M", "rdbf")
  /\ ReadData("M", 1)
  /\ IF left["M"] = 1 THEN Return("M", "OK")
                      ELSE Goto("M", ReadWait(left["M"] - 1)) /\ UNCHANGED ret
  /\ UNCHANGED <<ctrl, ints, flags, tx, busVars>> /\ Stay

(* Defect: the acknowledge stays on.                                       *)
ReadThirdLast_ack ==
  /\ Came("M", "rtdc") /\ left["M"] = 3
  /\ ReadData("M", 1)
  /\ UNCHANGED <<ctrl, ints, flags, tx, busVars, pc, ret>> /\ Stay

(* Three left, two of them in the registers: no acknowledge for the last.  *)
ReadThirdLast ==
  /\ Came("M", "rtdc") /\ left["M"] = 3
  /\ SetCtrl("M", {}, {"ACKEN"})
  /\ ReadData("M", 1)
  /\ UNCHANGED <<ints, flags, tx, busVars, pc, ret>> /\ Stay

ReadLastTwo ==
  /\ Came("M", "rtdc") /\ left["M"] = 2
  /\ SetCtrl("M", {"GENSTOP"}, {})
  /\ ReadData("M", 2)
  /\ Return("M", "OK")
  /\ UNCHANGED <<ints, flags, tx, busVars>> /\ Stay

-----------------------------------------------------------------------------
(* The slave: i2c_slave_receive waits for BUSYF to be set before it        *)
(* acknowledges its address, i2c_slave_transmit for BUSYF to be reset.     *)

EnableAck ==
  /\ Came("S", "free") \/ Came("S", "busy")
  /\ SetCtrl("S", {"ACKEN"}, {"ACKNEXT"})
  /\ Goto("S", "addr7")
  /\ UNCHANGED <<ints, flags, tx, rx, busVars, local>> /\ Stay

SlaveClearAddr ==
  /\ Came("S", "addr7")
  /\ ClearFlags("S", {"ADDR7F"})
  /\ Goto("S", IF SlaveReceives THEN "rdbf" ELSE "tdbe")
  /\ UNCHANGED <<ctrl, ints, tx, rx, busVars, local>> /\ Stay

(* Defect: the loop stops a byte early.                                    *)
SlaveReadByte_early ==
  /\ Came("S", "rdbf")
  /\ ReadData("S", 1)
  /\ Goto("S", IF left["S"] <= 2 THEN "stopf" ELSE "rdbf")
  /\ UNCHANGED <<ctrl, ints, flags, tx, busVars, ret>> /\ Stay

SlaveReadByte ==
  /\ Came("S", "rdbf")
  /\ ReadData("S", 1)
  /\ Goto("S", IF left["S"] = 1 THEN "stopf" ELSE "rdbf")
  /\ UNCHANGED <<ctrl, ints, flags, tx, busVars, ret>> /\ Stay

(* The master's STOP, or its refusal of the last byte, ends the call.      *)
SlaveEnd ==
  /\ \/ Came("S", "stopf") /\ ClearFlags("S", {"STOPF"})
     \/ Came("S", "ackfail") /\ ClearFlags("S", {"ACKFAIL"})
  /\ SetCtrl("S", {}, {"ACKEN"})
  /\ Return("S", "OK")
  /\ UNCHANGED <<ints, tx, rx, busVars, left, mem>> /\ Stay

-----------------------------------------------------------------------------
(* The memory device serves its peripheral before the bus moves on.        *)

DeviceAddressed ==
  /\ "ADDR7F" \in flags["S"]
  /\ ClearFlags("S", {"ADDR7F", "ACKFAIL", "STOPF"})
  /\ pointer' = IF dir = "write" THEN 0 ELSE pointer
  /\ UNCHANGED <<tx, rx, store>>

(* The first byte of a write is a register, the next ones go there.  A     *)
(* register that the device does not have leaves its pointer unset.        *)
DeviceTakes ==
  /\ RDBF("S")
  /\ LET byte == Head(rx["S"]) IN
       IF pointer = 0
       THEN /\ pointer' = IF byte[2] \in 1 .. NReg THEN byte[2] ELSE 0
            /\ UNCHANGED store
       ELSE /\ store' = [store EXCEPT ![pointer] = byte]
            /\ pointer' = After(pointer)
  /\ i2c_data_receive("S", 1)
  /\ UNCHANGED <<flags, tx>>

DeviceGives ==
  /\ sel /\ dir = "read" /\ "ADDR7F" \notin flags["S"]
  /\ tx["S"] = <<>> /\ pointer # 0
  /\ i2c_data_send("S", store[pointer])
  /\ pointer' = After(pointer)
  /\ UNCHANGED <<flags, rx, store>>

Device ==
  /\ Memory
  /\ DeviceAddressed \/ DeviceTakes \/ DeviceGives
  /\ UNCHANGED <<ctrl, ints, busVars, pc, checking, local, app, faults>>

-----------------------------------------------------------------------------
(* The bus.                                                                *)

Quiet == UNCHANGED <<pc, checking, local, device, app>>

(* A prompt main thread has written its next register, or read its next    *)
(* flag, before the bus gets on by a byte.                                 *)
InTime ==
  env.prompt =>
    /\ pc["M"] \notin {"ev6stop", "ev6ack", "fail"}
    /\ pc["S"] = "busy" => ~FlagCame("S")
    /\ \A n \in Node : ~(checking[n] /\ FlagCame(n))

Bus ==
  /\ DeviceReady
  /\ \/ HwStart
     \/ HwRestart
     \/ InTime /\ (HwAddrAck \/ HwAddrNack \/ HwReadByte \/ HwStop)
     \/ HwWriteByte(FALSE)
     \/ HwOverrunByte
     \/ HwSlaveRelease
  /\ Quiet /\ UNCHANGED faults

Fault ==
  /\ faults < env.faults /\ DeviceReady
  /\ faults' = faults + 1
  /\ HwWriteByte(TRUE)
  /\ Quiet

Master ==
  \/ GenerateStart \/ SendAddress \/ ClearAddrToWrite \/ SendRegister \/ GenerateRestart
  \/ SendData("M", "tdc") \/ StopWrite
  \/ ClearAddrToRead \/ Ev6Stop \/ Ev6Ack \/ ReadByte \/ ReadThirdLast \/ ReadLastTwo

Slave ==
  \/ EnableAck \/ SlaveClearAddr \/ SlaveReadByte \/ SendData("S", "ackfail") \/ SlaveEnd

Wait(n) ==
  LookAgain(n) \/ NoEvent(n) \/ WaitAckFail(n) \/ WaitStop(n) \/ WaitTimeout(n) \/ CleanUp(n)

Main(n) ==
  \/ StartCall(n) \/ NextRound(n) \/ TryAgain(n) \/ GiveUp(n)
  \/ Wait(n)
  \/ n = "M" /\ Master
  \/ n = "S" /\ Slave

Finished == \A n \in Node : pc[n] \in {"done", "gave_up"}

Next ==
  \/ \E n \in Node : Main(n)
  \/ Device
  \/ Bus
  \/ Fault
  \/ Finished /\ UNCHANGED vars

Spec == Init /\ [][Next]_vars

(* The CPUs, the bus and the device keep going; faults need not happen.  A *)
(* wait with a time-out does not go round its loop for ever.               *)
FairSpec ==
  /\ Spec
  /\ WF_vars(Bus \/ Device)
  /\ \A n \in Node : WF_vars(Main(n)) /\ SF_vars(WaitTimeout(n))

-----------------------------------------------------------------------------
(* Properties.                                                             *)

Ended(n, result) == pc[n] = "returned" /\ ret[n] = result

Sound == env.faults = 0 /\ ~env.timeouts /\ env.prompt

Sent(k, m) == [i \in 1 .. m |-> <<k, i>>]

(* Between boards: the bytes the other one sent for the same round, all of *)
(* them, each once and in order - also when the master called too early    *)
(* and had to try again.                                                   *)
BoardReceived ==
  \A n \in Node :
    ~Memory /\ Ended(n, "OK") /\ Reads(n) => mem[n] = Sent(round[n], Size(n))

(* From the memory device: the registers that were asked for, as an        *)
(* earlier i2c_memory_write has left them.                                 *)
Window(k) == [i \in 1 .. plan[k].M |-> ((plan[k].reg + i - 2) % NReg) + 1]

MemoryRead ==
  Memory /\ Ended("M", "OK") /\ Reads("M") =>
    mem["M"] = [i \in 1 .. Size("M") |-> store[Window(round["M"])[i]]]

(* A receive that returns I2C_OK over a sound line has stored what the     *)
(* partner had for it.                                                     *)
ReceivedIntact == Sound => BoardReceived /\ MemoryRead

(* When a read returns I2C_OK, the bus has seen exactly the bytes asked    *)
(* for, and the master has refused the acknowledge of the last one and of  *)
(* no other.  This needs a prompt main thread for one byte, where STOP     *)
(* follows ADDR7F, and for i2c_memory_read of two; it does not for         *)
(* i2c_master_receive of two, nor from three bytes on - unless an earlier  *)
(* call was late and has left a byte in the data register.                 *)
TimingFree(r) ==
  \/ r.op \in {"write", "mem_write"}
  \/ r.M >= 3
  \/ r.M = 2 /\ r.op = "read"

ReadExact ==
  /\ Ended("M", "OK") /\ Reads("M")
  /\ env.prompt \/ \A k \in 1 .. round["M"] : TimingFree(plan[k])
  => clocked = Size("M") /\ acked = Size("M") - 1

(* A write that returns I2C_OK was acknowledged to the last byte.          *)
WriteAcked ==
  Ended("M", "OK") /\ ~Reads("M") =>
    acked = Size("M") + IF Memory THEN 1 ELSE 0

(* A call that returns I2C_OK has had its bytes on the bus, no more and no *)
(* fewer, with every acknowledge where it belongs, and no counter leaves   *)
(* its type on the way.                                                    *)
CallsExact == ReadExact /\ WriteAcked
CountsHold == TypeOK /\ CallsExact

(* A STOP is never requested of a bus that is free: such a request would   *)
(* wait for the next START and cut that frame off.                         *)
StopHasFrame ==
  env.prompt /\ ~env.timeouts => ("GENSTOP" \in ctrl["M"] => phase # "free")

(* A slave receive that gives up because a STOP came has read every byte   *)
(* that came before the STOP: i2c_wait_flag looks at the data flag first.  *)
NothingLeftBehind ==
  env.prompt /\ ~env.timeouts /\ pc["S"] = "fail" /\ SlaveReceives => rx["S"] = <<>>

(* A receive buffer never holds bytes out of order or of two calls: it is  *)
(* a prefix of what the other board sends, and then bytes of a line that   *)
(* nobody drove.  (Over several rounds this is not so: a slave receive     *)
(* that is sent more than it has room for leaves the rest to the next.)    *)
NoMixedBuffer ==
  \A n \in Node :
    /\ env.reset /\ env.prompt /\ ~Memory /\ Len(plan) = 1
    /\ pc[n] \notin {"idle", "done"} /\ Reads(n)
    => \E m \in 0 .. Len(mem[n]) :
         mem[n] = Sent(1, m) \o [i \in 1 .. Len(mem[n]) - m |-> Garbage]

(* A register of the memory device holds what it did at the start, or a    *)
(* byte of i2c_memory_write that is meant for it.                          *)
OnlyAddressed ==
  \A r \in 1 .. NReg :
    \/ store[r] = <<0, NReg + r>>
    \/ \E k \in 1 .. Len(plan) :
         /\ plan[k].op = "mem_write"
         /\ \E i \in DOMAIN Window(k) : Window(k)[i] = r /\ store[r] = <<k, i>>

(* Over a bad line, with a call that fails half way, is reset and tried    *)
(* again, no byte is ever found where it does not belong.                  *)
NothingMisplaced == NoMixedBuffer /\ OnlyAddressed

(* Every call returns: if its waits are bounded, whatever happens; if they *)
(* are not, over a sound line.  So both applications get through their     *)
(* script.                                                                 *)
EveryCallReturns ==
  env.timeouts \/ (Sound /\ env.slaveFirst) =>
    \A n \in Node : pc[n] \in {"free", "busy"} ~> pc[n] = "returned"

(* The rounds the calls report over, as I2CTransfer promises them.         *)
Reported(n) == round[n] - IF Ended(n, "OK") THEN 0 ELSE 1

Addressed ==
  \/ pc["S"] \in {"rdbf", "stopf", "tdbe", "ackfail"}
  \/ pc["S"] = "addr7" /\ "ADDR7F" \in flags["S"]

Promised == Sound /\ env.slaveFirst /\ ~Memory

Transfer ==
  INSTANCE I2CTransfer WITH
    EarlyEnd <- 0,
    script <- IF Promised THEN [k \in DOMAIN plan |-> [op |-> plan[k].op, size |-> plan[k].S]]
                          ELSE <<>>,
    master <- IF Promised THEN Reported("M") ELSE 0,
    slave <- IF Promised THEN Reported("S") ELSE 0,
    moved <- IF Promised /\ Addressed THEN clocked ELSE 0

(* Over a sound line and with scripts that agree, polling mode is the      *)
(* reliable transfer of I2CTransfer, no call ending early.                 *)
ReliableTransfer == Transfer!Spec

=============================================================================
