--------------------------- MODULE I2CPollingProofs ---------------------------
(***************************************************************************)
(* That I2CPollingInv!PollInv is inductive, for every script, size and     *)
(* number of faults, in the environments that Recovers names, and the      *)
(* theorems that follow.  Types come first, then the threads' counters,    *)
(* then the master's frame, then the memory device.                        *)
(***************************************************************************)
EXTENDS I2CPollingInv, I2CPeripheralProofs

(* The script and the environment are what Scenarios says.                 *)
LEMMA ScriptFacts ==
  ASSUME <<plan, env>> \in Scenarios
  PROVE  /\ plan \in Seq(Round) /\ Len(plan) \in Nat \ {0}
         /\ env \in Env
         /\ env.timeouts \in BOOLEAN /\ env.reset \in BOOLEAN /\ env.prompt \in BOOLEAN
         /\ env.faults \in Nat /\ env.tries \in Nat /\ env.slaveFirst \in BOOLEAN
<1>1. <<plan, env>> \in (Seq(Round) \ {<<>>}) \X Env
  BY ScenariosAssumption
<1>2. plan \in Seq(Round) /\ plan # <<>> /\ env \in Env
  BY <1>1
<1>3. Len(plan) \in Nat \ {0}
  BY <1>2
<1>4. QED
  BY <1>2, <1>3 DEF Env

(* The round that a node is in.                                            *)
LEMMA RoundFacts ==
  ASSUME <<plan, env>> \in Scenarios, NEW n \in Node, round[n] \in 1 .. Len(plan)
  PROVE  /\ MyRound(n) \in Round
         /\ Size(n) \in Nat \ {0}
         /\ MyRound(n).op \in Ops /\ MyRound(n).reg \in 0 .. NReg
         /\ round[n] \in Nat \ {0}
<1>1. plan \in Seq(Round) /\ Len(plan) \in Nat
  BY ScriptFacts
<1>2. plan[round[n]] \in Round
  BY <1>1
<1>3. /\ plan[round[n]].M \in Nat \ {0} /\ plan[round[n]].S \in Nat \ {0}
      /\ plan[round[n]].op \in Ops /\ plan[round[n]].reg \in 0 .. NReg
  BY <1>2 DEF Round
<1>4. Size(n) \in Nat \ {0}
  <2>1. CASE n = "M"
    BY <1>3, <2>1 DEF Size, MyRound
  <2>2. CASE n = "S"
    BY <1>3, <2>2 DEF Size, MyRound
  <2>3. QED
    BY <2>1, <2>2 DEF Node
<1>5. QED
  BY <1>1, <1>2, <1>3, <1>4 DEF MyRound

(* In a script that fits, Memory says which calls every round makes.       *)
LEMMA ModeFacts ==
  ASSUME <<plan, env>> \in Scenarios, ScriptFits, NEW k \in 1 .. Len(plan)
  PROVE  /\ Memory => plan[k].op \in {"mem_write", "mem_read"} /\ plan[k].reg \in 1 .. NReg
         /\ ~Memory => plan[k].op \in {"write", "read"}
         /\ plan[k] \in Round /\ plan[k].M \in Nat \ {0} /\ plan[k].S \in Nat \ {0}
<1>1. plan \in Seq(Round) /\ Len(plan) \in Nat \ {0} /\ 1 \in 1 .. Len(plan)
  BY ScriptFacts
<1>2. plan[k] \in Round
  BY <1>1
<1>3. plan[k].reg \in 0 .. NReg /\ plan[k].M \in Nat \ {0} /\ plan[k].S \in Nat \ {0}
  BY <1>2 DEF Round
<1>4. QED
  BY <1>1, <1>2, <1>3, NRegAssumption DEF ScriptFits, Memory

(***************************************************************************)
(* Types.                                                                  *)
(***************************************************************************)

(* k bytes taken from the data register: rx, the buffer and the counter    *)
(* keep their types, provided that the counter allows k.                   *)
LEMMA ReadDataTypes ==
  ASSUME TypeOK, NEW n \in Node, NEW k \in {1, 2}, k <= left[n], ReadData(n, k)
  PROVE  /\ mem' \in [Node -> Seq(Byte)]
         /\ rx' \in [Node -> Seq(Byte)]
         /\ left' \in [Node -> Nat]
<1>1. Received(n, k) \in Seq(Byte)
  BY ReceivedType DEF TypeOK, HwTypeOK
<1>2. mem[n] \o Received(n, k) \in Seq(Byte)
  BY <1>1 DEF TypeOK, SwTypeOK
<1>3. SubSeq(rx[n], k + 1, Len(rx[n])) \in Seq(Byte)
  BY RestType DEF TypeOK, HwTypeOK
<1>4. left[n] - k \in Nat
  BY DEF TypeOK, SwTypeOK
<1>5. mem' \in [Node -> Seq(Byte)]
  BY <1>2 DEF ReadData, TypeOK, SwTypeOK
<1>6. rx' \in [Node -> Seq(Byte)]
  BY <1>3 DEF ReadData, i2c_data_receive, TypeOK, HwTypeOK
<1>7. left' \in [Node -> Nat]
  BY <1>4 DEF ReadData, Count, TypeOK, SwTypeOK
<1>8. QED
  BY <1>5, <1>6, <1>7

(* A byte put into the data register.                                      *)
LEMMA SendDataTypes ==
  ASSUME HwTypeOK, NEW n \in Node, NEW b \in Byte, i2c_data_send(n, b)
  PROVE  tx' \in [Node -> Seq(Byte)]
<1>1. Append(tx[n], b) \in Seq(Byte)
  BY DEF HwTypeOK
<1>2. QED
  BY <1>1, UpdateType DEF i2c_data_send, HwTypeOK

(* The application and the waits, which either side has.                   *)
LEMMA CommonTypes ==
  ASSUME TypeOK, ThreadInv, NEW n \in Node,
         StartCall(n) \/ NextRound(n) \/ TryAgain(n) \/ GiveUp(n) \/ Wait(n)
  PROVE  TypeOK'
<1> USE DEF TypeOK, SwTypeOK, hwVars, busVars, device, app, local, Stay, Goto, Return,
            Node, Waits, MainPc
<1>1. CASE StartCall(n)
  <2>1. Size(n) \in Nat
    BY <1>1, RoundFacts DEF StartCall, ThreadInv, ThreadOf
  <2>2. left' \in [Node -> Nat] /\ mem' \in [Node -> Seq(Byte)] /\ pc' \in [Node -> MainPc]
    BY <1>1, <2>1 DEF StartCall, FirstWait
  <2>3. QED
    BY <1>1, <2>2 DEF StartCall, HwTypeOK
<1>2. CASE NextRound(n)
  <2>1. round' \in [Node -> Nat \ {0}] /\ pc' \in [Node -> MainPc]
    BY <1>2 DEF NextRound
  <2>2. QED
    BY <1>2, <2>1 DEF NextRound, HwTypeOK
<1>3. CASE TryAgain(n)
  <2>1. tries' \in [Node -> Nat] /\ pc' \in [Node -> MainPc]
    BY <1>3 DEF TryAgain
  <2>2. HwTypeOK'
    <3>1. CASE env.reset
      BY <1>3, <3>1, ResetTypes DEF TryAgain
    <3>2. CASE ~env.reset
      BY <1>3, <3>2 DEF TryAgain, HwTypeOK
    <3>3. QED
      BY <3>1, <3>2
  <2>3. QED
    BY <1>3, <2>1, <2>2 DEF TryAgain
<1>4. CASE GiveUp(n)
  BY <1>4 DEF GiveUp, HwTypeOK
<1>5. CASE LookAgain(n)
  BY <1>5 DEF LookAgain, HwTypeOK
<1>6. CASE NoEvent(n)
  BY <1>6 DEF NoEvent, HwTypeOK
<1>7. CASE WaitAckFail(n)
  BY <1>7 DEF WaitAckFail, HwTypeOK, SetCtrl, ClearFlags, CtrlBits
<1>8. CASE WaitStop(n)
  BY <1>8 DEF WaitStop, HwTypeOK, ClearFlags
<1>9. CASE WaitTimeout(n)
  <2>1. pc' \in [Node -> MainPc] /\ ret' \in [Node -> {"OK", "ERR"}]
    BY <1>9 DEF WaitTimeout
  <2>2. checking' \in [Node -> BOOLEAN]
    BY <1>9 DEF WaitTimeout
  <2>3. QED
    BY <1>9, <2>1, <2>2 DEF WaitTimeout, HwTypeOK
<1>10. CASE CleanUp(n)
  <2>1. ctrl' \in [Node -> SUBSET CtrlBits]
    <3>1. \/ ctrl' = [ctrl EXCEPT !["M"] = (@ \ {}) \cup {"GENSTOP"}]
          \/ ctrl' = [ctrl EXCEPT !["S"] = (@ \ {"ACKEN"}) \cup {}]
      BY <1>10 DEF CleanUp, SetCtrl
    <3>2. QED
      BY <3>1 DEF HwTypeOK, CtrlBits
  <2>2. QED
    BY <1>10, <2>1 DEF CleanUp, HwTypeOK
<1>11. QED
  BY <1>1, <1>2, <1>3, <1>4, <1>5, <1>6, <1>7, <1>8, <1>9, <1>10 DEF Wait

(* The master's own actions.                                               *)
LEMMA MasterTypes ==
  ASSUME TypeOK, ThreadInv, CountInv, Master
  PROVE  TypeOK'
<1> USE DEF TypeOK, SwTypeOK, busVars, device, app, local, Stay, Goto, Return,
            Node, Waits, MainPc, SetCtrl, ClearFlags, CtrlBits
<1> "M" \in Node
  OBVIOUS
<1>1. CASE GenerateStart
  <2>1. ctrl' \in [Node -> SUBSET CtrlBits]
    BY <1>1 DEF GenerateStart, HwTypeOK
  <2>2. QED
    BY <1>1, <2>1 DEF GenerateStart, HwTypeOK
<1>2. CASE SendAddress
  BY <1>2 DEF SendAddress, i2c_7bit_address_send, HwTypeOK
<1>3. CASE ClearAddrToWrite
  BY <1>3 DEF ClearAddrToWrite, HwTypeOK
<1>4. CASE SendRegister
  <2>1. round["M"] \in 1 .. Len(plan)
    BY <1>4 DEF SendRegister, Came, ThreadInv, ThreadOf
  <2>2. <<0, MyRound("M").reg>> \in Byte
    BY <2>1, RoundFacts DEF Byte
  <2>3. tx' \in [Node -> Seq(Byte)]
    BY <1>4, <2>2, SendDataTypes DEF SendRegister
  <2>4. QED
    BY <1>4, <2>3 DEF SendRegister, HwTypeOK
<1>5. CASE GenerateRestart
  BY <1>5 DEF GenerateRestart, HwTypeOK
<1>6. CASE SendData("M", "tdc")
  <2>1. left["M"] \in 1 .. Size("M") /\ round["M"] \in 1 .. Len(plan)
    BY <1>6 DEF SendData, Came, ThreadInv, ThreadOf, CountInv, MasterCount, SlaveCount
  <2>2. Size("M") \in Nat
    BY <2>1, RoundFacts
  <2>3. <<round["M"], Size("M") - left["M"] + 1>> \in Byte
    BY <2>1, <2>2 DEF Byte
  <2>4. tx' \in [Node -> Seq(Byte)]
    BY <1>6, <2>3, SendDataTypes DEF SendData
  <2>5. left["M"] - 1 \in Nat
    BY <2>1
  <2>6. left' \in [Node -> Nat]
    BY <1>6, <2>5 DEF SendData, Count
  <2>7. QED
    BY <1>6, <2>4, <2>6 DEF SendData, HwTypeOK
<1>7. CASE StopWrite
  BY <1>7 DEF StopWrite, HwTypeOK
<1>8. CASE ClearAddrToRead
  <2>1. ctrl' \in [Node -> SUBSET CtrlBits] /\ pc' \in [Node -> MainPc]
    <3>1. CASE left["M"] = 1
      BY <1>8, <3>1 DEF ClearAddrToRead, HwTypeOK
    <3>2. CASE left["M"] = 2
      BY <1>8, <3>2 DEF ClearAddrToRead, HwTypeOK
    <3>3. CASE left["M"] > 2
      BY <1>8, <3>3, SMTT(30) DEF ClearAddrToRead, HwTypeOK, ReadWait
    <3>4. QED
      BY <1>8, <3>1, <3>2, <3>3 DEF ClearAddrToRead
  <2>2. flags' \in [Node -> SUBSET Flags]
    BY <1>8 DEF ClearAddrToRead, HwTypeOK
  <2>3. QED
    BY <1>8, <2>1, <2>2 DEF ClearAddrToRead, HwTypeOK
<1>9. CASE Ev6Stop
  BY <1>9 DEF Ev6Stop, HwTypeOK
<1>10. CASE Ev6Ack
  BY <1>10 DEF Ev6Ack, HwTypeOK
<1>11. CASE ReadByte
  <2>1. 1 <= left["M"]
    BY <1>11 DEF ReadByte, Came, CountInv, MasterCount
  <2>2. mem' \in [Node -> Seq(Byte)] /\ rx' \in [Node -> Seq(Byte)] /\ left' \in [Node -> Nat]
    BY <1>11, <2>1, ReadDataTypes DEF ReadByte
  <2>3. pc' \in [Node -> MainPc] /\ ret' \in [Node -> {"OK", "ERR"}]
    BY <1>11 DEF ReadByte, ReadWait
  <2>4. QED
    BY <1>11, <2>2, <2>3 DEF ReadByte, HwTypeOK
<1>12. CASE ReadThirdLast
  <2>1. mem' \in [Node -> Seq(Byte)] /\ rx' \in [Node -> Seq(Byte)] /\ left' \in [Node -> Nat]
    BY <1>12, ReadDataTypes DEF ReadThirdLast
  <2>2. QED
    BY <1>12, <2>1 DEF ReadThirdLast, HwTypeOK
<1>13. CASE ReadLastTwo
  <2>1. mem' \in [Node -> Seq(Byte)] /\ rx' \in [Node -> Seq(Byte)] /\ left' \in [Node -> Nat]
    BY <1>13, ReadDataTypes DEF ReadLastTwo
  <2>2. QED
    BY <1>13, <2>1 DEF ReadLastTwo, HwTypeOK
<1>14. QED
  BY <1>1, <1>2, <1>3, <1>4, <1>5, <1>6, <1>7, <1>8, <1>9, <1>10, <1>11, <1>12, <1>13
     DEF Master

(* The slave's.                                                            *)
LEMMA SlaveTypes ==
  ASSUME TypeOK, ThreadInv, CountInv, Slave
  PROVE  TypeOK'
<1> USE DEF TypeOK, SwTypeOK, busVars, device, app, local, Stay, Goto, Return,
            Node, Waits, MainPc, SetCtrl, ClearFlags, CtrlBits
<1> "S" \in Node
  OBVIOUS
<1>1. CASE EnableAck
  BY <1>1 DEF EnableAck, HwTypeOK
<1>2. CASE SlaveClearAddr
  BY <1>2 DEF SlaveClearAddr, HwTypeOK
<1>3. CASE SlaveReadByte
  <2>1. 1 <= left["S"]
    BY <1>3 DEF SlaveReadByte, Came, CountInv, SlaveCount
  <2>2. mem' \in [Node -> Seq(Byte)] /\ rx' \in [Node -> Seq(Byte)] /\ left' \in [Node -> Nat]
    BY <1>3, <2>1, ReadDataTypes DEF SlaveReadByte
  <2>3. QED
    BY <1>3, <2>2 DEF SlaveReadByte, HwTypeOK
<1>4. CASE SendData("S", "ackfail")
  <2>1. left["S"] \in 1 .. Size("S") /\ round["S"] \in 1 .. Len(plan)
    BY <1>4 DEF SendData, Came, ThreadInv, ThreadOf, CountInv, MasterCount, SlaveCount
  <2>2. Size("S") \in Nat
    BY <2>1, RoundFacts
  <2>3. <<round["S"], Size("S") - left["S"] + 1>> \in Byte
    BY <2>1, <2>2 DEF Byte
  <2>4. tx' \in [Node -> Seq(Byte)]
    BY <1>4, <2>3, SendDataTypes DEF SendData
  <2>5. left["S"] - 1 \in Nat
    BY <2>1
  <2>6. left' \in [Node -> Nat]
    BY <1>4, <2>5 DEF SendData, Count
  <2>7. QED
    BY <1>4, <2>4, <2>6 DEF SendData, HwTypeOK
<1>5. CASE SlaveEnd
  BY <1>5 DEF SlaveEnd, HwTypeOK
<1>6. QED
  BY <1>1, <1>2, <1>3, <1>4, <1>5 DEF Slave

(* The memory device.                                                      *)
LEMMA DeviceTypes ==
  ASSUME TypeOK, ScriptFits, Device
  PROVE  TypeOK'
<1> USE DEF TypeOK, SwTypeOK, busVars, device, app, local, Node
<1> "S" \in Node
  OBVIOUS
<1>1. Memory /\ UNCHANGED <<ctrl, ints, busVars, pc, checking, local, app, faults>>
  BY DEF Device
<1>2. 1 \in 1 .. Len(plan) /\ Memory => plan[1].reg \in 1 .. NReg
  BY <1>1, ScriptFacts, ModeFacts
<1>3. NReg \in Nat /\ NReg > 0
  BY <1>1, <1>2, ScriptFacts, ModeFacts, NRegAssumption, SMTT(30)
<1>4. \A r \in 1 .. NReg : After(r) \in 1 .. NReg
  BY <1>3 DEF After
<1>5. CASE DeviceAddressed
  <2>1. flags' \in [Node -> SUBSET Flags] /\ pointer' \in 0 .. NReg
    BY <1>3, <1>5 DEF DeviceAddressed, ClearFlags, HwTypeOK
  <2>2. QED
    BY <1>1, <1>5, <2>1 DEF DeviceAddressed, HwTypeOK
<1>6. CASE DeviceTakes
  <2>1. rx["S"] # <<>> /\ rx["S"] \in Seq(Byte)
    BY <1>6 DEF DeviceTakes, RDBF, HwTypeOK
  <2>2. Head(rx["S"]) \in Byte
    BY <2>1, HeadTailProperties
  <2>4. pointer' \in 0 .. NReg
    <3>1. CASE pointer = 0
      BY <1>3, <1>6, <3>1 DEF DeviceTakes
    <3>2. CASE pointer # 0
      <4>1. pointer \in 1 .. NReg /\ pointer' = After(pointer)
        BY <1>6, <3>2 DEF DeviceTakes
      <4>2. QED
        BY <1>3, <1>4, <4>1
    <3>3. QED
      BY <3>1, <3>2
  <2>5. store' \in [1 .. NReg -> Byte]
    BY <1>6, <2>2 DEF DeviceTakes
  <2>6. SubSeq(rx["S"], 2, Len(rx["S"])) \in Seq(Byte)
    BY <2>1, RestType
  <2>7. rx' \in [Node -> Seq(Byte)]
    BY <1>6, <2>6, SMTT(30) DEF DeviceTakes, i2c_data_receive, HwTypeOK
  <2>8. QED
    BY <1>1, <1>6, <2>4, <2>5, <2>7 DEF DeviceTakes, HwTypeOK
<1>7. CASE DeviceGives
  <2>1. pointer \in 1 .. NReg
    BY <1>3, <1>7 DEF DeviceGives
  <2>2. store[pointer] \in Byte /\ After(pointer) \in 0 .. NReg
    <3>1. store[pointer] \in Byte
      BY <2>1 DEF SwTypeOK
    <3>2. After(pointer) \in 1 .. NReg
      BY <1>4, <2>1
    <3>3. 1 .. NReg \subseteq 0 .. NReg
      BY <1>3
    <3>4. QED
      BY <3>1, <3>2, <3>3
  <2>3. tx' \in [Node -> Seq(Byte)]
    BY <1>7, <2>2, SendDataTypes DEF DeviceGives
  <2>4. QED
    BY <1>1, <1>7, <2>2, <2>3 DEF DeviceGives, HwTypeOK
<1>8. QED
  BY <1>5, <1>6, <1>7 DEF Device

(* The bus.                                                                *)
LEMMA BusTypes ==
  ASSUME TypeOK, Bus \/ Fault
  PROVE  TypeOK'
<1> USE DEF TypeOK
<1>1. SwTypeOK'
  <2>1. Quiet /\ faults' \in {faults, faults + 1}
    BY DEF Bus, Fault
  <2>2. QED
    BY <2>1 DEF Quiet, local, device, app, SwTypeOK
<1>2. QED
  BY <1>1, BusStepTypes, WriteByteTypes, ReadByteTypes DEF Bus, Fault, HwReadByte

(***************************************************************************)
(* A step of one thread leaves the other node's registers, locals and      *)
(* thread alone.                                                           *)
(***************************************************************************)

SameThread(m) ==
  UNCHANGED <<pc[m], checking[m], left[m], mem[m], ret[m], round[m], tries[m]>>

SameRegisters(m) == UNCHANGED <<ctrl[m], ints[m], flags[m], tx[m], rx[m]>>

LEMMA CommonLocal ==
  ASSUME TypeOK, NEW n \in Node, NEW m \in Node \ {n},
         StartCall(n) \/ NextRound(n) \/ TryAgain(n) \/ GiveUp(n) \/ Wait(n)
  PROVE  SameThread(m) /\ SameRegisters(m) /\ UNCHANGED <<env, plan, device, faults>>
<1> USE DEF TypeOK, HwTypeOK, SwTypeOK, SameThread, SameRegisters, hwVars, app, device, local,
            Stay, Goto, Return, SetCtrl, ClearFlags
<1>1. CASE StartCall(n)
  BY <1>1 DEF StartCall
<1>2. CASE NextRound(n)
  BY <1>2 DEF NextRound
<1>3. CASE TryAgain(n)
  <2>1. SameThread(m) /\ UNCHANGED <<env, plan, device, faults>>
    BY <1>3 DEF TryAgain
  <2>2. SameRegisters(m)
    <3>1. CASE env.reset
      BY <1>3, <3>1 DEF TryAgain, i2c_reset
    <3>2. CASE ~env.reset
      BY <1>3, <3>2 DEF TryAgain
    <3>3. QED
      BY <3>1, <3>2
  <2>3. QED
    BY <2>1, <2>2
<1>4. CASE GiveUp(n)
  BY <1>4 DEF GiveUp
<1>5. CASE LookAgain(n)
  BY <1>5 DEF LookAgain
<1>6. CASE NoEvent(n)
  BY <1>6 DEF NoEvent
<1>7. CASE WaitAckFail(n)
  BY <1>7 DEF WaitAckFail
<1>8. CASE WaitStop(n)
  BY <1>8 DEF WaitStop
<1>9. CASE WaitTimeout(n)
  BY <1>9, SMTT(30) DEF WaitTimeout
<1>10. CASE CleanUp(n)
  <2>1. \/ n = "M" /\ ctrl' = [ctrl EXCEPT !["M"] = (@ \ {}) \cup {"GENSTOP"}]
        \/ n = "S" /\ ctrl' = [ctrl EXCEPT !["S"] = (@ \ {"ACKEN"}) \cup {}]
    BY <1>10 DEF CleanUp, Node
  <2>2. UNCHANGED ctrl[m]
    BY <2>1
  <2>3. QED
    BY <1>10, <2>2 DEF CleanUp
<1>11. QED
  BY <1>1, <1>2, <1>3, <1>4, <1>5, <1>6, <1>7, <1>8, <1>9, <1>10 DEF Wait

LEMMA MasterLocal ==
  ASSUME TypeOK, Master
  PROVE  /\ SameThread("S") /\ SameRegisters("S")
         /\ UNCHANGED <<env, plan, device, faults, round, tries, checking, ints, sel, clocked, acked>>
<1> USE DEF TypeOK, HwTypeOK, SwTypeOK, SameThread, SameRegisters, app, device, local, busVars,
            Stay, Goto, Return, SetCtrl, ClearFlags, Node
<1>1. CASE GenerateStart
  BY <1>1 DEF GenerateStart
<1>2. CASE SendAddress
  BY <1>2 DEF SendAddress, i2c_7bit_address_send
<1>3. CASE ClearAddrToWrite
  BY <1>3 DEF ClearAddrToWrite
<1>4. CASE SendRegister
  BY <1>4 DEF SendRegister, i2c_data_send
<1>5. CASE GenerateRestart
  BY <1>5 DEF GenerateRestart
<1>6. CASE SendData("M", "tdc")
  BY <1>6 DEF SendData, i2c_data_send, Count
<1>7. CASE StopWrite
  BY <1>7 DEF StopWrite
<1>8. CASE ClearAddrToRead
  BY <1>8, SMTT(30) DEF ClearAddrToRead
<1>9. CASE Ev6Stop
  BY <1>9 DEF Ev6Stop
<1>10. CASE Ev6Ack
  BY <1>10 DEF Ev6Ack
<1>11. CASE ReadByte
  BY <1>11, SMTT(30) DEF ReadByte, ReadData, i2c_data_receive, Count
<1>12. CASE ReadThirdLast
  BY <1>12 DEF ReadThirdLast, ReadData, i2c_data_receive, Count
<1>13. CASE ReadLastTwo
  BY <1>13 DEF ReadLastTwo, ReadData, i2c_data_receive, Count
<1>14. QED
  BY <1>1, <1>2, <1>3, <1>4, <1>5, <1>6, <1>7, <1>8, <1>9, <1>10, <1>11, <1>12, <1>13
     DEF Master

LEMMA SlaveLocal ==
  ASSUME TypeOK, Slave
  PROVE  /\ SameThread("M") /\ SameRegisters("M")
         /\ UNCHANGED <<env, plan, device, faults, round, tries, checking, ints, busVars>>
<1> USE DEF TypeOK, HwTypeOK, SwTypeOK, SameThread, SameRegisters, app, device, local, busVars,
            Stay, Goto, Return, SetCtrl, ClearFlags, Node
<1>1. CASE EnableAck
  BY <1>1 DEF EnableAck
<1>2. CASE SlaveClearAddr
  BY <1>2 DEF SlaveClearAddr
<1>3. CASE SlaveReadByte
  BY <1>3 DEF SlaveReadByte, ReadData, i2c_data_receive, Count
<1>4. CASE SendData("S", "ackfail")
  BY <1>4 DEF SendData, i2c_data_send, Count
<1>5. CASE SlaveEnd
  BY <1>5 DEF SlaveEnd
<1>6. QED
  BY <1>1, <1>2, <1>3, <1>4, <1>5 DEF Slave

(* What a step of one thread, of the device or of the bus keeps.           *)
LEMMA MainLocal ==
  ASSUME TypeOK, NEW n \in Node, NEW m \in Node \ {n}, Main(n)
  PROVE  SameThread(m) /\ SameRegisters(m) /\ UNCHANGED <<env, plan, device, faults>>
BY CommonLocal, MasterLocal, SlaveLocal DEF Main, Node

(***************************************************************************)
(* The threads' counters.                                                  *)
(***************************************************************************)

LEMMA PcFacts ==
  ASSUME NEW n \in Node
  PROVE  /\ PolledPc(n) \subseteq PcOf(n) /\ PcOf(n) \subseteq PolledPc(n) \cup DmaPc
         /\ UNCHANGED env => PcOf(n)' = PcOf(n)
BY DEF PcOf

LEMMA MasterThreadFrame ==
  ASSUME ThreadOf("M"), MasterCount, SameThread("M"), UNCHANGED <<plan, env>>
  PROVE  ThreadOf("M")' /\ MasterCount'
BY DEF ThreadOf, MasterCount, SameThread, PcOf, Size, Reads, MyRound, Memory

LEMMA SlaveThreadFrame ==
  ASSUME ThreadOf("S"), SlaveCount, SameThread("S"), UNCHANGED <<plan, env>>
  PROVE  ThreadOf("S")' /\ SlaveCount'
BY DEF ThreadOf, SlaveCount, SameThread, PcOf, Size, MyRound

(* What a round's calls are, as long as the round lasts.                   *)
LEMMA SameRound ==
  ASSUME NEW n \in Node, UNCHANGED <<plan, round[n]>>
  PROVE  /\ Size(n)' = Size(n) /\ MyRound(n)' = MyRound(n)
         /\ Reads(n)' = Reads(n) /\ Memory' = Memory
BY DEF Size, MyRound, Reads, Memory

LEMMA ReadsMeans ==
  ASSUME <<plan, env>> \in Scenarios, ScriptFits, round["M"] \in 1 .. Len(plan)
  PROVE  /\ Memory <=> MyRound("M").op \in {"mem_write", "mem_read"}
         /\ ~Memory <=> MyRound("M").op \in {"write", "read"}
         /\ Reads("M") <=> MyRound("M").op \in {"read", "mem_read"}
BY ModeFacts DEF MyRound, Reads

(* The application and the waits.                                          *)
LEMMA CommonThread ==
  ASSUME ScriptInv, NEW n \in Node,
         StartCall(n) \/ NextRound(n) \/ TryAgain(n) \/ GiveUp(n) \/ Wait(n)
  PROVE  /\ ThreadOf(n)'
         /\ n = "M" => MasterCount'
         /\ n = "S" => SlaveCount'
<1> USE DEF Node, Goto, Return, Waits
<1>1. /\ TypeOK /\ ThreadOf(n) /\ pc[n] \in PcOf(n)
      /\ MasterCount /\ SlaveCount /\ UNCHANGED <<plan, env>>
      /\ PcOf(n)' = PcOf(n) /\ PolledPc(n) \subseteq PcOf(n)
      /\ pc \in [Node -> MainPc] /\ left \in [Node -> Nat] /\ round \in [Node -> Nat \ {0}]
      /\ checking \in [Node -> BOOLEAN] /\ Len(plan) \in Nat
  <2>1. TypeOK /\ ThreadInv /\ CountInv
    BY DEF ScriptInv
  <2>2. UNCHANGED <<plan, env>>
    <3>1. PICK m \in Node : m # n
      OBVIOUS
    <3>2. QED
      BY <2>1, <3>1, CommonLocal
  <2>3. QED
    BY <2>1, <2>2, ScriptFacts, PcFacts DEF ThreadInv, ThreadOf, CountInv, TypeOK, SwTypeOK
<1>2. CASE StartCall(n)
  <2>1. /\ pc[n] = "idle" /\ pc'[n] = FirstWait(n) /\ left'[n] = Size(n)
        /\ UNCHANGED <<round, checking>>
    BY <1>1, <1>2 DEF StartCall, Stay, app
  <2>2. Size(n)' = Size(n)
    BY <1>1, <2>1, SameRound
  <2>3. pc'[n] \in IF n = "M" THEN {"free"} ELSE {"free", "busy"}
    BY <2>1 DEF FirstWait
  <2>4. QED
    BY <1>1, <2>1, <2>2, <2>3 DEF ThreadOf, MasterCount, SlaveCount, PolledPc
<1>3. CASE NextRound(n)
  <2>1. /\ pc[n] = "returned" /\ round'[n] = round[n] + 1 /\ UNCHANGED checking
        /\ pc'[n] = IF round[n] = Len(plan) THEN "done" ELSE "idle"
    BY <1>1, <1>3 DEF NextRound
  <2>2. round[n] \in 1 .. Len(plan) /\ ~checking[n]
    BY <1>1, <2>1 DEF ThreadOf
  <2>3. pc'[n] # "done" => round'[n] \in 1 .. Len(plan)
    BY <1>1, <2>1, <2>2
  <2>4. QED
    BY <1>1, <2>1, <2>2, <2>3 DEF ThreadOf, MasterCount, SlaveCount, PolledPc
<1>4. CASE TryAgain(n) \/ GiveUp(n)
  <2>1. /\ pc[n] = "returned" /\ UNCHANGED <<round, checking>> /\ pc'[n] \in {"idle", "gave_up"}
    BY <1>1, <1>4 DEF TryAgain, GiveUp, Stay, app
  <2>2. QED
    BY <1>1, <2>1 DEF ThreadOf, MasterCount, SlaveCount, PolledPc
<1>5. CASE LookAgain(n) \/ NoEvent(n)
  <2>1. pc[n] \in Waits /\ UNCHANGED <<pc, round, left>> /\ checking'[n] \in BOOLEAN
    BY <1>1, <1>5 DEF LookAgain, NoEvent, app, local, ThreadOf
  <2>2. /\ Size("M")' = Size("M") /\ Reads("M")' = Reads("M") /\ Memory' = Memory
        /\ Size("S")' = Size("S")
    BY <1>1, <2>1, SameRound
  <2>3. QED
    BY <1>1, <2>1, <2>2 DEF ThreadOf, MasterCount, SlaveCount, PolledPc
<1>6. CASE WaitAckFail(n) \/ WaitStop(n) \/ WaitTimeout(n) \/ CleanUp(n)
  <2>1. /\ pc[n] \notin {"idle", "done", "returned", "gave_up"} /\ UNCHANGED round
        /\ pc'[n] \in {"fail", "returned"}
        /\ checking'[n] => pc[n] = "fail" /\ checking[n]
    BY <1>1, <1>6 DEF WaitAckFail, WaitStop, WaitTimeout, CleanUp, Stay, app, ThreadOf
  <2>2. QED
    BY <1>1, <2>1 DEF ThreadOf, MasterCount, SlaveCount, PolledPc
<1>7. QED
  BY <1>2, <1>3, <1>4, <1>5, <1>6 DEF Wait

(* The master's own actions.                                               *)
LEMMA MasterThread ==
  ASSUME ScriptInv, Master
  PROVE  ThreadOf("M")' /\ MasterCount'
<1> DEFINE size == Size("M")
           op == MyRound("M").op
<1>1. /\ TypeOK /\ ThreadOf("M") /\ MasterCount
      /\ pc \in [Node -> MainPc] /\ left \in [Node -> Nat]
      /\ UNCHANGED <<plan, env, round, checking>> /\ "M" \in Node
      /\ PcOf("M")' = PcOf("M") /\ PolledPc("M") \subseteq PcOf("M")
  <2>1. TypeOK /\ ThreadInv /\ CountInv /\ "M" \in Node
    BY DEF ScriptInv, Node
  <2>2. UNCHANGED <<plan, env, round, checking>>
    BY <2>1, MasterLocal
  <2>3. QED
    BY <2>1, <2>2, PcFacts DEF ThreadInv, CountInv, TypeOK, SwTypeOK
<1>2. /\ Size("M")' = Size("M") /\ Reads("M")' = Reads("M") /\ Memory' = Memory
      /\ MyRound("M")' = MyRound("M")
  BY <1>1, SameRound
<1>3. pc["M"] # "done" =>
        /\ round["M"] \in 1 .. Len(plan) /\ size \in Nat \ {0}
        /\ Memory <=> op \in {"mem_write", "mem_read"}
        /\ ~Memory <=> op \in {"write", "read"}
        /\ Reads("M") <=> op \in {"read", "mem_read"}
  BY <1>1, RoundFacts, ReadsMeans DEF ScriptInv, ThreadOf, TypeOK, SwTypeOK
<1> USE DEF Goto, Return, Stay, local, Came, Count
<1> HIDE DEF size, op
<1>4. CASE \/ GenerateStart \/ SendAddress \/ ClearAddrToWrite \/ SendRegister \/ GenerateRestart
           \/ SendData("M", "tdc") \/ StopWrite
  <2> /\ Size("M") = size /\ MyRound("M").op = op
    BY DEF size, op
  <2> DEFINE p == pc["M"]
             q == pc'["M"]
             l == left["M"]
             m == left'["M"]
  <2>1. \/ p = "free" /\ q = "startf" /\ m = l
        \/ p = "startf" /\ q = "addr7" /\ m = l
        \/ p = "restartf" /\ q = "readdr7" /\ m = l
        \/ p = "addr7" /\ op # "read" /\ q = (IF Memory THEN "tdbe_reg" ELSE "tdbe") /\ m = l
        \/ p = "tdbe_reg" /\ q = (IF Reads("M") THEN "tdbe_restart" ELSE "tdbe") /\ m = l
        \/ p = "tdbe_restart" /\ q = "restartf" /\ m = l
        \/ p = "tdbe" /\ m = l - 1 /\ q = (IF l = 1 THEN "tdc" ELSE "tdbe")
        \/ p = "tdc" /\ q = "returned" /\ m = l
    BY <1>1, <1>4 DEF GenerateStart, SendAddress, ClearAddrToWrite, SendRegister, GenerateRestart,
                      SendData, StopWrite
  <2>2. ThreadOf("M")'
    <3>1. pc["M"] # "done" /\ q # "done" /\ q \in PcOf("M")
      BY <1>1, <2>1 DEF PolledPc, Waits
    <3>2. checking["M"] => q \in Waits
      BY <1>4, <1>1 DEF GenerateStart, SendAddress, ClearAddrToWrite, SendRegister, GenerateRestart,
                      SendData, StopWrite
    <3>3. QED
      BY <1>1, <1>3, <3>1, <3>2 DEF ThreadOf
  <2>3. MasterCount'
    <3>1. l \in Nat
      BY <1>1
    <3>2. QED
      BY <1>1, <1>2, <1>3, <2>1, <3>1 DEF MasterCount
  <2>4. QED
    BY <2>2, <2>3
<1>5. CASE \/ ClearAddrToRead \/ Ev6Stop \/ Ev6Ack \/ ReadByte \/ ReadThirdLast \/ ReadLastTwo
  <2> /\ Size("M") = size /\ MyRound("M").op = op
    BY DEF size, op
  <2> DEFINE p == pc["M"]
             q == pc'["M"]
             l == left["M"]
             m == left'["M"]
  <2>1. \/ /\ p = "readdr7" \/ (p = "addr7" /\ op = "read")
           /\ m = l
           /\ \/ l = 1 /\ q = "ev6stop"
              \/ l = 2 /\ q = (IF Memory THEN "ev6ack" ELSE "rtdc")
              \/ l > 2 /\ q = ReadWait(l)
        \/ p = "ev6stop" /\ q = "rdbf" /\ m = l
        \/ p = "ev6ack" /\ q = "rtdc" /\ m = l
        \/ p = "rdbf" /\ m = l - 1 /\ q = (IF l = 1 THEN "returned" ELSE ReadWait(l - 1))
        \/ p = "rtdc" /\ l = 3 /\ m = l - 1 /\ q = p
        \/ p = "rtdc" /\ l = 2 /\ m = l - 2 /\ q = "returned"
    BY <1>1, <1>5, SMTT(60) DEF ClearAddrToRead, Ev6Stop, Ev6Ack, ReadByte, ReadThirdLast, ReadLastTwo,
                      ReadData
  <2>2. ThreadOf("M")'
    <3>1. pc["M"] # "done" /\ q # "done" /\ q \in PcOf("M")
      BY <1>1, <2>1 DEF PolledPc, Waits, ReadWait
    <3>2. checking["M"] => q \in Waits
      BY <1>5, <1>1 DEF ClearAddrToRead, Ev6Stop, Ev6Ack, ReadByte, ReadThirdLast, ReadLastTwo,
                        ReadData, ThreadOf, Waits
    <3>3. QED
      BY <1>1, <1>3, <3>1, <3>2 DEF ThreadOf
  <2>3. MasterCount'
    <3>1. l \in Nat
      BY <1>1
    <3>2. QED
      BY <1>1, <1>2, <1>3, <2>1, <3>1 DEF MasterCount, ReadWait
  <2>4. QED
    BY <2>2, <2>3
<1>6. QED
  BY <1>4, <1>5 DEF Master

(* The slave's.                                                            *)
LEMMA SlaveThread ==
  ASSUME ScriptInv, Slave
  PROVE  ThreadOf("S")' /\ SlaveCount'
<1>1. /\ TypeOK /\ ThreadOf("S") /\ SlaveCount
      /\ pc \in [Node -> MainPc] /\ left \in [Node -> Nat]
      /\ UNCHANGED <<plan, env, round, checking>> /\ "S" \in Node
      /\ PcOf("S")' = PcOf("S") /\ PolledPc("S") \subseteq PcOf("S")
  <2>1. TypeOK /\ ThreadInv /\ CountInv /\ "S" \in Node
    BY DEF ScriptInv, Node
  <2>2. UNCHANGED <<plan, env, round, checking>>
    BY <2>1, SlaveLocal
  <2>3. QED
    BY <2>1, <2>2, PcFacts DEF ThreadInv, CountInv, TypeOK, SwTypeOK
<1>2. Size("S")' = Size("S")
  BY <1>1, SameRound
<1>3. pc["S"] # "done" => round["S"] \in 1 .. Len(plan) /\ Size("S") \in Nat \ {0}
  BY <1>1, RoundFacts DEF ScriptInv, ThreadOf, TypeOK, SwTypeOK
<1> DEFINE p == pc["S"]
           q == pc'["S"]
           l == left["S"]
           m == left'["S"]
<1>4. /\ \/ p \in {"free", "busy"} /\ q = "addr7" /\ m = l
         \/ p = "addr7" /\ q \in {"rdbf", "tdbe"} /\ m = l
         \/ p = "rdbf" /\ m = l - 1 /\ q = (IF l = 1 THEN "stopf" ELSE "rdbf")
         \/ p = "tdbe" /\ m = l - 1 /\ q = (IF l = 1 THEN "ackfail" ELSE "tdbe")
         \/ p \in {"stopf", "ackfail"} /\ q = "returned" /\ m = l
      /\ ~checking["S"]
  BY <1>1 DEF Slave, EnableAck, SlaveClearAddr, SlaveReadByte, SendData, SlaveEnd, ReadData, Count,
              Came, Goto, Return, Stay, local
<1>5. ThreadOf("S")'
  BY <1>1, <1>3, <1>4 DEF ThreadOf, PolledPc
<1>6. SlaveCount'
  <2>1. l \in Nat
    BY <1>1
  <2>2. QED
    BY <1>1, <1>2, <1>3, <1>4, <2>1 DEF SlaveCount
<1>7. QED
  BY <1>5, <1>6

(* A thread that is done, or has given up, takes no step.                  *)
LEMMA NotDone ==
  ASSUME ThreadInv, NEW n \in Node, Main(n)
  PROVE  pc[n] \notin {"done", "gave_up"}
<1>1. ThreadOf(n) /\ "M" \in Node /\ "S" \in Node
  BY DEF ThreadInv, Node
<1>2. CASE StartCall(n) \/ NextRound(n) \/ TryAgain(n) \/ GiveUp(n)
  BY <1>2 DEF StartCall, NextRound, TryAgain, GiveUp
<1>3. CASE Wait(n)
  BY <1>1, <1>3 DEF Wait, LookAgain, NoEvent, WaitAckFail, WaitStop, WaitTimeout, CleanUp,
                    ThreadOf, Waits
<1>4. CASE n = "M" /\ Master
  BY <1>4 DEF Master, GenerateStart, SendAddress, ClearAddrToWrite, SendRegister, GenerateRestart,
              SendData, StopWrite, ClearAddrToRead, Ev6Stop, Ev6Ack, ReadByte, ReadThirdLast,
              ReadLastTwo, Came
<1>5. CASE n = "S" /\ Slave
  BY <1>5 DEF Slave, EnableAck, SlaveClearAddr, SlaveReadByte, SendData, SlaveEnd, Came
<1>6. QED
  BY <1>2, <1>3, <1>4, <1>5 DEF Main

(* What one thread's step keeps of the threads and their counters.         *)
LEMMA MainScript ==
  ASSUME ScriptInv, NEW n \in Node, Main(n)
  PROVE  ScriptInv'
<1>1. TypeOK /\ ScriptFits /\ Recovers /\ ThreadInv /\ CountInv
  BY DEF ScriptInv
<1>2. PICK m \in Node : m # n
  BY DEF Node
<1>3. SameThread(m) /\ SameRegisters(m) /\ UNCHANGED <<env, plan, device, faults>>
  BY <1>1, <1>2, MainLocal
<1>4. TypeOK'
  BY <1>1, CommonTypes, MasterTypes, SlaveTypes DEF Main
<1>5. ScriptFits' /\ Recovers'
  BY <1>1, <1>3 DEF ScriptFits, Recovers, Steady
<1>6. \/ n = "M" /\ m = "S"
      \/ n = "S" /\ m = "M"
  BY <1>2 DEF Node
<1>7. /\ ThreadOf("M") /\ ThreadOf("S") /\ MasterCount /\ SlaveCount /\ NoBoard
  BY <1>1 DEF ThreadInv, CountInv, Node
<1>8. CASE n = "M"
  <2>1. ThreadOf("M")' /\ MasterCount'
    BY <1>8, CommonThread, MasterThread DEF Main
  <2>2. ThreadOf("S")' /\ SlaveCount'
    BY <1>3, <1>6, <1>7, <1>8, SlaveThreadFrame
  <2>3. NoBoard'
    BY <1>3, <1>6, <1>7, <1>8 DEF NoBoard, SameThread, SameRegisters, Memory
  <2>4. QED
    BY <1>4, <1>5, <2>1, <2>2, <2>3 DEF ScriptInv, ThreadInv, CountInv, Node
<1>9. CASE n = "S"
  <2>1. ThreadOf("S")' /\ SlaveCount'
    BY <1>9, CommonThread, SlaveThread DEF Main
  <2>2. ThreadOf("M")' /\ MasterCount'
    BY <1>3, <1>6, <1>7, <1>9, MasterThreadFrame
  <2>3. NoBoard'
    BY <1>1, <1>3, <1>7, <1>9, NotDone DEF NoBoard, Memory
  <2>4. QED
    BY <1>4, <1>5, <2>1, <2>2, <2>3 DEF ScriptInv, ThreadInv, CountInv, Node
<1>10. QED
  BY <1>6, <1>8, <1>9

(* What a step of the bus or of the device keeps of them.                  *)
LEMMA OtherScript ==
  ASSUME ScriptInv, Device \/ Bus \/ Fault, TypeOK'
  PROVE  ScriptInv'
<1>1. TypeOK /\ ScriptFits /\ Recovers /\ ThreadInv /\ CountInv
  BY DEF ScriptInv
<1>2. UNCHANGED <<pc, checking, local, app>>
  BY DEF Device, Bus, Fault, Quiet
<1>3. /\ SameThread("M") /\ SameThread("S") /\ UNCHANGED <<plan, env>>
  BY <1>2 DEF SameThread, local, app
<1>4. ScriptFits' /\ Recovers'
  BY <1>1, <1>2 DEF ScriptFits, Recovers, Steady, app
<1>5. /\ ThreadOf("M") /\ ThreadOf("S") /\ MasterCount /\ SlaveCount /\ NoBoard
  BY <1>1 DEF ThreadInv, CountInv, Node
<1>6. ThreadOf("M")' /\ ThreadOf("S")' /\ MasterCount' /\ SlaveCount'
  BY <1>3, <1>5, MasterThreadFrame, SlaveThreadFrame
<1>7. ctrl'["S"] \in {ctrl["S"], ctrl["S"] \ {"GENSTOP"}}
  <2>1. "S" \in Node /\ ctrl \in [Node -> SUBSET CtrlBits]
    BY <1>1 DEF TypeOK, HwTypeOK, Node
  <2>2. CASE Device
    BY <2>2 DEF Device
  <2>3. CASE Fault
    BY <2>3 DEF Fault, HwWriteByte
  <2>4. CASE Bus
    BY <2>1, <2>4 DEF Bus, HwStart, HwRestart, HwAddrAck, HwAddrNack, HwReadByte, HwReadByteAck,
                      HwStop, HwWriteByte, HwOverrunByte, HwSlaveRelease
  <2>5. QED
    BY <2>2, <2>3, <2>4
<1>8. NoBoard'
  <2>1. {"ACKEN"} \ {"GENSTOP"} = {"ACKEN"}
    OBVIOUS
  <2>2. QED
    BY <1>3, <1>5, <1>7, <2>1 DEF NoBoard, Memory, SameThread
<1>9. QED
  BY <1>4, <1>6, <1>8 DEF ScriptInv, ThreadInv, CountInv, Node

(***************************************************************************)
(* The master's frame.                                                     *)
(***************************************************************************)

(* A step that leaves the master and the bus alone.                        *)
LEMMA FrameFrame ==
  ASSUME FrameInv, SameThread("M"), SameRegisters("M"),
         UNCHANGED <<env, plan, phase, dir, clocked, acked>>
  PROVE  FrameInv'
<1>1. /\ Size("M")' = Size("M") /\ MyRound("M")' = MyRound("M")
      /\ Reads("M")' = Reads("M") /\ Memory' = Memory
  BY DEF SameThread, Size, MyRound, Reads, Memory
<1>2. InTimeSoFar' = InTimeSoFar /\ Leftover' = Leftover
  BY DEF InTimeSoFar, Leftover, SameThread, SameRegisters, TimingFree
<1>3. /\ FlagInv' = FlagInv /\ StopHasFrame' = StopHasFrame
      /\ Steady' = Steady
  BY DEF FlagInv, StopHasFrame, Steady, SameRegisters
<1>4. \A on, off : Requested(on, off)' = Requested(on, off)
  BY DEF Requested, SameRegisters
<1>5. Between' = Between /\ AfterSuccess' = AfterSuccess
  BY <1>1, <1>2 DEF Between, AfterSuccess, SameRegisters
<1>6. AfterFailure' = AfterFailure
  BY <1>3, <1>5 DEF AfterFailure, SameThread
<1>7. AddressInv' = AddressInv
  BY <1>1, <1>2, <1>4 DEF AddressInv, SameThread, SameRegisters, Bytes0, Requested
<1>8. Written' = Written
  BY <1>1, <1>2, <1>4 DEF Written, SameThread, SameRegisters, Requested
<1>9. Read' = Read
  BY <1>1, <1>2 DEF Read, SameThread, SameRegisters, Requested, BeforeByte, Bytes0, OnlyByte,
                    AckedSoFar, LastTwo
<1>10. MasterInv' = MasterInv
  BY <1>5, <1>6, <1>7, <1>8, <1>9 DEF MasterInv, SameThread
<1>11. QED
  BY <1>3, <1>10 DEF FrameInv

(* The application's steps of the master, and its waits.                   *)
LEMMA CommonFrame ==
  ASSUME ScriptInv, FrameInv,
         StartCall("M") \/ NextRound("M") \/ TryAgain("M") \/ GiveUp("M") \/ Wait("M")
  PROVE  FrameInv'
<1> USE DEF Goto, Return, SetCtrl, ClearFlags
<1>1. /\ FlagInv /\ MasterInv /\ StopHasFrame /\ Recovers /\ "M" \in Node
      /\ UNCHANGED <<env, plan>> /\ Steady' = Steady
      /\ pc \in [Node -> MainPc] /\ ret \in [Node -> {"OK", "ERR"}]
      /\ left \in [Node -> Nat] /\ round \in [Node -> Nat \ {0}]
      /\ ctrl \in [Node -> SUBSET CtrlBits] /\ flags \in [Node -> SUBSET Flags]
      /\ tx \in [Node -> Seq(Byte)] /\ rx \in [Node -> Seq(Byte)]
  <2>1. TypeOK /\ Recovers /\ "M" \in Node /\ "S" \in Node
    BY DEF ScriptInv, Node
  <2>2. UNCHANGED <<env, plan>>
    <3>1. "S" \in Node \ {"M"}
      BY <2>1
    <3>2. QED
      BY <2>1, <3>1, CommonLocal
  <2>3. QED
    BY <2>1, <2>2 DEF FrameInv, TypeOK, HwTypeOK, SwTypeOK, Steady
<1>2. CASE StartCall("M")
  <2>1. /\ pc["M"] = "idle" /\ pc'["M"] = "free" /\ UNCHANGED <<hwVars, round>>
    BY <1>1, <1>2 DEF StartCall, FirstWait, Stay, app
  <2>2. InTimeSoFar' = InTimeSoFar /\ Leftover' = Leftover
    BY <1>1, <2>1 DEF InTimeSoFar, Leftover, hwVars
  <2>3. FlagInv' /\ StopHasFrame'
    BY <1>1, <2>1 DEF FlagInv, StopHasFrame, hwVars
  <2>4. Between'
    BY <1>1, <2>1, <2>2 DEF MasterInv, Between, hwVars
  <2>5. QED
    BY <2>1, <2>3, <2>4 DEF FrameInv, MasterInv, AddressInv
<1>3. CASE NextRound("M")
  <2>1. /\ pc["M"] = "returned" /\ ret["M"] = "OK" /\ pc'["M"] \in {"idle", "done"}
        /\ UNCHANGED hwVars /\ round'["M"] = round["M"] + 1
    BY <1>1, <1>3 DEF NextRound
  <2>2. InTimeSoFar' => InTimeSoFar
    BY <1>1, <2>1 DEF InTimeSoFar
  <2>3. FlagInv' /\ StopHasFrame'
    BY <1>1, <2>1 DEF FlagInv, StopHasFrame, hwVars
  <2>4. Between'
    BY <1>1, <2>1, <2>2 DEF MasterInv, Between, hwVars, Leftover
  <2>5. QED
    BY <2>1, <2>3, <2>4 DEF FrameInv, MasterInv, AddressInv
<1>4. CASE TryAgain("M")
  <2>1. /\ pc["M"] = "returned" /\ ret["M"] = "ERR" /\ pc'["M"] = "idle" /\ UNCHANGED round
    BY <1>1, <1>4 DEF TryAgain
  <2>2. InTimeSoFar' = InTimeSoFar
    BY <1>1, <2>1 DEF InTimeSoFar
  <2>3. FlagInv' /\ StopHasFrame' /\ Between'
    <3>1. CASE env.reset
      <4>1. i2c_reset("M")
        BY <1>4, <3>1 DEF TryAgain
      <4>2. /\ ctrl'["M"] = {} /\ tx'["M"] = <<>> /\ rx'["M"] = <<>> /\ phase' = "free"
            /\ flags'["M"] \subseteq {"BUSYF"}
        BY <1>1, <4>1 DEF i2c_reset
      <4>3. QED
        BY <4>2 DEF FlagInv, StopHasFrame, Between, Leftover
    <3>2. CASE ~env.reset
      <4>1. Steady /\ UNCHANGED hwVars
        BY <1>1, <1>4, <3>2 DEF TryAgain, Recovers
      <4>2. Between
        BY <1>1, <2>1, <4>1 DEF MasterInv, AfterFailure
      <4>3. QED
        BY <1>1, <2>2, <4>1, <4>2 DEF FlagInv, StopHasFrame, Between, Leftover, hwVars
    <3>3. QED
      BY <3>1, <3>2
  <2>4. QED
    BY <2>1, <2>3 DEF FrameInv, MasterInv, AddressInv
<1>5. CASE GiveUp("M")
  <2>1. /\ pc["M"] = "returned" /\ ret["M"] = "ERR" /\ pc'["M"] = "gave_up"
        /\ UNCHANGED <<hwVars, ret, round>>
    BY <1>1, <1>5 DEF GiveUp, Stay, local, app
  <2>2. InTimeSoFar' = InTimeSoFar
    BY <1>1, <2>1 DEF InTimeSoFar
  <2>3. FlagInv' /\ StopHasFrame'
    BY <1>1, <2>1 DEF FlagInv, StopHasFrame, hwVars
  <2>4. AfterFailure'
    BY <1>1, <2>1, <2>2 DEF MasterInv, AfterFailure, Between, Leftover, hwVars
  <2>5. QED
    BY <2>1, <2>3, <2>4 DEF FrameInv, MasterInv, AddressInv
<1>6. CASE LookAgain("M") \/ NoEvent("M")
  <2>2. UNCHANGED <<pc, local, app, hwVars>>
    BY <1>6 DEF LookAgain, NoEvent
  <2>3. FlagInv' /\ StopHasFrame'
    BY <1>1, <2>2 DEF FlagInv, StopHasFrame, hwVars
  <2>4. MasterInv' = MasterInv
    <3>1. UNCHANGED <<env, plan, pc, left, ret, round, ctrl, flags, tx, rx, phase, dir, clocked, acked>>
      BY <2>2 DEF local, app, hwVars
    <3>2. /\ Size("M")' = Size("M") /\ MyRound("M")' = MyRound("M")
          /\ Reads("M")' = Reads("M") /\ Memory' = Memory
          /\ InTimeSoFar' = InTimeSoFar /\ Leftover' = Leftover
      BY <3>1 DEF Size, MyRound, Reads, Memory, InTimeSoFar, Leftover, TimingFree
    <3>3. QED
      BY <3>1, <3>2, <1>1 DEF MasterInv, Between, AfterSuccess, AfterFailure, AddressInv, Written,
                              Read, Requested, BeforeByte, Bytes0, OnlyByte, AckedSoFar, LastTwo
  <2>5. QED
    BY <1>1, <2>3, <2>4 DEF FrameInv
<1>7. CASE WaitAckFail("M")
  <2>1. /\ pc["M"] \in {"addr7", "readdr7", "tdbe_reg", "tdbe_restart", "tdbe", "tdc"}
        /\ pc'["M"] = "fail"
        /\ ctrl'["M"] = ctrl["M"] \cup {"GENSTOP"}
        /\ flags'["M"] = flags["M"] \ {"ACKFAIL"}
        /\ UNCHANGED <<tx, rx, phase, dir, round>>
    BY <1>1, <1>7 DEF WaitAckFail, EventCheck, app, busVars
  <2>2. InTimeSoFar' = InTimeSoFar /\ Leftover' = Leftover
    BY <1>1, <2>1 DEF InTimeSoFar, Leftover
  <2>3. /\ phase \in {"addr", "data", "closing"} /\ "GENSTART" \notin ctrl["M"]
        /\ Leftover
        /\ phase = "data" /\ dir = "read" => "ADDR7F" \in flags["M"]
    BY <1>1, <2>1 DEF MasterInv, AddressInv, Written, Requested
  <2>4. FlagInv' /\ StopHasFrame'
    BY <1>1, <2>1, <2>3 DEF FlagInv, StopHasFrame
  <2>5. AfterFailure'
    BY <2>1, <2>2, <2>3 DEF AfterFailure, Between
  <2>6. QED
    BY <2>1, <2>4, <2>5 DEF FrameInv, MasterInv, AddressInv
<1>8. CASE WaitStop("M")
  BY <1>8 DEF WaitStop, EventCheck
<1>9. CASE WaitTimeout("M")
  <2>1. /\ env.timeouts /\ UNCHANGED hwVars
        /\ pc'["M"] = "fail" \/ (pc'["M"] = "returned" /\ ret'["M"] = "ERR")
    BY <1>1, <1>9 DEF WaitTimeout
  <2>2. FlagInv' /\ StopHasFrame'
    BY <1>1, <2>1 DEF FlagInv, StopHasFrame, hwVars
  <2>3. AfterFailure'
    BY <1>1, <2>1 DEF AfterFailure, Steady
  <2>4. QED
    BY <2>1, <2>2, <2>3 DEF FrameInv, MasterInv, AddressInv
<1>10. CASE CleanUp("M")
  <2>1. /\ pc["M"] = "fail" /\ pc'["M"] = "returned" /\ ret'["M"] = "ERR"
        /\ ctrl'["M"] = ctrl["M"] \cup {"GENSTOP"}
        /\ UNCHANGED <<flags, tx, rx, phase, dir, round>>
    BY <1>1, <1>10 DEF CleanUp, Stay, app, busVars
  <2>2. InTimeSoFar' = InTimeSoFar /\ Leftover' = Leftover
    BY <1>1, <2>1 DEF InTimeSoFar, Leftover
  <2>3. Steady => Between /\ phase # "free"
    BY <1>1, <2>1 DEF MasterInv, AfterFailure
  <2>4. FlagInv' /\ StopHasFrame'
    BY <1>1, <2>1, <2>3 DEF FlagInv, StopHasFrame, Steady
  <2>5. AfterFailure'
    BY <1>1, <2>1, <2>2, <2>3 DEF AfterFailure, Between
  <2>6. QED
    BY <2>1, <2>4, <2>5 DEF FrameInv, MasterInv, AddressInv
<1>11. QED
  BY <1>2, <1>3, <1>4, <1>5, <1>6, <1>7, <1>8, <1>9, <1>10 DEF Wait

(* What the proofs about the master's actions start from.                  *)
MasterFacts ==
  /\ FlagInv /\ MasterInv /\ StopHasFrame /\ MasterCount
  /\ "M" \in Node
  /\ pc \in [Node -> MainPc] /\ ret \in [Node -> {"OK", "ERR"}]
  /\ left \in [Node -> Nat] /\ round \in [Node -> Nat \ {0}]
  /\ ctrl \in [Node -> SUBSET CtrlBits] /\ flags \in [Node -> SUBSET Flags]
  /\ tx \in [Node -> Seq(Byte)] /\ rx \in [Node -> Seq(Byte)]
  /\ clocked \in Nat /\ acked \in Nat
  /\ pc["M"] # "done" =>
       /\ Size("M") \in Nat \ {0}
       /\ Memory <=> MyRound("M").op \in {"mem_write", "mem_read"}
       /\ ~Memory <=> MyRound("M").op \in {"write", "read"}
       /\ Reads("M") <=> MyRound("M").op \in {"read", "mem_read"}

(* What none of them changes.                                              *)
SameCall ==
  /\ Size("M")' = Size("M") /\ MyRound("M")' = MyRound("M")
  /\ Reads("M")' = Reads("M") /\ Memory' = Memory
  /\ InTimeSoFar' = InTimeSoFar /\ Steady' = Steady
  /\ UNCHANGED <<env, clocked, acked>>

LEMMA MasterStart ==
  ASSUME ScriptInv, FrameInv
  PROVE  MasterFacts /\ (Master => SameCall)
<1>1. TypeOK /\ ScriptFits /\ ThreadOf("M") /\ MasterCount /\ "M" \in Node
  BY DEF ScriptInv, ThreadInv, CountInv, Node
<1>2. MasterFacts
  <2>1. pc["M"] # "done" => round["M"] \in 1 .. Len(plan)
    BY <1>1 DEF ThreadOf
  <2>2. pc["M"] # "done" =>
          /\ Size("M") \in Nat \ {0}
          /\ Memory <=> MyRound("M").op \in {"mem_write", "mem_read"}
          /\ ~Memory <=> MyRound("M").op \in {"write", "read"}
          /\ Reads("M") <=> MyRound("M").op \in {"read", "mem_read"}
    BY <1>1, <2>1, RoundFacts, ReadsMeans DEF TypeOK, SwTypeOK
  <2>3. QED
    BY <1>1, <2>2 DEF MasterFacts, FrameInv, TypeOK, HwTypeOK, SwTypeOK
<1>3. ASSUME Master PROVE SameCall
  <2>1. UNCHANGED <<env, plan, round, clocked, acked>>
    BY <1>1, <1>3, MasterLocal
  <2>2. QED
    BY <2>1 DEF SameCall, Size, MyRound, Reads, Memory, InTimeSoFar, Steady, TimingFree
<1>4. QED
  BY <1>2, <1>3

(* START and address.                                                      *)
LEMMA AddressFrame ==
  ASSUME MasterFacts, SameCall,
         \/ GenerateStart \/ SendAddress \/ ClearAddrToWrite \/ SendRegister \/ GenerateRestart
  PROVE  FrameInv'
<1> USE DEF Goto, SetCtrl, ClearFlags, local, Stay
<1>1. CASE GenerateStart
  <2>1. /\ pc["M"] = "free" /\ pc'["M"] = "startf" /\ "BUSYF" \notin flags["M"]
        /\ ctrl'["M"] = (ctrl["M"] \ {"ACKNEXT"}) \cup
                          ({"GENSTART"} \cup IF Reads("M") THEN {"ACKEN"} ELSE {})
        /\ UNCHANGED <<flags, tx, rx, phase, dir>>
    BY <1>1 DEF MasterFacts, GenerateStart, Came, FlagCame, busVars
  <2>2. Between /\ phase = "free" /\ "GENSTOP" \notin ctrl["M"]
    BY <2>1 DEF MasterFacts, MasterInv, FlagInv, Between
  <2>3. FlagInv' /\ StopHasFrame'
    BY <2>1, <2>2 DEF MasterFacts, FlagInv, StopHasFrame
  <2>4. Leftover'
    BY <2>1, <2>2 DEF SameCall, Leftover, Between
  <2>5. AddressInv'
    BY <2>1, <2>2, <2>4 DEF SameCall, AddressInv, Requested
  <2>6. QED
    BY <2>1, <2>3, <2>5 DEF FrameInv, MasterInv
<1>2. CASE SendAddress
  <2>1. /\ \/ /\ pc["M"] = "startf" /\ pc'["M"] = "addr7"
              /\ dir' = IF MyRound("M").op = "read" THEN "read" ELSE "write"
           \/ /\ pc["M"] = "restartf" /\ pc'["M"] = "readdr7"
              /\ dir' = "read"
        /\ "STARTF" \in flags["M"] /\ flags'["M"] = flags["M"] \ {"STARTF"}
        /\ phase' = "addr"
        /\ UNCHANGED <<ctrl, tx, rx>>
    BY <1>2 DEF MasterFacts, SendAddress, Came, FlagCame, i2c_7bit_address_send
  <2>2. /\ phase = "start" /\ Leftover /\ "GENSTART" \notin ctrl["M"]
        /\ Requested(IF Reads("M") THEN {"ACKEN"} ELSE {}, {"GENSTOP", "ACKNEXT"})
    BY <2>1 DEF MasterFacts, MasterInv, FlagInv, AddressInv
  <2>3. FlagInv' /\ StopHasFrame'
    BY <2>1, <2>2 DEF MasterFacts, FlagInv, StopHasFrame, Requested
  <2>4. Leftover'
    BY <2>1, <2>2 DEF SameCall, Leftover
  <2>5. AddressInv'
    BY <2>1, <2>2, <2>4 DEF SameCall, AddressInv, Requested
  <2>6. QED
    BY <2>1, <2>3, <2>5 DEF FrameInv, MasterInv
<1>3. CASE ClearAddrToWrite
  <2>1. /\ pc["M"] = "addr7" /\ pc'["M"] = (IF Memory THEN "tdbe_reg" ELSE "tdbe")
        /\ MyRound("M").op # "read"
        /\ "ADDR7F" \in flags["M"] /\ flags'["M"] = flags["M"] \ {"ADDR7F"}
        /\ UNCHANGED <<ctrl, tx, rx, phase, dir, left>>
    BY <1>3 DEF MasterFacts, ClearAddrToWrite, Came, FlagCame, busVars
  <2>2. /\ phase = "data" /\ dir = "write" /\ Leftover /\ "GENSTART" \notin ctrl["M"] /\ Bytes0
        /\ tx["M"] = <<>> /\ left["M"] = Size("M")
        /\ Requested(IF Reads("M") THEN {"ACKEN"} ELSE {}, {"GENSTOP", "ACKNEXT"})
    BY <2>1 DEF MasterFacts, MasterInv, FlagInv, AddressInv, MasterCount
  <2>3. FlagInv' /\ StopHasFrame'
    BY <2>1, <2>2 DEF MasterFacts, FlagInv, StopHasFrame
  <2>4. Leftover'
    BY <2>1, <2>2 DEF SameCall, Leftover
  <2>5. AddressInv'
    BY <2>1, <2>2, <2>4 DEF SameCall, AddressInv, Requested, Bytes0
  <2>6. pc'["M"] = "tdbe" => Written'
    BY <2>1, <2>2, <2>4 DEF MasterFacts, SameCall, Written, Requested, Bytes0
  <2>7. QED
    BY <2>1, <2>3, <2>5, <2>6 DEF FrameInv, MasterInv
<1>4. CASE SendRegister
  <2>1. /\ pc["M"] = "tdbe_reg" /\ pc'["M"] = (IF Reads("M") THEN "tdbe_restart" ELSE "tdbe")
        /\ Transmitting("M")
        /\ tx'["M"] = Append(tx["M"], <<0, MyRound("M").reg>>)
        /\ UNCHANGED <<ctrl, flags, rx, phase, dir, left>>
    BY <1>4 DEF MasterFacts, SendRegister, Came, FlagCame, TDBE, i2c_data_send, busVars
  <2>2. /\ phase = "data" /\ dir = "write" /\ Leftover /\ "GENSTART" \notin ctrl["M"] /\ Bytes0
        /\ tx["M"] = <<>> /\ left["M"] = Size("M") /\ "ADDR7F" \notin flags["M"] /\ Memory
        /\ Requested(IF Reads("M") THEN {"ACKEN"} ELSE {}, {"GENSTOP", "ACKNEXT"})
    BY <2>1 DEF MasterFacts, MasterInv, AddressInv, MasterCount, Transmitting
  <2>3. FlagInv' /\ StopHasFrame'
    BY <2>1, <2>2 DEF MasterFacts, SameCall, FlagInv, StopHasFrame
  <2>4. Leftover' /\ Len(tx'["M"]) = 1
    BY <2>1, <2>2 DEF SameCall, Leftover
  <2>5. AddressInv'
    BY <2>1, <2>2, <2>4 DEF SameCall, AddressInv, Requested, Bytes0
  <2>6. pc'["M"] = "tdbe" => Written'
    <3>1. Len(tx'["M"]) = 1 /\ Size("M") \in Nat
      BY <2>1, <2>4 DEF MasterFacts
    <3>2. QED
      BY <2>1, <2>2, <2>4, <3>1 DEF MasterFacts, SameCall, Written, Requested, Bytes0
  <2>7. QED
    BY <2>1, <2>3, <2>5, <2>6 DEF FrameInv, MasterInv
<1>5. CASE GenerateRestart
  <2>1. /\ pc["M"] = "tdbe_restart" /\ pc'["M"] = "restartf"
        /\ Transmitting("M")
        /\ ctrl'["M"] = ctrl["M"] \cup {"ACKEN", "GENSTART"}
        /\ UNCHANGED <<tx, flags, rx, phase, dir, left>>
    BY <1>5 DEF MasterFacts, GenerateRestart, Came, FlagCame, TDBE, busVars
  <2>2. /\ phase = "data" /\ dir = "write" /\ Leftover
        /\ Requested(IF Reads("M") THEN {"ACKEN"} ELSE {}, {"GENSTOP", "ACKNEXT"})
    BY <2>1 DEF MasterFacts, MasterInv, AddressInv, Transmitting
  <2>3. FlagInv' /\ StopHasFrame'
    BY <2>1, <2>2 DEF MasterFacts, SameCall, FlagInv, StopHasFrame, Requested
  <2>4. Leftover'
    BY <2>1, <2>2 DEF SameCall, Leftover
  <2>5. AddressInv'
    BY <2>1, <2>2, <2>4 DEF SameCall, AddressInv, Requested
  <2>6. QED
    BY <2>1, <2>3, <2>5 DEF FrameInv, MasterInv
<1>6. QED
  BY <1>1, <1>2, <1>3, <1>4, <1>5

(* What is left in the data register when k bytes are taken.               *)
LEMMA RestLength ==
  ASSUME NEW s \in Seq(Byte), NEW k \in Nat, k <= Len(s)
  PROVE  /\ SubSeq(s, k + 1, Len(s)) \in Seq(Byte)
         /\ Len(SubSeq(s, k + 1, Len(s))) = Len(s) - k
         /\ Len(s) = k => SubSeq(s, k + 1, Len(s)) = <<>>
BY SubSeqProperties, EmptySeq

(* The data of a write.                                                    *)
LEMMA WriteFrame ==
  ASSUME MasterFacts, SameCall, SendData("M", "tdc") \/ StopWrite
  PROVE  FrameInv'
<1> USE DEF Goto, Return, SetCtrl, Stay
<1>1. CASE SendData("M", "tdc")
  <2>1. /\ pc["M"] = "tdbe" /\ pc'["M"] = (IF left["M"] = 1 THEN "tdc" ELSE "tdbe")
        /\ Transmitting("M")
        /\ tx'["M"] = Append(tx["M"], <<round["M"], Size("M") - left["M"] + 1>>)
        /\ left'["M"] = left["M"] - 1
        /\ UNCHANGED <<ctrl, flags, rx, phase, dir>>
    BY <1>1 DEF MasterFacts, SendData, Came, FlagCame, TDBE, i2c_data_send, Count, busVars
  <2>2. /\ Written /\ phase = "data" /\ left["M"] \in 1 .. Size("M") /\ Size("M") \in Nat
        /\ "ADDR7F" \notin flags["M"]
    BY <2>1 DEF MasterFacts, MasterInv, MasterCount, Transmitting
  <2>3. Len(tx'["M"]) = Len(tx["M"]) + 1 /\ Len(tx["M"]) \in Nat
    BY <2>1 DEF MasterFacts
  <2>4. FlagInv' /\ StopHasFrame'
    BY <2>1, <2>2 DEF MasterFacts, SameCall, FlagInv, StopHasFrame, Written
  <2>5. Leftover'
    BY <2>1, <2>2 DEF SameCall, Leftover, Written
  <2>6. Written'
    <3>1. clocked + (Len(tx["M"]) + 1) = Size("M") - (left["M"] - 1) + IF Memory THEN 1 ELSE 0
      BY <2>2, <2>3 DEF MasterFacts, Written
    <3>2. QED
      BY <2>1, <2>2, <2>3, <2>5, <3>1 DEF SameCall, Written, Requested
  <2>7. QED
    BY <2>1, <2>4, <2>6 DEF FrameInv, MasterInv, AddressInv
<1>2. CASE StopWrite
  <2>1. /\ pc["M"] = "tdc" /\ pc'["M"] = "returned" /\ ret'["M"] = "OK"
        /\ TDC("M")
        /\ ctrl'["M"] = ctrl["M"] \cup {"GENSTOP"}
        /\ UNCHANGED <<tx, flags, rx, phase, dir, left>>
    BY <1>2 DEF MasterFacts, StopWrite, Came, FlagCame, busVars
  <2>2. /\ Written /\ Leftover /\ left["M"] = 0 /\ ~Reads("M")
    BY <2>1 DEF MasterFacts, MasterInv, MasterCount, Written
  <2>3. phase = "data" /\ tx["M"] = <<>> /\ dir = "write" /\ "ADDR7F" \notin flags["M"]
    <3>1. Len(rx["M"]) # 2
      <4>1. rx["M"] \in Seq(Byte)
        BY DEF MasterFacts
      <4>2. Len(rx["M"]) \in Nat
        BY <4>1
      <4>3. Len(rx["M"]) <= 1
        BY <2>2 DEF Leftover
      <4>4. QED
        BY <4>2, <4>3
    <3>2. Transmitting("M") /\ tx["M"] = <<>>
      BY <2>1, <3>1 DEF TDC
    <3>3. QED
      BY <2>2, <3>2 DEF Transmitting, Written
  <2>4. pc["M"] # "done" /\ Size("M") \in Nat
    BY <2>1 DEF MasterFacts
  <2>5. acked = Size("M") + IF Memory THEN 1 ELSE 0
    <3>1. Len(tx["M"]) = 0
      BY <2>3
    <3>2. QED
      BY <2>2, <2>3, <2>4, <3>1 DEF MasterFacts, Written
  <2>6. FlagInv' /\ StopHasFrame'
    BY <2>1, <2>3 DEF MasterFacts, SameCall, FlagInv, StopHasFrame
  <2>7. Between'
    BY <2>1, <2>2, <2>3 DEF SameCall, Between, Leftover, Written, Requested
  <2>8. AfterSuccess'
    BY <2>1, <2>2, <2>3, <2>5 DEF SameCall, AfterSuccess
  <2>9. QED
    BY <2>1, <2>6, <2>7, <2>8 DEF FrameInv, MasterInv, AddressInv
<1>3. QED
  BY <1>1, <1>2

(* ADDR7F is cleared for a read, and the acknowledge set up.               *)
LEMMA ReadStartFrame ==
  ASSUME MasterFacts, SameCall, ClearAddrToRead \/ Ev6Stop \/ Ev6Ack
  PROVE  FrameInv'
<1> USE DEF Goto, SetCtrl, ClearFlags, Stay
<1>1. CASE ClearAddrToRead
  <2>1. /\ pc["M"] = "readdr7" \/ (pc["M"] = "addr7" /\ MyRound("M").op = "read")
        /\ "ADDR7F" \in flags["M"] /\ flags'["M"] = flags["M"] \ {"ADDR7F"}
        /\ UNCHANGED <<tx, rx, phase, dir, left>>
    BY <1>1 DEF MasterFacts, ClearAddrToRead, Came, FlagCame, busVars, local
  <2>2. \/ left["M"] = 1 /\ ctrl'["M"] = ctrl["M"] \ {"ACKEN"} /\ pc'["M"] = "ev6stop"
        \/ /\ left["M"] = 2 /\ Memory
           /\ ctrl'["M"] = ctrl["M"] \cup {"ACKNEXT"} /\ pc'["M"] = "ev6ack"
        \/ /\ left["M"] = 2 /\ ~Memory
           /\ ctrl'["M"] = (ctrl["M"] \ {"ACKEN"}) \cup {"ACKNEXT"} /\ pc'["M"] = "rtdc"
        \/ /\ left["M"] > 2 /\ ctrl'["M"] = ctrl["M"] \cup {"ACKEN"}
           /\ pc'["M"] = ReadWait(left["M"])
    BY <1>1, SMTT(30) DEF MasterFacts, ClearAddrToRead
  <2>3. /\ phase = "data" /\ dir = "read" /\ Leftover /\ "GENSTART" \notin ctrl["M"] /\ Bytes0
        /\ left["M"] = Size("M")
        /\ Requested(IF Reads("M") THEN {"ACKEN"} ELSE {}, {"GENSTOP", "ACKNEXT"})
    BY <2>1 DEF MasterFacts, MasterInv, FlagInv, AddressInv, MasterCount
  <2>4. /\ pc["M"] # "done" /\ Size("M") \in Nat \ {0} /\ Reads("M")
        /\ tx["M"] = <<>>
    <3>1. pc["M"] # "done"
      BY <2>1
    <3>2. Reads("M")
      BY <2>1, <3>1 DEF MasterFacts, MasterCount
    <3>3. tx["M"] = <<>>
      BY <2>3 DEF MasterFacts, FlagInv
    <3>4. QED
      BY <3>1, <3>2, <3>3 DEF MasterFacts
  <2>5. FlagInv' /\ StopHasFrame'
    BY <2>1, <2>3, <2>4 DEF MasterFacts, SameCall, FlagInv, StopHasFrame
  <2>6. rx["M"] = <<>> => Len(rx["M"]) = 0
    OBVIOUS
  <2>7. Read'
    <3>1. /\ "ACKEN" \in ctrl["M"] /\ {"GENSTOP", "GENSTART", "ACKNEXT"} \cap ctrl["M"] = {}
      BY <2>3, <2>4 DEF Requested
    <3>2. /\ "GENSTART" \notin ctrl'["M"] /\ "GENSTOP" \notin ctrl'["M"]
      BY <2>2, <3>1
    <3>3. /\ left["M"] = 1 => "ACKEN" \notin ctrl'["M"] /\ "ACKNEXT" \notin ctrl'["M"]
          /\ left["M"] = 2 => "ACKNEXT" \in ctrl'["M"]
          /\ left["M"] = 2 => ("ACKEN" \in ctrl'["M"] <=> Memory)
          /\ left["M"] > 2 => "ACKEN" \in ctrl'["M"] /\ "ACKNEXT" \notin ctrl'["M"]
      BY <2>2, <3>1
    <3>4. /\ left["M"] = 1 <=> pc'["M"] = "ev6stop"
          /\ left["M"] = 2 /\ Memory <=> pc'["M"] = "ev6ack"
          /\ pc'["M"] = "rdbf" => left["M"] > 2
          /\ pc'["M"] = "rtdc" /\ left["M"] = 2 => ~Memory
      BY <2>2 DEF ReadWait
    <3>5. Len(rx'["M"]) <= 1 /\ (InTimeSoFar' => rx'["M"] = <<>>) /\ (InTimeSoFar' => Len(rx'["M"]) = 0)
      BY <2>1, <2>3, <2>6 DEF SameCall, Leftover
    <3>6. InTimeSoFar' =>
            /\ pc'["M"] = "ev6stop" => BeforeByte'
            /\ pc'["M"] = "ev6ack" => BeforeByte' /\ Requested({"ACKEN", "ACKNEXT"}, {})'
            /\ left'["M"] > 2 => AckedSoFar'
            /\ pc'["M"] = "rtdc" /\ left'["M"] = 2 => LastTwo'
      <4>1. InTimeSoFar' => BeforeByte'
        BY <2>1, <2>3, <3>5 DEF SameCall, BeforeByte, Bytes0
      <4>2. pc'["M"] = "ev6ack" => Requested({"ACKEN", "ACKNEXT"}, {})'
        BY <3>3, <3>4 DEF Requested
      <4>3. InTimeSoFar' /\ left'["M"] > 2 => AckedSoFar'
        <5>1. left'["M"] > 2 => Requested({"ACKEN"}, {"ACKNEXT"})'
          BY <2>1, <3>3 DEF Requested
        <5>2. QED
          BY <2>1, <2>3, <2>4, <3>5, <5>1 DEF SameCall, Bytes0, AckedSoFar
      <4>4. InTimeSoFar' /\ pc'["M"] = "rtdc" /\ left'["M"] = 2 => LastTwo'
        <5>1. pc'["M"] = "rtdc" /\ left'["M"] = 2 =>
                "ACKEN" \notin ctrl'["M"] /\ "ACKNEXT" \in ctrl'["M"]
          BY <2>1, <3>3, <3>4
        <5>2. QED
          BY <2>1, <2>3, <2>4, <3>5, <5>1 DEF SameCall, Requested, Bytes0, LastTwo
      <4>5. QED
        BY <4>1, <4>2, <4>3, <4>4
    <3>7. QED
      BY <2>1, <2>3, <3>2, <3>3, <3>4, <3>5, <3>6 DEF SameCall, Read, Requested, MasterFacts
  <2>8. QED
    BY <2>2, <2>5, <2>7 DEF FrameInv, MasterInv, AddressInv, ReadWait
<1>2. CASE Ev6Stop
  <2>1. /\ pc["M"] = "ev6stop" /\ pc'["M"] = "rdbf"
        /\ ctrl'["M"] = ctrl["M"] \cup {"GENSTOP"}
        /\ UNCHANGED <<flags, tx, rx, phase, dir, left>>
    BY <1>2 DEF MasterFacts, Ev6Stop, busVars, local
  <2>2. Read /\ left["M"] = 1 /\ phase \in {"data", "closing"}
    BY <2>1 DEF MasterFacts, MasterInv, MasterCount, Read
  <2>3. FlagInv' /\ StopHasFrame'
    BY <2>1, <2>2 DEF MasterFacts, SameCall, FlagInv, StopHasFrame
  <2>4. Read'
    BY <2>1, <2>2 DEF SameCall, Read, Requested, BeforeByte, OnlyByte, Bytes0
  <2>5. QED
    BY <2>1, <2>3, <2>4 DEF FrameInv, MasterInv, AddressInv
<1>3. CASE Ev6Ack
  <2>1. /\ pc["M"] = "ev6ack" /\ pc'["M"] = "rtdc"
        /\ ctrl'["M"] = ctrl["M"] \ {"ACKEN"}
        /\ UNCHANGED <<flags, tx, rx, phase, dir, left>>
    BY <1>3 DEF MasterFacts, Ev6Ack, busVars, local
  <2>2. Read /\ left["M"] = 2 /\ Size("M") = 2 /\ phase \in {"data", "closing"}
    BY <2>1 DEF MasterFacts, MasterInv, MasterCount, Read
  <2>3. FlagInv' /\ StopHasFrame'
    BY <2>1, <2>2 DEF MasterFacts, SameCall, FlagInv, StopHasFrame
  <2>4. rx["M"] = <<>> => Len(rx["M"]) = 0
    OBVIOUS
  <2>5. Read'
    BY <2>1, <2>2, <2>4 DEF SameCall, Read, Requested, BeforeByte, LastTwo, Bytes0
  <2>6. QED
    BY <2>1, <2>3, <2>5 DEF FrameInv, MasterInv, AddressInv
<1>4. QED
  BY <1>1, <1>2, <1>3

(* The data of a read.                                                     *)
LEMMA ReadFrame ==
  ASSUME MasterFacts, SameCall, ReadByte \/ ReadThirdLast \/ ReadLastTwo
  PROVE  FrameInv'
<1> USE DEF Goto, Return, SetCtrl, Stay
<1> DEFINE before == Len(rx["M"])
           after  == Len(rx'["M"])
           s      == Size("M")
           l      == left["M"]
<1>1. /\ Read /\ dir = "read" /\ "ADDR7F" \notin flags["M"] /\ before <= 2
      /\ Reads("M") /\ s \in Nat /\ l \in Nat /\ before \in Nat
      /\ clocked \in Nat /\ acked \in Nat /\ tx["M"] = <<>>
  <2>1. pc["M"] \in {"rdbf", "rtdc"}
    BY DEF MasterFacts, ReadByte, ReadThirdLast, ReadLastTwo, Came
  <2>2. Read
    BY <2>1 DEF MasterFacts, MasterInv
  <2>3. Reads("M")
    BY <2>1 DEF MasterFacts, MasterCount
  <2>4. dir = "read" /\ "ADDR7F" \notin flags["M"] /\ before <= 2
    BY <2>2 DEF Read
  <2>5. tx["M"] = <<>>
    BY <2>4 DEF MasterFacts, FlagInv
  <2>6. rx["M"] \in Seq(Byte)
    BY DEF MasterFacts
  <2>7. before \in Nat
    BY <2>6
  <2>8. QED
    BY <2>1, <2>2, <2>3, <2>4, <2>5, <2>7 DEF MasterFacts
<1>2. CASE ReadByte
  <2>1. /\ pc["M"] = "rdbf" /\ RDBF("M")
        /\ rx'["M"] = SubSeq(rx["M"], 2, Len(rx["M"]))
        /\ left'["M"] = l - 1
        /\ UNCHANGED <<ctrl, flags, tx, phase, dir>>
    BY <1>2, <1>1 DEF MasterFacts, ReadByte, ReadData, i2c_data_receive, Count, Came, FlagCame, busVars
  <2>2. /\ l = 1 => pc'["M"] = "returned" /\ ret'["M"] = "OK"
        /\ l # 1 => pc'["M"] = ReadWait(l - 1)
    BY <1>2 DEF MasterFacts, ReadByte
  <2>3. l \in 1 .. s /\ l \notin {2, 3} /\ (l = 1 => s = 1)
    BY <2>1 DEF MasterFacts, MasterCount
  <2>4. after = before - 1 /\ before \in 1 .. 2 /\ (before = 1 => rx'["M"] = <<>>)
    <3>1. rx["M"] \in Seq(Byte) /\ rx["M"] # <<>>
      BY <2>1 DEF MasterFacts, RDBF
    <3>2. before # 0
      BY <3>1, EmptySeq
    <3>3. 1 <= Len(rx["M"]) /\ 1 \in Nat /\ before \in 1 .. 2
      <4>1. \A b \in Nat : b # 0 /\ b <= 2 => 1 <= b /\ b \in 1 .. 2
        OBVIOUS
      <4>2. before \in Nat /\ before # 0 /\ before <= 2
        BY <1>1, <3>2
      <4>3. QED
        BY ONLY <4>1, <4>2
    <3>4. /\ Len(SubSeq(rx["M"], 1 + 1, Len(rx["M"]))) = Len(rx["M"]) - 1
          /\ Len(rx["M"]) = 1 => SubSeq(rx["M"], 1 + 1, Len(rx["M"])) = <<>>
      BY <3>1, <3>3, RestLength
    <3>5. QED
      BY <2>1, <3>3, <3>4
  <2>5. after <= 1 /\ after <= 2
    <3>1. \A b \in 1 .. 2 : b - 1 <= 1 /\ b - 1 <= 2
      OBVIOUS
    <3>2. before - 1 <= 1 /\ before - 1 <= 2
      BY <3>1, <2>4
    <3>3. QED
      BY ONLY <3>2, <2>4
  <2>6. FlagInv' /\ StopHasFrame'
    BY <2>1 DEF MasterFacts, SameCall, FlagInv, StopHasFrame
  <2>7. CASE l = 1
    <3>1. /\ phase \in {"data", "closing", "free"}
          /\ "GENSTOP" \in ctrl["M"] <=> phase # "free"
          /\ "GENSTART" \notin ctrl["M"]
          /\ phase = "data" => before <= 1
          /\ InTimeSoFar => OnlyByte
      BY <1>1, <2>1, <2>7 DEF Read, Requested
    <3>2. InTimeSoFar => phase # "data" /\ before = 1 /\ clocked = 1 /\ acked = 0
      BY <3>1, <2>1, <2>4 DEF OnlyByte, RDBF
    <3>3. /\ InTimeSoFar' => rx'["M"] = <<>>
          /\ phase = "data" => rx'["M"] = <<>>
          /\ after <= 1
      <4>1. phase = "data" => before = 1
        <5>1. \A b \in 1 .. 2 : b <= 1 => b = 1
          OBVIOUS
        <5>2. QED
          BY <5>1, <3>1, <2>4
      <4>2. QED
        BY <4>1, <3>2, <2>4, <2>5 DEF SameCall
    <3>4. Between'
      BY <2>1, <3>1, <3>2, <3>3 DEF SameCall, Between, Leftover
    <3>5. AfterSuccess'
      BY <1>1, <2>1, <2>3, <2>7, <3>1, <3>2 DEF SameCall, AfterSuccess
    <3>6. QED
      BY <2>2, <2>6, <2>7, <3>4, <3>5 DEF FrameInv, MasterInv, AddressInv
  <2>8. CASE l # 1
    <3>1. /\ phase \in {"data", "closing"} /\ "GENSTOP" \notin ctrl["M"]
          /\ "GENSTART" \notin ctrl["M"]
          /\ InTimeSoFar => AckedSoFar
      BY <1>1, <2>1, <2>3, <2>8 DEF Read, Requested
    <3>2. pc'["M"] \in {"rdbf", "rtdc"} /\ l - 1 > 2 /\ l - 1 \in Nat /\ l - 1 # 1
      BY <1>1, <2>2, <2>3, <2>8 DEF ReadWait
    <3>3. InTimeSoFar' => AckedSoFar'
      BY <1>1, <2>1, <2>4, <3>1 DEF SameCall, AckedSoFar, Requested
    <3>4. Read'
      BY <1>1, <2>1, <3>1, <3>2, <3>3, <2>5 DEF Read, Requested
    <3>5. QED
      BY <2>6, <3>2, <3>4 DEF FrameInv, MasterInv, AddressInv
  <2>9. QED
    BY <2>7, <2>8
<1>3. CASE ReadThirdLast
  <2>1. /\ pc["M"] = "rtdc" /\ TDC("M") /\ l = 3 /\ pc'["M"] = "rtdc"
        /\ rx'["M"] = SubSeq(rx["M"], 2, Len(rx["M"]))
        /\ left'["M"] = 2
        /\ ctrl'["M"] = ctrl["M"] \ {"ACKEN"}
        /\ UNCHANGED <<flags, tx, phase, dir>>
    BY <1>3, <1>1 DEF MasterFacts, ReadThirdLast, ReadData, i2c_data_receive, Count, Came, FlagCame, busVars
  <2>2. l <= s
    BY <2>1 DEF MasterFacts, MasterCount
  <2>3. before = 2 /\ after = 1
    <3>1. before = 2
      BY <1>1, <2>1 DEF TDC, Transmitting
    <3>2. rx["M"] \in Seq(Byte) /\ 1 <= Len(rx["M"]) /\ 1 \in Nat
      BY <3>1 DEF MasterFacts
    <3>3. Len(SubSeq(rx["M"], 1 + 1, Len(rx["M"]))) = Len(rx["M"]) - 1
      BY <3>2, RestLength
    <3>4. QED
      BY <2>1, <3>1, <3>3
  <2>4. FlagInv' /\ StopHasFrame'
    BY <2>1 DEF MasterFacts, SameCall, FlagInv, StopHasFrame
  <2>5. /\ phase \in {"data", "closing"} /\ "GENSTOP" \notin ctrl["M"]
        /\ "GENSTART" \notin ctrl["M"]
        /\ InTimeSoFar => AckedSoFar
    BY <1>1, <2>1 DEF Read, Requested
  <2>6. InTimeSoFar' => LastTwo'
    <3>1. InTimeSoFar => phase = "data" /\ clocked = s - 3 + 2 /\ acked = clocked
      BY <2>1, <2>3, <2>5 DEF AckedSoFar
    <3>2. "ACKEN" \notin ctrl'["M"]
      BY <2>1
    <3>3. QED
      BY <1>1, <2>1, <2>2, <2>3, <3>1, <3>2 DEF SameCall, LastTwo, Requested
  <2>7. Read'
    BY <1>1, <2>1, <2>3, <2>5, <2>6 DEF Read, Requested
  <2>8. QED
    BY <2>1, <2>4, <2>7 DEF FrameInv, MasterInv, AddressInv
<1>4. CASE ReadLastTwo
  <2>1. /\ pc["M"] = "rtdc" /\ TDC("M") /\ l = 2 /\ pc'["M"] = "returned" /\ ret'["M"] = "OK"
        /\ rx'["M"] = SubSeq(rx["M"], 3, Len(rx["M"]))
        /\ ctrl'["M"] = ctrl["M"] \cup {"GENSTOP"}
        /\ UNCHANGED <<flags, tx, phase, dir>>
    BY <1>4, <1>1 DEF MasterFacts, ReadLastTwo, ReadData, i2c_data_receive, Count, Came, FlagCame, busVars
  <2>2. before = 2 /\ rx'["M"] = <<>>
    <3>1. before = 2
      BY <1>1, <2>1 DEF TDC, Transmitting
    <3>2. rx["M"] \in Seq(Byte) /\ 2 <= Len(rx["M"]) /\ 2 \in Nat
      BY <3>1 DEF MasterFacts
    <3>3. Len(rx["M"]) = 2 => SubSeq(rx["M"], 2 + 1, Len(rx["M"])) = <<>>
      BY <3>2, RestLength
    <3>4. QED
      BY <2>1, <3>1, <3>3
  <2>3. /\ phase \in {"data", "closing"} /\ "GENSTART" \notin ctrl["M"]
        /\ InTimeSoFar => LastTwo
    BY <1>1, <2>1 DEF Read, Requested
  <2>4. InTimeSoFar => phase = "closing" /\ clocked = s /\ acked = s - 1
    BY <1>1, <2>2, <2>3 DEF LastTwo
  <2>5. FlagInv' /\ StopHasFrame'
    BY <2>1, <2>3 DEF MasterFacts, SameCall, FlagInv, StopHasFrame
  <2>6. Between'
    BY <2>1, <2>2, <2>3, <2>4 DEF SameCall, Between, Leftover
  <2>7. AfterSuccess'
    BY <1>1, <2>1, <2>3, <2>4 DEF SameCall, AfterSuccess
  <2>8. QED
    BY <2>1, <2>5, <2>6, <2>7 DEF FrameInv, MasterInv, AddressInv
<1>5. QED
  BY <1>2, <1>3, <1>4

(* Every step of the master in its call.                                   *)
LEMMA MasterFrame ==
  ASSUME ScriptInv, FrameInv, Master
  PROVE  FrameInv'
<1>1. MasterFacts /\ SameCall
  BY MasterStart
<1>2. CASE GenerateStart \/ SendAddress \/ ClearAddrToWrite \/ SendRegister \/ GenerateRestart
  BY <1>1, <1>2, AddressFrame
<1>3. CASE SendData("M", "tdc") \/ StopWrite
  BY <1>1, <1>3, WriteFrame
<1>4. CASE ClearAddrToRead \/ Ev6Stop \/ Ev6Ack
  BY <1>1, <1>4, ReadStartFrame
<1>5. CASE ReadByte \/ ReadThirdLast \/ ReadLastTwo
  BY <1>1, <1>5, ReadFrame
<1>6. QED
  BY <1>2, <1>3, <1>4, <1>5 DEF Master

(* What no step of the bus changes, and what it may find of the master.    *)
BusCall ==
  /\ UNCHANGED <<pc, left, ret, round, env>>
  /\ Size("M")' = Size("M") /\ MyRound("M")' = MyRound("M")
  /\ Reads("M")' = Reads("M") /\ Memory' = Memory
  /\ InTimeSoFar' = InTimeSoFar /\ Steady' = Steady
  /\ Steady => InTimeSoFar /\ env.prompt
  /\ pc["M"] \in {"ev6stop", "ev6ack"} /\ InTimeSoFar => env.prompt
  /\ pc["M"] \in PcOf("M")

LEMMA BusStart ==
  ASSUME ScriptInv, FrameInv, Bus \/ Fault
  PROVE  MasterFacts /\ BusCall
<1>1. TypeOK /\ ThreadOf("M") /\ MasterCount /\ MasterFacts
  BY MasterStart DEF ScriptInv, ThreadInv, CountInv, Node
<1>2. UNCHANGED <<pc, left, ret, round, env, plan>>
  BY DEF Bus, Fault, Quiet, local, app
<1>3. /\ Size("M")' = Size("M") /\ MyRound("M")' = MyRound("M")
      /\ Reads("M")' = Reads("M") /\ Memory' = Memory
      /\ InTimeSoFar' = InTimeSoFar /\ Steady' = Steady
      /\ Steady => InTimeSoFar /\ env.prompt
  BY <1>2 DEF Size, MyRound, Reads, Memory, InTimeSoFar, Steady, TimingFree
<1>4. ASSUME pc["M"] \in {"ev6stop", "ev6ack"}, InTimeSoFar
      PROVE  env.prompt
  <2>1. /\ pc["M"] # "done" /\ Reads("M") /\ round["M"] \in Nat \ {0}
        /\ Size("M") = 1 \/ (Size("M") = 2 /\ Memory)
    BY <1>1, <1>4 DEF MasterCount, MasterFacts
  <2>2. /\ MyRound("M").op \in {"read", "mem_read"}
        /\ Memory => MyRound("M").op # "read"
    BY <1>1, <2>1 DEF MasterFacts
  <2>3. ~TimingFree(MyRound("M"))
    BY <2>1, <2>2 DEF TimingFree, Size
  <2>4. round["M"] \in 1 .. round["M"]
    BY <2>1
  <2>5. QED
    BY <1>4, <2>3, <2>4 DEF InTimeSoFar, MyRound
<1>5. QED
  BY <1>1, <1>2, <1>3, <1>4 DEF BusCall, ThreadOf

(* START.                                                                  *)
LEMMA StartFrame ==
  ASSUME MasterFacts, BusCall, HwStart \/ HwRestart
  PROVE  FrameInv'
<1>1. /\ ctrl'["M"] = ctrl["M"] \ {"GENSTART"} /\ "GENSTART" \in ctrl["M"]
      /\ "STARTF" \in flags'["M"] /\ phase' = "start"
      /\ UNCHANGED <<rx, tx, dir>>
  BY DEF MasterFacts, HwStart, HwRestart
<1>2. tx["M"] = <<>> /\ "ADDR7F" \notin flags'["M"] /\ "BUSYF" \in flags'["M"]
  <2>1. CASE HwStart
    <3>1. phase = "free"
      BY <2>1 DEF MasterFacts, FlagInv, HwStart
    <3>2. flags'["M"] = flags["M"] \cup {"BUSYF", "STARTF"}
      BY <2>1 DEF MasterFacts, HwStart
    <3>3. QED
      BY <3>1, <3>2 DEF MasterFacts, FlagInv
  <2>2. CASE HwRestart
    <3>1. flags'["M"] = flags["M"] \cup {"STARTF"}
      BY <2>2 DEF MasterFacts, HwRestart
    <3>2. QED
      BY <2>2, <3>1 DEF MasterFacts, FlagInv, HwRestart
  <2>3. QED
    BY <2>1, <2>2
<1>3. FlagInv' /\ StopHasFrame'
  BY <1>1, <1>2 DEF BusCall, FlagInv, StopHasFrame
<1>4. /\ ~Between
      /\ ~Written /\ ~Read
      /\ pc["M"] \notin {"addr7", "tdbe_reg", "tdbe_restart", "readdr7"}
  BY <1>1 DEF MasterFacts, MasterInv, AddressInv, Between, Written, Read, Requested
<1>5. AfterFailure => ~Steady
  BY <1>4 DEF AfterFailure
<1>6. /\ pc["M"] \notin {"idle", "free", "tdbe", "tdc", "ev6stop", "ev6ack", "rdbf", "rtdc"}
      /\ ~(pc["M"] = "returned" /\ ret["M"] = "OK")
  BY <1>4 DEF MasterFacts, MasterInv
<1>7. pc["M"] = "fail" \/ (pc["M"] \in {"returned", "gave_up"} /\ ret["M"] = "ERR") => AfterFailure'
  BY <1>5 DEF MasterFacts, MasterInv, BusCall, AfterFailure
<1>8. Leftover' = Leftover
  BY <1>1 DEF BusCall, Leftover
<1>9. AddressInv'
  BY <1>1, <1>4, <1>6, <1>8 DEF MasterFacts, MasterInv, BusCall, AddressInv, Requested
<1>10. QED
  BY <1>3, <1>6, <1>7, <1>9 DEF FrameInv, MasterInv, BusCall

(* The address, acknowledged or not.                                       *)
LEMMA AddrFrame ==
  ASSUME MasterFacts, BusCall, HwAddrAck \/ HwAddrNack
  PROVE  FrameInv'
<1>1. /\ phase = "addr" /\ clocked' = 0 /\ acked' = 0
      /\ UNCHANGED <<ctrl, rx, dir>>
  BY DEF HwAddrAck, HwAddrNack
<1>2. tx["M"] = <<>> /\ "BUSYF" \in flags["M"] /\ {"STARTF", "ADDR7F"} \cap flags["M"] = {}
  BY <1>1 DEF MasterFacts, FlagInv
<1>3. /\ tx'["M"] = <<>>
      /\ \/ phase' = "data" /\ flags'["M"] = flags["M"] \cup {"ADDR7F"}
         \/ phase' = "closing" /\ flags'["M"] = flags["M"] \cup {"ACKFAIL"}
  BY <1>2 DEF MasterFacts, HwAddrAck, HwAddrNack
<1>4. FlagInv' /\ StopHasFrame'
  BY <1>1, <1>2, <1>3 DEF BusCall, FlagInv, StopHasFrame
<1>5. Leftover' = Leftover
  BY <1>1 DEF BusCall, Leftover
<1>6. Between => Between'
  BY <1>1, <1>3, <1>5 DEF BusCall, Between
<1>7. AfterFailure => AfterFailure'
  BY <1>3, <1>6 DEF BusCall, AfterFailure
<1>8. ~AfterSuccess /\ ~Written
  BY <1>1 DEF AfterSuccess, Written
<1>9. pc["M"] \in {"ev6stop", "ev6ack", "rdbf", "rtdc"} => ~Read
  BY <1>1 DEF Read
<1>10. AddressInv'
  BY <1>1, <1>2, <1>3, <1>5 DEF MasterFacts, MasterInv, BusCall, AddressInv, Requested, Bytes0
<1>11. QED
  BY <1>4, <1>6, <1>7, <1>8, <1>9, <1>10 DEF MasterFacts, FrameInv, MasterInv, BusCall

(* A byte of a write, acknowledged, refused, or its acknowledge lost.      *)
LEMMA WriteByteFrame ==
  ASSUME MasterFacts, BusCall, NEW lost \in BOOLEAN, HwWriteByte(lost)
  PROVE  FrameInv'
<1>1. /\ phase = "data" /\ dir = "write" /\ "ADDR7F" \notin flags["M"] /\ tx["M"] # <<>>
      /\ UNCHANGED <<ctrl, dir>> /\ rx'["M"] = rx["M"] /\ clocked' = clocked + 1
  BY DEF MasterFacts, HwWriteByte
<1>2. \/ /\ phase' = "data" /\ acked' = acked + 1
         /\ tx'["M"] = Tail(tx["M"]) /\ flags'["M"] = flags["M"]
      \/ /\ phase' = "closing"
         /\ tx'["M"] = <<>> /\ flags'["M"] = flags["M"] \cup {"ACKFAIL"}
  BY <1>1 DEF MasterFacts, HwWriteByte
<1>3. FlagInv' /\ StopHasFrame'
  BY <1>1, <1>2 DEF MasterFacts, BusCall, FlagInv, StopHasFrame
<1>4. Leftover' = Leftover
  BY <1>1 DEF BusCall, Leftover
<1>5. Between => Between'
  BY <1>1, <1>2, <1>4 DEF BusCall, Between
<1>6. AfterFailure => AfterFailure'
  BY <1>2, <1>5 DEF BusCall, AfterFailure
<1>7. ~AfterSuccess
  BY <1>1 DEF AfterSuccess
<1>8. pc["M"] \in {"ev6stop", "ev6ack", "rdbf", "rtdc"} => ~Read
  BY <1>1 DEF Read
<1>9. AddressInv'
  BY <1>1, <1>2, <1>4 DEF MasterFacts, MasterInv, BusCall, AddressInv, Requested, Bytes0
<1>10. ASSUME pc["M"] \in {"tdbe", "tdc"} PROVE Written'
  <2>1. Written
    BY <1>10 DEF MasterFacts, MasterInv
  <2>2. tx["M"] \in Seq(Byte)
    BY DEF MasterFacts
  <2>3. Len(tx["M"]) \in Nat /\ Len(Tail(tx["M"])) = Len(tx["M"]) - 1
    BY <1>1, <2>2
  <2>4. phase' = "data" => acked' = clocked' /\ clocked' + Len(tx'["M"]) = clocked + Len(tx["M"])
    BY <1>1, <1>2, <2>1, <2>3 DEF MasterFacts, Written
  <2>5. QED
    BY <1>1, <1>2, <1>4, <2>1, <2>4 DEF BusCall, Written, Requested
<1>11. QED
  BY <1>3, <1>5, <1>6, <1>7, <1>8, <1>9, <1>10 DEF MasterFacts, FrameInv, MasterInv, BusCall

(* A byte of a read.                                                       *)
LEMMA ReadByteFrame ==
  ASSUME MasterFacts, BusCall, InTime, HwReadByte
  PROVE  FrameInv'
<1> DEFINE before == Len(rx["M"])
           after  == Len(rx'["M"])
           s      == Size("M")
<1>1. /\ phase = "data" /\ dir = "read" /\ "ADDR7F" \notin flags["M"]
      /\ flags'["M"] = flags["M"]
      /\ UNCHANGED <<ctrl, dir>> /\ tx'["M"] = tx["M"] /\ clocked' = clocked + 1
      /\ acked' = IF MasterAcks THEN acked + 1 ELSE acked
      /\ phase' = IF MasterAcks /\ "GENSTOP" \notin ctrl["M"] THEN "data" ELSE "closing"
  BY DEF MasterFacts, HwReadByte, HwReadByteAck
<1>2. /\ before \in Nat /\ before < 2 /\ after = before + 1
      /\ rx["M"] = <<>> <=> before = 0
      /\ rx'["M"] # <<>>
  <2>1. rx["M"] \in Seq(Byte)
    BY DEF MasterFacts
  <2>2. PICK b : rx'["M"] = Append(rx["M"], b)
    BY DEF MasterFacts, HwReadByte, HwReadByteAck
  <2>3. before < 2
    BY DEF HwReadByte, HwReadByteAck
  <2>4. before \in Nat /\ (rx["M"] = <<>> <=> before = 0)
    BY <2>1, EmptySeq
  <2>5. Len(Append(rx["M"], b)) = Len(rx["M"]) + 1 /\ Append(rx["M"], b) # <<>>
    BY <2>1
  <2>6. QED
    BY <2>2, <2>3, <2>4, <2>5
<1>3. /\ before \in 0 .. 1 /\ after \in 1 .. 2 /\ after <= 2 /\ (before = 0 => after = 1 /\ after <= 1)
  <2>1. \A b \in Nat : b < 2 => b \in 0 .. 1 /\ b + 1 \in 1 .. 2 /\ b + 1 <= 2
    OBVIOUS
  <2>2. before \in 0 .. 1 /\ after \in 1 .. 2 /\ after <= 2
    BY ONLY <1>2, <2>1
  <2>3. before = 0 => after = 1 /\ after <= 1
    BY ONLY <1>2
  <2>4. QED
    BY ONLY <2>2, <2>3
<1>4. FlagInv' /\ StopHasFrame'
  BY <1>1 DEF MasterFacts, BusCall, FlagInv, StopHasFrame
<1>5. tx["M"] = <<>>
  BY <1>1 DEF MasterFacts, FlagInv
<1>6. ASSUME Between PROVE Between' /\ ~InTimeSoFar /\ phase' = "closing" /\ ~Steady
  <2>1. ~InTimeSoFar /\ before = 0 /\ "GENSTOP" \in ctrl["M"]
    BY <1>1, <1>2, <1>6 DEF Between
  <2>2. Leftover'
    BY <1>3, <2>1 DEF BusCall, Leftover
  <2>3. QED
    BY <1>1, <1>6, <2>1, <2>2 DEF BusCall, Between
<1>7. AfterFailure => AfterFailure'
  BY <1>6 DEF BusCall, AfterFailure
<1>8. Between /\ AfterSuccess => AfterSuccess'
  BY <1>1, <1>5, <1>6 DEF BusCall, AfterSuccess
<1>9. pc["M"] \in {"tdbe", "tdc"} => ~Written
  BY <1>1 DEF Written
<1>10. AddressInv'
  <2>1. pc["M"] \notin {"startf", "addr7", "tdbe_reg", "tdbe_restart", "restartf", "readdr7"}
    BY <1>1 DEF MasterFacts, MasterInv, AddressInv
  <2>2. QED
    BY <2>1 DEF BusCall, AddressInv
<1>11. ASSUME pc["M"] \in {"ev6stop", "ev6ack", "rdbf", "rtdc"} PROVE Read'
  <2>1. Read
    BY <1>11 DEF MasterFacts, MasterInv
  <2>2. InTimeSoFar => pc["M"] \notin {"ev6stop", "ev6ack"}
    BY DEF BusCall, InTime
  <2>3. "GENSTOP" \in ctrl["M"] <=> pc["M"] = "rdbf" /\ left["M"] = 1
    BY <1>1, <1>11, <2>1 DEF Read
  <2>4. "GENSTART" \notin ctrl["M"]
    BY <2>1 DEF Read, Requested
  <2>5. left["M"] = 1 => phase' = "closing" /\ ~MasterAcks /\ Requested({}, {"ACKEN", "ACKNEXT"})
    BY <1>1, <2>1 DEF Read, Requested, MasterAcks
  <2>6. ASSUME InTimeSoFar, pc["M"] = "rdbf", left["M"] = 1
        PROVE  OnlyByte'
    <3>1. before = 0 /\ Bytes0
      BY <1>1, <1>2, <2>1, <2>6 DEF Read, OnlyByte
    <3>2. QED
      BY <1>1, <1>3, <2>5, <2>6, <3>1 DEF OnlyByte, Bytes0
  <2>7. ASSUME InTimeSoFar, left["M"] > 2
        PROVE  AckedSoFar'
    <3>1. AckedSoFar
      BY <2>1, <2>7 DEF Read
    <3>2. MasterAcks /\ "GENSTOP" \notin ctrl["M"]
      BY <1>11, <2>1, <2>7, <3>1 DEF MasterAcks, AckedSoFar, Requested, Read, MasterFacts
    <3>3. clocked + 1 = s - left["M"] + (before + 1) /\ acked + 1 = clocked + 1
      <4>1. clocked = s - left["M"] + before /\ acked = clocked
        BY <3>1 DEF AckedSoFar
      <4>2. s \in Nat /\ left["M"] \in Nat /\ before \in Nat /\ clocked \in Nat /\ acked \in Nat
        BY <1>2, <1>11 DEF MasterFacts
      <4>3. QED
        BY ONLY <4>1, <4>2
    <3>4. QED
      BY <1>1, <1>2, <3>1, <3>2, <3>3 DEF BusCall, AckedSoFar, Requested
  <2>8. ASSUME InTimeSoFar, pc["M"] = "rtdc", left["M"] = 2
        PROVE  LastTwo'
    <3>1. LastTwo
      BY <2>1, <2>8 DEF Read
    <3>2. /\ "ACKEN" \notin ctrl["M"] /\ acked = clocked /\ clocked = s - 2 + before
          /\ before = 0 => clocked = 0 /\ "ACKNEXT" \in ctrl["M"]
      BY <1>1, <1>2, <3>1 DEF LastTwo, Requested
    <3>3. s \in Nat /\ before \in 0 .. 1 /\ clocked \in Nat /\ acked \in Nat /\ 2 <= s
      BY <1>3, <2>8 DEF MasterFacts, MasterCount
    <3>4. "GENSTOP" \notin ctrl["M"]
      BY <1>1, <2>1, <2>8 DEF Read
    <3>5. clocked + 1 = s - 2 + (before + 1) /\ (before = 1 => clocked # 0)
      <4>1. \A c, z \in Nat : \A b \in 0 .. 1 :
              2 <= z /\ c = z - 2 + b => c + 1 = z - 2 + (b + 1) /\ (b = 1 => c # 0)
        OBVIOUS
      <4>2. QED
        BY ONLY <3>2, <3>3, <4>1
    <3>6. CASE before = 0
      <4>1. MasterAcks
        BY <3>2, <3>6 DEF MasterAcks
      <4>2. phase' = "data" /\ acked' = clocked' /\ after = 1
        BY <1>1, <1>3, <3>2, <3>4, <3>6, <4>1
      <4>3. QED
        BY <1>1, <1>2, <1>3, <3>2, <3>5, <3>6, <4>2 DEF BusCall, LastTwo, Requested
    <3>7. CASE before = 1
      <4>1. ~MasterAcks
        BY <3>2, <3>5, <3>7 DEF MasterAcks
      <4>2. phase' = "closing" /\ acked' = acked /\ after = 2
        BY <1>1, <1>2, <3>7, <4>1
      <4>3. acked = (clocked + 1) - 1
        BY ONLY <3>2, <3>3
      <4>4. QED
        BY <1>1, <1>2, <3>2, <3>5, <4>2, <4>3 DEF BusCall, LastTwo, Requested
    <3>8. QED
      BY <3>3, <3>6, <3>7
  <2>9. phase' \in {"data", "closing"} /\ UNCHANGED <<pc, left, ctrl, dir>> /\ InTimeSoFar' = InTimeSoFar
        /\ flags'["M"] = flags["M"]
    BY <1>1 DEF BusCall
  <2>10. QED
    BY <1>1, <1>3, <2>1, <2>2, <2>3, <2>4, <2>5, <2>6, <2>7, <2>8, <2>9 DEF Read, Requested
<1>12. QED
  BY <1>4, <1>6, <1>7, <1>8, <1>9, <1>10, <1>11 DEF MasterFacts, FrameInv, MasterInv, BusCall

(* A byte that nobody drives, after one that was not acknowledged.         *)
LEMMA OverrunFrame ==
  ASSUME MasterFacts, BusCall, HwOverrunByte
  PROVE  FrameInv'
<1>1. /\ phase = "closing" /\ dir = "read" /\ "GENSTOP" \notin ctrl["M"] /\ clocked > 0
      /\ clocked' = clocked + 1 /\ Len(rx["M"]) < 2
      /\ UNCHANGED <<ctrl, flags, tx, phase, dir, acked>>
  BY DEF HwOverrunByte
<1>2. Len(rx'["M"]) <= 2 /\ Len(rx["M"]) # 2
  <2>1. rx["M"] \in Seq(Byte)
    BY DEF MasterFacts
  <2>2. rx'["M"] = Append(rx["M"], Garbage)
    BY DEF MasterFacts, HwOverrunByte
  <2>3. Len(rx["M"]) \in Nat /\ Len(Append(rx["M"], Garbage)) = Len(rx["M"]) + 1
    BY <2>1
  <2>4. \A b \in Nat : b < 2 => b # 2 /\ b + 1 <= 2
    OBVIOUS
  <2>5. QED
    BY <1>1, <2>2, <2>3, <2>4
<1>3. FlagInv' /\ StopHasFrame'
  BY <1>1 DEF MasterFacts, BusCall, FlagInv, StopHasFrame
<1>4. ~Between /\ (AfterFailure => AfterFailure')
  BY <1>1 DEF Between, AfterFailure, BusCall
<1>5. /\ pc["M"] \in {"tdbe", "tdc"} => ~Written
      /\ pc["M"] \notin {"startf", "addr7", "tdbe_reg", "tdbe_restart", "restartf", "readdr7"}
  BY <1>1 DEF MasterFacts, MasterInv, AddressInv, Written, Bytes0
<1>6. AddressInv'
  BY <1>5 DEF AddressInv, BusCall
<1>7. ASSUME pc["M"] \in {"ev6stop", "ev6ack", "rdbf", "rtdc"} PROVE Read'
  <2>1. Read /\ ~(pc["M"] = "rdbf" /\ left["M"] = 1)
    BY <1>1, <1>7 DEF MasterFacts, MasterInv, Read
  <2>2. InTimeSoFar =>
          /\ pc["M"] \notin {"ev6stop", "ev6ack"}
          /\ ~(left["M"] > 2)
          /\ ~(pc["M"] = "rtdc" /\ left["M"] = 2)
    BY <1>1, <1>2, <2>1 DEF Read, BeforeByte, AckedSoFar, LastTwo
  <2>3. QED
    BY <1>1, <1>2, <2>1, <2>2 DEF BusCall, Read, Requested
<1>8. QED
  BY <1>3, <1>4, <1>5, <1>6, <1>7 DEF MasterFacts, FrameInv, MasterInv, BusCall

(* STOP.                                                                   *)
LEMMA StopFrame ==
  ASSUME MasterFacts, BusCall, InTime, HwStop
  PROVE  FrameInv'
<1>1. /\ ctrl'["M"] = ctrl["M"] \ {"GENSTOP"} /\ "GENSTOP" \in ctrl["M"] /\ ByteBoundary
      /\ flags'["M"] = flags["M"] \ {"BUSYF", "STARTF", "ADDR7F"}
      /\ phase' = "free" /\ UNCHANGED <<rx, tx, dir, clocked, acked>>
  BY DEF MasterFacts, HwStop
<1>2. tx["M"] = <<>>
  BY <1>1 DEF MasterFacts, FlagInv, ByteBoundary
<1>3. FlagInv' /\ StopHasFrame'
  BY <1>1, <1>2 DEF BusCall, FlagInv, StopHasFrame
<1>4. Leftover' = Leftover
  BY <1>1 DEF BusCall, Leftover
<1>5. Between => Between'
  BY <1>1, <1>4 DEF BusCall, Between
<1>6. AfterFailure => AfterFailure'
  BY <1>5 DEF BusCall, AfterFailure, InTime
<1>7. AfterSuccess => AfterSuccess'
  BY <1>1, <1>2 DEF BusCall, AfterSuccess
<1>8. /\ pc["M"] \in {"tdbe", "tdc"} => ~Written
      /\ pc["M"] \notin {"startf", "addr7", "tdbe_reg", "tdbe_restart", "restartf", "readdr7"}
  BY <1>1 DEF MasterFacts, MasterInv, AddressInv, Written, Requested
<1>9. AddressInv'
  BY <1>8 DEF AddressInv, BusCall
<1>10. ASSUME pc["M"] \in {"ev6stop", "ev6ack", "rdbf", "rtdc"} PROVE Read'
  <2>1. Read /\ pc["M"] = "rdbf" /\ left["M"] = 1
    BY <1>1, <1>10 DEF MasterFacts, MasterInv, Read
  <2>2. /\ dir = "read" /\ "ADDR7F" \notin flags["M"] /\ Len(rx["M"]) <= 2
        /\ phase \in {"data", "closing"} /\ "GENSTART" \notin ctrl["M"]
        /\ Requested({}, {"ACKEN", "ACKNEXT"})
        /\ InTimeSoFar => OnlyByte
    BY <1>1, <2>1 DEF Read, Requested
  <2>3. InTimeSoFar => phase # "data"
    <3>1. rx["M"] = <<>> => Len(rx["M"]) = 0
      OBVIOUS
    <3>2. QED
      BY <1>1, <2>2, <3>1 DEF OnlyByte, ByteBoundary
  <2>4. InTimeSoFar => OnlyByte'
    BY <1>1, <2>2, <2>3 DEF OnlyByte
  <2>5. QED
    BY <1>1, <2>1, <2>2, <2>4 DEF BusCall, Read, Requested
<1>11. QED
  BY <1>3, <1>5, <1>6, <1>7, <1>8, <1>9, <1>10 DEF MasterFacts, FrameInv, MasterInv, BusCall

(* Every step of the bus, of the device and of the slave.                  *)
LEMMA BusFrame ==
  ASSUME ScriptInv, FrameInv, Bus \/ Fault
  PROVE  FrameInv'
<1>1. MasterFacts /\ BusCall
  BY BusStart
<1>2. CASE HwStart \/ HwRestart
  BY <1>1, <1>2, StartFrame
<1>3. CASE InTime /\ (HwAddrAck \/ HwAddrNack)
  BY <1>1, <1>3, AddrFrame
<1>4. CASE InTime /\ HwReadByte
  BY <1>1, <1>4, ReadByteFrame
<1>5. CASE InTime /\ HwStop
  BY <1>1, <1>5, StopFrame
<1>6. CASE HwOverrunByte
  BY <1>1, <1>6, OverrunFrame
<1>7. CASE HwWriteByte(TRUE) \/ HwWriteByte(FALSE)
  <2>1. TRUE \in BOOLEAN /\ FALSE \in BOOLEAN
    OBVIOUS
  <2>2. CASE HwWriteByte(TRUE)
    BY <1>1, <2>1, <2>2, WriteByteFrame
  <2>3. CASE HwWriteByte(FALSE)
    BY <1>1, <2>1, <2>3, WriteByteFrame
  <2>4. QED
    BY <1>7, <2>2, <2>3
<1>8. CASE HwSlaveRelease
  <2>1. UNCHANGED <<pc, checking, local, app, ctrl, ints, flags, tx, rx, phase, dir, clocked, acked>>
    BY <1>8 DEF HwSlaveRelease, Bus, Fault, Quiet
  <2>2. SameThread("M") /\ SameRegisters("M") /\ UNCHANGED <<env, plan>>
    BY <2>1 DEF SameThread, SameRegisters, local, app
  <2>3. QED
    BY <2>1, <2>2, FrameFrame
<1>9. QED
  BY <1>2, <1>3, <1>4, <1>5, <1>6, <1>7, <1>8 DEF Bus, Fault

(* The slave and the device leave the master and its frame alone.          *)
LEMMA OtherLeaves ==
  ASSUME ScriptInv, Main("S") \/ Device
  PROVE  /\ SameThread("M") /\ SameRegisters("M")
         /\ UNCHANGED <<env, plan, phase, dir, clocked, acked>>
<1>1. TypeOK /\ ScriptFits /\ "M" \in Node /\ "S" \in Node /\ "M" # "S"
  BY DEF ScriptInv, Node
<1>2. CASE Main("S")
  <2>1. SameThread("M") /\ SameRegisters("M") /\ UNCHANGED <<env, plan>>
    <3>1. "M" \in Node \ {"S"}
      BY <1>1
    <3>2. QED
      BY <1>1, <1>2, <3>1, MainLocal
  <2>2. UNCHANGED <<phase, dir, clocked, acked>>
    <3>1. CASE TryAgain("S")
      BY <1>1, <3>1 DEF TryAgain, i2c_reset, hwVars
    <3>2. CASE StartCall("S") \/ NextRound("S") \/ GiveUp("S")
      BY <3>2 DEF StartCall, NextRound, GiveUp, hwVars
    <3>3. CASE Wait("S")
      BY <3>3 DEF Wait, LookAgain, NoEvent, WaitAckFail, WaitStop, WaitTimeout, CleanUp, hwVars,
                  busVars
    <3>4. CASE Slave
      BY <3>4 DEF Slave, EnableAck, SlaveClearAddr, SlaveReadByte, SendData, SlaveEnd, busVars
    <3>5. QED
      BY <1>1, <1>2, <3>1, <3>2, <3>3, <3>4 DEF Main
  <2>3. QED
    BY <2>1, <2>2
<1>3. CASE Device
  <2>1. /\ UNCHANGED <<ctrl, ints, pc, checking, local, app, phase, dir, clocked, acked>>
        /\ flags'["M"] = flags["M"] /\ tx'["M"] = tx["M"] /\ rx'["M"] = rx["M"]
    <3>1. flags \in [Node -> SUBSET Flags] /\ tx \in [Node -> Seq(Byte)] /\ rx \in [Node -> Seq(Byte)]
      BY <1>1 DEF TypeOK, HwTypeOK
    <3>2. QED
      BY <1>1, <1>3, <3>1 DEF Device, DeviceAddressed, DeviceTakes, DeviceGives, ClearFlags,
                              i2c_data_receive, i2c_data_send, busVars
  <2>2. SameThread("M") /\ SameRegisters("M") /\ UNCHANGED <<env, plan>>
    BY <2>1 DEF SameThread, SameRegisters, local, app
  <2>3. QED
    BY <2>1, <2>2
<1>4. QED
  BY <1>2, <1>3

LEMMA OtherFrame ==
  ASSUME ScriptInv, FrameInv, Main("S") \/ Device
  PROVE  FrameInv'
BY OtherLeaves, FrameFrame

(* Every step keeps what is known of the master's frame.                   *)
LEMMA FrameStep ==
  ASSUME ScriptInv, FrameInv, [Next]_vars
  PROVE  FrameInv'
<1>1. CASE Main("M")
  BY <1>1, CommonFrame, MasterFrame DEF Main
<1>2. CASE Main("S") \/ Device
  BY <1>2, OtherFrame
<1>3. CASE Bus \/ Fault
  BY <1>3, BusFrame
<1>4. CASE UNCHANGED vars
  BY <1>4, FrameFrame DEF vars, hwVars, local, app, SameThread, SameRegisters
<1>5. QED
  BY <1>1, <1>2, <1>3, <1>4 DEF Next, Node

(***************************************************************************)
(* The memory device.                                                      *)
(***************************************************************************)

(* The remainder of the successor.                                         *)
LEMMA NextRemainder ==
  ASSUME NEW N \in Nat \ {0}, NEW a \in Nat
  PROVE  /\ a % N \in 0 .. N - 1
         /\ (a + 1) % N = IF a % N = N - 1 THEN 0 ELSE (a % N) + 1
<1> DEFINE q == a \div N
           r == a % N
<1>1. /\ q \in Nat
      /\ r \in 0 .. N - 1
  BY SMT
<1>2. a = N * q + r
  BY <1>1, SMT
<1> HIDE DEF q, r
<1>3. \A p \in Nat : \A s \in 0 .. N - 1 : (N * p + s) % N = s
  BY SMT
<1>4. CASE r = N - 1
  <2>1. a + 1 = N * (q + 1) + 0 /\ q + 1 \in Nat /\ 0 \in 0 .. N - 1
    BY <1>1, <1>2, <1>4, SMT
  <2>2. (N * (q + 1) + 0) % N = 0
    BY <2>1, <1>3
  <2>3. QED
    BY <1>1, <1>4, <2>1, <2>2 DEF r
<1>5. CASE r # N - 1
  <2>1. a + 1 = N * q + (r + 1) /\ r + 1 \in 0 .. N - 1
    BY <1>1, <1>2, <1>5, SMT
  <2>2. (N * q + (r + 1)) % N = r + 1
    BY <1>1, <2>1, <1>3
  <2>3. QED
    BY <1>1, <1>5, <2>1, <2>2 DEF r
<1>6. QED
  BY <1>4, <1>5

(* The register pointer goes from the place of a byte to that of the next. *)
LEMMA NextPlace ==
  ASSUME NReg \in Nat \ {0}, NEW k, plan[k].reg \in 1 .. NReg, NEW j \in Nat
  PROVE  /\ j = 0 => Place(k, j) = 0 /\ Place(k, j + 1) = plan[k].reg
         /\ j # 0 => Place(k, j) \in 1 .. NReg /\ Place(k, j + 1) = After(Place(k, j))
<1>1. CASE j = 0
  <2>1. \A N \in Nat \ {0} : \A r \in 1 .. N : r + 1 - 2 \in Nat /\ ((r + 1 - 2) % N) + 1 = r
    BY SMT
  <2>2. QED
    BY <1>1, <2>1 DEF Place
<1>2. CASE j # 0
  <2> DEFINE a == plan[k].reg + j - 2
  <2>1. /\ a \in Nat
        /\ plan[k].reg + (j + 1) - 2 = a + 1
    <3> DEFINE r == plan[k].reg
    <3>1. r \in Nat /\ r >= 1
      OBVIOUS
    <3> HIDE DEF r
    <3>2. r + j - 2 \in Nat /\ r + (j + 1) - 2 = (r + j - 2) + 1
      BY <1>2, <3>1
    <3> QED
      BY <3>2 DEF r
  <2> HIDE DEF a
  <2>2. /\ a % NReg \in 0 .. NReg - 1
        /\ (a + 1) % NReg = IF a % NReg = NReg - 1 THEN 0 ELSE (a % NReg) + 1
    BY <2>1, NextRemainder
  <2>3. Place(k, j) = (a % NReg) + 1 /\ Place(k, j + 1) = ((a + 1) % NReg) + 1
    BY <1>2, <2>1 DEF Place, a
  <2>4. QED
    <3> DEFINE b == a % NReg
    <3>1. /\ b \in 0 .. NReg - 1
          /\ Place(k, j) = b + 1
          /\ Place(k, j + 1) = (IF b = NReg - 1 THEN 0 ELSE b + 1) + 1
      BY <2>2, <2>3
    <3> HIDE DEF b
    <3> QED
      BY <1>2, <3>1 DEF After
<1>3. QED
  BY <1>1, <1>2

(* What a memory device starts from.                                       *)
MemoryFacts ==
  /\ Memory /\ Held /\ Streaming /\ Selected /\ OnlyAddressed
  /\ "S" \in Node /\ "M" \in Node /\ "S" # "M"
  /\ pc \in [Node -> MainPc] /\ round \in [Node -> Nat \ {0}]
  /\ flags \in [Node -> SUBSET Flags]
  /\ tx \in [Node -> Seq(Byte)] /\ rx \in [Node -> Seq(Byte)]
  /\ clocked \in Nat
  /\ NReg \in Nat \ {0} /\ store \in [1 .. NReg -> Byte] /\ pointer \in 0 .. NReg
  /\ Len(plan) \in Nat
  /\ \A k \in 1 .. Len(plan) : plan[k].reg \in 1 .. NReg /\ plan[k].M \in Nat
  /\ pc["M"] # "done" => round["M"] \in 1 .. Len(plan)
  /\ ctrl["S"] = {"ACKEN"}

LEMMA MemoryStart ==
  ASSUME ScriptInv, DeviceInv, Memory
  PROVE  MemoryFacts
<1>1. TypeOK /\ ScriptFits /\ ThreadOf("M") /\ NoBoard
  BY DEF ScriptInv, ThreadInv, Node
<1>2. Len(plan) \in Nat \ {0} /\ 1 \in 1 .. Len(plan)
  BY <1>1, ScriptFacts DEF TypeOK, SwTypeOK
<1>3. \A k \in 1 .. Len(plan) : plan[k].reg \in 1 .. NReg /\ plan[k].M \in Nat
  <2> TAKE k \in 1 .. Len(plan)
  <2> QED
    BY <1>1, ModeFacts DEF TypeOK, SwTypeOK
<1>4. NReg \in Nat \ {0}
  BY <1>2, <1>3, NRegAssumption
<1>5. QED
  BY <1>1, <1>2, <1>3, <1>4 DEF MemoryFacts, DeviceInv, ThreadOf, NoBoard, TypeOK, HwTypeOK, SwTypeOK,
                                Node

(* Steps that leave a byte in the device, and one in the master's          *)
(* transmitter, where they are.                                            *)
LEMMA HeldFrame ==
  ASSUME Held, UNCHANGED <<plan, pointer, rx["S"]>>,
         "ADDR7F" \in flags'["S"] => "ADDR7F" \in flags["S"]
  PROVE  Held'
BY DEF Held, Bytes, StreamByte, Place

LEMMA StreamFrame ==
  ASSUME Streaming, UNCHANGED <<plan, pointer, rx["S"], sel, clocked, round["M"], tx["M"]>>,
         "ADDR7F" \in flags'["S"] <=> "ADDR7F" \in flags["S"],
         MoreToCome' => MoreToCome /\ pc'["M"] # "done"
  PROVE  Streaming'
<1>1. \A k, j : /\ StreamByte(k, j)' = StreamByte(k, j) /\ Place(k, j)' = Place(k, j)
                /\ Bytes(k)' = Bytes(k)
  BY DEF StreamByte, Place, Bytes
<1>2. CASE MoreToCome'
  <2>1. /\ sel
        /\ \A i \in 1 .. Len(tx["M"]) :
             /\ tx["M"][i] = StreamByte(round["M"], clocked + i - 1)
             /\ clocked + i - 1 \in Bytes(round["M"])
        /\ IF "ADDR7F" \in flags["S"]
             THEN clocked = 0
             ELSE IF rx["S"] = <<>> THEN pointer = Place(round["M"], clocked)
                  ELSE /\ clocked > 0
                       /\ Head(rx["S"]) = StreamByte(round["M"], clocked - 1)
                       /\ pointer = Place(round["M"], clocked - 1)
    BY <1>2 DEF Streaming
  <2>2. QED
    BY <1>1, <1>2, <2>1 DEF Streaming, StreamByte, Place, Bytes
<1>3. CASE ~MoreToCome'
  BY <1>3 DEF Streaming
<1>4. QED
  BY <1>2, <1>3

LEMMA AddressedFrame ==
  ASSUME OnlyAddressed, UNCHANGED <<store, plan>>
  PROVE  OnlyAddressed'
BY DEF OnlyAddressed, Window

(* The application's steps of the master, and its waits.                   *)
LEMMA CommonDevice ==
  ASSUME ScriptInv, FrameInv, MemoryFacts,
         StartCall("M") \/ NextRound("M") \/ TryAgain("M") \/ GiveUp("M") \/ Wait("M")
  PROVE  Held' /\ Streaming' /\ Selected' /\ OnlyAddressed'
<1>1. /\ UNCHANGED <<plan, device>> /\ SameRegisters("S")
  <2>1. TypeOK /\ "S" \in Node \ {"M"} /\ "M" \in Node
    BY DEF ScriptInv, Node
  <2>2. QED
    BY <2>1, CommonLocal
<1>2. Held' /\ OnlyAddressed'
  BY <1>1, HeldFrame, AddressedFrame DEF MemoryFacts, SameRegisters, device
<1>3. CASE NextRound("M")
  <2>1. pc["M"] = "returned" /\ ret["M"] = "OK" /\ pc'["M"] \notin {"addr7", "tdbe_reg", "tdbe"}
        /\ UNCHANGED hwVars
    BY <1>3 DEF NextRound, Goto, MemoryFacts
  <2>2. tx["M"] = <<>>
    BY <2>1 DEF FrameInv, MasterInv, AfterSuccess
  <2>3. ~MoreToCome'
    BY <2>1, <2>2 DEF MoreToCome, hwVars
  <2>4. QED
    BY <1>2, <2>1, <2>3 DEF Streaming, Selected, MemoryFacts, hwVars
<1>4. CASE TryAgain("M") /\ env.reset
  <2>1. i2c_reset("M")
    BY <1>4 DEF TryAgain
  <2>2. phase' = "free" /\ (sel' <=> sel) /\ dir' = dir
    BY <2>1 DEF i2c_reset
  <2>3. QED
    BY <1>1, <1>2, <2>2 DEF Streaming, MoreToCome, Selected, MemoryFacts, SameRegisters
<1>5. CASE StartCall("M") \/ GiveUp("M") \/ Wait("M") \/ (TryAgain("M") /\ ~env.reset)
  <2>1. /\ UNCHANGED <<phase, dir, sel, clocked, round, tx>>
        /\ \/ pc'["M"] = pc["M"]
           \/ pc'["M"] \notin {"addr7", "tdbe_reg", "tdbe", "done"}
    <3>1. CASE StartCall("M") \/ GiveUp("M") \/ (TryAgain("M") /\ ~env.reset)
      BY <3>1 DEF StartCall, GiveUp, TryAgain, FirstWait, Goto, Stay, hwVars, app, MemoryFacts
    <3>2. CASE Wait("M")
      BY <3>2 DEF Wait, LookAgain, NoEvent, WaitAckFail, WaitStop, WaitTimeout, CleanUp, Goto, Return,
                  Stay, hwVars, busVars, app, MemoryFacts
    <3>3. QED
      BY <1>5, <3>1, <3>2
  <2>2. MoreToCome' => MoreToCome
    BY <2>1 DEF MoreToCome
  <2>3. MoreToCome' => pc'["M"] # "done"
    BY <2>1, <2>2 DEF MemoryFacts, Streaming
  <2>4. Streaming'
    BY <1>1, <2>1, <2>2, <2>3, StreamFrame DEF MemoryFacts, SameRegisters, device
  <2>5. Selected'
    BY <1>1, <2>1 DEF MemoryFacts, Selected, SameRegisters
  <2>6. QED
    BY <1>2, <2>4, <2>5
<1>6. QED
  BY <1>3, <1>4, <1>5

(* The master's call: the register number and the data go to the           *)
(* transmitter in the order in which the device will take them.            *)
LEMMA MasterDevice ==
  ASSUME ScriptInv, FrameInv, MemoryFacts, Master
  PROVE  Held' /\ Streaming' /\ Selected' /\ OnlyAddressed'
<1> USE DEF Goto, Return, SetCtrl, ClearFlags, Stay
<1>1. /\ UNCHANGED <<plan, device, env>> /\ SameRegisters("S")
      /\ UNCHANGED <<round, sel, clocked>>
  <2>1. TypeOK /\ "S" \in Node \ {"M"} /\ "M" \in Node
    BY DEF ScriptInv, Node
  <2>2. UNCHANGED <<plan, device, env>> /\ SameRegisters("S")
    BY <2>1, MainLocal DEF Main
  <2>3. UNCHANGED <<round, sel, clocked>>
    BY DEF Master, GenerateStart, SendAddress, ClearAddrToWrite, SendRegister, GenerateRestart,
           SendData, StopWrite, ClearAddrToRead, Ev6Stop, Ev6Ack, ReadByte, ReadThirdLast,
           ReadLastTwo, busVars, app, i2c_7bit_address_send
  <2>4. QED
    BY <2>2, <2>3
<1>2. Held' /\ OnlyAddressed'
  BY <1>1, HeldFrame, AddressedFrame DEF MemoryFacts, SameRegisters, device
<1>3. MasterFacts
  BY MasterStart
<1>4. ASSUME UNCHANGED <<phase, dir, tx>>,
             pc["M"] # "done" /\ pc'["M"] # "done",
             \/ pc'["M"] \notin {"addr7", "tdbe_reg", "tdbe"}
             \/ pc["M"] \in {"addr7", "tdbe_reg", "tdbe"}
      PROVE  Streaming' /\ Selected'
  <2>1. MoreToCome' => MoreToCome
    BY <1>4 DEF MoreToCome
  <2>2. Streaming'
    BY <1>1, <1>4, <2>1, StreamFrame DEF MemoryFacts, SameRegisters, device
  <2>3. Selected'
    BY <1>1, <1>4 DEF MemoryFacts, Selected, SameRegisters
  <2>4. QED
    BY <2>2, <2>3
<1>5. CASE GenerateStart
  BY <1>2, <1>4, <1>5 DEF MemoryFacts, GenerateStart, Came, busVars
<1>6. CASE SendAddress
  <2>1. phase = "start" /\ phase' = "addr"
    BY <1>3, <1>6 DEF SendAddress, Came, FlagCame, MasterFacts, FlagInv, i2c_7bit_address_send
  <2>2. QED
    BY <1>1, <1>2, <2>1 DEF Streaming, MoreToCome, Selected, MemoryFacts
<1>7. CASE ClearAddrToWrite
  BY <1>2, <1>4, <1>7 DEF MemoryFacts, ClearAddrToWrite, Came, busVars
<1>8. CASE SendRegister
  <2>1. /\ pc["M"] = "tdbe_reg" /\ pc'["M"] \in {"tdbe_restart", "tdbe"}
        /\ tx'["M"] = Append(tx["M"], <<0, plan[round["M"]].reg>>)
        /\ UNCHANGED <<phase, dir, flags, rx>>
    BY <1>3, <1>8 DEF SendRegister, Came, MasterFacts, i2c_data_send, busVars, MyRound
  <2>2. phase = "data" /\ dir = "write" /\ tx["M"] = <<>> /\ clocked = 0
    BY <1>3, <2>1 DEF MasterFacts, MasterInv, AddressInv, Bytes0
  <2>3. MoreToCome
    BY <2>1, <2>2 DEF MoreToCome
  <2>4. /\ sel
        /\ IF "ADDR7F" \in flags["S"]
             THEN clocked = 0
             ELSE rx["S"] = <<>> /\ pointer = Place(round["M"], clocked)
    BY <2>2, <2>3 DEF MemoryFacts, Streaming
  <2>5. /\ Len(tx'["M"]) = 1
        /\ tx'["M"][1] = <<0, plan[round["M"]].reg>>
    BY <2>1, <2>2
  <2>6. \A i \in 1 .. Len(tx'["M"]) :
          /\ tx'["M"][i] = StreamByte(round["M"], clocked + i - 1)
          /\ clocked + i - 1 \in Bytes(round["M"])
    <3>1. \A i \in 1 .. 1 : i = 1 /\ 0 + i - 1 = 0
      OBVIOUS
    <3>2. 0 \in Bytes(round["M"])
      <4>1. plan[round["M"]].M \in Nat
        BY <2>1 DEF MemoryFacts
      <4>2. QED
        BY <4>1 DEF Bytes
    <3>3. QED
      BY <2>2, <2>5, <3>1, <3>2 DEF StreamByte
  <2>7. Streaming'
    BY <1>1, <2>1, <2>4, <2>6 DEF Streaming, StreamByte, Place, Bytes, device
  <2>8. Selected'
    BY <1>1, <2>1 DEF MemoryFacts, Selected
  <2>9. QED
    BY <1>2, <2>7, <2>8
<1>9. CASE GenerateRestart
  BY <1>2, <1>4, <1>9 DEF MemoryFacts, GenerateRestart, Came, busVars
<1>10. CASE SendData("M", "tdc")
  <2> DEFINE j == Size("M") - left["M"] + 1
             m == Len(tx["M"])
  <2>1. /\ pc["M"] = "tdbe" /\ pc'["M"] \in {"tdc", "tdbe"} /\ Transmitting("M")
        /\ tx'["M"] = Append(tx["M"], <<round["M"], j>>)
        /\ UNCHANGED <<phase, dir, flags, rx>>
    BY <1>3, <1>10 DEF SendData, Came, FlagCame, TDBE, MasterFacts, i2c_data_send, busVars
  <2>2. phase = "data" /\ dir = "write"
    BY <1>3, <2>1 DEF MasterFacts, MasterInv, Written, Transmitting
  <2>3. MoreToCome
    BY <2>1, <2>2 DEF MoreToCome
  <2>4. /\ sel
        /\ \A i \in 1 .. m :
             /\ tx["M"][i] = StreamByte(round["M"], clocked + i - 1)
             /\ clocked + i - 1 \in Bytes(round["M"])
        /\ IF "ADDR7F" \in flags["S"]
             THEN clocked = 0
             ELSE IF rx["S"] = <<>> THEN pointer = Place(round["M"], clocked)
                  ELSE /\ clocked > 0
                       /\ Head(rx["S"]) = StreamByte(round["M"], clocked - 1)
                       /\ pointer = Place(round["M"], clocked - 1)
    BY <2>3 DEF MemoryFacts, Streaming
  <2>5. tx["M"] \in Seq(Byte) /\ m \in Nat
    <3>1. tx["M"] \in Seq(Byte)
      BY DEF MemoryFacts
    <3>2. QED
      BY <3>1
  <2>6. /\ Size("M") \in Nat \ {0} /\ left["M"] \in 1 .. Size("M") /\ ~Reads("M")
        /\ clocked \in Nat /\ clocked + m = Size("M") - left["M"] + 1
    BY <1>3, <2>1, <2>2 DEF MasterFacts, MasterInv, MasterCount, Written, MemoryFacts
  <2>7. plan[round["M"]].op = "mem_write" /\ Size("M") = plan[round["M"]].M
    BY <1>3, <2>1, <2>6 DEF MasterFacts, MemoryFacts, MyRound, Size
  <2>8. j \in 1 .. Size("M") /\ clocked + (m + 1) - 1 = j
    <3> DEFINE s == Size("M")
               l == left["M"]
    <3>1. s \in Nat \ {0} /\ l \in 1 .. s /\ clocked \in Nat /\ m \in Nat /\ clocked + m = s - l + 1
      BY <2>5, <2>6
    <3>2. j = s - l + 1
      OBVIOUS
    <3> HIDE DEF s, l, m, j
    <3>3. j \in 1 .. s /\ clocked + (m + 1) - 1 = j
      BY ONLY <3>1, <3>2
    <3> QED
      BY <3>3 DEF s
  <2>9. StreamByte(round["M"], j) = <<round["M"], j>> /\ j \in Bytes(round["M"])
    BY <2>6, <2>7, <2>8 DEF StreamByte, Bytes
  <2>10. /\ Len(tx'["M"]) = m + 1
         /\ \A i \in 1 .. m : tx'["M"][i] = tx["M"][i]
         /\ tx'["M"][m + 1] = <<round["M"], j>>
    BY <2>1, <2>5
  <2>11. \A i \in 1 .. Len(tx'["M"]) :
          /\ tx'["M"][i] = StreamByte(round["M"], clocked + i - 1)
          /\ clocked + i - 1 \in Bytes(round["M"])
    <3> HIDE DEF j, m
    <3> TAKE i \in 1 .. Len(tx'["M"])
    <3>1. i \in 1 .. m \/ i = m + 1
      BY <2>5, <2>10
    <3>2. CASE i \in 1 .. m
      BY <2>4, <2>10, <3>2
    <3>3. CASE i = m + 1
      BY <2>8, <2>9, <2>10, <3>3
    <3>4. QED
      BY <3>1, <3>2, <3>3
  <2>12. Streaming'
    BY <1>1, <2>1, <2>4, <2>11 DEF Streaming, StreamByte, Place, Bytes, device
  <2>13. Selected'
    BY <1>1, <2>1 DEF MemoryFacts, Selected
  <2>14. QED
    BY <1>2, <2>12, <2>13
<1>11. CASE StopWrite
  BY <1>2, <1>4, <1>11 DEF MemoryFacts, StopWrite, Came, busVars
<1>12. CASE ClearAddrToRead \/ Ev6Stop \/ Ev6Ack \/ ReadByte \/ ReadThirdLast \/ ReadLastTwo
  <2>1. /\ UNCHANGED <<phase, dir, tx>> /\ pc["M"] # "done"
        /\ pc'["M"] \in {"ev6stop", "ev6ack", "rdbf", "rtdc", "returned"}
    BY <1>12 DEF MemoryFacts, ClearAddrToRead, Ev6Stop, Ev6Ack, ReadByte, ReadThirdLast, ReadLastTwo,
                 ReadWait, Came, busVars
  <2>2. QED
    BY <1>2, <1>4, <2>1
<1>13. QED
  BY <1>2, <1>5, <1>6, <1>7, <1>8, <1>9, <1>10, <1>11, <1>12 DEF Master

(* The bus brings the device its next byte, and to the right place.        *)
LEMMA WriteByteDevice ==
  ASSUME MemoryFacts, DeviceReady, FlagInv, NEW lost \in BOOLEAN, HwWriteByte(lost),
         UNCHANGED <<pc, round, plan, device>>
  PROVE  Held' /\ Streaming' /\ Selected' /\ OnlyAddressed'
<1> DEFINE k == round["M"]
           m == Len(tx["M"])
<1>1. /\ phase = "data" /\ dir = "write" /\ tx["M"] # <<>>
      /\ UNCHANGED <<dir, sel>> /\ clocked' = clocked + 1
      /\ flags'["S"] = flags["S"]
  BY DEF HwWriteByte, MemoryFacts
<1>2. "ADDR7F" \notin flags["S"] /\ rx["S"] = <<>>
  BY DEF MemoryFacts, DeviceReady, RDBF
<1>3. /\ sel /\ k \in 1 .. Len(plan)
      /\ \A i \in 1 .. m : tx["M"][i] = StreamByte(k, clocked + i - 1) /\ clocked + i - 1 \in Bytes(k)
      /\ pointer = Place(k, clocked)
  <2>1. MoreToCome
    BY <1>1 DEF MoreToCome
  <2>2. QED
    BY <1>2, <2>1 DEF MemoryFacts, Streaming
<1>4. tx["M"] \in Seq(Byte) /\ m \in Nat /\ m >= 1 /\ Head(tx["M"]) = tx["M"][1]
  <2>1. tx["M"] \in Seq(Byte)
    BY DEF MemoryFacts
  <2>2. m \in Nat /\ m # 0
    BY <1>1, <2>1, EmptySeq
  <2>3. m >= 1
    <3> HIDE DEF m
    <3> QED
      BY <2>2
  <2>4. QED
    BY <2>1, <2>2, <2>3, <1>1, HeadTailProperties
<1>5. Head(tx["M"]) = StreamByte(k, clocked) /\ clocked \in Bytes(k) /\ clocked \in Nat
  <2>1. 1 \in 1 .. m
    BY <1>4
  <2>2. clocked \in Nat /\ clocked + 1 - 1 = clocked
    BY DEF MemoryFacts
  <2>3. QED
    BY <1>3, <1>4, <2>1, <2>2
<1>6. Len(rx'["S"]) = 1 /\ rx'["S"] # <<>> /\ Head(rx'["S"]) = StreamByte(k, clocked)
  <2>1. rx'["S"] = Append(<<>>, Head(tx["M"]))
    BY <1>2, <1>3 DEF HwWriteByte, MemoryFacts
  <2>2. rx'["S"] = <<Head(tx["M"])>>
    BY <2>1
  <2>3. QED
    BY <1>5, <2>2
<1>7. Held'
  <2>1. \E j \in Bytes(k)' : Head(rx'["S"]) = StreamByte(k, j)' /\ pointer' = Place(k, j)'
    BY <1>3, <1>5, <1>6 DEF Bytes, StreamByte, Place, device
  <2>2. k \in 1 .. Len(plan') /\ Len(rx'["S"]) <= 1 /\ "ADDR7F" \notin flags'["S"]
    BY <1>1, <1>2, <1>3, <1>6
  <2>3. \E kk \in 1 .. Len(plan') : \E j \in Bytes(kk)' :
          Head(rx'["S"]) = StreamByte(kk, j)' /\ pointer' = Place(kk, j)'
    BY <2>1, <2>2
  <2>4. QED
    BY <2>2, <2>3 DEF Held
<1>8. OnlyAddressed'
  BY AddressedFrame DEF MemoryFacts, device
<1>9. Selected'
  BY <1>1 DEF Selected, HwWriteByte
<1>10. Streaming'
  <2>1. CASE phase' = "closing"
    BY <2>1 DEF Streaming, MoreToCome
  <2>2. CASE phase' # "closing"
    <3>1. tx'["M"] = Tail(tx["M"])
      BY <1>1, <2>2 DEF HwWriteByte, MemoryFacts
    <3>2. /\ Len(tx'["M"]) = m - 1
          /\ \A i \in 1 .. m - 1 : tx'["M"][i] = tx["M"][i + 1]
      BY <1>1, <1>4, <3>1, HeadTailProperties
    <3>3. \A i \in 1 .. Len(tx'["M"]) :
            /\ tx'["M"][i] = StreamByte(k, clocked' + i - 1)
            /\ clocked' + i - 1 \in Bytes(k)
      <4> TAKE i \in 1 .. Len(tx'["M"])
      <4> HIDE DEF m, k
      <4>1. i + 1 \in 1 .. m /\ i \in 1 .. m - 1
        BY <1>4, <3>2
      <4>2. clocked + (i + 1) - 1 = clocked' + i - 1
        BY <1>1, <1>5, <4>1
      <4>3. QED
        BY <1>3, <3>2, <4>1, <4>2
    <3>4. clocked' - 1 = clocked /\ clocked' > 0
      BY <1>1, <1>5
    <3>5. pc'["M"] # "done"
      <4>1. MoreToCome
        BY <1>1 DEF MoreToCome
      <4>2. QED
        BY <4>1 DEF MemoryFacts, Streaming
    <3>6. QED
      BY <1>1, <1>2, <1>3, <1>6, <3>3, <3>4, <3>5 DEF Streaming, StreamByte, Place, Bytes, device
  <2>3. QED
    BY <2>1, <2>2
<1>11. QED
  BY <1>7, <1>8, <1>9, <1>10

LEMMA BusDevice ==
  ASSUME MemoryFacts, FlagInv, Bus \/ Fault
  PROVE  Held' /\ Streaming' /\ Selected' /\ OnlyAddressed'
<1>1. /\ UNCHANGED <<pc, round, plan, device>> /\ DeviceReady
  BY DEF Bus, Fault, Quiet, app
<1>2. OnlyAddressed'
  BY <1>1, AddressedFrame DEF MemoryFacts, device
<1>3. CASE HwWriteByte(TRUE) \/ HwWriteByte(FALSE)
  <2>1. TRUE \in BOOLEAN /\ FALSE \in BOOLEAN
    OBVIOUS
  <2>2. CASE HwWriteByte(TRUE)
    BY <1>1, <2>1, <2>2, WriteByteDevice
  <2>3. CASE HwWriteByte(FALSE)
    BY <1>1, <2>1, <2>3, WriteByteDevice
  <2>4. QED
    BY <1>3, <2>2, <2>3
<1>4. CASE HwAddrAck
  <2>1. "ADDR7F" \notin flags["S"] /\ rx["S"] = <<>>
    BY <1>1 DEF MemoryFacts, DeviceReady, RDBF
  <2>2. /\ rx'["S"] = <<>> /\ tx'["M"] = <<>> /\ sel' /\ clocked' = 0 /\ "ADDR7F" \in flags'["S"]
        /\ phase' = "data" /\ phase = "addr" /\ dir' = dir
    BY <1>4, <2>1 DEF HwAddrAck, MemoryFacts
  <2>3. Held' /\ Selected'
    BY <2>2 DEF Held, Selected
  <2>4. MoreToCome' => pc'["M"] # "done"
    BY <2>2 DEF MoreToCome
  <2>5. \A i \in 1 .. Len(tx'["M"]) : FALSE
    BY <2>2
  <2>6. Streaming'
    BY <2>2, <2>4, <2>5 DEF Streaming
  <2>7. QED
    BY <1>2, <2>3, <2>6
<1>5. CASE HwStart \/ HwRestart \/ HwAddrNack \/ HwReadByte \/ HwOverrunByte \/ HwStop \/ HwSlaveRelease
  <2>1. /\ rx'["S"] = rx["S"]
        /\ "ADDR7F" \in flags'["S"] => "ADDR7F" \in flags["S"]
    <3>1. CASE HwStart \/ HwRestart \/ HwAddrNack \/ HwOverrunByte \/ HwSlaveRelease
      BY <3>1 DEF HwStart, HwRestart, HwAddrNack, HwOverrunByte, HwSlaveRelease, MemoryFacts
    <3>2. CASE HwReadByte
      <4>1. flags'["S"] \in {flags["S"], flags["S"] \cup {"ACKFAIL"}}
        BY <3>2 DEF HwReadByte, HwReadByteAck, MemoryFacts
      <4>2. rx'["S"] = rx["S"]
        BY <3>2 DEF HwReadByte, HwReadByteAck, MemoryFacts
      <4>3. QED
        BY <4>1, <4>2
    <3>3. CASE HwStop
      <4>1. rx'["S"] = rx["S"]
        BY <3>3 DEF HwStop
      <4>2. flags'["S"] \subseteq flags["S"] \cup {"STOPF"}
        BY <3>3 DEF HwStop, MemoryFacts
      <4>3. QED
        BY <4>1, <4>2
    <3>4. QED
      BY <1>5, <3>1, <3>2, <3>3
  <2>2. Held'
    BY <1>1, <2>1, HeldFrame DEF MemoryFacts, device
  <2>3. ~HwSlaveRelease
    BY DEF HwSlaveRelease, MemoryFacts
  <2>4. ~(phase' = "data" /\ dir' = "write")
    BY <1>5, <2>3 DEF HwStart, HwRestart, HwAddrNack, HwReadByte, HwReadByteAck, HwOverrunByte, HwStop
  <2>5. Streaming'
    BY <2>4 DEF Streaming, MoreToCome
  <2>6. /\ sel' => sel
        /\ dir' = dir
        /\ phase' = "start" => ~sel'
    <3>1. CASE HwStart \/ HwRestart \/ HwStop
      BY <3>1 DEF HwStart, HwRestart, HwStop
    <3>2. CASE HwAddrNack \/ HwOverrunByte
      BY <3>2 DEF HwAddrNack, HwOverrunByte
    <3>3. CASE HwReadByte
      <4>1. phase' # "start" /\ dir' = dir
        BY <3>3 DEF HwReadByte, HwReadByteAck
      <4>2. sel' => sel
        BY <3>3, Zenon DEF HwReadByte, HwReadByteAck
      <4>3. QED
        BY <4>1, <4>2
    <3>4. QED
      BY <1>5, <2>3, <3>1, <3>2, <3>3
  <2>7. Selected'
    BY <2>1, <2>6 DEF MemoryFacts, Selected
  <2>8. QED
    BY <1>2, <2>2, <2>5, <2>7
<1>6. QED
  BY <1>3, <1>4, <1>5 DEF Bus, Fault

(* The device stores a byte where the call meant it to be, and its pointer *)
(* goes on to the place of the next one.                                   *)
LEMMA TakenPlace ==
  ASSUME MemoryFacts, DeviceTakes, NEW k \in 1 .. Len(plan), NEW j \in Nat,
         Head(rx["S"]) = StreamByte(k, j), pointer = Place(k, j)
  PROVE  /\ pointer' = Place(k, j + 1)
         /\ IF j = 0 THEN store' = store
                     ELSE pointer \in 1 .. NReg /\ store' = [store EXCEPT ![pointer] = <<k, j>>]
<1>1. plan[k].reg \in 1 .. NReg /\ NReg \in Nat \ {0}
  BY DEF MemoryFacts
<1>2. /\ j = 0 => Place(k, j) = 0 /\ Place(k, j + 1) = plan[k].reg
      /\ j # 0 => Place(k, j) \in 1 .. NReg /\ Place(k, j + 1) = After(Place(k, j))
  BY <1>1, NextPlace
<1>3. CASE j = 0
  <2>1. pointer = 0 /\ Head(rx["S"])[2] = plan[k].reg
    BY <1>2, <1>3 DEF StreamByte
  <2>2. pointer' = Head(rx["S"])[2] /\ store' = store
    BY <1>1, <2>1 DEF DeviceTakes
  <2>3. QED
    BY <1>2, <1>3, <2>1, <2>2
<1>4. CASE j # 0
  <2>1. pointer \in 1 .. NReg /\ pointer # 0 /\ Head(rx["S"]) = <<k, j>>
    BY <1>1, <1>2, <1>4 DEF StreamByte
  <2>2. pointer' = After(pointer) /\ store' = [store EXCEPT ![pointer] = <<k, j>>]
    BY <2>1 DEF DeviceTakes
  <2>3. QED
    BY <1>2, <1>4, <2>1, <2>2
<1>5. QED
  BY <1>3, <1>4

LEMMA TakesDevice ==
  ASSUME MemoryFacts, DeviceTakes, UNCHANGED <<pc, round, plan, busVars>>
  PROVE  Held' /\ Streaming' /\ Selected' /\ OnlyAddressed'
<1>1. /\ Len(rx["S"]) <= 1 /\ rx["S"] # <<>> /\ "ADDR7F" \notin flags["S"]
      /\ \E k \in 1 .. Len(plan) : \E j \in Bytes(k) :
           Head(rx["S"]) = StreamByte(k, j) /\ pointer = Place(k, j)
  BY DEF MemoryFacts, Held, DeviceTakes, RDBF
<1>2. PICK k \in 1 .. Len(plan) : \E j \in Bytes(k) :
        Head(rx["S"]) = StreamByte(k, j) /\ pointer = Place(k, j)
  BY <1>1
<1>3. PICK j \in Bytes(k) : Head(rx["S"]) = StreamByte(k, j) /\ pointer = Place(k, j)
  BY <1>2
<1>4. /\ plan[k].M \in Nat /\ j \in Nat
      /\ j # 0 => plan[k].op = "mem_write" /\ j \in 1 .. plan[k].M
  <2>1. plan[k].M \in Nat
    BY DEF MemoryFacts
  <2>2. QED
    BY <1>3, <2>1 DEF Bytes
<1>5. rx'["S"] = <<>> /\ UNCHANGED <<flags, tx>>
  <2>1. rx["S"] \in Seq(Byte) /\ rx'["S"] = SubSeq(rx["S"], 2, Len(rx["S"]))
    BY DEF MemoryFacts, DeviceTakes, i2c_data_receive
  <2>2. Len(rx["S"]) = 1
    <3>1. Len(rx["S"]) \in Nat /\ Len(rx["S"]) # 0
      BY <1>1, <2>1, EmptySeq
    <3>2. \A l \in Nat : l # 0 /\ l <= 1 => l = 1
      OBVIOUS
    <3>3. QED
      BY <1>1, <3>1, <3>2
  <2>3. 1 \in Nat /\ 1 <= Len(rx["S"])
    BY <2>2
  <2>4. Len(rx["S"]) = 1 => SubSeq(rx["S"], 1 + 1, Len(rx["S"])) = <<>>
    BY <2>1, <2>3, RestLength
  <2>5. QED
    BY <2>1, <2>2, <2>4 DEF DeviceTakes
<1>6. Held' /\ Selected'
  <2>1. Len(rx'["S"]) <= 1
    BY <1>5
  <2>2. UNCHANGED <<phase, dir, sel>>
    BY DEF busVars
  <2>3. QED
    BY <1>5, <2>1, <2>2 DEF MemoryFacts, Held, Selected
<1>7. IF j = 0 THEN store' = store
               ELSE pointer \in 1 .. NReg /\ store' = [store EXCEPT ![pointer] = <<k, j>>]
  BY <1>3, <1>4, TakenPlace
<1>8. OnlyAddressed'
  <2>1. CASE j = 0
    BY <1>7, <2>1, AddressedFrame DEF MemoryFacts
  <2>2. CASE j # 0
    <3>1. /\ plan[k].op = "mem_write" /\ j \in DOMAIN Window(k)
          /\ Window(k)[j] = pointer
      BY <1>3, <1>4, <2>2 DEF Window, Place
    <3>2. ASSUME NEW r \in 1 .. NReg
          PROVE  \/ store'[r] = <<0, NReg + r>>
                 \/ \E kk \in 1 .. Len(plan) :
                      /\ plan[kk].op = "mem_write"
                      /\ \E i \in DOMAIN Window(kk) : Window(kk)[i] = r /\ store'[r] = <<kk, i>>
      <4>1. CASE r = pointer
        <5>1. store'[r] = <<k, j>>
          BY <1>7, <2>2, <4>1 DEF MemoryFacts
        <5>2. QED
          BY <3>1, <4>1, <5>1
      <4>2. CASE r # pointer
        <5>1. store'[r] = store[r]
          BY <1>7, <2>2, <4>2 DEF MemoryFacts
        <5>2. QED
          BY <5>1, SMTT(30) DEF MemoryFacts, OnlyAddressed
      <4>3. QED
        BY <4>1, <4>2
    <3>3. \A kk : Window(kk)' = Window(kk)
      BY DEF Window
    <3>4. QED
      BY <3>2, <3>3 DEF OnlyAddressed
  <2>3. QED
    BY <2>1, <2>2
<1>9. Streaming'
  <2>1. CASE MoreToCome
    <3> DEFINE c == clocked - 1
    <3>1. /\ sel /\ pc["M"] # "done" /\ round["M"] \in 1 .. Len(plan)
          /\ \A i \in 1 .. Len(tx["M"]) :
               /\ tx["M"][i] = StreamByte(round["M"], clocked + i - 1)
               /\ clocked + i - 1 \in Bytes(round["M"])
          /\ clocked > 0
          /\ Head(rx["S"]) = StreamByte(round["M"], c)
          /\ pointer = Place(round["M"], c)
      BY <1>1, <2>1 DEF MemoryFacts, Streaming
    <3>2. c \in Nat /\ c + 1 = clocked
      BY <3>1 DEF MemoryFacts
    <3>3. pointer' = Place(round["M"], c + 1)
      BY <3>1, <3>2, TakenPlace
    <3> HIDE DEF c
    <3>4. pointer' = Place(round["M"], clocked)
      BY <3>2, <3>3
    <3>5. QED
      BY <1>1, <1>5, <3>1, <3>4 DEF Streaming, StreamByte, Place, Bytes, busVars
  <2>2. CASE ~MoreToCome
    BY <1>5, <2>2 DEF Streaming, MoreToCome, busVars
  <2>3. QED
    BY <2>1, <2>2
<1>10. QED
  BY <1>6, <1>8, <1>9

LEMMA DeviceDevice ==
  ASSUME MemoryFacts, Device
  PROVE  Held' /\ Streaming' /\ Selected' /\ OnlyAddressed'
<1>1. UNCHANGED <<pc, round, plan, busVars>>
  BY DEF Device, app
<1>2. CASE DeviceTakes
  BY <1>1, <1>2, TakesDevice
<1>3. CASE DeviceAddressed
  <2>1. /\ "ADDR7F" \in flags["S"] /\ "ADDR7F" \notin flags'["S"] /\ UNCHANGED <<tx, rx, store>>
        /\ dir = "write" => pointer' = 0
    BY <1>3 DEF DeviceAddressed, ClearFlags, MemoryFacts
  <2>2. rx["S"] = <<>>
    BY <2>1 DEF MemoryFacts, Held
  <2>3. Held' /\ Selected'
    <3>1. UNCHANGED <<phase, dir, sel>>
      BY <1>1 DEF busVars
    <3>2. QED
      BY <2>1, <2>2, <3>1 DEF MemoryFacts, Held, Selected
  <2>4. OnlyAddressed'
    BY <1>1, <2>1, AddressedFrame DEF MemoryFacts
  <2>5. Streaming'
    <3>1. CASE MoreToCome
      <4>1. /\ sel /\ pc["M"] # "done"
            /\ \A i \in 1 .. Len(tx["M"]) :
                 /\ tx["M"][i] = StreamByte(round["M"], clocked + i - 1)
                 /\ clocked + i - 1 \in Bytes(round["M"])
            /\ clocked = 0 /\ dir = "write"
        BY <2>1, <3>1 DEF MemoryFacts, Streaming, MoreToCome
      <4>2. pointer' = 0 /\ Place(round["M"], 0) = 0
        BY <2>1, <4>1 DEF Place
      <4>3. QED
        BY <1>1, <2>1, <2>2, <4>1, <4>2 DEF Streaming, StreamByte, Place, Bytes, busVars
    <3>2. CASE ~MoreToCome
      BY <1>1, <2>1, <3>2 DEF Streaming, MoreToCome, busVars
    <3>3. QED
      BY <3>1, <3>2
  <2>6. QED
    BY <2>3, <2>4, <2>5
<1>4. CASE DeviceGives
  <2>1. sel /\ dir = "read" /\ UNCHANGED <<flags, rx, store>>
    BY <1>4 DEF DeviceGives
  <2>2. rx["S"] = <<>>
    BY <2>1 DEF MemoryFacts, Selected
  <2>3. Held' /\ Selected'
    <3>1. UNCHANGED <<phase, dir, sel>>
      BY <1>1 DEF busVars
    <3>2. QED
      BY <2>1, <2>2, <3>1 DEF MemoryFacts, Held, Selected
  <2>4. Streaming'
    BY <1>1, <2>1 DEF Streaming, MoreToCome, busVars
  <2>5. OnlyAddressed'
    BY <1>1, <2>1, AddressedFrame DEF MemoryFacts
  <2>6. QED
    BY <2>3, <2>4, <2>5
<1>5. QED
  BY <1>2, <1>3, <1>4 DEF Device

(***************************************************************************)
(* The invariant.                                                          *)
(***************************************************************************)

LEMMA InitPoll == ASSUME Init, ScriptFits, Recovers PROVE PollInv
<1>1. <<plan, env>> \in Scenarios
  <2>1. PICK s \in Scenarios : plan = s[1] /\ env = s[2]
    BY DEF Init
  <2>2. s = <<s[1], s[2]>>
    BY ScenariosAssumption
  <2>3. QED
    BY <2>1, <2>2
<1>2. Len(plan) \in Nat \ {0} /\ 1 \in 1 .. Len(plan)
  BY <1>1, ScriptFacts
<1>3. TypeOK
  <2>1. HwTypeOK
    <3>1. /\ \A n \in Node : ctrl[n] \in SUBSET CtrlBits /\ flags[n] \in SUBSET Flags
          /\ ctrl = [n \in Node |-> ctrl[n]] /\ flags = [n \in Node |-> flags[n]]
      BY DEF Init, CtrlBits
    <3>2. ctrl \in [Node -> SUBSET CtrlBits] /\ flags \in [Node -> SUBSET Flags]
      BY <3>1
    <3>3. tx \in [Node -> Seq(Byte)] /\ rx \in [Node -> Seq(Byte)]
      BY DEF Init
    <3>4. ints \in [Node -> SUBSET Interrupts] /\ sel \in BOOLEAN
      BY DEF Init
    <3>5. QED
      BY <3>2, <3>3, <3>4 DEF Init, HwTypeOK
  <2>2. /\ store \in [1 .. NReg -> Byte] /\ pointer \in 0 .. NReg
    BY NRegAssumption DEF Init, Byte
  <2>3. SwTypeOK
    BY <1>1, <2>2 DEF Init, SwTypeOK, MainPc, Waits
  <2>4. QED
    BY <2>1, <2>3 DEF TypeOK
<1>4. ThreadInv /\ CountInv
  <2>1. ThreadOf("M") /\ ThreadOf("S") /\ NoBoard
    BY <1>2, PcFacts DEF Init, ThreadOf, PolledPc, NoBoard, Node
  <2>2. MasterCount /\ SlaveCount
    BY DEF Init, MasterCount, SlaveCount, Node
  <2>3. QED
    BY <2>1, <2>2 DEF ThreadInv, CountInv, Node
<1>5. FrameInv
  <2>1. /\ pc["M"] = "idle" /\ ctrl["M"] = {} /\ flags["M"] = {} /\ tx["M"] = <<>> /\ rx["M"] = <<>>
        /\ phase = "free"
    BY DEF Init, Node
  <2>2. FlagInv /\ StopHasFrame /\ Between
    BY <2>1 DEF FlagInv, StopHasFrame, Between, Leftover
  <2>3. QED
    BY <2>1, <2>2 DEF FrameInv, MasterInv, AddressInv
<1>6. DeviceInv
  <2>1. /\ rx["S"] = <<>> /\ phase = "free" /\ sel = FALSE
        /\ \A r \in 1 .. NReg : store[r] = <<0, NReg + r>>
    BY DEF Init, Node
  <2>2. Held
    BY <2>1 DEF Held
  <2>3. QED
    BY <2>1, <2>2 DEF DeviceInv, Streaming, MoreToCome, Selected, OnlyAddressed
<1>7. QED
  BY <1>3, <1>4, <1>5, <1>6 DEF PollInv, ScriptInv

LEMMA DeviceStep ==
  ASSUME ScriptInv, FrameInv, DeviceInv, [Next]_vars
  PROVE  DeviceInv'
<1>1. /\ TypeOK /\ FlagInv /\ OnlyAddressed
      /\ UNCHANGED plan /\ (Device \/ UNCHANGED store)
  <2>1. TypeOK /\ FlagInv /\ OnlyAddressed
    BY DEF ScriptInv, FrameInv, DeviceInv
  <2>2. CASE \E n \in Node : Main(n)
    <3>1. PICK n \in Node : Main(n)
      BY <2>2
    <3>2. PICK m \in Node : m # n
      BY DEF Node
    <3>3. m \in Node \ {n}
      BY <3>2
    <3>4. QED
      BY <2>1, <3>1, <3>3, MainLocal DEF device
  <2>3. CASE ~\E n \in Node : Main(n)
    BY <2>1, <2>3 DEF Next, Device, Bus, Fault, Quiet, app, device, vars
  <2>4. QED
    BY <2>2, <2>3
<1>2. Memory' <=> Memory
  BY <1>1 DEF Memory
<1>3. ASSUME Memory PROVE Held' /\ Streaming' /\ Selected' /\ OnlyAddressed'
  <2>1. MemoryFacts
    BY <1>3, MemoryStart
  <2>2. CASE Main("M")
    BY <2>1, <2>2, CommonDevice, MasterDevice DEF Main
  <2>3. CASE Main("S")
    <3>1. pc["S"] # "done"
      BY <2>3, NotDone DEF ScriptInv, Node
    <3>2. QED
      BY <1>3, <3>1 DEF ScriptInv, ThreadInv, NoBoard
  <2>4. CASE Device
    BY <2>1, <2>4, DeviceDevice
  <2>5. CASE Bus \/ Fault
    BY <1>1, <2>1, <2>5, BusDevice
  <2>6. CASE UNCHANGED vars
    <3>1. UNCHANGED <<plan, pointer, store, rx, flags, phase, dir, sel, clocked, round, tx, pc>>
      BY <2>6 DEF vars, hwVars, device, app
    <3>2. Held' /\ OnlyAddressed'
      BY <2>1, <3>1, HeldFrame, AddressedFrame DEF MemoryFacts
    <3>3. MoreToCome' => MoreToCome /\ pc'["M"] # "done"
      BY <2>1, <3>1 DEF MoreToCome, MemoryFacts, Streaming
    <3>4. Streaming'
      BY <2>1, <3>1, <3>3, StreamFrame DEF MemoryFacts
    <3>5. Selected'
      BY <2>1, <3>1 DEF MemoryFacts, Selected
    <3>6. QED
      BY <3>2, <3>4, <3>5
  <2>7. QED
    BY <2>2, <2>3, <2>4, <2>5, <2>6 DEF Next, Node
<1>4. ASSUME ~Memory PROVE OnlyAddressed'
  BY <1>1, <1>4, AddressedFrame DEF Device
<1>5. QED
  BY <1>2, <1>3, <1>4 DEF DeviceInv

LEMMA ScriptStep ==
  ASSUME ScriptInv, [Next]_vars
  PROVE  ScriptInv'
<1>1. CASE \E n \in Node : Main(n)
  BY <1>1, MainScript
<1>2. CASE Device \/ Bus \/ Fault
  BY <1>2, DeviceTypes, BusTypes, OtherScript DEF ScriptInv
<1>3. CASE UNCHANGED vars
  <2>1. /\ SameThread("M") /\ SameThread("S")
        /\ UNCHANGED <<hwVars, pc, checking, local, device, app, faults>>
    BY <1>3 DEF vars, SameThread, local, app
  <2>2. TypeOK'
    BY <2>1 DEF ScriptInv, TypeOK, HwTypeOK, SwTypeOK, hwVars, local, device, app
  <2>3. ScriptFits' /\ Recovers'
    BY <2>1 DEF ScriptInv, ScriptFits, Recovers, Steady, app
  <2>4. ThreadOf("M")' /\ ThreadOf("S")' /\ MasterCount' /\ SlaveCount'
    BY <2>1, MasterThreadFrame, SlaveThreadFrame DEF ScriptInv, ThreadInv, CountInv, Node, app
  <2>5. NoBoard'
    BY <2>1 DEF ScriptInv, ThreadInv, NoBoard, Memory, app, hwVars
  <2>6. QED
    BY <2>2, <2>3, <2>4, <2>5 DEF ScriptInv, ThreadInv, CountInv, Node
<1>4. QED
  BY <1>1, <1>2, <1>3 DEF Next

LEMMA PollStep == PollInv /\ [Next]_vars => PollInv'
BY ScriptStep, FrameStep, DeviceStep DEF PollInv

(* PollInv holds throughout, whatever the bus, the device and the line do, *)
(* and whenever the calls of the two threads come.                         *)
THEOREM PollingInvariant == Spec /\ ScriptFits /\ Recovers => []PollInv
<1>1. Init /\ ScriptFits /\ Recovers => PollInv
  BY InitPoll
<1>2. PollInv /\ [Next]_vars => PollInv'
  BY PollStep
<1>3. QED
  BY <1>1, <1>2, PTL DEF Spec

(* A read that returns I2C_OK has seen exactly its bytes on the bus, with  *)
(* the acknowledge refused for the last one and no other; a write that     *)
(* returns I2C_OK was acknowledged to its last byte; and the counters of   *)
(* the loops of i2c_master_transmit, i2c_master_receive, i2c_memory_write, *)
(* i2c_memory_read and of the slave's calls never run below zero.          *)
THEOREM PollingCounts == Spec /\ ScriptFits /\ Recovers => []CountsHold
<1>1. PollInv => CountsHold
  <2> SUFFICES ASSUME PollInv PROVE CountsHold
    OBVIOUS
  <2>1. TypeOK /\ MasterInv /\ ScriptInv
    BY DEF PollInv, ScriptInv, FrameInv
  <2>2. Ended("M", "OK") => AfterSuccess
    BY <2>1 DEF Ended, MasterInv
  <2>3. ReadExact /\ WriteAcked
    BY <2>2 DEF ReadExact, WriteAcked, AfterSuccess, InTimeSoFar
  <2>4. QED
    BY <2>1, <2>3 DEF CountsHold, CallsExact
<1>2. QED
  BY <1>1, PollingInvariant, PTL

(* The STOP that ends a call, or cleans up after one that failed, is       *)
(* requested of a bus whose frame is still open.                           *)
THEOREM PollingStops == Spec /\ ScriptFits /\ Recovers => []StopHasFrame
<1>1. PollInv => StopHasFrame
  BY DEF PollInv, FrameInv
<1>2. QED
  BY <1>1, PollingInvariant, PTL

(* Whatever i2c_memory_write changes in the device is a byte of a call,    *)
(* in the register that the call meant for it: over a bad line, after a    *)
(* call that failed half way, and after the next one.                      *)
THEOREM PollingAddressed == Spec /\ ScriptFits /\ Recovers => []OnlyAddressed
<1>1. PollInv => OnlyAddressed
  BY DEF PollInv, DeviceInv
<1>2. QED
  BY <1>1, PollingInvariant, PTL

(***************************************************************************)
(* The slave and the end of a frame.                                       *)
(***************************************************************************)

(* A step that leaves the slave's thread and what it may wait for alone.   *)
LEMMA EndKeeps ==
  ASSUME EndInv, SameThread("S"), UNCHANGED <<plan, env>>, sel' => sel,
         \A f \in Ends \cup {"ADDR7F"} : f \in flags'["S"] <=> f \in flags["S"],
         tx'["S"] = tx["S"], rx'["S"] = rx["S"]
  PROVE  EndInv'
<1>1. /\ Memory' = Memory /\ SlaveReceives' = SlaveReceives /\ Steady' = Steady
      /\ UNCHANGED <<pc["S"], checking["S"]>>
  BY DEF Memory, SlaveReceives, MyRound, Steady, SameThread
<1>2. "ADDR7F" \in flags'["S"] <=> "ADDR7F" \in flags["S"]
  OBVIOUS
<1>3. /\ "STOPF" \in flags'["S"] <=> "STOPF" \in flags["S"]
      /\ "ACKFAIL" \in flags'["S"] <=> "ACKFAIL" \in flags["S"]
  BY DEF Ends
<1>4. Follows' => Follows
  BY <1>2 DEF Follows
<1>5. SlaveWaits => SlaveWaits'
  BY <1>1 DEF SlaveWaits
<1>6. EndSeen => EndSeen'
  BY <1>1, <1>2, <1>3, <1>4 DEF EndSeen, Ends
<1>7. ReadBefore => ReadBefore'
  BY <1>1, <1>3 DEF ReadBefore
<1>8. QED
  BY <1>1, <1>5, <1>6, <1>7 DEF EndInv

(* The steps of the master.                                                *)
LEMMA MasterEnd ==
  ASSUME TypeOK, EndInv, Main("M")
  PROVE  EndInv'
<1>1. SameThread("S") /\ SameRegisters("S") /\ UNCHANGED <<env, plan>>
  BY MainLocal DEF Node
<1>2. sel' => sel
  <2>1. CASE TryAgain("M")
    BY <2>1 DEF TryAgain, i2c_reset, hwVars
  <2>2. CASE StartCall("M") \/ NextRound("M") \/ GiveUp("M")
    BY <2>2 DEF StartCall, NextRound, GiveUp, hwVars
  <2>3. CASE Wait("M")
    BY <2>3 DEF Wait, LookAgain, NoEvent, WaitAckFail, WaitStop, WaitTimeout, CleanUp, hwVars, busVars
  <2>4. CASE Master
    BY <2>4, MasterLocal
  <2>5. QED
    BY <2>1, <2>2, <2>3, <2>4 DEF Main
<1>3. QED
  BY <1>1, <1>2, EndKeeps DEF SameRegisters

(* The application of the slave, and its waits.                            *)
LEMMA CommonEnd ==
  ASSUME ScriptInv, EndInv, ~Memory,
         StartCall("S") \/ NextRound("S") \/ TryAgain("S") \/ GiveUp("S") \/ Wait("S")
  PROVE  EndInv'
<1> USE DEF Goto, Return, Stay, ClearFlags
<1>1. /\ pc \in [Node -> MainPc] /\ tx \in [Node -> Seq(Byte)] /\ rx \in [Node -> Seq(Byte)]
      /\ flags \in [Node -> SUBSET Flags] /\ checking \in [Node -> BOOLEAN] /\ "S" \in Node
      /\ checking["S"] => pc["S"] \in Waits
      /\ pc["S"] \in PcOf("S")
      /\ SlaveWaits /\ (Steady => EndSeen /\ ReadBefore) /\ round \in [Node -> Nat \ {0}]
  BY DEF ScriptInv, TypeOK, HwTypeOK, SwTypeOK, Node, ThreadInv, ThreadOf, EndInv
<1>2. UNCHANGED <<plan, env>> /\ Memory' = Memory /\ Steady' = Steady
  <2>1. UNCHANGED <<plan, env>>
    BY CommonLocal DEF ScriptInv, Node
  <2>2. QED
    BY <2>1 DEF Memory, Steady
<1>3. CASE TryAgain("S")
  <2>1. /\ pc'["S"] = "idle"
        /\ pc["S"] = "returned"
        /\ \/ i2c_reset("S")
           \/ UNCHANGED <<flags, tx, sel>>
    BY <1>1, <1>3 DEF TryAgain, hwVars
  <2>2. SlaveWaits' /\ ReadBefore'
    BY <2>1 DEF SlaveWaits, ReadBefore
  <2>3. CASE i2c_reset("S")
    <3>1. ~sel'
      BY <2>3 DEF i2c_reset
    <3>2. flags'["S"] \subseteq {"BUSYF"}
      BY <1>1, <2>3 DEF i2c_reset
    <3>3. EndSeen'
      BY <3>1, <3>2 DEF EndSeen, Ends, Follows
    <3>4. QED
      BY <2>2, <3>3 DEF EndInv
  <2>4. CASE UNCHANGED <<flags, tx, sel>>
    BY <1>1, <1>2, <2>1, <2>2, <2>4 DEF EndInv, EndSeen, Follows, InData, Ends
  <2>5. QED
    BY <2>1, <2>3, <2>4
<1>4. CASE StartCall("S") \/ NextRound("S") \/ GiveUp("S")
  <2>1. /\ pc["S"] \in {"idle", "returned"}
        /\ pc'["S"] \in {"free", "busy", "idle", "done", "gave_up"}
        /\ UNCHANGED <<flags, tx, sel>>
    BY <1>1, <1>4 DEF StartCall, NextRound, GiveUp, FirstWait, hwVars
  <2>2. QED
    BY <1>1, <1>2, <2>1 DEF EndInv, SlaveWaits, ReadBefore, EndSeen, Follows, InData, Ends
<1>5. CASE LookAgain("S") \/ NoEvent("S")
  <2>1. /\ UNCHANGED <<flags, tx, rx, sel, pc, round>>
        /\ checking'["S"] /\ pc["S"] = "rdbf" => rx["S"] = <<>>
    BY <1>1, <1>5 DEF LookAgain, NoEvent, FlagCame, RDBF, hwVars, app
  <2>2. SlaveReceives' = SlaveReceives
    BY <1>2, <2>1 DEF SlaveReceives, MyRound
  <2>3. QED
    BY <1>1, <1>2, <2>1, <2>2 DEF EndInv, SlaveWaits, ReadBefore, EndSeen, Follows, InData, Ends
<1>6. CASE WaitAckFail("S")
  <2>1. /\ pc["S"] \in {"tdbe", "stopf"} /\ "ACKFAIL" \in flags["S"]
        /\ pc'["S"] = "fail" /\ UNCHANGED <<tx, rx, sel, round>>
        /\ \A f \in Flags : f \in flags'["S"] <=> f \in flags["S"] /\ f # "ACKFAIL"
    BY <1>1, <1>6 DEF WaitAckFail, EventCheck, busVars, app, local
  <2>2. SlaveReceives' = SlaveReceives
    BY <1>2, <2>1 DEF SlaveReceives, MyRound
  <2>3. SlaveWaits' /\ Follows' = Follows
    BY <2>1 DEF SlaveWaits, Follows, Flags
  <2>4. ASSUME Steady
        PROVE  EndSeen' /\ ReadBefore'
    <3>1. EndSeen /\ ReadBefore
      BY <1>1, <2>4
    <3>2. /\ pc["S"] = "tdbe" /\ ~SlaveReceives /\ "STOPF" \notin flags["S"] /\ ~Follows
      BY <1>1, <2>1, <3>1 DEF EndSeen, SlaveWaits, Ends
    <3>3. flags'["S"] \cap Ends = {}
      BY <2>1, <3>2 DEF Ends, Flags
    <3>4. "ADDR7F" \in flags'["S"] <=> "ADDR7F" \in flags["S"]
      BY <2>1 DEF Flags
    <3>5. tx'["S"] # <<>> /\ sel' => FALSE
      BY <2>1, <3>1, <3>2 DEF EndSeen, Follows
    <3>6. EndSeen'
      BY <2>3, <3>2, <3>3, <3>5 DEF EndSeen, Ends
    <3>7. QED
      BY <2>1, <2>2, <3>2, <3>6 DEF ReadBefore
  <2>5. QED
    BY <1>2, <2>3, <2>4 DEF EndInv
<1>7. CASE WaitStop("S")
  <2>1. /\ pc["S"] = "rdbf" /\ "STOPF" \in flags["S"] /\ checking["S"]
        /\ pc'["S"] = "fail" /\ UNCHANGED <<tx, rx, sel, round>>
        /\ \A f \in Flags : f \in flags'["S"] <=> f \in flags["S"] /\ f # "STOPF"
    BY <1>1, <1>7 DEF WaitStop, EventCheck, busVars, app, local
  <2>2. SlaveReceives' = SlaveReceives
    BY <1>2, <2>1 DEF SlaveReceives, MyRound
  <2>3. SlaveWaits' /\ Follows' = Follows
    BY <2>1 DEF SlaveWaits, Follows, Flags
  <2>4. ASSUME Steady
        PROVE  EndSeen' /\ ReadBefore'
    <3>1. EndSeen /\ ReadBefore
      BY <1>1, <2>4
    <3>2. "ACKFAIL" \notin flags["S"] /\ ~Follows
      BY <1>1, <2>1, <3>1 DEF EndSeen, Ends
    <3>3. flags'["S"] \cap Ends = {}
      BY <2>1, <3>2 DEF Ends, Flags
    <3>4. tx'["S"] # <<>> /\ sel' => FALSE
      BY <2>1, <3>1, <3>2 DEF EndSeen, Follows
    <3>5. EndSeen'
      BY <2>3, <3>2, <3>3, <3>4 DEF EndSeen, Ends
    <3>6. QED
      BY <2>1, <2>2, <3>1, <3>5 DEF ReadBefore
  <2>5. QED
    BY <1>2, <2>3, <2>4 DEF EndInv
<1>8. CASE WaitTimeout("S")
  <2>1. /\ pc'["S"] \in {"fail", "returned"} /\ env.timeouts
    BY <1>1, <1>8 DEF WaitTimeout
  <2>2. SlaveWaits' /\ ~Steady'
    BY <1>2, <2>1 DEF SlaveWaits, Steady
  <2>3. QED
    BY <2>2 DEF EndInv
<1>9. CASE CleanUp("S")
  <2>1. /\ pc["S"] = "fail" /\ pc'["S"] = "returned" /\ UNCHANGED <<flags, tx, sel>>
    BY <1>1, <1>9 DEF CleanUp, busVars
  <2>2. QED
    BY <1>1, <1>2, <2>1 DEF EndInv, SlaveWaits, ReadBefore, EndSeen, Follows, InData, Ends
<1>10. QED
  BY <1>3, <1>4, <1>5, <1>6, <1>7, <1>8, <1>9 DEF Wait

(* The calls of the slave.                                                 *)
LEMMA SlaveEnds ==
  ASSUME ScriptInv, EndInv, ~Memory, Slave
  PROVE  EndInv'
<1> USE DEF Goto, Return, Stay, ClearFlags, SetCtrl, Came
<1>1. /\ pc \in [Node -> MainPc] /\ tx \in [Node -> Seq(Byte)] /\ rx \in [Node -> Seq(Byte)]
      /\ flags \in [Node -> SUBSET Flags] /\ checking \in [Node -> BOOLEAN] /\ "S" \in Node
      /\ SlaveWaits /\ (Steady => EndSeen /\ ReadBefore) /\ round \in [Node -> Nat \ {0}]
  BY DEF ScriptInv, TypeOK, HwTypeOK, SwTypeOK, Node, EndInv
<1>2. /\ UNCHANGED <<plan, env, round, checking, sel>>
      /\ Memory' = Memory /\ Steady' = Steady /\ SlaveReceives' = SlaveReceives
  <2>1. UNCHANGED <<plan, env, round, checking, sel>>
    BY SlaveLocal DEF ScriptInv, busVars
  <2>2. QED
    BY <2>1 DEF Memory, Steady, SlaveReceives, MyRound
<1>3. CASE EnableAck
  <2>1. pc["S"] \in {"free", "busy"} /\ pc'["S"] = "addr7" /\ UNCHANGED <<flags, tx>>
    BY <1>1, <1>3 DEF EnableAck
  <2>2. QED
    BY <1>1, <1>2, <2>1 DEF EndInv, SlaveWaits, ReadBefore, EndSeen, Follows, InData, Ends
<1>4. CASE SlaveClearAddr
  <2>1. /\ pc["S"] = "addr7" /\ UNCHANGED tx /\ ~checking["S"] /\ "ADDR7F" \in flags["S"]
        /\ pc'["S"] = IF SlaveReceives THEN "rdbf" ELSE "tdbe"
        /\ \A f \in Flags : f \in flags'["S"] <=> f \in flags["S"] /\ f # "ADDR7F"
    BY <1>1, <1>4 DEF SlaveClearAddr, FlagCame
  <2>2. SlaveWaits'
    BY <1>2, <2>1 DEF SlaveWaits
  <2>3. ASSUME Steady
        PROVE  EndSeen' /\ ReadBefore'
    <3>1. EndSeen
      BY <1>1, <2>3
    <3>2. flags["S"] \cap Ends = {} /\ ~(tx["S"] # <<>> /\ sel)
      BY <2>1, <3>1 DEF EndSeen, InData
    <3>3. flags'["S"] \cap Ends = {}
      BY <2>1, <3>2 DEF Ends, Flags
    <3>4. pc'["S"] \in InData /\ ~(tx'["S"] # <<>> /\ sel')
      BY <1>2, <2>1, <3>2 DEF InData
    <3>5. EndSeen'
      BY <3>3, <3>4 DEF EndSeen, Ends
    <3>6. ReadBefore'
      BY <1>2, <2>1 DEF ReadBefore
    <3>7. QED
      BY <3>5, <3>6
  <2>4. QED
    BY <1>2, <2>2, <2>3 DEF EndInv
<1>5. CASE SlaveReadByte
  <2>1. /\ pc["S"] = "rdbf" /\ ~checking["S"] /\ pc'["S"] \in {"rdbf", "stopf"}
        /\ UNCHANGED <<flags, tx>>
    BY <1>1, <1>5 DEF SlaveReadByte
  <2>2. QED
    BY <1>1, <1>2, <2>1 DEF EndInv, SlaveWaits, ReadBefore, EndSeen, Follows, InData, Ends
<1>6. CASE SendData("S", "ackfail")
  <2>1. /\ pc["S"] = "tdbe" /\ sel /\ "ADDR7F" \notin flags["S"]
        /\ pc'["S"] \in {"tdbe", "ackfail"} /\ UNCHANGED flags
    BY <1>1, <1>6 DEF SendData, FlagCame, TDBE, Transmitting
  <2>2. QED
    BY <1>1, <1>2, <2>1 DEF EndInv, SlaveWaits, ReadBefore, EndSeen, Follows, InData, Ends
<1>7. CASE SlaveEnd
  <2>1. PICK f \in Ends :
          /\ f \in flags["S"] /\ pc'["S"] = "returned" /\ UNCHANGED tx
          /\ pc["S"] \in {"stopf", "ackfail"}
          /\ \A g \in Flags : g \in flags'["S"] <=> g \in flags["S"] /\ g # f
    BY <1>1, <1>7 DEF SlaveEnd, FlagCame, Ends
  <2>2. SlaveWaits' /\ Follows' = Follows /\ ReadBefore'
    BY <1>2, <2>1 DEF SlaveWaits, Follows, Flags, Ends, ReadBefore
  <2>3. ASSUME Steady
        PROVE  EndSeen'
    <3>1. EndSeen
      BY <1>1, <2>3
    <3>2. ~Follows /\ flags'["S"] \cap Ends = {}
      BY <2>1, <3>1 DEF EndSeen, Ends, Flags
    <3>3. ~(tx'["S"] # <<>> /\ sel')
      BY <1>2, <2>1, <3>1, <3>2 DEF EndSeen, Follows
    <3>4. QED
      BY <2>2, <3>2, <3>3 DEF EndSeen, Ends
  <2>4. QED
    BY <1>2, <2>2, <2>3 DEF EndInv
<1>8. QED
  BY <1>3, <1>4, <1>5, <1>6, <1>7 DEF Slave

(* The bus: a prompt slave has read what came before the STOP goes out.    *)
LEMMA BusEnd ==
  ASSUME TypeOK, EndInv, ~Memory, Bus \/ Fault
  PROVE  EndInv'
<1>1. /\ pc \in [Node -> MainPc] /\ tx \in [Node -> Seq(Byte)] /\ rx \in [Node -> Seq(Byte)]
      /\ flags \in [Node -> SUBSET Flags] /\ "S" \in Node /\ sel \in BOOLEAN
      /\ SlaveWaits /\ (Steady => EndSeen /\ ReadBefore)
      /\ dir \in {"write", "read"}
  BY DEF TypeOK, HwTypeOK, SwTypeOK, Node, EndInv
<1>2. /\ UNCHANGED <<pc, checking, round, plan, env>> /\ SameThread("S")
      /\ Memory' = Memory /\ Steady' = Steady /\ SlaveReceives' = SlaveReceives
  <2>1. Quiet
    BY DEF Bus, Fault
  <2>2. QED
    BY <2>1 DEF Quiet, local, app, SameThread, Memory, Steady, SlaveReceives, MyRound
<1>3. SlaveWaits'
  BY <1>1, <1>2 DEF SlaveWaits
<1>4. CASE HwStart \/ HwRestart \/ HwAddrNack \/ HwOverrunByte \/ HwSlaveRelease
  <2>1. /\ sel' => sel
        /\ \A f \in Ends \cup {"ADDR7F"} : f \in flags'["S"] <=> f \in flags["S"]
        /\ tx'["S"] = tx["S"] /\ rx'["S"] = rx["S"]
    BY <1>1, <1>4 DEF HwStart, HwRestart, HwAddrNack, HwOverrunByte, HwSlaveRelease, Ends
  <2>2. QED
    BY <1>2, <2>1, EndKeeps
<1>5. CASE HwAddrAck
  <2>1. /\ \A f \in Flags : f \in flags'["S"] <=> f \in flags["S"] \/ f = "ADDR7F"
        /\ tx'["S"] = <<>> /\ UNCHANGED rx
    BY <1>1, <1>5 DEF HwAddrAck
  <2>2. ~Follows' /\ flags'["S"] \cap Ends = flags["S"] \cap Ends
        /\ ("ACKFAIL" \in flags'["S"] <=> "ACKFAIL" \in flags["S"])
        /\ ("STOPF" \in flags'["S"] <=> "STOPF" \in flags["S"])
    BY <2>1 DEF Follows, Flags, Ends
  <2>3. ASSUME Steady PROVE EndSeen' /\ ReadBefore'
    BY <1>1, <1>2, <2>1, <2>2, <2>3 DEF EndSeen, ReadBefore, Ends
  <2>4. QED
    BY <1>2, <1>3, <2>3 DEF EndInv
<1>6. ASSUME NEW lost \in BOOLEAN, HwWriteByte(lost)
      PROVE  EndInv'
  <2>1. /\ UNCHANGED <<sel, flags["S"], tx["S"]>>
        /\ sel => "ADDR7F" \notin flags["S"]
        /\ ~sel => rx' = rx
    BY <1>1, <1>6 DEF HwWriteByte, SlaveStretches
  <2>2. CASE ~sel
    BY <1>2, <2>1, <2>2, EndKeeps
  <2>3. CASE sel
    <3>1. ASSUME Steady PROVE EndSeen' /\ ReadBefore'
      <4>1. EndSeen /\ Follows
        BY <1>1, <2>1, <2>3, <3>1 DEF Follows
      <4>2. flags["S"] \cap Ends = {} /\ pc["S"] \in InData
        BY <4>1 DEF EndSeen
      <4>3. EndSeen'
        BY <1>2, <2>1, <4>1, <4>2 DEF EndSeen, Ends, InData
      <4>4. ReadBefore'
        BY <1>2, <2>1, <4>2 DEF ReadBefore, Ends, InData
      <4>5. QED
        BY <4>3, <4>4
    <3>2. QED
      BY <1>2, <1>3, <3>1 DEF EndInv
  <2>4. QED
    BY <2>2, <2>3
<1>7. CASE HwReadByte
  <2>1. PICK acks \in BOOLEAN : HwReadByteAck(acks)
    <3>1. CASE "ACKNEXT" \in ctrl["M"] /\ clocked = 0
      <4>1. MasterAcks = TRUE
        BY <3>1 DEF MasterAcks
      <4>2. HwReadByteAck(TRUE)
        BY <1>7, <4>1 DEF HwReadByte
      <4>3. QED
        BY <4>2
    <3>2. CASE ~("ACKNEXT" \in ctrl["M"] /\ clocked = 0)
      <4>1. MasterAcks = ("ACKEN" \in ctrl["M"])
        BY <3>2 DEF MasterAcks
      <4>2. HwReadByteAck("ACKEN" \in ctrl["M"])
        BY <1>7, <4>1 DEF HwReadByte
      <4>3. ("ACKEN" \in ctrl["M"]) \in BOOLEAN
        OBVIOUS
      <4>4. QED
        BY <4>2, <4>3, Zenon
    <3>3. QED
      BY <3>1, <3>2
  <2>2. /\ sel => "ADDR7F" \notin flags["S"] /\ tx["S"] # <<>>
        /\ rx'["S"] = rx["S"]
        /\ ~sel => UNCHANGED <<flags, tx>>
    BY <1>1, <2>1 DEF HwReadByteAck, SlaveStretches
  <2>3. sel' <=> sel /\ acks
    BY <1>1, <2>1 DEF HwReadByteAck
  <2>4. CASE ~sel
    BY <1>2, <2>2, <2>3, <2>4, EndKeeps
  <2>5. CASE sel
    <3>1. \A f \in Flags : f \in flags'["S"] <=> f \in flags["S"] \/ (f = "ACKFAIL" /\ ~acks)
      BY <1>1, <2>1, <2>5 DEF HwReadByteAck
    <3>2. ASSUME Steady PROVE EndSeen' /\ ReadBefore'
      <4>1. EndSeen /\ Follows
        BY <1>1, <2>2, <2>5, <3>2 DEF Follows
      <4>2. flags["S"] \cap Ends = {} /\ pc["S"] \in {"tdbe", "ackfail"} /\ "ADDR7F" \notin flags["S"]
        BY <2>2, <2>5, <4>1 DEF EndSeen
      <4>3. "STOPF" \notin flags'["S"] /\ "ADDR7F" \notin flags'["S"]
            /\ ("ACKFAIL" \in flags'["S"] <=> ~acks)
        BY <3>1, <4>2 DEF Flags, Ends
      <4>4. EndSeen'
        BY <1>2, <2>3, <4>2, <4>3 DEF EndSeen, Ends, InData, Follows
      <4>5. ReadBefore'
        BY <1>2, <4>2 DEF ReadBefore
      <4>6. QED
        BY <4>4, <4>5
    <3>3. QED
      BY <1>2, <1>3, <3>2 DEF EndInv
  <2>6. QED
    BY <2>4, <2>5
<1>8. CASE HwStop /\ InTime
  <2>1. /\ ~sel' /\ UNCHANGED <<tx, rx>>
        /\ "ACKFAIL" \in flags'["S"] <=> "ACKFAIL" \in flags["S"]
        /\ "STOPF" \in flags'["S"] <=> "STOPF" \in flags["S"] \/ (sel /\ dir = "write")
        /\ sel => "ADDR7F" \notin flags["S"]
    BY <1>1, <1>8 DEF HwStop, SlaveStretches
  <2>2. ASSUME Steady PROVE EndSeen' /\ ReadBefore'
    <3>1. EndSeen /\ ReadBefore /\ env.prompt
      BY <1>1, <2>2 DEF Steady
    <3>2. sel => Follows
      BY <2>1 DEF Follows
    <3>3. EndSeen'
      BY <1>2, <2>1, <3>1, <3>2 DEF EndSeen, Ends, InData, Follows
    <3>4. pc["S"] = "rdbf" /\ checking["S"] => rx["S"] = <<>>
      BY <1>1, <1>8, <3>1 DEF InTime, FlagCame, RDBF
    <3>5. ReadBefore'
      BY <1>2, <2>1, <3>1, <3>4 DEF ReadBefore
    <3>6. QED
      BY <3>3, <3>5
  <2>3. QED
    BY <1>2, <1>3, <2>2 DEF EndInv
<1>9. QED
  BY <1>4, <1>5, <1>6, <1>7, <1>8 DEF Bus, Fault

LEMMA InitEnd == Init => EndInv
BY DEF Init, EndInv, SlaveWaits, EndSeen, ReadBefore, Follows, Ends, InData, Node

LEMMA EndStep ==
  ASSUME PollInv, EndInv, [Next]_vars
  PROVE  EndInv'
<1>1. ScriptInv /\ TypeOK
  BY DEF PollInv, ScriptInv
<1>2. CASE Memory
  <2>1. UNCHANGED plan
    <3>1. CASE \E n \in Node : Main(n)
      <4>1. PICK n \in Node : Main(n)
        BY <3>1
      <4>2. PICK m \in Node : m # n
        BY DEF Node
      <4>3. QED
        BY <1>1, <4>1, <4>2, MainLocal
    <3>2. CASE Device \/ Bus \/ Fault \/ UNCHANGED vars
      BY <3>2 DEF Device, Bus, Fault, Quiet, vars, app
    <3>3. QED
      BY <3>1, <3>2 DEF Next
  <2>2. QED
    BY <1>2, <2>1 DEF EndInv, Memory
<1>3. CASE ~Memory
  <2>1. ASSUME NEW n \in Node, Main(n) PROVE EndInv'
    <3>1. CASE n = "M"
      BY <1>1, <2>1, <3>1, MasterEnd
    <3>2. CASE n = "S" /\ Slave
      BY <1>1, <1>3, <3>2, SlaveEnds
    <3>3. CASE n = "S" /\ ~Slave
      BY <1>1, <1>3, <2>1, <3>3, CommonEnd DEF Main
    <3>4. QED
      BY <3>1, <3>2, <3>3 DEF Node
  <2>2. CASE Bus \/ Fault
    BY <1>1, <1>3, <2>2, BusEnd
  <2>3. CASE Device
    BY <1>3, <2>3 DEF Device
  <2>4. CASE UNCHANGED vars
    BY <2>4, EndKeeps DEF vars, hwVars, local, app, SameThread
  <2>5. QED
    BY <2>1, <2>2, <2>3, <2>4 DEF Next
<1>4. QED
  BY <1>2, <1>3

(* A slave receive that is ended by a STOP has read every byte that came   *)
(* before it: i2c_wait_flag looks at RDBF before it looks at STOPF, and a  *)
(* STOP that it sees is always the STOP of the frame that it follows.      *)
THEOREM PollingReadsAll == Spec /\ ScriptFits /\ Recovers => []NothingLeftBehind
<1>1. Init => EndInv
  BY InitEnd
<1>2. PollInv /\ EndInv /\ [Next]_vars => EndInv'
  BY EndStep
<1>3. PollInv /\ EndInv => NothingLeftBehind
  <2> SUFFICES ASSUME PollInv, EndInv, Steady, pc["S"] = "fail", SlaveReceives
               PROVE  rx["S"] = <<>>
    BY DEF NothingLeftBehind, Steady
  <2>1. ~Memory
    BY DEF PollInv, ScriptInv, ThreadInv, NoBoard
  <2>2. QED
    BY <2>1 DEF EndInv, ReadBefore
<1>4. QED
  BY <1>1, <1>2, <1>3, PollingInvariant, PTL DEF Spec
=============================================================================
