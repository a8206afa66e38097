------------------------------ MODULE I2CDmaProofs ------------------------------
(***************************************************************************)
(* That I2CDmaInv!DmaInv is inductive, and the theorems that follow.  What *)
(* a call by DMA has in common with a polling call is proved by the lemmas *)
(* of I2CPollingProofs; what is its own comes here: the threads first,     *)
(* then the handle and the channel of each board, then the master's flags, *)
(* its STOP and its data.                                                  *)
(***************************************************************************)
EXTENDS I2CDmaInv, I2CPollingProofs

(***************************************************************************)
(* The threads.                                                            *)
(***************************************************************************)

(* The steps of a call by DMA that no polling call makes.                  *)
DmaOwn(n) ==
  \/ n = "S" /\ DmaStartCall("S")
  \/ n = "S" /\ DmaClearAddrToReceive
  \/ n = "M" /\ (DmaClearAddrToRead \/ DmaAckOff \/ DmaStop)
  \/ DmaClearAddrToSend(n) /\ pc'[n] = "dma_on"
  \/ DmaEnable(n)
  \/ i2c_wait_end(n)

(* All others are steps of I2CPolling.                                     *)
LEMMA SharedSteps ==
  ASSUME TypeOK, ScriptFits, ThreadInv, NEW n \in Node, DmaMain(n)
  PROVE  Main(n) \/ DmaOwn(n)
<1>1. pc \in [Node -> MainPc] /\ <<plan, env>> \in Scenarios
  BY DEF TypeOK, SwTypeOK
<1>2. CASE DmaStartCall(n)
  <2>1. CASE n = "M"
    <3>1. FirstWait("M") = "free"
      BY DEF FirstWait
    <3>2. StartCall("M")
      BY <1>2, <2>1, <3>1 DEF DmaStartCall, StartCall, Goto
    <3>3. QED
      BY <2>1, <3>2 DEF Main
  <2>2. CASE n = "S"
    BY <1>2, <2>2 DEF DmaOwn
  <2>3. QED
    BY <2>1, <2>2 DEF Node
<1>3. CASE DmaTryAgain(n) \/ NextRound(n) \/ GiveUp(n) \/ Wait(n)
  BY <1>3 DEF DmaTryAgain, Main
<1>4. CASE DmaClearAddrToSend(n)
  <2>1. CASE n = "M" /\ Memory
    <3>1. MyRound("M").op # "read"
      BY <1>4, <2>1 DEF DmaClearAddrToSend, Reads
    <3>2. ClearAddrToWrite
      BY <1>4, <2>1, <3>1 DEF DmaClearAddrToSend, ClearAddrToWrite, Goto
    <3>3. QED
      BY <2>1, <3>2 DEF Main, Master
  <2>2. CASE n = "M" /\ ~Memory
    BY <1>1, <1>4, <2>2 DEF DmaClearAddrToSend, DmaOwn, Goto
  <2>3. CASE n = "S"
    <3>1. ~Memory
      BY <1>4, <2>3 DEF DmaClearAddrToSend, Came, ThreadInv, NoBoard
    <3>2. QED
      BY <1>1, <1>4, <2>3, <3>1 DEF DmaClearAddrToSend, DmaOwn, Goto
  <2>4. QED
    BY <2>1, <2>2, <2>3 DEF Node
<1>5. CASE n = "M" /\ DmaMaster
  <2>1. CASE DmaGenerateStart
    BY <1>5, <2>1 DEF DmaGenerateStart, Main, Master
  <2>2. CASE DmaClearAddrOfDevice
    <3>1. pc["M"] = "addr7" /\ "M" \in Node
      BY <2>2 DEF DmaClearAddrOfDevice, Came, Node
    <3>2. round["M"] \in 1 .. Len(plan)
      BY <3>1 DEF ThreadInv, ThreadOf
    <3>3. Memory
      BY <1>1, <2>2, <3>2, ReadsMeans DEF DmaClearAddrOfDevice
    <3>4. ClearAddrToWrite
      BY <2>2, <3>3 DEF DmaClearAddrOfDevice, ClearAddrToWrite
    <3>5. QED
      BY <1>5, <3>4 DEF Main, Master
  <2>3. CASE DmaClearAddrToRead \/ DmaAckOff \/ DmaStop
    BY <1>5, <2>3 DEF DmaOwn
  <2>4. CASE SendAddress \/ SendRegister \/ GenerateRestart
    BY <1>5, <2>4 DEF Main, Master
  <2>5. QED
    BY <1>5, <2>1, <2>2, <2>3, <2>4 DEF DmaMaster
<1>6. CASE n = "S" /\ DmaSlave
  <2>1. CASE DmaEnableAck
    <3>1. EnableAck
      BY <2>1 DEF DmaEnableAck, EnableAck
    <3>2. QED
      BY <1>6, <3>1 DEF Main, Slave
  <2>2. CASE DmaClearAddrToReceive
    BY <1>6, <2>2 DEF DmaOwn
  <2>3. QED
    BY <1>6, <2>1, <2>2 DEF DmaSlave
<1>7. CASE DmaEnable(n) \/ i2c_wait_end(n)
  BY <1>7 DEF DmaOwn
<1>8. QED
  BY <1>2, <1>3, <1>4, <1>5, <1>6, <1>7 DEF DmaMain

LEMMA OwnLocal ==
  ASSUME TypeOK, NEW n \in Node, NEW m \in Node \ {n}, DmaOwn(n)
  PROVE  /\ SameThread(m) /\ SameRegisters(m)
         /\ UNCHANGED <<env, plan, device, faults, round, tries, checking, ints, tx, rx, busVars>>
<1> USE DEF TypeOK, HwTypeOK, SwTypeOK, SameThread, SameRegisters, hwVars, app, device, local,
            busVars, Stay, Goto, Return, SetCtrl, ClearFlags, Node
<1>1. CASE n = "S" /\ DmaStartCall("S")
  BY <1>1 DEF DmaStartCall
<1>2. CASE n = "S" /\ DmaClearAddrToReceive
  BY <1>2 DEF DmaClearAddrToReceive
<1>3. CASE n = "M" /\ DmaClearAddrToRead
  BY <1>3 DEF DmaClearAddrToRead
<1>4. CASE n = "M" /\ (DmaAckOff \/ DmaStop)
  BY <1>4 DEF DmaAckOff, DmaStop
<1>5. CASE DmaClearAddrToSend(n)
  BY <1>5 DEF DmaClearAddrToSend
<1>6. CASE DmaEnable(n)
  BY <1>6 DEF DmaEnable
<1>7. CASE i2c_wait_end(n)
  BY <1>7 DEF i2c_wait_end
<1>8. QED
  BY <1>1, <1>2, <1>3, <1>4, <1>5, <1>6, <1>7 DEF DmaOwn

(* Where they lead the thread.                                             *)
LEMMA OwnThread ==
  ASSUME TypeOK, NEW n \in Node, ThreadOf(n), DmaOwn(n)
  PROVE  /\ ~checking[n] /\ pc'[n] \in {"free", "wait_end", "returned", "dma_on", "dma_ack", "dma_stop"}
         /\ pc[n] \in {"idle", "addr7", "readdr7", "dma_ack", "dma_stop", "dma_on", "tdbe", "wait_end"}
         /\ IF pc'[n] = "free" THEN n = "S" /\ left'[n] = Size(n) ELSE left'[n] = left[n]
<1> USE DEF TypeOK, SwTypeOK, local, Stay, Goto, Return, Came, Node, ThreadOf, Waits
<1>1. CASE n = "S" /\ DmaStartCall("S")
  BY <1>1 DEF DmaStartCall
<1>2. CASE n = "S" /\ DmaClearAddrToReceive
  BY <1>2 DEF DmaClearAddrToReceive
<1>3. CASE n = "M" /\ DmaClearAddrToRead
  BY <1>3 DEF DmaClearAddrToRead
<1>4. CASE n = "M" /\ (DmaAckOff \/ DmaStop)
  BY <1>4 DEF DmaAckOff, DmaStop
<1>5. CASE DmaClearAddrToSend(n) /\ pc'[n] = "dma_on"
  BY <1>5 DEF DmaClearAddrToSend
<1>6. CASE DmaEnable(n)
  BY <1>6 DEF DmaEnable
<1>7. CASE i2c_wait_end(n)
  BY <1>7 DEF i2c_wait_end
<1>8. QED
  BY <1>1, <1>2, <1>3, <1>4, <1>5, <1>6, <1>7 DEF DmaOwn

LEMMA OwnTypes ==
  ASSUME TypeOK, DmaTypeOK, NEW n \in Node, ThreadOf(n), DmaOwn(n)
  PROVE  TypeOK'
<1>1. UNCHANGED <<env, plan, device, faults, round, tries, checking, ints, tx, rx, busVars>>
  <2>1. PICK m \in Node : m # n
    BY DEF Node
  <2>2. QED
    BY <2>1, OwnLocal
<1> SUFFICES /\ ctrl' \in [Node -> SUBSET CtrlBits] /\ flags' \in [Node -> SUBSET Flags]
             /\ pc' \in [Node -> MainPc] /\ left' \in [Node -> Nat]
             /\ mem' \in [Node -> Seq(Byte)] /\ ret' \in [Node -> {"OK", "ERR"}]
  BY <1>1 DEF TypeOK, HwTypeOK, SwTypeOK, busVars, device
<1> USE DEF TypeOK, HwTypeOK, SwTypeOK, hwVars, local, Goto, Return, SetCtrl, ClearFlags, Node,
            MainPc, DmaPc
<1>2. CASE n = "S" /\ DmaStartCall("S")
  <2>1. Size("S") \in Nat
    BY <1>2, RoundFacts DEF DmaStartCall, ThreadOf
  <2>2. "free" \in MainPc
    BY DEF Waits
  <2>3. QED
    BY <1>2, <2>1, <2>2, SMTT(30) DEF DmaStartCall
<1>3. CASE n = "S" /\ DmaClearAddrToReceive
  BY <1>3 DEF DmaClearAddrToReceive
<1>4. CASE n = "M" /\ DmaClearAddrToRead
  BY <1>4, SMTT(30) DEF DmaClearAddrToRead
<1>5. CASE n = "M" /\ (DmaAckOff \/ DmaStop)
  BY <1>5 DEF DmaAckOff, DmaStop, CtrlBits
<1>6. CASE DmaClearAddrToSend(n) /\ pc'[n] = "dma_on"
  <2>1. pc' = [pc EXCEPT ![n] = "dma_on"]
    BY <1>6 DEF DmaClearAddrToSend
  <2>2. QED
    BY <1>6, <2>1 DEF DmaClearAddrToSend
<1>7. CASE DmaEnable(n)
  BY <1>7 DEF DmaEnable
<1>8. CASE i2c_wait_end(n)
  <2>1. error_code[n] \in {"OK", "ERR"}
    BY DEF DmaTypeOK
  <2>2. QED
    BY <1>8, <2>1 DEF i2c_wait_end
<1>9. QED
  BY <1>2, <1>3, <1>4, <1>5, <1>6, <1>7, <1>8 DEF DmaOwn

LEMMA OwnScript ==
  ASSUME ScriptInv, DmaTypeOK, NEW n \in Node, ByDma(n), DmaOwn(n)
  PROVE  ScriptInv'
<1>1. TypeOK /\ ScriptFits /\ Recovers /\ ThreadInv /\ CountInv
  BY DEF ScriptInv
<1>2. PICK m \in Node : m # n
  BY DEF Node
<1>3. /\ SameThread(m) /\ SameRegisters(m)
      /\ UNCHANGED <<env, plan, device, faults, round, tries, checking>>
  BY <1>1, <1>2, OwnLocal
<1>4. /\ ThreadOf("M") /\ ThreadOf("S") /\ MasterCount /\ SlaveCount /\ NoBoard /\ ThreadOf(n)
  BY <1>1 DEF ThreadInv, CountInv, Node
<1>5. TypeOK' /\ ScriptFits' /\ Recovers'
  BY <1>1, <1>3, <1>4, OwnTypes DEF ScriptFits, Recovers, Steady
<1>6. /\ ~checking[n] /\ pc'[n] \in {"free", "wait_end", "returned", "dma_on", "dma_ack", "dma_stop"}
      /\ pc[n] \in {"idle", "addr7", "readdr7", "dma_ack", "dma_stop", "dma_on", "tdbe", "wait_end"}
      /\ IF pc'[n] = "free" THEN n = "S" /\ left'[n] = Size(n) ELSE left'[n] = left[n]
  BY <1>1, <1>4, OwnThread
<1>7. ThreadOf(n)'
  <2>1. pc'[n] \in PolledPc(n) \cup DmaPc
    BY <1>6 DEF PolledPc, DmaPc, Waits
  <2>2. pc'[n] \in PcOf(n)'
    BY <1>3, <2>1 DEF PcOf, ByDma, PolledPc
  <2>3. QED
    BY <1>3, <1>4, <1>6, <2>2 DEF ThreadOf
<1>8. \/ n = "M" /\ m = "S"
      \/ n = "S" /\ m = "M"
  BY <1>2 DEF Node
<1>9. CASE n = "M"
  <2>1. MasterCount'
    BY <1>6, <1>9 DEF MasterCount
  <2>2. ThreadOf("S")' /\ SlaveCount'
    BY <1>3, <1>4, <1>8, <1>9, SlaveThreadFrame
  <2>3. NoBoard'
    BY <1>3, <1>4, <1>8, <1>9 DEF NoBoard, SameThread, SameRegisters, Memory
  <2>4. QED
    BY <1>5, <1>7, <1>9, <2>1, <2>2, <2>3 DEF ScriptInv, ThreadInv, CountInv, Node
<1>10. CASE n = "S"
  <2>1. SlaveCount'
    <3>1. Size("S")' = Size("S")
      BY <1>3, SameRound, <1>10
    <3>2. QED
      BY <1>6, <1>10, <3>1 DEF SlaveCount
  <2>2. ThreadOf("M")' /\ MasterCount'
    BY <1>3, <1>4, <1>8, <1>10, MasterThreadFrame
  <2>3. NoBoard'
    BY <1>3, <1>4, <1>6, <1>10 DEF NoBoard, Memory
  <2>4. QED
    BY <1>5, <1>7, <1>10, <2>1, <2>2, <2>3 DEF ScriptInv, ThreadInv, CountInv, Node
<1>11. QED
  BY <1>8, <1>9, <1>10
(* The handlers and the DMA controller.                                    *)
Serves(n) == DmaHandler(n) \/ DmaHandlerEnds(n) \/ DmaMove(n)

LEMMA Served ==
  ASSUME BoardsInv, NEW n \in Node, Serves(n)
  PROVE  /\ ByDma(n) /\ HandleOf(n) /\ ChannelOf(n)
         /\ dmaen[n] /\ status[n] = "START" /\ Waiting(n)
<1>1. dmaen[n] \/ tc[n] \/ isr[n] # "none"
  BY DEF Serves, DmaHandler, DmaHandlerEnds, DmaMove, DmaReady, Request
<1>2. ByDma(n) /\ HandleOf(n) /\ ChannelOf(n)
  BY <1>1 DEF BoardsInv, BoardOf, Untouched
<1>3. QED
  BY <1>1, <1>2 DEF ChannelOf

LEMMA ServeLocal ==
  ASSUME TypeOK, NEW n \in Node, NEW m \in Node \ {n}, Serves(n)
  PROVE  /\ SameThread(m) /\ SameRegisters(m)
         /\ UNCHANGED <<pc, checking, ret, device, app, faults, ints, busVars>>
<1> USE DEF TypeOK, HwTypeOK, SwTypeOK, SameThread, SameRegisters, app, Node, ClearFlags, SetCtrl,
            TransferComplete
<1>1. CASE DmaHandler(n)
  BY <1>1 DEF DmaHandler, DmaReadComplete, DmaHandlerWaits
<1>2. CASE DmaHandlerEnds(n)
  <2>1. /\ ctrl'[m] = ctrl[m] /\ flags'[m] = flags[m]
        /\ left'[m] = left[m]
    BY <1>2 DEF DmaHandlerEnds
  <2>2. UNCHANGED <<ints, tx, rx, busVars, pc, checking, mem, ret, device, app, faults>>
    BY <1>2 DEF DmaHandlerEnds
  <2>3. QED
    BY <2>1, <2>2
<1>3. CASE DmaMove(n)
  BY <1>3 DEF DmaMove, i2c_data_send, i2c_data_receive
<1>4. QED
  BY <1>1, <1>2, <1>3 DEF Serves

LEMMA ServeTypes ==
  ASSUME TypeOK, ThreadInv, DmaTypeOK, BoardsInv, NEW n \in Node, Serves(n)
  PROVE  TypeOK'
<1>1. UNCHANGED <<pc, checking, ret, device, app, faults, ints, busVars>>
  <2>1. PICK m \in Node : m # n
    BY DEF Node
  <2>2. QED
    BY <2>1, ServeLocal
<1> SUFFICES /\ ctrl' \in [Node -> SUBSET CtrlBits] /\ flags' \in [Node -> SUBSET Flags]
             /\ tx' \in [Node -> Seq(Byte)] /\ rx' \in [Node -> Seq(Byte)]
             /\ left' \in [Node -> Nat] /\ mem' \in [Node -> Seq(Byte)]
  BY <1>1 DEF TypeOK, HwTypeOK, SwTypeOK, busVars, device, app
<1>2. CASE DmaHandler(n)
  <2>1. UNCHANGED <<tx, rx, mem>>
    BY <1>2 DEF DmaHandler
  <2>2. left' \in [Node -> Nat]
    <3>1. left' = [left EXCEPT ![n] = 0] \/ left' = left
      BY <1>2 DEF DmaHandler, DmaReadComplete, DmaHandlerWaits, TransferComplete
    <3>2. QED
      BY <3>1 DEF TypeOK, SwTypeOK
  <2>3. flags' \in [Node -> SUBSET Flags]
    BY <1>2 DEF DmaHandler, DmaReadComplete, DmaHandlerWaits, ClearFlags, TypeOK, HwTypeOK
  <2>4. ctrl' \in [Node -> SUBSET CtrlBits]
    <3>1. CASE DmaReadComplete(n)
      BY <3>1 DEF DmaReadComplete, SetCtrl, TypeOK, HwTypeOK, CtrlBits
    <3>2. CASE DmaHandlerWaits(n)
      BY <3>2 DEF DmaHandlerWaits, TypeOK, HwTypeOK
    <3>3. QED
      BY <1>2, <3>1, <3>2 DEF DmaHandler
  <2>5. QED
    BY <2>1, <2>2, <2>3, <2>4 DEF TypeOK, HwTypeOK, SwTypeOK
<1>3. CASE DmaHandlerEnds(n)
  <2>1. UNCHANGED <<tx, rx, mem>>
    BY <1>3 DEF DmaHandlerEnds
  <2>2. left' \in [Node -> Nat]
    BY <1>3 DEF DmaHandlerEnds, TransferComplete, TypeOK, SwTypeOK
  <2>3. flags' \in [Node -> SUBSET Flags]
    BY <1>3 DEF DmaHandlerEnds, ClearFlags, TypeOK, HwTypeOK
  <2>4. ctrl' \in [Node -> SUBSET CtrlBits]
    <3>1. \/ ctrl' = [ctrl EXCEPT ![n] = (@ \ {}) \cup {"GENSTOP"}]
          \/ ctrl' = [ctrl EXCEPT ![n] = (@ \ {"ACKEN"}) \cup {}]
          \/ ctrl' = ctrl
      BY <1>3 DEF DmaHandlerEnds, SetCtrl
    <3>2. QED
      BY <3>1 DEF TypeOK, HwTypeOK, CtrlBits
  <2>5. QED
    BY <2>1, <2>2, <2>3, <2>4 DEF TypeOK, HwTypeOK, SwTypeOK
<1>4. CASE DmaMove(n)
  <2>1. UNCHANGED <<ctrl, flags, left>>
    BY <1>4 DEF DmaMove
  <2>2. CASE Sends(n)
    <3>1. cnt[n] \in Nat /\ cnt[n] <= Size(n) /\ Waiting(n)
      BY Served DEF DmaTypeOK, ChannelOf
    <3>2. round[n] \in 1 .. Len(plan)
      BY <3>1 DEF Waiting, ThreadInv, ThreadOf
    <3>3. Size(n) \in Nat /\ round[n] \in Nat
      BY <3>2, RoundFacts DEF TypeOK, SwTypeOK
    <3>4. Size(n) - cnt[n] + 1 \in Nat
      BY <3>1, <3>3
    <3>5. <<round[n], Size(n) - cnt[n] + 1>> \in Byte
      BY <3>3, <3>4 DEF Byte
    <3>6. tx' \in [Node -> Seq(Byte)] /\ UNCHANGED <<rx, mem>>
      BY <1>4, <2>2, <3>5, SendDataTypes DEF DmaMove, TypeOK
    <3>7. QED
      BY <2>1, <3>6 DEF TypeOK, HwTypeOK, SwTypeOK
  <2>3. CASE ~Sends(n)
    <3>1. rx[n] # <<>> /\ rx[n] \in Seq(Byte) /\ mem[n] \in Seq(Byte)
      BY <1>4, <2>3 DEF DmaMove, DmaReady, RDBF, TypeOK, HwTypeOK, SwTypeOK
    <3>2. Append(mem[n], Head(rx[n])) \in Seq(Byte) /\ SubSeq(rx[n], 1 + 1, Len(rx[n])) \in Seq(Byte)
      BY <3>1, HeadTailProperties, RestType
    <3>3. /\ mem' = [mem EXCEPT ![n] = Append(mem[n], Head(rx[n]))]
          /\ rx' = [rx EXCEPT ![n] = SubSeq(rx[n], 1 + 1, Len(rx[n]))] /\ UNCHANGED tx
      BY <1>4, <2>3 DEF DmaMove, i2c_data_receive
    <3>4. QED
      BY <2>1, <3>2, <3>3 DEF TypeOK, HwTypeOK, SwTypeOK
  <2>4. QED
    BY <2>2, <2>3
<1>5. QED
  BY <1>2, <1>3, <1>4 DEF Serves

LEMMA ServeScript ==
  ASSUME ScriptInv, DmaTypeOK, BoardsInv, NEW n \in Node, Serves(n)
  PROVE  ScriptInv'
<1>1. TypeOK /\ ScriptFits /\ Recovers /\ ThreadInv /\ CountInv
  BY DEF ScriptInv
<1>2. PICK m \in Node : m # n
  BY DEF Node
<1>3. /\ SameThread(m) /\ SameRegisters(m)
      /\ UNCHANGED <<pc, checking, ret, app>>
  BY <1>1, <1>2, ServeLocal
<1>4. /\ ThreadOf("M") /\ ThreadOf("S") /\ MasterCount /\ SlaveCount /\ NoBoard
  BY <1>1 DEF ThreadInv, CountInv, Node
<1>5. pc[n] \in {"wait_end", "returned", "gave_up"}
  BY Served DEF Waiting
<1>6. TypeOK' /\ ScriptFits' /\ Recovers'
  BY <1>1, <1>3, ServeTypes DEF ScriptFits, Recovers, Steady, app
<1>7. ThreadOf("M")' /\ ThreadOf("S")'
  BY <1>3, <1>4 DEF ThreadOf, PcOf, app
<1>8. \/ n = "M" /\ m = "S"
      \/ n = "S" /\ m = "M"
  BY <1>2 DEF Node
<1>9. MasterCount'
  <2>1. CASE n = "M"
    BY <1>3, <1>5, <2>1 DEF MasterCount
  <2>2. CASE n = "S"
    BY <1>3, <1>4, <1>8, <2>2, MasterThreadFrame DEF app
  <2>3. QED
    BY <1>8, <2>1, <2>2
<1>10. SlaveCount'
  <2>1. CASE n = "S"
    BY <1>3, <1>5, <2>1 DEF SlaveCount
  <2>2. CASE n = "M"
    BY <1>3, <1>4, <1>8, <2>2, SlaveThreadFrame DEF app
  <2>3. QED
    BY <1>8, <2>1, <2>2
<1>11. NoBoard'
  BY <1>3, <1>4, <1>5, <1>8 DEF NoBoard, Memory, app, SameRegisters
<1>12. QED
  BY <1>6, <1>7, <1>9, <1>10, <1>11 DEF ScriptInv, ThreadInv, CountInv, Node

(* The bus does what it does in I2CPolling, but for the acknowledge of a   *)
(* byte that is read with the end-of-transfer bit set.                     *)
ReadByDma ==
  /\ EndedByDma /\ ~DmaReady("M")
  /\ HwReadByteAck(cnt["M"] # 1)
  /\ Quiet /\ UNCHANGED faults

LEMMA DmaBusSteps ==
  ASSUME DmaBus
  PROVE  Bus \/ ReadByDma
<1>1. CASE ~EndedByDma
  <2>1. DmaMasterAcks = MasterAcks
    BY <1>1 DEF DmaMasterAcks
  <2>2. HwReadByteAck(DmaMasterAcks) => HwReadByte
    BY <2>1 DEF HwReadByte
  <2>3. QED
    BY <2>2 DEF DmaBus, Bus, DmaInTime
<1>2. CASE EndedByDma
  <2>1. DmaMasterAcks = (cnt["M"] # 1)
    BY <1>2 DEF DmaMasterAcks
  <2>2. HwReadByteAck(DmaMasterAcks) => HwReadByteAck(cnt["M"] # 1)
    BY <2>1
  <2>3. QED
    BY <1>2, <2>2 DEF DmaBus, Bus, DmaInTime, ReadByDma, Node
<1>3. QED
  BY <1>1, <1>2

LEMMA ReadByDmaScript ==
  ASSUME ScriptInv, ReadByDma
  PROVE  ScriptInv'
<1>1. TypeOK /\ ScriptFits /\ Recovers /\ ThreadInv /\ CountInv
  BY DEF ScriptInv
<1>2. UNCHANGED <<pc, checking, local, device, app, faults, ctrl>>
  BY DEF ReadByDma, Quiet, HwReadByteAck
<1>3. TypeOK'
  BY <1>1, <1>2, ReadByteTypes DEF TypeOK, SwTypeOK, ReadByDma, local, device, app
<1>4. /\ SameThread("M") /\ SameThread("S") /\ UNCHANGED <<plan, env>>
  BY <1>2 DEF SameThread, local, app
<1>5. ScriptFits' /\ Recovers'
  BY <1>1, <1>4 DEF ScriptFits, Recovers, Steady
<1>6. ThreadOf("M")' /\ ThreadOf("S")' /\ MasterCount' /\ SlaveCount'
  BY <1>1, <1>4, MasterThreadFrame, SlaveThreadFrame DEF ThreadInv, CountInv, Node
<1>7. NoBoard'
  BY <1>1, <1>2 DEF ThreadInv, NoBoard, Memory, app
<1>8. QED
  BY <1>3, <1>5, <1>6, <1>7 DEF ScriptInv, ThreadInv, CountInv, Node

(* Every step keeps what is said of script and threads.                    *)
LEMMA DmaScriptStep ==
  ASSUME ScriptInv, DmaTypeOK, BoardsInv, [DmaNext]_allVars
  PROVE  ScriptInv'
<1>1. CASE \E n \in Node : Cpu(n)
  <2>1. PICK n \in Node : Cpu(n)
    BY <1>1
  <2>2. CASE ByDma(n) /\ DmaMain(n)
    BY <2>2, SharedSteps, MainScript, OwnScript DEF ScriptInv
  <2>3. CASE Main(n)
    BY <2>3, MainScript
  <2>4. CASE DmaHandler(n) \/ DmaHandlerEnds(n)
    BY <2>4, ServeScript DEF Serves
  <2>5. QED
    BY <2>1, <2>2, <2>3, <2>4 DEF Cpu, BoardMain
<1>2. CASE Hardware
  <2>1. CASE DmaBus
    BY <2>1, DmaBusSteps, ReadByDmaScript, ScriptStep DEF Next
  <2>2. CASE Device
    BY <2>2, ScriptStep DEF Next
  <2>3. CASE \E n \in Node : DmaMove(n)
    BY <2>3, ServeScript DEF Serves
  <2>4. QED
    BY <1>2, <2>1, <2>2, <2>3 DEF Hardware
<1>3. CASE DmaFault
  BY <1>3, ScriptStep DEF DmaFault, Next
<1>4. CASE UNCHANGED allVars
  BY <1>4, ScriptStep DEF allVars
<1>5. QED
  BY <1>1, <1>2, <1>3, <1>4 DEF DmaNext

(***************************************************************************)
(* The handle and the channel of each board.                               *)
(***************************************************************************)

SameBoard(m) ==
  UNCHANGED <<mode[m], status[m], error_code[m], isr[m], dmaen[m], cnt[m], tcint[m], tc[m]>>

LEMMA SameHandle ==
  ASSUME NEW n \in Node, UNCHANGED <<env, plan, round[n]>>
  PROVE  /\ Size(n)' = Size(n) /\ ModeOf(n)' = ModeOf(n) /\ ByDma(n)' = ByDma(n)
         /\ OnlyPolled(n)' = OnlyPolled(n)
         /\ n = "M" => Reads("M")' = Reads("M")
<1>1. Size(n)' = Size(n) /\ Reads(n)' = Reads(n)
  BY SameRound
<1>2. ModeOf(n)' = ModeOf(n)
  <2>1. CASE n = "M"
    BY <1>1, <2>1 DEF ModeOf
  <2>2. CASE n = "S"
    BY <1>1, <2>2 DEF ModeOf
  <2>3. QED
    BY <2>1, <2>2 DEF Node
<1>3. QED
  BY <1>1, <1>2 DEF ByDma, OnlyPolled

(* A step of one board leaves the other's handle and channel alone.        *)
LEMMA BoardFrame ==
  ASSUME NEW m \in Node, BoardOf(m), SameThread(m), SameBoard(m), UNCHANGED <<env, plan>>
  PROVE  BoardOf(m)'
<1>1. /\ Size(m)' = Size(m) /\ ModeOf(m)' = ModeOf(m) /\ ByDma(m)' = ByDma(m)
      /\ OnlyPolled(m)' = OnlyPolled(m)
      /\ m = "M" => Reads("M")' = Reads("M")
  BY SameHandle DEF SameThread
<1>2. HandleOf(m)' = HandleOf(m) /\ Waiting(m)' = Waiting(m)
  BY <1>1 DEF HandleOf, Waiting, SameThread, SameBoard
<1>3. ChannelOf(m)' = ChannelOf(m)
  BY <1>1, <1>2 DEF ChannelOf, SameThread, SameBoard
<1>4. Untouched(m)' = Untouched(m)
  BY DEF Untouched, SameBoard
<1>5. QED
  BY <1>1, <1>2, <1>3, <1>4 DEF BoardOf

(* What the proofs about a board's own steps start from.                   *)
BoardFacts(n) ==
  /\ ByDma(n) /\ HandleOf(n) /\ ChannelOf(n) /\ Recovers
  /\ checking[n] => pc[n] \in Waits
  /\ pc \in [Node -> MainPc] /\ ret \in [Node -> {"OK", "ERR"}] /\ left \in [Node -> Nat]
  /\ mode \in [Node -> Modes] /\ status \in [Node -> {"START", "END"}]
  /\ error_code \in [Node -> {"OK", "ERR"}]
  /\ isr \in [Node -> {"none", "tdc", "ackfail", "stopf"}]
  /\ dmaen \in [Node -> BOOLEAN] /\ cnt \in [Node -> Nat]
  /\ tcint \in [Node -> BOOLEAN] /\ tc \in [Node -> BOOLEAN]

LEMMA BoardStart ==
  ASSUME ScriptInv, DmaTypeOK, BoardsInv, NEW n \in Node, ByDma(n)
  PROVE  BoardFacts(n)
BY DEF ScriptInv, ThreadInv, ThreadOf, TypeOK, SwTypeOK, DmaTypeOK, BoardsInv, BoardOf, BoardFacts

(* With the CPU free for the main thread no transfer has just completed,   *)
(* and only a call that waits for its end has requests enabled.            *)
LEMMA CpuIsFree ==
  ASSUME NEW n \in Node, BoardFacts(n), CpuFree(n)
  PROVE  /\ isr[n] = "none" /\ ~tc[n]
         /\ status[n] = "END" \/ pc[n] \notin {"wait_end", "returned", "gave_up"} => ~dmaen[n]
BY DEF BoardFacts, CpuFree, Request, ChannelOf, Waiting

(* The handle goes with the thread through START and address.              *)
LEMMA HandleMoves ==
  ASSUME NEW n \in Node, BoardFacts(n), CpuFree(n), SameBoard(n), UNCHANGED <<env, plan, left[n], round[n]>>,
         pc[n] \in Configured, pc'[n] \in Configured \ OnlyPolled(n)
  PROVE  BoardOf(n)'
<1>1. /\ Size(n)' = Size(n) /\ ModeOf(n)' = ModeOf(n) /\ ByDma(n)' = ByDma(n)
      /\ OnlyPolled(n)' = OnlyPolled(n)
  BY SameHandle
<1>2. status[n] = "START" /\ ~dmaen[n] /\ ~tc[n] /\ isr[n] = "none"
  BY CpuIsFree DEF BoardFacts, HandleOf, Configured
<1>3. HandleOf(n)'
  BY <1>1, <1>2 DEF BoardFacts, HandleOf, Configured, SameBoard
<1>4. ChannelOf(n)'
  BY <1>2 DEF ChannelOf, SameBoard, Configured
<1>5. QED
  BY <1>1, <1>3, <1>4 DEF BoardFacts, BoardOf

(* From there on the thread waits for the end of the call.                 *)
LEMMA HandleWaits ==
  ASSUME NEW n \in Node, BoardFacts(n), CpuFree(n), UNCHANGED <<env, plan, left[n], round[n]>>,
         UNCHANGED <<mode[n], status[n], error_code[n], isr[n], cnt[n], tcint[n], tc[n]>>,
         pc[n] \in Configured, pc'[n] = "wait_end", dmaen'[n] = TRUE, Size(n) \in Nat
  PROVE  BoardOf(n)'
<1>1. /\ Size(n)' = Size(n) /\ ModeOf(n)' = ModeOf(n) /\ ByDma(n)' = ByDma(n)
      /\ OnlyPolled(n)' = OnlyPolled(n) /\ pc'[n] \notin OnlyPolled(n)
  BY SameHandle DEF OnlyPolled
<1>2. /\ status[n] = "START" /\ ~tc[n] /\ isr[n] = "none" /\ cnt[n] = Size(n) /\ tcint[n]
  BY CpuIsFree DEF BoardFacts, HandleOf, Configured
<1>3. HandleOf(n)'
  BY <1>1, <1>2 DEF BoardFacts, HandleOf, Configured
<1>4. ChannelOf(n)'
  BY <1>1, <1>2 DEF ChannelOf, Waiting
<1>5. QED
  BY <1>1, <1>3, <1>4 DEF BoardFacts, BoardOf

(* The start of a call, and what the application does after it.            *)
LEMMA ApplicationBoard ==
  ASSUME NEW n \in Node, BoardFacts(n), CpuFree(n), UNCHANGED <<env, plan>>,
         DmaStartCall(n) \/ DmaTryAgain(n) \/ ((NextRound(n) \/ GiveUp(n)) /\ UNCHANGED dmaVars)
  PROVE  BoardOf(n)'
<1> USE DEF Goto, Stay, app
<1>1. isr[n] = "none" /\ ~tc[n] /\ ByDma(n)' = ByDma(n)
  BY CpuIsFree DEF ByDma
<1> SUFFICES HandleOf(n)' /\ ChannelOf(n)'
  BY <1>1 DEF BoardOf, BoardFacts
<1>2. CASE DmaStartCall(n)
  <2>1. /\ pc[n] = "idle" /\ pc'[n] = "free" /\ left'[n] = Size(n) /\ mode'[n] = ModeOf(n)
        /\ status'[n] = "START" /\ error_code'[n] = "OK"
        /\ UNCHANGED <<round, isr, dmaen, cnt, tcint, tc>>
    BY <1>2 DEF BoardFacts, DmaStartCall, chan
  <2>2. ~dmaen[n]
    BY <2>1 DEF BoardFacts, ChannelOf, Waiting
  <2>3. Size(n)' = Size(n) /\ ModeOf(n)' = ModeOf(n)
    BY <2>1, SameHandle
  <2>4. HandleOf(n)'
    BY <2>1, <2>3 DEF HandleOf, OnlyPolled, Configured
  <2>5. ChannelOf(n)'
    BY <1>1, <2>1, <2>2 DEF ChannelOf
  <2>6. QED
    BY <2>4, <2>5
<1>3. CASE DmaTryAgain(n)
  <2>1. /\ pc[n] = "returned" /\ pc'[n] = "idle" /\ dmaen'[n] = (dmaen[n] /\ ~env.reset)
        /\ UNCHANGED <<mode, status, error_code, isr, cnt, tcint, tc>>
    BY <1>3 DEF BoardFacts, DmaTryAgain, TryAgain, Board
  <2>2. ~dmaen'[n]
    <3>1. dmaen[n] => env.timeouts
      BY <2>1 DEF BoardFacts, ChannelOf, Waiting
    <3>2. dmaen[n] => env.reset
      BY <3>1 DEF BoardFacts, Recovers, Steady
    <3>3. QED
      BY <2>1, <3>2
  <2>3. HandleOf(n)'
    BY <2>1 DEF BoardFacts, HandleOf, OnlyPolled, Configured
  <2>4. ChannelOf(n)'
    BY <1>1, <2>1, <2>2 DEF ChannelOf
  <2>5. QED
    BY <2>3, <2>4
<1>4. CASE NextRound(n) /\ UNCHANGED dmaVars
  <2>1. /\ pc[n] = "returned" /\ ret[n] = "OK" /\ pc'[n] \in {"idle", "done"}
        /\ UNCHANGED <<mode, status, error_code, isr, dmaen, cnt, tcint, tc>>
    BY <1>4 DEF BoardFacts, NextRound, dmaVars, chan
  <2>2. ~dmaen[n]
    BY <2>1 DEF BoardFacts, ChannelOf, Waiting
  <2>3. HandleOf(n)'
    BY <2>1 DEF BoardFacts, HandleOf, OnlyPolled, Configured
  <2>4. ChannelOf(n)'
    BY <1>1, <2>1, <2>2 DEF ChannelOf
  <2>5. QED
    BY <2>3, <2>4
<1>5. CASE GiveUp(n) /\ UNCHANGED dmaVars
  <2>1. /\ pc[n] = "returned" /\ ret[n] = "ERR" /\ pc'[n] = "gave_up"
        /\ UNCHANGED <<round, left, ret, mode, status, error_code, isr, dmaen, cnt, tcint, tc>>
    BY <1>5 DEF BoardFacts, GiveUp, local, dmaVars, chan
  <2>2. Size(n)' = Size(n) /\ ModeOf(n)' = ModeOf(n)
    BY <2>1, SameHandle
  <2>3. HandleOf(n)'
    BY <2>1, <2>2 DEF BoardFacts, HandleOf, OnlyPolled, Configured
  <2>4. ChannelOf(n)'
    BY <1>1, <2>1, <2>2 DEF BoardFacts, ChannelOf, Waiting
  <2>5. QED
    BY <2>3, <2>4
<1>6. QED
  BY <1>2, <1>3, <1>4, <1>5

(* The waits of i2c_wait_flag, and the clean-up.                           *)
LEMMA WaitBoard ==
  ASSUME NEW n \in Node, BoardFacts(n), CpuFree(n), UNCHANGED <<env, plan>>,
         Wait(n), UNCHANGED dmaVars
  PROVE  BoardOf(n)'
<1> USE DEF Goto, Return, Stay, app
<1>1. isr[n] = "none" /\ ~tc[n] /\ ByDma(n)' = ByDma(n)
  BY CpuIsFree DEF ByDma
<1>2. /\ pc[n] \in Waits \cup {"fail"} /\ UNCHANGED <<round, left>>
      /\ pc'[n] = pc[n] \/ pc'[n] \in {"fail", "returned"}
      /\ UNCHANGED <<mode, status, error_code, isr, dmaen, cnt, tcint, tc>>
  <2>1. UNCHANGED <<mode, status, error_code, isr, dmaen, cnt, tcint, tc>>
    BY DEF dmaVars, chan
  <2>2. CASE LookAgain(n) \/ NoEvent(n)
    BY <2>1, <2>2 DEF BoardFacts, LookAgain, NoEvent, local
  <2>3. CASE WaitAckFail(n) \/ WaitStop(n) \/ WaitTimeout(n) \/ CleanUp(n)
    BY <2>1, <2>3 DEF BoardFacts, WaitAckFail, WaitStop, WaitTimeout, CleanUp, local
  <2>4. QED
    BY <2>2, <2>3 DEF Wait
<1>3. status[n] = "START" /\ ~dmaen[n]
  <2>1. pc[n] \notin {"idle", "done", "wait_end", "returned", "gave_up"}
    BY <1>2 DEF Waits
  <2>2. QED
    BY <2>1, CpuIsFree DEF BoardFacts, HandleOf
<1>4. Size(n)' = Size(n) /\ ModeOf(n)' = ModeOf(n) /\ OnlyPolled(n)' = OnlyPolled(n)
  BY <1>2, SameHandle
<1>5. HandleOf(n)'
  <2>1. pc'[n] \notin OnlyPolled(n)
    BY <1>2 DEF BoardFacts, HandleOf, OnlyPolled
  <2>2. pc[n] \notin {"idle", "done"}
    BY <1>2 DEF Waits
  <2>3. QED
    BY <1>2, <1>3, <1>4, <2>1, <2>2 DEF BoardFacts, HandleOf, Configured
<1>6. ChannelOf(n)'
  <2>1. pc'[n] # "wait_end"
    BY <1>2 DEF Waits
  <2>2. QED
    BY <1>1, <1>2, <1>3, <2>1 DEF ChannelOf
<1>7. QED
  BY <1>1, <1>5, <1>6 DEF BoardOf, BoardFacts

(* The channel is configured once the bus is free.                         *)
LEMMA ConfigBoard ==
  ASSUME NEW n \in Node, BoardFacts(n), CpuFree(n), UNCHANGED <<env, plan>>,
         i2c_dma_config(n), Board(n), UNCHANGED <<left, round>>,
         pc[n] = "free", pc'[n] \in {"startf", "addr7"}
  PROVE  BoardOf(n)'
<1>1. /\ isr[n] = "none" /\ ~tc[n] /\ ~dmaen[n]
      /\ UNCHANGED <<mode, status, error_code, isr, tc>>
      /\ ~dmaen'[n] /\ cnt'[n] = left[n] /\ tcint'[n]
  BY CpuIsFree DEF BoardFacts, Board, i2c_dma_config
<1>2. /\ Size(n)' = Size(n) /\ ModeOf(n)' = ModeOf(n) /\ ByDma(n)' = ByDma(n)
      /\ OnlyPolled(n)' = OnlyPolled(n)
  BY SameHandle
<1>3. status[n] = "START" /\ left[n] = Size(n)
  BY DEF BoardFacts, HandleOf
<1>4. HandleOf(n)'
  BY <1>1, <1>2, <1>3 DEF BoardFacts, HandleOf, OnlyPolled
<1>5. ChannelOf(n)'
  BY <1>1 DEF ChannelOf
<1>6. QED
  BY <1>2, <1>4, <1>5 DEF BoardOf, BoardFacts

(* From START to the transfer.                                             *)
LEMMA TransferBoard ==
  ASSUME NEW n \in Node, BoardFacts(n), CpuFree(n), UNCHANGED <<env, plan>>, Size(n) \in Nat,
         \/ n = "M" /\ DmaMaster
         \/ n = "S" /\ DmaSlave
         \/ DmaClearAddrToSend(n) \/ DmaEnable(n)
  PROVE  BoardOf(n)'
<1> USE DEF Goto, Stay, app, local, Came
<1>1. CASE n = "M" /\ DmaGenerateStart
  <2>1. /\ pc[n] = "free" /\ pc'[n] = "startf" /\ UNCHANGED <<left, round>>
        /\ i2c_dma_config(n) /\ Board(n)
    BY <1>1 DEF BoardFacts, DmaGenerateStart, GenerateStart
  <2>2. QED
    BY <2>1, ConfigBoard
<1>2. CASE n = "S" /\ DmaEnableAck
  <2>1. /\ pc[n] = "free" /\ pc'[n] = "addr7" /\ UNCHANGED <<left, round>>
        /\ i2c_dma_config(n) /\ Board(n)
    BY <1>2 DEF BoardFacts, DmaEnableAck
  <2>2. QED
    BY <2>1, ConfigBoard
<1>3. CASE n = "M" /\ (SendAddress \/ SendRegister \/ GenerateRestart) /\ UNCHANGED dmaVars
  <2>1. /\ pc[n] \in Configured /\ pc'[n] \in Configured \ OnlyPolled("M")
        /\ UNCHANGED <<left, round>>
    BY <1>3 DEF BoardFacts, SendAddress, SendRegister, GenerateRestart, Configured, OnlyPolled
  <2>2. SameBoard(n)
    BY <1>3 DEF SameBoard, dmaVars, chan
  <2>3. QED
    BY <1>3, <2>1, <2>2, HandleMoves
<1>4. CASE n = "M" /\ (DmaClearAddrOfDevice \/ DmaAckOff \/ DmaStop)
  <2>1. /\ pc[n] \in Configured /\ pc'[n] \in Configured \ OnlyPolled("M")
        /\ UNCHANGED <<left, round>> /\ Board(n) /\ UNCHANGED chan
    BY <1>4 DEF BoardFacts, DmaClearAddrOfDevice, DmaAckOff, DmaStop, Configured, OnlyPolled
  <2>2. SameBoard(n)
    BY <2>1 DEF SameBoard, Board, chan
  <2>3. QED
    BY <1>4, <2>1, <2>2, HandleMoves
<1>5. CASE n = "M" /\ DmaClearAddrToRead
  <2>1. pc[n] \in Configured /\ UNCHANGED <<left, round>> /\ Board(n) /\ UNCHANGED <<cnt, tcint, tc>>
    BY <1>5 DEF BoardFacts, DmaClearAddrToRead, Configured, chan
  <2>2. CASE pc'[n] = "dma_ack"
    <3>1. pc'[n] \in Configured \ OnlyPolled("M")
      BY <2>2 DEF Configured, OnlyPolled
    <3>2. UNCHANGED dmaen
      BY <1>5, <2>2 DEF BoardFacts, DmaClearAddrToRead, chan
    <3>3. SameBoard(n)
      BY <2>1, <3>2 DEF SameBoard, Board
    <3>4. QED
      BY <1>5, <2>1, <3>1, <3>3, HandleMoves
  <2>3. CASE pc'[n] # "dma_ack"
    <3>1. pc'[n] = "wait_end" /\ dmaen'[n] = TRUE
      BY <1>5, <2>3 DEF BoardFacts, DmaClearAddrToRead, EnableDma
    <3>2. QED
      BY <2>1, <3>1, HandleWaits DEF Board
  <2>4. QED
    BY <2>2, <2>3
<1>6. CASE n = "S" /\ DmaClearAddrToReceive
  <2>1. /\ pc[n] \in Configured /\ pc'[n] = "wait_end" /\ dmaen'[n] = TRUE
        /\ UNCHANGED <<left, round>> /\ Board(n) /\ UNCHANGED <<cnt, tcint, tc>>
    BY <1>6 DEF BoardFacts, DmaClearAddrToReceive, EnableDma, Configured
  <2>2. QED
    BY <2>1, HandleWaits DEF Board
<1>7. CASE DmaClearAddrToSend(n)
  <2>1. /\ pc[n] \in Configured /\ pc'[n] \in Configured \ OnlyPolled(n)
        /\ UNCHANGED <<left, round>> /\ Board(n) /\ UNCHANGED chan
    BY <1>7 DEF BoardFacts, DmaClearAddrToSend, Configured, OnlyPolled
  <2>2. SameBoard(n)
    BY <2>1 DEF SameBoard, Board, chan
  <2>3. QED
    BY <2>1, <2>2, HandleMoves
<1>8. CASE DmaEnable(n)
  <2>1. /\ pc[n] \in Configured /\ pc'[n] = "wait_end" /\ dmaen'[n] = TRUE
        /\ UNCHANGED <<left, round>> /\ Board(n) /\ UNCHANGED <<cnt, tcint, tc>>
    BY <1>8 DEF BoardFacts, DmaEnable, EnableDma, Configured
  <2>2. QED
    BY <2>1, HandleWaits DEF Board
<1>9. QED
  BY <1>1, <1>2, <1>3, <1>4, <1>5, <1>6, <1>7, <1>8 DEF DmaMaster, DmaSlave

(* The wait ends, or gives up.                                             *)
LEMMA EndBoard ==
  ASSUME NEW n \in Node, BoardFacts(n), CpuFree(n), UNCHANGED <<env, plan>>, i2c_wait_end(n)
  PROVE  BoardOf(n)'
<1>1. /\ pc[n] = "wait_end" /\ pc'[n] = "returned" /\ UNCHANGED <<left, round>>
      /\ UNCHANGED <<mode, status, error_code, isr, dmaen, cnt, tcint, tc>>
      /\ status[n] = "END" \/ (env.timeouts /\ ret'[n] = "ERR")
  BY DEF BoardFacts, i2c_wait_end, Goto, Return, Stay, app, Board, chan
<1>2. /\ Size(n)' = Size(n) /\ ModeOf(n)' = ModeOf(n) /\ ByDma(n)' = ByDma(n)
      /\ OnlyPolled(n)' = OnlyPolled(n)
  BY <1>1, SameHandle
<1>3. HandleOf(n)'
  BY <1>1, <1>2 DEF BoardFacts, HandleOf, OnlyPolled, Configured
<1>4. ChannelOf(n)'
  <2>1. isr[n] = "none" /\ ~tc[n] /\ (status[n] = "END" => ~dmaen[n])
    BY CpuIsFree
  <2>2. QED
    BY <1>1, <1>2, <2>1 DEF BoardFacts, ChannelOf, Waiting
<1>5. QED
  BY <1>2, <1>3, <1>4 DEF BoardOf, BoardFacts

(* The handlers and the controller.                                        *)
LEMMA ServeBoard ==
  ASSUME NEW n \in Node, BoardFacts(n), UNCHANGED <<pc, ret, app>>, Serves(n),
         dmaen[n], status[n] = "START", Waiting(n), Size(n) \in Nat
  PROVE  BoardOf(n)'
<1>1. /\ Size(n)' = Size(n) /\ ModeOf(n)' = ModeOf(n) /\ ByDma(n)' = ByDma(n)
      /\ OnlyPolled(n)' = OnlyPolled(n) /\ (n = "M" => Reads("M")' = Reads("M"))
  BY SameHandle DEF app
<1>2. pc[n] \in {"wait_end", "returned", "gave_up"} /\ Waiting(n)' /\ mode[n] = ModeOf(n)
  BY DEF Waiting, app, BoardFacts, HandleOf
<1>3. CASE DmaHandler(n)
  <2>1. tc[n] /\ isr[n] = "none" /\ cnt[n] = 0 /\ ~tc'[n] /\ ~tcint'[n] /\ UNCHANGED <<mode, error_code, cnt>>
    BY <1>3 DEF BoardFacts, DmaHandler, Request, ChannelOf
  <2>2. CASE DmaReadComplete(n)
    <3>1. ~dmaen'[n] /\ status'[n] = "END" /\ UNCHANGED isr
      BY <2>2 DEF BoardFacts, DmaReadComplete, TransferComplete
    <3>2. HandleOf(n)'
      BY <1>1, <1>2, <2>1, <3>1 DEF BoardFacts, HandleOf, Configured, app
    <3>3. ChannelOf(n)'
      BY <2>1, <3>1 DEF ChannelOf
    <3>4. QED
      BY <1>1, <3>2, <3>3 DEF BoardOf, BoardFacts
  <2>3. CASE DmaHandlerWaits(n)
    <3>1. UNCHANGED <<left, dmaen, status>> /\ isr'[n] # "none"
      BY <2>3 DEF DmaHandlerWaits
    <3>2. ASSUME n = "M" PROVE isr'["M"] = "tdc" /\ ~Reads("M")
      BY <1>2, <2>3, <3>2 DEF BoardFacts, DmaHandlerWaits, ModeOf
    <3>3. HandleOf(n)'
      BY <1>1, <1>2, <2>1, <3>1 DEF BoardFacts, HandleOf, Configured, app
    <3>4. ChannelOf(n)'
      BY <1>1, <1>2, <2>1, <3>1, <3>2 DEF BoardFacts, ChannelOf
    <3>5. QED
      BY <1>1, <3>3, <3>4 DEF BoardOf, BoardFacts
  <2>4. QED
    BY <1>3, <2>2, <2>3 DEF DmaHandler
<1>4. CASE DmaHandlerEnds(n)
  <2>1. /\ isr[n] # "none" /\ isr'[n] = "none" /\ ~dmaen'[n] /\ status'[n] = "END"
        /\ UNCHANGED <<mode, cnt, tcint, tc>> /\ cnt[n] = 0 /\ ~tc[n]
        /\ error_code'[n] = "ERR" => env.timeouts
    <3>1. /\ isr[n] # "none" /\ isr'[n] = "none" /\ ~dmaen'[n] /\ status'[n] = "END"
          /\ UNCHANGED <<mode, cnt, tcint, tc>>
      BY <1>4 DEF BoardFacts, DmaHandlerEnds, TransferComplete
    <3>2. error_code'[n] = "ERR" => env.timeouts
      BY <1>4 DEF BoardFacts, DmaHandlerEnds, HandleOf
    <3>3. QED
      BY <3>1, <3>2 DEF BoardFacts, ChannelOf
  <2>2. HandleOf(n)'
    BY <1>1, <1>2, <2>1 DEF BoardFacts, HandleOf, Configured, app
  <2>3. ChannelOf(n)'
    BY <2>1 DEF ChannelOf
  <2>4. QED
    BY <1>1, <2>2, <2>3 DEF BoardOf, BoardFacts
<1>5. CASE DmaMove(n)
  <2>1. /\ cnt[n] \in Nat /\ cnt[n] > 0 /\ cnt'[n] = cnt[n] - 1 /\ tc'[n] = (cnt[n] = 1)
        /\ UNCHANGED <<left, mode, status, error_code, isr, dmaen, tcint>>
    BY <1>5 DEF BoardFacts, DmaMove, DmaReady
  <2>2. isr[n] = "none" /\ ~tc[n] /\ cnt[n] <= Size(n)
    BY <2>1 DEF BoardFacts, ChannelOf
  <2>3. HandleOf(n)'
    BY <1>1, <1>2, <2>1 DEF BoardFacts, HandleOf, Configured, app
  <2>4. cnt'[n] <= Size(n) /\ (tc'[n] => cnt'[n] = 0)
    <3>1. \A c, s \in Nat : c > 0 /\ c <= s => c - 1 <= s /\ (c = 1 => c - 1 = 0)
      OBVIOUS
    <3>2. cnt[n] - 1 <= Size(n) /\ (cnt[n] = 1 => cnt[n] - 1 = 0)
      BY <2>1, <2>2, <3>1
    <3>3. tc'[n] => cnt[n] = 1
      BY ONLY <2>1, Zenon
    <3>4. QED
      BY <2>1, <3>2, <3>3
  <2>5. ChannelOf(n)'
    BY <1>1, <1>2, <2>1, <2>2, <2>4 DEF BoardFacts, ChannelOf
  <2>6. QED
    BY <1>1, <2>3, <2>5 DEF BoardOf, BoardFacts
<1>6. QED
  BY <1>3, <1>4, <1>5 DEF Serves

(* Types of handle and channel.                                            *)
DmaVarTypes ==
  /\ mode \in [Node -> Modes]
  /\ status \in [Node -> {"START", "END"}]
  /\ error_code \in [Node -> {"OK", "ERR"}]
  /\ isr \in [Node -> {"none", "tdc", "ackfail", "stopf"}]
  /\ dmaen \in [Node -> BOOLEAN]
  /\ last \in [Node -> BOOLEAN]
  /\ cnt \in [Node -> Nat]
  /\ tcint \in [Node -> BOOLEAN]
  /\ tc \in [Node -> BOOLEAN]

LEMMA SameDmaTypes ==
  ASSUME DmaVarTypes, UNCHANGED dmaVars
  PROVE  DmaVarTypes'
BY DEF DmaVarTypes, dmaVars, chan

LEMMA MainDmaTypes ==
  ASSUME DmaVarTypes, left \in [Node -> Nat], NEW n \in Node, DmaMain(n)
  PROVE  DmaVarTypes'
<1> USE DEF DmaVarTypes, chan, Board
<1>1. CASE DmaStartCall(n)
  <2>1. ModeOf(n) \in Modes
    BY DEF ModeOf, Modes
  <2>2. QED
    BY <1>1, <2>1 DEF DmaStartCall
<1>2. CASE DmaTryAgain(n)
  BY <1>2 DEF DmaTryAgain
<1>3. CASE DmaClearAddrToSend(n) \/ i2c_wait_end(n)
  BY <1>3 DEF DmaClearAddrToSend, i2c_wait_end
<1>4. CASE DmaEnable(n)
  BY <1>4 DEF DmaEnable, EnableDma
<1>5. CASE (NextRound(n) \/ GiveUp(n) \/ Wait(n)) /\ UNCHANGED dmaVars
  BY <1>5, SameDmaTypes
<1>6. CASE n = "M" /\ DmaMaster
  <2>1. CASE DmaGenerateStart
    BY <1>6, <2>1 DEF DmaGenerateStart, i2c_dma_config
  <2>2. CASE DmaClearAddrOfDevice \/ DmaAckOff \/ DmaStop
    BY <2>2 DEF DmaClearAddrOfDevice, DmaAckOff, DmaStop
  <2>3. CASE DmaClearAddrToRead
    BY <2>3 DEF DmaClearAddrToRead, EnableDma
  <2>4. CASE UNCHANGED dmaVars
    BY <2>4, SameDmaTypes
  <2>5. QED
    BY <1>6, <2>1, <2>2, <2>3, <2>4 DEF DmaMaster
<1>7. CASE n = "S" /\ DmaSlave
  <2>1. CASE DmaEnableAck
    <3>1. UNCHANGED <<mode, status, error_code, isr, last, tc>>
      BY <2>1 DEF DmaEnableAck, i2c_dma_config
    <3>2. /\ dmaen' = [dmaen EXCEPT !["S"] = FALSE]
          /\ cnt' = [cnt EXCEPT !["S"] = left["S"]]
          /\ tcint' = [tcint EXCEPT !["S"] = TRUE]
      BY <2>1 DEF DmaEnableAck, i2c_dma_config
    <3>3. dmaen' \in [Node -> BOOLEAN] /\ tcint' \in [Node -> BOOLEAN] /\ cnt' \in [Node -> Nat]
      BY <3>2 DEF Node
    <3>4. QED
      BY <3>1, <3>3
  <2>2. CASE DmaClearAddrToReceive
    BY <2>2 DEF DmaClearAddrToReceive, EnableDma
  <2>3. QED
    BY <1>7, <2>1, <2>2 DEF DmaSlave
<1>8. QED
  BY <1>1, <1>2, <1>3, <1>4, <1>5, <1>6, <1>7 DEF DmaMain

LEMMA ServeDmaTypes ==
  ASSUME DmaVarTypes, NEW n \in Node, Serves(n)
  PROVE  DmaVarTypes'
<1> USE DEF DmaVarTypes
<1>1. CASE DmaHandler(n)
  <2>1. UNCHANGED <<mode, error_code, last, cnt>> /\ tcint' \in [Node -> BOOLEAN] /\ tc' \in [Node -> BOOLEAN]
    BY <1>1 DEF DmaHandler
  <2>2. CASE DmaReadComplete(n)
    BY <2>1, <2>2 DEF DmaReadComplete, TransferComplete
  <2>3. CASE DmaHandlerWaits(n)
    <3>1. isr' \in [Node -> {"none", "tdc", "ackfail", "stopf"}]
      BY <2>3 DEF DmaHandlerWaits
    <3>2. QED
      BY <2>1, <2>3, <3>1 DEF DmaHandlerWaits
  <2>4. QED
    BY <1>1, <2>2, <2>3 DEF DmaHandler
<1>2. CASE DmaHandlerEnds(n)
  <2>1. error_code' \in [Node -> {"OK", "ERR"}]
    BY <1>2 DEF DmaHandlerEnds
  <2>2. QED
    BY <1>2, <2>1 DEF DmaHandlerEnds, TransferComplete
<1>3. CASE DmaMove(n)
  <2>1. cnt[n] - 1 \in Nat
    BY <1>3 DEF DmaMove, DmaReady
  <2>2. cnt' \in [Node -> Nat] /\ tc' \in [Node -> BOOLEAN]
    BY <1>3, <2>1 DEF DmaMove
  <2>3. QED
    BY <1>3, <2>2 DEF DmaMove
<1>4. QED
  BY <1>1, <1>2, <1>3 DEF Serves

LEMMA DmaTypesStep ==
  ASSUME ScriptInv, DmaTypeOK, ScriptInv', [DmaNext]_allVars
  PROVE  DmaTypeOK'
<1>1. DmaVarTypes /\ left \in [Node -> Nat]
  BY DEF DmaTypeOK, DmaVarTypes
<1>2. DmaVarTypes'
  <2>1. CASE \E n \in Node : Cpu(n)
    BY <1>1, <2>1, MainDmaTypes, ServeDmaTypes, SameDmaTypes DEF Cpu, BoardMain, Serves
  <2>2. CASE Hardware
    BY <1>1, <2>2, ServeDmaTypes, SameDmaTypes DEF Hardware, Serves, DmaBus
  <2>3. CASE DmaFault \/ UNCHANGED allVars
    BY <1>1, <2>3, SameDmaTypes DEF DmaFault, allVars
  <2>4. QED
    BY <2>1, <2>2, <2>3 DEF DmaNext
<1>3. QED
  BY <1>2 DEF ScriptInv, TypeOK, SwTypeOK, DmaTypeOK, DmaVarTypes

(* A board's step leaves the other board alone.                            *)
LEMMA MainApart ==
  ASSUME ScriptInv, DmaTypeOK, NEW n \in Node, NEW m \in Node \ {n}, ByDma(n), DmaMain(n)
  PROVE  SameThread(m) /\ SameRegisters(m) /\ SameBoard(m) /\ UNCHANGED <<env, plan, device, faults>>
<1>1. SameThread(m) /\ SameRegisters(m) /\ UNCHANGED <<env, plan, device, faults>>
  BY SharedSteps, MainLocal, OwnLocal DEF ScriptInv
<1>2. SameBoard(m)
  <2> USE DEF DmaTypeOK, SameBoard, Board, chan, Node
  <2>1. CASE DmaStartCall(n)
    BY <2>1 DEF DmaStartCall
  <2>2. CASE DmaTryAgain(n)
    BY <2>2 DEF DmaTryAgain
  <2>3. CASE DmaClearAddrToSend(n)
    BY <2>3 DEF DmaClearAddrToSend
  <2>4. CASE DmaEnable(n)
    BY <2>4 DEF DmaEnable, EnableDma
  <2>5. CASE i2c_wait_end(n)
    BY <2>5 DEF i2c_wait_end
  <2>6. CASE UNCHANGED dmaVars
    BY <2>6 DEF dmaVars
  <2>7. CASE n = "M" /\ DmaMaster
    <3>1. CASE DmaGenerateStart
      BY <2>7, <3>1 DEF DmaGenerateStart, i2c_dma_config
    <3>2. CASE DmaClearAddrOfDevice \/ DmaAckOff \/ DmaStop
      BY <2>7, <3>2 DEF DmaClearAddrOfDevice, DmaAckOff, DmaStop
    <3>3. CASE DmaClearAddrToRead
      BY <2>7, <3>3 DEF DmaClearAddrToRead, EnableDma
    <3>4. QED
      BY <2>6, <2>7, <3>1, <3>2, <3>3 DEF DmaMaster
  <2>8. CASE n = "S" /\ DmaSlave
    <3>1. CASE DmaEnableAck
      BY <2>8, <3>1 DEF DmaEnableAck, i2c_dma_config
    <3>2. CASE DmaClearAddrToReceive
      BY <2>8, <3>2 DEF DmaClearAddrToReceive, EnableDma
    <3>3. QED
      BY <2>8, <3>1, <3>2 DEF DmaSlave
  <2>9. QED
    BY <2>1, <2>2, <2>3, <2>4, <2>5, <2>6, <2>7, <2>8 DEF DmaMain
<1>3. QED
  BY <1>1, <1>2

LEMMA ServeApart ==
  ASSUME DmaTypeOK, NEW n \in Node, NEW m \in Node \ {n}, Serves(n)
  PROVE  SameBoard(m)
<1> USE DEF DmaTypeOK, SameBoard
<1>1. CASE DmaHandler(n)
  <2>1. UNCHANGED <<mode, error_code, last, cnt>> /\ UNCHANGED <<tcint[m], tc[m]>>
    BY <1>1 DEF DmaHandler
  <2>2. UNCHANGED <<isr[m], dmaen[m], status[m]>>
    <3>1. CASE DmaReadComplete(n)
      BY <3>1 DEF DmaReadComplete, TransferComplete
    <3>2. CASE DmaHandlerWaits(n)
      BY <3>2 DEF DmaHandlerWaits
    <3>3. QED
      BY <1>1, <3>1, <3>2 DEF DmaHandler
  <2>3. QED
    BY <2>1, <2>2
<1>2. CASE DmaHandlerEnds(n)
  <2>1. UNCHANGED error_code[m]
    BY <1>2 DEF DmaHandlerEnds
  <2>2. UNCHANGED <<isr[m], dmaen[m], status[m], mode, cnt, tcint, tc>>
    BY <1>2 DEF DmaHandlerEnds, TransferComplete
  <2>3. QED
    BY <2>1, <2>2
<1>3. CASE DmaMove(n)
  BY <1>3 DEF DmaMove
<1>4. QED
  BY <1>1, <1>2, <1>3 DEF Serves

(* A board's own step, its main thread's or one within the interrupt.      *)
LEMMA OwnBoard ==
  ASSUME ScriptInv, DmaTypeOK, BoardsInv, NEW n \in Node,
         (ByDma(n) /\ DmaMain(n)) \/ Serves(n)
  PROVE  BoardOf(n)' /\ UNCHANGED <<env, plan>>
<1>1. PICK m \in Node : m # n
  BY DEF Node
<1>2. CASE ByDma(n) /\ DmaMain(n)
  <2>1. BoardFacts(n) /\ CpuFree(n)
    BY <1>2, BoardStart DEF DmaMain
  <2>2. UNCHANGED <<env, plan>>
    BY <1>1, <1>2, MainApart
  <2>3. CASE DmaStartCall(n) \/ DmaTryAgain(n) \/ ((NextRound(n) \/ GiveUp(n)) /\ UNCHANGED dmaVars)
    BY <2>1, <2>2, <2>3, ApplicationBoard
  <2>4. CASE Wait(n) /\ UNCHANGED dmaVars
    BY <2>1, <2>2, <2>4, WaitBoard
  <2>5. CASE i2c_wait_end(n)
    BY <2>1, <2>2, <2>5, EndBoard
  <2>6. CASE \/ n = "M" /\ DmaMaster
             \/ n = "S" /\ DmaSlave
             \/ DmaClearAddrToSend(n) \/ DmaEnable(n)
    <3>1. pc[n] # "done"
      BY <2>6 DEF DmaMaster, DmaSlave, DmaGenerateStart, GenerateStart, DmaClearAddrOfDevice,
                  DmaClearAddrToRead, DmaAckOff, DmaStop, SendAddress, SendRegister, GenerateRestart,
                  DmaEnableAck, DmaClearAddrToReceive, DmaClearAddrToSend, DmaEnable, Came
    <3>2. Size(n) \in Nat
      BY <3>1, RoundFacts DEF ScriptInv, ThreadInv, ThreadOf, TypeOK, SwTypeOK
    <3>3. QED
      BY <2>1, <2>2, <2>6, <3>2, TransferBoard
  <2>7. QED
    BY <1>2, <2>2, <2>3, <2>4, <2>5, <2>6 DEF DmaMain
<1>3. CASE Serves(n)
  <2>1. ByDma(n)
    BY <1>3, Served
  <2>2. UNCHANGED <<pc, ret, app>>
    BY <1>1, <1>3, ServeLocal DEF ScriptInv
  <2>3. BoardFacts(n) /\ dmaen[n] /\ status[n] = "START" /\ Waiting(n)
    BY <1>3, <2>1, BoardStart, Served
  <2>4. Size(n) \in Nat
    BY <2>3, RoundFacts DEF ScriptInv, ThreadInv, ThreadOf, TypeOK, SwTypeOK, Waiting
  <2>5. UNCHANGED <<env, plan>>
    BY <2>2 DEF app
  <2>6. QED
    BY <1>3, <2>2, <2>3, <2>4, <2>5, ServeBoard
<1>4. QED
  BY <1>2, <1>3

LEMMA BoardsStep ==
  ASSUME ScriptInv, DmaTypeOK, BoardsInv, [DmaNext]_allVars
  PROVE  BoardsInv'
<1>1. ASSUME NEW n \in Node, (ByDma(n) /\ DmaMain(n)) \/ Serves(n)
      PROVE  BoardsInv'
  <2>1. BoardOf(n)' /\ UNCHANGED <<env, plan>>
    BY <1>1, OwnBoard
  <2>2. ASSUME NEW m \in Node \ {n} PROVE BoardOf(m)'
    <3>1. SameThread(m) /\ SameBoard(m)
      BY <1>1, MainApart, ServeLocal, ServeApart DEF ScriptInv
    <3>2. QED
      BY <2>1, <3>1, BoardFrame DEF BoardsInv
  <2>3. QED
    BY <2>1, <2>2 DEF BoardsInv
<1>2. ASSUME NEW n \in Node, ~ByDma(n), Main(n), UNCHANGED dmaVars
      PROVE  BoardsInv'
  <2>1. \A m \in Node : SameBoard(m)
    BY <1>2 DEF SameBoard, dmaVars, chan
  <2>2. ASSUME NEW m \in Node \ {n} PROVE BoardOf(m)' /\ UNCHANGED <<env, plan>>
    BY <1>2, <2>1, <2>2, MainLocal, BoardFrame DEF BoardsInv, ScriptInv
  <2>3. UNCHANGED env
    BY <2>2 DEF Node
  <2>4. BoardOf(n)'
    BY <1>2, <2>1, <2>3 DEF BoardsInv, BoardOf, ByDma, Untouched, SameBoard
  <2>5. QED
    BY <2>2, <2>4 DEF BoardsInv
<1>3. ASSUME UNCHANGED <<pc, checking, left, mem, ret, round, tries, env, plan, dmaVars>>
      PROVE  BoardsInv'
  BY <1>3, BoardFrame DEF BoardsInv, SameThread, SameBoard, dmaVars, chan
<1>4. CASE \E n \in Node : Cpu(n)
  BY <1>1, <1>2, <1>4 DEF Cpu, BoardMain, Serves
<1>5. CASE Hardware
  <2>1. CASE DmaBus \/ (Device /\ UNCHANGED dmaVars)
    BY <1>3, <2>1 DEF DmaBus, Device, Quiet, local, app
  <2>2. QED
    BY <1>1, <1>5, <2>1 DEF Hardware, Serves
<1>6. CASE DmaFault \/ UNCHANGED allVars
  BY <1>3, <1>6 DEF DmaFault, Fault, Quiet, local, app, allVars, vars, dmaVars
<1>7. QED
  BY <1>4, <1>5, <1>6 DEF DmaNext

(***************************************************************************)
(* The master's flags and its STOP.                                        *)
(***************************************************************************)

SameMaster ==
  /\ SameThread("M") /\ SameRegisters("M") /\ SameBoard("M") /\ UNCHANGED last["M"]
  /\ UNCHANGED <<env, plan, phase, dir, clocked, acked>>

LEMMA SlaveApart ==
  ASSUME ScriptInv, DmaTypeOK, (ByDma("S") /\ DmaMain("S")) \/ Serves("S")
  PROVE  SameMaster
<1>1. "S" \in Node /\ "M" \in Node \ {"S"} /\ last \in [Node -> BOOLEAN]
  BY DEF Node, DmaTypeOK
<1>2. CASE ByDma("S") /\ DmaMain("S")
  <2>1. SameThread("M") /\ SameRegisters("M") /\ SameBoard("M") /\ UNCHANGED <<env, plan>>
    BY <1>1, <1>2, MainApart
  <2>2. UNCHANGED <<phase, dir, clocked, acked>>
    BY <1>1, <1>2, SharedSteps, OtherLeaves, OwnLocal DEF ScriptInv, busVars
  <2>3. UNCHANGED last["M"]
    <3>1. CASE DmaTryAgain("S")
      BY <1>1, <3>1 DEF DmaTryAgain
    <3>2. CASE UNCHANGED last
      BY <3>2
    <3>3. QED
      BY <1>2, <3>1, <3>2 DEF DmaMain, DmaStartCall, DmaClearAddrToSend, DmaEnable, i2c_wait_end,
                              DmaSlave, DmaEnableAck, i2c_dma_config, DmaClearAddrToReceive, chan, dmaVars
  <2>4. QED
    BY <2>1, <2>2, <2>3 DEF SameMaster
<1>3. CASE Serves("S")
  <2>1. /\ SameThread("M") /\ SameRegisters("M") /\ SameBoard("M")
        /\ UNCHANGED <<app, busVars>>
    BY <1>1, <1>3, ServeLocal, ServeApart DEF ScriptInv
  <2>2. UNCHANGED last
    BY <1>3 DEF Serves, DmaHandler, DmaHandlerEnds, DmaMove
  <2>3. QED
    BY <2>1, <2>2 DEF SameMaster, app, busVars
<1>4. QED
  BY <1>2, <1>3

(* Who takes a step, as the master sees it.                                *)
LEMMA MasterSteps ==
  ASSUME ScriptInv, DmaTypeOK, [DmaNext]_allVars
  PROVE  \/ SameMaster
         \/ ByDma("M") /\ DmaMain("M")
         \/ ~ByDma("M") /\ Main("M") /\ UNCHANGED dmaVars
         \/ Serves("M")
         \/ DmaBus \/ DmaFault
<1>1. ASSUME Main("S") \/ Device, UNCHANGED dmaVars PROVE SameMaster
  BY <1>1, OtherLeaves DEF SameMaster, SameBoard, dmaVars, chan
<1>2. ASSUME UNCHANGED allVars PROVE SameMaster
  BY <1>2 DEF SameMaster, SameThread, SameRegisters, SameBoard, allVars, vars, dmaVars, chan, app, local,
              hwVars
<1>3. CASE \E n \in Node : Cpu(n)
  BY <1>1, <1>3, SlaveApart DEF Cpu, BoardMain, Serves, Node
<1>4. CASE Hardware
  BY <1>1, <1>4, SlaveApart DEF Hardware, Serves, Node
<1>5. QED
  BY <1>2, <1>3, <1>4 DEF DmaNext

LEMMA FlagFrame ==
  ASSUME FlagInv, UNCHANGED <<phase, dir, tx["M"]>>,
         flags'["M"] \subseteq flags["M"], "BUSYF" \in flags["M"] => "BUSYF" \in flags'["M"]
  PROVE  FlagInv'
BY DEF FlagInv

(* A byte is sent where the data register asks for one.                    *)
LEMMA FlagSend ==
  ASSUME FlagInv, TDBE("M"), UNCHANGED <<phase, dir, flags>>
  PROVE  FlagInv'
BY DEF FlagInv, TDBE, Transmitting

LEMMA FlagMain ==
  ASSUME ScriptInv, FlagInv, Main("M")
  PROVE  FlagInv'
<1> USE DEF SetCtrl, ClearFlags
<1>1. flags \in [Node -> SUBSET Flags] /\ tx \in [Node -> Seq(Byte)] /\ "M" \in Node
  BY DEF ScriptInv, TypeOK, HwTypeOK, Node
<1>2. ASSUME UNCHANGED <<flags, tx, busVars>> PROVE FlagInv'
  BY <1>2, FlagFrame DEF busVars
<1>3. CASE StartCall("M") \/ NextRound("M") \/ GiveUp("M")
  BY <1>2, <1>3 DEF StartCall, NextRound, GiveUp, hwVars, busVars
<1>4. CASE TryAgain("M")
  <2>1. CASE i2c_reset("M")
    <3>1. phase' = "free" /\ tx'["M"] = <<>> /\ flags'["M"] \subseteq {"BUSYF"}
      BY <1>1, <2>1 DEF i2c_reset
    <3>2. QED
      BY <3>1 DEF FlagInv
  <2>2. QED
    BY <1>2, <1>4, <2>1 DEF TryAgain, hwVars, busVars
<1>5. CASE Wait("M")
  <2>1. CASE WaitAckFail("M") \/ WaitStop("M")
    <3>1. /\ UNCHANGED <<tx, busVars>> /\ flags'["M"] \subseteq flags["M"]
          /\ "BUSYF" \in flags["M"] => "BUSYF" \in flags'["M"]
      BY <1>1, <2>1 DEF WaitAckFail, WaitStop
    <3>2. QED
      BY <3>1, FlagFrame DEF busVars
  <2>2. CASE LookAgain("M") \/ NoEvent("M") \/ WaitTimeout("M") \/ CleanUp("M")
    BY <1>2, <2>2 DEF LookAgain, NoEvent, WaitTimeout, CleanUp, hwVars, busVars
  <2>3. QED
    BY <1>5, <2>1, <2>2 DEF Wait
<1>6. CASE SendAddress
  <2>1. /\ "STARTF" \in flags["M"] /\ flags'["M"] = flags["M"] \ {"STARTF"} /\ UNCHANGED tx
        /\ phase' = "addr"
    BY <1>1, <1>6 DEF SendAddress, i2c_7bit_address_send, Came, FlagCame
  <2>2. QED
    BY <2>1 DEF FlagInv
<1>7. CASE SendRegister \/ SendData("M", "tdc")
  BY <1>7, FlagSend DEF SendRegister, SendData, Came, FlagCame, busVars
<1>8. CASE ClearAddrToWrite \/ ClearAddrToRead
  <2>1. /\ UNCHANGED <<tx, busVars>> /\ flags'["M"] \subseteq flags["M"]
        /\ "BUSYF" \in flags["M"] => "BUSYF" \in flags'["M"]
    BY <1>1, <1>8 DEF ClearAddrToWrite, ClearAddrToRead
  <2>2. QED
    BY <2>1, FlagFrame DEF busVars
<1>9. CASE \/ GenerateStart \/ GenerateRestart \/ StopWrite \/ Ev6Stop \/ Ev6Ack \/ ReadByte
           \/ ReadThirdLast \/ ReadLastTwo
  BY <1>2, <1>9 DEF GenerateStart, GenerateRestart, StopWrite, Ev6Stop, Ev6Ack, ReadByte, ReadThirdLast,
                    ReadLastTwo
<1>10. QED
  BY <1>3, <1>4, <1>5, <1>6, <1>7, <1>8, <1>9 DEF Main, Master

LEMMA FlagOwn ==
  ASSUME ScriptInv, FlagInv, DmaOwn("M")
  PROVE  FlagInv'
<1>1. flags \in [Node -> SUBSET Flags] /\ "M" \in Node /\ "S" \in Node \ {"M"}
  BY DEF ScriptInv, TypeOK, HwTypeOK, Node
<1>2. UNCHANGED <<tx, busVars>>
  BY <1>1, OwnLocal DEF ScriptInv
<1>3. /\ flags'["M"] \subseteq flags["M"]
      /\ "BUSYF" \in flags["M"] => "BUSYF" \in flags'["M"]
  BY <1>1 DEF DmaOwn, DmaStartCall, DmaClearAddrToReceive, DmaClearAddrToRead, DmaAckOff, DmaStop,
              DmaClearAddrToSend, DmaEnable, i2c_wait_end, ClearFlags, hwVars
<1>4. QED
  BY <1>2, <1>3, FlagFrame DEF busVars

LEMMA FlagServe ==
  ASSUME ScriptInv, DmaTypeOK, BoardsInv, FlagInv, Serves("M")
  PROVE  FlagInv'
<1>1. flags \in [Node -> SUBSET Flags] /\ "M" \in Node /\ "S" \in Node \ {"M"}
  BY DEF ScriptInv, TypeOK, HwTypeOK, Node
<1>2. UNCHANGED busVars
  BY <1>1, ServeLocal DEF ScriptInv
<1>3. CASE DmaHandler("M") \/ DmaHandlerEnds("M")
  <2>1. UNCHANGED tx
    BY <1>3 DEF DmaHandler, DmaHandlerEnds
  <2>2. /\ flags'["M"] \subseteq flags["M"]
        /\ "BUSYF" \in flags["M"] => "BUSYF" \in flags'["M"]
    BY <1>1, <1>3 DEF DmaHandler, DmaReadComplete, DmaHandlerWaits, DmaHandlerEnds, ClearFlags
  <2>3. QED
    BY <1>2, <2>1, <2>2, FlagFrame DEF busVars
<1>4. CASE DmaMove("M")
  <2>1. CASE Sends("M")
    BY <1>2, <1>4, <2>1, FlagSend DEF DmaMove, DmaReady, busVars
  <2>2. CASE ~Sends("M")
    BY <1>2, <1>4, <2>2, FlagFrame DEF DmaMove, busVars
  <2>3. QED
    BY <2>1, <2>2
<1>5. QED
  BY <1>3, <1>4 DEF Serves

LEMMA FlagBus ==
  ASSUME ScriptInv, FlagInv, Bus \/ Fault \/ ReadByDma
  PROVE  FlagInv'
<1>1. /\ flags \in [Node -> SUBSET Flags] /\ tx \in [Node -> Seq(Byte)] /\ "M" \in Node
      /\ phase \in {"free", "start", "addr", "data", "closing"}
  BY DEF ScriptInv, TypeOK, HwTypeOK, Node
<1>2. CASE HwStart
  <2>1. /\ "BUSYF" \notin flags["M"] /\ flags'["M"] = flags["M"] \cup {"BUSYF", "STARTF"}
        /\ phase' = "start" /\ UNCHANGED tx
    BY <1>1, <1>2 DEF HwStart
  <2>2. QED
    BY <2>1 DEF FlagInv
<1>3. CASE HwRestart
  <2>1. /\ phase \in {"data", "closing"} /\ "ADDR7F" \notin flags["M"] /\ tx["M"] = <<>>
        /\ flags'["M"] = flags["M"] \cup {"STARTF"} /\ phase' = "start" /\ UNCHANGED tx
    BY <1>1, <1>3 DEF HwRestart
  <2>2. QED
    BY <2>1 DEF FlagInv
<1>4. CASE HwAddrAck
  <2>1. /\ phase = "addr" /\ flags'["M"] = flags["M"] \cup {"ADDR7F"} /\ phase' = "data"
        /\ tx'["M"] = <<>>
    BY <1>1, <1>4 DEF HwAddrAck
  <2>2. QED
    BY <2>1 DEF FlagInv
<1>5. CASE HwAddrNack
  <2>1. /\ phase = "addr" /\ flags'["M"] = flags["M"] \cup {"ACKFAIL"} /\ phase' = "closing"
        /\ UNCHANGED tx
    BY <1>1, <1>5 DEF HwAddrNack
  <2>2. QED
    BY <2>1 DEF FlagInv
<1>6. CASE HwWriteByte(TRUE) \/ HwWriteByte(FALSE)
  <2>1. /\ phase = "data" /\ dir = "write" /\ "ADDR7F" \notin flags["M"] /\ UNCHANGED dir
        /\ \/ phase' = "data" /\ UNCHANGED flags
           \/ phase' = "closing" /\ tx'["M"] = <<>> /\ flags'["M"] = flags["M"] \cup {"ACKFAIL"}
    BY <1>1, <1>6 DEF HwWriteByte
  <2>2. QED
    BY <2>1 DEF FlagInv
<1>7. ASSUME NEW acks, HwReadByteAck(acks) PROVE FlagInv'
  <2>1. /\ phase = "data" /\ dir = "read" /\ "ADDR7F" \notin flags["M"] /\ UNCHANGED dir
        /\ phase' \in {"data", "closing"} /\ flags'["M"] = flags["M"] /\ tx'["M"] = tx["M"]
    BY <1>1, <1>7 DEF HwReadByteAck
  <2>2. QED
    BY <2>1 DEF FlagInv
<1>8. CASE HwOverrunByte \/ HwSlaveRelease
  BY <1>8, FlagFrame DEF HwOverrunByte, HwSlaveRelease
<1>9. CASE HwStop
  <2>1. /\ flags'["M"] = flags["M"] \ {"BUSYF", "STARTF", "ADDR7F"} /\ phase' = "free"
        /\ UNCHANGED tx
    BY <1>1, <1>9 DEF HwStop
  <2>2. tx["M"] = <<>>
    BY <1>9 DEF HwStop, ByteBoundary, FlagInv
  <2>3. QED
    BY <2>1, <2>2 DEF FlagInv
<1>10. QED
  BY <1>2, <1>3, <1>4, <1>5, <1>6, <1>7, <1>8, <1>9 DEF Bus, Fault, ReadByDma, HwReadByte

LEMMA FlagStep ==
  ASSUME ScriptInv, DmaTypeOK, BoardsInv, FlagInv, [DmaNext]_allVars
  PROVE  FlagInv'
<1>1. "M" \in Node
  BY DEF Node
<1>2. CASE SameMaster
  BY <1>2, FlagFrame DEF SameMaster, SameRegisters
<1>3. CASE DmaMain("M")
  BY <1>1, <1>3, SharedSteps, FlagMain, FlagOwn DEF ScriptInv
<1>4. CASE Main("M")
  BY <1>4, FlagMain
<1>5. CASE Serves("M")
  BY <1>5, FlagServe
<1>6. CASE DmaBus \/ DmaFault
  BY <1>6, DmaBusSteps, FlagBus DEF DmaFault
<1>7. QED
  BY <1>2, <1>3, <1>4, <1>5, <1>6, MasterSteps

(* What the proofs about the master's own steps start from.                *)
CallFacts ==
  /\ BoardFacts("M") /\ FlagInv /\ StartSent /\ StopAsked /\ MasterCount
  /\ ctrl \in [Node -> SUBSET CtrlBits] /\ flags \in [Node -> SUBSET Flags]
  /\ tx \in [Node -> Seq(Byte)] /\ rx \in [Node -> Seq(Byte)] /\ "M" \in Node
  /\ clocked \in Nat /\ acked \in Nat
  /\ last \in [Node -> BOOLEAN] /\ mem \in [Node -> Seq(Byte)]
  /\ round \in [Node -> Nat \ {0}]
  /\ pc["M"] # "done" =>
       /\ Size("M") \in Nat \ {0}
       /\ Memory <=> MyRound("M").op \in {"mem_write", "mem_read"}
       /\ ~Memory <=> MyRound("M").op \in {"write", "read"}
       /\ Reads("M") <=> MyRound("M").op \in {"read", "mem_read"}

LEMMA CallStart ==
  ASSUME ScriptInv, DmaTypeOK, CallInv, ByDma("M")
  PROVE  CallFacts
<1>1. "M" \in Node /\ MasterCount /\ TypeOK /\ ThreadOf("M") /\ ScriptFits
  BY DEF ScriptInv, ThreadInv, CountInv, Node
<1>2. BoardFacts("M") /\ FlagInv /\ StartSent /\ StopAsked
  BY <1>1, BoardStart DEF CallInv, StopInv
<1>3. pc["M"] # "done" =>
        /\ Size("M") \in Nat \ {0}
        /\ Memory <=> MyRound("M").op \in {"mem_write", "mem_read"}
        /\ ~Memory <=> MyRound("M").op \in {"write", "read"}
        /\ Reads("M") <=> MyRound("M").op \in {"read", "mem_read"}
  BY <1>1, RoundFacts, ReadsMeans DEF TypeOK, SwTypeOK, ThreadOf
<1>4. QED
  BY <1>1, <1>2, <1>3 DEF CallFacts, TypeOK, HwTypeOK, SwTypeOK, DmaTypeOK

(* Before the configuration, and between calls, there is nothing to say.   *)
LEMMA StopElsewhere ==
  ASSUME pc'["M"] \notin Configured, ~dmaen'["M"], status'["M"] = "START" \/ pc'["M"] \in {"idle", "done"}
  PROVE  StopInv'
BY DEF StopInv, StartSent, StopAsked, InEnd, Configured

LEMMA StopFrameOfCall ==
  ASSUME StartSent, StopAsked, UNCHANGED <<left["M"], dmaen["M"], status["M"], ctrl["M"], phase>>,
         UNCHANGED <<plan, round["M"]>>, "M" \in Node,
         \/ UNCHANGED pc["M"]
         \/ /\ pc["M"] \in {"wait_end", "returned"} /\ pc'["M"] \in {"returned", "gave_up"}
  PROVE  StopInv'
<1>1. Reads("M")' = Reads("M")
  BY SameRound
<1>2. QED
  BY <1>1 DEF StopInv, StartSent, StopAsked, InEnd, Configured

(* The application, the waits and the start of a call.                     *)
LEMMA StopApplication ==
  ASSUME CallFacts, CpuFree("M"), BoardOf("M")', UNCHANGED <<env, plan>>,
         \/ DmaStartCall("M") \/ DmaTryAgain("M")
         \/ (NextRound("M") \/ GiveUp("M") \/ Wait("M")) /\ UNCHANGED dmaVars
         \/ i2c_wait_end("M")
  PROVE  StopInv'
<1> USE DEF Goto, Return, Stay, app, local
<1>1. /\ isr["M"] = "none" /\ ~tc["M"]
      /\ status["M"] = "END" \/ pc["M"] \notin {"wait_end", "returned", "gave_up"} => ~dmaen["M"]
  BY CpuIsFree DEF CallFacts
<1>2. CASE DmaStartCall("M")
  <2>1. /\ pc["M"] = "idle" /\ pc'["M"] = "free" /\ status'["M"] = "START" /\ UNCHANGED dmaen
    BY <1>2 DEF CallFacts, BoardFacts, DmaStartCall, chan
  <2>2. QED
    BY <1>1, <2>1, StopElsewhere DEF Configured
<1>3. CASE DmaTryAgain("M") \/ (NextRound("M") /\ UNCHANGED dmaVars)
  <2>1. pc'["M"] \in {"idle", "done"}
    BY <1>3 DEF CallFacts, BoardFacts, DmaTryAgain, TryAgain, NextRound
  <2>2. ~dmaen'["M"] \/ ~ByDma("M")'
    BY <2>1 DEF BoardOf, ChannelOf, Waiting
  <2>3. QED
    BY <2>1, <2>2, StopElsewhere DEF Configured, StopInv
<1>4. CASE (GiveUp("M") /\ UNCHANGED dmaVars) \/ i2c_wait_end("M")
  <2>1. /\ UNCHANGED <<left, dmaen, status, ctrl, phase, plan, round>>
        /\ pc["M"] \in {"wait_end", "returned"} /\ pc'["M"] \in {"returned", "gave_up"}
    BY <1>4 DEF CallFacts, BoardFacts, GiveUp, i2c_wait_end, dmaVars, chan, hwVars, Board
  <2>2. QED
    BY <2>1, StopFrameOfCall DEF CallFacts
<1>5. CASE Wait("M") /\ UNCHANGED dmaVars
  <2>1. pc["M"] \in Waits \cup {"fail"} /\ UNCHANGED <<dmaen, status, left, round, phase>>
    BY <1>5 DEF Wait, CallFacts, BoardFacts, LookAgain, NoEvent, WaitAckFail, WaitStop, WaitTimeout, CleanUp,
                dmaVars, chan, hwVars, busVars
  <2>2. CASE LookAgain("M") \/ NoEvent("M")
    BY <2>1, <2>2, StopFrameOfCall DEF CallFacts, LookAgain, NoEvent, hwVars
  <2>3. CASE WaitAckFail("M") \/ WaitStop("M") \/ WaitTimeout("M") \/ CleanUp("M")
    <3>1. pc'["M"] \in {"fail", "returned"}
      BY <2>3 DEF CallFacts, BoardFacts, WaitAckFail, WaitStop, WaitTimeout, CleanUp
    <3>2. pc["M"] \notin {"idle", "done", "wait_end", "returned", "gave_up"}
      BY <2>1 DEF Waits
    <3>3. status["M"] = "START"
      BY <3>2 DEF CallFacts, BoardFacts, HandleOf
    <3>4. QED
      BY <1>1, <2>1, <3>1, <3>2, <3>3, StopElsewhere DEF Configured
  <2>4. QED
    BY <1>5, <2>2, <2>3 DEF Wait
<1>6. QED
  BY <1>2, <1>3, <1>4, <1>5

(* From START to the transfer.                                             *)
LEMMA StopTransfer ==
  ASSUME CallFacts, CpuFree("M"), BoardOf("M")', UNCHANGED <<env, plan>>,
         DmaMaster \/ DmaClearAddrToSend("M") \/ DmaEnable("M")
  PROVE  StopInv'
<1> USE DEF Goto, Stay, app, local, Came, SetCtrl, FlagCame
<1>1. /\ pc["M"] \notin {"idle", "done", "wait_end", "returned", "gave_up"}
      /\ UNCHANGED <<left, round, status>>
  BY DEF DmaMaster, DmaGenerateStart, GenerateStart, DmaClearAddrOfDevice, DmaClearAddrToRead, DmaAckOff,
         DmaStop, SendAddress, SendRegister, GenerateRestart, DmaClearAddrToSend, DmaEnable, Board, dmaVars
<1>2. status["M"] = "START" /\ status'["M"] = "START" /\ ~dmaen["M"]
  BY <1>1, CpuIsFree DEF CallFacts, BoardFacts, HandleOf
<1>3. Reads("M")' = Reads("M")
  BY <1>1, SameRound DEF CallFacts
<1> SUFFICES StartSent' /\ StopAsked'
  BY DEF StopInv
<1> USE DEF CallFacts, BoardFacts, StartSent, StopAsked, InEnd, Configured
<1>4. CASE DmaGenerateStart
  <2>1. pc'["M"] = "startf" /\ ~dmaen'["M"] /\ UNCHANGED phase /\ "BUSYF" \notin flags["M"]
    BY <1>4 DEF DmaGenerateStart, GenerateStart, i2c_dma_config, busVars
  <2>2. phase = "free"
    BY <2>1 DEF FlagInv
  <2>3. QED
    BY <1>2, <2>1, <2>2
<1>5. CASE SendAddress /\ UNCHANGED dmaVars
  <2>1. /\ pc["M"] \in {"startf", "restartf"} /\ pc'["M"] \in {"addr7", "readdr7"}
        /\ "STARTF" \in flags["M"] /\ UNCHANGED <<ctrl, dmaen>>
    BY <1>5 DEF SendAddress, dmaVars, chan
  <2>2. "GENSTART" \notin ctrl["M"]
    BY <2>1 DEF FlagInv
  <2>3. QED
    BY <1>2, <2>1, <2>2
<1>6. CASE SendRegister /\ UNCHANGED dmaVars
  <2>1. /\ pc["M"] = "tdbe_reg" /\ pc'["M"] \in {"tdbe_restart", "tdbe"} /\ UNCHANGED <<ctrl, dmaen>>
    BY <1>6 DEF SendRegister, dmaVars, chan
  <2>2. QED
    BY <1>2, <2>1
<1>7. CASE GenerateRestart /\ UNCHANGED dmaVars
  <2>1. /\ pc'["M"] = "restartf" /\ UNCHANGED <<dmaen, phase>> /\ phase = "data"
    BY <1>7 DEF GenerateRestart, dmaVars, chan, busVars, TDBE, Transmitting
  <2>2. QED
    BY <1>2, <2>1
<1>8. CASE DmaClearAddrOfDevice \/ DmaClearAddrToSend("M")
  <2>1. /\ pc["M"] = "addr7" /\ UNCHANGED <<ctrl, dmaen>>
        /\ pc'["M"] = "tdbe_reg" \/ (pc'["M"] = "dma_on" /\ ~Reads("M"))
    BY <1>8 DEF DmaClearAddrOfDevice, DmaClearAddrToSend, chan
  <2>2. QED
    BY <1>2, <1>3, <2>1
<1>9. CASE DmaClearAddrToRead
  <2>1. /\ pc["M"] \in {"addr7", "readdr7"} /\ UNCHANGED ctrl /\ Reads("M")
    BY <1>9 DEF DmaClearAddrToRead, MasterCount
  <2>2. \/ left["M"] = 1 /\ pc'["M"] = "dma_ack" /\ UNCHANGED dmaen
        \/ left["M"] > 1 /\ pc'["M"] = "wait_end"
    BY <1>9 DEF DmaClearAddrToRead, chan
  <2>3. left'["M"] = left["M"] /\ left["M"] \in Nat
    BY <1>1
  <2>4. QED
    BY <1>2, <1>3, <2>1, <2>2, <2>3
<1>10. CASE DmaAckOff \/ DmaStop
  <2>1. /\ UNCHANGED <<dmaen, left>> /\ Reads("M") /\ left["M"] = 1
        /\ \/ pc'["M"] = "dma_stop" /\ ctrl'["M"] \subseteq ctrl["M"]
           \/ pc'["M"] = "dma_on" /\ ctrl'["M"] = ctrl["M"] \cup {"GENSTOP"}
        /\ pc["M"] \in {"dma_ack", "dma_stop"}
    BY <1>10 DEF DmaAckOff, DmaStop, chan
  <2>2. QED
    BY <1>2, <1>3, <2>1
<1>11. CASE DmaEnable("M")
  <2>1. /\ pc["M"] \in {"dma_on", "tdbe"} /\ pc'["M"] = "wait_end" /\ UNCHANGED <<ctrl, phase, left>>
    BY <1>11 DEF DmaEnable, hwVars
  <2>2. pc["M"] = "tdbe" => ~Reads("M")
    BY DEF MasterCount
  <2>3. QED
    BY <1>2, <1>3, <2>1, <2>2
<1>12. QED
  BY <1>4, <1>5, <1>6, <1>7, <1>8, <1>9, <1>10, <1>11 DEF DmaMaster

(* The handlers and the controller.                                        *)
LEMMA StopServe ==
  ASSUME CallFacts, Serves("M"), BoardOf("M")', UNCHANGED <<env, plan, round, pc, phase>>,
         dmaen["M"], status["M"] = "START", Waiting("M")
  PROVE  StopInv'
<1>1. /\ Reads("M")' = Reads("M") /\ pc["M"] \in {"wait_end", "returned", "gave_up"}
      /\ "GENSTART" \notin ctrl["M"] /\ ctrl["M"] \in SUBSET CtrlBits
  BY SameRound DEF Waiting, CallFacts, StartSent
<1> SUFFICES StartSent' /\ StopAsked'
  BY DEF StopInv
<1>2. ASSUME "GENSTART" \notin ctrl'["M"], ~dmaen'["M"], "GENSTOP" \in ctrl'["M"] \/ phase = "free"
      PROVE  StartSent' /\ StopAsked'
  BY <1>1, <1>2 DEF StartSent, StopAsked, InEnd, Configured
<1>3. ASSUME UNCHANGED <<ctrl, left, dmaen, status>>
      PROVE  StartSent' /\ StopAsked'
  BY <1>1, <1>3 DEF StartSent, StopAsked, InEnd, Configured, CallFacts
<1>4. CASE DmaHandler("M")
  <2>1. CASE DmaReadComplete("M")
    <3>1. mode["M"] = "I2C_DMA_MA_RX" /\ mode["M"] = ModeOf("M")
      BY <1>1, <2>1 DEF DmaReadComplete, CallFacts, BoardFacts, HandleOf
    <3>2. Reads("M")
      BY <3>1 DEF ModeOf
    <3>3. /\ ~dmaen'["M"]
          /\ left["M"] # 1 => ctrl'["M"] = ctrl["M"] \cup {"GENSTOP"}
          /\ left["M"] = 1 => ctrl'["M"] = ctrl["M"]
      BY <2>1 DEF DmaReadComplete, TransferComplete, SetCtrl, CallFacts, BoardFacts
    <3>4. left["M"] = 1 => "GENSTOP" \in ctrl["M"] \/ phase = "free"
      <4>1. StopAsked /\ dmaen["M"]
        BY DEF CallFacts
      <4>2. QED
        BY <3>2, <4>1 DEF StopAsked
    <3>5. QED
      BY <1>1, <1>2, <3>3, <3>4
  <2>2. CASE DmaHandlerWaits("M")
    BY <1>3, <2>2 DEF DmaHandlerWaits
  <2>3. QED
    BY <1>4, <2>1, <2>2 DEF DmaHandler
<1>5. CASE DmaHandlerEnds("M")
  <2>1. isr["M"] = "tdc"
    BY <1>5 DEF DmaHandlerEnds, CallFacts, BoardFacts, ChannelOf
  <2>2. ~dmaen'["M"] /\ ctrl'["M"] = ctrl["M"] \cup {"GENSTOP"}
    BY <1>5, <2>1 DEF DmaHandlerEnds, TransferComplete, SetCtrl, CallFacts, BoardFacts
  <2>3. QED
    BY <1>1, <1>2, <2>2
<1>6. CASE DmaMove("M")
  BY <1>3, <1>6 DEF DmaMove
<1>7. QED
  BY <1>4, <1>5, <1>6 DEF Serves

LEMMA StopBus ==
  ASSUME CallFacts, Bus \/ Fault \/ ReadByDma, UNCHANGED dmaVars
  PROVE  StopInv'
<1>1. /\ UNCHANGED <<pc, left, round, plan, dmaen, status>> /\ Reads("M")' = Reads("M")
  <2>1. UNCHANGED <<pc, left, round, plan, dmaen, status>>
    BY DEF Bus, Fault, ReadByDma, Quiet, local, app, dmaVars, chan
  <2>2. QED
    BY <2>1, SameRound DEF CallFacts
<1>2. "M" \in Node /\ ctrl \in [Node -> SUBSET CtrlBits] /\ StartSent /\ StopAsked
  BY DEF CallFacts
<1> SUFFICES StartSent' /\ StopAsked'
  BY DEF StopInv
<1>3. ASSUME "GENSTART" \in ctrl["M"], ctrl'["M"] = ctrl["M"] \ {"GENSTART"}
      PROVE  StartSent' /\ StopAsked'
  BY <1>1, <1>2, <1>3 DEF StartSent, StopAsked, InEnd, Configured
<1>4. ASSUME ctrl'["M"] = ctrl["M"], phase' # "start" \/ phase' = phase, phase # "free" \/ phase' = phase
      PROVE  StartSent' /\ StopAsked'
  BY <1>1, <1>2, <1>4 DEF StartSent, StopAsked, InEnd
<1>5. CASE HwStart \/ HwRestart
  BY <1>2, <1>3, <1>5 DEF HwStart, HwRestart
<1>6. CASE HwStop
  <2>1. ctrl'["M"] = ctrl["M"] \ {"GENSTOP"} /\ phase' = "free"
    BY <1>2, <1>6 DEF HwStop
  <2>2. QED
    BY <1>1, <1>2, <2>1 DEF StartSent, StopAsked, InEnd
<1>7. CASE HwAddrAck \/ HwAddrNack \/ HwOverrunByte \/ HwSlaveRelease
  BY <1>4, <1>7 DEF HwAddrAck, HwAddrNack, HwOverrunByte, HwSlaveRelease
<1>8. CASE HwWriteByte(TRUE) \/ HwWriteByte(FALSE)
  BY <1>4, <1>8 DEF HwWriteByte
<1>9. ASSUME NEW acks, HwReadByteAck(acks) PROVE StartSent' /\ StopAsked'
  BY <1>4, <1>9 DEF HwReadByteAck
<1>10. QED
  BY <1>5, <1>6, <1>7, <1>8, <1>9 DEF Bus, Fault, ReadByDma, HwReadByte

LEMMA StopStep ==
  ASSUME ScriptInv, DmaTypeOK, CallInv, BoardsInv', [DmaNext]_allVars
  PROVE  StopInv'
<1>1. "M" \in Node /\ "S" \in Node \ {"M"} /\ BoardsInv /\ TypeOK /\ BoardOf("M")'
  BY DEF Node, CallInv, ScriptInv, BoardsInv
<1>2. UNCHANGED env
  BY <1>1, MasterSteps, MainApart, MainLocal, ServeLocal
     DEF SameMaster, DmaBus, DmaFault, Fault, Quiet, app
<1>3. CASE ~ByDma("M")
  BY <1>2, <1>3 DEF StopInv, ByDma
<1>4. CASE ByDma("M")
  <2>1. CallFacts
    BY <1>4, CallStart
  <2>2. CASE SameMaster
    <3>1. /\ UNCHANGED <<left["M"], dmaen["M"], status["M"], ctrl["M"], phase, plan, round["M"], pc["M"]>>
      BY <2>2 DEF SameMaster, SameThread, SameRegisters, SameBoard
    <3>2. QED
      BY <2>1, <3>1, StopFrameOfCall DEF CallFacts
  <2>3. CASE DmaMain("M")
    <3>1. UNCHANGED <<env, plan>>
      BY <1>1, <1>4, <2>3, MainApart
    <3>2. QED
      BY <1>1, <2>1, <2>3, <3>1, StopApplication, StopTransfer DEF DmaMain
  <2>4. CASE Serves("M")
    <3>1. UNCHANGED <<env, plan, round, pc, phase>>
      BY <1>1, <2>4, ServeLocal DEF app, busVars
    <3>2. QED
      BY <1>1, <2>1, <2>4, <3>1, Served, StopServe
  <2>5. CASE DmaBus \/ DmaFault
    BY <2>1, <2>5, DmaBusSteps, StopBus DEF DmaBus, DmaFault
  <2>6. QED
    BY <1>4, <2>2, <2>3, <2>4, <2>5, MasterSteps
<1>5. QED
  BY <1>3, <1>4

(***************************************************************************)
(* What is said of every call.                                             *)
(***************************************************************************)

LEMMA InitCalls ==
  ASSUME DmaInit, ScriptFits, Recovers
  PROVE  ScriptInv /\ FrameInv /\ DmaTypeOK /\ CallInv
<1>1. ScriptInv /\ FrameInv
  BY InitPoll DEF DmaInit, PollInv
<1>2. /\ status = [n \in Node |-> "START"] /\ error_code = [n \in Node |-> "OK"]
      /\ isr = [n \in Node |-> "none"] /\ dmaen = [n \in Node |-> FALSE]
      /\ tc = [n \in Node |-> FALSE]
  BY DEF DmaInit
<1>3. DmaTypeOK
  BY <1>1 DEF ScriptInv, TypeOK, SwTypeOK, DmaTypeOK, DmaInit, Modes
<1>4. \A n \in Node : pc[n] \in {"idle", "done"}
  BY DEF DmaInit, Init
<1>5. BoardsInv
  BY <1>2, <1>4 DEF BoardsInv, BoardOf, HandleOf, ChannelOf, Untouched, OnlyPolled, Configured, Node
<1>6. StopInv
  BY <1>2, <1>4 DEF StopInv, StartSent, StopAsked, InEnd, Configured, Node
<1>7. QED
  BY <1>1, <1>3, <1>5, <1>6 DEF CallInv, FrameInv

LEMMA CallStep ==
  ASSUME ScriptInv, DmaTypeOK, CallInv, [DmaNext]_allVars
  PROVE  ScriptInv' /\ DmaTypeOK' /\ CallInv'
<1>1. BoardsInv /\ FlagInv
  BY DEF CallInv
<1>2. ScriptInv'
  BY <1>1, DmaScriptStep
<1>3. DmaTypeOK'
  BY <1>2, DmaTypesStep
<1>4. BoardsInv' /\ FlagInv'
  BY <1>1, BoardsStep, FlagStep
<1>5. StopInv'
  BY <1>4, StopStep
<1>6. QED
  BY <1>2, <1>3, <1>4, <1>5 DEF CallInv

LEMMA QuietAtTheEnd ==
  ASSUME DmaTypeOK, CallInv
  PROVE  EndQuiesces
<1> SUFFICES ASSUME NEW n \in Node, DmaInCall(n), status[n] = "END"
             PROVE  /\ cnt[n] = 0 /\ ~dmaen[n] /\ ~Request(n)
                    /\ n = "M" => "GENSTOP" \in ctrl["M"] \/ phase = "free"
  BY DEF EndQuiesces
<1>1. HandleOf(n) /\ ChannelOf(n) /\ (n = "M" => StopAsked)
  BY DEF CallInv, BoardsInv, BoardOf, DmaInCall, StopInv
<1>2. cnt[n] = 0 /\ ~dmaen[n] /\ ~tc[n]
  BY <1>1 DEF HandleOf, ChannelOf
<1>3. QED
  BY <1>1, <1>2 DEF Request, StopAsked, InEnd, DmaInCall

(* A DMA handle that says I2C_END has left its peripheral alone, whatever  *)
(* came late and whatever failed before: its channel has moved every byte, *)
(* no DMA request is on, and a master has asked for its STOP.              *)
THEOREM DmaQuiesces == DmaSpec /\ ScriptFits /\ Recovers => []EndQuiesces
<1>1. DmaInit /\ ScriptFits /\ Recovers => ScriptInv /\ DmaTypeOK /\ CallInv
  BY InitCalls
<1>2. ScriptInv /\ DmaTypeOK /\ CallInv /\ [DmaNext]_allVars => (ScriptInv /\ DmaTypeOK /\ CallInv)'
  BY CallStep
<1>3. ScriptInv /\ DmaTypeOK /\ CallInv => EndQuiesces
  BY QuietAtTheEnd
<1>4. QED
  BY <1>1, <1>2, <1>3, PTL DEF DmaSpec

(***************************************************************************)
(* The master's data.                                                      *)
(***************************************************************************)

DataFacts ==
  /\ CallFacts /\ MasterInv /\ StopHasFrame
  /\ DmaReads /\ DmaWrites /\ DmaEnded
  /\ pc["M"] # "done" => InTimeSoFar

(* What no step within a call changes.                                     *)
SameDmaCall ==
  /\ Size("M")' = Size("M") /\ MyRound("M")' = MyRound("M")
  /\ Reads("M")' = Reads("M") /\ Memory' = Memory
  /\ InTimeSoFar' = InTimeSoFar /\ Steady' = Steady /\ UNCHANGED env

LEMMA SameCallByDma ==
  ASSUME UNCHANGED <<plan, env, round["M"]>>
  PROVE  SameDmaCall
BY DEF SameDmaCall, Size, MyRound, Reads, Memory, InTimeSoFar, Steady, TimingFree

LEMMA TimeFrame ==
  ASSUME UNCHANGED <<plan, env>>, round["M"] \in Nat,
         round'["M"] = round["M"] \/ round'["M"] = round["M"] + 1, MasterInTime'
  PROVE  MasterInTime
<1>1. \A k \in DOMAIN plan : k <= round["M"] => k <= round'["M"]
  <2> SUFFICES ASSUME NEW k \in 1 .. Len(plan), k <= round["M"]
               PROVE  k <= round'["M"]
    OBVIOUS
  <2>1. QED
    OBVIOUS
<1>2. QED
  BY <1>1 DEF MasterInTime, ByDma, TimingFree

LEMMA DataStart ==
  ASSUME ScriptInv, DmaTypeOK, CallInv, ByDma("M"), MasterInTime,
         MasterInv, StopHasFrame, DataInv
  PROVE  DataFacts
<1>1. CallFacts
  BY CallStart
<1>2. ASSUME pc["M"] # "done" PROVE InTimeSoFar
  <2>1. round["M"] \in 1 .. Len(plan) /\ Len(plan) \in Nat /\ plan \in Seq(Round)
    BY <1>2, ScriptFacts DEF ScriptInv, ThreadInv, ThreadOf, Node, TypeOK, SwTypeOK
  <2>2. \A k \in 1 .. round["M"] : k \in DOMAIN plan /\ k <= round["M"]
    BY <2>1
  <2>3. QED
    BY <2>2 DEF MasterInTime, InTimeSoFar
<1>3. QED
  BY <1>1, <1>2 DEF DataFacts, DataInv

LEMMA DataElsewhere ==
  ASSUME pc'["M"] \notin DmaPc
  PROVE  DataInv'
BY DEF DataInv, DmaReads, DmaWrites, DmaEnded, DmaPc

LEMMA DataFrame ==
  ASSUME DmaReads, DmaWrites, DmaEnded, SameDmaCall,
         UNCHANGED <<pc["M"], left["M"], ctrl["M"], flags["M"], tx["M"], rx["M"]>>,
         UNCHANGED <<status["M"], error_code["M"], cnt["M"], last["M"]>>,
         UNCHANGED <<phase, dir, clocked, acked>>
  PROVE  DataInv'
<1> USE DEF SameDmaCall
<1>1. Leftover' = Leftover /\ Bytes0' = Bytes0
  BY DEF Leftover, Bytes0
<1>2. DmaWritten' = DmaWritten /\ DmaReading' = DmaReading
  BY <1>1 DEF DmaWritten, DmaReading, Requested
<1>3. DmaBefore' = DmaBefore /\ DmaOnly' = DmaOnly /\ DmaMany' = DmaMany
  BY <1>1, <1>2 DEF DmaBefore, BeforeByte, DmaOnly, DmaMany, Requested
<1>4. Between' = Between /\ AfterSuccess' = AfterSuccess
  BY <1>1 DEF Between, AfterSuccess
<1>5. DmaReads' = DmaReads
  BY <1>2, <1>3 DEF DmaReads, Requested
<1>6. DmaWrites' = DmaWrites
  BY <1>2 DEF DmaWrites
<1>7. DmaEnded' = DmaEnded
  BY <1>4 DEF DmaEnded
<1>8. QED
  BY <1>5, <1>6, <1>7 DEF DataInv

(* Polled steps do not lead into the waits of a call by DMA.               *)
LEMMA PolledElsewhere ==
  ASSUME ScriptInv, Main("M")
  PROVE  pc'["M"] \notin DmaPc
<1> USE DEF Goto, Return, Came, DmaPc, Waits
<1>1. pc \in [Node -> MainPc] /\ "M" \in Node /\ (checking["M"] => pc["M"] \in Waits)
  BY DEF ScriptInv, ThreadInv, ThreadOf, TypeOK, SwTypeOK, Node
<1>2. CASE StartCall("M") \/ NextRound("M") \/ TryAgain("M") \/ GiveUp("M")
  BY <1>1, <1>2 DEF StartCall, FirstWait, NextRound, TryAgain, GiveUp
<1>3. CASE Wait("M")
  BY <1>1, <1>3 DEF Wait, LookAgain, NoEvent, WaitAckFail, WaitStop, WaitTimeout, CleanUp
<1>4. CASE GenerateStart \/ SendAddress \/ ClearAddrToWrite \/ SendRegister \/ GenerateRestart
  BY <1>1, <1>4 DEF GenerateStart, SendAddress, ClearAddrToWrite, SendRegister, GenerateRestart
<1>5. CASE SendData("M", "tdc") \/ StopWrite
  BY <1>1, <1>5 DEF SendData, StopWrite
<1>6. CASE ClearAddrToRead \/ Ev6Stop \/ Ev6Ack
  BY <1>1, <1>6 DEF ClearAddrToRead, Ev6Stop, Ev6Ack, ReadWait
<1>7. CASE ReadByte \/ ReadThirdLast \/ ReadLastTwo
  BY <1>1, <1>7 DEF ReadByte, ReadThirdLast, ReadLastTwo, ReadWait
<1>8. QED
  BY <1>2, <1>3, <1>4, <1>5, <1>6, <1>7 DEF Main, Master

(* Within the wait nothing is said of where a polling call is.             *)
LEMMA MasterElsewhere ==
  ASSUME pc'["M"] \in DmaPc
  PROVE  MasterInv'
BY DEF MasterInv, AddressInv, DmaPc

(* The address is acknowledged.                                            *)
LEMMA AddressedByDma ==
  ASSUME DataFacts, Came("M", "addr7") \/ Came("M", "readdr7")
  PROVE  /\ phase = "data" /\ tx["M"] = <<>> /\ Bytes0 /\ Leftover /\ rx["M"] = <<>>
         /\ Requested({}, {"GENSTOP", "ACKNEXT", "GENSTART"})
         /\ dir = IF pc["M"] = "readdr7" \/ MyRound("M").op = "read" THEN "read" ELSE "write"
         /\ cnt["M"] = Size("M") /\ left["M"] = Size("M") /\ status["M"] = "START"
         /\ Size("M") \in Nat \ {0}
         /\ Memory <=> MyRound("M").op \in {"mem_write", "mem_read"}
         /\ ~Memory <=> MyRound("M").op \in {"write", "read"}
         /\ Reads("M") <=> MyRound("M").op \in {"read", "mem_read"}
         /\ pc["M"] = "readdr7" => Reads("M")
<1>1. pc["M"] \in {"addr7", "readdr7"} /\ "ADDR7F" \in flags["M"]
  BY DEF Came, FlagCame
<1>2. phase = "data" /\ tx["M"] = <<>>
  BY <1>1 DEF DataFacts, CallFacts, FlagInv
<1>3. /\ Bytes0 /\ Leftover /\ "GENSTART" \notin ctrl["M"]
      /\ Requested({}, {"GENSTOP", "ACKNEXT"})
      /\ dir = IF pc["M"] = "readdr7" \/ MyRound("M").op = "read" THEN "read" ELSE "write"
  BY <1>1, <1>2 DEF DataFacts, MasterInv, AddressInv, Requested
<1>4. /\ cnt["M"] = Size("M") /\ left["M"] = Size("M") /\ status["M"] = "START"
  BY <1>1 DEF DataFacts, CallFacts, BoardFacts, HandleOf, Configured
<1>5. rx["M"] = <<>>
  BY <1>1, <1>3 DEF DataFacts, Leftover
<1>6. pc["M"] = "readdr7" => Reads("M")
  BY DEF DataFacts, CallFacts, MasterCount
<1>7. /\ Size("M") \in Nat \ {0}
      /\ Memory <=> MyRound("M").op \in {"mem_write", "mem_read"}
      /\ ~Memory <=> MyRound("M").op \in {"write", "read"}
      /\ Reads("M") <=> MyRound("M").op \in {"read", "mem_read"}
  BY <1>1 DEF DataFacts, CallFacts
<1>8. QED
  BY <1>2, <1>3, <1>4, <1>5, <1>6, <1>7 DEF Requested

(* A write: the channel has all bytes to give.                             *)
LEMMA ToSendData ==
  ASSUME DataFacts, SameDmaCall, DmaClearAddrToSend("M"), pc'["M"] = "dma_on"
  PROVE  MasterInv' /\ StopHasFrame' /\ DataInv'
<1> USE DEF SameDmaCall
<1>1. /\ phase = "data" /\ tx["M"] = <<>> /\ Bytes0 /\ Leftover
      /\ Requested({}, {"GENSTOP", "ACKNEXT", "GENSTART"}) /\ dir = "write"
      /\ cnt["M"] = Size("M") /\ status["M"] = "START" /\ Size("M") \in Nat \ {0} /\ ~Memory /\ ~Reads("M")
  <2>1. Came("M", "addr7") /\ ~Reads("M") /\ ~Memory
    BY DEF DmaClearAddrToSend, DataFacts, CallFacts, BoardFacts, Goto
  <2>2. MyRound("M").op # "read" /\ pc["M"] # "readdr7"
    BY <2>1 DEF Reads, Came
  <2>3. QED
    BY <2>1, <2>2, AddressedByDma
<1>2. /\ UNCHANGED <<ctrl, tx, rx, busVars, left, cnt, status>> /\ flags'["M"] = flags["M"] \ {"ADDR7F"}
  BY DEF DmaClearAddrToSend, DataFacts, CallFacts, ClearFlags, local, chan, Board
<1>3. DmaWritten'
  <2>1. clocked = 0 /\ acked = 0 /\ Len(tx["M"]) = 0 /\ cnt["M"] = Size("M")
    BY <1>1 DEF Bytes0
  <2>2. clocked + Len(tx["M"]) = Size("M") - cnt["M"] + IF Memory THEN 1 ELSE 0
    BY <1>1, <2>1
  <2>3. QED
    BY <1>1, <1>2, <2>1, <2>2 DEF DmaWritten, Leftover, Requested, busVars
<1>4. DataInv'
  BY <1>1, <1>3 DEF DataInv, DmaReads, DmaWrites, DmaEnded
<1>5. MasterInv'
  BY MasterElsewhere DEF DmaPc
<1>6. StopHasFrame'
  BY <1>1, <1>2 DEF StopHasFrame, Requested, busVars
<1>7. QED
  BY <1>4, <1>5, <1>6

(* A read: nothing has come yet.                                           *)
LEMMA ToReadData ==
  ASSUME DataFacts, SameDmaCall, DmaClearAddrToRead
  PROVE  MasterInv' /\ StopHasFrame' /\ DataInv'
<1> USE DEF SameDmaCall
<1>1. /\ phase = "data" /\ tx["M"] = <<>> /\ Bytes0 /\ rx["M"] = <<>>
      /\ Requested({}, {"GENSTOP", "ACKNEXT", "GENSTART"}) /\ dir = "read"
      /\ cnt["M"] = Size("M") /\ left["M"] = Size("M") /\ status["M"] = "START"
      /\ Size("M") \in Nat \ {0} /\ Reads("M")
  <2>1. \/ Came("M", "readdr7")
        \/ Came("M", "addr7") /\ MyRound("M").op = "read"
    BY DEF DmaClearAddrToRead
  <2>2. pc["M"] = "readdr7" \/ MyRound("M").op = "read"
    BY <2>1 DEF Came
  <2>3. QED
    BY <2>1, <2>2, AddressedByDma
<1>2. /\ UNCHANGED <<ctrl, tx, rx, busVars, left, cnt, status>> /\ flags'["M"] = flags["M"] \ {"ADDR7F"}
  BY DEF DmaClearAddrToRead, DataFacts, CallFacts, ClearFlags, local, chan, Board
<1>3. DmaReading'
  BY <1>1, <1>2 DEF DmaReading, Requested, busVars
<1>4. \/ left["M"] = 1 /\ pc'["M"] = "dma_ack"
      \/ left["M"] > 1 /\ pc'["M"] = "wait_end" /\ last'["M"]
  BY DEF DmaClearAddrToRead, Goto, DataFacts, CallFacts, BoardFacts
<1>5. ASSUME left["M"] = 1, pc'["M"] = "dma_ack" PROVE DataInv'
  <2>1. DmaBefore'
    BY <1>1, <1>2, <1>3 DEF DmaBefore, BeforeByte, Bytes0, Requested, busVars
  <2>2. QED
    BY <1>5, <2>1 DEF DataInv, DmaReads, DmaWrites, DmaEnded
<1>6. ASSUME left["M"] > 1, pc'["M"] = "wait_end", last'["M"] PROVE DataInv'
  <2>1. clocked = 0 /\ acked = 0 /\ Len(rx["M"]) = 0
    BY <1>1 DEF Bytes0
  <2>2. clocked = Size("M") - cnt["M"] + Len(rx["M"]) /\ clocked < Size("M")
    BY <1>1, <2>1
  <2>3. DmaMany'
    BY <1>1, <1>2, <1>6, <2>1, <2>2 DEF DmaMany, Requested, busVars
  <2>4. left'["M"] # 1 /\ status'["M"] = "START" /\ Reads("M")'
    BY <1>1, <1>2, <1>6
  <2>5. QED
    BY <1>3, <1>6, <2>3, <2>4 DEF DataInv, DmaReads, DmaWrites, DmaEnded
<1>7. MasterInv'
  BY <1>4, MasterElsewhere DEF DmaPc
<1>8. StopHasFrame'
  BY <1>1, <1>2 DEF StopHasFrame, Requested, busVars
<1>9. QED
  BY <1>4, <1>5, <1>6, <1>7, <1>8

LEMMA StopData ==
  ASSUME DataFacts, SameDmaCall, DmaAckOff \/ DmaStop
  PROVE  MasterInv' /\ StopHasFrame' /\ DataInv'
<1> USE DEF SameDmaCall
<1>1. /\ pc["M"] \in {"dma_ack", "dma_stop"} /\ DmaBefore /\ Reads("M") /\ left["M"] = 1
      /\ cnt["M"] = 1 /\ (pc["M"] = "dma_stop" => Requested({}, {"ACKEN"}))
      /\ status["M"] = "START"
  <2>1. pc["M"] \in {"dma_ack", "dma_stop"}
    BY DEF DmaAckOff, DmaStop
  <2>2. DmaBefore /\ (pc["M"] = "dma_stop" => Requested({}, {"ACKEN"}))
    BY <2>1 DEF DataFacts, DmaReads
  <2>3. Reads("M") /\ left["M"] = 1
    BY <2>1 DEF DataFacts, CallFacts, StopAsked
  <2>4. cnt["M"] = Size("M") /\ status["M"] = "START" /\ left["M"] = Size("M")
    BY <2>1 DEF DataFacts, CallFacts, BoardFacts, HandleOf, Configured
  <2>5. QED
    BY <2>1, <2>2, <2>3, <2>4
<1>2. /\ UNCHANGED <<flags, tx, rx, busVars, left, cnt, status>>
      /\ \/ pc["M"] = "dma_ack" /\ pc'["M"] = "dma_stop" /\ ctrl'["M"] = ctrl["M"] \ {"ACKEN"}
         \/ pc["M"] = "dma_stop" /\ pc'["M"] = "dma_on" /\ ctrl'["M"] = ctrl["M"] \cup {"GENSTOP"}
  BY DEF DmaAckOff, DmaStop, DataFacts, CallFacts, BoardFacts, SetCtrl, Goto, local, chan, Board
<1>3. phase = "data" /\ "GENSTART" \notin ctrl'["M"] /\ DmaReading'
  BY <1>1, <1>2 DEF DmaBefore, DmaReading, BeforeByte, Requested, busVars
<1>4. CASE pc'["M"] = "dma_stop"
  <2>1. DmaBefore' /\ Requested({}, {"ACKEN"})'
    BY <1>1, <1>2, <1>3, <1>4 DEF DmaBefore, BeforeByte, Bytes0, Requested, busVars
  <2>2. StopHasFrame'
    BY <1>2, <1>3 DEF StopHasFrame, busVars
  <2>3. QED
    <3>1. DataInv'
      BY <1>4, <2>1 DEF DataInv, DmaReads, DmaWrites, DmaEnded
    <3>2. MasterInv'
      BY <1>4, MasterElsewhere DEF DmaPc
    <3>3. QED
      BY <2>2, <3>1, <3>2
<1>5. CASE pc'["M"] = "dma_on"
  <2>1. DmaOnly'
    BY <1>1, <1>2, <1>3, <1>5 DEF DmaBefore, BeforeByte, Bytes0, DmaOnly, Requested, busVars
  <2>2. StopHasFrame'
    BY <1>2, <1>3 DEF StopHasFrame, busVars
  <2>3. left'["M"] = 1 /\ Reads("M")'
    BY <1>1, <1>2
  <2>4. QED
    <3>1. DataInv'
      BY <1>3, <1>5, <2>1, <2>3 DEF DataInv, DmaReads, DmaWrites, DmaEnded
    <3>2. MasterInv'
      BY <1>5, MasterElsewhere DEF DmaPc
    <3>3. QED
      BY <2>2, <3>1, <3>2
<1>6. QED
  BY <1>2, <1>4, <1>5

LEMMA EnableData ==
  ASSUME DataFacts, SameDmaCall, DmaEnable("M")
  PROVE  MasterInv' /\ StopHasFrame' /\ DataInv'
<1> USE DEF SameDmaCall
<1>1. /\ pc["M"] \in {"dma_on", "tdbe"} /\ pc'["M"] = "wait_end"
      /\ UNCHANGED <<hwVars, left, cnt, status, error_code, last>>
  BY DEF DmaEnable, DataFacts, CallFacts, BoardFacts, Goto, Came, local, chan, Board
<1>2. status["M"] = "START" /\ cnt["M"] = Size("M") /\ left["M"] = Size("M")
  BY <1>1 DEF DataFacts, CallFacts, BoardFacts, HandleOf, Configured
<1>3. MasterInv' /\ StopHasFrame'
  BY <1>1, MasterElsewhere DEF DataFacts, StopHasFrame, DmaPc, hwVars
<1>4. /\ DmaWritten' = DmaWritten /\ DmaReading' = DmaReading
      /\ DmaOnly' = DmaOnly /\ DmaMany' = DmaMany
  BY <1>1 DEF DmaWritten, DmaReading, DmaOnly, DmaMany, Requested, Leftover, Bytes0, hwVars
<1>5. CASE pc["M"] = "dma_on"
  BY <1>1, <1>2, <1>3, <1>4, <1>5 DEF DataFacts, DataInv, DmaReads, DmaWrites, DmaEnded
<1>6. CASE pc["M"] = "tdbe"
  <2>1. ~Reads("M") /\ Written
    BY <1>6 DEF DataFacts, CallFacts, MasterCount, MasterInv
  <2>2. DmaWritten
    BY <1>2, <2>1 DEF Written, DmaWritten
  <2>3. QED
    BY <1>1, <1>2, <1>3, <1>4, <2>1, <2>2 DEF DataInv, DmaReads, DmaWrites, DmaEnded
<1>7. QED
  BY <1>1, <1>5, <1>6

LEMMA EndData ==
  ASSUME DataFacts, SameDmaCall, i2c_wait_end("M")
  PROVE  MasterInv' /\ StopHasFrame' /\ DataInv'
<1> USE DEF SameDmaCall
<1>1. /\ pc["M"] = "wait_end" /\ pc'["M"] = "returned" /\ UNCHANGED hwVars
      /\ \/ status["M"] = "END" /\ ret'["M"] = error_code["M"]
         \/ env.timeouts /\ ret'["M"] = "ERR"
  BY DEF i2c_wait_end, DataFacts, CallFacts, BoardFacts, Goto, Return
<1>2. DataInv'
  BY <1>1, DataElsewhere DEF DmaPc
<1>3. StopHasFrame'
  BY <1>1 DEF DataFacts, StopHasFrame, hwVars
<1>4. ret'["M"] = "OK" => Between' /\ AfterSuccess'
  <2>1. ret'["M"] = "OK" => Between /\ AfterSuccess
    BY <1>1 DEF DataFacts, DmaEnded
  <2>2. Between' = Between /\ AfterSuccess' = AfterSuccess
    BY <1>1 DEF Between, AfterSuccess, Leftover, hwVars
  <2>3. QED
    BY <2>1, <2>2
<1>5. ret'["M"] = "ERR" => AfterFailure'
  <2>1. ret'["M"] = "ERR" => env.timeouts
    BY <1>1 DEF DataFacts, CallFacts, BoardFacts, HandleOf
  <2>2. QED
    BY <2>1 DEF AfterFailure, Steady
<1>6. QED
  BY <1>1, <1>2, <1>3, <1>4, <1>5 DEF MasterInv, AddressInv

(* The main thread of a master that transfers by DMA.                      *)
LEMMA MainData ==
  ASSUME ScriptInv, DataFacts, DmaMain("M")
  PROVE  MasterInv' /\ StopHasFrame' /\ DataInv'
<1>1. "M" \in Node /\ "S" \in Node \ {"M"}
  BY DEF Node
<1>2. CASE Main("M")
  <2>1. FrameInv
    BY DEF DataFacts, CallFacts, FrameInv
  <2>2. FrameInv'
    BY <1>2, <2>1, CommonFrame, MasterFrame DEF Main
  <2>3. QED
    BY <1>2, <2>2, PolledElsewhere, DataElsewhere DEF FrameInv
<1>3. CASE DmaOwn("M")
  <2>1. SameDmaCall
    BY <1>1, <1>3, OwnLocal, SameCallByDma DEF ScriptInv
  <2>2. QED
    BY <1>3, <2>1, ToSendData, ToReadData, StopData, EnableData, EndData DEF DmaOwn
<1>4. QED
  BY <1>1, <1>2, <1>3, SharedSteps DEF ScriptInv

(* The read is complete: every byte of it is stored.                       *)
LEMMA ReadEnds ==
  ASSUME DataFacts, SameDmaCall, pc["M"] = "wait_end", status["M"] = "START", tc["M"],
         DmaReadComplete("M"), UNCHANGED <<tx, rx, busVars, pc, error_code>>
  PROVE  StopHasFrame' /\ DataInv'
<1> USE DEF SameDmaCall
<1>1. Reads("M") /\ left["M"] = Size("M") /\ Size("M") \in Nat \ {0} /\ cnt["M"] = 0
  <2>1. mode["M"] = "I2C_DMA_MA_RX" /\ mode["M"] = ModeOf("M") /\ left["M"] = Size("M")
    BY DEF DmaReadComplete, DataFacts, CallFacts, BoardFacts, HandleOf
  <2>2. cnt["M"] = 0 /\ Size("M") \in Nat \ {0}
    BY DEF DataFacts, CallFacts, BoardFacts, ChannelOf
  <2>3. QED
    BY <2>1, <2>2 DEF ModeOf
<1>2. DmaReading /\ IF left["M"] = 1 THEN DmaOnly ELSE DmaMany
  BY <1>1 DEF DataFacts, DmaReads
<1>3. rx["M"] \in Seq(Byte) /\ Len(rx["M"]) \in Nat /\ clocked \in Nat /\ acked \in Nat
  BY DEF DataFacts, CallFacts
<1>4. /\ rx["M"] = <<>> /\ phase \in {"closing", "free"}
      /\ clocked = Size("M") /\ acked = Size("M") - 1
  <2>1. CASE left["M"] = 1
    <3>1. phase # "data" /\ phase \in {"data", "closing", "free"} /\ clocked = 1 /\ acked = 0 /\ Len(rx["M"]) = 0
      BY <1>1, <1>2, <2>1 DEF DmaOnly
    <3>2. QED
      BY <1>1, <1>3, <2>1, <3>1, EmptySeq
  <2>2. CASE left["M"] # 1
    <3>1. clocked = Size("M") - cnt["M"] + Len(rx["M"])
      BY <1>2, <2>2 DEF DmaMany
    <3>2. clocked = Size("M") + Len(rx["M"])
      BY <1>1, <1>3, <3>1
    <3>3. phase # "data"
      BY <1>1, <1>2, <1>3, <2>2, <3>2 DEF DmaMany
    <3>4. phase = "closing" /\ clocked = Size("M") /\ acked = clocked - 1
      BY <1>2, <2>2, <3>3 DEF DmaMany
    <3>5. Len(rx["M"]) = 0
      BY <1>1, <1>3, <3>2, <3>4
    <3>6. QED
      BY <1>3, <3>4, <3>5, EmptySeq
  <2>3. QED
    BY <2>1, <2>2
<1>5. "GENSTART" \notin ctrl'["M"] /\ ("GENSTOP" \in ctrl'["M"] <=> phase # "free")
  <2>1. CASE left["M"] = 1
    <3>1. ctrl'["M"] = ctrl["M"]
      BY <2>1 DEF DmaReadComplete, SetCtrl, DataFacts, CallFacts
    <3>2. QED
      BY <1>2, <2>1, <3>1 DEF DmaReading, DmaOnly, Requested
  <2>2. CASE left["M"] # 1
    <3>1. ctrl'["M"] = ctrl["M"] \cup {"GENSTOP"} /\ phase # "free"
      BY <1>2, <2>2 DEF DmaReadComplete, SetCtrl, DataFacts, CallFacts, DmaMany
    <3>2. QED
      BY <1>2, <3>1 DEF DmaReading, Requested
  <2>3. QED
    BY <2>1, <2>2
<1>6. Between'
  BY <1>4, <1>5 DEF Between, Leftover, busVars
<1>7. AfterSuccess'
  BY <1>1, <1>2, <1>4 DEF AfterSuccess, DmaReading, busVars
<1>8. status'["M"] = "END"
  BY DEF DmaReadComplete, TransferComplete, DataFacts, CallFacts, BoardFacts
<1>9. DataInv'
  BY <1>6, <1>7, <1>8 DEF DataInv, DmaReads, DmaWrites, DmaEnded
<1>10. StopHasFrame'
  BY <1>5 DEF StopHasFrame, busVars
<1>11. QED
  BY <1>9, <1>10

(* The write is: TDC says that its last byte is acknowledged.              *)
LEMMA WriteEnds ==
  ASSUME DataFacts, SameDmaCall, pc["M"] = "wait_end", status["M"] = "START",
         DmaHandlerEnds("M")
  PROVE  StopHasFrame' /\ DataInv'
<1> USE DEF SameDmaCall
<1>1. isr["M"] = "tdc" /\ ~Reads("M") /\ cnt["M"] = 0 /\ Size("M") \in Nat \ {0}
  BY DEF DmaHandlerEnds, DataFacts, CallFacts, BoardFacts, ChannelOf
<1>2. DmaWritten
  BY <1>1 DEF DataFacts, DmaWrites
<1>3. /\ ctrl'["M"] = ctrl["M"] \cup {"GENSTOP"} /\ status'["M"] = "END"
      /\ UNCHANGED <<tx, rx, busVars, pc>>
  BY <1>1 DEF DmaHandlerEnds, TransferComplete, SetCtrl, DataFacts, CallFacts, BoardFacts
<1>4. phase \in {"data", "closing"} /\ rx["M"] = <<>> /\ "GENSTART" \notin ctrl["M"] /\ dir = "write"
  BY <1>2 DEF DmaWritten, Leftover, Requested, DataFacts
<1>5. StopHasFrame'
  BY <1>3, <1>4 DEF StopHasFrame, busVars
<1>6. Between'
  BY <1>3, <1>4 DEF Between, Leftover, busVars
<1>7. error_code'["M"] = "OK" => AfterSuccess'
  <2> SUFFICES ASSUME error_code'["M"] = "OK" PROVE AfterSuccess'
    OBVIOUS
  <2>1. TDC("M")
    <3>1. Awaited("M")
      BY DEF DmaHandlerEnds, DataFacts, CallFacts, BoardFacts
    <3>2. QED
      BY <1>1, <3>1 DEF Awaited
  <2>2. phase = "data" /\ tx["M"] = <<>>
    BY <1>4, <2>1 DEF TDC, Transmitting
  <2>3. acked = clocked /\ clocked + Len(tx["M"]) = Size("M") - cnt["M"] + IF Memory THEN 1 ELSE 0
    BY <1>2, <2>2 DEF DmaWritten
  <2>4. acked = Size("M") + IF Memory THEN 1 ELSE 0
    <3>1. Len(tx["M"]) = 0 /\ clocked \in Nat
      BY <2>2 DEF DataFacts, CallFacts
    <3>2. QED
      BY <1>1, <2>3, <3>1
  <2>5. QED
    BY <1>1, <1>3, <1>4, <2>2, <2>4 DEF AfterSuccess, busVars
<1>8. DataInv'
  BY <1>3, <1>6, <1>7 DEF DataInv, DmaReads, DmaWrites, DmaEnded
<1>9. QED
  BY <1>5, <1>8

(* The channel moves a byte: what it has given is in the transmitter, what *)
(* it has fetched was in the data register.                                *)
LEMMA MoveData ==
  ASSUME DataFacts, SameDmaCall, pc["M"] = "wait_end", status["M"] = "START",
         DmaMove("M"), UNCHANGED busVars
  PROVE  StopHasFrame' /\ DataInv'
<1> USE DEF SameDmaCall
<1>1. /\ UNCHANGED <<ctrl, flags, pc, left, status, error_code, last>>
      /\ cnt["M"] \in Nat /\ cnt["M"] > 0 /\ cnt'["M"] = cnt["M"] - 1
      /\ mode["M"] = ModeOf("M") /\ Size("M") \in Nat \ {0}
      /\ clocked \in Nat /\ "M" \in Node
      /\ left["M"] = Size("M")
  BY DEF DmaMove, DmaReady, DataFacts, CallFacts, BoardFacts, HandleOf
<1>2. StopHasFrame'
  BY <1>1 DEF StopHasFrame, DataFacts, busVars
<1>3. CASE Sends("M")
  <2>1. ~Reads("M") /\ DmaWritten /\ TDBE("M")
    BY <1>1, <1>3 DEF Sends, ModeOf, DataFacts, DmaWrites, DmaMove, DmaReady
  <2> DEFINE byte == <<round["M"], Size("M") - cnt["M"] + 1>>
             more == IF Memory THEN 1 ELSE 0
  <2>2. tx' = [tx EXCEPT !["M"] = Append(@, byte)] /\ rx' = rx
    BY <1>3 DEF DmaMove, i2c_data_send
  <2>3. byte \in Byte
    <3>1. cnt["M"] <= Size("M") /\ round["M"] \in Nat
      <4>1. dmaen["M"]
        BY DEF DmaMove, DmaReady
      <4>2. QED
        BY <4>1 DEF DataFacts, CallFacts, BoardFacts, ChannelOf
    <3>2. Size("M") - cnt["M"] + 1 \in Nat
      BY <1>1, <3>1
    <3>3. QED
      BY <3>1, <3>2 DEF Byte
  <2>4. tx["M"] \in Seq(Byte) /\ Len(tx["M"]) \in Nat /\ tx'["M"] = Append(tx["M"], byte)
    BY <2>2 DEF DataFacts, CallFacts
  <2>5. Len(tx'["M"]) = Len(tx["M"]) + 1
    BY <2>3, <2>4
  <2>6. phase = "data" /\ clocked + Len(tx["M"]) = Size("M") - cnt["M"] + more
    BY <2>1 DEF TDBE, Transmitting, DmaWritten
  <2>7. clocked + Len(tx'["M"]) = Size("M") - cnt'["M"] + more
    <3>1. more \in Nat
      OBVIOUS
    <3>2. \A c, l, s, k, e \in Nat :
            c + l = s - k + e => c + (l + 1) = s - (k - 1) + e
      OBVIOUS
    <3> HIDE DEF more
    <3>3. QED
      <4>1. clocked + (Len(tx["M"]) + 1) = Size("M") - (cnt["M"] - 1) + more
        <5>1. Size("M") \in Nat /\ cnt["M"] \in Nat /\ clocked \in Nat /\ Len(tx["M"]) \in Nat
          BY <1>1, <2>4
        <5>2. clocked + Len(tx["M"]) = Size("M") - cnt["M"] + more
          BY <2>6
        <5>3. QED
          BY ONLY <3>1, <3>2, <5>1, <5>2, SMTT(30)
      <4>2. QED
        BY ONLY <1>1, <2>5, <4>1
  <2>8. DmaWritten'
    BY <1>1, <2>1, <2>2, <2>7 DEF DmaWritten, Leftover, Requested, busVars
  <2>9. DataInv'
    BY <1>1, <2>1, <2>8 DEF DataInv, DmaReads, DmaWrites, DmaEnded
  <2>10. QED
    BY <1>2, <2>9
<1>4. CASE ~Sends("M")
  <2>1. Reads("M") /\ rx["M"] # <<>> /\ rx["M"] \in Seq(Byte) /\ Len(rx["M"]) \in Nat
    BY <1>1, <1>4 DEF Sends, ModeOf, DataFacts, CallFacts, DmaMove, DmaReady, RDBF
  <2>2. DmaReading /\ IF left["M"] = 1 THEN DmaOnly ELSE DmaMany
    BY <2>1 DEF DataFacts, DmaReads
  <2>3. rx'["M"] = SubSeq(rx["M"], 1 + 1, Len(rx["M"])) /\ UNCHANGED tx
    BY <1>4 DEF DmaMove, i2c_data_receive, DataFacts, CallFacts
  <2>4. Len(rx["M"]) >= 1
    BY <2>1, EmptySeq
  <2>5. Len(rx'["M"]) = Len(rx["M"]) - 1
    BY <2>1, <2>3, <2>4, RestLength
  <2>6. DmaReading'
    BY <1>1, <2>2, <2>3 DEF DmaReading, Requested, busVars
  <2>7. CASE left["M"] = 1
    <3>1. phase # "data"
      BY <2>1, <2>2, <2>7 DEF DmaOnly
    <3>2. Len(rx["M"]) = cnt["M"]
      BY <2>2, <2>7, <3>1 DEF DmaOnly
    <3>3. Len(rx'["M"]) = cnt'["M"]
      BY <1>1, <2>5, <3>2
    <3>4. DmaOnly'
      BY <1>1, <2>2, <2>7, <3>1, <3>3 DEF DmaOnly, Requested, busVars
    <3>5. DataInv'
      BY <1>1, <2>1, <2>6, <2>7, <3>4 DEF DataInv, DmaReads, DmaWrites, DmaEnded
    <3>6. QED
      BY <1>2, <3>5
  <2>8. CASE left["M"] # 1
    <3>1. clocked = Size("M") - cnt["M"] + Len(rx["M"])
      BY <2>2, <2>8 DEF DmaMany
    <3>2. clocked = Size("M") - cnt'["M"] + Len(rx'["M"])
      BY <1>1, <2>1, <2>5, <3>1
    <3>3. DmaMany'
      BY <1>1, <2>2, <2>8, <3>2 DEF DmaMany, Requested, busVars
    <3>4. DataInv'
      BY <1>1, <2>1, <2>6, <2>8, <3>3 DEF DataInv, DmaReads, DmaWrites, DmaEnded
    <3>5. QED
      BY <1>2, <3>4
  <2>9. QED
    BY <2>7, <2>8
<1>5. QED
  BY <1>3, <1>4

(* The handlers and the controller, for a call in its wait and for one     *)
(* that the wait has given up.                                             *)
LEMMA ServeData ==
  ASSUME DataFacts, Serves("M"), dmaen["M"], status["M"] = "START", Waiting("M"),
         UNCHANGED <<pc, ret, app, busVars>>
  PROVE  MasterInv' /\ StopHasFrame' /\ DataInv'
<1>1. SameDmaCall
  BY SameCallByDma DEF app
<1>2. CASE pc["M"] = "wait_end"
  <2>1. MasterInv'
    BY <1>2, MasterElsewhere DEF DmaPc
  <2>2. CASE DmaHandler("M")
    <3>1. tc["M"] /\ UNCHANGED <<tx, rx, error_code, cnt, last>>
      BY <2>2 DEF DmaHandler, Request
    <3>2. CASE DmaReadComplete("M")
      BY <1>1, <1>2, <2>1, <3>1, <3>2, ReadEnds
    <3>3. CASE DmaHandlerWaits("M")
      <4>1. UNCHANGED <<ctrl, flags, left, status>>
        BY <3>3 DEF DmaHandlerWaits
      <4>2. DataInv'
        BY <1>1, <3>1, <4>1, DataFrame DEF DataFacts, busVars
      <4>3. StopHasFrame'
        BY <1>1, <4>1 DEF DataFacts, StopHasFrame, SameDmaCall, busVars
      <4>4. QED
        BY <2>1, <4>2, <4>3
    <3>4. QED
      BY <2>2, <3>2, <3>3 DEF DmaHandler
  <2>3. CASE DmaHandlerEnds("M")
    BY <1>1, <1>2, <2>1, <2>3, WriteEnds
  <2>4. CASE DmaMove("M")
    BY <1>1, <1>2, <2>1, <2>4, MoveData
  <2>5. QED
    BY <2>2, <2>3, <2>4 DEF Serves
<1>3. CASE pc["M"] # "wait_end"
  <2>1. pc'["M"] \in {"returned", "gave_up"} /\ ret'["M"] = "ERR" /\ env'.timeouts
    BY <1>1, <1>3 DEF Waiting, SameDmaCall
  <2>2. MasterInv'
    BY <2>1 DEF MasterInv, AddressInv, AfterFailure, Steady
  <2>3. StopHasFrame' /\ DataInv'
    BY <2>1, DataElsewhere DEF StopHasFrame, DmaPc
  <2>4. QED
    BY <2>2, <2>3
<1>4. QED
  BY <1>2, <1>3

(***************************************************************************)
(* The bus, as the master's registers and its frame see it.                *)
(***************************************************************************)

SameFrame ==
  /\ UNCHANGED <<ctrl["M"], flags["M"], tx["M"], rx["M"]>>
  /\ UNCHANGED <<phase, dir, clocked, acked>>

WriteClocked ==
  /\ phase = "data" /\ dir = "write" /\ "ADDR7F" \notin flags["M"] /\ tx["M"] # <<>>
  /\ UNCHANGED <<ctrl, dir>> /\ rx'["M"] = rx["M"] /\ clocked' = clocked + 1
  /\ \/ /\ phase' = "data" /\ acked' = acked + 1
        /\ tx'["M"] = Tail(tx["M"]) /\ flags'["M"] = flags["M"]
     \/ phase' = "closing" /\ tx'["M"] = <<>>

ReadClocked ==
  /\ phase = "data" /\ dir = "read" /\ "ADDR7F" \notin flags["M"]
  /\ UNCHANGED <<ctrl, dir>> /\ flags'["M"] = flags["M"] /\ tx'["M"] = tx["M"]
  /\ clocked' = clocked + 1 /\ Len(rx'["M"]) = Len(rx["M"]) + 1
  /\ acked' = IF DmaMasterAcks THEN acked + 1 ELSE acked
  /\ phase' = IF DmaMasterAcks /\ "GENSTOP" \notin ctrl["M"] THEN "data" ELSE "closing"
  /\ ~DmaReady("M")

OverrunClocked ==
  /\ phase = "closing" /\ dir = "read" /\ "GENSTOP" \notin ctrl["M"] /\ ~EndedByDma
  /\ UNCHANGED <<phase, dir>>

Stopped ==
  /\ "GENSTOP" \in ctrl["M"] /\ ByteBoundary
  /\ ctrl'["M"] = ctrl["M"] \ {"GENSTOP"}
  /\ flags'["M"] = flags["M"] \ {"BUSYF", "STARTF", "ADDR7F"}
  /\ phase' = "free" /\ UNCHANGED <<tx, rx, dir, clocked, acked>>

LEMMA BusMoves ==
  ASSUME CallFacts, DmaBus \/ DmaFault
  PROVE  \/ SameFrame
         \/ "GENSTART" \in ctrl["M"]
         \/ phase = "addr"
         \/ WriteClocked
         \/ DmaInTime /\ ReadClocked
         \/ OverrunClocked
         \/ DmaInTime /\ Stopped
<1>1. /\ "M" \in Node /\ ctrl \in [Node -> SUBSET CtrlBits] /\ flags \in [Node -> SUBSET Flags]
      /\ tx \in [Node -> Seq(Byte)] /\ rx \in [Node -> Seq(Byte)]
  BY DEF CallFacts
<1>2. CASE HwStart \/ HwRestart
  BY <1>2 DEF HwStart, HwRestart
<1>3. CASE HwAddrAck \/ HwAddrNack
  BY <1>3 DEF HwAddrAck, HwAddrNack
<1>4. ASSUME NEW lost \in BOOLEAN, HwWriteByte(lost) PROVE WriteClocked
  <2>1. /\ phase = "data" /\ dir = "write" /\ "ADDR7F" \notin flags["M"] /\ tx["M"] # <<>>
        /\ UNCHANGED <<ctrl, dir>> /\ rx'["M"] = rx["M"] /\ clocked' = clocked + 1
    BY <1>1, <1>4 DEF HwWriteByte
  <2>2. \/ /\ phase' = "data" /\ acked' = acked + 1
           /\ tx'["M"] = Tail(tx["M"]) /\ flags'["M"] = flags["M"]
        \/ phase' = "closing" /\ tx'["M"] = <<>>
    BY <1>1, <1>4, <2>1 DEF HwWriteByte
  <2>3. QED
    BY <2>1, <2>2 DEF WriteClocked
<1>5. ASSUME DmaBus, HwReadByteAck(DmaMasterAcks) PROVE ReadClocked
  <2>1. PICK b : rx'["M"] = Append(rx["M"], b)
    BY <1>1, <1>5 DEF HwReadByteAck
  <2>2. rx["M"] \in Seq(Byte)
    BY <1>1
  <2>3. Len(Append(rx["M"], b)) = Len(rx["M"]) + 1
    BY <2>2
  <2>4. ~DmaReady("M")
    BY <1>1, <1>5 DEF DmaBus
  <2>5. flags'["M"] = flags["M"] /\ tx'["M"] = tx["M"]
    BY <1>1, <1>5 DEF HwReadByteAck
  <2>6. QED
    BY <1>5, <2>1, <2>3, <2>4, <2>5 DEF HwReadByteAck, ReadClocked
<1>6. CASE ~EndedByDma /\ HwOverrunByte
  BY <1>6 DEF HwOverrunByte, OverrunClocked
<1>7. CASE DmaInTime /\ HwStop
  BY <1>1, <1>7 DEF HwStop, Stopped
<1>8. CASE HwSlaveRelease
  BY <1>8 DEF HwSlaveRelease, SameFrame
<1>9. CASE DmaBus
  BY <1>2, <1>3, <1>4, <1>5, <1>6, <1>7, <1>8, <1>9 DEF DmaBus
<1>10. CASE DmaFault
  BY <1>4, <1>10 DEF DmaFault, Fault
<1>11. QED
  BY <1>9, <1>10

(* What the bus leaves of a call by DMA.                                   *)
SameHandleOfBus ==
  /\ UNCHANGED <<pc, left, ret, status, error_code, cnt, last, dmaen>>
  /\ SameDmaCall

LEMMA BusHandle ==
  ASSUME DmaBus \/ DmaFault
  PROVE  SameHandleOfBus
<1>1. UNCHANGED <<pc, left, ret, status, error_code, cnt, last, dmaen, plan, env, round>>
  BY DEF DmaBus, DmaFault, Fault, Quiet, local, app, dmaVars, chan
<1>2. QED
  BY <1>1, SameCallByDma DEF SameHandleOfBus

(* A read of one byte before its STOP: the bus waits for a prompt master.  *)
LEMMA BeforeData ==
  ASSUME DataFacts, SameHandleOfBus, pc["M"] \in {"dma_ack", "dma_stop"}, DmaBus \/ DmaFault
  PROVE  DataInv'
<1>1. DmaBefore /\ (pc["M"] = "dma_stop" => Requested({}, {"ACKEN"}))
  BY DEF DataFacts, DmaReads
<1>2. env.prompt
  <2>1. /\ Reads("M") /\ left["M"] = 1 /\ InTimeSoFar /\ round["M"] \in Nat \ {0}
    BY DEF DataFacts, CallFacts, StopAsked
  <2>2. status["M"] = "START"
    BY DEF DataFacts, CallFacts, BoardFacts, HandleOf
  <2>3. Size("M") = 1
    BY <2>1, <2>2 DEF DataFacts, CallFacts, BoardFacts, HandleOf
  <2>4. /\ MyRound("M").op \in {"read", "mem_read"}
    BY <2>1 DEF DataFacts, CallFacts
  <2>5. ~TimingFree(MyRound("M"))
    BY <2>3, <2>4 DEF TimingFree, Size
  <2>6. round["M"] \in 1 .. round["M"]
    BY <2>1
  <2>7. QED
    BY <2>1, <2>5, <2>6 DEF InTimeSoFar, MyRound
<1>3. phase = "data" /\ dir = "read" /\ "GENSTART" \notin ctrl["M"] /\ ~DmaInTime
  BY <1>1, <1>2 DEF DmaBefore, DmaReading, BeforeByte, Requested, DmaInTime
<1>4. SameFrame
  BY <1>3, BusMoves DEF DataFacts, WriteClocked, OverrunClocked
<1>5. QED
  BY <1>4, DataFrame DEF DataFacts, SameHandleOfBus, SameFrame

(* A call that ended well.                                                 *)
LEMMA EndedData ==
  ASSUME DataFacts, SameHandleOfBus, pc["M"] = "wait_end", status["M"] = "END", error_code["M"] = "OK",
         DmaBus \/ DmaFault
  PROVE  DataInv'
<1> USE DEF SameHandleOfBus, SameDmaCall
<1>1. Between /\ AfterSuccess /\ InTimeSoFar
  BY DEF DataFacts, DmaEnded
<1>2. /\ "GENSTART" \notin ctrl["M"] /\ phase # "addr" /\ ~WriteClocked
      /\ ~ReadClocked /\ ~OverrunClocked
  BY <1>1 DEF Between, AfterSuccess, WriteClocked, ReadClocked, OverrunClocked
<1>3. CASE SameFrame
  BY <1>3, DataFrame DEF DataFacts, SameFrame
<1>4. CASE Stopped
  <2>1. Between'
    BY <1>1, <1>4 DEF Between, Leftover, Stopped
  <2>2. AfterSuccess'
    BY <1>1, <1>4 DEF AfterSuccess, Stopped
  <2>3. QED
    BY <2>1, <2>2 DEF DataInv, DmaReads, DmaWrites, DmaEnded
<1>5. QED
  BY <1>2, <1>3, <1>4, BusMoves DEF DataFacts

(* A byte of a write, acknowledged or not.                                 *)
LEMMA WrittenData ==
  ASSUME DataFacts, SameHandleOfBus, pc["M"] \in {"dma_on", "wait_end"}, status["M"] = "START",
         ~Reads("M"), DmaBus \/ DmaFault
  PROVE  DataInv'
<1> USE DEF SameHandleOfBus, SameDmaCall
<1> DEFINE total == Size("M") - cnt["M"] + IF Memory THEN 1 ELSE 0
<1>1. DmaWritten
  BY DEF DataFacts, DmaWrites
<1>2. /\ phase \in {"data", "closing"} /\ dir = "write" /\ Leftover /\ InTimeSoFar
      /\ "GENSTOP" \notin ctrl["M"] /\ "GENSTART" \notin ctrl["M"]
  BY <1>1 DEF DmaWritten, Requested, DataFacts
<1>3. SameFrame \/ WriteClocked
  BY <1>2, BusMoves DEF DataFacts, ReadClocked, OverrunClocked, Stopped
<1>4. CASE SameFrame
  BY <1>4, DataFrame DEF DataFacts, SameFrame
<1>5. CASE WriteClocked
  <2>1. Requested({}, {"GENSTOP", "GENSTART"})' /\ Leftover'
    BY <1>2, <1>5 DEF Requested, Leftover, WriteClocked
  <2>2. phase' \in {"data", "closing"} /\ dir' = "write"
    BY <1>2, <1>5 DEF WriteClocked
  <2>3. ASSUME phase' = "data" PROVE "ADDR7F" \notin flags'["M"] /\ acked' = clocked'
                                     /\ clocked' + Len(tx'["M"]) = total
    <3>1. /\ phase = "data" /\ acked = clocked /\ clocked + Len(tx["M"]) = total
          /\ clocked' = clocked + 1 /\ acked' = acked + 1 /\ tx'["M"] = Tail(tx["M"])
          /\ "ADDR7F" \notin flags["M"] /\ flags'["M"] = flags["M"] /\ tx["M"] # <<>>
      BY <1>1, <1>5, <2>3 DEF DmaWritten, WriteClocked
    <3>2. tx["M"] \in Seq(Byte)
      BY DEF DataFacts, CallFacts
    <3>3. Len(tx["M"]) \in Nat /\ Len(Tail(tx["M"])) = Len(tx["M"]) - 1 /\ clocked \in Nat
      BY <3>1, <3>2 DEF DataFacts, CallFacts
    <3>4. (clocked + 1) + (Len(tx["M"]) - 1) = clocked + Len(tx["M"])
      <4>1. \A c, l \in Nat : (c + 1) + (l - 1) = c + l
        OBVIOUS
      <4>2. QED
        BY ONLY <3>3, <4>1
    <3> HIDE DEF total
    <3>5. QED
      BY <3>1, <3>3, <3>4
  <2>4. DmaWritten'
    BY <2>1, <2>2, <2>3 DEF DmaWritten
  <2>5. QED
    BY <2>4 DEF DataInv, DmaReads, DmaWrites, DmaEnded
<1>6. QED
  BY <1>3, <1>4, <1>5

(* The only byte of a read, and the STOP after it.                         *)
LEMMA OnlyData ==
  ASSUME DataFacts, SameHandleOfBus, pc["M"] \in {"dma_on", "wait_end"}, status["M"] = "START",
         Reads("M"), left["M"] = 1, DmaBus \/ DmaFault
  PROVE  DataInv'
<1> USE DEF SameHandleOfBus, SameDmaCall
<1>1. DmaReading /\ DmaOnly
  BY DEF DataFacts, DmaReads
<1>2. /\ phase \in {"data", "closing", "free"} /\ dir = "read" /\ "GENSTART" \notin ctrl["M"]
      /\ tx["M"] = <<>> /\ "ADDR7F" \notin flags["M"] /\ Requested({}, {"ACKEN", "ACKNEXT"})
      /\ "GENSTOP" \in ctrl["M"] <=> phase # "free"
  BY <1>1 DEF DmaReading, DmaOnly, Requested
<1>3. SameFrame \/ ReadClocked \/ Stopped
  BY <1>2, BusMoves DEF DataFacts, WriteClocked, OverrunClocked
<1>4. ASSUME DmaReading', DmaOnly' PROVE DataInv'
  BY <1>4 DEF DataInv, DmaReads, DmaWrites, DmaEnded
<1>5. CASE SameFrame
  BY <1>5, DataFrame DEF DataFacts, SameFrame
<1>6. CASE ReadClocked
  <2>1. DmaReading'
    BY <1>2, <1>6 DEF DmaReading, Requested, ReadClocked
  <2>2. phase = "data" /\ clocked = 0 /\ acked = 0 /\ rx["M"] = <<>> /\ cnt["M"] = 1
    BY <1>1, <1>6 DEF DmaOnly, Bytes0, ReadClocked
  <2>3. ~DmaMasterAcks
    BY <1>2, <2>2 DEF DmaMasterAcks, MasterAcks, Requested
  <2>4. phase' = "closing" /\ acked' = 0 /\ clocked' = 1 /\ Len(rx'["M"]) = 1 /\ UNCHANGED ctrl
    <3>1. Len(rx["M"]) = 0
      BY <2>2
    <3>2. QED
      BY <1>6, <2>2, <2>3, <3>1 DEF ReadClocked
  <2>5. DmaOnly'
    BY <1>2, <2>2, <2>4 DEF DmaOnly, Requested
  <2>6. QED
    BY <1>4, <2>1, <2>5
<1>7. CASE Stopped
  <2>1. phase # "data"
    <3>1. phase = "data" => rx["M"] = <<>>
      BY <1>1 DEF DmaOnly
    <3>2. rx["M"] = <<>> => Len(rx["M"]) # 2
      OBVIOUS
    <3>3. QED
      BY <1>2, <1>7, <3>1, <3>2 DEF Stopped, ByteBoundary
  <2>2. DmaReading'
    BY <1>2, <1>7 DEF DmaReading, Requested, Stopped
  <2>3. DmaOnly'
    BY <1>1, <1>2, <1>7, <2>1 DEF DmaOnly, Requested, Stopped
  <2>4. QED
    BY <1>4, <2>2, <2>3
<1>8. QED
  BY <1>3, <1>5, <1>6, <1>7

(* A byte of a longer read: the channel refuses the last one.              *)
LEMMA ManyData ==
  ASSUME DataFacts, SameHandleOfBus, pc["M"] \in {"dma_on", "wait_end"}, status["M"] = "START",
         Reads("M"), left["M"] # 1, DmaBus \/ DmaFault
  PROVE  DataInv'
<1> USE DEF SameHandleOfBus, SameDmaCall
<1>1. DmaReading /\ DmaMany
  BY DEF DataFacts, DmaReads
<1>2. /\ phase \in {"data", "closing"} /\ dir = "read" /\ "GENSTART" \notin ctrl["M"]
      /\ "GENSTOP" \notin ctrl["M"] /\ tx["M"] = <<>> /\ "ADDR7F" \notin flags["M"] /\ last["M"]
  BY <1>1 DEF DmaReading, DmaMany, Requested
<1>3. dmaen["M"] /\ EndedByDma
  <2>1. pc["M"] = "wait_end"
    BY DEF DataFacts, CallFacts, StopAsked
  <2>2. dmaen["M"]
    BY <2>1 DEF DataFacts, CallFacts, BoardFacts, ChannelOf
  <2>3. QED
    BY <1>2, <2>2 DEF EndedByDma
<1>4. SameFrame \/ ReadClocked
  BY <1>2, <1>3, BusMoves DEF DataFacts, WriteClocked, OverrunClocked, Stopped
<1>5. CASE SameFrame
  BY <1>5, DataFrame DEF DataFacts, SameFrame
<1>6. CASE ReadClocked
  <2>1. /\ Size("M") \in Nat \ {0} /\ cnt["M"] \in Nat /\ clocked \in Nat /\ acked \in Nat
        /\ rx["M"] \in Seq(Byte)
    BY DEF DataFacts, CallFacts, BoardFacts
  <2>2. Len(rx["M"]) \in Nat
    BY <2>1
  <2>3. /\ phase = "data" /\ clocked < Size("M") /\ acked = clocked
        /\ clocked = Size("M") - cnt["M"] + Len(rx["M"])
    BY <1>1, <1>6 DEF DmaMany, ReadClocked
  <2>4. cnt["M"] > 0
    <3>1. \A c, s, k, l \in Nat : c < s /\ c = s - k + l => k > 0
      OBVIOUS
    <3>2. QED
      BY ONLY <2>1, <2>2, <2>3, <3>1
  <2>5. rx["M"] = <<>>
    <3>1. mode["M"] = ModeOf("M")
      BY DEF DataFacts, CallFacts, BoardFacts, HandleOf
    <3>2. ~Sends("M")
      BY <3>1 DEF ModeOf, Sends
    <3>3. QED
      BY <1>3, <1>6, <2>4, <3>2 DEF ReadClocked, DmaReady, RDBF
  <2>6. Len(rx["M"]) = 0 /\ clocked = Size("M") - cnt["M"]
    BY <2>1, <2>3, <2>5
  <2>7. /\ clocked' = clocked + 1 /\ Len(rx'["M"]) = 1 /\ UNCHANGED <<ctrl, dir>>
        /\ flags'["M"] = flags["M"] /\ tx'["M"] = tx["M"]
    BY <1>6, <2>6 DEF ReadClocked
  <2>8. clocked' = Size("M") - cnt["M"] + Len(rx'["M"])
    BY <2>1, <2>6, <2>7
  <2>9. DmaReading'
    BY <1>2, <2>7 DEF DmaReading, Requested
  <2>10. CASE cnt["M"] = 1
    <3>1. ~DmaMasterAcks
      BY <1>3, <2>10 DEF DmaMasterAcks
    <3>2. phase' = "closing" /\ acked' = acked
      BY <1>6, <3>1 DEF ReadClocked
    <3>3. clocked' = Size("M") /\ acked' = clocked' - 1
      BY <2>1, <2>3, <2>6, <2>7, <2>10, <3>2
    <3>4. DmaMany'
      BY <1>2, <2>7, <2>8, <3>2, <3>3 DEF DmaMany, Requested
    <3>5. QED
      BY <2>9, <3>4 DEF DataInv, DmaReads, DmaWrites, DmaEnded
  <2>11. CASE cnt["M"] # 1
    <3>1. DmaMasterAcks
      BY <1>3, <2>11 DEF DmaMasterAcks
    <3>2. phase' = "data" /\ acked' = acked + 1
      BY <1>2, <1>6, <3>1 DEF ReadClocked
    <3>3. clocked' < Size("M") /\ acked' = clocked'
      BY <2>1, <2>3, <2>4, <2>6, <2>7, <2>11, <3>2
    <3>4. DmaMany'
      BY <1>2, <2>7, <2>8, <3>2, <3>3 DEF DmaMany, Requested
    <3>5. QED
      BY <2>9, <3>4 DEF DataInv, DmaReads, DmaWrites, DmaEnded
  <2>12. QED
    BY <2>10, <2>11
<1>7. QED
  BY <1>4, <1>5, <1>6

(* Where the channel acknowledges the call is in its wait or given up, and *)
(* nothing is said of where a polling call is.                             *)
LEMMA ByDmaElsewhere ==
  ASSUME DataFacts, SameHandleOfBus, ReadByDma
  PROVE  MasterInv' /\ StopHasFrame'
<1> USE DEF SameHandleOfBus, SameDmaCall
<1>1. Waiting("M")
  BY DEF ReadByDma, EndedByDma, DataFacts, CallFacts, BoardFacts, ChannelOf
<1>2. phase' # "free"
  BY DEF ReadByDma, HwReadByteAck
<1>3. MasterInv'
  <2>1. CASE pc["M"] = "wait_end"
    BY <2>1, MasterElsewhere DEF DmaPc
  <2>2. CASE pc["M"] # "wait_end"
    <3>1. pc'["M"] \in {"returned", "gave_up"} /\ ret'["M"] = "ERR" /\ env'.timeouts
      BY <1>1, <2>2 DEF Waiting
    <3>2. QED
      BY <3>1 DEF MasterInv, AddressInv, AfterFailure, Steady
  <2>3. QED
    BY <2>1, <2>2
<1>4. QED
  BY <1>2, <1>3 DEF StopHasFrame

(* Every step of the bus.                                                  *)
LEMMA BusData ==
  ASSUME ScriptInv, DataFacts, DmaBus \/ DmaFault
  PROVE  MasterInv' /\ StopHasFrame' /\ DataInv'
<1>1. SameHandleOfBus
  BY BusHandle
<1>2. MasterInv' /\ StopHasFrame'
  <2>1. CASE Bus \/ Fault
    BY <2>1, BusFrame DEF DataFacts, CallFacts, FrameInv
  <2>2. CASE ReadByDma
    BY <1>1, <2>2, ByDmaElsewhere
  <2>3. QED
    BY <2>1, <2>2, DmaBusSteps DEF DmaFault
<1>3. DataInv'
  <2>1. CASE pc["M"] \in {"dma_ack", "dma_stop"}
    BY <1>1, <2>1, BeforeData
  <2>2. CASE pc["M"] \in {"dma_on", "wait_end"} /\ status["M"] = "START"
    BY <1>1, <2>2, WrittenData, OnlyData, ManyData
  <2>3. CASE pc["M"] = "wait_end" /\ status["M"] # "START" /\ error_code["M"] = "OK"
    <3>1. status["M"] = "END"
      BY <2>3 DEF DataFacts, CallFacts, BoardFacts
    <3>2. QED
      BY <1>1, <2>3, <3>1, EndedData
  <2>4. CASE pc["M"] \notin DmaPc
    BY <1>1, <2>4, DataElsewhere DEF SameHandleOfBus
  <2>5. CASE pc["M"] = "dma_on" /\ status["M"] # "START"
    <3>1. status["M"] = "END"
      BY <2>5 DEF DataFacts, CallFacts, BoardFacts
    <3>2. QED
      BY <2>5, <3>1 DEF DataFacts, CallFacts, BoardFacts, HandleOf
  <2>6. CASE pc["M"] = "wait_end" /\ status["M"] # "START" /\ error_code["M"] # "OK"
    BY <1>1, <2>6 DEF SameHandleOfBus, DataInv, DmaReads, DmaWrites, DmaEnded
  <2>7. QED
    BY <2>1, <2>2, <2>3, <2>4, <2>5, <2>6 DEF DmaPc
<1>4. QED
  BY <1>2, <1>3

(* A step that is not the master's own, nor the bus's.                     *)
LEMMA SameData ==
  ASSUME ScriptInv, DataFacts, SameMaster
  PROVE  MasterInv' /\ StopHasFrame' /\ DataInv'
<1>1. FrameInv
  BY DEF DataFacts, CallFacts, FrameInv
<1>2. FrameInv'
  BY <1>1, FrameFrame DEF SameMaster
<1>3. SameDmaCall
  BY SameCallByDma DEF SameMaster, SameThread
<1>4. DataInv'
  BY <1>3, DataFrame DEF DataFacts, SameMaster, SameThread, SameRegisters, SameBoard
<1>5. QED
  BY <1>2, <1>4 DEF FrameInv

(* A master that does not use its channel polls.                           *)
LEMMA PolledData ==
  ASSUME ScriptInv, DmaTypeOK, CallInv, MasterInv, StopHasFrame, ~ByDma("M"),
         [DmaNext]_allVars
  PROVE  MasterInv' /\ StopHasFrame'
<1>1. FrameInv /\ BoardsInv /\ ~dmaen["M"]
  BY DEF FrameInv, CallInv, BoardsInv, BoardOf, Untouched, Node
<1>2. CASE SameMaster
  BY <1>1, <1>2, FrameFrame DEF SameMaster, FrameInv
<1>3. CASE Main("M")
  BY <1>1, <1>3, CommonFrame, MasterFrame DEF Main, FrameInv
<1>4. ~Serves("M")
  BY <1>1, Served DEF Node
<1>5. CASE DmaBus \/ DmaFault
  <2>1. Bus \/ Fault
    BY <1>1, <1>5, DmaBusSteps DEF DmaFault, ReadByDma, EndedByDma
  <2>2. QED
    BY <1>1, <2>1, BusFrame DEF FrameInv
<1>6. QED
  BY <1>2, <1>3, <1>4, <1>5, MasterSteps

(* Calls are not made in time again by being followed by others.           *)
LEMMA TimeStep ==
  ASSUME ScriptInv, DmaTypeOK, BoardsInv, [DmaNext]_allVars
  PROVE  UNCHANGED env /\ (MasterInTime' => MasterInTime)
<1>1. /\ "M" \in Node /\ "S" \in Node \ {"M"} /\ TypeOK /\ round["M"] \in Nat
      /\ round \in [Node -> Nat \ {0}]
  BY DEF Node, ScriptInv, TypeOK, SwTypeOK
<1>2. UNCHANGED <<env, plan>>
  BY <1>1, MasterSteps, MainApart, MainLocal, ServeLocal
     DEF SameMaster, DmaBus, DmaFault, Fault, Quiet, app
<1>3. round'["M"] = round["M"] \/ round'["M"] = round["M"] + 1
  <2>1. CASE SameMaster
    BY <2>1 DEF SameMaster, SameThread
  <2>2. CASE DmaMain("M") \/ Main("M")
    <3>1. CASE UNCHANGED round
      BY <3>1
    <3>2. CASE NextRound("M") \/ TryAgain("M")
      BY <1>1, <3>2 DEF NextRound, TryAgain, app, Stay
    <3>3. CASE DmaOwn("M")
      BY <1>1, <3>1, <3>3, OwnLocal DEF app
    <3>4. CASE Main("M")
      <4>1. CASE StartCall("M") \/ GiveUp("M") \/ Wait("M")
        BY <3>1, <4>1 DEF StartCall, GiveUp, Wait, LookAgain, NoEvent, WaitAckFail, WaitStop, WaitTimeout,
                          CleanUp, Stay, app
      <4>2. CASE GenerateStart \/ SendAddress \/ ClearAddrToWrite \/ SendRegister \/ GenerateRestart
                   \/ SendData("M", "tdc") \/ StopWrite
        BY <3>1, <4>2 DEF GenerateStart, SendAddress, ClearAddrToWrite, SendRegister, GenerateRestart,
                          SendData, StopWrite, Stay, app
      <4>3. CASE ClearAddrToRead \/ Ev6Stop \/ Ev6Ack \/ ReadByte \/ ReadThirdLast \/ ReadLastTwo
        BY <3>1, <4>3 DEF ClearAddrToRead, Ev6Stop, Ev6Ack, ReadByte, ReadThirdLast, ReadLastTwo, Stay, app
      <4>4. QED
        BY <3>2, <3>4, <4>1, <4>2, <4>3 DEF Main, Master
    <3>5. QED
      BY <1>1, <2>2, <3>3, <3>4, SharedSteps DEF ScriptInv
  <2>3. CASE Serves("M")
    BY <1>1, <2>3, ServeLocal DEF app
  <2>4. CASE DmaBus \/ DmaFault
    BY <2>4 DEF DmaBus, DmaFault, Fault, Quiet, app
  <2>5. QED
    BY <2>1, <2>2, <2>3, <2>4, MasterSteps
<1>4. QED
  BY <1>1, <1>2, <1>3, TimeFrame

(* Every step keeps what is said of calls that are made in time.           *)
LEMMA DataStep ==
  ASSUME ScriptInv, DmaTypeOK, CallInv, MasterInTime, MasterInv, StopHasFrame, DataInv,
         [DmaNext]_allVars
  PROVE  MasterInv' /\ StopHasFrame' /\ DataInv'
<1>1. /\ "M" \in Node /\ "S" \in Node \ {"M"} /\ BoardsInv /\ TypeOK
  BY DEF Node, CallInv, ScriptInv
<1>2. CASE ~ByDma("M")
  <2>1. MasterInv' /\ StopHasFrame'
    BY <1>2, PolledData
  <2>2. UNCHANGED env
    BY <1>1, TimeStep
  <2>3. QED
    BY <1>2, <2>1, <2>2 DEF DataInv, ByDma
<1>3. CASE ByDma("M")
  <2>1. DataFacts
    BY <1>3, DataStart
  <2>2. CASE SameMaster
    BY <2>1, <2>2, SameData
  <2>3. CASE DmaMain("M")
    BY <2>1, <2>3, MainData
  <2>4. CASE Serves("M")
    <3>1. UNCHANGED <<pc, ret, app, busVars>>
      BY <1>1, <2>4, ServeLocal
    <3>2. dmaen["M"] /\ status["M"] = "START" /\ Waiting("M")
      BY <1>1, <2>4, Served
    <3>3. QED
      BY <2>1, <2>4, <3>1, <3>2, ServeData
  <2>5. CASE DmaBus \/ DmaFault
    BY <2>1, <2>5, BusData
  <2>6. QED
    BY <1>3, <2>2, <2>3, <2>4, <2>5, MasterSteps
<1>4. QED
  BY <1>2, <1>3

(***************************************************************************)
(* DmaInv and what follows.                                                *)
(***************************************************************************)

LEMMA InitDma ==
  ASSUME DmaInit, ScriptFits, Recovers
  PROVE  DmaInv
<1>1. ScriptInv /\ FrameInv /\ DmaTypeOK /\ CallInv
  BY InitCalls
<1>2. pc["M"] \in {"idle", "done"}
  BY DEF DmaInit, Init, Node
<1>3. DataInv
  BY <1>2 DEF DataInv, DmaReads, DmaWrites, DmaEnded
<1>4. QED
  BY <1>1, <1>3 DEF DmaInv, FrameInv

LEMMA DmaStep == DmaInv /\ [DmaNext]_allVars => DmaInv'
<1> SUFFICES ASSUME DmaInv, [DmaNext]_allVars PROVE DmaInv'
  OBVIOUS
<1>1. ScriptInv /\ DmaTypeOK /\ CallInv /\ BoardsInv
  BY DEF DmaInv, CallInv
<1>2. ScriptInv' /\ DmaTypeOK' /\ CallInv'
  BY <1>1, CallStep
<1>3. MasterInTime' => MasterInTime
  BY <1>1, TimeStep
<1>4. MasterInTime => MasterInv' /\ StopHasFrame' /\ DataInv'
  BY <1>1, DataStep DEF DmaInv
<1>5. QED
  BY <1>2, <1>3, <1>4 DEF DmaInv

(* DmaInv holds throughout, whatever the bus, the device, the line and the *)
(* channels do, and whichever of the two boards transfers by DMA.          *)
THEOREM DmaInvariant == DmaSpec /\ ScriptFits /\ Recovers => []DmaInv
<1>1. DmaInit /\ ScriptFits /\ Recovers => DmaInv
  BY InitDma
<1>2. DmaInv /\ [DmaNext]_allVars => DmaInv'
  BY DmaStep
<1>3. QED
  BY <1>1, <1>2, PTL DEF DmaSpec

(* A call that returns I2C_OK, by DMA or not, has had its bytes on the bus,*)
(* no more and no fewer, with every acknowledge where it belongs, if no    *)
(* call of a DMA master up to it was made too late; and the counters of    *)
(* handle and channel never run below zero, late or not.                   *)
THEOREM DmaCounts == DmaSpec /\ ScriptFits /\ Recovers => []DmaCountsHold
<1>1. DmaInv => DmaCountsHold
  <2> SUFFICES ASSUME DmaInv PROVE DmaCountsHold
    OBVIOUS
  <2>1. MasterInTime => MasterInv
    BY DEF DmaInv
  <2>2. MasterInTime /\ Ended("M", "OK") => AfterSuccess
    BY <2>1 DEF Ended, MasterInv
  <2>3. MasterInTime => ReadExact /\ WriteAcked
    BY <2>2 DEF ReadExact, WriteAcked, AfterSuccess, InTimeSoFar
  <2>4. QED
    BY <2>3 DEF DmaInv, DmaCountsHold, CallsExact
<1>2. QED
  BY <1>1, DmaInvariant, PTL

=============================================================================
