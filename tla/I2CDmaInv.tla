------------------------------- MODULE I2CDmaInv -------------------------------
(***************************************************************************)
(* An inductive invariant of I2CDma.  Where a call by DMA goes the way of  *)
(* a polling call it is that of I2CPolling; here is what the handle, the   *)
(* channel and the master's registers are from there on.                   *)
(***************************************************************************)
EXTENDS I2CDma, I2CPollingInv

-----------------------------------------------------------------------------
(* The handle and the channel of a board.                                  *)

(* Waits that a call by DMA has no use for.                                *)
OnlyPolled(n) ==
  {"busy", "ev6stop", "ev6ack", "rdbf", "rtdc", "tdc", "stopf", "ackfail"}
    \cup IF n = "M" THEN {} ELSE {"tdbe", "dma_ack", "dma_stop"}

(* From the configuration of the channel to the enabling of its requests.  *)
Configured ==
  {"startf", "addr7", "tdbe_reg", "tdbe_restart", "restartf", "readdr7", "tdbe",
   "dma_ack", "dma_stop", "dma_on"}

(* The thread is in the wait of its call, or it has given up that wait.    *)
Waiting(n) ==
  \/ pc[n] = "wait_end"
  \/ pc[n] \in {"returned", "gave_up"} /\ ret[n] = "ERR" /\ env.timeouts

HandleOf(n) ==
  /\ pc[n] \notin OnlyPolled(n)
  /\ pc[n] \notin {"idle", "done"} =>
       /\ mode[n] = ModeOf(n)
       /\ status[n] = "START" => left[n] = Size(n)
  /\ pc[n] \in Configured => cnt[n] = Size(n) /\ tcint[n]
  /\ status[n] = "END" => cnt[n] = 0 /\ pc[n] \in {"idle", "done", "wait_end", "returned", "gave_up"}
  /\ error_code[n] = "ERR" => env.timeouts

(* Requests are enabled only within the wait, and while they are the call  *)
(* has not ended; a channel that is through is left alone.                 *)
ChannelOf(n) ==
  /\ dmaen[n] =>
       /\ status[n] = "START" /\ Waiting(n) /\ cnt[n] <= Size(n)
       /\ tcint[n] <=> isr[n] = "none"
  /\ tc[n] => dmaen[n] /\ cnt[n] = 0 /\ isr[n] = "none"
  /\ isr[n] # "none" =>
       /\ dmaen[n] /\ cnt[n] = 0
       /\ n = "M" => isr["M"] = "tdc" /\ ~Reads("M")
  /\ pc[n] = "wait_end" /\ status[n] = "START" => dmaen[n]

(* A board that does not use its channel has a handle that never changes.  *)
Untouched(n) == ~dmaen[n] /\ ~tc[n] /\ isr[n] = "none" /\ status[n] = "START"

BoardOf(n) == IF ByDma(n) THEN HandleOf(n) /\ ChannelOf(n) ELSE Untouched(n)

BoardsInv == \A n \in Node : BoardOf(n)

-----------------------------------------------------------------------------
(* The master's STOP.                                                      *)

InEnd == status["M"] = "END" /\ pc["M"] \notin {"idle", "done"}

(* No START is left to be sent once the address is out.                    *)
StartSent ==
  /\ pc["M"] \in Configured \ {"startf", "restartf"} \/ dmaen["M"] \/ InEnd
       => "GENSTART" \notin ctrl["M"]
  /\ pc["M"] \in {"startf", "restartf"} /\ phase = "start" => "GENSTART" \notin ctrl["M"]

(* A read of one byte asks for its STOP before it enables the requests,    *)
(* and every other call before it says I2C_END.                            *)
StopAsked ==
  /\ pc["M"] \in {"dma_ack", "dma_stop"} => Reads("M") /\ left["M"] = 1
  /\ pc["M"] = "dma_on" /\ Reads("M") => left["M"] = 1
  /\ ((pc["M"] = "dma_on" \/ (dmaen["M"] /\ left["M"] = 1)) /\ Reads("M")) \/ InEnd
       => "GENSTOP" \in ctrl["M"] \/ phase = "free"

StopInv == ByDma("M") => StartSent /\ StopAsked

CallInv == FlagInv /\ BoardsInv /\ StopInv

-----------------------------------------------------------------------------
(* The master's data.                                                      *)

(* A write: every byte so far is acknowledged or under way.                *)
DmaWritten ==
  /\ Leftover
  /\ Requested({}, {"GENSTOP", "GENSTART"})
  /\ phase \in {"data", "closing"} /\ dir = "write"
  /\ phase = "data" =>
       /\ "ADDR7F" \notin flags["M"]
       /\ acked = clocked
       /\ clocked + Len(tx["M"]) = Size("M") - cnt["M"] + IF Memory THEN 1 ELSE 0

(* A read: nothing but what the channel has not fetched is in the data     *)
(* register.                                                               *)
DmaReading ==
  /\ dir = "read" /\ "ADDR7F" \notin flags["M"]
  /\ Requested({}, {"GENSTART"})
  /\ tx["M"] = <<>>

(* Before its STOP is asked for, a read of one byte has had none.          *)
DmaBefore == DmaReading /\ BeforeByte /\ Requested({}, {"GENSTOP", "ACKNEXT"})

(* It is not acknowledged, and STOP follows it.                            *)
DmaOnly ==
  /\ Requested({}, {"ACKEN", "ACKNEXT"})
  /\ phase \in {"data", "closing", "free"}
  /\ "GENSTOP" \in ctrl["M"] <=> phase # "free"
  /\ phase = "data"  => Bytes0 /\ rx["M"] = <<>> /\ cnt["M"] = 1
  /\ phase # "data" => clocked = 1 /\ acked = 0 /\ Len(rx["M"]) = cnt["M"]

(* Of more bytes the channel refuses the last one, and no other.           *)
DmaMany ==
  /\ last["M"]
  /\ Requested({}, {"GENSTOP"})
  /\ phase \in {"data", "closing"}
  /\ clocked = Size("M") - cnt["M"] + Len(rx["M"])
  /\ phase = "data"    => clocked < Size("M") /\ acked = clocked
  /\ phase = "closing" => clocked = Size("M") /\ acked = clocked - 1

DmaReads ==
  /\ pc["M"] = "dma_ack"  => DmaBefore
  /\ pc["M"] = "dma_stop" => DmaBefore /\ Requested({}, {"ACKEN"})
  /\ pc["M"] \in {"dma_on", "wait_end"} /\ status["M"] = "START" /\ Reads("M") =>
       /\ DmaReading
       /\ IF left["M"] = 1 THEN DmaOnly ELSE DmaMany

DmaWrites ==
  pc["M"] \in {"dma_on", "wait_end"} /\ status["M"] = "START" /\ ~Reads("M") => DmaWritten

DmaEnded ==
  pc["M"] = "wait_end" /\ status["M"] = "END" /\ error_code["M"] = "OK" => Between /\ AfterSuccess

DataInv == ByDma("M") => DmaReads /\ DmaWrites /\ DmaEnded

(* Of calls that were made too late nothing is said but CallInv.            *)
DmaInv ==
  /\ ScriptInv /\ DmaTypeOK /\ CallInv
  /\ MasterInTime => MasterInv /\ StopHasFrame /\ DataInv

=============================================================================
