----------------------------- MODULE I2CPollingInv -----------------------------
(***************************************************************************)
(* An inductive invariant of I2CPolling: what the registers of the master  *)
(* and its thread's counters are at each wait of a call, and what is under *)
(* way to the memory device.                                               *)
(***************************************************************************)
EXTENDS I2CPolling

(* Boards and a memory device are not mixed in one script, and the device  *)
(* has the registers that the script names.                                *)
ScriptFits ==
  \/ \A k \in 1 .. Len(plan) : plan[k].op \in {"write", "read"}
  \/ \A k \in 1 .. Len(plan) : plan[k].op \in {"mem_write", "mem_read"} /\ plan[k].reg # 0

(* An application that goes on after a failed call resets the peripheral,  *)
(* or it is in time for the bus and its calls fail for an answer, never    *)
(* for a wait that gave up half way.                                       *)
Steady == env.prompt /\ ~env.timeouts

Recovers == env.reset \/ Steady

-----------------------------------------------------------------------------
(* The threads.                                                            *)

(* Where each thread can be, and the round it is in.                       *)
PolledPc(n) ==
  IF n = "M" THEN (Waits \ {"busy", "stopf", "ackfail"})
                    \cup {"idle", "ev6stop", "ev6ack", "fail", "returned", "done", "gave_up"}
             ELSE {"idle", "free", "busy", "addr7", "tdbe", "rdbf", "stopf", "ackfail",
                   "fail", "returned", "done", "gave_up"}

PcOf(n) == PolledPc(n) \cup IF n \in env.dma THEN DmaPc ELSE {}

ThreadOf(n) ==
  /\ pc[n] \in PcOf(n)
  /\ pc[n] # "done" => round[n] \in 1 .. Len(plan)
  /\ checking[n] => pc[n] \in Waits

(* A memory device is no board: nothing runs there, and it acknowledges.   *)
NoBoard == Memory => pc["S"] = "done" /\ ctrl["S"] = {"ACKEN"}

ThreadInv == (\A n \in Node : ThreadOf(n)) /\ NoBoard

(* The counter of the loop that a thread is in, and the call it makes.     *)
MasterCount ==
  /\ pc["M"] \in {"free", "startf", "addr7", "tdbe_reg", "tdbe_restart", "restartf", "readdr7"}
       => left["M"] = Size("M")
  /\ pc["M"] \in {"tdbe_reg", "tdbe_restart", "restartf", "readdr7", "ev6ack"} => Memory
  /\ pc["M"] \in {"tdbe_restart", "restartf", "readdr7", "ev6stop", "ev6ack", "rdbf", "rtdc"}
       => Reads("M")
  /\ pc["M"] \in {"tdbe", "tdc"} => ~Reads("M")
  /\ pc["M"] = "ev6stop" => left["M"] = 1 /\ Size("M") = 1
  /\ pc["M"] = "ev6ack"  => left["M"] = 2 /\ Size("M") = 2
  /\ pc["M"] = "rdbf" =>
       left["M"] \in 1 .. Size("M") \ {2, 3} /\ (left["M"] = 1 => Size("M") = 1)
  /\ pc["M"] = "rtdc" => left["M"] \in {2, 3} /\ left["M"] <= Size("M")
  /\ pc["M"] = "tdbe" => left["M"] \in 1 .. Size("M")
  /\ pc["M"] = "tdc"  => left["M"] = 0

SlaveCount ==
  /\ pc["S"] \in {"free", "busy", "addr7"} => left["S"] = Size("S")
  /\ pc["S"] \in {"rdbf", "tdbe"} => left["S"] \in 1 .. Size("S")

CountInv == MasterCount /\ SlaveCount

-----------------------------------------------------------------------------
(* The master's frame.                                                     *)

(* What the phases of the frame imply for flags and for the transmitter.   *)
FlagInv ==
  /\ phase # "free" => "BUSYF" \in flags["M"]
  /\ "STARTF" \in flags["M"] => phase = "start"
  /\ "ADDR7F" \in flags["M"] => phase = "data"
  /\ tx["M"] # <<>> => phase = "data" /\ dir = "write" /\ "ADDR7F" \notin flags["M"]

(* The reads so far were made in time, or did not have to be.              *)
InTimeSoFar == env.prompt \/ \A k \in 1 .. round["M"] : TimingFree(plan[k])

(* What a late read may leave in the data register.                        *)
Leftover ==
  /\ InTimeSoFar => rx["M"] = <<>>
  /\ Len(rx["M"]) <= 1

(* Bits that are set and bits that are not in the master's control register*)
Requested(on, off) ==
  /\ \A bit \in on  : bit \in ctrl["M"]
  /\ \A bit \in off : bit \notin ctrl["M"]

(* Between calls the frame is over, or its STOP is requested.              *)
Between ==
  /\ "GENSTART" \notin ctrl["M"]
  /\ phase # "start"
  /\ "GENSTOP" \in ctrl["M"] <=> phase # "free"
  /\ Leftover
  /\ phase = "data" /\ dir = "read" /\ "ADDR7F" \notin flags["M"]
       => ~InTimeSoFar /\ rx["M"] = <<>>

(* After a call that succeeded nothing more is clocked that counts.        *)
AfterSuccess ==
  /\ tx["M"] = <<>> /\ phase # "addr"
  /\ Reads("M") /\ InTimeSoFar =>
       phase \in {"free", "closing"} /\ clocked = Size("M") /\ acked = Size("M") - 1
  /\ ~Reads("M") =>
       /\ phase \in {"free", "data"} /\ (phase = "data" => dir = "write")
       /\ acked = Size("M") + IF Memory THEN 1 ELSE 0

(* After one that failed: nothing to rely on but the reset, or this.       *)
AfterFailure ==
  Steady => Between /\ (pc["M"] = "fail" => phase # "free")

Bytes0 == clocked = 0 /\ acked = 0

(* START and address, and the register number for a memory device.         *)
AddressInv ==
  /\ pc["M"] \in {"startf", "addr7", "tdbe_reg", "tdbe_restart", "restartf", "readdr7"} =>
       /\ Leftover
       /\ Requested(IF Reads("M") THEN {"ACKEN"} ELSE {}, {"GENSTOP", "ACKNEXT"})
  /\ pc["M"] \in {"addr7", "tdbe_reg", "tdbe_restart", "readdr7"} => "GENSTART" \notin ctrl["M"]
  /\ pc["M"] = "startf" => IF "GENSTART" \in ctrl["M"] THEN phase = "free" ELSE phase = "start"
  /\ pc["M"] = "restartf" =>
       IF "GENSTART" \in ctrl["M"] THEN phase \in {"data", "closing"} /\ dir = "write"
                                   ELSE phase = "start"
  /\ pc["M"] \in {"addr7", "readdr7"} =>
       /\ dir = IF pc["M"] = "readdr7" \/ MyRound("M").op = "read" THEN "read" ELSE "write"
       /\ phase \in {"addr", "data", "closing"}
       /\ phase = "data" => "ADDR7F" \in flags["M"]
       /\ phase # "addr" => Bytes0
  /\ pc["M"] = "tdbe_reg" => phase = "data" /\ dir = "write" /\ tx["M"] = <<>> /\ Bytes0
  /\ pc["M"] = "tdbe_restart" => phase \in {"data", "closing"} /\ dir = "write"

(* A write: every byte so far is acknowledged or under way.                *)
Written ==
  /\ Leftover
  /\ Requested({}, {"GENSTOP", "GENSTART"})
  /\ phase \in {"data", "closing"} /\ dir = "write"
  /\ phase = "data" =>
       /\ "ADDR7F" \notin flags["M"]
       /\ acked = clocked
       /\ clocked + Len(tx["M"]) = Size("M") - left["M"] + IF Memory THEN 1 ELSE 0

(* A read whose acknowledge is still on: every byte so far is stored or in *)
(* the data register.                                                      *)
AckedSoFar ==
  /\ phase = "data"
  /\ Requested({"ACKEN"}, {"ACKNEXT"})
  /\ clocked = Size("M") - left["M"] + Len(rx["M"]) /\ acked = clocked

(* The last two bytes, of which the second is not acknowledged.            *)
LastTwo ==
  /\ Requested({}, {"ACKEN"})
  /\ clocked = Size("M") - 2 + Len(rx["M"])
  /\ rx["M"] = <<>> => clocked = 0 /\ "ACKNEXT" \in ctrl["M"]
  /\ phase = "data"    => Len(rx["M"]) <= 1 /\ acked = clocked
  /\ phase = "closing" => Len(rx["M"]) = 2 /\ acked = clocked - 1

(* The only byte, which is not acknowledged either.                        *)
OnlyByte ==
  /\ phase = "data" => rx["M"] = <<>> /\ Bytes0
  /\ phase # "data" => Len(rx["M"]) = 1 /\ clocked = 1 /\ acked = 0

BeforeByte == phase = "data" /\ rx["M"] = <<>> /\ Bytes0

Read ==
  /\ dir = "read" /\ "ADDR7F" \notin flags["M"]
  /\ Len(rx["M"]) <= 2
  /\ Requested({}, {"GENSTART"})
  /\ pc["M"] = "rdbf" /\ left["M"] = 1 =>
       /\ phase \in {"data", "closing", "free"}
       /\ "GENSTOP" \in ctrl["M"] <=> phase # "free"
  /\ ~(pc["M"] = "rdbf" /\ left["M"] = 1) =>
       phase \in {"data", "closing"} /\ "GENSTOP" \notin ctrl["M"]
  /\ left["M"] = 1 =>
       /\ Requested({}, {"ACKEN", "ACKNEXT"})
       /\ phase = "data" => Len(rx["M"]) <= 1
  /\ InTimeSoFar =>
       /\ pc["M"] = "ev6stop" => BeforeByte
       /\ pc["M"] = "ev6ack" => BeforeByte /\ Requested({"ACKEN", "ACKNEXT"}, {})
       /\ pc["M"] = "rdbf" /\ left["M"] = 1 => OnlyByte
       /\ left["M"] > 2 => AckedSoFar
       /\ pc["M"] = "rtdc" /\ left["M"] = 2 => LastTwo

MasterInv ==
  /\ pc["M"] \in {"idle", "free"} => Between
  /\ pc["M"] = "returned" /\ ret["M"] = "OK" => Between /\ AfterSuccess
  /\ pc["M"] = "fail" \/ (pc["M"] \in {"returned", "gave_up"} /\ ret["M"] = "ERR") => AfterFailure
  /\ AddressInv
  /\ pc["M"] \in {"tdbe", "tdc"} => Written
  /\ pc["M"] \in {"ev6stop", "ev6ack", "rdbf", "rtdc"} => Read

-----------------------------------------------------------------------------
(* What is under way to the memory device.                                 *)

(* Byte j of the call of round k, its register number first, and where the *)
(* register pointer is when the device takes it.                           *)
StreamByte(k, j) == IF j = 0 THEN <<0, plan[k].reg>> ELSE <<k, j>>
Place(k, j) == IF j = 0 THEN 0 ELSE ((plan[k].reg + j - 2) % NReg) + 1
Bytes(k) == 0 .. IF plan[k].op = "mem_write" THEN plan[k].M ELSE 0

(* A byte that the device holds goes where the call meant it to.           *)
Held ==
  /\ Len(rx["S"]) <= 1
  /\ rx["S"] # <<>> =>
       /\ "ADDR7F" \notin flags["S"]
       /\ \E k \in 1 .. Len(plan) : \E j \in Bytes(k) :
            Head(rx["S"]) = StreamByte(k, j) /\ pointer = Place(k, j)

(* The frame of a write, from its address on, while there is more to come: *)
(* the bytes clocked are with the device, the next ones in the transmitter.*)
MoreToCome ==
  /\ phase = "data" /\ dir = "write"
  /\ tx["M"] # <<>> \/ pc["M"] \in {"addr7", "tdbe_reg", "tdbe"}

Streaming ==
  MoreToCome =>
    /\ sel /\ pc["M"] # "done"
    /\ \A i \in 1 .. Len(tx["M"]) :
         /\ tx["M"][i] = StreamByte(round["M"], clocked + i - 1)
         /\ clocked + i - 1 \in Bytes(round["M"])
    /\ IF "ADDR7F" \in flags["S"]
         THEN clocked = 0
         ELSE IF rx["S"] = <<>> THEN pointer = Place(round["M"], clocked)
              ELSE /\ clocked > 0
                   /\ Head(rx["S"]) = StreamByte(round["M"], clocked - 1)
                   /\ pointer = Place(round["M"], clocked - 1)

(* Between two frames nobody is addressed, and no byte of a write is left  *)
(* when the device is asked to give.                                       *)
Selected ==
  /\ phase = "start" => ~sel
  /\ sel /\ dir = "read" => rx["S"] = <<>>

FrameInv == FlagInv /\ MasterInv /\ StopHasFrame

DeviceInv ==
  /\ OnlyAddressed
  /\ Memory => Held /\ Streaming /\ Selected

-----------------------------------------------------------------------------
(* How a slave hears of the end of a frame.                                *)

Ends == {"STOPF", "ACKFAIL"}

(* The slave follows a frame from the clearing of its ADDR7F on.           *)
Follows == sel /\ "ADDR7F" \notin flags["S"]

InData == {"rdbf", "stopf", "tdbe", "ackfail"}

SlaveWaits ==
  /\ pc["S"] \in {"rdbf", "stopf"} => SlaveReceives
  /\ pc["S"] \in {"tdbe", "ackfail"} => ~SlaveReceives

(* Only the data loops and the waits behind them have a frame to follow or *)
(* its end to see, and what follows after it is held up at its address.    *)
EndSeen ==
  /\ flags["S"] \cap Ends # {} => ~Follows /\ pc["S"] \in InData
  /\ ~(Ends \subseteq flags["S"])
  /\ Follows => pc["S"] \in InData
  /\ "ACKFAIL" \in flags["S"] => pc["S"] \in {"tdbe", "ackfail"}
  /\ tx["S"] # <<>> /\ sel => "ADDR7F" \notin flags["S"] /\ pc["S"] \in {"tdbe", "ackfail"}

(* A byte that came before the STOP has been read before the STOP is seen. *)
ReadBefore ==
  /\ pc["S"] = "rdbf" /\ checking["S"] /\ "STOPF" \in flags["S"] => rx["S"] = <<>>
  /\ pc["S"] = "fail" /\ SlaveReceives => rx["S"] = <<>>

EndInv == ~Memory => SlaveWaits /\ (Steady => EndSeen /\ ReadBefore)

-----------------------------------------------------------------------------

(* What is said of script and threads alone.                               *)
ScriptInv == TypeOK /\ ScriptFits /\ Recovers /\ ThreadInv /\ CountInv

PollInv == ScriptInv /\ FrameInv /\ DeviceInv

=============================================================================
