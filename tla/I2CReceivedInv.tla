----------------------------- MODULE I2CReceivedInv ---------------------------
(***************************************************************************)
(* What the two sides of a polling transfer know of each other over a      *)
(* sound line: an inductive invariant of I2CPolling that relates the round *)
(* of the frame on the bus to the rounds of the calls, and what either     *)
(* side has stored to what the other side had for it, over any number of   *)
(* rounds and with a master that calls too early and tries again.          *)
(***************************************************************************)
EXTENDS I2CBoardsInv

(* Two boards agree on every size.                                         *)
SizesAgree == ~Memory => \A k \in 1 .. Len(plan) : plan[k].M = plan[k].S

(* The bytes that one side has for round k: a board its buffer, the memory *)
(* device its registers from plan[k].reg on.                               *)
Source(k) == [i \in Nat |-> IF Memory THEN store[Place(k, i)] ELSE <<k, i>>]

(* A buffer that holds these bytes from position at + 1 on.                *)
Holds(s, k, at) == \A i \in 1 .. Len(s) : s[i] = Source(k)[at + i]

(* A node's buffer and the data register behind it.                        *)
Stored(n) == Holds(mem[n], round[n], 0) /\ Holds(rx[n], round[n], Len(mem[n]))

StoredAll(n) == Len(mem[n]) = Size(n) /\ Holds(mem[n], round[n], 0)

-----------------------------------------------------------------------------
(* The master of either.                                                   *)

(* What a read has stored is what was clocked, byte by byte.               *)
MasterStores ==
  /\ pc["M"] \in {"free", "startf", "addr7", "tdbe_reg", "tdbe_restart", "restartf", "readdr7"}
       => mem["M"] = <<>>
  /\ pc["M"] \in Reading => Stored("M") /\ Len(mem["M"]) + Len(rx["M"]) = clocked
  /\ Ended("M", "OK") /\ Reads("M") => StoredAll("M")

(* The frame that the peripherals see, and a master that is through.       *)
Wire ==
  /\ sel <=> phase = "data"
  /\ "ADDR7F" \in flags["S"] => sel /\ clocked = 0 /\ tx["S"] = <<>>
  /\ pc["M"] = "done" => "GENSTART" \notin ctrl["M"] /\ ("GENSTOP" \in ctrl["M"] <=> phase # "free")
  /\ phase = "data" /\ dir = "read" => pc["M"] \in {"addr7", "readdr7"} \cup Reading
  /\ pc["M"] \notin DmaPc /\ (pc["M"] = "gave_up" => ret["M"] = "ERR")

-----------------------------------------------------------------------------
(* Two boards.                                                             *)

InFrame == {"addr7", "tdbe", "tdc"} \cup Reading

(* The rounds whose bytes have all moved; those of the next one are on the *)
(* bus, or will be.                                                        *)
Moved ==
  IF phase = "data" THEN Reported("M") - IF pc["M"] \in InFrame THEN 0 ELSE 1
  ELSE IF pc["M"] \in Reading THEN round["M"]
  ELSE Reported("M")

FrameRound == Moved + 1

(* How far the master has got with the write that is on the bus.           *)
Posted == IF pc["M"] \in InFrame THEN Size("M") - left["M"] ELSE plan[FrameRound].M

(* The slave's calls go on to their end, and answer to their address.      *)
SlaveGoesOn ==
  /\ pc["S"] \notin DmaPc \cup {"fail", "gave_up"} /\ (pc["S"] = "returned" => ret["S"] = "OK")
  /\ pc["S"] \in {"addr7"} \cup InData => "ACKEN" \in ctrl["S"]
  /\ "GENSTOP" \notin ctrl["S"]

(* The master's fail for want of that answer only, and then no byte of the *)
(* round has moved; when one has, the frame is that of the round.          *)
MasterGoesOn ==
  /\ "ACKFAIL" \in flags["M"] => pc["M"] = "addr7" /\ phase = "closing"
  /\ pc["M"] \in {"fail", "gave_up"} \/ Ended("M", "ERR") => phase \in {"closing", "free"}
  /\ phase \in {"start", "addr"} => pc["M"] \in {"startf", "addr7"}
  /\ phase = "data" => FrameRound \in 1 .. Len(plan) /\ dir = plan[FrameRound].op

(* The slave is in the round that the bus has come to, or one behind, with *)
(* the end of its call still to be seen.                                   *)
RoundInv ==
  Reported("S") = IF pc["S"] \in InData /\ ~Follows THEN Moved - 1 ELSE Moved

SlaveStores ==
  /\ rx["S"] # <<>> => pc["S"] = "rdbf"
  /\ pc["S"] \in {"free", "busy", "addr7"} => mem["S"] = <<>>
  /\ pc["S"] \in {"rdbf", "stopf"} =>
       /\ Stored("S")
       /\ Len(mem["S"]) + Len(rx["S"]) = IF Follows THEN clocked ELSE Size("S")
       /\ Len(mem["S"]) = Size("S") - left["S"]
       /\ pc["S"] = "stopf" => left["S"] = 0
  /\ Ended("S", "OK") /\ Reads("S") => StoredAll("S")

SlaveSends ==
  /\ pc["S"] = "ackfail" => left["S"] = 0
  /\ pc["S"] = "tdbe" => Follows
  /\ pc["S"] \in {"tdbe", "ackfail"} /\ Follows =>
       /\ Holds(tx["S"], round["S"], clocked)
       /\ clocked + Len(tx["S"]) = Size("S") - left["S"]

MasterSends ==
  phase = "data" /\ dir = "write" =>
    Holds(tx["M"], FrameRound, clocked) /\ clocked + Len(tx["M"]) = Posted

LockInv == SlaveGoesOn /\ MasterGoesOn /\ RoundInv /\ SlaveStores /\ SlaveSends /\ MasterSends

-----------------------------------------------------------------------------
(* The memory device.                                                      *)

(* It has got the register number, or will before the repeated START.      *)
RegisterGiven ==
  /\ pc["M"] \in {"tdbe_restart", "restartf"} /\ phase = "data" =>
       /\ clocked + Len(tx["M"]) = 1
       /\ tx["M"] = <<>> =>
            /\ "ADDR7F" \notin flags["S"]
            /\ IF rx["S"] = <<>> THEN pointer = Place(round["M"], 1)
               ELSE Head(rx["S"]) = StreamByte(round["M"], 0) /\ pointer = 0
  /\ (pc["M"] = "restartf" /\ phase = "start") \/ (pc["M"] = "readdr7" /\ phase = "addr") =>
       pointer = Place(round["M"], 1)

(* It gives the registers from that number on.                             *)
Gives ==
  phase = "data" /\ dir = "read" =>
    /\ Len(tx["S"]) <= 1 /\ Holds(tx["S"], round["M"], clocked)
    /\ pointer = Place(round["M"], clocked + 1 + Len(tx["S"]))

DeviceWire ==
  /\ pc["M"] \notin {"fail", "gave_up"} /\ (pc["M"] = "returned" => ret["M"] = "OK")
  /\ "ACKFAIL" \notin flags["M"]
  /\ phase \in {"start", "addr"} => pc["M"] \in {"startf", "addr7", "restartf", "readdr7"}
  /\ pc["M"] \in {"tdbe_restart", "restartf"} => phase # "closing"
  /\ rx["S"] # <<>> => phase = "data" /\ dir = "write"

MemoryInv == RegisterGiven /\ Gives /\ DeviceWire

-----------------------------------------------------------------------------
SoundInv ==
  Sound /\ SizesAgree => MasterStores /\ Wire /\ IF Memory THEN MemoryInv ELSE LockInv

=============================================================================
