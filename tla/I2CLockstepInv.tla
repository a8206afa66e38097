--------------------------- MODULE I2CLockstepInv ---------------------------
(***************************************************************************)
(* What the two boards know of each other when they run the same script    *)
(* over a sound line: an inductive invariant of I2CInterrupt that relates  *)
(* the round of the frame on the bus to the rounds of the two calls, and   *)
(* what either side has stored to what the other has sent.                 *)
(***************************************************************************)
EXTENDS I2CInterruptInv

(* No line faults, and every wait lasts until its flag comes.              *)
SoundLine == ~Timeouts /\ MaxFaults = 0

(* The two applications agree on every size.                               *)
SizesMatch == \A p \in Plans : \A k \in 1 .. Len(p) : p[k].M = p[k].S

(* No STOP waits on the free bus for the next frame: of the two that are   *)
(* requested after a refused address the second is in time for the first,  *)
(* or is dropped by i2c_config, or no address is refused.                  *)
NoStrayStop == Prompt \/ ResetOnError \/ SlaveFirst

-----------------------------------------------------------------------------
(* The round that the frame on the bus belongs to: a master that has ended *)
(* a write may have left the call before the last byte is out.             *)
FrameRound ==
  IF pc["M"] \in {"idle", "busy", "done"} THEN round["M"] - 1 ELSE round["M"]

(* The rounds whose bytes have all moved.                                  *)
Moved ==
  IF phase = "data" THEN FrameRound - 1
  ELSE IF InData /\ mode["M"] = "I2C_INT_MA_RX" THEN round["M"]
  ELSE Ended("M")

(* How far the master has got with the write whose frame is on the bus.    *)
Posted ==
  IF pc["M"] \notin {"idle", "busy", "done"} /\ status["M"] = "START"
    THEN pbuff["M"] ELSE plan[FrameRound].M

(* The part of a slave's call from its address to I2C_END, and whether the *)
(* frame on the bus is the one that it serves.                             *)
SlaveOpen == pc["S"] \in {"enable", "wait_end"} /\ status["S"] = "START"

Served == sel /\ "ADDR7F" \notin flags["S"]

(* The bytes that a node has read from its data register or could.         *)
Stored(n) == mem[n] \o rx[n]

(* Bytes a + 1 to b of the buffer sent in round k.                         *)
Pieces(k, a, b) == [i \in 1 .. b - a |-> <<k, a + i>>]

Returned(n) == pc[n] \in {"returned", "gave_up"}

-----------------------------------------------------------------------------
(* A call that has been served does not fail; the only failure is the      *)
(* master's, for want of an answer to its address.                         *)
CallOf(n) ==
  /\ "BUSERR" \notin flags[n]
  /\ pc[n] \in {"busy", "startf", "addr", "ev6stop", "ev6ack", "enable", "wait_end"}
       => error_code[n] = "OK"
  /\ Returned(n) =>
       \/ status[n] = "END" /\ ret[n] = "OK" /\ pc[n] = "returned"
       \/ status[n] = "START" /\ ret[n] = "STEP_2" /\ n = "M"

(* The frame on the bus, as the master's board knows it.                   *)
MasterWire ==
  /\ phase \in {"start", "addr"} => pc["M"] \in {"startf", "addr"}
  /\ "ADDR7F" \in flags["M"] => pc["M"] = "addr"
  /\ "ACKFAIL" \in flags["M"] => pc["M"] = "addr" /\ phase = "closing"
  /\ pc["M"] = "addrfail" => AtRest /\ phase # "data" /\ (Prompt => phase # "free")
  /\ Returned("M") /\ status["M"] = "START" =>
       /\ rx["M"] = <<>> /\ "GENSTART" \notin ctrl["M"]
       /\ phase = "free" \/ (phase = "closing" /\ "GENSTOP" \in ctrl["M"])
       /\ ResetOnError \/ AtRest
  /\ phase = "data" =>
       /\ FrameRound \in 1 .. Len(plan)
       /\ dir = plan[FrameRound].op
       /\ acked = clocked

(* The frame on the bus, as the slave's board knows it.                    *)
SlaveWire ==
  /\ phase # "free" => "BUSYF" \in flags["S"]
  /\ sel <=> phase = "data"
  /\ sel \/ pc["S"] = "addr" => "ACKEN" \in ctrl["S"]
  /\ "ADDR7F" \in flags["S"] => sel /\ clocked = 0 /\ tx["S"] = <<>>

(* The slave is in the round that the bus has come to, or one behind with  *)
(* the end of its call latched.                                            *)
RoundInv ==
  /\ Served => SlaveOpen
  /\ Ended("S") = IF SlaveOpen /\ ~Served THEN Moved - 1 ELSE Moved

(* The latched end of the slave's call.                                    *)
LatchInv ==
  /\ "STOPF" \in flags["S"] => SlaveOpen /\ ~Served /\ mode["S"] = "I2C_INT_SLA_RX"
  /\ "ACKFAIL" \in flags["S"] => SlaveOpen /\ ~Served /\ mode["S"] = "I2C_INT_SLA_TX"
  /\ SlaveOpen /\ ~Served => flags["S"] \cap {"STOPF", "ACKFAIL"} # {}

(* What the slave has stored and sent.                                     *)
SlaveStores ==
  /\ rx["S"] # <<>> => SlaveOpen /\ mode["S"] = "I2C_INT_SLA_RX"
  /\ pc["S"] \in {"busy", "addr"} => mem["S"] = <<>>
  /\ SlaveOpen /\ mode["S"] = "I2C_INT_SLA_RX" =>
       Stored("S") = Sent(round["S"], IF Served THEN clocked ELSE Size("S"))
  /\ InCall("S") /\ status["S"] = "END" /\ mode["S"] = "I2C_INT_SLA_RX" =>
       mem["S"] = Sent(round["S"], Size("S"))

SlaveSends ==
  /\ isr["S"] # "none" => mode["S"] = "I2C_INT_SLA_TX"
  /\ SlaveOpen /\ mode["S"] = "I2C_INT_SLA_TX" =>
       /\ isr["S"] = "ackfail" <=> pcount["S"] = 0
       /\ ~Served => pcount["S"] = 0
       /\ Served => clocked <= pbuff["S"] /\ tx["S"] = Pieces(round["S"], clocked, pbuff["S"])

(* What the master has stored and sent.                                    *)
MasterStores ==
  /\ pc["M"] \in {"busy", "startf", "addr"} => mem["M"] = <<>>
  /\ InData /\ mode["M"] = "I2C_INT_MA_RX" => Stored("M") = Sent(round["M"], clocked)
  /\ InCall("M") /\ status["M"] = "END" /\ mode["M"] = "I2C_INT_MA_RX" =>
       mem["M"] = Sent(round["M"], Size("M"))

MasterSends ==
  /\ InData /\ mode["M"] = "I2C_INT_MA_TX" => phase = "data"
  /\ phase = "data" /\ dir = "write" =>
       clocked <= Posted /\ tx["M"] = Pieces(FrameRound, clocked, Posted)

MasterLock == CallOf("M") /\ MasterWire /\ MasterStores /\ MasterSends

SlaveLock == CallOf("S") /\ SlaveWire /\ LatchInv /\ SlaveStores /\ SlaveSends

LockstepInv == MasterLock /\ SlaveLock /\ RoundInv

-----------------------------------------------------------------------------
(* A master that calls only a listening slave is never refused: its frame  *)
(* is the one that the slave's call waits for, from the address to the end *)
(* of that call.                                                           *)
InvitedInv ==
  /\ pc["M"] \in {"busy", "startf"} \/ (pc["M"] = "addr" /\ phase = "addr")
       => pc["S"] = "addr" /\ round["S"] = round["M"]
  /\ "ACKFAIL" \notin flags["M"] /\ pc["M"] # "addrfail"
  /\ Returned("M") => status["M"] = "END"
  /\ "ADDR7F" \in flags["S"] => pc["S"] = "addr"
  /\ SlaveOpen /\ ~Served => clocked = Size("S")

MatchedInv == LockstepInv /\ (SlaveFirst => InvitedInv)

=============================================================================
