----------------------------- MODULE I2CFramesInv -----------------------------
(***************************************************************************)
(* What the two boards hold of each other's bytes when anything may go     *)
(* wrong between them: an inductive invariant of I2CInterrupt for line     *)
(* faults, timeouts, scripts of any sizes, and calls that are given up,    *)
(* reset and tried again.  It follows each byte from the buffer of the     *)
(* call that sends it, over the registers, to the buffer that it ends in.  *)
(***************************************************************************)
EXTENDS I2CLockstepInv

(* The round of the master's call that the frame on the bus belongs to: a  *)
(* call that waits for the bus, or gave up waiting, has no frame yet.      *)
WireRound ==
  IF pc["M"] \in {"idle", "busy", "done"} \/ (Returned("M") /\ ret["M"] = "STEP_1")
    THEN round["M"] - 1 ELSE round["M"]

(* The slave is between its address and the end of its call, or the call   *)
(* has failed: what is latched or left behind then is cleared by a reset.  *)
SlaveBusy ==
  \/ pc["S"] \in {"enable", "wait_end"} /\ (status["S"] = "START" \/ error_code["S"] # "OK")
  \/ Returned("S") /\ ret["S"] # "OK"

-----------------------------------------------------------------------------
(* Nothing of a frame outlives the call of the slave that it went to.      *)
SlaveKeeps ==
  /\ Served \/ rx["S"] # <<>> \/ flags["S"] \cap {"STOPF", "ACKFAIL"} # {} => SlaveBusy
  /\ pc["S"] \in {"busy", "addr"} => mem["S"] = <<>>

(* A latched end of a transfer belongs to a frame that is over, and to a   *)
(* call of the direction that can end that way.  A call that has sent does *)
(* not receive.                                                            *)
SlaveEnds ==
  /\ flags["S"] \cap {"STOPF", "ACKFAIL"} # {} => ~Served
  /\ "ACKFAIL" \in flags["S"] => mode["S"] = "I2C_INT_SLA_TX"
  /\ isr["S"] # "none" => mode["S"] = "I2C_INT_SLA_TX" /\ pbuff["S"] # 0
  /\ mode["S"] = "I2C_INT_SLA_TX" /\ pbuff["S"] # 0 =>
       rx["S"] = <<>> /\ "STOPF" \notin flags["S"] /\ ~(Served /\ dir = "write")
  /\ Served /\ dir = "read" => rx["S"] = <<>>

(* The bytes that the slave has put out, by the frame that asks for them.  *)
SlaveTx ==
  /\ sel => phase \notin {"start", "addr"}
  /\ sel /\ "ADDR7F" \in flags["S"] => tx["S"] = <<>> /\ (phase = "data" => clocked = 0)
  /\ Served /\ mode["S"] = "I2C_INT_SLA_RX" => tx["S"] = <<>>
  /\ Served /\ phase = "data" /\ dir = "read" =>
       /\ \A i \in 1 .. Len(tx["S"]) : tx["S"][i] = <<round["S"], clocked + i>>
       /\ mode["S"] = "I2C_INT_SLA_TX" => clocked + Len(tx["S"]) = pbuff["S"]

(* A frame starts with nothing received, by the call whose round it is.    *)
MasterFresh ==
  /\ pc["M"] = "busy" => mem["M"] = <<>>
  /\ "GENSTART" \in ctrl["M"] => phase = "free"
  /\ "GENSTART" \in ctrl["M"] \/ phase \in {"start", "addr"} =>
       /\ Stored("M") = <<>>
       /\ ~(Returned("M") /\ ret["M"] = "STEP_1")

(* The bytes that the master has put out, by the frame that carries them.  *)
MasterTx ==
  /\ "ADDR7F" \in flags["M"] => tx["M"] = <<>>
  /\ phase = "data" /\ dir = "write" =>
       /\ WireRound \in 1 .. Len(plan)
       /\ \A i \in 1 .. Len(tx["M"]) : tx["M"][i] = <<WireRound, clocked + i>>
       /\ InData => clocked + Len(tx["M"]) = pbuff["M"]

(* What the slave has stored was sent by one call of the master, which is  *)
(* the one on the bus for as long as the slave follows its frame.          *)
SlaveHas(k) ==
  /\ \A i \in 1 .. Len(Stored("S")) : Stored("S")[i] = <<k, i>>
  /\ Served /\ phase = "data" /\ dir = "write" =>
       k = WireRound /\ Len(Stored("S")) = clocked

(* What the master has stored: m bytes of one call of the slave and then   *)
(* bytes that nobody sent.                                                 *)
MasterHas(k, m) ==
  /\ \A i \in 1 .. Len(Stored("M")) :
       Stored("M")[i] = IF i <= m THEN <<k, i>> ELSE Garbage
  /\ Served /\ phase = "data" /\ dir = "read" =>
       k = round["S"] /\ m = Len(Stored("M"))

Contents ==
  /\ \E k \in 1 .. Len(plan) : SlaveHas(k)
  /\ \E k \in 1 .. Len(plan), m \in 0 .. Len(Stored("M")) : MasterHas(k, m)
  /\ phase = "data" /\ dir = "read" => Len(Stored("M")) = clocked

FramesInv == SlaveKeeps /\ SlaveEnds /\ SlaveTx /\ MasterFresh /\ MasterTx /\ Contents

=============================================================================
