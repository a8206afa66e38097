---------------------------- MODULE I2CInterruptInv ----------------------------
(***************************************************************************)
(* An inductive invariant of I2CInterrupt, for applications whose retries  *)
(* find the peripheral at rest and a main thread that is in time for EV6.  *)
(* It says what the registers of the master must be at each point of a     *)
(* call for the counting of i2c_master_rx_isr_int to come out right.       *)
(***************************************************************************)
EXTENDS I2CInterrupt

(* The EV6 writes are made within a byte, or no round has a read of one or *)
(* two bytes, which are the ones that need them.                           *)
Timely ==
  Prompt \/ \A p \in Plans : \A k \in 1 .. Len(p) : p[k].op = "read" => p[k].M >= 3

(* The handle agrees with the round of the script that the node is in.     *)
HandleOf(n) ==
  /\ pc[n] # "done" => round[n] \in 1 .. Len(plan)
  /\ InCall(n) => mode[n] = ModeOf(n) /\ BoundsOf(n)
  /\ pc[n] \in {"busy", "startf", "addr", "ev6stop", "ev6ack", "addrfail", "enable"}
       => status[n] = "START" /\ pbuff[n] = 0
  /\ pc[n] = "returned" /\ ret[n] = "OK" => status[n] = "END"

HandleInv == \A n \in Node : HandleOf(n)

(* Interrupts are enabled, and a handler waits, only in the part of a call *)
(* that belongs to the handlers.                                           *)
HandlersTurn(n) ==
  /\ status[n] = "START"
  /\ \/ pc[n] = "wait_end"
     \/ pc[n] \in {"returned", "gave_up"} /\ ret[n] = "TIMEOUT"

InterruptOf(n) ==
  /\ ints[n] # {} => HandlersTurn(n)
  /\ isr[n] # "none" => HandlersTurn(n) /\ n = "S" /\ ints[n] = {}

InterruptInv == \A n \in Node : InterruptOf(n)

(* The flags that the phases of the master's frame imply.                  *)
FlagInv ==
  /\ phase # "free" => "BUSYF" \in flags["M"]
  /\ "STARTF" \in flags["M"] => phase = "start"
  /\ "ADDR7F" \in flags["M"] => phase = "data"

(* Between transfers the frame is closed, or its STOP is on the way.       *)
AtRest ==
  /\ rx["M"] = <<>>
  /\ "GENSTART" \notin ctrl["M"]
  /\ phase \in {"free", "data", "closing"}
  /\ "GENSTOP" \in ctrl["M"] <=> phase # "free"
  /\ dir = "read" => phase # "data"

Resting ==
  \/ pc["M"] \in {"idle", "done", "busy"}
  \/ InCall("M") /\ status["M"] = "END"

RestInv == Resting => AtRest

(* A failed call that left nothing behind may be tried again as it is.     *)
(* i2c_config makes this unnecessary; without it, it is an obligation.     *)
CleanFailure(n) ==
  pc[n] = "returned" /\ ret[n] # "OK" =>
    ints[n] = {} /\ isr[n] = "none" /\ (n = "M" => AtRest)

RetriesClean == ResetOnError \/ \A n \in Node : CleanFailure(n)

(* START and address.                                                      *)
StartInv ==
  pc["M"] \in {"startf", "addr"} =>
    /\ rx["M"] = <<>>
    /\ "GENSTOP" \notin ctrl["M"]
    /\ "ACKEN" \in ctrl["M"] \/ mode["M"] = "I2C_INT_MA_TX"
    /\ "ACKNEXT" \notin ctrl["M"]
    /\ pc["M"] = "startf" =>
         IF "GENSTART" \in ctrl["M"] THEN phase = "free" ELSE phase = "start"
    /\ pc["M"] = "addr" =>
         /\ "GENSTART" \notin ctrl["M"]
         /\ dir = IF mode["M"] = "I2C_INT_MA_RX" THEN "read" ELSE "write"
         /\ phase \in {"addr", "data", "closing"}
         /\ phase # "addr" => clocked = 0 /\ acked = 0
         /\ phase = "data" => "ADDR7F" \in flags["M"]

(* The data part of a call, from ADDR7F cleared to I2C_END.                *)
InData ==
  /\ status["M"] = "START"
  /\ \/ pc["M"] \in {"ev6stop", "ev6ack", "enable", "wait_end"}
     \/ pc["M"] \in {"returned", "gave_up"} /\ ret["M"] = "TIMEOUT"

WriteInv ==
  InData /\ mode["M"] = "I2C_INT_MA_TX" =>
    /\ rx["M"] = <<>>
    /\ ctrl["M"] \cap {"GENSTART", "GENSTOP"} = {}
    /\ dir = "write"
    /\ phase \in {"data", "closing"}
    /\ pc["M"] \notin {"ev6stop", "ev6ack"}

(* The bytes clocked are those stored and those still in the registers;    *)
(* the last one, and no other, is refused, because ACKEN is off from the   *)
(* third-last byte on.                                                     *)
ReadInv ==
  InData /\ mode["M"] = "I2C_INT_MA_RX" =>
    /\ "GENSTART" \notin ctrl["M"]
    /\ dir = "read"
    /\ "ADDR7F" \notin flags["M"]
    /\ clocked = pbuff["M"] + Len(rx["M"])
    /\ \/ phase = "data" /\ clocked < Size("M") /\ acked = clocked
       \/ phase \in {"closing", "free"} /\ ReadExact
    /\ pc["M"] = "ev6stop" => Size("M") = 1 /\ phase = "data"
    /\ pc["M"] = "ev6ack" => Size("M") = 2 /\ phase = "data" /\ clocked = 0
    /\ Size("M") = 1 =>
         /\ pcount["M"] = 1
         /\ ctrl["M"] \cap {"ACKEN", "ACKNEXT"} = {}
         /\ "GENSTOP" \in ctrl["M"] <=> phase # "free" /\ pc["M"] # "ev6stop"
    /\ Size("M") >= 2 =>
         /\ pcount["M"] >= 2
         /\ phase # "free"
         /\ "GENSTOP" \notin ctrl["M"]
         /\ "ACKNEXT" \in ctrl["M"] <=> Size("M") = 2
         /\ "ACKEN" \in ctrl["M"] <=> pcount["M"] > 2 \/ pc["M"] = "ev6ack"
         /\ Size("M") > 2 /\ pcount["M"] = 2 => Len(rx["M"]) >= 1

EndInv ==
  InCall("M") /\ mode["M"] = "I2C_INT_MA_RX" /\ status["M"] = "END"
    => dir = "read" /\ ReadExact

(* What the registers of the master are at each point of its call.         *)
MasterInv ==
  /\ FlagInv
  /\ RestInv
  /\ StartInv
  /\ WriteInv
  /\ ReadInv
  /\ EndInv

IInv == TypeOK /\ HandleInv /\ InterruptInv /\ MasterInv

=============================================================================
