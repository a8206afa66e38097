----------------------------- MODULE I2CTransfer -----------------------------
(***************************************************************************)
(* What the transfers of the library promise two applications that run the *)
(* same script of rounds over a sound line: round after round, the bytes   *)
(* move from the sender to the receiver, and each side is told that the    *)
(* round is over - the slave, and a master that reads, not before the last *)
(* byte has moved; a master that writes up to EarlyEnd bytes early: one in *)
(* interrupt mode, because i2c_master_tx_isr_int ends the transfer when    *)
(* the last byte leaves the data register, none in polling mode.           *)
(***************************************************************************)
EXTENDS Naturals, Sequences

CONSTANT EarlyEnd

VARIABLES
  script, \* the rounds: a sequence of [op |-> "write" or "read", size |-> bytes]
  master, \* rounds the master's handle has reported ended
  slave,  \* rounds the slave's handle has reported ended
  moved   \* bytes moved in the round the slave is in

vars == <<script, master, slave, moved>>

Current == script[slave + 1]

Early == IF Current.op = "write" THEN EarlyEnd ELSE 0

Init ==
  /\ script \in Seq([op : {"write", "read"}, size : Nat])
  /\ master = 0
  /\ slave = 0
  /\ moved = 0

MoveByte ==
  /\ slave < Len(script) /\ slave <= master
  /\ moved < Current.size
  /\ moved' = moved + 1
  /\ UNCHANGED <<script, master, slave>>

(* The master learns of the end in the slave's current round, or of the    *)
(* round that the slave has already ended.                                 *)
MasterEnds ==
  /\ \/ master < slave
     \/ master = slave /\ slave < Len(script) /\ moved + Early >= Current.size
  /\ master' = master + 1
  /\ UNCHANGED <<script, slave, moved>>

SlaveEnds ==
  /\ slave < Len(script)
  /\ moved = Current.size
  /\ slave' = slave + 1
  /\ moved' = 0
  /\ UNCHANGED <<script, master>>

Next == MoveByte \/ MasterEnds \/ SlaveEnds

Spec == Init /\ [][Next]_vars /\ WF_vars(Next)
=============================================================================
