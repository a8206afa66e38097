---------------------------- MODULE I2CPeripheral ----------------------------
(***************************************************************************)
(* The two I2C peripherals that the application library of                 *)
(* SoftwareLib/i2c_application_library drives, a master "M" and a slave    *)
(* "S", as the driver sees them through the register functions of          *)
(* at32f403a_407_i2c.c, and the bus between them.                          *)
(*                                                                         *)
(* The register operators stand for driver functions.  The Hw* actions are *)
(* silicon: they are external to the repository and modelled from how the  *)
(* library uses the flags (README, "The peripheral").                      *)
(***************************************************************************)
EXTENDS Naturals, Sequences

Node == {"M", "S"}

(* A data byte is identified by the call that sent it and its position in  *)
(* that call's buffer; Garbage is what a read returns when nobody drives   *)
(* the data line or nothing new is in the data register.                   *)
Byte    == Nat \X Nat
Garbage == <<0, 0>>

Interrupts == {"EVT", "DATA", "ERR"}
CtrlBits   == {"ACKEN", "ACKNEXT", "GENSTART", "GENSTOP"}
Flags      == {"BUSYF", "STARTF", "ADDR7F", "STOPF", "ACKFAIL", "BUSERR"}

VARIABLES
  ctrl,    \* [Node -> SUBSET CtrlBits]: bits set in ctrl1
  ints,    \* [Node -> SUBSET Interrupts]: interrupts enabled in ctrl2
  flags,   \* [Node -> SUBSET Flags]: latched bits of sts1 and sts2
  tx,      \* [Node -> Seq(Byte)]: shift register, then data register, outgoing
  rx,      \* [Node -> Seq(Byte)]: data register, then shift register, incoming
  phase,   \* what the master's frame is doing on the bus
  dir,     \* direction of that frame: "write" is master to slave
  sel,     \* the slave has acknowledged its address and follows the frame
  clocked, \* data bytes clocked since the address
  acked    \* of these, the bytes the receiver acknowledged

perVars == <<ctrl, ints, flags, tx, rx>>
busVars == <<phase, dir, sel, clocked, acked>>
hwVars  == <<ctrl, ints, flags, tx, rx, phase, dir, sel, clocked, acked>>

HwTypeOK ==
  /\ ctrl  \in [Node -> SUBSET CtrlBits]
  /\ ints  \in [Node -> SUBSET Interrupts]
  /\ flags \in [Node -> SUBSET Flags]
  /\ tx \in [Node -> Seq(Byte)]
  /\ rx \in [Node -> Seq(Byte)]
  /\ phase \in {"free", "start", "addr", "data", "closing"}
  /\ dir \in {"write", "read"}
  /\ sel \in BOOLEAN
  /\ clocked \in Nat
  /\ acked \in Nat

HwInit ==
  /\ ctrl  = [n \in Node |-> {}]
  /\ ints  = [n \in Node |-> {}]
  /\ flags = [n \in Node |-> {}]
  /\ tx = [n \in Node |-> <<>>]
  /\ rx = [n \in Node |-> <<>>]
  /\ phase = "free"
  /\ dir = "write"
  /\ sel = FALSE
  /\ clocked = 0
  /\ acked = 0

-----------------------------------------------------------------------------
(* Flags that the hardware derives from its data registers.                *)

Transmitting(n) ==
  /\ n = IF dir = "write" THEN "M" ELSE "S"
  /\ "ADDR7F" \notin flags[n]
  /\ IF n = "M" THEN phase = "data" ELSE sel

TDBE(n) == Transmitting(n) /\ Len(tx[n]) < 2

RDBF(n) == rx[n] # <<>>

TDC(n) ==
  \/ Len(rx[n]) = 2
  \/ Transmitting(n) /\ tx[n] = <<>> /\ clocked > 0

(* The slave holds SCL low until its software has served it.               *)
SlaveStretches ==
  /\ sel
  /\ \/ "ADDR7F" \in flags["S"]
     \/ dir = "write" /\ Len(rx["S"]) = 2
     \/ dir = "read" /\ tx["S"] = <<>>

(* Interrupt requests: levels, asserted while flag and enable are both set *)
EvtRequest(n) ==
  /\ "EVT" \in ints[n]
  /\ \/ flags[n] \cap {"STARTF", "ADDR7F", "STOPF"} # {}
     \/ TDC(n)
     \/ "DATA" \in ints[n] /\ (TDBE(n) \/ RDBF(n))

ErrRequest(n) == "ERR" \in ints[n] /\ flags[n] \cap {"ACKFAIL", "BUSERR"} # {}

-----------------------------------------------------------------------------
(* Register functions of at32f403a_407_i2c.c.                              *)

i2c_interrupt_enable(n, source)  == ints' = [ints EXCEPT ![n] = @ \cup source]
i2c_interrupt_disable(n, source) == ints' = [ints EXCEPT ![n] = @ \ source]

SetCtrl(n, on, off) == ctrl' = [ctrl EXCEPT ![n] = (@ \ off) \cup on]

ClearFlags(n, fs) == flags' = [flags EXCEPT ![n] = @ \ fs]

(* Writing the address after reading STARTF clears STARTF.                 *)
i2c_7bit_address_send(direction) ==
  /\ ClearFlags("M", {"STARTF"})
  /\ phase' = "addr"
  /\ dir' = direction

i2c_data_send(n, b) == tx' = [tx EXCEPT ![n] = Append(@, b)]

(* What the k next reads of the data register return.                      *)
Received(n, k) == [i \in 1 .. k |-> IF i <= Len(rx[n]) THEN rx[n][i] ELSE Garbage]

i2c_data_receive(n, k) ==
  rx' = [rx EXCEPT ![n] = SubSeq(@, k + 1, Len(@))]

(* Resetting a peripheral drops its registers and releases its lines.  The *)
(* bus looks busy to it if the other side holds SCL; a slave that comes    *)
(* back in the middle of a frame may or may not notice the traffic.        *)
i2c_reset(n) ==
  /\ ctrl' = [ctrl EXCEPT ![n] = {}]
  /\ ints' = [ints EXCEPT ![n] = {}]
  /\ tx' = [tx EXCEPT ![n] = <<>>]
  /\ rx' = [rx EXCEPT ![n] = <<>>]
  /\ \E busy \in SUBSET {"BUSYF"} :
       /\ (n = "M") => (busy # {} <=> SlaveStretches)
       /\ (n = "S" /\ phase = "free") => busy = {}
       /\ flags' = [flags EXCEPT ![n] = busy]
  /\ phase' = IF n = "M" THEN "free" ELSE phase
  /\ sel' = (sel /\ n # "S")
  /\ UNCHANGED <<dir, clocked, acked>>

-----------------------------------------------------------------------------
(* The bus.                                                                *)

(* A requested START goes out when the master sees the bus free.           *)
HwStart ==
  /\ "GENSTART" \in ctrl["M"]
  /\ "BUSYF" \notin flags["M"]
  /\ ~SlaveStretches
  /\ ctrl' = [ctrl EXCEPT !["M"] = @ \ {"GENSTART"}]
  /\ flags' = [n \in Node |-> flags[n] \cup IF n = "M" THEN {"BUSYF", "STARTF"} ELSE {"BUSYF"}]
  /\ phase' = "start"
  /\ sel' = FALSE
  /\ UNCHANGED <<ints, tx, rx, dir, clocked, acked>>

(* The slave's peripheral acknowledges its address if ACKEN is set, its    *)
(* software armed or not; both sides then see ADDR7F.                      *)
HwAddrAck ==
  /\ phase = "addr"
  /\ "ACKEN" \in ctrl["S"]
  /\ flags' = [n \in Node |-> flags[n] \cup {"ADDR7F"}]
  /\ phase' = "data"
  /\ sel' = TRUE
  /\ tx' = [n \in Node |-> <<>>]
  /\ clocked' = 0
  /\ acked' = 0
  /\ UNCHANGED <<ctrl, ints, rx, dir>>

HwAddrNack ==
  /\ phase = "addr"
  /\ "ACKEN" \notin ctrl["S"]
  /\ flags' = [flags EXCEPT !["M"] = @ \cup {"ACKFAIL"}]
  /\ phase' = "closing"
  /\ clocked' = 0
  /\ acked' = 0
  /\ UNCHANGED <<ctrl, ints, tx, rx, dir, sel>>

(* The byte in the master's shift register is on the wire.  "lost" is an   *)
(* acknowledge the master does not see although the slave sent it.         *)
HwWriteByte(lost) ==
  /\ phase = "data" /\ dir = "write"
  /\ "ADDR7F" \notin flags["M"]
  /\ tx["M"] # <<>>
  /\ ~SlaveStretches
  /\ rx' = IF sel THEN [rx EXCEPT !["S"] = Append(@, Head(tx["M"]))] ELSE rx
  /\ clocked' = clocked + 1
  /\ IF sel /\ "ACKEN" \in ctrl["S"] /\ ~lost
       THEN /\ tx' = [tx EXCEPT !["M"] = Tail(@)]
            /\ acked' = acked + 1
            /\ UNCHANGED <<flags, phase>>
       ELSE /\ tx' = [tx EXCEPT !["M"] = <<>>]
            /\ flags' = [flags EXCEPT !["M"] = @ \cup {"ACKFAIL"}]
            /\ phase' = "closing"
            /\ UNCHANGED acked
  /\ UNCHANGED <<ctrl, ints, dir, sel>>

(* Does the master acknowledge the byte that ends now?  With ACKNEXT the   *)
(* enable bit governs the byte after the current one.                      *)
MasterAcks ==
  IF "ACKNEXT" \in ctrl["M"] /\ clocked = 0 THEN TRUE ELSE "ACKEN" \in ctrl["M"]

(* The master clocks a byte in.  The frame closes after a byte that is not *)
(* acknowledged or during which a STOP was requested.                      *)
HwReadByteAck(acks) ==
  /\ phase = "data" /\ dir = "read"
  /\ "ADDR7F" \notin flags["M"]
  /\ Len(rx["M"]) < 2
  /\ ~SlaveStretches
  /\ rx' = [rx EXCEPT !["M"] = Append(@, IF sel THEN Head(tx["S"]) ELSE Garbage)]
  /\ tx' = IF sel THEN [tx EXCEPT !["S"] = Tail(@)] ELSE tx
  /\ clocked' = clocked + 1
  /\ acked' = IF acks THEN acked + 1 ELSE acked
  /\ phase' = IF acks /\ "GENSTOP" \notin ctrl["M"] THEN "data" ELSE "closing"
  /\ sel' = (sel /\ acks)
  /\ flags' = IF sel /\ ~acks
                THEN [flags EXCEPT !["S"] = @ \cup {"ACKFAIL"}] ELSE flags
  /\ UNCHANGED <<ctrl, ints, dir>>

HwReadByte == HwReadByteAck(MasterAcks)

(* Without a STOP in time the master clocks on after the byte it did not   *)
(* acknowledge, and reads an undriven line.                                *)
HwOverrunByte ==
  /\ phase = "closing" /\ dir = "read"
  /\ "GENSTOP" \notin ctrl["M"]
  /\ clocked > 0
  /\ Len(rx["M"]) < 2
  /\ rx' = [rx EXCEPT !["M"] = Append(@, Garbage)]
  /\ clocked' = clocked + 1
  /\ UNCHANGED <<ctrl, ints, flags, tx, phase, dir, sel, acked>>

(* A requested STOP goes out at the next byte boundary.  An addressed      *)
(* receiver latches STOPF; a STOP on the bus ends a request for one.       *)
ByteBoundary ==
  \/ phase \in {"start", "addr", "closing"}
  \/ phase = "data" /\ \/ "ADDR7F" \in flags["M"]
                       \/ dir = "write" /\ tx["M"] = <<>>
                       \/ dir = "read" /\ Len(rx["M"]) = 2

HwStop ==
  /\ "GENSTOP" \in ctrl["M"]
  /\ ByteBoundary
  /\ ~SlaveStretches
  /\ ctrl' = [n \in Node |-> ctrl[n] \ {"GENSTOP"}]
  /\ flags' = [flags EXCEPT !["M"] = @ \ {"BUSYF", "STARTF", "ADDR7F"},
                            !["S"] = (@ \ {"BUSYF"}) \cup
                                       IF sel /\ dir = "write" THEN {"STOPF"} ELSE {}]
  /\ phase' = "free"
  /\ sel' = FALSE
  /\ UNCHANGED <<ints, tx, rx, dir, clocked, acked>>

(* A START requested by the master in the middle of a write of its own     *)
(* goes out when the last byte sent is out, acknowledged or not: a         *)
(* repeated START.                                                         *)
HwRestart ==
  /\ "GENSTART" \in ctrl["M"]
  /\ phase \in {"data", "closing"} /\ dir = "write"
  /\ "ADDR7F" \notin flags["M"] /\ tx["M"] = <<>>
  /\ ~SlaveStretches
  /\ ctrl' = [ctrl EXCEPT !["M"] = @ \ {"GENSTART"}]
  /\ flags' = [flags EXCEPT !["M"] = @ \cup {"STARTF"}]
  /\ phase' = "start"
  /\ sel' = FALSE
  /\ UNCHANGED <<ints, tx, rx, dir, clocked, acked>>

(* A STOP requested by an addressed slave makes it let go of the lines.    *)
HwSlaveRelease ==
  /\ "GENSTOP" \in ctrl["S"] /\ sel
  /\ sel' = FALSE
  /\ UNCHANGED <<ctrl, ints, flags, tx, rx, phase, dir, clocked, acked>>

(* A disturbance on the lines: the peripheral flags a bus error and goes   *)
(* on with the frame.                                                      *)
HwBusErr(n) ==
  /\ phase # "free"
  /\ flags' = [flags EXCEPT ![n] = @ \cup {"BUSERR"}]
  /\ UNCHANGED <<ctrl, ints, tx, rx, busVars>>

=============================================================================
