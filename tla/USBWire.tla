------------------------------- MODULE USBWire -------------------------------
(***************************************************************************)
(* The USB peripheral of the chip as usbd_core.c and usbd_int.c drive it,  *)
(* for the control endpoint and one class endpoint, and the host at the    *)
(* other end of the wire.                                                  *)
(*                                                                         *)
(* Host and silicon are external to the repository: they are modelled from *)
(* how the device core uses the registers (README, "The USB peripheral and *)
(* the host").                                                             *)
(***************************************************************************)
EXTENDS Naturals, Sequences

CONSTANTS
  MaxPacket,      \* size of a packet of the control endpoint
  Requests,       \* requests the host may make
  MaxTransfers,   \* requests in a behaviour
  MaxResets,      \* bus resets in a behaviour
  MaxSuspends,    \* suspends in a behaviour
  Cancels,        \* may the host give up a transfer that waits for the device?
  ResetSuspended  \* may it reset the bus while the device is suspended?

UInt16 == 0 .. 65535

ASSUME MaxPacketAssumption == MaxPacket \in Nat \ {0}
ASSUME RequestsAssumption ==
  Requests \subseteq [name : STRING, value : Nat, wLength : UInt16]
ASSUME LengthsAssumption ==
  \A r \in Requests :
    /\ r.name \in {"GET_STATUS", "EPT_GET_STATUS"} => r.wLength >= 2
    /\ r.name = "GET_INTERFACE" => r.wLength >= 1
ASSUME HostAssumption ==
  /\ {MaxTransfers, MaxResets, MaxSuspends} \subseteq Nat
  /\ {Cancels, ResetSuspended} \subseteq BOOLEAN

VARIABLES
  \* peripheral
  txsts, rxsts,  \* status fields of the control endpoint
  txpkt,         \* packet in its transmit buffer
  rxpkt,         \* data packet in its receive buffer
  tc,            \* completions: "TX", "SETUP", "OUT"
  flags,         \* pending "RST", "SP" (suspend), "WK" (wakeup)
  hwaddr,        \* device address register
  ssp,           \* suspend mode
  ept1,          \* status field of the class's IN endpoint
  \* host
  bus,           \* "active", "idle" (suspended) or "reset"
  stage,         \* of the transfer in progress, or "idle"
  req, xfer,     \* the last request and its number
  got,           \* bytes it has received
  sent,          \* bytes it has sent
  result,        \* how the last transfer ended
  haddr, hconf,  \* address and configuration it has given the device
  resets, suspends

chipVars == <<txsts, rxsts, txpkt, rxpkt, tc, flags, hwaddr, ssp, ept1>>
hostVars == <<bus, stage, req, xfer, got, sent, result, haddr, hconf, resets, suspends>>
wireVars == <<txsts, rxsts, txpkt, rxpkt, tc, flags, hwaddr, ssp, ept1,
              bus, stage, req, xfer, got, sent, result, haddr, hconf, resets, suspends>>

Transfers ==
  INSTANCE USBTransfers WITH
    number <- xfer, open <- stage # "idle", request <- req, received <- got,
    address <- haddr, configuration <- hconf

Byte == Nat \X Nat

WireTypeOK ==
  /\ txsts \in {"disabled", "nak", "valid", "stall"}
  /\ rxsts \in {"disabled", "nak", "valid", "stall"}
  /\ ept1 \in {"disabled", "nak", "valid", "stall"}
  /\ txpkt \in Seq(Byte) /\ rxpkt \in Seq(Byte)
  /\ Len(txpkt) <= MaxPacket /\ Len(rxpkt) <= MaxPacket
  /\ tc \subseteq {"TX", "SETUP", "OUT"}
  /\ flags \subseteq {"RST", "SP", "WK"}
  /\ hwaddr \in Nat /\ haddr \in Nat /\ hconf \in Nat
  /\ ssp \in BOOLEAN
  /\ bus \in {"active", "idle", "reset"}
  /\ stage \in {"idle", "data_in", "data_out", "status_in", "status_out"}
  /\ req \in Requests \cup {Transfers!NoRequest}
  /\ xfer \in 0 .. MaxTransfers
  /\ got \in Seq(Byte)
  /\ sent \in Nat
  /\ result \in {"none", "ok", "stalled", "cancelled"}
  /\ resets \in 0 .. MaxResets
  /\ suspends \in 0 .. MaxSuspends

(* A device that has been plugged in: the host resets the bus first.       *)
WireInit ==
  /\ txsts = "disabled" /\ rxsts = "disabled" /\ ept1 = "disabled"
  /\ txpkt = <<>> /\ rxpkt = <<>>
  /\ tc = {} /\ flags = {}
  /\ hwaddr = 0 /\ ssp = FALSE
  /\ bus = "reset"
  /\ stage = "idle" /\ req = Transfers!NoRequest /\ xfer = 0
  /\ got = <<>> /\ sent = 0 /\ result = "none"
  /\ haddr = 0 /\ hconf = 0
  /\ resets = 0 /\ suspends = 0

-----------------------------------------------------------------------------
(* The host.                                                               *)

Reads(r) ==
  r.name \in {"GET_DESCRIPTOR", "GET_STATUS", "GET_CONFIGURATION", "GET_INTERFACE",
              "CLASS_IN", "EPT_GET_STATUS"}

(* A host that cannot give up does not address endpoints that the device   *)
(* does not have yet.                                                      *)
Legal(r) ==
  \/ r.name \notin {"EPT_GET_STATUS", "EPT_CLEAR_HALT", "EPT_SET_HALT"}
  \/ hconf # 0 \/ Cancels

Hears == bus = "active" /\ ~ssp /\ hwaddr = haddr

(* The peripheral takes a SETUP packet whatever its status fields say, and *)
(* answers NAK until its software has seen it.  A packet that still waits  *)
(* in the receive buffer is not overwritten.  The host waits until the     *)
(* device has had the time to see a reset or a resume.                     *)
HostSetup(r) ==
  /\ stage = "idle" /\ xfer < MaxTransfers /\ Legal(r)
  /\ Hears /\ flags = {}
  /\ rxsts # "disabled" /\ tc \cap {"SETUP", "OUT"} = {}
  /\ tc' = tc \cup {"SETUP"}
  /\ txsts' = "nak" /\ rxsts' = "nak"
  /\ req' = r /\ xfer' = xfer + 1
  /\ got' = <<>> /\ sent' = 0 /\ result' = "none"
  /\ stage' = CASE r.wLength = 0 -> "status_in"
                [] r.wLength # 0 /\ Reads(r) -> "data_in"
                [] OTHER -> "data_out"
  /\ UNCHANGED <<txpkt, rxpkt, flags, hwaddr, ssp, ept1, bus, haddr, hconf, resets, suspends>>

Ends(how) ==
  /\ stage' = "idle" /\ result' = how
  /\ haddr' = IF how = "ok" /\ req.name = "SET_ADDRESS" THEN req.value ELSE haddr
  /\ hconf' = IF how = "ok" /\ req.name = "SET_CONFIGURATION" THEN req.value ELSE hconf

GoesOn(next) == stage' = next /\ UNCHANGED <<result, haddr, hconf>>

TakesPacket ==
  /\ txsts = "valid"
  /\ got' = got \o txpkt
  /\ tc' = tc \cup {"TX"}
  /\ txsts' = "nak"
  /\ UNCHANGED <<rxsts, rxpkt, sent>>

GivesPacket(n) ==
  /\ rxsts = "valid" /\ tc \cap {"SETUP", "OUT"} = {}
  /\ rxpkt' = [i \in 1 .. n |-> <<xfer, sent + i>>]
  /\ sent' = sent + n
  /\ tc' = tc \cup {"OUT"}
  /\ rxsts' = "nak"
  /\ UNCHANGED <<txsts, got>>

IsStalled(sts) ==
  /\ sts = "stall"
  /\ Ends("stalled")
  /\ UNCHANGED <<txsts, rxsts, rxpkt, tc, got, sent>>

(* The data stage of a read ends with a short packet, or when the host has *)
(* what it asked for.                                                      *)
HostDataIn ==
  /\ stage = "data_in"
  /\ \/ /\ TakesPacket
        /\ GoesOn(IF Len(txpkt) < MaxPacket \/ Len(got') >= req.wLength
                    THEN "status_out" ELSE "data_in")
     \/ IsStalled(txsts)

HostDataOut ==
  /\ stage = "data_out"
  /\ \/ /\ GivesPacket(Transfers!Min2(req.wLength - sent, MaxPacket))
        /\ GoesOn(IF sent' = req.wLength THEN "status_in" ELSE "data_out")
     \/ IsStalled(rxsts)

HostStatusIn ==
  /\ stage = "status_in"
  /\ \/ TakesPacket /\ Ends("ok")
     \/ IsStalled(txsts)

HostStatusOut ==
  /\ stage = "status_out"
  /\ \/ GivesPacket(0) /\ Ends("ok")
     \/ IsStalled(rxsts)

HostGoesOn ==
  /\ Hears
  /\ HostDataIn \/ HostDataOut \/ HostStatusIn \/ HostStatusOut
  /\ UNCHANGED <<txpkt, flags, hwaddr, ssp, ept1, bus, req, xfer, resets, suspends>>

(* The host gives up.  Its timeouts are seconds, so the device has served  *)
(* every interrupt by then.                                                *)
HostCancel ==
  /\ Cancels /\ stage # "idle" /\ tc = {} /\ flags = {}
  /\ req.name \notin {"SET_ADDRESS", "SET_CONFIGURATION"}
  /\ Ends("cancelled")
  /\ UNCHANGED <<chipVars, bus, req, xfer, got, sent, resets, suspends>>

HostReset ==
  /\ resets < MaxResets /\ bus # "reset"
  /\ ~ResetSuspended => bus = "active" /\ ~ssp /\ flags = {}
  /\ resets' = resets + 1
  /\ bus' = "reset"
  /\ stage' = "idle"
  /\ result' = IF stage = "idle" THEN result ELSE "cancelled"
  /\ haddr' = 0 /\ hconf' = 0
  /\ UNCHANGED <<chipVars, req, xfer, got, sent, suspends>>

HostSuspend ==
  /\ suspends < MaxSuspends /\ stage = "idle"
  /\ bus = "active" /\ ~ssp /\ flags = {}
  /\ suspends' = suspends + 1
  /\ bus' = "idle"
  /\ UNCHANGED <<chipVars, stage, req, xfer, got, sent, result, haddr, hconf, resets>>

HostResume ==
  /\ bus = "idle"
  /\ bus' = "active"
  /\ UNCHANGED <<chipVars, stage, req, xfer, got, sent, result, haddr, hconf, resets, suspends>>

-----------------------------------------------------------------------------
(* What the peripheral notices.                                            *)

(* A reset: the endpoints are switched off, the completions stay pending.  *)
(* Traffic has woken a suspended peripheral up by then.                    *)
HwReset ==
  /\ bus = "reset"
  /\ ssp => "WK" \in flags
  /\ flags' = flags \cup {"RST"}
  /\ bus' = "active"
  /\ txsts' = "disabled" /\ rxsts' = "disabled" /\ ept1' = "disabled"
  /\ UNCHANGED <<txpkt, rxpkt, tc, hwaddr, ssp, stage, req, xfer, got, sent, result,
                 haddr, hconf, resets, suspends>>

(* An idle bus, and traffic in suspend mode.                               *)
HwSuspend ==
  /\ bus = "idle" /\ ~ssp /\ "SP" \notin flags
  /\ flags' = flags \cup {"SP"}
  /\ UNCHANGED <<txsts, rxsts, txpkt, rxpkt, tc, hwaddr, ssp, ept1, hostVars>>

HwWake ==
  /\ bus # "idle" /\ ssp /\ "WK" \notin flags
  /\ flags' = flags \cup {"WK"}
  /\ UNCHANGED <<txsts, rxsts, txpkt, rxpkt, tc, hwaddr, ssp, ept1, hostVars>>

=============================================================================
