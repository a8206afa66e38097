------------------------------- MODULE USBBulk -------------------------------
(***************************************************************************)
(* The bulk endpoints of a device class, one in each direction: what       *)
(* usbd_core.c and usbd_int.c keep of them, the peripheral below and the   *)
(* host's end of the two pipes.                                            *)
(*                                                                         *)
(* Operators named after a function of the code map the state before the   *)
(* call to the state after it, so that a handler is the composition of the *)
(* calls it makes; an interrupt handler is one step.  Take and Give are    *)
(* the wire, external to the repository.                                   *)
(***************************************************************************)
EXTENDS Naturals, Sequences

CONSTANT MaxPacket

ASSUME MaxPacketAssumption == MaxPacket \in Nat \ {0}

VARIABLES
  dev, \* the device: records tx and rx of the endpoints, and the class's state
  tog  \* the host's data toggles, [in, out]

(* What the pipes carry, in units of which MaxPacket fill a packet: a kind *)
(* and what tells it apart from the others of its kind.                    *)
Kinds  == {"cbw", "csw", "disk", "capacity", "inquiry", "mode", "sense", "stale",
           "out", "in", "before"}
Words  == {"", "pass", "fail", "phase", "illegal", "hardware"}
Unit   == Kinds \X Nat \X Nat \X Words
Packet == Seq(Unit)

Statuses == {"disable", "nak", "valid", "stall"}

(* rest is what trans_buf and total_len leave to send after the packet.    *)
TxType == [sts : Statuses, tog : {0, 1}, tc : BOOLEAN, pkt : Packet, rest : Packet]

(* buf is what has been stored at the buffer given last, room total_len,   *)
(* len trans_len.                                                          *)
RxType == [sts : Statuses, tog : {0, 1}, tc : BOOLEAN, pkt : Packet,
           buf : Packet, room : Nat, len : Nat]

TxReset == [sts |-> "disable", tog |-> 0, tc |-> FALSE, pkt |-> <<>>, rest |-> <<>>]
RxReset == [sts |-> "disable", tog |-> 0, tc |-> FALSE, pkt |-> <<>>,
            buf |-> <<>>, room |-> 0, len |-> 0]

Least(a, b) == IF a < b THEN a ELSE b

First(s) == SubSeq(s, 1, Least(MaxPacket, Len(s)))
Rest(s)  == SubSeq(s, MaxPacket + 1, Len(s))

-----------------------------------------------------------------------------
(* usbd_core.c and the driver's endpoint functions.                        *)

usbd_ept_send(tx, s) == [tx EXCEPT !.sts = "valid", !.pkt = First(s), !.rest = Rest(s)]

(* The received length starts anew with every call, also when the          *)
(* interrupt handler goes on with a transfer of several packets.           *)
GoOnReceiving(rx, n) ==
  [rx EXCEPT !.sts = "valid", !.room = IF n > MaxPacket THEN n - MaxPacket ELSE 0, !.len = 0]

usbd_ept_recv(rx, n) == [GoOnReceiving(rx, n) EXCEPT !.buf = <<>>]

usbd_set_stall(e)   == [e EXCEPT !.sts = "stall"]
usbd_clear_stall(e) == [e EXCEPT !.sts = "valid"]

OpenTx(tx) == [tx EXCEPT !.sts = "nak", !.tog = 0]
OpenRx(rx) == [rx EXCEPT !.sts = "valid", !.tog = 0]

usbd_ept_close(e) == [e EXCEPT !.sts = "disable", !.tog = 0]

(* usbd_eptn_handler, up to the call of the class's handler.               *)
TxServed(tx) == [tx EXCEPT !.tc = FALSE]

RxServed(rx) ==
  [rx EXCEPT !.tc = FALSE, !.buf = @ \o rx.pkt, !.len = @ + Len(rx.pkt)]

TxComplete(tx) == tx.rest = <<>>

RxComplete(rx) == rx.room = 0 \/ Len(rx.pkt) < MaxPacket

-----------------------------------------------------------------------------
(* The wire.  A packet that is received and whose handshake is lost stays  *)
(* at its sender and is sent again; the receiver knows it by its toggle.   *)

Takes == dev.tx.sts = "valid" /\ tog.in = dev.tx.tog

Taken(tx)       == [tx EXCEPT !.sts = "nak", !.tc = TRUE, !.tog = 1 - @]
Filled(rx, pkt) == [rx EXCEPT !.sts = "nak", !.tc = TRUE, !.tog = 1 - @, !.pkt = pkt]

(* What a bus reset does to an endpoint's register.                        *)
SwitchedOff(e)  == [e EXCEPT !.sts = "disable", !.tc = FALSE, !.tog = 0]

(* The host takes the packet of an IN transaction, if Takes.               *)
TakePacket(lost) ==
  /\ dev.tx.sts = "valid"
  /\ tog' = IF Takes THEN [tog EXCEPT !.in = 1 - @] ELSE tog
  /\ dev' = IF lost THEN dev ELSE [dev EXCEPT !.tx = Taken(@)]

(* The host gives a packet in an OUT transaction.  One that the device has *)
(* had already is acknowledged and dropped, also while no other would be   *)
(* taken.                                                                  *)
Had   == tog.out # dev.rx.tog
Hears == dev.rx.sts = "valid" \/ (dev.rx.sts = "nak" /\ Had)

GivePacket(pkt, lost) ==
  /\ Hears
  /\ dev' = IF Had THEN dev ELSE [dev EXCEPT !.rx = Filled(@, pkt)]
  /\ tog' = IF lost THEN tog ELSE [tog EXCEPT !.out = 1 - @]

=============================================================================
