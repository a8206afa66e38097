---------------------------- MODULE CDCDataInv ----------------------------
(***************************************************************************)
(* The inductive invariant of CDCData: who owns each endpoint, which of    *)
(* the host's packets it holds, and how far the host is in the messages.   *)
(***************************************************************************)
EXTENDS CDCData

CdcType  == [g_tx_completed : {0, 1}, g_rx_completed : {0, 1}, g_rxlen : Nat]
AppType  == [pc : Pcs, got : Seq(Packet), sent : Nat]
HostType == [given : Nat, taken : Seq(Packet), lost : Nat, resets : Nat]

TypeInv ==
  /\ env \in Environments
  /\ dev \in DevType
  /\ tog \in [{"in", "out"} -> {0, 1}]
  /\ cdc \in CdcType
  /\ app \in AppType
  /\ host \in HostType

BoundsInv ==
  /\ cdc.g_rxlen <= MaxPacket
  /\ app.sent <= Len(env.msgs)
  /\ app.pc \in {"send_clear", "send_write", "send_valid"} => Pending
  /\ host.lost <= env.losses /\ host.resets <= env.resets

(* Until it is configured the device has nothing pending, and both ends    *)
(* start anew.                                                             *)
UnconfiguredInv ==
  ~dev.conf =>
    /\ ~dev.rx.tc /\ ~dev.tx.tc /\ host.resets > 0
    /\ tog.in = 0 /\ tog.out = 0 /\ dev.rx.tog = 0 /\ dev.tx.tog = 0

-----------------------------------------------------------------------------
(* From the host to the main thread: the number of packets that the device *)
(* has accepted, and whether it holds the last of them.                    *)
Received == IF Had THEN host.given + 1 ELSE host.given

Held == dev.rx.tc \/ cdc.g_rx_completed = 1 \/ At("get_copy")

InGet == app.pc \in {"get_clear", "get_copy", "get_arm"}

(* A packet is at the endpoint, behind the flag, or in the hands of        *)
(* usb_vcp_get_rxdata; the endpoint takes another only when it is in none  *)
(* of these places.                                                        *)
RxInv ==
  /\ Received <= Len(env.out)
  /\ dev.rx.room = 0
  /\ dev.rx.sts = "valid" \/ dev.rx.tc =>
       cdc.g_rx_completed = 0 /\ ~InGet /\ dev.rx.buf = <<>> /\ dev.rx.len = 0
  /\ ~(dev.rx.sts = "valid" /\ dev.rx.tc)
  /\ dev.rx.tc => Received >= 1 /\ dev.rx.pkt = OutPacket(Received)
  /\ cdc.g_rx_completed = 1 \/ At("get_copy") =>
       /\ Received >= 1
       /\ dev.rx.buf = OutPacket(Received) /\ cdc.g_rxlen = env.out[Received]
  /\ At("get_clear") => cdc.g_rx_completed = 1
  /\ At("get_copy") \/ At("get_arm") => cdc.g_rx_completed = 0

(* The packets got are of the first k, those that the main thread is done  *)
(* with.                                                                   *)
GotParts(got, resets, k) ==
  /\ \A i \in 1 .. Len(got) :
       \E n \in 1 .. k :
         /\ got[i] = OutPacket(n)
         /\ resets = 0 => n = i
         /\ \A h \in 1 .. i - 1 : \E m \in 1 .. n - 1 : got[h] = OutPacket(m)
  /\ resets = 0 => Len(got) = k

Done == IF Held THEN Received - 1 ELSE Received

GotInv == GotParts(app.got, host.resets, Done)

-----------------------------------------------------------------------------
(* From the main thread to the host: the endpoint is the main thread's     *)
(* from the completion of one message to the start of the next.            *)
TxInv ==
  /\ dev.tx.tc => dev.tx.sts = "nak"
  /\ dev.conf /\ OnItsWay => cdc.g_tx_completed = 0
                             /\ app.pc \notin {"send_write", "send_valid"}
  /\ At("send_clear") => cdc.g_tx_completed = 1
  /\ At("send_write") \/ At("send_valid") => cdc.g_tx_completed = 0

(* Who owns what.                                                          *)
OwnerInv == TypeInv /\ BoundsInv /\ UnconfiguredInv /\ RxInv /\ GotInv /\ TxInv

-----------------------------------------------------------------------------
(* How far the host is: what it took last, and what all of it is before.   *)
LastOf(taken) == IF taken = <<>> THEN <<>> ELSE taken[Len(taken)]

TakenBefore(taken, j, a) ==
  \A i \in 1 .. Len(taken) : taken[i] # <<>> => Before(taken[i], j, a)

(* The endpoint holds a piece of the message sent last, and the rest of    *)
(* it; the host has taken that piece, or will go on with it.               *)
Offered == dev.tx.sts = "valid" /\ tog.in = dev.tx.tog

SendingPiece(j, a, b) ==
  /\ dev.tx.pkt = Piece(j, a, b)
  /\ dev.tx.rest = Piece(j, b + 1, env.msgs[j])
  /\ Offered => Continues(LastOf(host.taken), dev.tx.pkt) /\ TakenBefore(host.taken, j, a)
  /\ ~Offered => LastOf(host.taken) = dev.tx.pkt

Sending(j) ==
  \E a \in 1 .. env.msgs[j] : \E b \in a .. env.msgs[j] : SendingPiece(j, a, b)

SentInv ==
  /\ TakenBefore(host.taken, app.sent + 1, 1)
  /\ tog.in # dev.tx.tog => dev.tx.sts = "valid"
  /\ At("send_valid") => /\ dev.tx.pkt = First(Message(app.sent + 1))
                         /\ dev.tx.rest = Rest(Message(app.sent + 1))
  /\ ~dev.conf => LastOf(host.taken) = <<>>
  /\ dev.conf /\ ~OnItsWay => Ended(LastOf(host.taken))
  /\ dev.conf /\ OnItsWay => app.sent >= 1 /\ Sending(app.sent)

IInv == OwnerInv /\ SentInv /\ TakesWhole
=============================================================================
