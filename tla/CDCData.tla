------------------------------- MODULE CDCData -------------------------------
(***************************************************************************)
(* The data endpoints of the CDC class: cdc_class.c on the bulk endpoints  *)
(* of USBBulk.  The main thread polls usb_vcp_get_rxdata and calls         *)
(* usb_vcp_send_data; it shares flags and endpoints with the interrupts,   *)
(* which may come between any two of its steps.  Its loop and the host are *)
(* external.                                                               *)
(***************************************************************************)
EXTENDS USBBulk

CONSTANT Environments
  \* [out, msgs, losses, resets]: the lengths of the host's packets and of the
  \* application's messages, the handshakes that may be lost, the port resets

ASSUME EnvironmentsAssumption ==
  Environments \subseteq [out : Seq(1 .. MaxPacket), msgs : Seq(Nat \ {0}),
                          losses : Nat, resets : Nat]

VARIABLES
  env,  \* the environment chosen
  cdc,  \* cdc_struct: g_tx_completed, g_rx_completed, g_rxlen
  app,  \* the main thread: pc, packets got, messages accepted
  host  \* packets given and taken, handshakes lost, resets

cdcVars == <<dev, tog, env, cdc, app, host>>

OutPacket(i) == [k \in 1 .. env.out[i] |-> <<"out", i, k, "">>]
Message(j)   == [k \in 1 .. env.msgs[j] |-> <<"in", j, k, "">>]

At(pc) == app.pc = pc
Go(pc) == app' = [app EXCEPT !.pc = pc]

-----------------------------------------------------------------------------
(* usb_vcp_get_rxdata: the flag is tested and cleared, the packet copied,  *)
(* the endpoint armed.                                                     *)

GetTest ==
  /\ At("get")
  /\ Go(IF cdc.g_rx_completed = 0 THEN "send" ELSE "get_clear")
  /\ UNCHANGED <<dev, tog, env, cdc, host>>

(* Defect: the flag is left as it is. *)
GetClear_no_clear ==
  /\ At("get_clear") /\ Go("get_copy")
  /\ UNCHANGED <<dev, tog, env, cdc, host>>

GetClear ==
  /\ At("get_clear") /\ Go("get_copy")
  /\ cdc' = [cdc EXCEPT !.g_rx_completed = 0]
  /\ UNCHANGED <<dev, tog, env, host>>

(* Beyond what has been stored the buffer holds what was there before.     *)
Copied ==
  [k \in 1 .. cdc.g_rxlen |->
     IF k <= Len(dev.rx.buf) THEN dev.rx.buf[k] ELSE <<"before", 0, 0, "">>]

GetCopy ==
  /\ At("get_copy")
  /\ app' = [app EXCEPT !.pc = "get_arm", !.got = Append(@, Copied)]
  /\ UNCHANGED <<dev, tog, env, cdc, host>>

(* Defect: the endpoint is left as it is. *)
GetArm_not_armed ==
  /\ At("get_arm") /\ Go("send")
  /\ UNCHANGED <<dev, tog, env, cdc, host>>

GetArm ==
  /\ At("get_arm") /\ Go("send")
  /\ dev' = [dev EXCEPT !.rx = usbd_ept_recv(@, MaxPacket)]
  /\ UNCHANGED <<tog, env, cdc, host>>

(* usb_vcp_send_data: the flag is tested and cleared; usbd_ept_send writes *)
(* the endpoint's fields and its packet and then makes it valid.           *)
Pending == app.sent < Len(env.msgs)

(* Defect: sends without a look at the flag. *)
SendTest_no_flag ==
  /\ At("send")
  /\ Go(IF Pending THEN "send_clear" ELSE "get")
  /\ UNCHANGED <<dev, tog, env, cdc, host>>

SendTest ==
  /\ At("send")
  /\ Go(IF Pending /\ cdc.g_tx_completed = 1 THEN "send_clear" ELSE "get")
  /\ UNCHANGED <<dev, tog, env, cdc, host>>

SendClear ==
  /\ At("send_clear") /\ Go("send_write")
  /\ cdc' = [cdc EXCEPT !.g_tx_completed = 0]
  /\ UNCHANGED <<dev, tog, env, host>>

SendWrite ==
  /\ At("send_write") /\ Go("send_valid")
  /\ LET tx == usbd_ept_send(dev.tx, Message(app.sent + 1))
     IN  dev' = [dev EXCEPT !.tx = [@ EXCEPT !.pkt = tx.pkt, !.rest = tx.rest]]
  /\ UNCHANGED <<tog, env, cdc, host>>

SendValid ==
  /\ At("send_valid")
  /\ dev' = [dev EXCEPT !.tx = [@ EXCEPT !.sts = "valid"]]
  /\ app' = [app EXCEPT !.pc = "get", !.sent = @ + 1]
  /\ UNCHANGED <<tog, env, cdc, host>>

Main ==
  \/ GetTest \/ GetClear \/ GetCopy \/ GetArm
  \/ SendTest \/ SendClear \/ SendWrite \/ SendValid

-----------------------------------------------------------------------------
(* The interrupts.                                                         *)

(* class_init_handler with cdc_struct_init, on SET_CONFIGURATION.          *)
class_init_handler ==
  /\ dev' = [dev EXCEPT !.tx = OpenTx(@), !.rx = usbd_ept_recv(OpenRx(@), MaxPacket),
                        !.conf = TRUE]
  /\ cdc' = [cdc EXCEPT !.g_tx_completed = 1, !.g_rx_completed = 0]

class_in_handler  == cdc' = [cdc EXCEPT !.g_tx_completed = 1]
class_out_handler == cdc' = [cdc EXCEPT !.g_rxlen = dev'.rx.len, !.g_rx_completed = 1]

(* usbd_eptn_handler: the completion of IN first.                          *)
InComplete ==
  /\ dev.tx.tc
  /\ dev' = [dev EXCEPT !.tx = IF TxComplete(@) THEN TxServed(@)
                               ELSE usbd_ept_send(TxServed(@), @.rest)]
  /\ IF TxComplete(dev.tx) /\ dev.conf THEN class_in_handler ELSE UNCHANGED cdc

OutComplete ==
  /\ dev.rx.tc /\ ~dev.tx.tc
  /\ dev' = [dev EXCEPT !.rx = IF RxComplete(@) THEN RxServed(@)
                               ELSE GoOnReceiving(RxServed(@), @.room)]
  /\ IF RxComplete(dev.rx) /\ dev.conf THEN class_out_handler ELSE UNCHANGED cdc

EptInterrupt == (InComplete \/ OutComplete) /\ UNCHANGED <<tog, env, app, host>>

-----------------------------------------------------------------------------
(* The host.                                                               *)

MayLose(lost) == lost => host.lost < env.losses
Lose(lost)    == IF lost THEN host.lost + 1 ELSE host.lost

GivePacketOut(lost) ==
  /\ dev.conf /\ host.given < Len(env.out) /\ MayLose(lost)
  /\ GivePacket(OutPacket(host.given + 1), lost)
  /\ host' = [host EXCEPT !.given = IF lost THEN @ ELSE @ + 1, !.lost = Lose(lost)]
  /\ UNCHANGED <<env, cdc, app>>

TakePacketIn(lost) ==
  /\ dev.conf /\ MayLose(lost)
  /\ TakePacket(lost)
  /\ host' = [host EXCEPT !.taken = IF Takes THEN Append(@, dev.tx.pkt) ELSE @,
                          !.lost = Lose(lost)]
  /\ UNCHANGED <<env, cdc, app>>

(* A port reset, which the host marks in what it takes; it gives no packet *)
(* again after it.  It finds the main thread outside the two calls: within *)
(* one, class_init_handler changes the flags under the call's feet.        *)
InCall == app.pc \notin {"get", "send"}

PortReset ==
  /\ dev.conf /\ ~InCall /\ host.resets < env.resets
  /\ dev' = [dev EXCEPT !.tx = SwitchedOff(@), !.rx = SwitchedOff(@), !.conf = FALSE]
  /\ tog' = [in |-> 0, out |-> 0]
  /\ host' = [host EXCEPT !.resets = @ + 1, !.given = IF Had THEN @ + 1 ELSE @,
                          !.taken = Append(@, <<>>)]
  /\ UNCHANGED <<env, cdc, app>>

Configure ==
  /\ ~dev.conf /\ ~InCall
  /\ class_init_handler
  /\ UNCHANGED <<tog, env, app, host>>

-----------------------------------------------------------------------------
Init ==
  /\ env \in Environments
  /\ dev = [tx |-> OpenTx(TxReset), rx |-> usbd_ept_recv(OpenRx(RxReset), MaxPacket), conf |-> TRUE]
  /\ tog = [in |-> 0, out |-> 0]
  /\ cdc = [g_tx_completed |-> 1, g_rx_completed |-> 0, g_rxlen |-> 0]
  /\ app = [pc |-> "get", got |-> <<>>, sent |-> 0]
  /\ host = [given |-> 0, taken |-> <<>>, lost |-> 0, resets |-> 0]

Wire(lost) == GivePacketOut(lost) \/ TakePacketIn(lost)

Next == Main \/ EptInterrupt \/ Wire(FALSE) \/ Wire(TRUE) \/ PortReset \/ Configure

Spec == Init /\ [][Next]_cdcVars

(* The main loop goes on, interrupts are served, the host polls and gives. *)
FairSpec ==
  /\ Spec
  /\ WF_cdcVars(Main) /\ WF_cdcVars(EptInterrupt) /\ WF_cdcVars(Configure)
  /\ WF_cdcVars(GivePacketOut(FALSE)) /\ WF_cdcVars(TakePacketIn(FALSE))

-----------------------------------------------------------------------------
Pcs == {"get", "get_clear", "get_copy", "get_arm",
        "send", "send_clear", "send_write", "send_valid"}

DevType == [tx : TxType, rx : RxType, conf : BOOLEAN]

(* The state keeps its types and counters their bounds: g_rxlen stays      *)
(* within a packet, for which the caller has room.                         *)
TypeOK ==
  /\ env \in Environments
  /\ dev \in DevType
  /\ tog \in [{"in", "out"} -> {0, 1}]
  /\ cdc \in [g_tx_completed : {0, 1}, g_rx_completed : {0, 1}, g_rxlen : 0 .. MaxPacket]
  /\ app \in [pc : Pcs, got : Seq(Packet), sent : 0 .. Len(env.msgs)]
  /\ host \in [given : 0 .. Len(env.out), taken : Seq(Packet),
                lost : 0 .. env.losses, resets : 0 .. env.resets]

(* What the main thread gets are packets of the host's, whole, each at     *)
(* most once and in their order, whatever handshakes are lost and whatever *)
(* port resets come between its calls; without a port reset none is left   *)
(* out.                                                                    *)
GetsInOrder ==
  \A i \in 1 .. Len(app.got) :
    \E n \in 1 .. Len(env.out) :
      /\ app.got[i] = OutPacket(n)
      /\ host.resets = 0 => n = i
      /\ \A h \in 1 .. i - 1 : \E m \in 1 .. n - 1 : app.got[h] = OutPacket(m)

(* Units a to b of message j; of a packet, its message and the first and   *)
(* last of its units.                                                      *)
Piece(j, a, b) == [k \in 1 .. b - a + 1 |-> <<"in", j, a + k - 1, "">>]

MessageOf(p) == p[1][2]
From(p)      == p[1][3]
To(p)        == p[Len(p)][3]

Ended(p) == p # <<>> => To(p) = env.msgs[MessageOf(p)]

Continues(p, q) ==
  \/ q = <<>>
  \/ /\ ~Ended(p)
     /\ MessageOf(q) = MessageOf(p) /\ From(q) = To(p) + 1
  \/ Ended(p) /\ From(q) = 1

(* The packet begins before unit a of message j.                           *)
Before(p, j, a) == MessageOf(p) < j \/ (MessageOf(p) = j /\ From(p) < a)

(* The host takes messages as they were sent, one after the other, each    *)
(* packet once: only a port reset cuts a message short, and none is mixed  *)
(* with another.                                                           *)
TakesWhole ==
  LET taken == host.taken
  IN  \A i \in 1 .. Len(taken) : taken[i] # <<>> =>
        /\ taken[i] = Piece(MessageOf(taken[i]), From(taken[i]), To(taken[i]))
        /\ Continues(IF i = 1 THEN <<>> ELSE taken[i - 1], taken[i])
        /\ \A h \in 1 .. i - 1 : taken[h] # <<>> =>
             Before(taken[h], MessageOf(taken[i]), From(taken[i]))

(* While a message is on its way the endpoint is not touched by the main   *)
(* thread: nothing is written over a packet that the host has not taken.   *)
OnItsWay == dev.tx.sts = "valid" \/ dev.tx.tc

OneMessage ==
  (dev.conf /\ app.pc \in {"send_clear", "send_write"}) => ~OnItsWay

(* Without a port reset everything arrives, in both directions.            *)
AllTaken ==
  \A j \in 1 .. Len(env.msgs) : \E i \in 1 .. Len(host.taken) :
    LET p == host.taken[i]
    IN  p # <<>> /\ MessageOf(p) = j /\ Ended(p)

AllArrives == env.resets = 0 => <>(Len(app.got) = Len(env.out) /\ AllTaken)
=============================================================================
