--------------------------- MODULE CDCDataProofs ---------------------------
(***************************************************************************)
(* For every packet size, every traffic, any number of lost handshakes and *)
(* port resets: packets reach the main thread whole and in order, messages *)
(* do not meet at the endpoint, and the host takes them whole.             *)
(***************************************************************************)
EXTENDS CDCDataInv, SequenceTheorems, TLAPS

(* The fields of an environment.                                           *)
LEMMA EnvFacts ==
  ASSUME env \in Environments
  PROVE  /\ env.out \in Seq(1 .. MaxPacket) /\ env.msgs \in Seq(Nat \ {0})
         /\ env.losses \in Nat /\ env.resets \in Nat
         /\ Len(env.out) \in Nat /\ Len(env.msgs) \in Nat
         /\ \A i \in 1 .. Len(env.out) : env.out[i] \in 1 .. MaxPacket
         /\ \A i \in 1 .. Len(env.msgs) : env.msgs[i] \in Nat \ {0}
BY EnvironmentsAssumption, MaxPacketAssumption

(* The host's packets fit a packet and are not empty.                      *)
LEMMA OutPacketType ==
  ASSUME env \in Environments, NEW i \in 1 .. Len(env.out)
  PROVE  /\ OutPacket(i) \in Packet
         /\ Len(OutPacket(i)) = env.out[i] /\ env.out[i] \in 1 .. MaxPacket
<1>1. env.out[i] \in 1 .. MaxPacket /\ env.out[i] \in Nat /\ i \in Nat
  BY EnvFacts, MaxPacketAssumption
<1>2. \A k \in 1 .. env.out[i] : <<"out", i, k, "">> \in Unit
  <2>1. \A k \in 1 .. env.out[i] : k \in Nat
    BY <1>1
  <2> QED
    BY <1>1, <2>1 DEF Unit, Kinds, Words
<1>3. OutPacket(i) \in [1 .. env.out[i] -> Unit]
  BY <1>2 DEF OutPacket
<1> QED
  BY <1>1, <1>3 DEF Packet

LEMMA MessageType ==
  ASSUME env \in Environments, NEW j \in 1 .. Len(env.msgs)
  PROVE  Message(j) \in Packet /\ Len(Message(j)) = env.msgs[j]
<1>1. env.msgs[j] \in Nat /\ j \in Nat
  BY EnvFacts
<1>2. \A k \in 1 .. env.msgs[j] : <<"in", j, k, "">> \in Unit
  <2>1. \A k \in 1 .. env.msgs[j] : k \in Nat
    BY <1>1
  <2> QED
    BY <1>1, <2>1 DEF Unit, Kinds, Words
<1>3. Message(j) \in [1 .. env.msgs[j] -> Unit]
  BY <1>2 DEF Message
<1> QED
  BY <1>1, <1>3 DEF Packet

(* What usbd_ept_send splits a buffer into.                                *)
LEMMA SplitType ==
  ASSUME NEW s \in Packet
  PROVE  /\ First(s) \in Packet /\ Rest(s) \in Packet
         /\ Len(First(s)) = Least(MaxPacket, Len(s))
<1>1. Len(s) \in Nat /\ MaxPacket \in Nat /\ MaxPacket > 0 /\ \A i \in 1 .. Len(s) : s[i] \in Unit
  BY MaxPacketAssumption DEF Packet
<1>2. Least(MaxPacket, Len(s)) \in 0 .. Len(s)
  BY <1>1 DEF Least
<1>3. First(s) \in Packet /\ Len(First(s)) = Least(MaxPacket, Len(s))
  <2>1. \A i \in 1 .. Least(MaxPacket, Len(s)) : s[i] \in Unit
    BY <1>1, <1>2
  <2> QED
    BY <1>2, <2>1, SubSeqProperties DEF First, Packet
<1>4. Rest(s) \in Packet
  BY <1>1, SubSeqProperties DEF Rest, Packet
<1> QED
  BY <1>3, <1>4

LEMMA SendType ==
  ASSUME NEW tx \in TxType, NEW s \in Packet
  PROVE  /\ usbd_ept_send(tx, s) \in TxType
         /\ usbd_ept_send(tx, s) = [tx EXCEPT !.sts = "valid", !.pkt = First(s), !.rest = Rest(s)]
BY SplitType DEF usbd_ept_send, TxType, Statuses

(* Arming the OUT endpoint for one packet leaves no room for a second.     *)
LEMMA RecvFacts ==
  ASSUME NEW rx \in RxType
  PROVE  /\ usbd_ept_recv(rx, MaxPacket)
              = [rx EXCEPT !.sts = "valid", !.room = 0, !.len = 0, !.buf = <<>>]
         /\ usbd_ept_recv(rx, MaxPacket) \in RxType
<1>1. ~(MaxPacket > MaxPacket)
  BY MaxPacketAssumption
<1>2. <<>> \in Packet
  BY DEF Packet
<1> QED
  BY <1>1, <1>2 DEF usbd_ept_recv, GoOnReceiving, RxType, Statuses

(* The other operators on an endpoint.                                     *)
LEMMA TxTypes ==
  ASSUME NEW tx \in TxType
  PROVE  /\ OpenTx(tx) \in TxType /\ TxServed(tx) \in TxType
         /\ Taken(tx) \in TxType /\ SwitchedOff(tx) \in TxType
         /\ [tx EXCEPT !.sts = "valid"] \in TxType
         /\ \A p, r \in Packet : [tx EXCEPT !.pkt = p, !.rest = r] \in TxType
<1>1. OpenTx(tx) \in TxType
  BY DEF OpenTx, TxType, Statuses
<1>5. TxServed(tx) \in TxType
  BY DEF TxServed, TxType
<1>2. Taken(tx) \in TxType
  <2>1. 1 - tx.tog \in {0, 1}
    BY DEF TxType
  <2> QED
    BY <2>1 DEF Taken, TxType, Statuses
<1>3. SwitchedOff(tx) \in TxType
  BY DEF SwitchedOff, TxType, Statuses
<1>6. [tx EXCEPT !.sts = "valid"] \in TxType
  BY DEF TxType, Statuses
<1>4. \A p, r \in Packet : [tx EXCEPT !.pkt = p, !.rest = r] \in TxType
  BY DEF TxType
<1> QED
  BY <1>1, <1>2, <1>3, <1>4, <1>5, <1>6

LEMMA RxTypes ==
  ASSUME NEW rx \in RxType
  PROVE  /\ OpenRx(rx) \in RxType /\ RxServed(rx) \in RxType /\ SwitchedOff(rx) \in RxType
         /\ \A n \in Nat : GoOnReceiving(rx, n) \in RxType
         /\ \A p \in Packet : Filled(rx, p) \in RxType
<1>1. OpenRx(rx) \in RxType
  BY DEF OpenRx, RxType, Statuses
<1>5. SwitchedOff(rx) \in RxType
  BY DEF SwitchedOff, RxType, Statuses
<1>2. RxServed(rx) \in RxType
  <2>1. rx.buf \in Packet /\ rx.pkt \in Packet /\ rx.len \in Nat
    BY DEF RxType
  <2>2. rx.buf \o rx.pkt \in Packet /\ rx.len + Len(rx.pkt) \in Nat
    BY <2>1 DEF Packet
  <2> QED
    BY <2>2 DEF RxServed, RxType
<1>3. ASSUME NEW n \in Nat PROVE GoOnReceiving(rx, n) \in RxType
  <2>1. (IF n > MaxPacket THEN n - MaxPacket ELSE 0) \in Nat
    BY MaxPacketAssumption
  <2> QED
    BY <2>1 DEF GoOnReceiving, RxType, Statuses
<1>4. ASSUME NEW p \in Packet PROVE Filled(rx, p) \in RxType
  <2>1. 1 - rx.tog \in {0, 1}
    BY DEF RxType
  <2> QED
    BY <2>1 DEF Filled, RxType, Statuses
<1> QED
  BY <1>1, <1>2, <1>3, <1>4, <1>5

(* A new endpoint in the device.                                           *)
LEMMA DevUpdate ==
  ASSUME NEW d \in DevType, NEW tx \in TxType, NEW rx \in RxType, NEW c \in BOOLEAN
  PROVE  /\ [d EXCEPT !.tx = tx] \in DevType
         /\ [d EXCEPT !.rx = rx] \in DevType
         /\ [d EXCEPT !.tx = tx, !.rx = rx, !.conf = c] \in DevType
BY DEF DevType

LEMMA DevFields ==
  ASSUME NEW d \in DevType
  PROVE  d.tx \in TxType /\ d.rx \in RxType /\ d.conf \in BOOLEAN
BY DEF DevType

-----------------------------------------------------------------------------
(* Types.                                                                  *)

LEMMA CopiedType ==
  ASSUME TypeInv
  PROVE  Copied \in Packet
<1>1. cdc.g_rxlen \in Nat /\ dev.rx.buf \in Packet
  BY DevFields DEF TypeInv, RxType, CdcType
<1>2. <<"before", 0, 0, "">> \in Unit
  BY DEF Unit, Kinds, Words
<1>3. \A k \in 1 .. cdc.g_rxlen :
        (IF k <= Len(dev.rx.buf) THEN dev.rx.buf[k] ELSE <<"before", 0, 0, "">>) \in Unit
  <2> SUFFICES ASSUME NEW k \in 1 .. cdc.g_rxlen
               PROVE  (IF k <= Len(dev.rx.buf) THEN dev.rx.buf[k] ELSE <<"before", 0, 0, "">>)
                         \in Unit
    OBVIOUS
  <2>1. k <= Len(dev.rx.buf) => dev.rx.buf[k] \in Unit
    BY <1>1 DEF Packet
  <2> QED
    BY <1>2, <2>1
<1>4. Copied \in [1 .. cdc.g_rxlen -> Unit]
  BY <1>3 DEF Copied
<1> QED
  BY <1>1, <1>4 DEF Packet

(* The other records.                                                      *)
LEMMA CdcUpdate ==
  ASSUME NEW c \in CdcType, NEW f \in {0, 1}, NEW n \in Nat
  PROVE  /\ [c EXCEPT !.g_tx_completed = f] \in CdcType
         /\ [c EXCEPT !.g_rx_completed = f] \in CdcType
         /\ [c EXCEPT !.g_rxlen = n, !.g_rx_completed = f] \in CdcType
         /\ [c EXCEPT !.g_tx_completed = 1, !.g_rx_completed = f] \in CdcType
BY DEF CdcType

LEMMA AppUpdate ==
  ASSUME NEW a \in AppType, NEW p \in Pcs, NEW packet \in Packet
  PROVE  /\ [a EXCEPT !.pc = p] \in AppType
         /\ [a EXCEPT !.pc = p, !.got = Append(@, packet)] \in AppType
         /\ [a EXCEPT !.pc = p, !.sent = @ + 1] \in AppType
<1>1. Append(a.got, packet) \in Seq(Packet) /\ a.sent + 1 \in Nat
  BY DEF AppType
<1> QED
  BY <1>1 DEF AppType

LEMMA HostUpdate ==
  ASSUME NEW h \in HostType, NEW g \in Nat, NEW t \in Seq(Packet), NEW l \in Nat, NEW r \in Nat
  PROVE  /\ [h EXCEPT !.given = g, !.lost = l] \in HostType
         /\ [h EXCEPT !.taken = t, !.lost = l] \in HostType
         /\ [h EXCEPT !.resets = r, !.given = g, !.taken = t] \in HostType
BY DEF HostType

LEMMA GetTypes ==
  ASSUME TypeInv, GetTest \/ GetClear \/ GetCopy \/ GetArm
  PROVE  TypeInv'
<1> USE DEF TypeInv, Go, At
<1> {"send", "get_clear", "get_copy", "get_arm"} \subseteq Pcs
  BY DEF Pcs
<1>1. CASE GetTest
  BY <1>1, AppUpdate, EmptySeq DEF GetTest, Packet
<1>2. CASE GetClear
  <2>1. cdc' \in CdcType
    BY <1>2, CdcUpdate DEF GetClear
  <2>2. app' \in AppType
    BY <1>2, AppUpdate, EmptySeq DEF GetClear, Packet
  <2> QED
    BY <1>2, <2>1, <2>2 DEF GetClear
<1>3. CASE GetCopy
  <2>1. app' \in AppType
    BY <1>3, CopiedType, AppUpdate DEF GetCopy
  <2> QED
    BY <1>3, <2>1 DEF GetCopy
<1>4. CASE GetArm
  <2>1. usbd_ept_recv(dev.rx, MaxPacket) \in RxType
    BY DevFields, RecvFacts
  <2>2. dev' \in DevType
    BY <1>4, <2>1, DevUpdate, DevFields DEF GetArm
  <2>3. app' \in AppType
    BY <1>4, AppUpdate, EmptySeq DEF GetArm, Packet
  <2> QED
    BY <1>4, <2>2, <2>3 DEF GetArm
<1> QED
  BY <1>1, <1>2, <1>3, <1>4

LEMMA SendTypes ==
  ASSUME TypeInv, BoundsInv, SendTest \/ SendClear \/ SendWrite \/ SendValid
  PROVE  TypeInv'
<1> USE DEF TypeInv, Go, At
<1> {"get", "send_clear", "send_write", "send_valid"} \subseteq Pcs
  BY DEF Pcs
<1> <<>> \in Packet
  BY EmptySeq DEF Packet
<1>1. CASE SendTest
  BY <1>1, AppUpdate DEF SendTest
<1>2. CASE SendClear
  <2>1. cdc' \in CdcType
    BY <1>2, CdcUpdate DEF SendClear
  <2>2. app' \in AppType
    BY <1>2, AppUpdate DEF SendClear
  <2> QED
    BY <1>2, <2>1, <2>2 DEF SendClear
<1>3. CASE SendWrite
  <2>1. app.sent + 1 \in 1 .. Len(env.msgs)
    BY <1>3, EnvFacts DEF SendWrite, BoundsInv, Pending, AppType
  <2>2. Message(app.sent + 1) \in Packet
    BY <2>1, MessageType
  <2> DEFINE tx == usbd_ept_send(dev.tx, Message(app.sent + 1))
  <2>3. tx.pkt \in Packet /\ tx.rest \in Packet
    BY <2>2, SendType, DevFields DEF TxType
  <2>4. [dev.tx EXCEPT !.pkt = tx.pkt, !.rest = tx.rest] \in TxType
    BY <2>3, TxTypes, DevFields
  <2>5. dev' \in DevType
    BY <1>3, <2>4, DevUpdate, DevFields DEF SendWrite
  <2>6. app' \in AppType
    BY <1>3, AppUpdate DEF SendWrite
  <2> QED
    BY <1>3, <2>5, <2>6 DEF SendWrite
<1>4. CASE SendValid
  <2>1. dev' \in DevType
    BY <1>4, TxTypes, DevUpdate, DevFields DEF SendValid
  <2>2. app' \in AppType
    BY <1>4, AppUpdate DEF SendValid
  <2> QED
    BY <1>4, <2>1, <2>2 DEF SendValid
<1> QED
  BY <1>1, <1>2, <1>3, <1>4

LEMMA EptTypes ==
  ASSUME TypeInv, EptInterrupt
  PROVE  TypeInv'
<1> dev \in DevType /\ dev.tx \in TxType /\ dev.rx \in RxType /\ dev.conf \in BOOLEAN
  BY DevFields DEF TypeInv
<1>1. CASE InComplete /\ UNCHANGED <<tog, env, app, host>>
  <2>1. TxServed(dev.tx) \in TxType /\ dev.tx.rest \in Packet
    BY TxTypes DEF TxType
  <2>2. usbd_ept_send(TxServed(dev.tx), dev.tx.rest) \in TxType
    BY <2>1, SendType
  <2>3. dev' \in DevType
    BY <1>1, <2>1, <2>2, DevUpdate DEF InComplete
  <2> QED
    BY <1>1, <2>3, CdcUpdate DEF TypeInv, InComplete, class_in_handler
<1>2. CASE OutComplete /\ UNCHANGED <<tog, env, app, host>>
  <2>1. RxServed(dev.rx) \in RxType /\ dev.rx.room \in Nat
    BY RxTypes DEF RxType
  <2>2. GoOnReceiving(RxServed(dev.rx), dev.rx.room) \in RxType
    BY <2>1, RxTypes
  <2>3. dev' \in DevType
    BY <1>2, <2>1, <2>2, DevUpdate DEF OutComplete
  <2>4. dev'.rx.len \in Nat
    BY <2>3, DevFields DEF RxType
  <2>5. cdc' \in CdcType
    BY <1>2, <2>4, CdcUpdate DEF TypeInv, OutComplete, class_out_handler
  <2> QED
    BY <1>2, <2>3, <2>5 DEF TypeInv
<1> QED
  BY <1>1, <1>2 DEF EptInterrupt

(* Toggles.                                                                *)
LEMMA ToggleType ==
  ASSUME NEW t \in [{"in", "out"} -> {0, 1}]
  PROVE  /\ [t EXCEPT !["in"] = 1 - @] \in [{"in", "out"} -> {0, 1}]
         /\ [t EXCEPT !["out"] = 1 - @] \in [{"in", "out"} -> {0, 1}]
         /\ [in |-> 0, out |-> 0] \in [{"in", "out"} -> {0, 1}]
OBVIOUS

LEMMA WireTypes ==
  ASSUME TypeInv, NEW lost \in BOOLEAN, Wire(lost)
  PROVE  TypeInv'
<1> dev \in DevType /\ dev.tx \in TxType /\ dev.rx \in RxType /\ dev.conf \in BOOLEAN
  BY DevFields DEF TypeInv
<1>1. CASE GivePacketOut(lost)
  <2>1. host.given + 1 \in 1 .. Len(env.out)
    BY <1>1, EnvFacts DEF GivePacketOut, TypeInv, HostType
  <2>2. OutPacket(host.given + 1) \in Packet
    BY <2>1, OutPacketType DEF TypeInv
  <2>3. dev' \in DevType
    BY <1>1, <2>2, RxTypes, DevUpdate DEF GivePacketOut, GivePacket
  <2>4. tog' \in [{"in", "out"} -> {0, 1}]
    BY <1>1, ToggleType DEF GivePacketOut, GivePacket, TypeInv
  <2>5. host' \in HostType
    <3>1. host.given \in Nat /\ host.given + 1 \in Nat /\ Lose(lost) \in Nat /\ host.taken \in Seq(Packet)
      BY DEF TypeInv, HostType, Lose
    <3> QED
      BY <1>1, <3>1, HostUpdate DEF GivePacketOut, TypeInv
  <2> QED
    BY <1>1, <2>3, <2>4, <2>5 DEF GivePacketOut, TypeInv
<1>2. CASE TakePacketIn(lost)
  <2>1. dev' \in DevType
    BY <1>2, TxTypes, DevUpdate DEF TakePacketIn, TakePacket
  <2>2. tog' \in [{"in", "out"} -> {0, 1}]
    BY <1>2, ToggleType DEF TakePacketIn, TakePacket, TypeInv
  <2>3. Append(host.taken, dev.tx.pkt) \in Seq(Packet)
    <3>1. dev.tx.pkt \in Packet
      BY DEF TxType
    <3> QED
      BY <3>1 DEF TypeInv, HostType
  <2>4. host' \in HostType
    <3>1. host.given \in Nat /\ Lose(lost) \in Nat /\ host.taken \in Seq(Packet)
      BY DEF TypeInv, HostType, Lose
    <3> QED
      BY <1>2, <2>3, <3>1, HostUpdate DEF TakePacketIn, TypeInv
  <2> QED
    BY <1>2, <2>1, <2>2, <2>4 DEF TakePacketIn, TypeInv
<1> QED
  BY <1>1, <1>2 DEF Wire

LEMMA ResetTypes ==
  ASSUME TypeInv, PortReset \/ Configure
  PROVE  TypeInv'
<1> dev \in DevType /\ dev.tx \in TxType /\ dev.rx \in RxType /\ dev.conf \in BOOLEAN
  BY DevFields DEF TypeInv
<1>1. CASE PortReset
  <2>1. dev' \in DevType
    BY <1>1, TxTypes, RxTypes, DevUpdate DEF PortReset
  <2>2. tog' \in [{"in", "out"} -> {0, 1}]
    BY <1>1, ToggleType DEF PortReset, TypeInv
  <2>3. Append(host.taken, <<>>) \in Seq(Packet)
    BY DEF Packet, TypeInv, HostType
  <2>4. host' \in HostType
    <3>1. host.given \in Nat /\ host.given + 1 \in Nat /\ host.resets + 1 \in Nat
      BY DEF TypeInv, HostType
    <3> QED
      BY <1>1, <2>3, <3>1, HostUpdate DEF PortReset, TypeInv
  <2> QED
    BY <1>1, <2>1, <2>2, <2>4 DEF PortReset, TypeInv
<1>2. CASE Configure
  <2>1. OpenTx(dev.tx) \in TxType /\ OpenRx(dev.rx) \in RxType
    BY TxTypes, RxTypes
  <2>2. usbd_ept_recv(OpenRx(dev.rx), MaxPacket) \in RxType
    BY <2>1, RecvFacts
  <2>3. dev' \in DevType
    BY <1>2, <2>1, <2>2, DevUpdate DEF Configure, class_init_handler
  <2>4. cdc' \in CdcType
    BY <1>2, CdcUpdate DEF Configure, class_init_handler, TypeInv
  <2> QED
    BY <1>2, <2>3, <2>4 DEF Configure, TypeInv
<1> QED
  BY <1>1, <1>2

-----------------------------------------------------------------------------
(* What each action does to each field.                                    *)

LEMMA GetEffects ==
  ASSUME TypeInv
  PROVE  /\ GetTest =>
              /\ app.pc = "get"
              /\ app'.pc = IF cdc.g_rx_completed = 0 THEN "send" ELSE "get_clear"
              /\ app'.got = app.got /\ app'.sent = app.sent
              /\ UNCHANGED <<dev, tog, env, cdc, host>>
         /\ GetClear =>
              /\ app.pc = "get_clear" /\ app'.pc = "get_copy"
              /\ cdc'.g_rx_completed = 0
              /\ cdc'.g_tx_completed = cdc.g_tx_completed /\ cdc'.g_rxlen = cdc.g_rxlen
              /\ app'.got = app.got /\ app'.sent = app.sent
              /\ UNCHANGED <<dev, tog, env, host>>
         /\ GetCopy =>
              /\ app.pc = "get_copy" /\ app'.pc = "get_arm"
              /\ app'.got = Append(app.got, Copied) /\ app'.sent = app.sent
              /\ UNCHANGED <<dev, tog, env, cdc, host>>
         /\ GetArm =>
              /\ app.pc = "get_arm" /\ app'.pc = "send"
              /\ app'.got = app.got /\ app'.sent = app.sent
              /\ dev'.tx = dev.tx /\ dev'.conf = dev.conf
              /\ dev'.rx.sts = "valid" /\ dev'.rx.room = 0 /\ dev'.rx.len = 0
              /\ dev'.rx.buf = <<>> /\ dev'.rx.tog = dev.rx.tog /\ dev'.rx.tc = dev.rx.tc
              /\ dev'.rx.pkt = dev.rx.pkt
              /\ UNCHANGED <<tog, env, cdc, host>>
<1> app \in AppType /\ cdc \in CdcType /\ dev \in DevType /\ dev.rx \in RxType
  BY DevFields DEF TypeInv
<1>1. GetTest => app'.pc = IF cdc.g_rx_completed = 0 THEN "send" ELSE "get_clear"
  BY DEF GetTest, Go, At, AppType
<1>2. ASSUME GetArm PROVE dev' = [dev EXCEPT !.rx = [dev.rx EXCEPT !.sts = "valid", !.room = 0, !.len = 0, !.buf = <<>>]]
  BY <1>2, RecvFacts DEF GetArm
<1>3. ASSUME GetArm
      PROVE  /\ dev'.rx = [dev.rx EXCEPT !.sts = "valid", !.room = 0, !.len = 0, !.buf = <<>>]
             /\ dev'.tx = dev.tx /\ dev'.conf = dev.conf
  BY <1>2, <1>3 DEF DevType
<1>4. ASSUME GetArm
      PROVE  /\ dev'.rx.sts = "valid" /\ dev'.rx.room = 0 /\ dev'.rx.len = 0
             /\ dev'.rx.buf = <<>> /\ dev'.rx.tog = dev.rx.tog /\ dev'.rx.tc = dev.rx.tc
             /\ dev'.rx.pkt = dev.rx.pkt
  BY <1>3, <1>4 DEF RxType
<1> QED
  BY <1>1, <1>3, <1>4 DEF GetTest, GetClear, GetCopy, GetArm, Go, At, AppType, CdcType

LEMMA SendEffects ==
  ASSUME TypeInv
  PROVE  /\ SendTest =>
              /\ app.pc = "send"
              /\ app'.pc = IF Pending /\ cdc.g_tx_completed = 1 THEN "send_clear" ELSE "get"
              /\ app'.got = app.got /\ app'.sent = app.sent
              /\ UNCHANGED <<dev, tog, env, cdc, host>>
         /\ SendClear =>
              /\ app.pc = "send_clear" /\ app'.pc = "send_write"
              /\ cdc'.g_tx_completed = 0
              /\ cdc'.g_rx_completed = cdc.g_rx_completed /\ cdc'.g_rxlen = cdc.g_rxlen
              /\ app'.got = app.got /\ app'.sent = app.sent
              /\ UNCHANGED <<dev, tog, env, host>>
         /\ SendWrite =>
              /\ app.pc = "send_write" /\ app'.pc = "send_valid"
              /\ app'.got = app.got /\ app'.sent = app.sent
              /\ dev'.rx = dev.rx /\ dev'.conf = dev.conf
              /\ dev'.tx.sts = dev.tx.sts /\ dev'.tx.tc = dev.tx.tc /\ dev'.tx.tog = dev.tx.tog
              /\ dev'.tx.pkt = First(Message(app.sent + 1))
              /\ dev'.tx.rest = Rest(Message(app.sent + 1))
              /\ UNCHANGED <<tog, env, cdc, host>>
         /\ SendValid =>
              /\ app.pc = "send_valid" /\ app'.pc = "get"
              /\ app'.got = app.got /\ app'.sent = app.sent + 1
              /\ dev'.rx = dev.rx /\ dev'.conf = dev.conf
              /\ dev'.tx.sts = "valid" /\ dev'.tx.tc = dev.tx.tc /\ dev'.tx.tog = dev.tx.tog
              /\ dev'.tx.pkt = dev.tx.pkt /\ dev'.tx.rest = dev.tx.rest
              /\ UNCHANGED <<tog, env, cdc, host>>
<1> app \in AppType /\ cdc \in CdcType /\ dev \in DevType /\ dev.tx \in TxType
  BY DevFields DEF TypeInv
<1> DEFINE m == Message(app.sent + 1)
<1>1. SendTest => app'.pc = IF Pending /\ cdc.g_tx_completed = 1 THEN "send_clear" ELSE "get"
  BY DEF SendTest, Go, At, AppType
<1>2. ASSUME SendWrite
      PROVE  /\ dev'.tx = [dev.tx EXCEPT !.pkt = First(m), !.rest = Rest(m)]
             /\ dev'.rx = dev.rx /\ dev'.conf = dev.conf
  <2>1. usbd_ept_send(dev.tx, m).pkt = First(m) /\ usbd_ept_send(dev.tx, m).rest = Rest(m)
    BY DEF usbd_ept_send, TxType
  <2>2. dev' = [dev EXCEPT !.tx = [dev.tx EXCEPT !.pkt = First(m), !.rest = Rest(m)]]
    BY <1>2, <2>1 DEF SendWrite
  <2> QED
    BY <2>2 DEF DevType
<1>3. ASSUME SendWrite
      PROVE  /\ dev'.tx.sts = dev.tx.sts /\ dev'.tx.tc = dev.tx.tc /\ dev'.tx.tog = dev.tx.tog
             /\ dev'.tx.pkt = First(m) /\ dev'.tx.rest = Rest(m)
  BY <1>2, <1>3 DEF TxType
<1>4. ASSUME SendValid
      PROVE  /\ dev'.tx = [dev.tx EXCEPT !.sts = "valid"]
             /\ dev'.rx = dev.rx /\ dev'.conf = dev.conf
  BY <1>4 DEF SendValid, DevType
<1>5. ASSUME SendValid
      PROVE  /\ dev'.tx.sts = "valid" /\ dev'.tx.tc = dev.tx.tc /\ dev'.tx.tog = dev.tx.tog
             /\ dev'.tx.pkt = dev.tx.pkt /\ dev'.tx.rest = dev.tx.rest
  BY <1>4, <1>5 DEF TxType
<1> HIDE DEF m
<1> QED
  BY <1>1, <1>2, <1>3, <1>4, <1>5 DEF SendTest, SendClear, SendWrite, SendValid, Go, At, AppType, CdcType, m

LEMMA InEffects ==
  ASSUME TypeInv, InComplete, UNCHANGED <<tog, env, app, host>>
  PROVE  /\ dev.tx.tc /\ ~dev'.tx.tc /\ dev'.tx.tog = dev.tx.tog
         /\ dev'.rx = dev.rx /\ dev'.conf = dev.conf
         /\ dev.tx.rest = <<>> =>
              dev'.tx.sts = dev.tx.sts /\ dev'.tx.pkt = dev.tx.pkt /\ dev'.tx.rest = <<>>
         /\ dev.tx.rest # <<>> =>
              /\ dev'.tx.sts = "valid"
              /\ dev'.tx.pkt = First(dev.tx.rest) /\ dev'.tx.rest = Rest(dev.tx.rest)
         /\ cdc'.g_rx_completed = cdc.g_rx_completed /\ cdc'.g_rxlen = cdc.g_rxlen
         /\ cdc'.g_tx_completed = IF dev.tx.rest = <<>> /\ dev.conf THEN 1 ELSE cdc.g_tx_completed
<1> cdc \in CdcType /\ dev \in DevType /\ dev.tx \in TxType
  BY DevFields DEF TypeInv
<1> DEFINE s == TxServed(dev.tx)
<1>1. /\ s.tc = FALSE /\ s.sts = dev.tx.sts /\ s.tog = dev.tx.tog
      /\ s.pkt = dev.tx.pkt /\ s.rest = dev.tx.rest /\ s \in TxType
  BY TxTypes DEF TxServed, TxType
<1>2. /\ dev'.rx = dev.rx /\ dev'.conf = dev.conf
      /\ dev'.tx = IF dev.tx.rest = <<>> THEN s ELSE usbd_ept_send(s, dev.tx.rest)
  BY DEF InComplete, TxComplete, DevType
<1> HIDE DEF s
<1>3. ASSUME dev.tx.rest # <<>>
      PROVE  /\ dev'.tx.sts = "valid" /\ dev'.tx.tc = s.tc /\ dev'.tx.tog = s.tog
             /\ dev'.tx.pkt = First(dev.tx.rest) /\ dev'.tx.rest = Rest(dev.tx.rest)
  BY <1>1, <1>2, <1>3 DEF usbd_ept_send, TxType
<1>4. /\ cdc'.g_rx_completed = cdc.g_rx_completed /\ cdc'.g_rxlen = cdc.g_rxlen
      /\ cdc'.g_tx_completed = IF dev.tx.rest = <<>> /\ dev.conf THEN 1 ELSE cdc.g_tx_completed
  BY DEF InComplete, TxComplete, class_in_handler, CdcType
<1> QED
  BY <1>1, <1>2, <1>3, <1>4 DEF InComplete

LEMMA OutEffects ==
  ASSUME TypeInv, OutComplete, dev.rx.room = 0, UNCHANGED <<tog, env, app, host>>
  PROVE  /\ dev.rx.tc /\ ~dev'.rx.tc /\ dev'.rx.tog = dev.rx.tog /\ dev'.rx.sts = dev.rx.sts
         /\ dev'.tx = dev.tx /\ dev'.conf = dev.conf
         /\ dev'.rx.buf = dev.rx.buf \o dev.rx.pkt /\ dev'.rx.room = 0
         /\ dev'.rx.len = dev.rx.len + Len(dev.rx.pkt)
         /\ dev.conf => cdc'.g_rx_completed = 1 /\ cdc'.g_rxlen = dev'.rx.len
         /\ ~dev.conf => cdc' = cdc
         /\ cdc'.g_tx_completed = cdc.g_tx_completed
<1> cdc \in CdcType /\ dev \in DevType /\ dev.rx \in RxType
  BY DevFields DEF TypeInv
<1>1. /\ dev'.rx = RxServed(dev.rx) /\ dev'.tx = dev.tx /\ dev'.conf = dev.conf
  BY DEF OutComplete, RxComplete, DevType
<1>2. /\ ~dev'.rx.tc /\ dev'.rx.tog = dev.rx.tog /\ dev'.rx.sts = dev.rx.sts
      /\ dev'.rx.buf = dev.rx.buf \o dev.rx.pkt /\ dev'.rx.room = 0
      /\ dev'.rx.len = dev.rx.len + Len(dev.rx.pkt)
  BY <1>1 DEF RxServed, RxType
<1>3. /\ dev.conf => cdc'.g_rx_completed = 1 /\ cdc'.g_rxlen = dev'.rx.len
      /\ ~dev.conf => cdc' = cdc
      /\ cdc'.g_tx_completed = cdc.g_tx_completed
  BY DEF OutComplete, RxComplete, class_out_handler, CdcType
<1> QED
  BY <1>1, <1>2, <1>3 DEF OutComplete

LEMMA GiveEffects ==
  ASSUME TypeInv, NEW lost \in BOOLEAN, GivePacketOut(lost)
  PROVE  /\ dev.conf /\ host.given < Len(env.out) /\ (lost => host.lost < env.losses)
         /\ dev'.tx = dev.tx /\ dev'.conf = dev.conf
         /\ dev'.rx.buf = dev.rx.buf /\ dev'.rx.room = dev.rx.room /\ dev'.rx.len = dev.rx.len
         /\ tog.out # dev.rx.tog => dev' = dev
         /\ tog.out = dev.rx.tog =>
              /\ dev.rx.sts = "valid" /\ dev'.rx.sts = "nak" /\ dev'.rx.tc
              /\ dev'.rx.tog = 1 - dev.rx.tog /\ dev'.rx.pkt = OutPacket(host.given + 1)
         /\ tog'.in = tog.in /\ tog'.out = IF lost THEN tog.out ELSE 1 - tog.out
         /\ host'.given = IF lost THEN host.given ELSE host.given + 1
         /\ host'.lost = IF lost THEN host.lost + 1 ELSE host.lost
         /\ host'.taken = host.taken /\ host'.resets = host.resets
         /\ UNCHANGED <<env, cdc, app>>
<1> host \in HostType /\ dev \in DevType /\ dev.rx \in RxType /\ tog \in [{"in", "out"} -> {0, 1}]
  BY DevFields DEF TypeInv
<1>1. dev' = IF Had THEN dev ELSE [dev EXCEPT !.rx = Filled(dev.rx, OutPacket(host.given + 1))]
  BY DEF GivePacketOut, GivePacket
<1>2. ~Had => /\ dev'.rx = Filled(dev.rx, OutPacket(host.given + 1))
              /\ dev'.tx = dev.tx /\ dev'.conf = dev.conf
  BY <1>1 DEF DevType
<1>3. ~Had => /\ dev'.rx.sts = "nak" /\ dev'.rx.tc
              /\ dev'.rx.tog = 1 - dev.rx.tog /\ dev'.rx.pkt = OutPacket(host.given + 1)
              /\ dev'.rx.buf = dev.rx.buf /\ dev'.rx.room = dev.rx.room
              /\ dev'.rx.len = dev.rx.len
  BY <1>2 DEF Filled, RxType
<1>4. /\ host'.given = IF lost THEN host.given ELSE host.given + 1
      /\ host'.lost = IF lost THEN host.lost + 1 ELSE host.lost
      /\ host'.taken = host.taken /\ host'.resets = host.resets
  BY DEF GivePacketOut, HostType, Lose
<1>5. tog'.in = tog.in /\ tog'.out = IF lost THEN tog.out ELSE 1 - tog.out
  BY DEF GivePacketOut, GivePacket
<1> QED
  BY <1>1, <1>2, <1>3, <1>4, <1>5 DEF GivePacketOut, GivePacket, Had, Hears, MayLose

LEMMA TakeEffects ==
  ASSUME TypeInv, NEW lost \in BOOLEAN, TakePacketIn(lost)
  PROVE  /\ dev.conf /\ (lost => host.lost < env.losses) /\ dev.tx.sts = "valid"
         /\ dev'.rx = dev.rx /\ dev'.conf = dev.conf
         /\ lost => dev' = dev
         /\ ~lost => /\ dev'.tx.sts = "nak" /\ dev'.tx.tc /\ dev'.tx.tog = 1 - dev.tx.tog
                     /\ dev'.tx.pkt = dev.tx.pkt /\ dev'.tx.rest = dev.tx.rest
         /\ tog'.out = tog.out
         /\ tog'.in = IF tog.in = dev.tx.tog THEN 1 - tog.in ELSE tog.in
         /\ host'.taken = IF tog.in = dev.tx.tog THEN Append(host.taken, dev.tx.pkt)
                          ELSE host.taken
         /\ host'.lost = IF lost THEN host.lost + 1 ELSE host.lost
         /\ host'.given = host.given /\ host'.resets = host.resets
         /\ UNCHANGED <<env, cdc, app>>
<1> host \in HostType /\ dev \in DevType /\ dev.tx \in TxType /\ tog \in [{"in", "out"} -> {0, 1}]
  BY DevFields DEF TypeInv
<1>1. dev' = IF lost THEN dev ELSE [dev EXCEPT !.tx = Taken(dev.tx)]
  BY DEF TakePacketIn, TakePacket
<1>2. ~lost => dev'.tx = Taken(dev.tx) /\ dev'.rx = dev.rx /\ dev'.conf = dev.conf
  BY <1>1 DEF DevType
<1>3. ~lost => /\ dev'.tx.sts = "nak" /\ dev'.tx.tc /\ dev'.tx.tog = 1 - dev.tx.tog
               /\ dev'.tx.pkt = dev.tx.pkt /\ dev'.tx.rest = dev.tx.rest
  BY <1>2 DEF Taken, TxType
<1>4. dev.tx.sts = "valid"
  BY DEF TakePacketIn, TakePacket
<1>5. /\ host'.taken = IF tog.in = dev.tx.tog THEN Append(host.taken, dev.tx.pkt)
                       ELSE host.taken
      /\ host'.lost = IF lost THEN host.lost + 1 ELSE host.lost
      /\ host'.given = host.given /\ host'.resets = host.resets
  BY <1>4 DEF TakePacketIn, Takes, HostType, Lose
<1>6. tog'.out = tog.out /\ tog'.in = IF tog.in = dev.tx.tog THEN 1 - tog.in ELSE tog.in
  BY <1>4 DEF TakePacketIn, TakePacket, Takes
<1> QED
  BY <1>1, <1>2, <1>3, <1>4, <1>5, <1>6 DEF TakePacketIn, MayLose

LEMMA ResetEffects ==
  ASSUME TypeInv
  PROVE  /\ PortReset =>
              /\ dev.conf /\ app.pc \in {"get", "send"} /\ host.resets < env.resets
              /\ ~dev'.conf /\ ~dev'.tx.tc /\ ~dev'.rx.tc
              /\ dev'.tx.sts = "disable" /\ dev'.rx.sts = "disable"
              /\ dev'.tx.tog = 0 /\ dev'.rx.tog = 0 /\ tog'.in = 0 /\ tog'.out = 0
              /\ dev'.rx.buf = dev.rx.buf /\ dev'.rx.room = dev.rx.room
              /\ dev'.rx.pkt = dev.rx.pkt
              /\ dev'.tx.pkt = dev.tx.pkt /\ dev'.tx.rest = dev.tx.rest
              /\ host'.resets = host.resets + 1 /\ host'.lost = host.lost
              /\ host'.given = IF tog.out # dev.rx.tog THEN host.given + 1 ELSE host.given
              /\ host'.taken = Append(host.taken, <<>>)
              /\ UNCHANGED <<env, cdc, app>>
         /\ Configure =>
              /\ ~dev.conf /\ app.pc \in {"get", "send"}
              /\ dev'.conf /\ dev'.tx.tc = dev.tx.tc /\ dev'.rx.tc = dev.rx.tc
              /\ dev'.tx.sts = "nak" /\ dev'.rx.sts = "valid"
              /\ dev'.tx.tog = 0 /\ dev'.rx.tog = 0
              /\ dev'.rx.buf = <<>> /\ dev'.rx.room = 0 /\ dev'.rx.len = 0
              /\ dev'.rx.pkt = dev.rx.pkt
              /\ dev'.tx.pkt = dev.tx.pkt /\ dev'.tx.rest = dev.tx.rest
              /\ cdc'.g_tx_completed = 1 /\ cdc'.g_rx_completed = 0
              /\ cdc'.g_rxlen = cdc.g_rxlen
              /\ UNCHANGED <<tog, env, app, host>>
<1> /\ host \in HostType /\ cdc \in CdcType /\ app \in AppType
    /\ dev \in DevType /\ dev.rx \in RxType /\ dev.tx \in TxType
    /\ tog \in [{"in", "out"} -> {0, 1}]
  BY DevFields DEF TypeInv
<1>1. ASSUME PortReset
      PROVE  /\ dev'.tx = SwitchedOff(dev.tx) /\ dev'.rx = SwitchedOff(dev.rx) /\ ~dev'.conf
  BY <1>1 DEF PortReset, DevType
<1>2. ASSUME PortReset
      PROVE  /\ ~dev'.tx.tc /\ dev'.tx.sts = "disable" /\ dev'.tx.tog = 0
             /\ dev'.tx.pkt = dev.tx.pkt /\ dev'.tx.rest = dev.tx.rest
  BY <1>1, <1>2 DEF SwitchedOff, TxType
<1>3. ASSUME PortReset
      PROVE  /\ ~dev'.rx.tc /\ dev'.rx.sts = "disable" /\ dev'.rx.tog = 0
             /\ dev'.rx.buf = dev.rx.buf /\ dev'.rx.room = dev.rx.room
             /\ dev'.rx.pkt = dev.rx.pkt
  BY <1>1, <1>3 DEF SwitchedOff, RxType
<1>4. ASSUME PortReset
      PROVE  /\ host'.resets = host.resets + 1 /\ host'.lost = host.lost
             /\ host'.given = IF tog.out # dev.rx.tog THEN host.given + 1 ELSE host.given
             /\ host'.taken = Append(host.taken, <<>>)
             /\ tog'.in = 0 /\ tog'.out = 0
  BY <1>4 DEF PortReset, HostType, Had
<1>5. InCall <=> app.pc \notin {"get", "send"}
  BY DEF InCall, Pcs, AppType
<1>6. ASSUME Configure
      PROVE  /\ dev'.tx = OpenTx(dev.tx) /\ dev'.conf
             /\ dev'.rx = [OpenRx(dev.rx) EXCEPT !.sts = "valid", !.room = 0, !.len = 0, !.buf = <<>>]
  <2>1. OpenRx(dev.rx) \in RxType
    BY RxTypes
  <2>2. /\ dev'.tx = OpenTx(dev.tx) /\ dev'.conf
        /\ dev'.rx = usbd_ept_recv(OpenRx(dev.rx), MaxPacket)
    BY <1>6 DEF Configure, class_init_handler, DevType
  <2> QED
    BY <2>1, <2>2, RecvFacts
<1>7. ASSUME Configure
      PROVE  /\ dev'.tx.tc = dev.tx.tc /\ dev'.tx.sts = "nak" /\ dev'.tx.tog = 0
             /\ dev'.tx.pkt = dev.tx.pkt /\ dev'.tx.rest = dev.tx.rest
  BY <1>6, <1>7, ZenonT(40) DEF OpenTx, TxType
<1>8. ASSUME Configure
      PROVE  /\ dev'.rx.sts = "valid" /\ dev'.rx.room = 0 /\ dev'.rx.len = 0
             /\ dev'.rx.buf = <<>> /\ dev'.rx.tog = 0 /\ dev'.rx.tc = dev.rx.tc
             /\ dev'.rx.pkt = dev.rx.pkt
  BY <1>6, <1>8 DEF OpenRx, RxType
<1>9. ASSUME Configure
      PROVE  /\ cdc'.g_tx_completed = 1 /\ cdc'.g_rx_completed = 0
             /\ cdc'.g_rxlen = cdc.g_rxlen
  BY <1>9 DEF Configure, class_init_handler, CdcType
<1> QED
  BY <1>1, <1>2, <1>3, <1>4, <1>5, <1>6, <1>7, <1>8, <1>9 DEF PortReset, Configure

-----------------------------------------------------------------------------
(* The parts of the invariant, one action at a time.                       *)

(* The types of the fields that the parts compare.                         *)
LEMMA Fields ==
  ASSUME TypeInv
  PROVE  /\ host.given \in Nat /\ host.lost \in Nat /\ host.resets \in Nat
         /\ host.taken \in Seq(Packet)
         /\ app.pc \in Pcs /\ app.got \in Seq(Packet) /\ app.sent \in Nat
         /\ cdc.g_tx_completed \in {0, 1} /\ cdc.g_rx_completed \in {0, 1}
         /\ cdc.g_rxlen \in Nat
         /\ tog.in \in {0, 1} /\ tog.out \in {0, 1}
         /\ dev.tx.tog \in {0, 1} /\ dev.rx.tog \in {0, 1}
         /\ dev.rx.tc \in BOOLEAN /\ dev.tx.tc \in BOOLEAN /\ dev.conf \in BOOLEAN
         /\ env \in Environments
<1> dev.rx \in RxType /\ dev.tx \in TxType /\ dev.conf \in BOOLEAN
  BY DevFields DEF TypeInv
<1>1. dev.tx.tog \in {0, 1} /\ dev.tx.tc \in BOOLEAN
  BY DEF TxType
<1>2. dev.rx.tog \in {0, 1} /\ dev.rx.tc \in BOOLEAN
  BY DEF RxType
<1>3. host.given \in Nat /\ host.lost \in Nat /\ host.resets \in Nat /\ host.taken \in Seq(Packet)
  BY DEF TypeInv, HostType
<1>4. app.pc \in Pcs /\ app.got \in Seq(Packet) /\ app.sent \in Nat
  BY DEF TypeInv, AppType
<1>5. cdc.g_tx_completed \in {0, 1} /\ cdc.g_rx_completed \in {0, 1} /\ cdc.g_rxlen \in Nat
  BY DEF TypeInv, CdcType
<1> QED
  BY <1>1, <1>2, <1>3, <1>4, <1>5 DEF TypeInv

LEMMA ReceivedType ==
  ASSUME TypeInv, RxInv
  PROVE  /\ Received \in Nat /\ Len(env.out) \in Nat /\ Received <= Len(env.out)
         /\ Received >= 1 => Received \in 1 .. Len(env.out)
<1>1. env \in Environments /\ host.given \in Nat
  BY Fields
<1>2. Received \in Nat
  BY <1>1 DEF Received
<1>3. Len(env.out) \in Nat
  BY <1>1, EnvFacts
<1> QED
  BY <1>2, <1>3 DEF RxInv

(* The main thread has the IN endpoint from the completion of a message on *)
(* until it has made the next one valid.                                   *)
LEMMA TxStep ==
  ASSUME TypeInv, UnconfiguredInv, RxInv, TxInv, Next
  PROVE  TxInv'
<1> USE Fields
<1> USE DEF TxInv, OnItsWay, At
<1>1. CASE GetTest \/ GetClear \/ GetCopy \/ GetArm
  BY <1>1, GetEffects
<1>2. CASE SendTest \/ SendClear \/ SendWrite \/ SendValid
  BY <1>2, SendEffects DEF UnconfiguredInv
<1>3. CASE InComplete /\ UNCHANGED <<tog, env, app, host>>
  BY <1>3, InEffects DEF UnconfiguredInv
<1>4. CASE OutComplete /\ UNCHANGED <<tog, env, app, host>>
  BY <1>4, OutEffects DEF RxInv
<1>5. ASSUME NEW lost \in BOOLEAN, GivePacketOut(lost) PROVE TxInv'
  BY <1>5, GiveEffects
<1>6. ASSUME NEW lost \in BOOLEAN, TakePacketIn(lost) PROVE TxInv'
  BY <1>6, TakeEffects
<1>7. CASE PortReset
  BY <1>7, ResetEffects
<1>8. CASE Configure
  BY <1>8, ResetEffects DEF UnconfiguredInv
<1> QED
  BY <1>1, <1>2, <1>3, <1>4, <1>5, <1>6, <1>7, <1>8
     DEF Next, Main, EptInterrupt, Wire

LEMMA UnconfiguredStep ==
  ASSUME TypeInv, UnconfiguredInv, RxInv, Next
  PROVE  UnconfiguredInv'
<1> USE Fields
<1> USE DEF UnconfiguredInv
<1>1. CASE GetTest \/ GetClear \/ GetCopy \/ GetArm
  BY <1>1, GetEffects
<1>2. CASE SendTest \/ SendClear \/ SendWrite \/ SendValid
  BY <1>2, SendEffects
<1>3. CASE InComplete /\ UNCHANGED <<tog, env, app, host>>
  BY <1>3, InEffects
<1>4. CASE OutComplete /\ UNCHANGED <<tog, env, app, host>>
  BY <1>4, OutEffects DEF RxInv
<1>5. ASSUME NEW lost \in BOOLEAN, GivePacketOut(lost) PROVE UnconfiguredInv'
  BY <1>5, GiveEffects
<1>6. ASSUME NEW lost \in BOOLEAN, TakePacketIn(lost) PROVE UnconfiguredInv'
  BY <1>6, TakeEffects
<1>7. CASE PortReset
  BY <1>7, ResetEffects
<1>8. CASE Configure
  BY <1>8, ResetEffects
<1> QED
  BY <1>1, <1>2, <1>3, <1>4, <1>5, <1>6, <1>7, <1>8
     DEF Next, Main, EptInterrupt, Wire

LEMMA BoundsStep ==
  ASSUME TypeInv, UnconfiguredInv, RxInv, BoundsInv, Next
  PROVE  BoundsInv'
<1> USE Fields
<1>0. /\ env \in Environments
      /\ Len(env.msgs) \in Nat /\ env.losses \in Nat /\ env.resets \in Nat
  BY EnvFacts
<1> USE <1>0 DEF BoundsInv, Pending
<1>1. CASE GetTest \/ GetClear \/ GetCopy \/ GetArm
  BY <1>1, GetEffects
<1>2. CASE SendTest
  BY <1>2, SendEffects
<1>3. CASE SendClear \/ SendWrite
  BY <1>3, SendEffects
<1>4. CASE SendValid
  <2>1. /\ app.pc = "send_valid" /\ app'.pc = "get" /\ app'.sent = app.sent + 1
        /\ UNCHANGED <<env, cdc, host>>
    BY <1>4, SendEffects
  <2> QED
    BY <2>1
<1>5. CASE InComplete /\ UNCHANGED <<tog, env, app, host>>
  BY <1>5, InEffects
<1>6. CASE OutComplete /\ UNCHANGED <<tog, env, app, host>>
  <2>1. /\ dev.rx.room = 0 /\ dev.rx.tc /\ dev.rx.len = 0
        /\ Received \in 1 .. Len(env.out) /\ dev.rx.pkt = OutPacket(Received)
    BY <1>6, ReceivedType DEF OutComplete, RxInv
  <2>2. Len(dev.rx.pkt) \in 1 .. MaxPacket
    BY <2>1, OutPacketType
  <2>3. /\ dev.conf => cdc'.g_rxlen = dev.rx.len + Len(dev.rx.pkt)
        /\ ~dev.conf => cdc' = cdc
    BY <1>6, <2>1, OutEffects
  <2> QED
    BY <1>6, <2>1, <2>2, <2>3, MaxPacketAssumption
<1>7. ASSUME NEW lost \in BOOLEAN, GivePacketOut(lost) PROVE BoundsInv'
  <2>1. /\ lost => host.lost < env.losses
        /\ host'.lost = IF lost THEN host.lost + 1 ELSE host.lost
        /\ host'.resets = host.resets /\ UNCHANGED <<env, cdc, app>>
    BY <1>7, GiveEffects
  <2> QED
    BY <2>1
<1>8. ASSUME NEW lost \in BOOLEAN, TakePacketIn(lost) PROVE BoundsInv'
  <2>1. /\ lost => host.lost < env.losses
        /\ host'.lost = IF lost THEN host.lost + 1 ELSE host.lost
        /\ host'.resets = host.resets /\ UNCHANGED <<env, cdc, app>>
    BY <1>8, TakeEffects
  <2> QED
    BY <2>1
<1>9. CASE PortReset
  BY <1>9, ResetEffects
<1>10. CASE Configure
  BY <1>10, ResetEffects
<1> QED
  BY <1>1, <1>2, <1>3, <1>4, <1>5, <1>6, <1>7, <1>8, <1>9, <1>10
     DEF Next, Main, EptInterrupt, Wire

(* The device accepts the host's packets one after the other.              *)
Accepts ==
  /\ Received' = Received + 1 /\ Received' <= Len(env.out)
  /\ dev.rx.sts = "valid" /\ dev'.rx.sts = "nak" /\ dev'.rx.tc
  /\ dev'.rx.pkt = OutPacket(Received') /\ dev'.rx.buf = dev.rx.buf
  /\ dev'.rx.len = dev.rx.len /\ UNCHANGED <<env, cdc, app>>

LEMMA ReceivedSame ==
  ASSUME TypeInv, UnconfiguredInv, RxInv, Next,
         \A lost \in BOOLEAN : ~GivePacketOut(lost)
  PROVE  Received' = Received
<1> USE Fields
<1> USE DEF Received, Had
<1>1. CASE GetTest \/ GetClear \/ GetCopy \/ GetArm
  BY <1>1, GetEffects
<1>2. CASE SendTest \/ SendClear \/ SendWrite \/ SendValid
  BY <1>2, SendEffects
<1>3. CASE InComplete /\ UNCHANGED <<tog, env, app, host>>
  BY <1>3, InEffects
<1>4. CASE OutComplete /\ UNCHANGED <<tog, env, app, host>>
  BY <1>4, OutEffects DEF RxInv
<1>5. ASSUME NEW lost \in BOOLEAN, TakePacketIn(lost) PROVE Received' = Received
  BY <1>5, TakeEffects
<1>6. CASE PortReset
  BY <1>6, ResetEffects
<1>7. CASE Configure
  BY <1>7, ResetEffects DEF UnconfiguredInv
<1> HIDE DEF Received, Had
<1> QED
  BY <1>1, <1>2, <1>3, <1>4, <1>5, <1>6, <1>7
     DEF Next, Main, EptInterrupt, Wire

LEMMA ReceivedGive ==
  ASSUME TypeInv, RxInv, NEW lost \in BOOLEAN, GivePacketOut(lost)
  PROVE  (Received' = Received /\ dev' = dev /\ UNCHANGED <<env, cdc, app>>) \/ Accepts
<1> USE Fields, GiveEffects
<1>0. Len(env.out) \in Nat
  BY EnvFacts
<1>1. CASE Had
  BY <1>1 DEF Received, Had
<1>2. CASE ~Had
  <2>1. Received = host.given /\ tog.out = dev.rx.tog
    BY <1>2 DEF Received, Had
  <2>2. Received' = host.given + 1
    BY <2>1 DEF Received, Had
  <2> QED
    BY <1>0, <2>1, <2>2 DEF Accepts
<1> QED
  BY <1>1, <1>2

(* A packet keeps its number, and the host's plan does not change.         *)
LEMMA EnvStep ==
  ASSUME TypeInv, Next
  PROVE  env' = env
BY DEF Next, Main, GetTest, GetClear, GetCopy, GetArm, SendTest, SendClear, SendWrite,
       SendValid, EptInterrupt, Wire, GivePacketOut, TakePacketIn, PortReset, Configure

(* RxInv over the fields that it compares.                                 *)
RxParts(rx, flag, len, pc, n, pkt) ==
  /\ rx.room = 0
  /\ rx.sts = "valid" \/ rx.tc =>
       flag = 0 /\ pc \notin {"get_clear", "get_copy", "get_arm"}
       /\ rx.buf = <<>> /\ rx.len = 0
  /\ ~(rx.sts = "valid" /\ rx.tc)
  /\ rx.tc => n >= 1 /\ rx.pkt = pkt
  /\ flag = 1 \/ pc = "get_copy" => n >= 1 /\ rx.buf = pkt /\ len = env.out[n]
  /\ pc = "get_clear" => flag = 1
  /\ pc \in {"get_copy", "get_arm"} => flag = 0

LEMMA RxInvParts ==
  /\ RxInv <=>
       /\ Received <= Len(env.out)
       /\ RxParts(dev.rx, cdc.g_rx_completed, cdc.g_rxlen, app.pc, Received, OutPacket(Received))
  /\ env' = env =>
       (RxInv' <=>
          /\ Received' <= Len(env.out)
          /\ RxParts(dev'.rx, cdc'.g_rx_completed, cdc'.g_rxlen, app'.pc, Received',
                     OutPacket(Received')))
BY DEF RxInv, RxParts, InGet, At, OutPacket

LEMMA RxStep ==
  ASSUME TypeInv, UnconfiguredInv, RxInv, Next
  PROVE  RxInv'
<1> USE Fields, RxInvParts
<1> DEFINE n == Received
           pkt == OutPacket(n)
<1>0. env' = env /\ n \in Nat /\ Len(env.out) \in Nat /\ n <= Len(env.out)
  BY EnvStep, ReceivedType
<1>1. SUFFICES /\ Received' <= Len(env.out)
               /\ RxParts(dev'.rx, cdc'.g_rx_completed, cdc'.g_rxlen, app'.pc, Received',
                          OutPacket(Received'))
  BY <1>0
<1>2. RxParts(dev.rx, cdc.g_rx_completed, cdc.g_rxlen, app.pc, n, pkt)
  OBVIOUS
<1> HIDE RxInvParts DEF n, pkt
<1>3. ASSUME \A lost \in BOOLEAN : ~GivePacketOut(lost) PROVE Received' = n
  BY <1>3, ReceivedSame DEF n
<1>4. (\A lost \in BOOLEAN : ~GivePacketOut(lost)) => Received' = n /\ OutPacket(Received') = pkt
  BY <1>3 DEF n, pkt
<1> DEFINE P == RxParts(dev'.rx, cdc'.g_rx_completed, cdc'.g_rxlen, app'.pc, n, pkt)
<1>5. ASSUME GetTest PROVE P
  BY <1>2, <1>5, GetEffects DEF RxParts
<1>6. ASSUME GetClear PROVE P
  BY <1>2, <1>6, GetEffects DEF RxParts
<1>7. ASSUME GetCopy PROVE P
  BY <1>2, <1>7, GetEffects DEF RxParts
<1>8. ASSUME GetArm PROVE P
  BY <1>2, <1>8, GetEffects DEF RxParts
<1>9. ASSUME SendTest \/ SendClear \/ SendWrite \/ SendValid PROVE P
  BY <1>2, <1>9, SendEffects DEF RxParts
<1>10. ASSUME InComplete, UNCHANGED <<tog, env, app, host>> PROVE P
  BY <1>2, <1>10, InEffects DEF RxParts
<1>11. ASSUME OutComplete, UNCHANGED <<tog, env, app, host>> PROVE P
  <2>1. dev.rx.tc /\ dev.rx.room = 0 /\ dev.conf
    BY <1>2, <1>11 DEF RxParts, OutComplete, UnconfiguredInv
  <2>2. /\ dev.rx.pkt = pkt /\ n \in 1 .. Len(env.out) /\ dev.rx.sts # "valid"
        /\ dev.rx.buf = <<>> /\ dev.rx.len = 0 /\ cdc.g_rx_completed = 0
        /\ app.pc \notin {"get_clear", "get_copy", "get_arm"}
    BY <1>0, <1>2, <2>1 DEF RxParts
  <2>3. /\ ~dev'.rx.tc /\ dev'.rx.sts = dev.rx.sts
        /\ dev'.rx.buf = dev.rx.buf \o dev.rx.pkt /\ dev'.rx.room = 0
        /\ cdc'.g_rx_completed = 1 /\ cdc'.g_rxlen = dev.rx.len + Len(dev.rx.pkt)
    BY <1>11, <2>1, OutEffects
  <2>4. pkt \in Packet /\ Len(pkt) = env.out[n] /\ env.out[n] \in 1 .. MaxPacket
    BY <2>2, OutPacketType DEF pkt
  <2>5. <<>> \o pkt = pkt /\ 0 + Len(pkt) = env.out[n]
    BY <2>4, MaxPacketAssumption DEF Packet
  <2>6. dev'.rx.buf = pkt /\ cdc'.g_rxlen = env.out[n]
    BY <2>2, <2>3, <2>5
  <2> QED
    BY <1>0, <1>11, <2>2, <2>3, <2>6 DEF RxParts
<1>12. ASSUME NEW lost \in BOOLEAN, TakePacketIn(lost) PROVE P
  BY <1>2, <1>12, TakeEffects DEF RxParts
<1>13. ASSUME PortReset PROVE P
  BY <1>2, <1>13, ResetEffects DEF RxParts
<1>14. ASSUME Configure PROVE P
  BY <1>2, <1>14, ResetEffects DEF RxParts, UnconfiguredInv
<1>15. ASSUME NEW lost \in BOOLEAN, GivePacketOut(lost)
       PROVE  /\ Received' <= Len(env.out)
              /\ RxParts(dev'.rx, cdc'.g_rx_completed, cdc'.g_rxlen, app'.pc, Received',
                         OutPacket(Received'))
  <2>1. CASE Received' = n /\ dev' = dev /\ UNCHANGED <<env, cdc, app>>
    BY <1>0, <1>2, <2>1 DEF pkt
  <2>2. CASE Accepts
    <3>1. /\ Received' = n + 1 /\ Received' <= Len(env.out)
          /\ dev.rx.sts = "valid" /\ dev'.rx.sts = "nak" /\ dev'.rx.tc
          /\ dev'.rx.pkt = OutPacket(Received') /\ dev'.rx.buf = dev.rx.buf
          /\ dev'.rx.len = dev.rx.len /\ UNCHANGED <<env, cdc, app>>
      BY <1>0, <2>2 DEF Accepts, n
    <3>2. dev'.rx.room = dev.rx.room
      BY <1>15, GiveEffects
    <3> QED
      BY <1>0, <1>2, <3>1, <3>2 DEF RxParts
  <2> QED
    BY <1>15, <2>1, <2>2, ReceivedGive DEF n
<1>16. CASE \E lost \in BOOLEAN : GivePacketOut(lost)
  BY <1>15, <1>16
<1>17. CASE \A lost \in BOOLEAN : ~GivePacketOut(lost)
  <2>1. P
    BY <1>5, <1>6, <1>7, <1>8, <1>9, <1>10, <1>11, <1>12, <1>13, <1>14, <1>17
       DEF Next, Main, EptInterrupt, Wire
  <2> QED
    BY <1>0, <1>4, <1>17, <2>1
<1> QED
  BY <1>16, <1>17

-----------------------------------------------------------------------------
(* The packets got.                                                        *)

LEMMA GotInvNext ==
  ASSUME env' = env
  PROVE  GotInv' <=> GotParts(app'.got, host'.resets, Done')
BY DEF GotInv, GotParts, OutPacket

(* After a port reset, packets may be left out.                            *)
LEMMA GotLeftOut ==
  ASSUME NEW got, NEW r, NEW s, NEW k \in Int, NEW l \in Int,
         GotParts(got, r, k), k <= l, s # 0
  PROVE  GotParts(got, s, l)
<1>1. \A n \in 1 .. k : n \in 1 .. l
  OBVIOUS
<1>2. SUFFICES ASSUME NEW i \in 1 .. Len(got)
               PROVE  \E n \in 1 .. l :
                        /\ got[i] = OutPacket(n)
                        /\ \A h \in 1 .. i - 1 : \E m \in 1 .. n - 1 : got[h] = OutPacket(m)
  BY DEF GotParts
<1>3. PICK n \in 1 .. k :
        /\ got[i] = OutPacket(n)
        /\ \A h \in 1 .. i - 1 : \E m \in 1 .. n - 1 : got[h] = OutPacket(m)
  BY DEF GotParts
<1> QED
  BY <1>1, <1>3

(* The next packet is got.                                                 *)
LEMMA GotOneMore ==
  ASSUME NEW got \in Seq(Packet), NEW r, NEW k \in Nat, OutPacket(k + 1) \in Packet,
         GotParts(got, r, k)
  PROVE  GotParts(Append(got, OutPacket(k + 1)), r, k + 1)
<1> DEFINE p == OutPacket(k + 1)
           more == Append(got, p)
<1>1. /\ Len(got) \in Nat /\ Len(more) = Len(got) + 1 /\ more[Len(got) + 1] = p
      /\ \A i \in 1 .. Len(got) : more[i] = got[i]
  OBVIOUS
<1> HIDE DEF more
<1>2. r = 0 => Len(more) = k + 1
  BY <1>1 DEF GotParts
<1>3. ASSUME NEW i \in 1 .. Len(more)
      PROVE  \E n \in 1 .. k + 1 :
               /\ more[i] = OutPacket(n)
               /\ r = 0 => n = i
               /\ \A h \in 1 .. i - 1 : \E m \in 1 .. n - 1 : more[h] = OutPacket(m)
  <2>1. CASE i \in 1 .. Len(got)
    <3>1. PICK n \in 1 .. k :
            /\ got[i] = OutPacket(n)
            /\ r = 0 => n = i
            /\ \A h \in 1 .. i - 1 : \E m \in 1 .. n - 1 : got[h] = OutPacket(m)
      BY <2>1 DEF GotParts
    <3>2. \A h \in 1 .. i - 1 : h \in 1 .. Len(got)
      BY <1>1, <2>1
    <3>3. \A h \in 1 .. i - 1 : \E m \in 1 .. n - 1 : more[h] = OutPacket(m)
      BY <1>1, <3>1, <3>2
    <3>4. more[i] = OutPacket(n) /\ n \in 1 .. k + 1
      BY <1>1, <2>1, <3>1
    <3> QED
      BY <3>1, <3>3, <3>4
  <2>2. CASE i = Len(got) + 1
    <3>1. r = 0 => k + 1 = i
      BY <2>2 DEF GotParts
    <3>2. ASSUME NEW h \in 1 .. i - 1 PROVE \E m \in 1 .. (k + 1) - 1 : more[h] = OutPacket(m)
      <4>1. h \in 1 .. Len(got)
        BY <1>1, <2>2
      <4>2. PICK m \in 1 .. k : got[h] = OutPacket(m)
        BY <4>1 DEF GotParts
      <4> QED
        BY <1>1, <4>1, <4>2
    <3>3. more[i] = OutPacket(k + 1) /\ k + 1 \in 1 .. k + 1
      BY <1>1, <2>2
    <3> QED
      BY <3>1, <3>2, <3>3
  <2> QED
    BY <1>1, <2>1, <2>2
<1> QED
  BY <1>2, <1>3 DEF GotParts, more

(* What usb_vcp_get_rxdata copies is the packet held.                      *)
LEMMA CopiedIsPacket ==
  ASSUME TypeInv, RxInv, At("get_copy")
  PROVE  Copied = OutPacket(Received) /\ Received \in 1 .. Len(env.out)
<1>1. /\ Received >= 1 /\ dev.rx.buf = OutPacket(Received)
      /\ cdc.g_rxlen = env.out[Received]
  BY DEF RxInv
<1>2. Received \in 1 .. Len(env.out) /\ env \in Environments
  BY <1>1, ReceivedType, Fields
<1>3. Len(OutPacket(Received)) = env.out[Received] /\ env.out[Received] \in 1 .. MaxPacket
  BY <1>2, OutPacketType
<1>4. \A k \in 1 .. env.out[Received] : k <= Len(OutPacket(Received))
  BY <1>3, MaxPacketAssumption
<1>5. Copied = [k \in 1 .. env.out[Received] |-> OutPacket(Received)[k]]
  BY <1>1, <1>4 DEF Copied
<1>6. OutPacket(Received) = [k \in 1 .. env.out[Received] |-> OutPacket(Received)[k]]
  BY DEF OutPacket
<1> QED
  BY <1>2, <1>5, <1>6

(* Which packet is the main thread's changes when it copies, when a port   *)
(* reset takes one away, and at no other step.                             *)
LEMMA GotStep ==
  ASSUME TypeInv, UnconfiguredInv, RxInv, GotInv, Next
  PROVE  GotInv'
<1> USE Fields
<1>0. env' = env /\ Received \in Nat /\ Done \in Int
  BY EnvStep, ReceivedType DEF Done
<1>1. GotParts(app.got, host.resets, Done)
  BY DEF GotInv
<1>2. SUFFICES GotParts(app'.got, host'.resets, Done')
  BY <1>0, GotInvNext
<1>3. ASSUME app'.got = app.got, host'.resets = host.resets, Done' = Done
      PROVE  GotParts(app'.got, host'.resets, Done')
  BY <1>1, <1>3
<1>4. ASSUME app'.got = app.got, Received' = Received, Held' => Held, host'.resets # 0
      PROVE  GotParts(app'.got, host'.resets, Done')
  <2>1. Done' \in Int /\ Done <= Done'
    BY <1>0, <1>4 DEF Done
  <2> QED
    BY <1>0, <1>1, <1>4, <2>1, GotLeftOut
<1>5. (\A lost \in BOOLEAN : ~GivePacketOut(lost)) => Received' = Received
  BY ReceivedSame
<1>6. ASSUME Received' = Received, Held' <=> Held PROVE Done' = Done
  BY <1>6 DEF Done
<1> USE DEF Held, At
<1>7. ASSUME GetTest \/ GetClear \/ GetArm
      PROVE  app'.got = app.got /\ host'.resets = host.resets /\ (Held' <=> Held)
  BY <1>7, GetEffects DEF RxInv
<1>8. ASSUME SendTest \/ SendClear \/ SendWrite \/ SendValid
      PROVE  app'.got = app.got /\ host'.resets = host.resets /\ (Held' <=> Held)
  BY <1>8, SendEffects
<1>9. ASSUME InComplete, UNCHANGED <<tog, env, app, host>>
      PROVE  app'.got = app.got /\ host'.resets = host.resets /\ (Held' <=> Held)
  BY <1>9, InEffects
<1>10. ASSUME OutComplete, UNCHANGED <<tog, env, app, host>>
       PROVE  app'.got = app.got /\ host'.resets = host.resets /\ (Held' <=> Held)
  BY <1>10, OutEffects DEF RxInv, UnconfiguredInv
<1>11. ASSUME NEW lost \in BOOLEAN, TakePacketIn(lost)
       PROVE  app'.got = app.got /\ host'.resets = host.resets /\ (Held' <=> Held)
  BY <1>11, TakeEffects
<1>12. ASSUME PortReset PROVE app'.got = app.got /\ (Held' => Held) /\ host'.resets # 0
  BY <1>12, ResetEffects
<1>13. ASSUME Configure PROVE app'.got = app.got /\ (Held' => Held) /\ host'.resets # 0
  BY <1>13, ResetEffects DEF UnconfiguredInv
<1>14. ASSUME GetCopy, Received' = Received PROVE GotParts(app'.got, host'.resets, Done')
  <2>1. /\ At("get_copy") /\ app'.pc = "get_arm" /\ app'.got = Append(app.got, Copied)
        /\ UNCHANGED <<dev, cdc, host>>
    BY <1>14, GetEffects
  <2>2. Copied = OutPacket(Received) /\ Received \in 1 .. Len(env.out)
    BY <2>1, CopiedIsPacket
  <2>3. Held /\ ~Held'
    BY <2>1 DEF RxInv, InGet
  <2>4. Done = Received - 1 /\ Done' = Done + 1 /\ Done \in Nat
    BY <1>0, <1>14, <2>2, <2>3 DEF Done
  <2>5. OutPacket(Done + 1) = OutPacket(Received) /\ OutPacket(Received) \in Packet
    BY <1>0, <2>2, <2>4, OutPacketType
  <2>6. GotParts(Append(app.got, OutPacket(Done + 1)), host.resets, Done + 1)
    BY <1>1, <2>4, <2>5, GotOneMore
  <2> QED
    BY <2>1, <2>2, <2>4, <2>5, <2>6
<1>15. ASSUME NEW lost \in BOOLEAN, GivePacketOut(lost)
       PROVE  app'.got = app.got /\ host'.resets = host.resets /\ Done' = Done
  <2>1. app' = app /\ host'.resets = host.resets
    BY <1>15, GiveEffects
  <2>2. CASE Received' = Received /\ dev' = dev /\ UNCHANGED <<env, cdc, app>>
    BY <2>1, <2>2 DEF Done
  <2>3. CASE Accepts
    <3>1. ~Held /\ Held' /\ Received' = Received + 1
      BY <2>3 DEF Accepts, RxInv, InGet
    <3> QED
      BY <1>0, <2>1, <3>1 DEF Done
  <2> QED
    BY <1>15, <2>1, <2>2, <2>3, ReceivedGive
<1> HIDE DEF Held, At
<1>16. CASE \E lost \in BOOLEAN : GivePacketOut(lost)
  BY <1>3, <1>15, <1>16
<1>17. CASE \A lost \in BOOLEAN : ~GivePacketOut(lost)
  <2>1. Received' = Received
    BY <1>5, <1>17
  <2>2. CASE GetTest \/ GetClear \/ GetArm
    BY <1>3, <1>6, <1>7, <2>1, <2>2
  <2>3. CASE GetCopy
    BY <1>14, <2>1, <2>3
  <2>4. CASE SendTest \/ SendClear \/ SendWrite \/ SendValid
    BY <1>3, <1>6, <1>8, <2>1, <2>4
  <2>5. CASE InComplete /\ UNCHANGED <<tog, env, app, host>>
    BY <1>3, <1>6, <1>9, <2>1, <2>5
  <2>6. CASE OutComplete /\ UNCHANGED <<tog, env, app, host>>
    BY <1>3, <1>6, <1>10, <2>1, <2>6
  <2>7. ASSUME NEW lost \in BOOLEAN, TakePacketIn(lost)
        PROVE  GotParts(app'.got, host'.resets, Done')
    BY <1>3, <1>6, <1>11, <2>1, <2>7
  <2>8. CASE PortReset
    BY <1>4, <1>12, <2>1, <2>8
  <2>9. CASE Configure
    BY <1>4, <1>13, <2>1, <2>9
  <2> QED
    BY <1>17, <2>2, <2>3, <2>4, <2>5, <2>6, <2>7, <2>8, <2>9
       DEF Next, Main, EptInterrupt, Wire
<1> QED
  BY <1>16, <1>17

-----------------------------------------------------------------------------
LEMMA TypeStep ==
  ASSUME TypeInv, BoundsInv, Next
  PROVE  TypeInv'
BY GetTypes, SendTypes, EptTypes, WireTypes, ResetTypes DEF Next, Main

LEMMA InitInv == Init => OwnerInv
<1> SUFFICES ASSUME Init PROVE OwnerInv
  OBVIOUS
<1> DEFINE tx0 == OpenTx(TxReset)
           rx1 == OpenRx(RxReset)
           rx0 == usbd_ept_recv(rx1, MaxPacket)
<1>1. TxReset \in TxType /\ RxReset \in RxType
  BY EmptySeq DEF TxReset, RxReset, TxType, RxType, Statuses, Packet
<1>2. tx0 \in TxType /\ rx1 \in RxType
  BY <1>1, TxTypes, RxTypes
<1>3. /\ rx0 \in RxType
      /\ rx0 = [rx1 EXCEPT !.sts = "valid", !.room = 0, !.len = 0, !.buf = <<>>]
  BY <1>2, RecvFacts
<1>4. tx0.sts = "nak" /\ tx0.tc = FALSE /\ tx0.tog = 0
  BY <1>1 DEF OpenTx, TxReset, TxType
<1>5. rx1.tc = FALSE /\ rx1.tog = 0
  BY <1>1 DEF OpenRx, RxReset, RxType
<1>6. /\ rx0.sts = "valid" /\ rx0.tc = FALSE /\ rx0.tog = 0 /\ rx0.room = 0
      /\ rx0.len = 0 /\ rx0.buf = <<>>
  BY <1>2, <1>3, <1>5 DEF RxType
<1> HIDE DEF tx0, rx0, rx1
<1>7. dev = [tx |-> tx0, rx |-> rx0, conf |-> TRUE]
  BY DEF Init, tx0, rx0, rx1
<1>8. /\ env \in Environments /\ dev \in DevType /\ tog \in [{"in", "out"} -> {0, 1}]
  BY <1>2, <1>3, <1>7, ToggleType DEF Init, DevType
<1>9. /\ cdc.g_tx_completed = 1 /\ cdc.g_rx_completed = 0 /\ cdc.g_rxlen = 0
      /\ cdc \in CdcType
  BY DEF Init, CdcType
<1>10. /\ app.pc = "get" /\ app.got = <<>> /\ app.sent = 0 /\ app \in AppType
  BY EmptySeq DEF Init, AppType, Pcs
<1>11. /\ host.given = 0 /\ host.lost = 0 /\ host.resets = 0 /\ host \in HostType
  BY EmptySeq DEF Init, HostType
<1>12. tog.in = 0 /\ tog.out = 0
  BY DEF Init
<1>13. /\ Len(env.out) \in Nat /\ Len(env.msgs) \in Nat
       /\ env.losses \in Nat /\ env.resets \in Nat /\ MaxPacket \in Nat
  BY <1>8, EnvFacts, MaxPacketAssumption
<1>14. TypeInv
  BY <1>8, <1>9, <1>10, <1>11 DEF TypeInv
<1>15. BoundsInv
  BY <1>9, <1>10, <1>11, <1>13 DEF BoundsInv
<1>16. dev.rx = rx0 /\ dev.tx = tx0 /\ dev.conf
  BY <1>7
<1>17. UnconfiguredInv /\ TxInv
  BY <1>4, <1>10, <1>16 DEF UnconfiguredInv, TxInv, OnItsWay, At
<1>18. Received = 0 /\ ~Held
  BY <1>6, <1>9, <1>10, <1>11, <1>12, <1>16 DEF Received, Had, Held, At
<1>19. RxInv
  BY <1>6, <1>9, <1>10, <1>13, <1>16, <1>18 DEF RxInv, InGet, At
<1>20. GotInv
  BY <1>10, <1>18 DEF GotInv, GotParts, Done
<1> QED
  BY <1>14, <1>15, <1>17, <1>19, <1>20 DEF OwnerInv

LEMMA NextInv == OwnerInv /\ [Next]_cdcVars => OwnerInv'
<1> SUFFICES ASSUME OwnerInv, [Next]_cdcVars PROVE OwnerInv'
  OBVIOUS
<1>1. CASE Next
  BY <1>1, TypeStep, BoundsStep, UnconfiguredStep, RxStep, GotStep, TxStep DEF OwnerInv
<1>2. CASE UNCHANGED cdcVars
  <2>1. UNCHANGED <<dev, tog, env, cdc, app, host>>
    BY <1>2 DEF cdcVars
  <2>2. TypeInv' /\ BoundsInv' /\ UnconfiguredInv'
    BY <2>1 DEF OwnerInv, TypeInv, BoundsInv, UnconfiguredInv, Pending
  <2>3. TxInv'
    BY <2>1 DEF OwnerInv, TxInv, OnItsWay, At
  <2>4. Received' = Received /\ Done' = Done
    BY <2>1 DEF Done, Held, Received, Had, At
  <2>5. RxInv'
    BY <2>1, <2>4, RxInvParts DEF OwnerInv
  <2>6. GotInv'
    BY <2>1, <2>4, GotInvNext DEF OwnerInv, GotInv
  <2> QED
    BY <2>2, <2>3, <2>5, <2>6 DEF OwnerInv
<1> QED
  BY <1>1, <1>2

(* Between any two steps of the main thread, the interrupts and the host,  *)
(* each endpoint has one owner, and a packet of the host's is in one       *)
(* place: the endpoint, behind the flag, or in usb_vcp_get_rxdata.         *)
THEOREM Owners == Spec => []OwnerInv
BY InitInv, NextInv, PTL DEF Spec

(* Every variable keeps its type, and every counter its bound.             *)
THEOREM TypeCorrect == Spec => []TypeOK
<1>1. OwnerInv => TypeOK
  <2> SUFFICES ASSUME OwnerInv PROVE TypeOK
    OBVIOUS
  <2> USE Fields DEF OwnerInv
  <2>1. /\ Len(env.out) \in Nat /\ Len(env.msgs) \in Nat /\ MaxPacket \in Nat
        /\ env.losses \in Nat /\ env.resets \in Nat
    BY EnvFacts, MaxPacketAssumption
  <2>2. host.given \in 0 .. Len(env.out)
    BY <2>1 DEF RxInv, Received
  <2>3. cdc \in [g_tx_completed : {0, 1}, g_rx_completed : {0, 1}, g_rxlen : 0 .. MaxPacket]
    <3>1. cdc.g_rxlen \in 0 .. MaxPacket
      BY <2>1 DEF BoundsInv
    <3> QED
      BY <3>1 DEF TypeInv, CdcType
  <2>4. app \in [pc : Pcs, got : Seq(Packet), sent : 0 .. Len(env.msgs)]
    <3>1. app.sent \in 0 .. Len(env.msgs)
      BY <2>1 DEF BoundsInv
    <3> QED
      BY <3>1 DEF TypeInv, AppType
  <2>5. host \in [given : 0 .. Len(env.out), taken : Seq(Packet),
                  lost : 0 .. env.losses, resets : 0 .. env.resets]
    <3>1. host.lost \in 0 .. env.losses /\ host.resets \in 0 .. env.resets
      BY <2>1 DEF BoundsInv
    <3> QED
      BY <2>2, <3>1 DEF TypeInv, HostType
  <2> QED
    BY <2>3, <2>4, <2>5 DEF TypeInv, TypeOK
<1> QED
  BY <1>1, Owners, PTL

(* The main thread gets the host's packets whole and in their order        *)
(* (class_out_handler, usb_vcp_get_rxdata), for every packet size, traffic *)
(* and number of lost handshakes and port resets.                          *)
THEOREM PacketsInOrder == Spec => []GetsInOrder
<1>1. OwnerInv => GetsInOrder
  <2> SUFFICES ASSUME OwnerInv PROVE GetsInOrder
    OBVIOUS
  <2>1. \A n \in 1 .. Done : n \in 1 .. Len(env.out)
    BY ReceivedType DEF OwnerInv, Done, RxInv
  <2> QED
    BY <2>1 DEF OwnerInv, GotInv, GotParts, GetsInOrder
<1> QED
  BY <1>1, Owners, PTL

(* usb_vcp_send_data writes no packet over one that is on its way          *)
(* (class_in_handler, g_tx_completed), for every length of the messages.   *)
THEOREM OneMessageAtATime == Spec => []OneMessage
<1>1. OwnerInv => OneMessage
  <2> SUFFICES ASSUME OwnerInv PROVE OneMessage
    OBVIOUS
  <2> QED
    BY DEF OwnerInv, TxInv, OneMessage, At, OnItsWay
<1> QED
  BY <1>1, Owners, PTL

(***************************************************************************)
(* Sending: the host takes messages whole and in order.                    *)
(***************************************************************************)
(* A piece, and the pieces that usbd_ept_send splits it into.              *)
LEMMA PieceType ==
  ASSUME NEW j \in Nat, NEW a \in Nat \ {0}, NEW b \in Nat, a <= b + 1
  PROVE  /\ Piece(j, a, b) \in Packet /\ Len(Piece(j, a, b)) = b - a + 1
         /\ \A k \in 1 .. b - a + 1 : Piece(j, a, b)[k] = <<"in", j, a + k - 1, "">>
<1> DEFINE n == b - a + 1
<1>1. n \in Nat /\ \A k \in 1 .. n : a + k - 1 \in Nat
  OBVIOUS
<1>2. \A k \in 1 .. n : <<"in", j, a + k - 1, "">> \in Unit
  BY <1>1 DEF Unit, Kinds, Words
<1>3. Piece(j, a, b) \in [1 .. n -> Unit]
  BY <1>2 DEF Piece
<1> HIDE DEF n
<1>4. Piece(j, a, b) \in Packet /\ Len(Piece(j, a, b)) = n
  BY <1>1, <1>3 DEF Packet
<1> QED
  BY <1>4 DEF n, Piece

LEMMA PieceFacts ==
  ASSUME NEW j \in Nat, NEW a \in Nat, NEW b \in Nat, 1 <= a, a <= b
  PROVE  /\ Piece(j, a, b) \in Packet /\ Piece(j, a, b) # <<>>
         /\ MessageOf(Piece(j, a, b)) = j
         /\ From(Piece(j, a, b)) = a /\ To(Piece(j, a, b)) = b
<1> DEFINE n == b - a + 1
           p == Piece(j, a, b)
<1>1. n \in Nat /\ n >= 1 /\ 1 \in 1 .. n /\ n \in 1 .. n
  OBVIOUS
<1>2. a + 1 - 1 = a /\ a + n - 1 = b
  OBVIOUS
<1>3. p = [k \in 1 .. n |-> <<"in", j, a + k - 1, "">>]
  BY DEF Piece
<1>4. Len(p) = n /\ p \in Packet
  <2>1. a <= b + 1 /\ a \in Nat \ {0}
    OBVIOUS
  <2> QED
    BY <2>1, PieceType
<1> HIDE DEF n, p
<1>5. p # <<>>
  BY <1>1, <1>4
<1>6. p[1] = <<"in", j, a, "">> /\ p[n] = <<"in", j, b, "">>
  BY <1>1, <1>2, <1>3
<1>7. p[1][2] = j /\ p[1][3] = a /\ p[n][3] = b
  <2>1. /\ <<"in", j, a, "">>[2] = j /\ <<"in", j, a, "">>[3] = a
        /\ <<"in", j, b, "">>[3] = b
    OBVIOUS
  <2> QED
    BY <1>6, <2>1, Zenon
<1>8. MessageOf(p) = j /\ From(p) = a /\ To(p) = b
  BY <1>4, <1>7, Zenon DEF MessageOf, From, To
<1> QED
  BY <1>4, <1>5, <1>8 DEF p

LEMMA EmptyPiece ==
  ASSUME NEW j \in Nat, NEW b \in Nat, NEW m \in Nat, b <= m
  PROVE  Piece(j, b + 1, m) = <<>> <=> b = m
<1> DEFINE c == b + 1
<1>1. c \in Nat \ {0} /\ c <= m + 1 /\ (m - c + 1 = 0 <=> b = m)
  OBVIOUS
<1> HIDE DEF c
<1>2. Piece(j, c, m) \in Seq(Unit) /\ Len(Piece(j, c, m)) = m - c + 1
  BY <1>1, PieceType DEF Packet
<1>3. Piece(j, c, m) = <<>> <=> Len(Piece(j, c, m)) = 0
  BY <1>2, EmptySeq
<1> QED
  BY <1>1, <1>2, <1>3 DEF c

LEMMA MessageIsPiece ==
  ASSUME NEW j \in Nat, env.msgs[j] \in Nat
  PROVE  Message(j) = Piece(j, 1, env.msgs[j])
<1>1. \A k \in 1 .. env.msgs[j] : 1 + k - 1 = k
  OBVIOUS
<1>2. env.msgs[j] - 1 + 1 = env.msgs[j]
  OBVIOUS
<1> QED
  BY <1>1, <1>2 DEF Message, Piece

LEMMA SplitPiece ==
  ASSUME NEW j \in Nat, NEW a \in Nat \ {0}, NEW m \in Nat, a <= m
  PROVE  \E b \in a .. m : /\ First(Piece(j, a, m)) = Piece(j, a, b)
                           /\ Rest(Piece(j, a, m)) = Piece(j, b + 1, m)
<1> DEFINE s == Piece(j, a, m)
           n == m - a + 1
           l == Least(MaxPacket, n)
           b == a + l - 1
<1>1. /\ MaxPacket \in Nat /\ MaxPacket >= 1 /\ n \in Nat /\ n >= 1
      /\ l \in 1 .. n /\ b \in a .. m /\ b \in Nat /\ b - a + 1 = l /\ m - (b + 1) + 1 = n - l
      /\ l = MaxPacket \/ (l = n /\ n < MaxPacket)
  BY MaxPacketAssumption DEF Least
<1>2. s \in Seq(Unit) /\ Len(s) = n /\ \A k \in 1 .. n : s[k] = <<"in", j, a + k - 1, "">>
  <2>1. a <= m + 1
    OBVIOUS
  <2> QED
    BY <2>1, PieceType DEF Packet
<1>3. First(s) = SubSeq(s, 1, l) /\ Rest(s) = SubSeq(s, MaxPacket + 1, n)
  BY <1>2 DEF First, Rest
<1>4. (b + 1) - 1 = a + l - 1 /\ a <= b + 1 /\ b + 1 <= m + 1 /\ b + 1 \in Nat \ {0}
  BY <1>1
<1>5. \A k \in 1 .. n : s[k] \in Unit
  BY <1>2, ElementOfSeq
<1> HIDE DEF s, n, l, b
<1>6. /\ Piece(j, a, b) \in Seq(Unit) /\ Len(Piece(j, a, b)) = l
      /\ \A k \in 1 .. l : Piece(j, a, b)[k] = <<"in", j, a + k - 1, "">>
  BY <1>1, <1>4, PieceType, ZenonT(40) DEF Packet
<1>7. /\ Piece(j, b + 1, m) \in Seq(Unit) /\ Len(Piece(j, b + 1, m)) = n - l
      /\ \A k \in 1 .. n - l : Piece(j, b + 1, m)[k] = <<"in", j, (b + 1) + k - 1, "">>
  <2> DEFINE c == b + 1
  <2>1. c \in Nat \ {0} /\ c <= m + 1 /\ m - c + 1 = n - l
    BY <1>1, <1>4
  <2> HIDE DEF c
  <2>2. /\ Piece(j, c, m) \in Seq(Unit) /\ Len(Piece(j, c, m)) = m - c + 1
        /\ \A k \in 1 .. m - c + 1 : Piece(j, c, m)[k] = <<"in", j, c + k - 1, "">>
    BY <2>1, PieceType DEF Packet
  <2> QED
    BY <2>1, <2>2 DEF c
<1>8. First(s) = Piece(j, a, b)
  <2>1. \A k \in 1 .. l : k \in 1 .. n /\ s[k] \in Unit /\ 1 + k - 1 = k
    BY <1>1, <1>5
  <2>2. /\ First(s) \in Seq(Unit) /\ Len(First(s)) = l
        /\ \A k \in 1 .. l : First(s)[k] = s[k]
    BY <1>1, <1>3, <2>1, SubSeqProperties
  <2> QED
    BY <1>2, <1>6, <2>1, <2>2, SeqEqual
<1>9. Rest(s) = Piece(j, b + 1, m)
  <2>1. CASE l = MaxPacket
    <3>1. \A i \in l + 1 .. n : s[i] \in Unit
      BY <1>1, <1>5
    <3>2. /\ Rest(s) \in Seq(Unit) /\ Len(Rest(s)) = n - l
          /\ \A k \in 1 .. n - l : Rest(s)[k] = s[l + 1 + k - 1]
      BY <1>1, <1>3, <2>1, <3>1, SubSeqProperties
    <3>3. ASSUME NEW k \in 1 .. n - l
          PROVE  Rest(s)[k] = Piece(j, b + 1, m)[k]
      <4>1. l + 1 + k - 1 \in 1 .. n /\ a + (l + 1 + k - 1) - 1 = (b + 1) + k - 1
        BY <1>1, <1>4
      <4> QED
        BY <1>2, <1>7, <3>2, <4>1
    <3> QED
      BY <1>7, <3>2, <3>3, SeqEqual
  <2>2. CASE l = n /\ n < MaxPacket
    <3>1. Rest(s) = <<>>
      BY <1>1, <1>3, <2>2, SubSeqEmpty
    <3>2. Piece(j, b + 1, m) = <<>>
      BY <1>1, <1>7, <2>2
    <3> QED
      BY <3>1, <3>2
  <2> QED
    BY <1>1, <2>1, <2>2
<1> QED
  BY <1>1, <1>8, <1>9 DEF s

-----------------------------------------------------------------------------
(* What the host has taken.                                                *)

LEMMA LastOfAppend ==
  ASSUME NEW taken \in Seq(Packet), NEW p \in Packet
  PROVE  /\ LastOf(Append(taken, p)) = p
         /\ Len(Append(taken, p)) = Len(taken) + 1
         /\ \A i \in 1 .. Len(taken) : Append(taken, p)[i] = taken[i]
         /\ Append(taken, p)[Len(taken) + 1] = p
         /\ taken # <<>> => LastOf(taken) = taken[Len(taken)]
<1>1. /\ Len(Append(taken, p)) = Len(taken) + 1 /\ Len(taken) \in Nat
      /\ \A i \in 1 .. Len(taken) : Append(taken, p)[i] = taken[i]
      /\ Append(taken, p)[Len(taken) + 1] = p
  BY AppendProperties
<1>2. Append(taken, p) # <<>>
  BY <1>1, AppendProperties
<1> QED
  BY <1>1, <1>2 DEF LastOf

LEMMA BeforeAppend ==
  ASSUME NEW taken \in Seq(Packet), NEW p \in Packet, NEW j, NEW a,
         TakenBefore(taken, j, a), p # <<>> => Before(p, j, a)
  PROVE  TakenBefore(Append(taken, p), j, a)
<1> SUFFICES ASSUME NEW i \in 1 .. Len(Append(taken, p)), Append(taken, p)[i] # <<>>
             PROVE  Before(Append(taken, p)[i], j, a)
  BY DEF TakenBefore
<1>1. Len(taken) \in Nat /\ (i \in 1 .. Len(taken) \/ i = Len(taken) + 1)
  BY LastOfAppend
<1> QED
  BY <1>1, LastOfAppend DEF TakenBefore

(* The host takes a packet that continues the last, or marks a reset.      *)
LEMMA WholeAppend ==
  ASSUME NEW p \in Packet, host.taken \in Seq(Packet), TakesWhole, env' = env,
         host'.taken = Append(host.taken, p),
         p # <<>> => /\ p = Piece(MessageOf(p), From(p), To(p))
                     /\ Continues(LastOf(host.taken), p)
                     /\ TakenBefore(host.taken, MessageOf(p), From(p))
  PROVE  TakesWhole'
<1> DEFINE taken == host.taken
           more  == Append(taken, p)
           n     == Len(taken)
           Whole(s, i) == /\ s[i] = Piece(MessageOf(s[i]), From(s[i]), To(s[i]))
                          /\ Continues(IF i = 1 THEN <<>> ELSE s[i - 1], s[i])
                          /\ \A h \in 1 .. i - 1 : s[h] # <<>> =>
                               Before(s[h], MessageOf(s[i]), From(s[i]))
<1>1. /\ n \in Nat /\ Len(more) = n + 1 /\ more[n + 1] = p
      /\ \A i \in 1 .. n : more[i] = taken[i]
  BY LastOfAppend
<1>2. ASSUME NEW i \in 1 .. n, taken[i] # <<>> PROVE Whole(more, i)
  <2>1. Whole(taken, i)
    BY <1>2 DEF TakesWhole
  <2>2. /\ more[i] = taken[i] /\ (i # 1 => more[i - 1] = taken[i - 1])
        /\ \A h \in 1 .. i - 1 : more[h] = taken[h]
    BY <1>1
  <2> QED
    BY <2>1, <2>2
<1>3. ASSUME p # <<>> PROVE Whole(more, n + 1)
  <2>1. (IF n + 1 = 1 THEN <<>> ELSE more[(n + 1) - 1]) = LastOf(taken)
    <3>1. n = 0 <=> taken = <<>>
      BY EmptySeq
    <3> QED
      BY <1>1, <3>1 DEF LastOf
  <2>2. \A h \in 1 .. (n + 1) - 1 : h \in 1 .. n /\ more[h] = taken[h]
    BY <1>1
  <2> QED
    BY <1>1, <1>3, <2>1, <2>2 DEF TakenBefore
<1> HIDE DEF more, Whole
<1>4. \A i \in 1 .. Len(more) : more[i] # <<>> => Whole(more, i)
  BY <1>1, <1>2, <1>3
<1>5. host'.taken = more
  BY DEF more
<1> QED
  BY <1>4, <1>5 DEF Whole, TakesWhole, Continues, Ended

LEMMA UnitsTaken ==
  ASSUME NEW taken \in Seq(Packet), NEW i \in 1 .. Len(taken), taken[i] # <<>>
  PROVE  MessageOf(taken[i]) \in Nat /\ From(taken[i]) \in Nat
<1>1. taken[i] \in Seq(Unit)
  BY ElementOfSeq DEF Packet
<1>2. Len(taken[i]) \in Nat \ {0}
  BY <1>1, EmptySeq
<1>3. taken[i][1] \in Unit
  BY <1>1, <1>2, ElementOfSeq
<1> QED
  BY <1>3 DEF Unit, MessageOf, From

(* What is behind the host stays behind it.                                *)
LEMMA AllBefore ==
  ASSUME NEW taken \in Seq(Packet), NEW j \in Nat, NEW k \in Nat, NEW a \in Nat, NEW c \in Nat,
         TakenBefore(taken, j, a), j < k
  PROVE  TakenBefore(taken, k, c)
<1> SUFFICES ASSUME NEW i \in 1 .. Len(taken), taken[i] # <<>>
             PROVE  Before(taken[i], k, c)
  BY DEF TakenBefore
<1>1. MessageOf(taken[i]) \in Nat
  BY UnitsTaken
<1>2. MessageOf(taken[i]) <= j
  BY <1>1 DEF TakenBefore, Before
<1> QED
  BY <1>1, <1>2 DEF Before

(* Each packet taken comes before the next piece of its message.           *)
LEMMA BeforeNext ==
  ASSUME host.taken \in Seq(Packet), TakesWhole, host.taken # <<>>,
         NEW j \in Nat, NEW a \in Nat, NEW c \in Nat, a < c,
         LastOf(host.taken) # <<>>,
         MessageOf(LastOf(host.taken)) = j, From(LastOf(host.taken)) = a
  PROVE  TakenBefore(host.taken, j, c)
<1> DEFINE taken == host.taken
           n     == Len(taken)
<1>1. n \in Nat \ {0} /\ n \in 1 .. n /\ taken[n] = LastOf(taken)
  BY EmptySeq DEF LastOf
<1> SUFFICES ASSUME NEW i \in 1 .. n, taken[i] # <<>>
             PROVE  Before(taken[i], j, c)
  BY DEF TakenBefore
<1>2. MessageOf(taken[i]) \in Nat /\ From(taken[i]) \in Nat
  BY UnitsTaken
<1>3. CASE i = n
  BY <1>1, <1>3 DEF Before
<1>4. CASE i < n
  <2>1. i \in 1 .. n - 1
    BY <1>1, <1>4
  <2>2. Before(taken[i], MessageOf(taken[n]), From(taken[n]))
    BY <1>1, <2>1 DEF TakesWhole
  <2> QED
    BY <1>1, <1>2, <2>2 DEF Before
<1> QED
  BY <1>1, <1>3, <1>4

-----------------------------------------------------------------------------
(* The steps.                                                              *)

(* A piece that is at the endpoint after a step.                           *)
LEMMA SendingNext ==
  ASSUME env' = env, NEW a \in 1 .. env.msgs[app'.sent], NEW b \in a .. env.msgs[app'.sent],
         dev'.tx.pkt = Piece(app'.sent, a, b),
         dev'.tx.rest = Piece(app'.sent, b + 1, env.msgs[app'.sent]),
         (dev'.tx.sts = "valid" /\ tog'.in = dev'.tx.tog) =>
             /\ Continues(LastOf(host'.taken), dev'.tx.pkt)
             /\ TakenBefore(host'.taken, app'.sent, a),
         ~(dev'.tx.sts = "valid" /\ tog'.in = dev'.tx.tog) => LastOf(host'.taken) = dev'.tx.pkt
  PROVE  Sending(app.sent)'
BY DEF Sending, SendingPiece, Offered, Continues, Ended, Piece

LEMMA WholeSame ==
  ASSUME TakesWhole, env' = env, host'.taken = host.taken
  PROVE  TakesWhole'
<1>1. \A p, q : Continues(p, q)' <=> Continues(p, q)
  BY DEF Continues, Ended
<1> QED
  BY <1>1 DEF TakesWhole, Continues, Ended

(* What the invariant says of the sending side depends on no more than     *)
(* this.                                                                   *)
LEMMA SentSame ==
  ASSUME SentInv, TakesWhole, env' = env, dev'.tx = dev.tx, dev'.conf = dev.conf,
         tog'.in = tog.in, host'.taken = host.taken, app'.sent = app.sent,
         At("send_valid")' => At("send_valid")
  PROVE  SentInv' /\ TakesWhole'
<1>1. TakesWhole'
  BY WholeSame
<1>2. ASSUME Sending(app.sent) PROVE Sending(app.sent)'
  <2>1. PICK a \in 1 .. env.msgs[app.sent] :
          \E b \in a .. env.msgs[app.sent] : SendingPiece(app.sent, a, b)
    BY <1>2 DEF Sending
  <2>2. PICK b \in a .. env.msgs[app.sent] : SendingPiece(app.sent, a, b)
    BY <2>1
  <2> QED
    BY <2>2, SendingNext DEF SendingPiece, Offered
<1>3. Ended(LastOf(host.taken)) => Ended(LastOf(host.taken))'
  BY DEF Ended, LastOf
<1>4. First(Message(app.sent + 1))' = First(Message(app.sent + 1))
      /\ Rest(Message(app.sent + 1))' = Rest(Message(app.sent + 1))
  BY DEF First, Rest, Message
<1> QED
  BY <1>1, <1>2, <1>3, <1>4 DEF SentInv, OnItsWay, TakenBefore, LastOf

LEMMA SentMessage ==
  ASSUME TypeInv, BoundsInv
  PROVE  /\ app.sent \in Nat
         /\ Pending => /\ app.sent + 1 \in 1 .. Len(env.msgs)
                       /\ env.msgs[app.sent + 1] \in Nat \ {0}
         /\ app.sent >= 1 => env.msgs[app.sent] \in Nat \ {0}
<1>1. app.sent \in Nat /\ Len(env.msgs) \in Nat /\ app.sent <= Len(env.msgs)
  BY Fields, EnvFacts DEF BoundsInv
<1>2. Pending => app.sent + 1 \in 1 .. Len(env.msgs)
  BY <1>1 DEF Pending
<1>3. app.sent >= 1 => app.sent \in 1 .. Len(env.msgs)
  BY <1>1
<1> QED
  BY <1>1, <1>2, <1>3, Fields, EnvFacts

(* The main thread writes a packet, which the host cannot see yet.         *)
LEMMA WriteSent ==
  ASSUME TypeInv, TxInv, SentInv, TakesWhole, SendWrite
  PROVE  SentInv' /\ TakesWhole'
<1>1. /\ app.pc = "send_write" /\ app'.pc = "send_valid" /\ app'.sent = app.sent
      /\ dev'.conf = dev.conf /\ dev'.tx.sts = dev.tx.sts /\ dev'.tx.tc = dev.tx.tc
      /\ dev'.tx.tog = dev.tx.tog /\ tog' = tog /\ host' = host /\ env' = env
      /\ dev'.tx.pkt = First(Message(app.sent + 1))
      /\ dev'.tx.rest = Rest(Message(app.sent + 1))
  BY SendEffects
<1>2. TakesWhole'
  BY <1>1, WholeSame
<1>3. dev.conf => ~OnItsWay /\ ~OnItsWay'
  BY <1>1 DEF TxInv, OnItsWay
<1>4. First(Message(app.sent + 1))' = First(Message(app.sent + 1))
      /\ Rest(Message(app.sent + 1))' = Rest(Message(app.sent + 1))
  BY <1>1 DEF First, Rest, Message
<1>5. Ended(LastOf(host.taken)) => Ended(LastOf(host.taken))'
  BY <1>1 DEF Ended, LastOf
<1> QED
  BY <1>1, <1>2, <1>3, <1>4, <1>5 DEF SentInv, TakenBefore, LastOf

(* It makes the packet valid: the first piece of the next message.         *)
LEMMA ValidSent ==
  ASSUME TypeInv, BoundsInv, UnconfiguredInv, TxInv, SentInv, TakesWhole, SendValid
  PROVE  SentInv' /\ TakesWhole'
<1> DEFINE j == app.sent + 1
           m == env.msgs[j]
<1>1. /\ app.pc = "send_valid" /\ app'.pc = "get" /\ app'.sent = j
      /\ dev'.conf = dev.conf /\ dev'.tx.sts = "valid" /\ dev'.tx.tc = dev.tx.tc
      /\ dev'.tx.tog = dev.tx.tog /\ tog' = tog /\ host' = host /\ env' = env
      /\ dev'.tx.pkt = dev.tx.pkt /\ dev'.tx.rest = dev.tx.rest
  BY SendEffects
<1>2. TakesWhole'
  BY <1>1, WholeSame
<1>3. Pending /\ app.sent \in Nat /\ j \in Nat \ {0} /\ m \in Nat \ {0}
  <2>1. Pending
    BY <1>1 DEF BoundsInv
  <2> QED
    BY <2>1, SentMessage
<1>4. dev.tx.pkt = First(Message(j)) /\ dev.tx.rest = Rest(Message(j))
  BY <1>1 DEF SentInv, At
<1>5. Message(j) = Piece(j, 1, m)
  BY <1>3, MessageIsPiece
<1>6. tog.in = dev.tx.tog
  <2>1. dev.conf => dev.tx.sts # "valid"
    BY <1>1 DEF TxInv, OnItsWay
  <2> QED
    BY <2>1 DEF SentInv, UnconfiguredInv
<1>7. TakenBefore(host.taken, j, 1)
  BY DEF SentInv
<1>8. TakenBefore(host.taken, j + 1, 1)
  <2> DEFINE k == j + 1
  <2>1. j \in Nat /\ k \in Nat /\ j < k /\ 1 \in Nat
    BY <1>3
  <2> HIDE DEF k
  <2>2. TakenBefore(host.taken, k, 1)
    BY <1>7, <2>1, Fields, AllBefore
  <2> QED
    BY <2>2 DEF k
<1> HIDE DEF m, j
<1>9. ASSUME dev.conf PROVE Sending(app.sent)'
  <2>1. PICK b \in 1 .. m : /\ First(Piece(j, 1, m)) = Piece(j, 1, b)
                            /\ Rest(Piece(j, 1, m)) = Piece(j, b + 1, m)
    <3>1. 1 \in Nat \ {0} /\ 1 <= m /\ j \in Nat /\ m \in Nat
      BY <1>3
    <3> QED
      BY <3>1, SplitPiece
  <2>2. j \in Nat /\ 1 \in Nat /\ b \in Nat /\ 1 <= b /\ 1 \in 1 .. m
    BY <1>3
  <2>3. From(Piece(j, 1, b)) = 1
    BY <2>2, PieceFacts
  <2>4. Ended(LastOf(host.taken))
    BY <1>1, <1>9 DEF SentInv, TxInv, OnItsWay
  <2>5. dev.tx.pkt = Piece(j, 1, b) /\ dev.tx.rest = Piece(j, b + 1, m)
    BY <1>4, <1>5, <2>1
  <2>6. Continues(LastOf(host.taken), dev.tx.pkt)
    BY <2>3, <2>4, <2>5 DEF Continues
  <2> QED
    BY <1>1, <1>6, <1>7, <2>2, <2>5, <2>6, SendingNext DEF m
<1>10. j >= 1
  BY <1>3
<1> QED
  BY <1>1, <1>2, <1>6, <1>8, <1>9, <1>10 DEF SentInv, OnItsWay, At, TakenBefore, LastOf

(* A packet has been taken: the next piece is offered, or the message is   *)
(* at its end.                                                             *)
LEMMA CompleteSent ==
  ASSUME TypeInv, BoundsInv, UnconfiguredInv, TxInv, SentInv, TakesWhole,
         InComplete, UNCHANGED <<tog, env, app, host>>
  PROVE  SentInv' /\ TakesWhole'
<1> DEFINE j == app.sent
           m == env.msgs[j]
           last == LastOf(host.taken)
<1>1. /\ dev.tx.tc /\ ~dev'.tx.tc /\ dev'.tx.tog = dev.tx.tog /\ dev'.conf = dev.conf
      /\ dev.tx.rest = <<>> => dev'.tx.sts = dev.tx.sts
      /\ dev.tx.rest # <<>> => /\ dev'.tx.sts = "valid"
                              /\ dev'.tx.pkt = First(dev.tx.rest)
                              /\ dev'.tx.rest = Rest(dev.tx.rest)
      /\ app' = app /\ env' = env /\ host' = host /\ tog' = tog
  BY InEffects
<1>2. TakesWhole'
  BY <1>1, WholeSame
<1>3. dev.conf /\ OnItsWay /\ dev.tx.sts = "nak" /\ ~Offered /\ tog.in = dev.tx.tog
  BY <1>1 DEF UnconfiguredInv, TxInv, OnItsWay, Offered, SentInv
<1>4. app.pc # "send_valid"
  BY <1>3 DEF TxInv
<1>5. j \in Nat /\ j >= 1 /\ m \in Nat \ {0}
  BY <1>3, SentMessage DEF SentInv
<1>6. PICK a \in 1 .. m : \E b \in a .. m : SendingPiece(j, a, b)
  BY <1>3 DEF SentInv, Sending
<1>7. PICK b \in a .. m : SendingPiece(j, a, b)
  BY <1>6
<1>8. a \in Nat /\ 1 <= a /\ b \in Nat /\ a <= b /\ b <= m
  BY <1>5
<1>9. last = Piece(j, a, b) /\ dev.tx.rest = Piece(j, b + 1, m)
  BY <1>3, <1>7 DEF SendingPiece
<1>10. last # <<>> /\ MessageOf(last) = j /\ From(last) = a /\ To(last) = b
  BY <1>5, <1>8, <1>9, PieceFacts
<1>11. TakenBefore(host.taken, app.sent + 1, 1)
  BY DEF SentInv
<1> HIDE DEF last, m, j
<1>12. CASE dev.tx.rest = <<>>
  <2>1. b = m
    <3>1. m \in Nat
      BY <1>5
    <3> QED
      BY <1>5, <1>8, <1>9, <1>12, <3>1, EmptyPiece
  <2>2. Ended(LastOf(host.taken))
    BY <1>10, <2>1 DEF Ended, last, m
  <2>3. Ended(LastOf(host.taken))'
    BY <1>1, <2>2 DEF Ended, LastOf
  <2>4. ~OnItsWay'
    BY <1>1, <1>3, <1>12 DEF OnItsWay
  <2> QED
    BY <1>1, <1>2, <1>3, <1>4, <1>11, <2>3, <2>4 DEF SentInv, TakenBefore, At
<1>13. CASE dev.tx.rest # <<>>
  <2> DEFINE c == b + 1
  <2>1. c \in Nat \ {0} /\ c \in Nat /\ 1 <= c /\ c <= m /\ a < c /\ c = b + 1 /\ b < m
    BY <1>5, <1>8, <1>9, <1>13, EmptyPiece
  <2>2. dev.tx.rest = Piece(j, c, m)
    BY <1>9
  <2> HIDE DEF c
  <2>3. PICK d \in c .. m : /\ First(Piece(j, c, m)) = Piece(j, c, d)
                            /\ Rest(Piece(j, c, m)) = Piece(j, d + 1, m)
    BY <1>5, <2>1, SplitPiece, ZenonT(40)
  <2>4. d \in Nat /\ c <= d /\ c \in 1 .. m
    BY <1>5, <2>1
  <2>5. dev'.tx.pkt = Piece(j, c, d) /\ dev'.tx.rest = Piece(j, d + 1, m)
    BY <1>1, <1>13, <2>2, <2>3
  <2>6. Continues(last, dev'.tx.pkt)
    <3>1. MessageOf(dev'.tx.pkt) = j /\ From(dev'.tx.pkt) = c
      <4>1. MessageOf(Piece(j, c, d)) = j /\ From(Piece(j, c, d)) = c
        BY <1>5, <2>1, <2>4, PieceFacts
      <4> QED
        BY <2>5, <4>1
    <3>2. ~Ended(last)
      BY <1>10, <2>1 DEF Ended, m
    <3> QED
      BY <1>10, <2>1, <3>1, <3>2 DEF Continues
  <2>7. host.taken # <<>>
    BY <1>10 DEF last, LastOf
  <2>8. TakenBefore(host.taken, j, c)
    BY <1>5, <1>8, <1>10, <2>1, <2>7, Fields, BeforeNext DEF last
  <2>9. Sending(app.sent)'
    BY <1>1, <1>3, <1>13, <2>4, <2>5, <2>6, <2>8, SendingNext DEF m, j, last
  <2> QED
    BY <1>1, <1>2, <1>3, <1>4, <1>5, <1>11, <1>13, <2>9
       DEF SentInv, TakenBefore, At, OnItsWay, j
<1> QED
  BY <1>12, <1>13

(* The host takes the packet, or it has it already.                        *)
LEMMA TakeSent ==
  ASSUME TypeInv, BoundsInv, UnconfiguredInv, TxInv, SentInv, TakesWhole,
         NEW lost \in BOOLEAN, TakePacketIn(lost)
  PROVE  SentInv' /\ TakesWhole'
<1> DEFINE j == app.sent
           m == env.msgs[j]
           p == dev.tx.pkt
<1>1. /\ dev.conf /\ dev'.conf = dev.conf /\ dev.tx.sts = "valid"
      /\ lost => dev' = dev
      /\ ~lost => /\ dev'.tx.sts = "nak" /\ dev'.tx.tc /\ dev'.tx.tog = 1 - dev.tx.tog
                  /\ dev'.tx.pkt = dev.tx.pkt /\ dev'.tx.rest = dev.tx.rest
      /\ tog'.in = IF tog.in = dev.tx.tog THEN 1 - tog.in ELSE tog.in
      /\ host'.taken = IF tog.in = dev.tx.tog THEN Append(host.taken, dev.tx.pkt)
                       ELSE host.taken
      /\ env' = env /\ app' = app
  BY TakeEffects
<1>2. tog.in \in {0, 1} /\ dev.tx.tog \in {0, 1} /\ host.taken \in Seq(Packet)
  BY Fields
<1>3. OnItsWay /\ OnItsWay' /\ dev'.tx.pkt = dev.tx.pkt /\ dev'.tx.rest = dev.tx.rest
  BY <1>1 DEF OnItsWay
<1>4. app.pc # "send_valid"
  BY <1>1, <1>3 DEF TxInv
<1>5. j \in Nat /\ j >= 1 /\ m \in Nat \ {0}
  BY <1>1, <1>3, SentMessage DEF SentInv
<1>6. PICK a \in 1 .. m : \E b \in a .. m : SendingPiece(j, a, b)
  BY <1>1, <1>3 DEF SentInv, Sending
<1>7. PICK b \in a .. m : SendingPiece(j, a, b)
  BY <1>6
<1>8. a \in Nat /\ 1 <= a /\ b \in Nat /\ a <= b /\ b <= m
  BY <1>5
<1>9. p = Piece(j, a, b) /\ dev.tx.rest = Piece(j, b + 1, m)
  BY <1>7 DEF SendingPiece
<1>10. p \in Packet /\ p # <<>> /\ MessageOf(p) = j /\ From(p) = a /\ To(p) = b
  <2>1. /\ Piece(j, a, b) \in Packet /\ Piece(j, a, b) # <<>>
        /\ MessageOf(Piece(j, a, b)) = j
        /\ From(Piece(j, a, b)) = a /\ To(Piece(j, a, b)) = b
    BY <1>5, <1>8, PieceFacts
  <2> QED
    BY <1>9, <2>1
<1>11. TakenBefore(host.taken, app.sent + 1, 1)
  BY DEF SentInv
<1>12. /\ ~(dev'.tx.sts = "valid" /\ tog'.in = dev'.tx.tog)
       /\ tog'.in # dev'.tx.tog => dev'.tx.sts = "valid"
  BY <1>1, <1>2
<1> HIDE DEF p, m, j
<1>13. ASSUME TakesWhole', LastOf(host'.taken) = p, TakenBefore(host'.taken, app.sent + 1, 1)
       PROVE  SentInv'
  <2>1. Sending(app.sent)'
    BY <1>1, <1>3, <1>7, <1>9, <1>12, <1>13, SendingNext DEF m, j, p
  <2> QED
    BY <1>1, <1>3, <1>4, <1>5, <1>12, <1>13, <2>1 DEF SentInv, TakenBefore, At, j
<1>14. CASE tog.in = dev.tx.tog
  <2>1. host'.taken = Append(host.taken, p)
    BY <1>1, <1>14 DEF p
  <2>2. Continues(LastOf(host.taken), p) /\ TakenBefore(host.taken, j, a)
    BY <1>1, <1>7, <1>14 DEF SendingPiece, Offered, p
  <2>3. TakesWhole'
    BY <1>1, <1>2, <1>9, <1>10, <2>1, <2>2, WholeAppend
  <2>4. LastOf(host'.taken) = p
    BY <1>2, <1>10, <2>1, LastOfAppend
  <2>5. Before(p, j + 1, 1)
    BY <1>5, <1>10 DEF Before
  <2>6. TakenBefore(host'.taken, app.sent + 1, 1)
    BY <1>2, <1>10, <1>11, <2>1, <2>5, BeforeAppend DEF j
  <2> QED
    BY <1>13, <2>3, <2>4, <2>6
<1>15. CASE tog.in # dev.tx.tog
  <2>1. host'.taken = host.taken
    BY <1>1, <1>15
  <2>2. TakesWhole'
    BY <1>1, <2>1, WholeSame
  <2>3. LastOf(host.taken) = p
    BY <1>7, <1>15 DEF SendingPiece, Offered, p
  <2> QED
    BY <1>11, <1>13, <2>1, <2>2, <2>3
<1> QED
  BY <1>14, <1>15

(* A port reset, which the host marks, and the configuration after it.     *)
LEMMA ResetSent ==
  ASSUME TypeInv, UnconfiguredInv, TxInv, SentInv, TakesWhole, PortReset \/ Configure
  PROVE  SentInv' /\ TakesWhole'
<1>1. host.taken \in Seq(Packet) /\ <<>> \in Packet
  BY Fields, EmptySeq DEF Packet
<1>2. TakenBefore(host.taken, app.sent + 1, 1)
  BY DEF SentInv
<1>3. CASE PortReset
  <2>1. /\ ~dev'.conf /\ dev'.tx.tog = 0 /\ tog'.in = 0 /\ app.pc \in {"get", "send"}
        /\ host'.taken = Append(host.taken, <<>>) /\ env' = env /\ app' = app
    BY <1>3, ResetEffects
  <2>2. TakesWhole'
    BY <1>1, <2>1, WholeAppend
  <2>3. LastOf(host'.taken) = <<>>
    BY <1>1, <2>1, LastOfAppend
  <2>4. TakenBefore(host'.taken, app.sent + 1, 1)
    BY <1>1, <1>2, <2>1, BeforeAppend
  <2> QED
    BY <2>1, <2>2, <2>3, <2>4 DEF SentInv, TakenBefore, At
<1>4. CASE Configure
  <2>1. /\ ~dev.conf /\ dev'.tx.sts = "nak" /\ dev'.tx.tog = 0 /\ dev'.tx.tc = dev.tx.tc
        /\ app.pc \in {"get", "send"}
        /\ tog' = tog /\ host' = host /\ env' = env /\ app' = app
    BY <1>4, ResetEffects
  <2>2. TakesWhole'
    BY <2>1, WholeSame
  <2>3. tog.in = 0 /\ ~OnItsWay'
    BY <2>1 DEF UnconfiguredInv, OnItsWay
  <2>4. LastOf(host'.taken) = <<>>
    BY <2>1 DEF SentInv
  <2>5. Ended(LastOf(host.taken))'
    BY <2>4 DEF Ended, LastOf
  <2> QED
    BY <1>2, <2>1, <2>2, <2>3, <2>4, <2>5 DEF SentInv, TakenBefore, At
<1> QED
  BY <1>3, <1>4

-----------------------------------------------------------------------------
LEMMA SentInit ==
  ASSUME Init
  PROVE  SentInv /\ TakesWhole
<1>1. host.taken = <<>> /\ app.sent = 0 /\ app.pc = "get"
  BY DEF Init
<1>2. dev.conf /\ dev.tx = OpenTx(TxReset) /\ tog.in = 0
  BY DEF Init
<1>3. dev.tx.sts = "nak" /\ dev.tx.tog = 0 /\ ~dev.tx.tc
  BY <1>2 DEF OpenTx, TxReset
<1>4. Len(host.taken) = 0 /\ LastOf(host.taken) = <<>>
  BY <1>1, EmptySeq DEF LastOf
<1>5. TakesWhole /\ TakenBefore(host.taken, app.sent + 1, 1)
  BY <1>4 DEF TakesWhole, TakenBefore
<1> QED
  BY <1>1, <1>2, <1>3, <1>4, <1>5 DEF SentInv, OnItsWay, At, Ended

LEMMA SentStep ==
  ASSUME OwnerInv, SentInv, TakesWhole, Next
  PROVE  SentInv' /\ TakesWhole'
<1> USE DEF OwnerInv
<1>1. CASE GetTest \/ GetClear \/ GetCopy \/ GetArm
  <2>1. /\ env' = env /\ dev'.tx = dev.tx /\ dev'.conf = dev.conf /\ tog' = tog /\ host' = host
        /\ app'.sent = app.sent /\ app'.pc # "send_valid"
    BY <1>1, GetEffects
  <2> QED
    BY <2>1, SentSame DEF At
<1>2. CASE SendTest \/ SendClear
  <2>1. /\ env' = env /\ dev' = dev /\ tog' = tog /\ host' = host
        /\ app'.sent = app.sent /\ app'.pc # "send_valid"
    BY <1>2, SendEffects
  <2> QED
    BY <2>1, SentSame DEF At
<1>3. CASE SendWrite
  BY <1>3, WriteSent
<1>4. CASE SendValid
  BY <1>4, ValidSent
<1>5. CASE InComplete /\ UNCHANGED <<tog, env, app, host>>
  BY <1>5, CompleteSent
<1>6. CASE OutComplete /\ UNCHANGED <<tog, env, app, host>>
  <2>1. dev'.tx = dev.tx /\ dev'.conf = dev.conf
    BY <1>6, OutEffects DEF RxInv
  <2> QED
    BY <1>6, <2>1, SentSame DEF At
<1>7. ASSUME NEW lost \in BOOLEAN, GivePacketOut(lost)
      PROVE  SentInv' /\ TakesWhole'
  <2>1. /\ dev'.tx = dev.tx /\ dev'.conf = dev.conf /\ tog'.in = tog.in
        /\ host'.taken = host.taken /\ env' = env /\ app' = app
    BY <1>7, GiveEffects
  <2> QED
    BY <2>1, SentSame DEF At
<1>8. ASSUME NEW lost \in BOOLEAN, TakePacketIn(lost)
      PROVE  SentInv' /\ TakesWhole'
  BY <1>8, TakeSent
<1>9. CASE PortReset \/ Configure
  BY <1>9, ResetSent
<1> QED
  BY <1>1, <1>2, <1>3, <1>4, <1>5, <1>6, <1>7, <1>8, <1>9
     DEF Next, Main, EptInterrupt, Wire

(* Between any two steps each endpoint has one owner, and the host has     *)
(* taken the messages sent up to a piece that the IN endpoint knows.       *)
THEOREM Invariant == Spec => []IInv
<1>1. Init => SentInv /\ TakesWhole
  BY SentInit
<1>2. OwnerInv /\ SentInv /\ TakesWhole /\ [Next]_cdcVars => SentInv' /\ TakesWhole'
  <2>1. CASE Next
    BY <2>1, SentStep
  <2>2. CASE UNCHANGED cdcVars
    BY <2>2, SentSame DEF cdcVars, At
  <2> QED
    BY <2>1, <2>2
<1>3. OwnerInv /\ SentInv /\ TakesWhole => IInv
  BY DEF IInv
<1> QED
  BY <1>1, <1>2, <1>3, Owners, PTL DEF Spec

(* The host takes messages whole, in order and once (usb_vcp_send_data,    *)
(* class_in_handler, usbd_eptn_handler), for every packet size, length and *)
(* number of messages, lost handshakes and port resets.                    *)
THEOREM MessagesWhole == Spec => []TakesWhole
BY Invariant, PTL DEF IInv

=============================================================================
