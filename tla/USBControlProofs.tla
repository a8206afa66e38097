--------------------------- MODULE USBControlProofs ---------------------------
(***************************************************************************)
(* Reads and writes of the control pipe are exact for every packet size,   *)
(* every set of requests, and a host that may give up, reset and suspend   *)
(* whenever HostCancel, HostReset and HostSuspend let it.                  *)
(***************************************************************************)
EXTENDS USBAgreementInv, SequenceTheorems, TLAPS

(* A packet of m bytes after the first n.                                  *)
Packet(k, n, m) == [i \in 1 .. m |-> <<k, n + i>>]

(* What Bytes returns, and a packet that continues it.                     *)
LEMMA BytesType ==
  ASSUME NEW k \in Nat, NEW n \in Nat
  PROVE  Bytes(k, n) \in Seq(Byte) /\ Len(Bytes(k, n)) = n
<1>1. Bytes(k, n) = [i \in 1 .. n |-> <<k, i>>]
  BY DEF Bytes, Transfers!Bytes
<1>2. [i \in 1 .. n |-> <<k, i>>] \in [1 .. n -> Byte]
  BY DEF Byte
<1> QED
  BY <1>1, <1>2

LEMMA PacketType ==
  ASSUME NEW k \in Nat, NEW n \in Nat, NEW m \in Nat
  PROVE  Packet(k, n, m) \in Seq(Byte) /\ Len(Packet(k, n, m)) = m
<1>1. Packet(k, n, m) \in [1 .. m -> Byte]
  BY DEF Byte, Packet
<1> QED
  BY <1>1

LEMMA BytesConcat ==
  ASSUME NEW k \in Nat, NEW n \in Nat, NEW m \in Nat
  PROVE  Bytes(k, n) \o Packet(k, n, m) = Bytes(k, n + m)
<1> DEFINE p == Packet(k, n, m)
           s == Bytes(k, n) \o p
           t == Bytes(k, n + m)
<1> SUFFICES s = t
  OBVIOUS
<1>1. n + m \in Nat
  OBVIOUS
<1>2. Bytes(k, n) \in Seq(Byte) /\ Len(Bytes(k, n)) = n
  BY BytesType
<1>3. t \in Seq(Byte) /\ Len(t) = n + m
  BY <1>1, BytesType
<1>4. p \in Seq(Byte) /\ Len(p) = m
  BY PacketType
<1>5. s \in Seq(Byte) /\ Len(s) = n + m
  BY <1>2, <1>4, ConcatProperties
<1>6. ASSUME NEW j \in 1 .. n + m
      PROVE  s[j] = t[j]
  <2>1. CASE j <= n
    <3>1. s[j] = Bytes(k, n)[j]
      BY <1>2, <1>4, <2>1, ConcatProperties
    <3>2. QED
      BY <2>1, <3>1 DEF Bytes, Transfers!Bytes
  <2>2. CASE j > n
    <3>1. s[j] = p[j - n]
      BY <1>2, <1>4, <2>2, ConcatProperties, SMTT(30)
    <3>2. p[j - n] = <<k, j>>
      BY <2>2 DEF Packet
    <3>3. QED
      BY <3>1, <3>2 DEF Bytes, Transfers!Bytes
  <2>3. j <= n \/ j > n
    OBVIOUS
  <2>4. QED
    BY <2>1, <2>2, <2>3, Zenon
<1>7. QED
  <2> HIDE DEF s, t
  <2> QED
    BY <1>3, <1>5, <1>6, SeqEqual

LEMMA BytesEmpty == \A k, n \in Nat : Bytes(k, 0) = <<>> /\ Packet(k, n, 0) = <<>>
<1>1. 1 .. 0 = {}
  OBVIOUS
<1>2. QED
  BY <1>1 DEF Bytes, Transfers!Bytes, Packet

(* What the constants promise.                                             *)
LEMMA ConstantFacts ==
  /\ MaxPacket \in Nat /\ MaxPacket >= 1
  /\ UInt16 \subseteq Nat
  /\ \A r \in Requests : r.value \in Nat /\ r.wLength \in UInt16 /\ r.wLength \in Nat
  /\ \A r \in Requests : Expected(r) \in Nat
<1>1. MaxPacket \in Nat /\ MaxPacket >= 1
  BY MaxPacketAssumption
<1>2. UInt16 \subseteq Nat
  BY DEF UInt16
<1>3. \A r \in Requests : r.value \in Nat /\ r.wLength \in UInt16 /\ r.wLength \in Nat
  BY <1>2, RequestsAssumption
<1>4. \A r \in Requests : Expected(r) \in Nat
  BY <1>3 DEF Expected, Transfers!Expected, Transfers!Min2
<1>5. QED
  BY <1>1, <1>2, <1>3, <1>4

(* The device core's types when only the wire moves.                       *)
LEMMA DeviceTypes ==
  ASSUME CoreTypeOK, Device
  PROVE  CoreTypeOK'
<1>1. /\ UNCHANGED <<conn_state, old_conn_state, device_addr, dev_config, remote_wakup>>
      /\ UNCHANGED <<ept0_sts, ept0_wlength, in0, out0, stored, stall, applied, irq>>
  BY DEF Device, coreVars, ept0Vars
<1>2. QED
  BY <1>1 DEF CoreTypeOK

(***************************************************************************)
(* The host.                                                               *)
(***************************************************************************)

(* A new request finds nothing left of the one before.                     *)
LEMMA SetupStep ==
  ASSUME PipeInv, NEW r \in Requests, HostSetup(r), Device
  PROVE  PipeInv'
<1> USE DEF HostSetup, Device, Hears, coreVars, ept0Vars
<1>1. TypeOK'
  <2> USE DEF PipeInv, TypeOK
  <2>1. xfer' \in 0 .. MaxTransfers
    BY HostAssumption DEF WireTypeOK
  <2>2. stage' \in {"data_in", "data_out", "status_in"}
    OBVIOUS
  <2>3. WireTypeOK'
    BY <2>1, <2>2, EmptySeq DEF WireTypeOK
  <2>4. CoreTypeOK'
    BY DeviceTypes
  <2>5. QED
    BY <2>3, <2>4
<1>2. Calm /\ ~SetupPending /\ ("TX" \in tc => ept0_sts # "DATA_IN")
  BY DEF PipeInv, IdleInv, Calm, SetupPending
<1>3. (got = Bytes(xfer, Len(got)))'
  BY <1>1, BytesEmpty DEF TypeOK, WireTypeOK
<1>4. ResetInv' /\ StageInv'
  BY <1>2 DEF PipeInv, ResetInv, StageInv, Calm
<1>5. stage' \in {"data_in", "data_out", "status_in"} /\ SetupPending'
  BY DEF SetupPending
<1>6. IdleInv' /\ ReadInv' /\ WriteInv'
  BY <1>5 DEF IdleInv, ReadInv, WriteInv
<1>7. SetupInv'
  BY <1>2 DEF SetupInv, SetupPending
<1>8. QED
  BY <1>1, <1>3, <1>4, <1>6, <1>7 DEF PipeInv

(* The host takes a packet of a read.                                      *)
LEMMA DataInStep ==
  ASSUME PipeInv, stage = "data_in", TakesPacket, Hears,
         GoesOn(IF Len(txpkt) < MaxPacket \/ Len(got') >= req.wLength
                  THEN "status_out" ELSE "data_in"),
         UNCHANGED <<txpkt, flags, hwaddr, ssp, ept1, bus, req, xfer, resets, suspends>>,
         Device
  PROVE  PipeInv'
<1> DEFINE n == Len(got)
           m == in0.last_len
<1>1. TypeOK /\ ResetInv /\ SetupInv /\ StageInv /\ ReadInv /\ got = Bytes(xfer, n)
  BY DEF PipeInv
<1>2. Calm /\ req \in Requests /\ Reads(req)
  BY <1>1 DEF ResetInv, StageInv
<1>3. ~SetupPending /\ "OUT" \notin tc /\ txsts = "valid" /\ Sending /\ rxsts # "stall"
  BY <1>1, <1>2 DEF SetupInv, ReadInv, TakesPacket
<1>4. "TX" \notin tc
  BY <1>3 DEF Sending
<1>5. /\ UNCHANGED <<ept0_sts, ept0_wlength, in0, irq>>
      /\ tc' = tc \cup {"TX"} /\ got' = got \o txpkt /\ txsts' = "nak" /\ rxsts' = rxsts
      /\ UNCHANGED <<rxpkt, sent, result, haddr, hconf>>
      /\ stage' \in {"status_out", "data_in"}
  BY DEF Device, ept0Vars, TakesPacket, GoesOn
<1>6. in0 \in EptIn /\ xfer \in Nat /\ req.wLength \in Nat /\ MaxPacket \in Nat
      /\ MaxPacket >= 1
  BY <1>1, <1>2, ConstantFacts, HostAssumption DEF TypeOK, WireTypeOK, CoreTypeOK
<1>7. m \in Nat /\ in0.off \in Nat /\ in0.rem0_len \in Nat /\ in0.ept0_slen \in Nat
  BY <1>6 DEF EptIn
<1>8. n = in0.off /\ txpkt = Packet(xfer, n, m)
  BY <1>3, <1>4 DEF Sending, Packet
<1>9. Len(txpkt) = m /\ txpkt \in Seq(Byte)
  BY <1>6, <1>7, <1>8, PacketType, ZenonT(40)
<1>10. got' = Bytes(xfer, n + m)
  <2>1. got' = Bytes(xfer, n) \o Packet(xfer, n, m)
    BY <1>1, <1>5, <1>8, Zenon
  <2>2. n \in Nat
    BY <1>7, <1>8
  <2>3. QED
    BY <1>6, <1>7, <2>1, <2>2, BytesConcat, ZenonT(40)
<1>11. got' \in Seq(Byte) /\ Len(got') = n + m
  <2>1. n + m \in Nat
    BY <1>7, <1>8
  <2>2. QED
    BY <2>1, <1>6, <1>10, BytesType
<1>12. TypeOK'
  <2>1. WireTypeOK'
    BY <1>1, <1>5, <1>11 DEF TypeOK, WireTypeOK
  <2>2. QED
    BY <1>1, <2>1, DeviceTypes DEF TypeOK
<1>13. /\ in0.ept0_slen = Expected(req) /\ in0.ept0_slen <= req.wLength
       /\ DataPacket \/ EndPacket
  BY <1>3 DEF Sending
<1>14. CASE Len(txpkt) < MaxPacket \/ Len(got') >= req.wLength
  <2>1. stage' = "status_out"
    BY <1>14 DEF GoesOn
  <2>2. Len(got') = Expected(req)
    <3>1. CASE DataPacket
      BY <1>6, <1>7, <1>8, <1>9, <1>11, <1>13, <1>14, <3>1 DEF DataPacket, Transfers!Min2
    <3>2. CASE EndPacket
      BY <1>6, <1>7, <1>8, <1>9, <1>11, <1>13, <1>14, <3>2 DEF EndPacket
    <3>3. QED
      BY <1>13, <3>1, <3>2
  <2>3. ReadInv'
    BY <1>3, <1>5, <2>1, <2>2 DEF ReadInv, SetupPending, Sending
  <2>4. ResetInv' /\ IdleInv' /\ SetupInv' /\ StageInv' /\ WriteInv'
    BY <1>1, <1>2, <1>3, <1>5, <2>1
       DEF ResetInv, IdleInv, SetupInv, StageInv, WriteInv, Calm, SetupPending
  <2>5. QED
    BY <1>10, <1>11, <1>12, <2>3, <2>4 DEF PipeInv
<1>15. CASE Len(txpkt) >= MaxPacket /\ Len(got') < req.wLength
  <2>1. stage' = "data_in"
    BY <1>6, <1>7, <1>9, <1>11, <1>15 DEF GoesOn
  <2>2. m = MaxPacket
    BY <1>1, <1>6, <1>9, <1>15 DEF TypeOK, CoreTypeOK, EptIn
  <2>3. (DataPacket \/ EndPacket)'
    BY <1>5, <1>13 DEF DataPacket, EndPacket
  <2>4. Sending'
    BY <1>3, <1>5, <1>8, <1>11, <1>15, <2>2, <2>3 DEF Sending
  <2>5. ReadInv'
    BY <1>3, <1>5, <2>1, <2>4 DEF ReadInv, SetupPending
  <2>6. ResetInv' /\ IdleInv' /\ SetupInv' /\ StageInv' /\ WriteInv'
    BY <1>1, <1>2, <1>3, <1>5, <2>1
       DEF ResetInv, IdleInv, SetupInv, StageInv, WriteInv, Calm, SetupPending
  <2>7. QED
    BY <1>10, <1>11, <1>12, <2>5, <2>6 DEF PipeInv
<1>16. QED
  BY <1>6, <1>7, <1>9, <1>11, <1>14, <1>15

(* The host gives a packet of a write.                                     *)
LEMMA DataOutStep ==
  ASSUME PipeInv, stage = "data_out", Hears,
         GivesPacket(Transfers!Min2(req.wLength - sent, MaxPacket)),
         GoesOn(IF sent' = req.wLength THEN "status_in" ELSE "data_out"),
         UNCHANGED <<txpkt, flags, hwaddr, ssp, ept1, bus, req, xfer, resets, suspends>>,
         Device
  PROVE  PipeInv'
<1> DEFINE m == Transfers!Min2(req.wLength - sent, MaxPacket)
<1>1. TypeOK /\ ResetInv /\ SetupInv /\ StageInv /\ WriteInv /\ got = Bytes(xfer, Len(got))
  BY DEF PipeInv
<1>2. Calm /\ req \in Requests /\ ~Reads(req) /\ req.wLength # 0
  BY <1>1 DEF ResetInv, StageInv
<1>3. rxsts = "valid" /\ "OUT" \notin tc /\ ~SetupPending
  BY DEF GivesPacket, SetupPending
<1>4. ept0_sts = "DATA_OUT" /\ Storing /\ got = <<>> /\ "TX" \notin tc
  BY <1>1, <1>3 DEF WriteInv
<1>5. /\ UNCHANGED <<ept0_sts, ept0_wlength, in0, out0, stored, applied, irq>>
      /\ tc' = tc \cup {"OUT"} /\ got' = got /\ txsts' = txsts /\ rxsts' = "nak"
      /\ sent' = sent + m
      /\ rxpkt' = Packet(xfer, sent, m)
      /\ UNCHANGED <<result, haddr, hconf>>
      /\ stage' \in {"status_in", "data_out"}
  BY DEF Device, ept0Vars, GivesPacket, GoesOn, Packet
<1>6. xfer \in Nat /\ req.wLength \in Nat /\ MaxPacket \in Nat /\ MaxPacket >= 1
      /\ sent \in Nat
  BY <1>1, <1>2, ConstantFacts, HostAssumption DEF TypeOK, WireTypeOK
<1>7. stored = Bytes(xfer, sent) /\ sent < req.wLength /\ out0 = req.wLength - Len(stored)
  BY <1>3, <1>4 DEF Storing
<1>8. Len(stored) = sent
  BY <1>6, <1>7, BytesType
<1>9. m \in Nat /\ m <= MaxPacket /\ sent + m <= req.wLength
  BY <1>6, <1>7 DEF Transfers!Min2
<1>10. rxpkt' \in Seq(Byte) /\ Len(rxpkt') = m
  BY <1>5, <1>6, <1>9, PacketType
<1>11. stored \o rxpkt' = Bytes(xfer, sent')
  BY <1>5, <1>6, <1>7, <1>9, BytesConcat, Zenon
<1>12. TypeOK'
  <2>1. sent' \in Nat
    BY <1>5, <1>6, <1>9
  <2>2. WireTypeOK'
    BY <1>1, <1>5, <1>9, <1>10, <2>1 DEF TypeOK, WireTypeOK
  <2>3. QED
    BY <1>1, <2>2, DeviceTypes DEF TypeOK
<1>13. (stage' = "data_out" => sent' < req.wLength)
       /\ (stage' = "status_in" => sent' = req.wLength)
  BY <1>5, <1>6, <1>9 DEF GoesOn
<1>14. m = Transfers!Min2(out0, MaxPacket)
  BY <1>7, <1>8
<1>15. Storing'
  <2>1. rxsts' # "stall" /\ txsts' # "valid" /\ "OUT" \in tc'
        /\ req'.name = "CLASS_OUT" /\ req'.wLength # 0
    BY <1>4, <1>5 DEF Storing
  <2>2. out0' = req'.wLength - Len(stored')
    BY <1>5, <1>7
  <2>3. Len(rxpkt') = Transfers!Min2(out0', MaxPacket)
    BY <1>5, <1>10, <1>14
  <2>4. stored' \o rxpkt' = Bytes(xfer', sent')
    BY <1>5, <1>11
  <2>5. IF stage' = "data_out" THEN sent' < req'.wLength ELSE sent' = req'.wLength
    BY <1>5, <1>13
  <2>6. QED
    BY <2>1, <2>2, <2>3, <2>4, <2>5 DEF Storing
<1>16. WriteInv'
  BY <1>3, <1>4, <1>5, <1>15 DEF WriteInv, SetupPending, Storing
<1>17. ResetInv' /\ IdleInv' /\ SetupInv' /\ StageInv' /\ ReadInv'
  BY <1>1, <1>2, <1>3, <1>5
     DEF ResetInv, IdleInv, SetupInv, StageInv, ReadInv, Calm, SetupPending
<1>18. (got = Bytes(xfer, Len(got)))'
  BY <1>1, <1>5
<1>19. QED
  BY <1>12, <1>16, <1>17, <1>18 DEF PipeInv

(* A request completes or is refused: what the host keeps of it.           *)
LEMMA EndTypes ==
  ASSUME TypeOK, req \in Requests, NEW how \in {"ok", "stalled", "cancelled"}, Ends(how)
  PROVE  haddr' \in Nat /\ hconf' \in Nat /\ stage' = "idle" /\ result' = how
<1>1. req.value \in Nat /\ haddr \in Nat /\ hconf \in Nat
  BY ConstantFacts DEF TypeOK, WireTypeOK
<1>2. QED
  BY <1>1 DEF Ends

(* The status stage of a write, or of a request without data.              *)
LEMMA StatusInStep ==
  ASSUME PipeInv, stage = "status_in", TakesPacket, Hears, Ends("ok"),
         UNCHANGED <<txpkt, flags, hwaddr, ssp, ept1, bus, req, xfer, resets, suspends>>,
         Device
  PROVE  PipeInv'
<1>1. TypeOK /\ ResetInv /\ SetupInv /\ StageInv /\ WriteInv /\ got = Bytes(xfer, Len(got))
  BY DEF PipeInv
<1>2. Calm /\ req \in Requests
  BY <1>1 DEF ResetInv, StageInv
<1>3. ~SetupPending /\ txsts = "valid"
  BY <1>1, <1>2 DEF SetupInv, TakesPacket
<1>4. /\ got = <<>> /\ txpkt = <<>> /\ ept0_sts # "DATA_IN" /\ Expected(req) = 0
      /\ req.name = "CLASS_OUT" /\ req.wLength # 0 => applied = Bytes(xfer, req.wLength)
      /\ ept0_sts # "DATA_OUT"
  BY <1>1, <1>3 DEF WriteInv, Storing
<1>5. /\ UNCHANGED <<ept0_sts, applied, irq>>
      /\ tc' = tc \cup {"TX"} /\ got' = got \o txpkt /\ txsts' = "nak"
      /\ UNCHANGED <<rxsts, rxpkt, sent>>
  BY DEF Device, ept0Vars, TakesPacket
<1>6. haddr' \in Nat /\ hconf' \in Nat /\ stage' = "idle" /\ result' = "ok"
  BY <1>1, <1>2, EndTypes
<1>7. got' = <<>>
  BY <1>4, <1>5
<1>8. TypeOK'
  <2>1. WireTypeOK'
    BY <1>1, <1>5, <1>6, <1>7, EmptySeq DEF TypeOK, WireTypeOK
  <2>2. QED
    BY <1>1, <2>1, DeviceTypes DEF TypeOK
<1>9. IdleInv'
  <2>1. Len(got') = Expected(req')
    BY <1>4, <1>7, EmptySeq
  <2>2. QED
    BY <1>3, <1>4, <1>5, <1>6, <2>1 DEF IdleInv, SetupPending
<1>10. ResetInv' /\ SetupInv' /\ StageInv' /\ ReadInv' /\ WriteInv'
  BY <1>1, <1>2, <1>3, <1>5, <1>6
     DEF ResetInv, SetupInv, StageInv, ReadInv, WriteInv, Calm, SetupPending
<1>11. (got = Bytes(xfer, Len(got)))'
  BY <1>1, <1>4, <1>7
<1>12. QED
  BY <1>8, <1>9, <1>10, <1>11 DEF PipeInv

(* The status stage of a read.                                             *)
LEMMA StatusOutStep ==
  ASSUME PipeInv, stage = "status_out", GivesPacket(0), Hears, Ends("ok"),
         UNCHANGED <<txpkt, flags, hwaddr, ssp, ept1, bus, req, xfer, resets, suspends>>,
         Device
  PROVE  PipeInv'
<1>1. TypeOK /\ ResetInv /\ StageInv /\ ReadInv /\ got = Bytes(xfer, Len(got))
  BY DEF PipeInv
<1>2. Calm /\ req \in Requests /\ Reads(req)
  BY <1>1 DEF ResetInv, StageInv
<1>3. ~SetupPending /\ ept0_sts \in {"DATA_IN", "STATUS_OUT"} /\ Len(got) = Expected(req)
  BY <1>1 DEF ReadInv
<1>4. xfer \in Nat /\ sent \in Nat
  BY <1>1, HostAssumption DEF TypeOK, WireTypeOK
<1>5. /\ UNCHANGED <<ept0_sts, applied, irq>>
      /\ tc' = tc \cup {"OUT"} /\ got' = got /\ txsts' = txsts /\ rxsts' = "nak"
      /\ rxpkt' = Packet(xfer, sent, 0) /\ sent' = sent + 0
  BY DEF Device, ept0Vars, GivesPacket, Packet
<1>6. rxpkt' = <<>> /\ sent' = sent
  BY <1>4, <1>5, BytesEmpty
<1>7. haddr' \in Nat /\ hconf' \in Nat /\ stage' = "idle" /\ result' = "ok"
  BY <1>1, <1>2, EndTypes
<1>8. TypeOK'
  <2>1. rxpkt' \in Seq(Byte) /\ Len(rxpkt') <= MaxPacket
    BY <1>6, EmptySeq, ConstantFacts
  <2>2. WireTypeOK'
    BY <1>1, <1>5, <1>6, <1>7, <2>1 DEF TypeOK, WireTypeOK
  <2>3. QED
    BY <1>1, <2>2, DeviceTypes DEF TypeOK
<1>9. IdleInv'
  BY <1>2, <1>3, <1>5, <1>7 DEF IdleInv, SetupPending, Reads
<1>10. ResetInv' /\ SetupInv' /\ StageInv' /\ ReadInv' /\ WriteInv'
  BY <1>1, <1>2, <1>3, <1>5, <1>7
     DEF ResetInv, SetupInv, StageInv, ReadInv, WriteInv, Calm, SetupPending
<1>11. (got = Bytes(xfer, Len(got)))'
  BY <1>1, <1>5
<1>12. QED
  BY <1>8, <1>9, <1>10, <1>11 DEF PipeInv

(* A stall: nothing of a read is under way any more.                       *)
LEMMA StalledStep ==
  ASSUME PipeInv, stage # "idle", Hears,
         \/ stage \in {"data_in", "status_in"} /\ IsStalled(txsts)
         \/ stage \in {"data_out", "status_out"} /\ IsStalled(rxsts),
         UNCHANGED <<txpkt, flags, hwaddr, ssp, ept1, bus, req, xfer, resets, suspends>>,
         Device
  PROVE  PipeInv'
<1>1. TypeOK /\ ResetInv /\ SetupInv /\ StageInv /\ ReadInv /\ WriteInv
      /\ got = Bytes(xfer, Len(got))
  BY DEF PipeInv
<1>2. Calm /\ req \in Requests
  BY <1>1 DEF ResetInv, StageInv
<1>3. ~SetupPending
  BY <1>1, <1>2 DEF SetupInv, IsStalled, ReadInv
<1>4. "TX" \in tc => ept0_sts # "DATA_IN"
  BY <1>1, <1>3 DEF ReadInv, WriteInv, Sending, IsStalled
<1>5. /\ UNCHANGED <<ept0_sts, irq>>
      /\ UNCHANGED <<txsts, rxsts, rxpkt, tc, got, sent>> /\ Ends("stalled")
  BY DEF Device, ept0Vars, IsStalled
<1>6. haddr' \in Nat /\ hconf' \in Nat /\ stage' = "idle" /\ result' = "stalled"
  BY <1>1, <1>2, <1>5, EndTypes
<1>7. TypeOK'
  <2>1. WireTypeOK'
    BY <1>1, <1>5, <1>6 DEF TypeOK, WireTypeOK
  <2>2. QED
    BY <1>1, <2>1, DeviceTypes DEF TypeOK
<1>8. IdleInv'
  BY <1>3, <1>4, <1>5, <1>6 DEF IdleInv, SetupPending
<1>9. ResetInv' /\ SetupInv' /\ StageInv' /\ ReadInv' /\ WriteInv'
  BY <1>1, <1>2, <1>3, <1>5, <1>6
     DEF ResetInv, SetupInv, StageInv, ReadInv, WriteInv, Calm, SetupPending
<1>10. (got = Bytes(xfer, Len(got)))'
  BY <1>1, <1>5
<1>11. QED
  BY <1>7, <1>8, <1>9, <1>10 DEF PipeInv

(* A step of a transfer in progress.                                       *)
LEMMA ServeStep ==
  ASSUME PipeInv, HostServes
  PROVE  PipeInv'
<1>1. /\ Hears /\ Device
      /\ UNCHANGED <<txpkt, flags, hwaddr, ssp, ept1, bus, req, xfer, resets, suspends>>
      /\ HostDataIn \/ HostDataOut \/ HostStatusIn \/ HostStatusOut
  BY DEF HostServes, HostGoesOn
<1>2. CASE HostDataIn
  <2>1. stage = "data_in" /\ stage # "idle" /\ stage \in {"data_in", "status_in"}
    BY <1>2 DEF HostDataIn
  <2>2. CASE IsStalled(txsts)
    BY <1>1, <2>1, <2>2, StalledStep, Zenon
  <2>3. CASE ~IsStalled(txsts)
    BY <1>1, <1>2, <2>3, DataInStep, Zenon DEF HostDataIn
  <2>4. QED
    BY <2>2, <2>3
<1>3. CASE HostDataOut
  <2>1. stage = "data_out" /\ stage # "idle" /\ stage \in {"data_out", "status_out"}
    BY <1>3 DEF HostDataOut
  <2>2. CASE IsStalled(rxsts)
    BY <1>1, <2>1, <2>2, StalledStep, Zenon
  <2>3. CASE ~IsStalled(rxsts)
    BY <1>1, <1>3, <2>3, DataOutStep, Zenon DEF HostDataOut
  <2>4. QED
    BY <2>2, <2>3
<1>4. CASE HostStatusIn
  <2>1. stage = "status_in" /\ stage # "idle" /\ stage \in {"data_in", "status_in"}
    BY <1>4 DEF HostStatusIn
  <2>2. CASE IsStalled(txsts)
    BY <1>1, <2>1, <2>2, StalledStep, Zenon
  <2>3. CASE ~IsStalled(txsts)
    BY <1>1, <1>4, <2>3, StatusInStep, Zenon DEF HostStatusIn
  <2>4. QED
    BY <2>2, <2>3
<1>5. CASE HostStatusOut
  <2>1. stage = "status_out" /\ stage # "idle" /\ stage \in {"data_out", "status_out"}
    BY <1>5 DEF HostStatusOut
  <2>2. CASE IsStalled(rxsts)
    BY <1>1, <2>1, <2>2, StalledStep, Zenon
  <2>3. CASE ~IsStalled(rxsts)
    BY <1>1, <1>5, <2>3, StatusOutStep, Zenon DEF HostStatusOut
  <2>4. QED
    BY <2>2, <2>3
<1>6. QED
  BY <1>1, <1>2, <1>3, <1>4, <1>5

(***************************************************************************)
(* Steps of the bus, and of the interrupt handler between its callbacks.   *)
(***************************************************************************)

transferVars ==
  <<txsts, rxsts, txpkt, rxpkt, tc, stage, req, xfer, got, sent, result,
    ept0_sts, ept0_wlength, in0, out0, stored, applied>>

(* What the invariant says of a transfer depends on these variables only.  *)
LEMMA TransferFrame ==
  ASSUME PipeInv, TypeOK', ResetInv', Calm' <=> Calm, UNCHANGED transferVars
  PROVE  PipeInv'
<1>1. /\ UNCHANGED <<txsts, rxsts, txpkt, rxpkt, tc, stage, req, xfer, got, sent, result>>
      /\ UNCHANGED <<ept0_sts, ept0_wlength, in0, out0, stored, applied>>
  BY DEF transferVars
<1>2. (got = Bytes(xfer, Len(got)))' /\ IdleInv' /\ SetupInv' /\ StageInv'
  BY <1>1 DEF PipeInv, IdleInv, SetupInv, StageInv, SetupPending
<1>3. Sending' <=> Sending
  BY <1>1 DEF Sending, DataPacket, EndPacket
<1>4. Storing' <=> Storing
  BY <1>1 DEF Storing
<1>5. ReadInv' /\ WriteInv'
  BY <1>1, <1>3, <1>4 DEF PipeInv, ReadInv, WriteInv, SetupPending
<1>6. QED
  BY <1>2, <1>5 DEF PipeInv

(* The host gives up, resets the bus or lets it idle.                      *)
LEMMA ChoiceStep ==
  ASSUME PipeInv, HostChoice
  PROVE  PipeInv'
<1>1. TypeOK /\ ResetInv /\ IdleInv /\ StageInv /\ got = Bytes(xfer, Len(got))
  BY DEF PipeInv
<1>2. CoreTypeOK' /\ Device
  BY <1>1, DeviceTypes DEF HostChoice, TypeOK
<1>3. UNCHANGED <<ept0_sts, ept0_wlength, in0, out0, stored, applied, irq>>
  BY <1>2 DEF Device, ept0Vars
<1>4. CASE HostCancel
  <2>1. /\ UNCHANGED <<txsts, rxsts, txpkt, rxpkt, tc, flags, hwaddr, ssp, ept1>>
        /\ UNCHANGED <<bus, req, xfer, got, sent, resets, suspends>>
        /\ tc = {} /\ stage # "idle" /\ Ends("cancelled")
    BY <1>4 DEF HostCancel, chipVars
  <2>2. haddr' \in Nat /\ hconf' \in Nat /\ stage' = "idle" /\ result' = "cancelled"
    BY <1>1, <2>1, EndTypes DEF StageInv
  <2>3. WireTypeOK'
    BY <1>1, <2>1, <2>2 DEF TypeOK, WireTypeOK
  <2>4. ResetInv' /\ IdleInv' /\ SetupInv' /\ StageInv' /\ ReadInv' /\ WriteInv'
    BY <1>1, <1>3, <2>1, <2>2
       DEF ResetInv, IdleInv, SetupInv, StageInv, ReadInv, WriteInv, Calm, SetupPending
  <2>5. QED
    BY <1>1, <1>2, <2>1, <2>3, <2>4 DEF PipeInv, TypeOK
<1>5. CASE HostReset
  <2>1. /\ UNCHANGED <<txsts, rxsts, txpkt, rxpkt, tc, flags, hwaddr, ssp, ept1>>
        /\ UNCHANGED <<req, xfer, got, sent, suspends>>
        /\ bus' = "reset" /\ stage' = "idle" /\ haddr' = 0 /\ hconf' = 0
        /\ resets < MaxResets /\ resets' = resets + 1
        /\ result' = IF stage = "idle" THEN result ELSE "cancelled"
    BY <1>5 DEF HostReset, chipVars
  <2>2. resets' \in 0 .. MaxResets
    BY <1>1, <2>1, HostAssumption DEF TypeOK, WireTypeOK
  <2>3. WireTypeOK'
    BY <1>1, <2>1, <2>2 DEF TypeOK, WireTypeOK
  <2>4. ResetInv' /\ SetupInv' /\ StageInv' /\ ReadInv' /\ WriteInv' /\ ~Calm'
    BY <1>1, <1>3, <2>1
       DEF ResetInv, SetupInv, StageInv, ReadInv, WriteInv, Calm, SetupPending
  <2>5. IdleInv'
    BY <1>1, <1>3, <2>1, <2>4 DEF IdleInv, SetupPending
  <2>6. QED
    BY <1>1, <1>2, <2>1, <2>3, <2>4, <2>5 DEF PipeInv, TypeOK
<1>6. CASE HostSuspend
  <2>1. /\ UNCHANGED <<txsts, rxsts, txpkt, rxpkt, tc, flags, hwaddr, ssp, ept1>>
        /\ UNCHANGED <<stage, req, xfer, got, sent, result, haddr, hconf, resets>>
        /\ bus = "active" /\ bus' = "idle"
        /\ suspends < MaxSuspends /\ suspends' = suspends + 1
    BY <1>6 DEF HostSuspend, chipVars
  <2>2. suspends' \in 0 .. MaxSuspends
    BY <1>1, <2>1, HostAssumption DEF TypeOK, WireTypeOK
  <2>3. WireTypeOK'
    BY <1>1, <2>1, <2>2 DEF TypeOK, WireTypeOK
  <2>4. ResetInv' /\ (Calm' <=> Calm)
    BY <1>1, <1>3, <2>1 DEF ResetInv, Calm
  <2>5. QED
    BY <1>2, <1>3, <2>1, <2>3, <2>4, TransferFrame DEF TypeOK, transferVars
<1>7. QED
  BY <1>4, <1>5, <1>6 DEF HostChoice

(* What the peripheral notices.                                            *)
LEMMA WireStep ==
  ASSUME PipeInv, Wire
  PROVE  PipeInv'
<1>1. TypeOK /\ ResetInv /\ IdleInv /\ StageInv /\ got = Bytes(xfer, Len(got))
  BY DEF PipeInv
<1>2. CoreTypeOK' /\ Device
  BY <1>1, DeviceTypes DEF Wire, TypeOK
<1>3. UNCHANGED <<ept0_sts, ept0_wlength, in0, out0, stored, applied, irq>>
  BY <1>2 DEF Device, ept0Vars
<1>4. CASE HwReset
  <2>1. /\ UNCHANGED <<txpkt, rxpkt, tc, hwaddr, ssp>>
        /\ UNCHANGED <<stage, req, xfer, got, sent, result, haddr, hconf, resets, suspends>>
        /\ bus = "reset" /\ bus' = "active" /\ flags' = flags \cup {"RST"}
        /\ txsts' = "disabled" /\ rxsts' = "disabled" /\ ept1' = "disabled"
    BY <1>4 DEF HwReset
  <2>2. WireTypeOK'
    BY <1>1, <2>1 DEF TypeOK, WireTypeOK
  <2>3. stage = "idle" /\ ~Calm'
    BY <1>1, <2>1 DEF ResetInv, Calm
  <2>4. ResetInv' /\ IdleInv' /\ SetupInv' /\ StageInv' /\ ReadInv' /\ WriteInv'
    BY <1>1, <1>3, <2>1, <2>3
       DEF ResetInv, IdleInv, SetupInv, StageInv, ReadInv, WriteInv, SetupPending
  <2>5. QED
    BY <1>1, <1>2, <2>1, <2>2, <2>4 DEF PipeInv, TypeOK
<1>5. CASE HostResume \/ HwSuspend \/ HwWake
  <2>1. /\ UNCHANGED <<txsts, rxsts, txpkt, rxpkt, tc, hwaddr, ssp, ept1>>
        /\ UNCHANGED <<stage, req, xfer, got, sent, result, haddr, hconf, resets, suspends>>
        /\ \/ bus = "idle" /\ bus' = "active" /\ flags' = flags
           \/ bus' = bus /\ flags' = flags \cup {"SP"}
           \/ bus' = bus /\ flags' = flags \cup {"WK"}
    BY <1>5 DEF HostResume, HwSuspend, HwWake, chipVars, hostVars
  <2>2. bus' \in {"active", "idle", "reset"} /\ flags' \subseteq {"RST", "SP", "WK"}
    BY <1>1, <2>1 DEF TypeOK, WireTypeOK
  <2>3. WireTypeOK'
    <3>1. /\ UNCHANGED <<txsts, rxsts, txpkt, rxpkt, tc, hwaddr, ssp, ept1>>
          /\ UNCHANGED <<stage, req, xfer, got, sent, result, haddr, hconf, resets, suspends>>
      BY <2>1
    <3>2. QED
      BY <1>1, <2>2, <3>1 DEF TypeOK, WireTypeOK
  <2>4. ResetInv' /\ (Calm' <=> Calm)
    BY <1>1, <1>3, <2>1 DEF ResetInv, Calm
  <2>5. QED
    BY <1>2, <1>3, <2>1, <2>3, <2>4, TransferFrame DEF TypeOK, transferVars
<1>6. QED
  BY <1>4, <1>5 DEF Wire

(* The handler begins, leaves the endpoints, and serves suspend and        *)
(* wake-up; the application wakes the bus up.                              *)
LEMMA QuietStep ==
  ASSUME PipeInv,
         \/ IrqEnter \/ usbd_ept_loop_end
         \/ usbd_suspend_handler \/ usbd_wakeup_handler \/ usbd_remote_wakeup
  PROVE  PipeInv'
<1>1. TypeOK /\ ResetInv
  BY DEF PipeInv
<1>2. CASE IrqEnter
  <2>1. UNCHANGED <<wireVars, coreVars, ept0Vars, applied>>
        /\ irq' = flags \cup IF tc = {} THEN {} ELSE {"TC"}
    BY <1>2 DEF IrqEnter
  <2>2. /\ UNCHANGED <<txsts, rxsts, txpkt, rxpkt, tc, flags, hwaddr, ssp, ept1>>
        /\ UNCHANGED <<bus, stage, req, xfer, got, sent, result, haddr, hconf,
                       resets, suspends>>
        /\ UNCHANGED <<conn_state, old_conn_state, device_addr, dev_config, remote_wakup>>
        /\ UNCHANGED <<ept0_sts, ept0_wlength, in0, out0, stored, stall, applied>>
    BY <2>1 DEF wireVars, coreVars, ept0Vars
  <2>3. irq' \subseteq {"TC", "RST", "SP", "WK"}
    BY <1>1, <2>1 DEF TypeOK, WireTypeOK
  <2>4. TypeOK'
    BY <1>1, <2>2, <2>3 DEF TypeOK, WireTypeOK, CoreTypeOK
  <2>5. ResetInv' /\ (Calm' <=> Calm)
    BY <1>1, <2>1, <2>2 DEF ResetInv, Calm
  <2>6. QED
    BY <2>2, <2>4, <2>5, TransferFrame DEF transferVars
<1>3. CASE usbd_ept_loop_end
  <2>1. UNCHANGED <<wireVars, coreVars, ept0Vars, applied>>
        /\ irq' = irq \ {"TC"} /\ tc = {}
    BY <1>3 DEF usbd_ept_loop_end
  <2>2. /\ UNCHANGED <<txsts, rxsts, txpkt, rxpkt, tc, flags, hwaddr, ssp, ept1>>
        /\ UNCHANGED <<bus, stage, req, xfer, got, sent, result, haddr, hconf,
                       resets, suspends>>
        /\ UNCHANGED <<conn_state, old_conn_state, device_addr, dev_config, remote_wakup>>
        /\ UNCHANGED <<ept0_sts, ept0_wlength, in0, out0, stored, stall, applied>>
    BY <2>1 DEF wireVars, coreVars, ept0Vars
  <2>3. TypeOK'
    BY <1>1, <2>1, <2>2 DEF TypeOK, WireTypeOK, CoreTypeOK
  <2>4. ResetInv' /\ (Calm' <=> Calm)
    BY <1>1, <2>1, <2>2 DEF ResetInv, Calm
  <2>5. QED
    BY <2>2, <2>3, <2>4, TransferFrame DEF transferVars
<1>4. CASE usbd_suspend_handler \/ usbd_wakeup_handler
  <2>1. /\ UNCHANGED <<txsts, rxsts, txpkt, rxpkt, tc, hwaddr, ept1>>
        /\ UNCHANGED <<bus, stage, req, xfer, got, sent, result, haddr, hconf,
                       resets, suspends>>
        /\ UNCHANGED <<device_addr, dev_config, remote_wakup>>
        /\ UNCHANGED <<ept0_sts, ept0_wlength, in0, out0, stored, stall, applied>>
        /\ "RST" \notin irq
        /\ \/ irq' = irq \ {"SP"} /\ flags' = flags \ {"SP"}
           \/ irq' = {} /\ flags' = flags \ {"WK"}
        /\ ssp' \in BOOLEAN
    BY <1>4 DEF usbd_suspend_handler, usbd_wakeup_handler, hostVars, ept0Vars
  <2>2. conn_state' \in ConnStates /\ old_conn_state' \in ConnStates
    BY <1>1, <1>4
       DEF usbd_suspend_handler, usbd_wakeup_handler, TypeOK, CoreTypeOK, ConnStates
  <2>3. TypeOK'
    <3>1. irq' \subseteq {"TC", "RST", "SP", "WK"} /\ flags' \subseteq {"RST", "SP", "WK"}
      BY <1>1, <2>1 DEF TypeOK, WireTypeOK, CoreTypeOK
    <3>2. WireTypeOK'
      BY <1>1, <2>1, <3>1 DEF TypeOK, WireTypeOK
    <3>3. CoreTypeOK'
      BY <1>1, <2>1, <2>2, <3>1 DEF TypeOK, CoreTypeOK
    <3>4. QED
      BY <3>2, <3>3 DEF TypeOK
  <2>4. ResetInv' /\ (Calm' <=> Calm)
    BY <1>1, <2>1 DEF ResetInv, Calm
  <2>5. QED
    BY <2>1, <2>3, <2>4, TransferFrame DEF transferVars
<1>5. CASE usbd_remote_wakeup
  <2>1. /\ UNCHANGED <<txsts, rxsts, txpkt, rxpkt, tc, flags, hwaddr, ept1>>
        /\ UNCHANGED <<stage, req, xfer, got, sent, result, haddr, hconf, resets, suspends>>
        /\ UNCHANGED <<old_conn_state, device_addr, dev_config, remote_wakup>>
        /\ UNCHANGED <<ept0_sts, ept0_wlength, in0, out0, stored, stall, applied, irq>>
        /\ bus' = (IF bus = "idle" THEN "active" ELSE bus)
        /\ ssp' = FALSE /\ conn_state' = old_conn_state
    BY <1>5 DEF usbd_remote_wakeup, ept0Vars
  <2>2. TypeOK'
    <3>1. bus' \in {"active", "idle", "reset"}
      BY <1>1, <2>1 DEF TypeOK, WireTypeOK
    <3>2. WireTypeOK'
      <4>1. ssp' \in BOOLEAN
        BY <2>1
      <4>2. /\ UNCHANGED <<txsts, rxsts, txpkt, rxpkt, tc, flags, hwaddr, ept1>>
            /\ UNCHANGED <<stage, req, xfer, got, sent, result, haddr, hconf,
                           resets, suspends>>
        BY <2>1
      <4>3. QED
        BY <1>1, <3>1, <4>1, <4>2 DEF TypeOK, WireTypeOK
    <3>3. CoreTypeOK'
      BY <1>1, <2>1 DEF TypeOK, CoreTypeOK
    <3>4. QED
      BY <3>2, <3>3 DEF TypeOK
  <2>3. ResetInv' /\ (Calm' <=> Calm)
    BY <1>1, <2>1 DEF ResetInv, Calm
  <2>4. QED
    BY <2>1, <2>2, <2>3, TransferFrame DEF transferVars
<1>6. QED
  BY <1>2, <1>3, <1>4, <1>5

(* A reset is served when everything from before it has been.              *)
LEMMA ResetStep ==
  ASSUME PipeInv, usbd_reset_handler
  PROVE  PipeInv'
<1>1. TypeOK /\ ResetInv /\ IdleInv /\ got = Bytes(xfer, Len(got))
  BY DEF PipeInv
<1>2. /\ UNCHANGED <<txpkt, rxpkt, tc, ssp, ept1>>
      /\ UNCHANGED <<bus, stage, req, xfer, got, sent, result, haddr, hconf, resets, suspends>>
      /\ UNCHANGED <<old_conn_state, device_addr, dev_config, remote_wakup>>
      /\ UNCHANGED <<ept0_sts, ept0_wlength, out0, stall, applied>>
      /\ "TC" \notin irq /\ "RST" \in irq
      /\ irq' = irq \ {"RST"} /\ flags' = flags \ {"RST"}
      /\ rxsts' = "valid" /\ txsts' = "nak" /\ hwaddr' = 0
      /\ in0' = [in0 EXCEPT !.of = 0, !.off = 0]
      /\ stored' = <<>> /\ conn_state' = "DEFAULT"
  BY DEF usbd_reset_handler, hostVars
<1>3. in0' \in EptIn
  BY <1>1, <1>2 DEF TypeOK, CoreTypeOK, EptIn
<1>4. WireTypeOK'
  BY <1>1, <1>2 DEF TypeOK, WireTypeOK
<1>5. CoreTypeOK'
  BY <1>1, <1>2, <1>3, EmptySeq DEF TypeOK, CoreTypeOK, ConnStates
<1>6. stage = "idle" /\ tc = {}
  BY <1>1, <1>2 DEF ResetInv, Calm
<1>7. ResetInv' /\ IdleInv' /\ SetupInv' /\ StageInv' /\ ReadInv' /\ WriteInv'
  BY <1>1, <1>2, <1>6
     DEF ResetInv, IdleInv, SetupInv, StageInv, ReadInv, WriteInv, SetupPending
<1>8. QED
  BY <1>1, <1>2, <1>4, <1>5, <1>7 DEF PipeInv, TypeOK

(***************************************************************************)
(* Endpoint 0, the core's callbacks.                                       *)
(***************************************************************************)

(* A packet that the core arms.                                            *)
LEMMA SendFacts ==
  ASSUME NEW info \in EptIn, NEW n \in Nat, usbd_ept_send(info, n)
  PROVE  /\ Transfers!Min2(n, MaxPacket) \in 0 .. MaxPacket
         /\ in0' = [info EXCEPT !.last_len = Transfers!Min2(n, MaxPacket)]
         /\ in0' \in EptIn
         /\ txpkt' = Packet(info.of, info.off, Transfers!Min2(n, MaxPacket))
         /\ txpkt' \in Seq(Byte) /\ Len(txpkt') <= MaxPacket
         /\ txsts' = "valid"
<1> DEFINE m == Transfers!Min2(n, MaxPacket)
<1>1. m \in 0 .. MaxPacket /\ m \in Nat
  BY ConstantFacts DEF Transfers!Min2
<1>2. /\ in0' = [info EXCEPT !.last_len = m] /\ txsts' = "valid"
      /\ txpkt' = Packet(info.of, info.off, m)
  BY DEF usbd_ept_send, Packet
<1>3. in0' \in EptIn
  BY <1>1, <1>2 DEF EptIn
<1>4. info.of \in Nat /\ info.off \in Nat
  BY DEF EptIn
<1>5. txpkt' \in Seq(Byte) /\ Len(txpkt') <= MaxPacket
  BY <1>1, <1>2, <1>4, PacketType
<1>6. QED
  BY <1>1, <1>2, <1>3, <1>5

(* What usbd_core_in_handler can do once the position is info's.           *)
NextPacket(info) ==
  /\ ept0_sts = "DATA_IN" /\ info.rem0_len > MaxPacket
  /\ in0' = [info EXCEPT !.rem0_len = @ - MaxPacket,
                         !.last_len = Transfers!Min2(info.rem0_len - MaxPacket, MaxPacket)]
  /\ txsts' = "valid" /\ rxsts' = rxsts /\ ept0_sts' = ept0_sts

LastPacket(info) ==
  /\ ept0_sts = "DATA_IN" /\ info.rem0_len <= MaxPacket
  /\ info.last_len = MaxPacket /\ info.ept0_slen >= MaxPacket
  /\ info.ept0_slen < ept0_wlength
  /\ in0' = [info EXCEPT !.last_len = 0]
  /\ txsts' = "valid" /\ rxsts' = "valid" /\ ept0_sts' = ept0_sts

ToStatus(info) ==
  /\ ept0_sts = "DATA_IN" /\ info.rem0_len <= MaxPacket
  /\ ~(/\ info.last_len = MaxPacket /\ info.ept0_slen >= MaxPacket
       /\ info.ept0_slen < ept0_wlength)
  /\ in0' = info /\ ept0_sts' = "STATUS_OUT" /\ rxsts' = "valid"
  /\ UNCHANGED <<txpkt, txsts>>

NotReading(info) ==
  /\ ept0_sts # "DATA_IN"
  /\ in0' = info
  /\ UNCHANGED <<txpkt, txsts, rxsts, ept0_sts>>

LEMMA InHandler ==
  ASSUME NEW info \in EptIn, txpkt \in Seq(Byte), Len(txpkt) <= MaxPacket,
         usbd_core_in_handler(info)
  PROVE  /\ in0' \in EptIn /\ txpkt' \in Seq(Byte) /\ Len(txpkt') <= MaxPacket
         /\ \/ NextPacket(info) \/ LastPacket(info)
            \/ ToStatus(info) \/ NotReading(info)
         /\ NextPacket(info) \/ LastPacket(info) =>
              txpkt' = Packet(in0'.of, in0'.off, in0'.last_len)
<1>1. MaxPacket \in Nat /\ MaxPacket >= 1 /\ info.rem0_len \in Nat
  BY ConstantFacts DEF EptIn
<1>2. CASE ept0_sts = "DATA_IN" /\ info.rem0_len > MaxPacket
  <2> DEFINE j == [info EXCEPT !.rem0_len = @ - MaxPacket]
             n == info.rem0_len - MaxPacket
  <2>1. usbd_ept_send(j, n) /\ rxsts' = rxsts /\ ept0_sts' = ept0_sts
    BY <1>1, <1>2 DEF usbd_core_in_handler
  <2>2. j \in EptIn /\ n \in Nat
    BY <1>1, <1>2 DEF EptIn
  <2>3. /\ Transfers!Min2(n, MaxPacket) \in 0 .. MaxPacket
        /\ in0' = [j EXCEPT !.last_len = Transfers!Min2(n, MaxPacket)] /\ in0' \in EptIn
        /\ txpkt' = Packet(j.of, j.off, Transfers!Min2(n, MaxPacket))
        /\ txpkt' \in Seq(Byte) /\ Len(txpkt') <= MaxPacket /\ txsts' = "valid"
    <3> HIDE DEF j, n
    <3> QED
      BY <2>1, <2>2, SendFacts
  <2>4. in0' = [info EXCEPT !.rem0_len = @ - MaxPacket,
                            !.last_len = Transfers!Min2(info.rem0_len - MaxPacket, MaxPacket)]
    BY <2>3 DEF EptIn
  <2>5. in0'.of = j.of /\ in0'.off = j.off /\ in0'.last_len = Transfers!Min2(n, MaxPacket)
    BY <2>2, <2>3 DEF EptIn
  <2>6. QED
    BY <1>2, <2>1, <2>3, <2>4, <2>5 DEF NextPacket
<1>3. CASE /\ ept0_sts = "DATA_IN" /\ info.rem0_len <= MaxPacket
           /\ info.last_len = MaxPacket /\ info.ept0_slen >= MaxPacket
           /\ info.ept0_slen < ept0_wlength
  <2>1. usbd_ept_send(info, 0) /\ rxsts' = "valid" /\ ept0_sts' = ept0_sts
    BY <1>1, <1>3 DEF usbd_core_in_handler
  <2>2. Transfers!Min2(0, MaxPacket) = 0
    BY <1>1 DEF Transfers!Min2
  <2>3. /\ in0' = [info EXCEPT !.last_len = 0] /\ in0' \in EptIn
        /\ txpkt' = Packet(info.of, info.off, 0)
        /\ txpkt' \in Seq(Byte) /\ Len(txpkt') <= MaxPacket /\ txsts' = "valid"
    BY <2>1, <2>2, SendFacts
  <2>4. in0'.of = info.of /\ in0'.off = info.off /\ in0'.last_len = 0
    BY <2>3 DEF EptIn
  <2>5. QED
    BY <1>3, <2>1, <2>3, <2>4 DEF LastPacket
<1>4. CASE /\ ept0_sts = "DATA_IN" /\ info.rem0_len <= MaxPacket
           /\ ~(/\ info.last_len = MaxPacket /\ info.ept0_slen >= MaxPacket
                /\ info.ept0_slen < ept0_wlength)
  <2>1. ToStatus(info)
    BY <1>1, <1>4 DEF usbd_core_in_handler, ToStatus
  <2>2. QED
    BY <1>1, <2>1 DEF ToStatus, NextPacket, LastPacket
<1>5. CASE ept0_sts # "DATA_IN"
  <2>1. NotReading(info)
    BY <1>5 DEF usbd_core_in_handler, NotReading
  <2>2. QED
    BY <2>1 DEF NotReading, NextPacket, LastPacket
<1>6. QED
  BY <1>1, <1>2, <1>3, <1>4, <1>5

(* A transmit completion: the position moves by what was sent.             *)
LEMMA TxStep ==
  ASSUME PipeInv, EptTx
  PROVE  PipeInv'
<1> DEFINE info == [in0 EXCEPT !.off = @ + Len(txpkt)]
<1>1. TypeOK /\ ResetInv /\ IdleInv /\ SetupInv /\ StageInv /\ ReadInv /\ WriteInv
      /\ got = Bytes(xfer, Len(got))
  BY DEF PipeInv
<1>2. /\ "TC" \in irq /\ "TX" \in tc /\ tc' = tc \ {"TX"}
      /\ usbd_core_in_handler(info)
      /\ IF conn_state = "ADDRESSED" /\ device_addr > 0
           THEN hwaddr' = device_addr /\ device_addr' = 0
           ELSE UNCHANGED <<hwaddr, device_addr>>
      /\ UNCHANGED <<rxpkt, flags, ssp, ept1, conn_state, old_conn_state, dev_config>>
      /\ UNCHANGED <<remote_wakup, ept0_wlength, out0, stored, stall, applied, irq>>
      /\ UNCHANGED <<bus, stage, req, xfer, got, sent, result, haddr, hconf,
                     resets, suspends>>
  BY DEF EptTx, hostVars
<1>3. txpkt \in Seq(Byte) /\ Len(txpkt) <= MaxPacket /\ Len(txpkt) \in Nat /\ in0 \in EptIn
  BY <1>1 DEF TypeOK, WireTypeOK, CoreTypeOK
<1>4. info \in EptIn
  BY <1>3 DEF EptIn
<1>5. /\ in0' \in EptIn /\ txpkt' \in Seq(Byte) /\ Len(txpkt') <= MaxPacket
      /\ NextPacket(info) \/ LastPacket(info) \/ ToStatus(info) \/ NotReading(info)
      /\ NextPacket(info) \/ LastPacket(info) =>
           txpkt' = Packet(in0'.of, in0'.off, in0'.last_len)
  <2> HIDE DEF info
  <2> QED
    BY <1>2, <1>3, <1>4, InHandler
<1>6. /\ txsts' \in {txsts, "valid"} /\ rxsts' \in {rxsts, "valid"}
      /\ ept0_sts' \in {ept0_sts, "STATUS_OUT"}
      /\ ept0_sts # "DATA_IN" => UNCHANGED <<txpkt, txsts, rxsts, ept0_sts>>
  BY <1>5 DEF NextPacket, LastPacket, ToStatus, NotReading
<1>7. TypeOK'
  <2>1. hwaddr' \in Nat /\ device_addr' \in Nat
    BY <1>1, <1>2, SMTT(30) DEF TypeOK, WireTypeOK, CoreTypeOK
  <2>2. WireTypeOK'
    BY <1>1, <1>2, <1>5, <1>6, <2>1 DEF TypeOK, WireTypeOK
  <2>3. CoreTypeOK'
    BY <1>1, <1>2, <1>5, <1>6, <2>1 DEF TypeOK, CoreTypeOK
  <2>4. QED
    BY <2>2, <2>3 DEF TypeOK
<1>8. (Calm' <=> Calm) /\ (SetupPending' <=> SetupPending) /\ ("OUT" \in tc' <=> "OUT" \in tc)
      /\ "TX" \notin tc'
  BY <1>2 DEF Calm, SetupPending
<1>9. ResetInv' /\ StageInv' /\ (got = Bytes(xfer, Len(got)))'
  BY <1>1, <1>2, <1>8 DEF ResetInv, StageInv
<1>10. IdleInv' /\ SetupInv'
  BY <1>1, <1>2, <1>6, <1>8 DEF IdleInv, SetupInv
<1>11. WriteInv'
  BY <1>1, <1>2, <1>8 DEF WriteInv
<1>12. ReadInv'
  <2>1. CASE stage = "data_in" /\ ~SetupPending
    <3>1. Sending /\ rxsts # "stall" /\ "OUT" \notin tc
      BY <1>1, <1>2, <2>1 DEF ReadInv
    <3>2. /\ ept0_sts = "DATA_IN" /\ ept0_wlength = req.wLength /\ in0.of = xfer
          /\ in0.ept0_slen = Expected(req) /\ in0.ept0_slen <= req.wLength
          /\ DataPacket \/ EndPacket
          /\ Len(got) = in0.off + in0.last_len /\ in0.last_len = MaxPacket
          /\ Len(got) < req.wLength
          /\ txpkt = Packet(xfer, in0.off, in0.last_len)
      BY <1>2, <3>1 DEF Sending, Packet
    <3>3. /\ MaxPacket \in Nat /\ MaxPacket >= 1 /\ xfer \in Nat
          /\ in0.off \in Nat /\ in0.rem0_len \in Nat /\ in0.ept0_slen \in Nat
      BY <1>1, <1>3, ConstantFacts, HostAssumption DEF TypeOK, WireTypeOK, EptIn
    <3>4. Len(txpkt) = MaxPacket
      BY <3>2, <3>3, PacketType, ZenonT(40)
    <3>5. /\ in0.rem0_len = in0.ept0_slen - in0.off /\ in0.rem0_len >= MaxPacket
      BY <3>2, <3>3 DEF DataPacket, EndPacket, Transfers!Min2
    <3>6. /\ info.of = xfer /\ info.off = in0.off + MaxPacket
          /\ info.rem0_len = in0.rem0_len /\ info.last_len = MaxPacket
          /\ info.ept0_slen = in0.ept0_slen
      BY <1>3, <3>2, <3>4 DEF EptIn
    <3>7. ~NotReading(info) /\ ~ToStatus(info)
      BY <3>2, <3>3, <3>5, <3>6 DEF NotReading, ToStatus
    <3>8. /\ in0'.of = xfer /\ in0'.off = Len(got) /\ in0'.ept0_slen = in0.ept0_slen
          /\ txsts' = "valid" /\ rxsts' \in {rxsts, "valid"} /\ ept0_sts' = "DATA_IN"
          /\ (DataPacket \/ EndPacket)'
      <4>1. CASE NextPacket(info)
        <5>1. /\ in0'.rem0_len = in0.rem0_len - MaxPacket
              /\ in0'.last_len = Transfers!Min2(in0.rem0_len - MaxPacket, MaxPacket)
              /\ in0'.of = xfer /\ in0'.off = in0.off + MaxPacket
              /\ in0'.ept0_slen = in0.ept0_slen
          BY <1>4, <3>6, <4>1 DEF NextPacket, EptIn
        <5>2. in0.rem0_len > MaxPacket
          BY <3>6, <4>1 DEF NextPacket
        <5>3. DataPacket'
          BY <3>3, <3>5, <5>1, <5>2 DEF DataPacket
        <5>4. QED
          BY <1>6, <3>2, <4>1, <5>1, <5>3 DEF NextPacket
      <4>2. CASE LastPacket(info)
        <5>1. /\ in0'.rem0_len = in0.rem0_len /\ in0'.last_len = 0
              /\ in0'.of = xfer /\ in0'.off = in0.off + MaxPacket
              /\ in0'.ept0_slen = in0.ept0_slen
          BY <1>4, <3>6, <4>2 DEF LastPacket, EptIn
        <5>2. in0.rem0_len <= MaxPacket
          BY <3>6, <4>2 DEF LastPacket
        <5>3. EndPacket'
          BY <3>3, <3>5, <5>1, <5>2 DEF EndPacket
        <5>4. QED
          BY <1>6, <3>2, <4>2, <5>1, <5>3 DEF LastPacket
      <4>3. QED
        BY <1>5, <3>7, <4>1, <4>2
    <3>9. txpkt' = Packet(xfer, in0'.off, in0'.last_len)
      BY <1>5, <3>7, <3>8
    <3>10. Sending'
      BY <1>2, <3>2, <3>8, <3>9, <1>8 DEF Sending, Packet
    <3>11. QED
      BY <1>2, <1>8, <2>1, <3>1, <3>8, <3>10 DEF ReadInv
  <2>2. CASE ~(stage = "data_in" /\ ~SetupPending)
    BY <1>1, <1>2, <1>6, <1>8, <2>2 DEF ReadInv
  <2>3. QED
    BY <2>1, <2>2
<1>13. QED
  BY <1>7, <1>9, <1>10, <1>11, <1>12 DEF PipeInv

(* A packet of a write has come in.                                        *)
LEMMA OutStep ==
  ASSUME PipeInv, EptOut
  PROVE  PipeInv'
<1>1. TypeOK /\ ResetInv /\ IdleInv /\ SetupInv /\ StageInv /\ ReadInv /\ WriteInv
      /\ got = Bytes(xfer, Len(got))
  BY DEF PipeInv
<1>2. /\ "TC" \in irq /\ "TX" \notin tc /\ ~SetupPending /\ "OUT" \in tc
      /\ tc' = tc \ {"OUT"}
      /\ stored' = IF ept0_sts = "DATA_OUT" THEN stored \o rxpkt ELSE stored
      /\ UNCHANGED <<rxpkt, flags, hwaddr, ssp, ept1, ept0_wlength, stall, irq>>
      /\ UNCHANGED <<conn_state, old_conn_state, device_addr, dev_config, remote_wakup>>
      /\ UNCHANGED <<bus, stage, req, xfer, got, sent, result, haddr, hconf,
                     resets, suspends>>
  BY DEF EptOut, hostVars, coreVars, SetupPending
<1>3. /\ MaxPacket \in Nat /\ MaxPacket >= 1 /\ in0 \in EptIn /\ out0 \in Nat
      /\ stored \in Seq(Byte) /\ rxpkt \in Seq(Byte) /\ applied \in Seq(Byte)
      /\ txpkt \in Seq(Byte) /\ Len(txpkt) <= MaxPacket
  BY <1>1, ConstantFacts DEF TypeOK, WireTypeOK, CoreTypeOK
<1>4. stored' \in Seq(Byte)
  BY <1>2, <1>3, ConcatProperties
<1>5. \/ /\ ept0_sts = "DATA_OUT" /\ out0 > MaxPacket
         /\ out0' = out0 - MaxPacket /\ rxsts' = "valid"
         /\ UNCHANGED <<ept0_sts, in0, txpkt, txsts, applied>>
      \/ /\ ept0_sts = "DATA_OUT" /\ out0 <= MaxPacket
         /\ applied' = stored' /\ ept0_sts' = "STATUS_IN"
         /\ txpkt' = <<>> /\ in0' \in EptIn /\ txsts' = "valid"
         /\ UNCHANGED <<out0, rxsts>>
      \/ /\ ept0_sts # "DATA_OUT"
         /\ UNCHANGED <<ept0_sts, in0, out0, txpkt, txsts, rxsts, applied>>
  <2>1. ASSUME usbd_ept_send(in0, 0)
        PROVE  txpkt' = <<>> /\ in0' \in EptIn /\ txsts' = "valid"
    <3>1. Transfers!Min2(0, MaxPacket) = 0
      BY <1>3 DEF Transfers!Min2
    <3>2. txpkt' = Packet(in0.of, in0.off, 0) /\ in0' \in EptIn /\ txsts' = "valid"
      BY <1>3, <2>1, <3>1, SendFacts
    <3>3. in0.of \in Nat /\ in0.off \in Nat
      BY <1>3 DEF EptIn
    <3>4. QED
      BY <3>2, <3>3, BytesEmpty
  <2>2. usbd_core_out_handler
    BY DEF EptOut
  <2>3. QED
    BY <2>1, <2>2 DEF usbd_core_out_handler
<1>6. TypeOK'
  <2>1. /\ txsts' \in {txsts, "valid"} /\ rxsts' \in {rxsts, "valid"}
        /\ ept0_sts' \in {ept0_sts, "STATUS_IN"} /\ in0' \in EptIn
        /\ out0' \in Nat /\ applied' \in Seq(Byte)
        /\ txpkt' \in Seq(Byte) /\ Len(txpkt') <= MaxPacket
    <3>1. txsts' \in {txsts, "valid"} /\ rxsts' \in {rxsts, "valid"}
          /\ ept0_sts' \in {ept0_sts, "STATUS_IN"} /\ in0' \in EptIn
      BY <1>3, <1>5
    <3>2. out0' \in Nat
      BY <1>3, <1>5
    <3>3. applied' \in {applied, stored'} /\ txpkt' \in {txpkt, <<>>}
      BY <1>5
    <3>4. <<>> \in Seq(Byte) /\ Len(<<>>) <= MaxPacket
      BY <1>3, EmptySeq
    <3>5. QED
      BY <1>3, <1>4, <3>1, <3>2, <3>3, <3>4
  <2>2. WireTypeOK'
    BY <1>1, <1>2, <2>1 DEF TypeOK, WireTypeOK
  <2>3. CoreTypeOK'
    BY <1>1, <1>2, <1>4, <2>1 DEF TypeOK, CoreTypeOK
  <2>4. QED
    BY <2>2, <2>3 DEF TypeOK
<1>7. (Calm' <=> Calm) /\ ~SetupPending' /\ "OUT" \notin tc' /\ "TX" \notin tc'
  BY <1>2 DEF Calm, SetupPending
<1>8. ResetInv' /\ StageInv' /\ SetupInv' /\ (got = Bytes(xfer, Len(got)))'
  BY <1>1, <1>2, <1>7 DEF ResetInv, StageInv, SetupInv
<1>9. stage \notin {"data_in", "status_out"}
  BY <1>1, <1>2 DEF ReadInv
<1>10. ReadInv'
  BY <1>2, <1>9 DEF ReadInv
<1>11. IdleInv'
  BY <1>1, <1>2, <1>5, <1>7 DEF IdleInv
<1>12. WriteInv'
  <2>1. CASE stage \in {"data_out", "status_in"}
    <3>1. got = <<>> /\ ept0_sts = "DATA_OUT" /\ Storing
      BY <1>1, <1>2, <2>1 DEF WriteInv
    <3>2. /\ req.name = "CLASS_OUT" /\ req.wLength # 0
          /\ txsts # "valid" /\ rxsts # "stall" /\ out0 = req.wLength - Len(stored)
          /\ stored' = Bytes(xfer, sent) /\ Len(rxpkt) = Transfers!Min2(out0, MaxPacket)
          /\ IF stage = "data_out" THEN sent < req.wLength ELSE sent = req.wLength
      BY <1>2, <3>1 DEF Storing
    <3>3. xfer \in Nat /\ sent \in Nat /\ req \in Requests /\ req.wLength \in Nat
      BY <1>1, <2>1, ConstantFacts, HostAssumption DEF TypeOK, WireTypeOK, StageInv
    <3>4. Len(stored') = sent
      BY <3>2, <3>3, BytesType
    <3>5. stored' = stored \o rxpkt
      BY <1>2, <3>1
    <3>6. Len(stored') = Len(stored) + Len(rxpkt) /\ Len(stored) \in Nat
      BY <1>3, <3>5, ConcatProperties
    <3>7. CASE out0 > MaxPacket
      <4>1. /\ out0' = out0 - MaxPacket /\ rxsts' = "valid"
            /\ UNCHANGED <<ept0_sts, txsts, txpkt>>
        BY <1>3, <1>5, <3>1, <3>7
      <4>2. Len(rxpkt) = MaxPacket
        BY <1>3, <3>2, <3>7 DEF Transfers!Min2
      <4>3. out0' = req.wLength - Len(stored')
        BY <1>3, <3>2, <3>3, <3>6, <4>1, <4>2, SMTT(30)
      <4>4. sent < req.wLength
        BY <1>3, <3>3, <3>4, <3>7, <4>1, <4>3
      <4>5. stage = "data_out"
        BY <2>1, <3>2, <3>3, <4>4
      <4>6. Storing'
        BY <1>2, <1>7, <3>2, <4>1, <4>3, <4>4, <4>5 DEF Storing
      <4>7. QED
        BY <1>2, <1>7, <3>1, <3>2, <4>1, <4>5, <4>6 DEF WriteInv
    <3>8. CASE out0 <= MaxPacket
      <4>1. /\ applied' = stored' /\ ept0_sts' = "STATUS_IN" /\ txpkt' = <<>>
        BY <1>3, <1>5, <3>1, <3>8
      <4>2. Len(rxpkt) = out0
        BY <1>3, <3>2, <3>8 DEF Transfers!Min2
      <4>3. sent = req.wLength
        BY <3>2, <3>3, <3>4, <3>6, <4>2
      <4>4. stage = "status_in"
        BY <2>1, <3>2, <3>3, <4>3
      <4>5. Expected(req) = 0
        BY <3>2 DEF Expected, Transfers!Expected
      <4>6. applied' = Bytes(xfer, req.wLength)
        BY <3>2, <4>1, <4>3
      <4>7. QED
        BY <1>2, <1>7, <3>1, <4>1, <4>4, <4>5, <4>6 DEF WriteInv
    <3>9. QED
      BY <1>3, <3>7, <3>8
  <2>2. CASE stage \notin {"data_out", "status_in"}
    BY <1>2, <2>2 DEF WriteInv
  <2>3. QED
    BY <2>1, <2>2
<1>13. QED
  BY <1>6, <1>8, <1>10, <1>11, <1>12 DEF PipeInv

(***************************************************************************)
(* The SETUP handler: each request ends in one of four answers.            *)
(***************************************************************************)

Sends(n) ==
  /\ ept0_sts' = "DATA_IN" /\ txsts' = "valid" /\ rxsts' = rxsts
  /\ in0' = [of |-> xfer, off |-> 0, rem0_len |-> n,
             last_len |-> Transfers!Min2(n, MaxPacket), ept0_slen |-> n]
  /\ txpkt' = Packet(xfer, 0, Transfers!Min2(n, MaxPacket))
  /\ UNCHANGED <<out0, stored>>

Receives ==
  /\ ept0_sts' = "DATA_OUT" /\ rxsts' = "valid"
  /\ out0' = req.wLength /\ stored' = <<>>
  /\ UNCHANGED <<txsts, txpkt, in0>>

Acknowledges ==
  /\ ept0_sts' = "STATUS_IN" /\ txsts' = "valid" /\ rxsts' = rxsts
  /\ txpkt' = <<>> /\ in0' \in EptIn
  /\ UNCHANGED <<out0, stored>>

Refuses ==
  /\ ept0_sts' = "SETUP"
  /\ txsts' \in {txsts, "stall"} /\ rxsts' \in {rxsts, "stall"}
  /\ UNCHANGED <<txpkt, in0, out0, stored>>

Answers ==
  \/ Sends(Expected(req)) /\ Reads(req) /\ 1 <= Expected(req) /\ Expected(req) <= req.wLength
  \/ Receives /\ req.name = "CLASS_OUT" /\ req.wLength # 0
  \/ /\ Acknowledges /\ Expected(req) = 0
     /\ ~Reads(req) \/ req.wLength = 0
     /\ ~(req.name = "CLASS_OUT" /\ req.wLength # 0)
  \/ Refuses

(* What a request leaves of the types of the other variables.              *)
OtherTypes ==
  /\ conn_state' \in ConnStates /\ old_conn_state' \in ConnStates
  /\ device_addr' \in Nat /\ dev_config' \in Nat /\ remote_wakup' \in BOOLEAN
  /\ stall' \subseteq {"in0", "out0", "in1"}
  /\ ept1' \in {"disabled", "nak", "valid", "stall"}

LEMMA CtrlSend ==
  ASSUME TypeOK, req \in Requests, NEW n \in Nat, usbd_ctrl_send(n)
  PROVE  Sends(n) /\ UNCHANGED stall
<1> DEFINE info == [in0 EXCEPT !.of = xfer, !.off = 0, !.rem0_len = n, !.ept0_slen = n]
<1>1. xfer \in Nat /\ in0 \in EptIn
  BY HostAssumption DEF TypeOK, WireTypeOK, CoreTypeOK
<1>2. info \in EptIn /\ info.of = xfer /\ info.off = 0
  BY <1>1 DEF EptIn
<1>3. usbd_ept_send(info, n) /\ ept0_sts' = "DATA_IN" /\ UNCHANGED <<rxsts, out0, stored, stall>>
  BY DEF usbd_ctrl_send
<1>4. /\ in0' = [info EXCEPT !.last_len = Transfers!Min2(n, MaxPacket)]
      /\ txpkt' = Packet(info.of, info.off, Transfers!Min2(n, MaxPacket))
      /\ txsts' = "valid"
  <2> HIDE DEF info
  <2> QED
    BY <1>2, <1>3, SendFacts
<1>5. in0' = [of |-> xfer, off |-> 0, rem0_len |-> n,
              last_len |-> Transfers!Min2(n, MaxPacket), ept0_slen |-> n]
  BY <1>1, <1>4 DEF EptIn
<1>6. QED
  BY <1>2, <1>3, <1>4, <1>5 DEF Sends

LEMMA Acknowledge ==
  ASSUME TypeOK, ept0_sts' = "STATUS_IN", usbd_ept_send(in0, 0),
         UNCHANGED <<rxsts, out0, stored>>
  PROVE  Acknowledges
<1>1. in0 \in EptIn /\ Transfers!Min2(0, MaxPacket) = 0
  BY ConstantFacts DEF TypeOK, CoreTypeOK, Transfers!Min2
<1>2. in0.of \in Nat /\ in0.off \in Nat
  BY <1>1 DEF EptIn
<1>3. txpkt' = Packet(in0.of, in0.off, 0) /\ in0' \in EptIn /\ txsts' = "valid"
  BY <1>1, SendFacts
<1>4. QED
  BY <1>2, <1>3, BytesEmpty DEF Acknowledges

LEMMA SendStatus ==
  ASSUME TypeOK, usbd_ctrl_send_status
  PROVE  Acknowledges /\ UNCHANGED stall
BY Acknowledge DEF usbd_ctrl_send_status

LEMMA Unsupport ==
  ASSUME TypeOK, usbd_ctrl_unsupport \/ NoAnswer
  PROVE  Refuses /\ stall' \subseteq {"in0", "out0", "in1"}
<1>1. stall \subseteq {"in0", "out0", "in1"}
  BY DEF TypeOK, CoreTypeOK
<1>2. QED
  BY <1>1 DEF usbd_ctrl_unsupport, NoAnswer, Refuses

(* Every request is answered in one of the four ways, a read with the      *)
(* length that the host is promised.                                       *)
LEMMA RequestAnswers ==
  ASSUME TypeOK, req \in Requests,
         \/ usbd_get_descriptor \/ usbd_set_address \/ usbd_get_status
         \/ usbd_clear_feature \/ usbd_set_feature
         \/ usbd_get_configuration \/ usbd_set_configuration
         \/ usbd_interface_request \/ usbd_endpoint_request \/ UnknownRequest
  PROVE  Answers /\ OtherTypes
<1>1. req.value \in Nat /\ req.wLength \in Nat
  BY ConstantFacts
<1>2. /\ conn_state \in ConnStates /\ old_conn_state \in ConnStates
      /\ device_addr \in Nat /\ dev_config \in Nat /\ remote_wakup \in BOOLEAN
      /\ stall \subseteq {"in0", "out0", "in1"}
      /\ ept1 \in {"disabled", "nak", "valid", "stall"}
  BY DEF TypeOK, CoreTypeOK, WireTypeOK
<1>3. UNCHANGED <<coreVars, ept1>> /\ stall' \subseteq {"in0", "out0", "in1"} => OtherTypes
  BY <1>2 DEF OtherTypes, coreVars
<1>4. CASE usbd_get_descriptor
  <2>1. CASE req.value # 0 /\ req.wLength # 0
    <3>1. usbd_ctrl_send(Expected(req))
      BY <1>4, <2>1 DEF usbd_get_descriptor, Expected, Transfers!Expected
    <3>2. 1 <= Expected(req) /\ Expected(req) <= req.wLength /\ Reads(req)
      BY <1>1, <1>4, <2>1
         DEF usbd_get_descriptor, Expected, Transfers!Expected, Transfers!Min2, Reads
    <3>3. Sends(Expected(req)) /\ UNCHANGED stall
      BY <3>1, CtrlSend, ConstantFacts
    <3>4. QED
      BY <1>2, <1>3, <1>4, <3>2, <3>3 DEF Answers, usbd_get_descriptor
  <2>2. CASE ~(req.value # 0 /\ req.wLength # 0)
    BY <1>3, <1>4, <2>2, Unsupport DEF usbd_get_descriptor, Answers
  <2>3. QED
    BY <2>1, <2>2
<1>5. CASE usbd_set_address
  <2>1. ~Reads(req) /\ Expected(req) = 0 /\ req.name # "CLASS_OUT"
    BY <1>5 DEF usbd_set_address, Reads, Expected, Transfers!Expected
  <2>2. (Acknowledges /\ UNCHANGED stall) \/ (Refuses /\ stall' \subseteq {"in0", "out0", "in1"})
    BY <1>5, SendStatus, Unsupport DEF usbd_set_address
  <2>3. /\ conn_state' \in ConnStates /\ device_addr' \in Nat
        /\ UNCHANGED <<old_conn_state, dev_config, remote_wakup, ept1>>
    BY <1>1, <1>2, <1>5 DEF usbd_set_address, ConnStates
  <2>4. QED
    BY <1>2, <2>1, <2>2, <2>3 DEF Answers, OtherTypes
<1>6. CASE usbd_get_status
  <2>1. Expected(req) = 2 /\ Reads(req) /\ req.wLength >= 2
    BY <1>6, LengthsAssumption DEF usbd_get_status, Expected, Transfers!Expected, Reads
  <2>2. (Sends(2) /\ UNCHANGED stall) \/ (Refuses /\ stall' \subseteq {"in0", "out0", "in1"})
    BY <1>6, CtrlSend, Unsupport DEF usbd_get_status
  <2>3. Answers
    BY <1>1, <2>1, <2>2 DEF Answers
  <2>4. OtherTypes
    BY <1>2, <1>3, <1>6, <2>2 DEF usbd_get_status
  <2>5. QED
    BY <2>3, <2>4
<1>7. CASE usbd_clear_feature \/ usbd_set_feature
  <2>1. ~Reads(req) /\ Expected(req) = 0 /\ req.name # "CLASS_OUT"
    BY <1>7 DEF usbd_clear_feature, usbd_set_feature, Reads, Expected, Transfers!Expected
  <2>2. (Acknowledges /\ UNCHANGED stall) \/ (Refuses /\ stall' \subseteq {"in0", "out0", "in1"})
    BY <1>7, SendStatus, Unsupport DEF usbd_clear_feature, usbd_set_feature
  <2>3. /\ UNCHANGED <<conn_state, old_conn_state, device_addr, dev_config, ept1>>
        /\ remote_wakup' \in {TRUE, FALSE, remote_wakup}
    BY <1>7 DEF usbd_clear_feature, usbd_set_feature
  <2>4. remote_wakup' \in BOOLEAN
    BY <1>2, <2>3
  <2>5. QED
    BY <1>2, <2>1, <2>2, <2>3, <2>4 DEF Answers, OtherTypes
<1>8. CASE usbd_get_configuration
  <2>1. Expected(req) = 1 /\ Reads(req)
    BY <1>8 DEF usbd_get_configuration, Expected, Transfers!Expected, Reads
  <2>2. \/ Sends(1) /\ UNCHANGED stall /\ req.wLength = 1
        \/ Refuses /\ stall' \subseteq {"in0", "out0", "in1"}
    BY <1>8, CtrlSend, Unsupport DEF usbd_get_configuration
  <2>3. Answers
    BY <1>1, <2>1, <2>2 DEF Answers
  <2>4. OtherTypes
    BY <1>2, <1>3, <1>8, <2>2 DEF usbd_get_configuration
  <2>5. QED
    BY <2>3, <2>4
<1>9. CASE usbd_set_configuration
  <2>1. ~Reads(req) /\ Expected(req) = 0 /\ req.name # "CLASS_OUT"
    BY <1>9 DEF usbd_set_configuration, Reads, Expected, Transfers!Expected
  <2>2. (Acknowledges /\ UNCHANGED stall) \/ (Refuses /\ stall' \subseteq {"in0", "out0", "in1"})
    BY <1>9, SendStatus, Unsupport DEF usbd_set_configuration
  <2>3. /\ conn_state' \in ConnStates /\ dev_config' \in Nat
        /\ ept1' \in {"disabled", "nak", "valid", "stall"}
        /\ UNCHANGED <<old_conn_state, device_addr, remote_wakup>>
    BY <1>1, <1>2, <1>9
       DEF usbd_set_configuration, ConnStates, class_init_handler, class_clear_handler
  <2>4. QED
    BY <1>2, <2>1, <2>2, <2>3 DEF Answers, OtherTypes
<1>10. CASE usbd_interface_request
  <2>1. /\ req.name \in {"CLASS_IN", "CLASS_OUT", "GET_INTERFACE", "SET_INTERFACE"}
        /\ UNCHANGED <<coreVars, ept1>>
        /\ \/ req.wLength = 0 /\ usbd_ctrl_send_status
           \/ req.wLength # 0 /\ class_setup_handler
           \/ usbd_ctrl_unsupport
    BY <1>10 DEF usbd_interface_request
  <2>2. CASE usbd_ctrl_unsupport
    BY <1>3, <2>1, <2>2, Unsupport DEF Answers
  <2>3. CASE req.wLength = 0 /\ usbd_ctrl_send_status
    <3>1. req.name # "GET_INTERFACE"
      BY <1>1, <2>3, LengthsAssumption
    <3>2. Expected(req) = 0
      BY <2>1, <2>3, <3>1 DEF Expected, Transfers!Expected
    <3>3. QED
      BY <1>2, <1>3, <2>1, <2>3, <3>2, SendStatus DEF Answers
  <2>4. CASE req.wLength # 0 /\ class_setup_handler
    <3>1. CASE req.name = "CLASS_IN" /\ usbd_ctrl_send(req.wLength)
      <4>1. Expected(req) = req.wLength /\ Reads(req)
        BY <3>1 DEF Expected, Transfers!Expected, Reads
      <4>2. Sends(req.wLength) /\ UNCHANGED stall
        BY <1>1, <3>1, CtrlSend
      <4>3. QED
        BY <1>1, <1>2, <1>3, <2>1, <2>4, <4>1, <4>2 DEF Answers
    <3>2. CASE req.name = "CLASS_OUT" /\ usbd_ctrl_recv(req.wLength)
      <4>1. Receives /\ UNCHANGED stall
        BY <3>2 DEF usbd_ctrl_recv, Receives
      <4>2. QED
        BY <1>2, <1>3, <2>1, <2>4, <3>2, <4>1 DEF Answers
    <3>3. CASE req.name = "GET_INTERFACE" /\ usbd_ctrl_send(1)
      <4>1. Expected(req) = 1 /\ Reads(req) /\ req.wLength >= 1
        BY <3>3, LengthsAssumption DEF Expected, Transfers!Expected, Reads
      <4>2. Sends(1) /\ UNCHANGED stall
        BY <3>3, CtrlSend
      <4>3. QED
        BY <1>1, <1>2, <1>3, <2>1, <4>1, <4>2 DEF Answers
    <3>4. CASE req.name = "SET_INTERFACE" /\ NoAnswer
      BY <1>3, <2>1, <3>4, Unsupport DEF Answers
    <3>5. QED
      BY <2>4, <3>1, <3>2, <3>3, <3>4 DEF class_setup_handler
  <2>5. QED
    BY <2>1, <2>2, <2>3, <2>4
<1>11. CASE usbd_endpoint_request
  <2>1. req.name \in {"EPT_GET_STATUS", "EPT_CLEAR_HALT", "EPT_SET_HALT"} /\ UNCHANGED coreVars
    BY <1>11 DEF usbd_endpoint_request
  <2>2. stall' \subseteq {"in0", "out0", "in1"}
        /\ ept1' \in {"disabled", "nak", "valid", "stall"} => OtherTypes
    BY <1>2, <2>1 DEF OtherTypes, coreVars
  <2>3. CASE conn_state = "ADDRESSED"
    <3>1. Refuses
      BY <1>11, <2>3 DEF usbd_endpoint_request, Refuses
    <3>2. stall' \subseteq {"in0", "out0", "in1"} /\ ept1' \in {ept1, "stall"}
      BY <1>2, <1>11, <2>3 DEF usbd_endpoint_request, usbd_set_stall
    <3>3. QED
      BY <1>2, <2>2, <3>1, <3>2 DEF Answers
  <2>4. CASE conn_state = "CONFIGURED" /\ req.name = "EPT_GET_STATUS"
    <3>1. Expected(req) = 2 /\ Reads(req) /\ req.wLength >= 2
      BY <2>4, LengthsAssumption DEF Expected, Transfers!Expected, Reads
    <3>2. Sends(2) /\ UNCHANGED stall /\ ept1' = ept1
      BY <1>11, <2>4, CtrlSend DEF usbd_endpoint_request
    <3>3. QED
      BY <1>1, <1>2, <2>2, <3>1, <3>2 DEF Answers
  <2>5. CASE conn_state = "CONFIGURED" /\ req.name # "EPT_GET_STATUS"
    <3>1. Expected(req) = 0 /\ ~Reads(req) /\ req.name # "CLASS_OUT"
      BY <2>1, <2>5 DEF Expected, Transfers!Expected, Reads
    <3>2. Acknowledges
      BY <1>11, <2>5, Acknowledge DEF usbd_endpoint_request
    <3>3. stall' \subseteq {"in0", "out0", "in1"} /\ ept1' \in {ept1, "stall", "valid"}
      BY <1>2, <1>11, <2>5 DEF usbd_endpoint_request, usbd_set_stall, usbd_clear_stall
    <3>4. QED
      BY <1>2, <2>2, <3>1, <3>2, <3>3 DEF Answers
  <2>6. CASE conn_state \notin {"ADDRESSED", "CONFIGURED"}
    <3>1. usbd_ctrl_unsupport /\ ept1' = ept1
      BY <1>11, <2>6 DEF usbd_endpoint_request
    <3>2. QED
      BY <1>2, <2>2, <3>1, Unsupport DEF Answers
  <2>7. QED
    BY <2>3, <2>4, <2>5, <2>6
<1>12. CASE UnknownRequest
  BY <1>3, <1>12, Unsupport DEF UnknownRequest, Answers
<1>13. QED
  BY <1>4, <1>5, <1>6, <1>7, <1>8, <1>9, <1>10, <1>11, <1>12

(* A request is seen by the core.                                          *)
LEMMA SetupHandlerStep ==
  ASSUME PipeInv, usbd_core_setup_handler
  PROVE  PipeInv'
<1>1. TypeOK /\ ResetInv /\ IdleInv /\ SetupInv /\ StageInv /\ ReadInv
      /\ got = Bytes(xfer, Len(got))
  BY DEF PipeInv
<1>2. /\ "TC" \in irq /\ "TX" \notin tc /\ SetupPending
      /\ tc' = tc \ {"SETUP"} /\ ept0_wlength' = req.wLength
      /\ UNCHANGED <<rxpkt, flags, hwaddr, ssp, applied, irq>>
      /\ UNCHANGED <<bus, stage, req, xfer, got, sent, result, haddr, hconf,
                     resets, suspends>>
      /\ \/ usbd_get_descriptor \/ usbd_set_address \/ usbd_get_status
         \/ usbd_clear_feature \/ usbd_set_feature
         \/ usbd_get_configuration \/ usbd_set_configuration
         \/ usbd_interface_request \/ usbd_endpoint_request \/ UnknownRequest
  BY DEF usbd_core_setup_handler, hostVars, SetupPending
<1>3. req \in Requests
  <2>1. req.name # "none"
    BY <1>2
       DEF usbd_get_descriptor, usbd_set_address, usbd_get_status, usbd_clear_feature,
           usbd_set_feature, usbd_get_configuration, usbd_set_configuration,
           usbd_interface_request, usbd_endpoint_request, UnknownRequest
  <2>2. QED
    BY <1>1, <2>1 DEF TypeOK, WireTypeOK, Transfers!NoRequest
<1>4. Answers /\ OtherTypes
  BY <1>1, <1>2, <1>3, RequestAnswers
<1>5. /\ xfer \in Nat /\ req.wLength \in Nat /\ req.wLength \in UInt16
      /\ MaxPacket \in Nat /\ MaxPacket >= 1 /\ Expected(req) \in Nat
  BY <1>1, <1>3, ConstantFacts, HostAssumption DEF TypeOK, WireTypeOK
<1>6. ASSUME Sends(Expected(req))
      PROVE  in0' \in EptIn /\ txpkt' \in Seq(Byte) /\ Len(txpkt') <= MaxPacket
  <2> DEFINE m == Transfers!Min2(Expected(req), MaxPacket)
  <2>1. m \in Nat /\ m \in 0 .. MaxPacket
    BY <1>5 DEF Transfers!Min2
  <2>2. in0' \in EptIn
    BY <1>5, <1>6, <2>1 DEF Sends, EptIn
  <2>3. txpkt' = Packet(xfer, 0, m)
    BY <1>6 DEF Sends
  <2>4. QED
    BY <1>5, <2>1, <2>2, <2>3, PacketType
<1>7. /\ txsts' \in {"disabled", "nak", "valid", "stall"}
      /\ rxsts' \in {"disabled", "nak", "valid", "stall"}
      /\ txpkt' \in Seq(Byte) /\ Len(txpkt') <= MaxPacket
      /\ ept0_sts' \in {"DATA_IN", "DATA_OUT", "STATUS_IN", "SETUP"}
      /\ in0' \in EptIn /\ out0' \in Nat /\ stored' \in Seq(Byte)
  <2>1. /\ txsts \in {"disabled", "nak", "valid", "stall"}
        /\ rxsts \in {"disabled", "nak", "valid", "stall"}
        /\ txpkt \in Seq(Byte) /\ Len(txpkt) <= MaxPacket
        /\ in0 \in EptIn /\ out0 \in Nat /\ stored \in Seq(Byte)
    BY <1>1 DEF TypeOK, WireTypeOK, CoreTypeOK
  <2>2. <<>> \in Seq(Byte) /\ Len(<<>>) <= MaxPacket
    BY <1>5, EmptySeq
  <2>3. CASE Sends(Expected(req))
    BY <1>6, <2>1, <2>3 DEF Sends
  <2>4. CASE Receives
    BY <1>5, <2>1, <2>2, <2>4 DEF Receives
  <2>5. CASE Acknowledges
    BY <2>1, <2>2, <2>5 DEF Acknowledges
  <2>6. CASE Refuses
    BY <2>1, <2>6 DEF Refuses
  <2>7. QED
    BY <1>4, <2>3, <2>4, <2>5, <2>6 DEF Answers
<1>8. TypeOK'
  <2>1. WireTypeOK'
    BY <1>1, <1>2, <1>4, <1>7 DEF TypeOK, WireTypeOK, OtherTypes
  <2>2. CoreTypeOK'
    BY <1>1, <1>2, <1>4, <1>5, <1>7 DEF TypeOK, CoreTypeOK, OtherTypes
  <2>3. QED
    BY <2>1, <2>2 DEF TypeOK
<1>9. (Calm' <=> Calm) /\ ~SetupPending' /\ "TX" \notin tc' /\ ("OUT" \in tc' <=> "OUT" \in tc)
  BY <1>2 DEF Calm, SetupPending
<1>10. ResetInv' /\ StageInv' /\ SetupInv' /\ (got = Bytes(xfer, Len(got)))'
  BY <1>1, <1>2, <1>9 DEF ResetInv, StageInv, SetupInv
<1>11. IdleInv'
  BY <1>1, <1>2, <1>9 DEF IdleInv
<1>12. CASE stage = "idle"
  BY <1>2, <1>8, <1>10, <1>11, <1>12 DEF PipeInv, ReadInv, WriteInv
<1>13. CASE stage # "idle"
  <2>1. /\ got = <<>> /\ sent = 0 /\ txsts = "nak" /\ rxsts = "nak" /\ "OUT" \notin tc
        /\ stage = "status_in" => req.wLength = 0
    BY <1>1, <1>2, <1>13 DEF SetupInv, ResetInv
  <2>2. Len(got) = 0
    BY <2>1
  <2>3. stage # "status_out"
    BY <1>1, <1>2 DEF ReadInv
  <2>4. ReadInv'
    <3>1. CASE stage = "data_in"
      <4>1. Reads(req) /\ req.wLength # 0
        BY <1>1, <3>1 DEF StageInv
      <4>2. CASE Sends(Expected(req)) /\ 1 <= Expected(req) /\ Expected(req) <= req.wLength
        <5> DEFINE m == Transfers!Min2(Expected(req), MaxPacket)
        <5>1. /\ in0'.of = xfer /\ in0'.off = 0 /\ in0'.rem0_len = Expected(req)
              /\ in0'.last_len = m /\ in0'.ept0_slen = Expected(req)
              /\ txpkt' = Packet(xfer, 0, m) /\ txsts' = "valid" /\ rxsts' = rxsts
              /\ ept0_sts' = "DATA_IN"
          BY <4>2 DEF Sends
        <5>2. DataPacket'
          BY <1>5, <4>2, <5>1 DEF DataPacket
        <5>3. Sending'
          BY <1>2, <1>9, <2>2, <4>2, <5>1, <5>2 DEF Sending, Packet
        <5>4. QED
          BY <1>2, <1>9, <2>1, <3>1, <5>1, <5>3 DEF ReadInv
      <4>3. CASE Refuses
        BY <1>2, <1>9, <2>1, <3>1, <4>3 DEF ReadInv, Refuses
      <4>4. QED
        BY <1>4, <4>1, <4>2, <4>3 DEF Answers, Reads
    <3>2. CASE stage # "data_in"
      BY <1>2, <2>3, <3>2 DEF ReadInv
    <3>3. QED
      BY <3>1, <3>2
  <2>5. WriteInv'
    <3>1. CASE stage \in {"data_out", "status_in"}
      <4>1. (stage = "data_out" => ~Reads(req) /\ req.wLength # 0)
            /\ (stage = "status_in" => req.wLength = 0)
        BY <1>1, <2>1 DEF StageInv
      <4>2. CASE Sends(Expected(req)) /\ Reads(req) /\ 1 <= Expected(req)
                   /\ Expected(req) <= req.wLength
        BY <1>5, <3>1, <4>1, <4>2
      <4>3. CASE Receives /\ req.name = "CLASS_OUT" /\ req.wLength # 0
        <5>1. stage = "data_out"
          BY <3>1, <4>1, <4>3
        <5>2. stored' = <<>> /\ Bytes(xfer, 0) = <<>> /\ Len(<<>>) = 0
          BY <1>5, <4>3, BytesEmpty DEF Receives
        <5>3. Storing'
          BY <1>2, <1>5, <1>9, <2>1, <4>3, <5>1, <5>2 DEF Storing, Receives
        <5>4. QED
          BY <1>2, <1>9, <2>1, <4>3, <5>1, <5>3 DEF WriteInv, Receives
      <4>4. CASE /\ Acknowledges /\ Expected(req) = 0
                 /\ ~(req.name = "CLASS_OUT" /\ req.wLength # 0)
        BY <1>2, <1>9, <2>1, <3>1, <4>4 DEF WriteInv, Acknowledges
      <4>5. CASE Refuses
        BY <1>2, <1>9, <2>1, <3>1, <4>5 DEF WriteInv, Refuses
      <4>6. QED
        BY <1>4, <4>2, <4>3, <4>4, <4>5 DEF Answers
    <3>2. CASE stage \notin {"data_out", "status_in"}
      BY <1>2, <3>2 DEF WriteInv
    <3>3. QED
      BY <3>1, <3>2
  <2>6. QED
    BY <1>8, <1>10, <1>11, <2>4, <2>5 DEF PipeInv
<1>14. QED
  BY <1>12, <1>13

(***************************************************************************)
(* The theorems.                                                           *)
(***************************************************************************)

LEMMA PipeInit ==
  Init => PipeInv
<1> SUFFICES ASSUME Init PROVE PipeInv
  OBVIOUS
<1>1. WireTypeOK
  <2>1. 0 \in 0 .. MaxTransfers /\ 0 \in 0 .. MaxResets /\ 0 \in 0 .. MaxSuspends
    BY HostAssumption
  <2>2. <<>> \in Seq(Byte) /\ Len(<<>>) <= MaxPacket
    BY ConstantFacts, EmptySeq
  <2>3. QED
    BY <2>1, <2>2 DEF Init, WireInit, WireTypeOK
<1>2. CoreTypeOK
  <2>1. in0 \in EptIn
    <3>1. 0 \in 0 .. MaxPacket
      BY ConstantFacts
    <3>2. QED
      BY <3>1 DEF Init, EptIn
  <2>2. 0 \in UInt16
    BY DEF UInt16
  <2>3. QED
    BY <2>1, <2>2, EmptySeq DEF Init, CoreTypeOK, ConnStates
<1>3. got = <<>> /\ xfer = 0 /\ tc = {} /\ irq = {} /\ stage = "idle" /\ result = "none"
  BY DEF Init, WireInit
<1>4. got = Bytes(xfer, Len(got))
  BY <1>3, BytesEmpty
<1>5. ResetInv /\ IdleInv /\ SetupInv /\ StageInv /\ ReadInv /\ WriteInv
  BY <1>3 DEF ResetInv, IdleInv, SetupInv, StageInv, ReadInv, WriteInv, SetupPending
<1>6. QED
  BY <1>1, <1>2, <1>4, <1>5 DEF PipeInv, TypeOK

LEMMA PipeStutter ==
  ASSUME PipeInv, UNCHANGED vars
  PROVE  PipeInv'
<1>1. TypeOK /\ ResetInv
  BY DEF PipeInv
<1>2. /\ UNCHANGED <<txsts, rxsts, txpkt, rxpkt, tc, flags, hwaddr, ssp, ept1>>
      /\ UNCHANGED <<bus, stage, req, xfer, got, sent, result, haddr, hconf,
                     resets, suspends>>
      /\ UNCHANGED <<coreVars, ept0Vars, applied, irq>>
  BY DEF vars, wireVars
<1>3. Device
  BY <1>2 DEF Device
<1>4. TypeOK'
  <2>1. WireTypeOK'
    BY <1>1, <1>2 DEF TypeOK, WireTypeOK
  <2>2. QED
    BY <1>1, <1>3, <2>1, DeviceTypes DEF TypeOK
<1>5. ResetInv' /\ (Calm' <=> Calm)
  BY <1>1, <1>2 DEF ResetInv, Calm
<1>6. UNCHANGED transferVars
  BY <1>2 DEF transferVars, ept0Vars
<1>7. QED
  BY <1>4, <1>5, <1>6, TransferFrame

LEMMA PipeNext ==
  PipeInv /\ [Next]_vars => PipeInv'
<1> SUFFICES ASSUME PipeInv, [Next]_vars PROVE PipeInv'
  OBVIOUS
<1>1. CASE HostMakes
  BY <1>1, SetupStep DEF HostMakes
<1>2. CASE HostServes
  BY <1>2, ServeStep
<1>3. CASE HostChoice
  BY <1>3, ChoiceStep
<1>4. CASE Wire
  BY <1>4, WireStep
<1>5. CASE usbd_irq_handler
  BY <1>5, QuietStep, TxStep, SetupHandlerStep, OutStep, ResetStep DEF usbd_irq_handler
<1>6. CASE usbd_remote_wakeup
  BY <1>6, QuietStep
<1>7. CASE Finished \/ UNCHANGED vars
  BY <1>7, PipeStutter DEF Finished
<1>8. QED
  BY <1>1, <1>2, <1>3, <1>4, <1>5, <1>6, <1>7 DEF Next

(* The control pipe's invariant holds of every behaviour: between any two  *)
(* steps, the core's lengths and positions are those of the request that   *)
(* the host waits for (usbd_core.c, usbd_int.c).                           *)
THEOREM PipeInvariant == Spec => []PipeInv
BY PipeInit, PipeNext, PTL DEF Spec

(* Every variable of host, peripheral and core keeps its type.             *)
THEOREM TypeCorrect == Spec => []TypeOK
<1>1. PipeInv => TypeOK
  BY DEF PipeInv
<1>2. QED
  BY <1>1, PipeInvariant, PTL

(* Reads are exact, for every packet size, descriptor and length asked for *)
(* (usbd_core_in_handler, usbd_eptn_handler).                              *)
THEOREM ReadsAreExact == Spec => []ReadExact
<1>1. PipeInv => ReadExact
  BY DEF PipeInv, IdleInv, ReadExact, Bytes, Expected
<1>2. QED
  BY <1>1, PipeInvariant, PTL

(* A write that completes has given the class all its bytes, for every     *)
(* packet size and length (usbd_core_out_handler).                         *)
THEOREM WritesAreExact == Spec => []WriteExact
<1>1. PipeInv => WriteExact
  BY DEF PipeInv, IdleInv, WriteExact, Bytes
<1>2. QED
  BY <1>1, PipeInvariant, PTL

(***************************************************************************)
(* Host and device agree on address, configuration and endpoints, for      *)
(* every number of requests, resets and suspends, and what the host sees   *)
(* of the control pipe are steps of USBTransfers.                          *)
(***************************************************************************)

Supported(r) == Transfers!Supported(r)

(* What PipeInv says of the points at which the agreement can change.      *)
LEMMA PipeFacts ==
  ASSUME PipeInv
  PROVE  /\ ~Calm => stage = "idle"
         /\ stage # "idle" => req \in Requests
         /\ irq \ {"TC"} \subseteq flags
         /\ "RST" \in irq /\ "TC" \notin irq => tc = {}
         /\ Calm /\ stage = "idle" => ~SetupPending
         /\ Calm /\ SetupPending =>
              txsts = "nak" /\ rxsts = "nak" /\ (stage = "status_in" => req.wLength = 0)
         /\ stage \in {"data_out", "status_in"} /\ ~SetupPending =>
              "TX" \notin tc /\ ept0_sts # "DATA_IN" /\ got = <<>>
         /\ stage = "data_out" /\ ~SetupPending /\ rxsts = "valid" =>
              ept0_sts = "DATA_OUT" /\ txsts # "valid"
         /\ stage \in {"data_out", "status_in"} /\ ~SetupPending /\ ept0_sts = "DATA_OUT" =>
              req.name = "CLASS_OUT"
         /\ stage = "status_out" => ~SetupPending /\ Reads(req) /\ rxsts # "stall"
BY DEF PipeInv, ResetInv, IdleInv, SetupInv, StageInv, ReadInv, WriteInv, Storing, Sending

LEMMA RequestValues ==
  \A r \in Requests : r.value \in Nat /\ r.wLength \in Nat
BY ConstantFacts

-----------------------------------------------------------------------------
(* A new request changes nothing that was agreed on.                       *)
LEMMA MakeAgrees ==
  ASSUME CoreInv, NEW r \in Requests, HostSetup(r), Device
  PROVE  AgreementInv'
<1>1. PipeInv /\ AgreementInv /\ Calm /\ stage = "idle"
  BY DEF CoreInv, HostSetup, Hears, Calm
<1>2. /\ UNCHANGED <<conn_state, old_conn_state, device_addr, dev_config, irq, ept0_sts>>
      /\ UNCHANGED <<flags, hwaddr, ssp, ept1, bus, haddr, hconf, resets>>
      /\ tc' = tc \cup {"SETUP"} /\ stage' # "idle" /\ flags = {} /\ bus = "active" /\ ~ssp
      /\ hwaddr = haddr
  BY DEF HostSetup, Device, Hears, coreVars, ept0Vars
<1>3. SetupPending' /\ (Calm' <=> Calm) /\ Connected' = Connected
  BY <1>2 DEF SetupPending, Calm, Connected
<1>4. SuspendInv'
  <2>1. irq = {} \/ irq = {"TC"}
    BY <1>1, <1>2, PipeFacts DEF PipeInv, TypeOK, CoreTypeOK
  <2>2. QED
    BY <1>1, <1>2, <1>3, <2>1 DEF AgreementInv, SuspendInv, Calm
<1>5. /\ ~Accepted("SET_ADDRESS") /\ ~Accepted("SET_ADDRESS")'
      /\ ~Accepted("SET_CONFIGURATION") /\ ~Accepted("SET_CONFIGURATION")'
      /\ Waiting' <=> Waiting
  BY <1>1, <1>2, <1>3 DEF Accepted, Waiting
<1>6. AddressInv'
  BY <1>1, <1>2, <1>3, <1>5 DEF AgreementInv, AddressInv
<1>7. NewAddress = haddr /\ NewAddress' = haddr /\ NewConfiguration = hconf
      /\ NewConfiguration' = hconf
  BY <1>2, <1>5 DEF NewAddress, NewConfiguration
<1>8. ConfigurationInv'
  BY <1>1, <1>2, <1>3, <1>7 DEF AgreementInv, ConfigurationInv
<1>9. AnswerInv'
  BY <1>3 DEF AnswerInv
<1>10. QED
  BY <1>4, <1>6, <1>8, <1>9 DEF AgreementInv
(* What the host hears in a transfer.                                      *)
LEMMA ServeAgrees ==
  ASSUME CoreInv, HostServes
  PROVE  AgreementInv'
<1>1. PipeInv /\ AgreementInv
  BY DEF CoreInv
<1>2. /\ UNCHANGED <<conn_state, old_conn_state, device_addr, dev_config, irq, ept0_sts>>
      /\ UNCHANGED <<flags, hwaddr, ssp, ept1, bus, req, resets>>
      /\ bus = "active" /\ ~ssp /\ hwaddr = haddr /\ stage # "idle"
  BY DEF HostServes, HostGoesOn, Device, Hears, coreVars, ept0Vars, HostDataIn, HostDataOut,
         HostStatusIn, HostStatusOut
<1>3. Calm /\ flags = {} /\ req \in Requests
  BY <1>1, <1>2, PipeFacts DEF AgreementInv, SuspendInv
<1>4. irq \subseteq {"TC"}
  BY <1>1, <1>3, PipeFacts
<1>5. Connected' = Connected /\ Connected = conn_state /\ (Waiting' <=> Waiting) /\ Calm'
  BY <1>2, <1>3 DEF Connected, Waiting, Calm
<1>6. CASE stage' # "idle"
  <2>1. /\ UNCHANGED <<haddr, hconf>>
        /\ tc \subseteq tc' /\ (SetupPending' <=> SetupPending)
        /\ \/ txsts = "valid" /\ txsts' = "nak" /\ rxsts' = rxsts
              /\ stage = "data_in" /\ stage' \in {"data_in", "status_out"}
           \/ rxsts = "valid" /\ rxsts' = "nak" /\ txsts' = txsts /\ ~SetupPending
              /\ stage = "data_out" /\ stage' \in {"data_out", "status_in"}
    BY <1>6 DEF HostServes, HostGoesOn, HostDataIn, HostDataOut, HostStatusIn, HostStatusOut,
                TakesPacket, GivesPacket, GoesOn, IsStalled, Ends, SetupPending
  <2>2. /\ ~Accepted("SET_ADDRESS") /\ ~Accepted("SET_ADDRESS")'
        /\ ~Accepted("SET_CONFIGURATION") /\ ~Accepted("SET_CONFIGURATION")'
    BY <1>1, <2>1, PipeFacts DEF Accepted
  <2>3. SuspendInv'
    BY <1>1, <1>2, <1>3, <1>4, <1>5, <2>1 DEF AgreementInv, SuspendInv
  <2>4. AddressInv'
    BY <1>1, <1>2, <1>3, <1>5, <2>1, <2>2 DEF AgreementInv, AddressInv
  <2>5. ConfigurationInv'
    BY <1>1, <1>2, <1>3, <1>5, <2>1, <2>2
       DEF AgreementInv, ConfigurationInv, NewAddress, NewConfiguration
  <2>6. AnswerInv'
    BY <1>1, <1>2, <1>3, <2>1, PipeFacts DEF AgreementInv, AnswerInv, Transfers!Supported
  <2>7. QED
    BY <2>3, <2>4, <2>5, <2>6 DEF AgreementInv
<1>7. CASE stage' = "idle"
  <2>1. \/ /\ UNCHANGED <<haddr, hconf, tc, txsts, rxsts>>
           /\ \/ stage \in {"data_in", "status_in"} /\ txsts = "stall"
              \/ stage \in {"data_out", "status_out"} /\ rxsts = "stall"
        \/ /\ UNCHANGED <<haddr, hconf>> /\ tc \subseteq tc' /\ stage = "status_out"
        \/ /\ tc' = tc \cup {"TX"} /\ stage = "status_in" /\ txsts = "valid" /\ Ends("ok")
    <3>1. stage = "status_out" => req.name \notin {"SET_ADDRESS", "SET_CONFIGURATION"}
      BY <1>1, PipeFacts DEF Reads
    <3>2. QED
      BY <1>7, <3>1 DEF HostServes, HostGoesOn, HostDataIn, HostDataOut, HostStatusIn,
           HostStatusOut, TakesPacket, GivesPacket, GoesOn, IsStalled, Ends
  <2>2. ~Accepted("SET_ADDRESS")' /\ ~Accepted("SET_CONFIGURATION")'
    BY <1>7 DEF Accepted
  <2>3. AnswerInv'
    BY <1>7 DEF AnswerInv
  <2>4. SuspendInv'
    BY <1>1, <1>2, <1>3, <1>4, <1>5, <1>7 DEF AgreementInv, SuspendInv
  <2>5. CASE UNCHANGED <<haddr, hconf>> /\ tc \subseteq tc' /\ ~Accepted("SET_ADDRESS")
             /\ ~Accepted("SET_CONFIGURATION")
    <3>1. AddressInv'
      BY <1>1, <1>2, <1>3, <1>5, <2>2, <2>5 DEF AgreementInv, AddressInv
    <3>2. ConfigurationInv'
      BY <1>1, <1>2, <1>3, <1>5, <2>2, <2>5
         DEF AgreementInv, ConfigurationInv, NewAddress, NewConfiguration
    <3>3. QED
      BY <2>3, <2>4, <3>1, <3>2 DEF AgreementInv
  <2>6. CASE tc' = tc \cup {"TX"} /\ stage = "status_in" /\ txsts = "valid" /\ Ends("ok")
    <3>1. /\ Accepted("SET_ADDRESS") <=> req.name = "SET_ADDRESS"
          /\ Accepted("SET_CONFIGURATION") <=> req.name = "SET_CONFIGURATION"
      BY <1>1, <1>3, <2>6, PipeFacts DEF Accepted
    <3>2. haddr' = NewAddress /\ hconf' = NewConfiguration
      BY <2>6, <3>1 DEF Ends, NewAddress, NewConfiguration
    <3>3. AddressInv'
      BY <1>1, <1>2, <1>3, <1>5, <2>2, <2>6, <3>1, <3>2
         DEF AgreementInv, AddressInv, NewAddress
    <3>4. NewAddress' = NewAddress /\ NewConfiguration' = NewConfiguration
      BY <2>2, <3>2 DEF NewAddress, NewConfiguration
    <3>5. ConfigurationInv'
      BY <1>1, <1>2, <1>3, <1>5, <3>2, <3>4 DEF AgreementInv, ConfigurationInv
    <3>6. QED
      BY <2>3, <2>4, <3>3, <3>5 DEF AgreementInv
  <2>7. QED
    BY <1>7, <2>1, <2>5, <2>6 DEF Accepted
<1>8. QED
  BY <1>6, <1>7
(* What the agreement depends on, beside the state of a suspend.           *)
agreedVars ==
  <<device_addr, dev_config, tc, stage, req, txsts, rxsts, hwaddr, haddr, hconf, ept1,
    ept0_sts, resets>>

LEMMA AgreementFrame ==
  ASSUME AddressInv, ConfigurationInv, AnswerInv, Calm' <=> Calm, Connected' = Connected,
         UNCHANGED agreedVars
  PROVE  AddressInv' /\ ConfigurationInv' /\ AnswerInv'
<1>1. UNCHANGED <<device_addr, dev_config, tc, stage, req, txsts, rxsts, hwaddr, haddr, hconf,
                  ept1, ept0_sts, resets>>
  BY DEF agreedVars
<1>2. /\ Accepted("SET_ADDRESS")' <=> Accepted("SET_ADDRESS")
      /\ Accepted("SET_CONFIGURATION")' <=> Accepted("SET_CONFIGURATION")
      /\ Waiting' <=> Waiting
  BY <1>1 DEF Accepted, Waiting, SetupPending
<1>3. NewAddress' = NewAddress /\ NewConfiguration' = NewConfiguration
  BY <1>1, <1>2 DEF NewAddress, NewConfiguration
<1>4. AddressInv'
  BY <1>1, <1>2 DEF AddressInv
<1>5. ConfigurationInv'
  BY <1>1, <1>3 DEF ConfigurationInv
<1>6. AnswerInv'
  BY <1>1 DEF AnswerInv, SetupPending, Transfers!Supported
<1>7. QED
  BY <1>4, <1>5, <1>6

(* The host gives up, resets the bus or lets it idle.                      *)
LEMMA ChoiceAgrees ==
  ASSUME CoreInv, HostPolicy, HostChoice
  PROVE  AgreementInv'
<1>1. PipeInv /\ AgreementInv /\ Device
  BY DEF CoreInv, HostChoice
<1>2. UNCHANGED <<conn_state, old_conn_state, device_addr, dev_config, irq, ept0_sts>>
  BY <1>1 DEF Device, coreVars, ept0Vars
<1>3. CASE HostCancel
  <2>1. /\ UNCHANGED <<txsts, rxsts, tc, flags, hwaddr, ssp, ept1, bus, req, resets>>
        /\ stage # "idle" /\ stage' = "idle" /\ UNCHANGED <<haddr, hconf>>
        /\ req.name \notin {"SET_ADDRESS", "SET_CONFIGURATION"}
    BY <1>3 DEF HostCancel, chipVars, Ends
  <2>2. /\ ~Accepted("SET_ADDRESS") /\ ~Accepted("SET_ADDRESS")'
        /\ ~Accepted("SET_CONFIGURATION") /\ ~Accepted("SET_CONFIGURATION")'
    BY <2>1 DEF Accepted
  <2>3. (Calm' <=> Calm) /\ Connected' = Connected /\ (Waiting' <=> Waiting)
    BY <1>2, <2>1 DEF Calm, Connected, Waiting
  <2>4. NewAddress' = NewAddress /\ NewConfiguration' = NewConfiguration
    BY <2>1, <2>2 DEF NewAddress, NewConfiguration
  <2>5. SuspendInv' /\ AddressInv' /\ AnswerInv'
    BY <1>1, <1>2, <2>1, <2>2, <2>3 DEF AgreementInv, SuspendInv, AddressInv, AnswerInv
  <2>6. ConfigurationInv'
    BY <1>1, <1>2, <2>1, <2>3, <2>4 DEF AgreementInv, ConfigurationInv
  <2>7. QED
    BY <2>5, <2>6 DEF AgreementInv
<1>4. CASE HostReset
  <2>1. /\ UNCHANGED <<txsts, rxsts, tc, flags, hwaddr, ssp, ept1, req>>
        /\ stage' = "idle" /\ bus' = "reset" /\ haddr' = 0 /\ hconf' = 0
        /\ flags = {} /\ ~ssp /\ resets' = resets + 1
    BY <1>4 DEF HostReset, chipVars, HostPolicy
  <2>2. ~Calm' /\ resets' # 0
    BY <1>1, <2>1, HostAssumption DEF Calm, PipeInv, TypeOK, WireTypeOK
  <2>3. irq \subseteq {"TC"}
    BY <1>1, <2>1, PipeFacts
  <2>4. SuspendInv'
    BY <1>1, <1>2, <2>1, <2>2, <2>3 DEF AgreementInv, SuspendInv
  <2>5. AddressInv' /\ AnswerInv'
    BY <2>1, <2>2 DEF AddressInv, AnswerInv
  <2>6. ConfigurationInv'
    BY <1>1, <1>2, <2>2 DEF AgreementInv, ConfigurationInv
  <2>7. QED
    BY <2>4, <2>5, <2>6 DEF AgreementInv
<1>5. CASE HostSuspend
  <2>1. /\ UNCHANGED <<txsts, rxsts, tc, flags, hwaddr, ssp, ept1>>
        /\ UNCHANGED <<stage, req, haddr, hconf, resets>>
        /\ bus = "active" /\ bus' = "idle" /\ flags = {} /\ ~ssp /\ stage = "idle"
    BY <1>5 DEF HostSuspend, chipVars
  <2>2. (Calm' <=> Calm) /\ Connected' = Connected
    BY <1>2, <2>1 DEF Calm, Connected
  <2>3. AddressInv' /\ ConfigurationInv' /\ AnswerInv'
    BY <1>1, <1>2, <2>1, <2>2, AgreementFrame DEF AgreementInv, agreedVars
  <2>4. SuspendInv'
    BY <1>1, <1>2, <2>1, <2>2 DEF AgreementInv, SuspendInv
  <2>5. QED
    BY <2>3, <2>4 DEF AgreementInv
<1>6. QED
  BY <1>3, <1>4, <1>5 DEF HostChoice

(* The bus.                                                                *)
LEMMA WireAgrees ==
  ASSUME CoreInv, Wire
  PROVE  AgreementInv'
<1>1. PipeInv /\ AgreementInv /\ Device
  BY DEF CoreInv, Wire
<1>2. UNCHANGED <<conn_state, old_conn_state, device_addr, dev_config, irq, ept0_sts>>
  BY <1>1 DEF Device, coreVars, ept0Vars
<1>3. CASE HwReset
  <2>1. /\ UNCHANGED <<tc, hwaddr, ssp, stage, req, haddr, hconf, resets>>
        /\ bus = "reset" /\ bus' = "active" /\ flags' = flags \cup {"RST"}
        /\ ept1' = "disabled"
    BY <1>3 DEF HwReset
  <2>2. ~Calm /\ ~Calm' /\ stage = "idle"
    BY <1>1, <2>1, PipeFacts DEF Calm
  <2>3. SuspendInv'
    BY <1>1, <1>2, <2>1, <2>2 DEF AgreementInv, SuspendInv
  <2>4. AddressInv' /\ ConfigurationInv' /\ AnswerInv'
    BY <1>1, <1>2, <2>1, <2>2
       DEF AgreementInv, AddressInv, ConfigurationInv, AnswerInv
  <2>5. QED
    BY <2>3, <2>4 DEF AgreementInv
<1>4. CASE HostResume \/ HwSuspend \/ HwWake
  <2>1. /\ UNCHANGED <<txsts, rxsts, tc, hwaddr, ssp, ept1>>
        /\ UNCHANGED <<stage, req, haddr, hconf, resets>>
        /\ \/ bus = "idle" /\ bus' = "active" /\ flags' = flags
           \/ bus = "idle" /\ bus' = bus /\ flags' = flags \cup {"SP"} /\ ~ssp
              /\ "SP" \notin flags
           \/ bus # "idle" /\ bus' = bus /\ flags' = flags \cup {"WK"} /\ ssp
    BY <1>4 DEF HostResume, HwSuspend, HwWake, chipVars, hostVars
  <2>2. (Calm' <=> Calm) /\ Connected' = Connected
    BY <1>2, <2>1 DEF Calm, Connected
  <2>3. AddressInv' /\ ConfigurationInv' /\ AnswerInv'
    BY <1>1, <1>2, <2>1, <2>2, AgreementFrame DEF AgreementInv, agreedVars
  <2>4. flags \subseteq {"RST", "SP", "WK"} /\ bus \in {"active", "idle", "reset"}
    BY <1>1 DEF PipeInv, TypeOK, WireTypeOK
  <2>5. SuspendInv'
    BY <1>1, <1>2, <2>1, <2>2, <2>4, PipeFacts DEF AgreementInv, SuspendInv, Calm
  <2>6. QED
    BY <2>3, <2>5 DEF AgreementInv
<1>5. QED
  BY <1>3, <1>4 DEF Wire

(* The handler begins and ends its work on the endpoints; suspend, wake-up *)
(* and the application's wake-up.                                          *)
LEMMA QuietAgrees ==
  ASSUME CoreInv,
         \/ IrqEnter \/ usbd_ept_loop_end
         \/ usbd_suspend_handler \/ usbd_wakeup_handler \/ usbd_remote_wakeup
  PROVE  AgreementInv'
<1>1. PipeInv /\ AgreementInv
  BY DEF CoreInv
<1>2. /\ UNCHANGED <<device_addr, dev_config, ept0_sts>>
      /\ UNCHANGED <<txsts, rxsts, tc, hwaddr, ept1>>
      /\ UNCHANGED <<stage, req, haddr, hconf, resets>>
  BY DEF IrqEnter, usbd_ept_loop_end, usbd_suspend_handler, usbd_wakeup_handler,
         usbd_remote_wakeup, wireVars, coreVars, ept0Vars, hostVars
<1>3. flags \subseteq {"RST", "SP", "WK"} /\ bus \in {"active", "idle", "reset"}
  BY <1>1 DEF PipeInv, TypeOK, WireTypeOK
<1>4. /\ SuspendInv' /\ (Calm' <=> Calm) /\ Connected' = Connected
  <2>1. CASE IrqEnter \/ usbd_ept_loop_end
    <3>1. /\ UNCHANGED <<conn_state, old_conn_state, ssp, flags, bus>>
          /\ \/ irq' = flags \cup IF tc = {} THEN {} ELSE {"TC"}
             \/ irq' = irq \ {"TC"} /\ tc = {}
      BY <2>1 DEF IrqEnter, usbd_ept_loop_end, wireVars, coreVars
    <3>2. QED
      BY <1>1, <1>2, <3>1 DEF AgreementInv, SuspendInv, Calm, Connected
  <2>2. CASE usbd_suspend_handler
    <3>1. /\ "SP" \in irq /\ "TC" \notin irq /\ "RST" \notin irq
          /\ irq' = irq \ {"SP"} /\ flags' = flags \ {"SP"} /\ bus' = bus
          /\ old_conn_state' = conn_state /\ conn_state' = "SUSPENDED" /\ ssp'
      BY <2>2 DEF usbd_suspend_handler, hostVars
    <3>2. flags = {"SP"} /\ ~ssp /\ tc = {} /\ stage = "idle"
      BY <1>1, <3>1, PipeFacts DEF AgreementInv, SuspendInv
    <3>3. Calm
      BY <1>1, <3>2 DEF AgreementInv, SuspendInv, Calm
    <3>4. QED
      BY <1>1, <1>2, <3>1, <3>2, <3>3, PipeFacts DEF AgreementInv, SuspendInv, Calm, Connected
  <2>3. CASE usbd_wakeup_handler
    <3>1. /\ irq = {"WK"} /\ irq' = {} /\ flags' = flags \ {"WK"} /\ bus' = bus
          /\ old_conn_state' = old_conn_state /\ conn_state' = old_conn_state /\ ~ssp'
      BY <2>3 DEF usbd_wakeup_handler, hostVars
    <3>2. "WK" \in flags
      BY <1>1, <3>1, PipeFacts
    <3>3. QED
      BY <1>1, <1>2, <3>1, <3>2 DEF AgreementInv, SuspendInv, Calm, Connected
  <2>4. CASE usbd_remote_wakeup
    <3>1. /\ irq = {} /\ irq' = {} /\ flags' = flags /\ conn_state = "SUSPENDED"
          /\ bus' = IF bus = "idle" THEN "active" ELSE bus
          /\ old_conn_state' = old_conn_state /\ conn_state' = old_conn_state /\ ssp' = FALSE
      BY <2>4 DEF usbd_remote_wakeup
    <3>2. QED
      BY <1>1, <1>2, <3>1 DEF AgreementInv, SuspendInv, Calm, Connected
  <2>5. QED
    BY <2>1, <2>2, <2>3, <2>4
<1>5. AddressInv' /\ ConfigurationInv' /\ AnswerInv'
  BY <1>1, <1>2, <1>4, AgreementFrame DEF AgreementInv, agreedVars
<1>6. QED
  BY <1>4, <1>5 DEF AgreementInv

-----------------------------------------------------------------------------
(* Endpoint 0, the core's callbacks.                                       *)

(* A transmit completion.  An address waits for the one of its status      *)
(* stage, when no request is open.                                         *)
LEMMA TxAgrees ==
  ASSUME CoreInv, EptTx
  PROVE  AgreementInv'
<1>1. PipeInv /\ AgreementInv
  BY DEF CoreInv
<1>2. /\ "TC" \in irq /\ "TX" \in tc /\ tc' = tc \ {"TX"}
      /\ usbd_core_in_handler([in0 EXCEPT !.off = @ + Len(txpkt)])
      /\ IF conn_state = "ADDRESSED" /\ device_addr > 0
           THEN hwaddr' = device_addr /\ device_addr' = 0
           ELSE UNCHANGED <<hwaddr, device_addr>>
      /\ UNCHANGED <<flags, ssp, ept1, conn_state, old_conn_state, dev_config, irq>>
      /\ UNCHANGED <<bus, stage, req, haddr, hconf, resets>>
  BY DEF EptTx, hostVars
<1>3. /\ txsts' \in {txsts, "valid"} /\ rxsts' \in {rxsts, "valid"}
      /\ ept0_sts' = ept0_sts \/ (ept0_sts = "DATA_IN" /\ ept0_sts' = "STATUS_OUT")
  BY <1>2 DEF usbd_core_in_handler, usbd_ept_send
<1>4. (Calm' <=> Calm) /\ (SetupPending' <=> SetupPending) /\ Connected' = Connected
  BY <1>2 DEF Calm, SetupPending, Connected
<1>5. ~ssp /\ Connected = conn_state
  BY <1>1, <1>2 DEF AgreementInv, SuspendInv, Connected
<1>6. /\ ~Accepted("SET_ADDRESS") /\ ~Accepted("SET_ADDRESS")'
      /\ ~Accepted("SET_CONFIGURATION") /\ ~Accepted("SET_CONFIGURATION")'
  BY <1>1, <1>2, <1>4, PipeFacts DEF Accepted
<1>7. SuspendInv'
  BY <1>1, <1>2, <1>4 DEF AgreementInv, SuspendInv
<1>8. AddressInv'
  BY <1>1, <1>2, <1>4, <1>5, <1>6 DEF AgreementInv, AddressInv, Waiting
<1>9. NewAddress' = NewAddress /\ NewConfiguration' = NewConfiguration
  BY <1>2, <1>6 DEF NewAddress, NewConfiguration
<1>10. ConfigurationInv'
  BY <1>1, <1>2, <1>4, <1>9 DEF AgreementInv, ConfigurationInv
<1>11. AnswerInv'
  <2>1. stage # "idle" /\ ~SetupPending => ept0_sts \in {"DATA_IN", "STATUS_OUT"}
    BY <1>1, <1>2 DEF PipeInv, ReadInv, WriteInv, Sending, TypeOK, WireTypeOK
  <2>2. QED
    BY <1>1, <1>2, <1>3, <1>4, <2>1 DEF AgreementInv, AnswerInv, Transfers!Supported
<1>12. QED
  BY <1>7, <1>8, <1>10, <1>11 DEF AgreementInv

(* A packet of a write has come in.                                        *)
LEMMA OutAgrees ==
  ASSUME CoreInv, EptOut
  PROVE  AgreementInv'
<1>1. PipeInv /\ AgreementInv
  BY DEF CoreInv
<1>2. /\ "OUT" \in tc /\ ~SetupPending /\ tc' = tc \ {"OUT"}
      /\ usbd_core_out_handler
      /\ UNCHANGED <<flags, hwaddr, ssp, ept1, irq>>
      /\ UNCHANGED <<conn_state, old_conn_state, device_addr, dev_config>>
      /\ UNCHANGED <<bus, stage, req, haddr, hconf, resets>>
  BY DEF EptOut, hostVars, coreVars, SetupPending
<1>3. /\ txsts' \in {txsts, "valid"} /\ rxsts' \in {rxsts, "valid"}
      /\ ept0_sts' = ept0_sts \/ (ept0_sts = "DATA_OUT" /\ ept0_sts' = "STATUS_IN")
  BY <1>2 DEF usbd_core_out_handler, usbd_ept_send
<1>4. (Calm' <=> Calm) /\ ~SetupPending' /\ Connected' = Connected
      /\ ("TX" \in tc' <=> "TX" \in tc) /\ (Waiting' <=> Waiting)
  BY <1>2 DEF Calm, SetupPending, Connected, Waiting
<1>5. stage # "idle" => ept0_sts = "DATA_OUT" /\ req.name = "CLASS_OUT"
  BY <1>1, <1>2 DEF PipeInv, ReadInv, WriteInv, Storing, TypeOK, WireTypeOK
<1>6. /\ ~Accepted("SET_ADDRESS") /\ ~Accepted("SET_ADDRESS")'
      /\ ~Accepted("SET_CONFIGURATION") /\ ~Accepted("SET_CONFIGURATION")'
  BY <1>2, <1>5 DEF Accepted
<1>7. SuspendInv'
  BY <1>1, <1>2, <1>4 DEF AgreementInv, SuspendInv
<1>8. AddressInv'
  BY <1>1, <1>2, <1>4, <1>6 DEF AgreementInv, AddressInv
<1>9. NewAddress' = NewAddress /\ NewConfiguration' = NewConfiguration
  BY <1>2, <1>6 DEF NewAddress, NewConfiguration
<1>10. ConfigurationInv'
  BY <1>1, <1>2, <1>4, <1>9 DEF AgreementInv, ConfigurationInv
<1>11. AnswerInv'
  BY <1>1, <1>2, <1>3, <1>4, <1>5 DEF AgreementInv, AnswerInv, Transfers!Supported
<1>12. QED
  BY <1>7, <1>8, <1>10, <1>11 DEF AgreementInv

(* A reset is served: the device is where the host has put it.             *)
LEMMA ResetAgrees ==
  ASSUME CoreInv, usbd_reset_handler
  PROVE  AgreementInv'
<1>1. PipeInv /\ AgreementInv
  BY DEF CoreInv
<1>2. /\ UNCHANGED <<tc, ssp, ept1, old_conn_state, device_addr, dev_config>>
      /\ UNCHANGED <<bus, stage, req, haddr, hconf, resets>>
      /\ "TC" \notin irq /\ "RST" \in irq
      /\ irq' = irq \ {"RST"} /\ flags' = flags \ {"RST"}
      /\ hwaddr' = 0 /\ conn_state' = "DEFAULT"
  BY DEF usbd_reset_handler, hostVars
<1>3. /\ flags = {"RST"} /\ tc = {} /\ stage = "idle" /\ bus = "active" /\ ~Calm
      /\ ~ssp /\ haddr = 0 /\ hconf = 0
  BY <1>1, <1>2, PipeFacts DEF AgreementInv, SuspendInv, Calm
<1>4. Calm' /\ Connected' = "DEFAULT" /\ ~Waiting'
  BY <1>2, <1>3 DEF Calm, Connected, Waiting
<1>5. ~Accepted("SET_ADDRESS")' /\ ~Accepted("SET_CONFIGURATION")'
  BY <1>2, <1>3 DEF Accepted
<1>6. SuspendInv'
  BY <1>1, <1>2, <1>3, <1>4, PipeFacts DEF AgreementInv, SuspendInv
<1>7. AddressInv' /\ AnswerInv'
  BY <1>2, <1>3, <1>4, <1>5 DEF AddressInv, AnswerInv
<1>8. NewAddress' = 0 /\ NewConfiguration' = 0
  BY <1>2, <1>3, <1>5 DEF NewAddress, NewConfiguration
<1>9. ConfigurationInv'
  BY <1>1, <1>2, <1>3, <1>4, <1>8 DEF AgreementInv, ConfigurationInv
<1>10. QED
  BY <1>6, <1>7, <1>9 DEF AgreementInv

-----------------------------------------------------------------------------
(* Requests.  What the core's state is when the host makes one: where the  *)
(* host has put it.                                                        *)
Placed ==
  /\ conn_state = IF haddr = 0 THEN "DEFAULT"
                  ELSE IF hconf = 0 THEN "ADDRESSED" ELSE "CONFIGURED"
  /\ hconf # 0 => haddr # 0 /\ dev_config = hconf

(* The ways in which a request can be answered, and what the core keeps of *)
(* it.                                                                     *)
CoreKept == UNCHANGED <<conn_state, device_addr, dev_config>>

Stalled ==
  /\ ept0_sts' = "SETUP" /\ ~Supported(req)
  /\ CoreKept /\ ept1' = ept1

Unanswered ==
  /\ ept0_sts' = "SETUP" /\ UNCHANGED <<txsts, rxsts>>
  /\ CoreKept /\ ept1' \in {ept1, "stall"}

Served ==
  /\ ept0_sts' # "SETUP" /\ txsts' \in {txsts, "valid"} /\ rxsts' \in {rxsts, "valid"}
  /\ Supported(req)

ServedAddress ==
  /\ req.name = "SET_ADDRESS" /\ req.wLength = 0
  /\ txsts' = "valid" /\ device_addr' = req.value
  /\ conn_state # "CONFIGURED"
  /\ conn_state' = IF req.value # 0 THEN "ADDRESSED" ELSE "DEFAULT"
  /\ UNCHANGED <<dev_config, ept1>>

ServedConfiguration ==
  /\ req.name = "SET_CONFIGURATION" /\ req.wLength = 0
  /\ txsts' = "valid" /\ device_addr' = device_addr
  /\ conn_state \in {"ADDRESSED", "CONFIGURED"}
  /\ \/ /\ req.value # 0 /\ (conn_state = "CONFIGURED" => req.value = dev_config)
        /\ conn_state' = "CONFIGURED" /\ dev_config' = req.value /\ ept1' = "nak"
     \/ /\ req.value # 0 /\ conn_state = "CONFIGURED" /\ req.value # dev_config
        /\ CoreKept /\ ept1' = ept1
     \/ /\ req.value = 0 /\ conn_state = "ADDRESSED"
        /\ CoreKept /\ ept1' = ept1
     \/ /\ req.value = 0 /\ conn_state = "CONFIGURED"
        /\ conn_state' = "ADDRESSED" /\ dev_config' = 0 /\ ept1' = "disabled"

ServedOther ==
  /\ req.name \notin {"SET_ADDRESS", "SET_CONFIGURATION"}
  /\ CoreKept
  /\ ept1' = ept1 \/ (conn_state = "CONFIGURED" /\ ept1' \in {"stall", "valid"})

(* What is supported is served, and what is stalled is not supported.      *)
LEMMA RequestOutcome ==
  ASSUME Placed,
         \/ usbd_get_descriptor \/ usbd_set_address \/ usbd_get_status
         \/ usbd_clear_feature \/ usbd_set_feature
         \/ usbd_get_configuration \/ usbd_set_configuration
         \/ usbd_interface_request \/ usbd_endpoint_request \/ UnknownRequest
  PROVE  \/ Stalled \/ Unanswered
         \/ Served /\ (ServedAddress \/ ServedConfiguration \/ ServedOther)
<1>1. /\ conn_state \in {"ADDRESSED", "CONFIGURED"} <=> haddr # 0
      /\ conn_state = "CONFIGURED" <=> hconf # 0
      /\ conn_state \in {"DEFAULT", "ADDRESSED", "CONFIGURED"}
  BY DEF Placed
<1>2. /\ usbd_ctrl_unsupport => ept0_sts' = "SETUP"
      /\ NoAnswer => ept0_sts' = "SETUP" /\ UNCHANGED <<txsts, rxsts>>
      /\ usbd_ctrl_send_status =>
           ept0_sts' # "SETUP" /\ txsts' = "valid" /\ rxsts' = rxsts
      /\ usbd_ctrl_recv(req.wLength) => ept0_sts' # "SETUP" /\ rxsts' = "valid" /\ txsts' = txsts
  BY DEF usbd_ctrl_unsupport, NoAnswer, usbd_ctrl_send_status, usbd_ctrl_recv, usbd_ept_send
<1>3. ASSUME NEW n, usbd_ctrl_send(n)
      PROVE  ept0_sts' # "SETUP" /\ txsts' = "valid" /\ rxsts' = rxsts
  BY <1>3 DEF usbd_ctrl_send, usbd_ept_send
<1>4. /\ UNCHANGED coreVars => CoreKept
      /\ UNCHANGED <<coreVars, ept1>> => CoreKept /\ ept1' = ept1
  BY DEF coreVars, CoreKept
<1> USE DEF Supported, Transfers!Supported
<1>5. CASE usbd_get_descriptor
  BY <1>2, <1>3, <1>4, <1>5
     DEF usbd_get_descriptor, Stalled, Unanswered, Served, ServedOther
<1>6. CASE usbd_set_address
  BY <1>1, <1>2, <1>6 DEF usbd_set_address, Stalled, Served, ServedAddress, CoreKept
<1>7. CASE usbd_get_status
  BY <1>1, <1>2, <1>3, <1>4, <1>7 DEF usbd_get_status, Stalled, Served, ServedOther
<1>8. CASE usbd_clear_feature
  BY <1>1, <1>2, <1>8
     DEF usbd_clear_feature, Stalled, Unanswered, Served, ServedOther, CoreKept
<1>9. CASE usbd_set_feature
  BY <1>2, <1>9 DEF usbd_set_feature, Unanswered, Served, ServedOther, CoreKept
<1>10. CASE usbd_get_configuration
  BY <1>1, <1>2, <1>3, <1>4, <1>10
     DEF usbd_get_configuration, Stalled, Served, ServedOther
<1>11. CASE usbd_set_configuration
  BY <1>1, <1>2, <1>11
     DEF usbd_set_configuration, class_init_handler, class_clear_handler,
         Stalled, Served, ServedConfiguration, CoreKept
<1>12. CASE usbd_interface_request
  BY <1>1, <1>2, <1>3, <1>4, <1>12
     DEF usbd_interface_request, class_setup_handler, Stalled, Unanswered, Served, ServedOther
<1>13. CASE usbd_endpoint_request
  <2>1. CASE conn_state = "ADDRESSED"
    BY <1>4, <1>13, <2>1 DEF usbd_endpoint_request, usbd_set_stall, Unanswered
  <2>2. CASE conn_state = "CONFIGURED" /\ req.name = "EPT_GET_STATUS"
    BY <1>1, <1>3, <1>4, <1>13, <2>2 DEF usbd_endpoint_request, Served, ServedOther
  <2>3. CASE conn_state = "CONFIGURED" /\ req.name # "EPT_GET_STATUS"
    BY <1>1, <1>4, <1>13, <2>3
       DEF usbd_endpoint_request, usbd_ept_send, usbd_set_stall, usbd_clear_stall,
           Served, ServedOther
  <2>4. CASE conn_state = "DEFAULT"
    BY <1>1, <1>2, <1>4, <1>13, <2>4 DEF usbd_endpoint_request, Stalled
  <2>5. QED
    BY <1>1, <2>1, <2>2, <2>3, <2>4
<1>14. CASE UnknownRequest
  BY <1>2, <1>4, <1>14 DEF UnknownRequest, Stalled, Unanswered
<1>15. QED
  BY <1>5, <1>6, <1>7, <1>8, <1>9, <1>10, <1>11, <1>12, <1>13, <1>14

(* Whatever the state is in which a request is seen.                       *)
LEMMA RequestKeeps ==
  ASSUME TypeOK,
         \/ usbd_get_descriptor \/ usbd_set_address \/ usbd_get_status
         \/ usbd_clear_feature \/ usbd_set_feature
         \/ usbd_get_configuration \/ usbd_set_configuration
         \/ usbd_interface_request \/ usbd_endpoint_request \/ UnknownRequest
  PROVE  /\ old_conn_state' = old_conn_state
         /\ conn_state # "SUSPENDED" => conn_state' # "SUSPENDED"
         /\ \/ dev_config' \in {dev_config, 0}
            \/ req.name = "SET_CONFIGURATION" /\ req.value # 0 /\ dev_config' = req.value
<1>1. CASE usbd_set_address
  BY <1>1 DEF usbd_set_address
<1>2. CASE usbd_clear_feature \/ usbd_set_feature
  BY <1>2 DEF usbd_clear_feature, usbd_set_feature
<1>3. CASE usbd_set_configuration
  BY <1>3 DEF usbd_set_configuration
<1>4. CASE UNCHANGED coreVars
  BY <1>4 DEF coreVars
<1>5. QED
  BY <1>1, <1>2, <1>3, <1>4
     DEF usbd_get_descriptor, usbd_get_status, usbd_get_configuration,
         usbd_interface_request, usbd_endpoint_request, UnknownRequest

(* A request is seen: what is answered is what the host may expect, and    *)
(* the core's state is the one that the host will assume.                  *)
LEMMA RequestAgrees ==
  ASSUME CoreInv, HostPolicy, usbd_core_setup_handler
  PROVE  AgreementInv'
<1>1. PipeInv /\ AgreementInv /\ TypeOK
  BY DEF CoreInv, PipeInv
<1>2. /\ "TC" \in irq /\ "TX" \notin tc /\ SetupPending /\ tc' = tc \ {"SETUP"}
      /\ UNCHANGED <<flags, hwaddr, ssp, irq, bus, stage, req, haddr, hconf, resets>>
      /\ \/ usbd_get_descriptor \/ usbd_set_address \/ usbd_get_status
         \/ usbd_clear_feature \/ usbd_set_feature
         \/ usbd_get_configuration \/ usbd_set_configuration
         \/ usbd_interface_request \/ usbd_endpoint_request \/ UnknownRequest
  BY DEF usbd_core_setup_handler, hostVars, SetupPending
<1>3. /\ old_conn_state' = old_conn_state
      /\ conn_state # "SUSPENDED" => conn_state' # "SUSPENDED"
      /\ \/ dev_config' \in {dev_config, 0}
         \/ req.name = "SET_CONFIGURATION" /\ req.value # 0 /\ dev_config' = req.value
  BY <1>1, <1>2, RequestKeeps
<1>4. (Calm' <=> Calm) /\ ~SetupPending' /\ "TX" \notin tc' /\ ~ssp /\ tc # {}
      /\ conn_state # "SUSPENDED"
  BY <1>1, <1>2 DEF AgreementInv, SuspendInv, Calm, SetupPending
<1>5. Connected = conn_state /\ Connected' = conn_state'
  BY <1>2, <1>4 DEF Connected
<1>6. SuspendInv'
  BY <1>1, <1>2, <1>3, <1>4 DEF AgreementInv, SuspendInv
<1>7. req \in Requests
  <2>1. req.name # "none"
    BY <1>2
       DEF usbd_get_descriptor, usbd_set_address, usbd_get_status, usbd_clear_feature,
           usbd_set_feature, usbd_get_configuration, usbd_set_configuration,
           usbd_interface_request, usbd_endpoint_request, UnknownRequest
  <2>2. QED
    BY <1>1, <2>1 DEF TypeOK, WireTypeOK, Transfers!NoRequest
<1>8. \A r \in Requests :
        r.name = "SET_CONFIGURATION" /\ r.value # 0 /\ dev_config' # 0 => r.value = dev_config'
  <2>1. \A r \in Requests :
          r.name = "SET_CONFIGURATION" /\ r.value # 0 /\ dev_config # 0 => r.value = dev_config
    BY <1>1 DEF AgreementInv, ConfigurationInv
  <2>2. CASE dev_config' \in {dev_config, 0}
    BY <2>1, <2>2
  <2>3. CASE req.name = "SET_CONFIGURATION" /\ req.value # 0 /\ dev_config' = req.value
    BY <1>7, <2>3 DEF HostPolicy
  <2>4. QED
    BY <1>3, <2>2, <2>3
<1>9. CASE ~Calm
  <2>1. stage = "idle" /\ resets # 0
    BY <1>1, <1>4, <1>9, PipeFacts DEF AgreementInv, ConfigurationInv
  <2>2. AddressInv' /\ AnswerInv'
    BY <1>2, <1>4, <1>9, <2>1 DEF AddressInv, AnswerInv
  <2>3. ConfigurationInv'
    BY <1>2, <1>4, <1>8, <1>9, <2>1 DEF ConfigurationInv
  <2>4. QED
    BY <1>6, <2>2, <2>3 DEF AgreementInv
<1>10. CASE Calm
  <2>1. /\ stage # "idle" /\ txsts = "nak" /\ rxsts = "nak"
        /\ req.wLength = 0 => stage = "status_in"
    BY <1>1, <1>2, <1>10, PipeFacts DEF PipeInv, StageInv, TypeOK, WireTypeOK
  <2>2. ~Accepted("SET_ADDRESS") /\ ~Accepted("SET_CONFIGURATION")
    BY <1>2 DEF Accepted
  <2>3. ~Waiting /\ hwaddr = haddr
    BY <1>1, <1>2, <1>10, <2>2 DEF AgreementInv, AddressInv
  <2>4. Placed
    BY <1>1, <1>5, <1>10, <2>2
       DEF AgreementInv, ConfigurationInv, NewAddress, NewConfiguration, Placed
  <2>5. device_addr \in Nat /\ req.value \in Nat /\ dev_config \in Nat
    BY <1>1, <1>7, ConstantFacts DEF TypeOK, CoreTypeOK
  <2>6. conn_state \in {"ADDRESSED", "CONFIGURED"} => device_addr = 0
    BY <1>1, <1>5, <1>10, <2>3, <2>5 DEF AgreementInv, AddressInv, Waiting
  <2>7. (conn_state = "CONFIGURED" => ept1 # "disabled")
        /\ (resets = 0 /\ ept1 \notin {"disabled", "stall"} => conn_state = "CONFIGURED")
    BY <1>1, <1>5, <1>10 DEF AgreementInv, ConfigurationInv
  <2>8. \/ Stalled \/ Unanswered
        \/ Served /\ (ServedAddress \/ ServedConfiguration \/ ServedOther)
    BY <1>2, <2>4, RequestOutcome
  <2>9. AnswerInv'
    <3>1. Supported(req)' <=> Supported(req)
      BY <1>2 DEF Supported, Transfers!Supported
    <3>2. txsts' \in {"nak", "stall"} \/ Served
      BY <1>1, <1>2, <1>7, <2>1, <2>8, RequestAnswers
         DEF Answers, Sends, Receives, Acknowledges, Refuses, Stalled, Unanswered
    <3>3. QED
      BY <2>1, <2>8, <3>1, <3>2 DEF AnswerInv, Stalled, Unanswered, Served, Supported
  <2>10. CASE CoreKept /\ (ept1' = ept1 \/ ept1' = "stall"
                           \/ (conn_state = "CONFIGURED" /\ ept1' = "valid"))
              /\ ~Accepted("SET_ADDRESS")' /\ ~Accepted("SET_CONFIGURATION")'
    <3>1. UNCHANGED <<conn_state, device_addr, dev_config>>
      BY <2>10 DEF CoreKept
    <3>2. AddressInv'
      BY <1>2, <1>4, <1>5, <2>3, <2>6, <2>10, <3>1 DEF AddressInv, Waiting
    <3>3. NewAddress' = haddr /\ NewConfiguration' = hconf
      BY <1>2, <2>10 DEF NewAddress, NewConfiguration
    <3>4. ConfigurationInv'
      BY <1>2, <1>4, <1>5, <1>8, <1>10, <2>4, <2>7, <2>10, <3>1, <3>3
         DEF ConfigurationInv, Placed
    <3>5. QED
      BY <1>6, <2>9, <3>2, <3>4 DEF AgreementInv
  <2>11. CASE Served /\ ServedAddress
    <3>1. req.value # 0 /\ conn_state' = "ADDRESSED" /\ device_addr' = req.value
          /\ UNCHANGED <<dev_config, ept1>> /\ conn_state # "CONFIGURED"
      BY <1>7, <2>11 DEF HostPolicy, ServedAddress
    <3>2. Accepted("SET_ADDRESS")' /\ ~Accepted("SET_CONFIGURATION")'
      BY <1>2, <1>4, <2>1, <2>11 DEF Accepted, ServedAddress
    <3>3. AddressInv'
      BY <1>2, <1>5, <2>3, <2>5, <3>1, <3>2 DEF AddressInv, Waiting
    <3>4. NewAddress' = req.value /\ NewConfiguration' = hconf /\ hconf = 0
      BY <1>2, <2>4, <3>1, <3>2 DEF NewAddress, NewConfiguration, Placed
    <3>5. ConfigurationInv'
      BY <1>2, <1>4, <1>5, <1>8, <1>10, <2>7, <3>1, <3>4 DEF ConfigurationInv
    <3>6. QED
      BY <1>6, <2>9, <3>3, <3>5 DEF AgreementInv
  <2>12. CASE Served /\ ServedConfiguration
    <3>1. Accepted("SET_CONFIGURATION")' /\ ~Accepted("SET_ADDRESS")'
      BY <1>2, <1>4, <2>1, <2>12 DEF Accepted, ServedConfiguration
    <3>2. /\ device_addr' = 0 /\ haddr # 0
          /\ conn_state = "CONFIGURED" => dev_config # 0
      BY <2>4, <2>6, <2>12 DEF Placed, ServedConfiguration
    <3>3. req.value # 0 /\ conn_state = "CONFIGURED" => req.value = dev_config
      BY <1>1, <1>7, <2>12, <3>2 DEF AgreementInv, ConfigurationInv, ServedConfiguration
    <3>4. /\ conn_state' = IF req.value = 0 THEN "ADDRESSED" ELSE "CONFIGURED"
          /\ req.value # 0 => dev_config' = req.value /\ ept1' = "nak"
          /\ req.value = 0 => ept1' = "disabled" \/ (ept1' = ept1 /\ conn_state = "ADDRESSED")
      BY <2>12, <3>3 DEF ServedConfiguration, CoreKept
    <3>5. AddressInv'
      BY <1>2, <1>5, <2>3, <3>1, <3>2 DEF AddressInv, Waiting
    <3>6. NewAddress' = haddr /\ NewConfiguration' = req.value
      BY <1>2, <3>1 DEF NewAddress, NewConfiguration
    <3>7. hconf # 0 => haddr # 0
      BY <2>4 DEF Placed
    <3>8. ConfigurationInv'
      BY <1>2, <1>4, <1>5, <1>8, <1>10, <2>7, <3>2, <3>4, <3>6, <3>7 DEF ConfigurationInv
    <3>9. QED
      BY <1>6, <2>9, <3>5, <3>8 DEF AgreementInv
  <2>13. CASE ~(Served /\ (ServedAddress \/ ServedConfiguration))
    <3>1. Stalled \/ Unanswered \/ (Served /\ ServedOther)
      BY <2>8, <2>13
    <3>2. ~Accepted("SET_ADDRESS")' /\ ~Accepted("SET_CONFIGURATION")'
      BY <1>2, <2>9, <3>1, <2>1, <1>4
         DEF AnswerInv, Accepted, Stalled, Unanswered, ServedOther
    <3>3. QED
      BY <2>10, <3>1, <3>2 DEF Stalled, Unanswered, ServedOther
  <2>14. QED
    BY <2>11, <2>12, <2>13
<1>11. QED
  BY <1>9, <1>10

-----------------------------------------------------------------------------
(* The core's invariant.                                                   *)

LEMMA AgreementInit ==
  Init => AgreementInv
<1> SUFFICES ASSUME Init PROVE AgreementInv
  OBVIOUS
<1>1. /\ conn_state = "DEFAULT" /\ old_conn_state = "DEFAULT" /\ dev_config = 0 /\ irq = {}
      /\ tc = {} /\ flags = {} /\ ssp = FALSE /\ ept1 = "disabled" /\ bus = "reset"
      /\ stage = "idle" /\ haddr = 0 /\ hconf = 0 /\ ~Calm
  BY DEF Init, WireInit, Calm
<1>2. SuspendInv
  BY <1>1 DEF SuspendInv
<1>3. AddressInv /\ AnswerInv
  BY <1>1 DEF AddressInv, AnswerInv
<1>4. ConfigurationInv
  BY <1>1 DEF ConfigurationInv
<1>5. QED
  BY <1>2, <1>3, <1>4 DEF AgreementInv

LEMMA AgreementStutter ==
  ASSUME CoreInv, UNCHANGED vars
  PROVE  AgreementInv'
<1>1. /\ UNCHANGED <<conn_state, old_conn_state, ssp, flags, bus, irq>>
      /\ UNCHANGED agreedVars
  BY DEF vars, wireVars, coreVars, ept0Vars, agreedVars
<1>2. tc' = tc /\ stage' = stage /\ haddr' = haddr /\ hconf' = hconf
  BY <1>1 DEF agreedVars
<1>3. (Calm' <=> Calm) /\ Connected' = Connected
  BY <1>1 DEF Calm, Connected
<1>4. AddressInv' /\ ConfigurationInv' /\ AnswerInv'
  BY <1>1, <1>3, AgreementFrame DEF CoreInv, AgreementInv
<1>5. SuspendInv'
  BY <1>1, <1>2, <1>3 DEF CoreInv, AgreementInv, SuspendInv
<1>6. QED
  BY <1>4, <1>5 DEF AgreementInv

LEMMA CoreNext ==
  ASSUME HostPolicy, CoreInv, [Next]_vars
  PROVE  CoreInv'
<1>1. PipeInv'
  BY PipeNext DEF CoreInv
<1>2. CASE HostMakes
  BY <1>1, <1>2, MakeAgrees DEF HostMakes, CoreInv
<1>3. CASE HostServes
  BY <1>1, <1>3, ServeAgrees DEF CoreInv
<1>4. CASE HostChoice
  BY <1>1, <1>4, ChoiceAgrees DEF CoreInv
<1>5. CASE Wire
  BY <1>1, <1>5, WireAgrees DEF CoreInv
<1>6. CASE usbd_irq_handler
  BY <1>1, <1>6, QuietAgrees, TxAgrees, RequestAgrees, OutAgrees, ResetAgrees
     DEF usbd_irq_handler, CoreInv
<1>7. CASE usbd_remote_wakeup
  BY <1>1, <1>7, QuietAgrees DEF CoreInv
<1>8. CASE Finished \/ UNCHANGED vars
  BY <1>1, <1>8, AgreementStutter DEF Finished, CoreInv
<1>9. QED
  BY <1>2, <1>3, <1>4, <1>5, <1>6, <1>7, <1>8 DEF Next

(* The pipe is where the host believes it to be, and so are address and    *)
(* configuration, in every behaviour of the device core with a host that   *)
(* keeps to HostPolicy (usbd_core.c, usbd_int.c, usbd_sdr.c).              *)
THEOREM CoreInvariant ==
  ASSUME HostPolicy
  PROVE  Spec => []CoreInv
<1>1. Init => CoreInv
  BY PipeInit, AgreementInit DEF CoreInv
<1>2. CoreInv /\ [Next]_vars => CoreInv'
  BY CoreNext
<1>3. QED
  BY <1>1, <1>2, PTL DEF Spec

(* Between transfers host and device agree on address, configuration and   *)
(* open endpoints, through every order of requests, resets, suspends and   *)
(* wake-ups (usbd_sdr.c with usbd_reset_handler, usbd_suspend_handler and  *)
(* usbd_wakeup_handler).                                                   *)
THEOREM HostAndDeviceAgree ==
  ASSUME HostPolicy
  PROVE  Spec => []HostAgrees
<1>1. CoreInv => HostAgrees
  <2> SUFFICES ASSUME CoreInv, Quiescent PROVE HostAgrees
    BY DEF HostAgrees, AddressAgrees, ConfigAgrees, EndpointsAgree
  <2>1. AgreementInv /\ Calm /\ Connected = conn_state /\ stage = "idle" /\ "TX" \notin tc
    BY DEF CoreInv, Quiescent, Calm, Connected
  <2>2. ~Accepted("SET_ADDRESS") /\ ~Accepted("SET_CONFIGURATION")
    BY <2>1 DEF Accepted
  <2>3. NewAddress = haddr /\ NewConfiguration = hconf
    BY <2>2 DEF NewAddress, NewConfiguration
  <2>4. AddressAgrees
    BY <2>1, <2>2 DEF AgreementInv, AddressInv, AddressAgrees
  <2>5. ConfigAgrees /\ EndpointsAgree
    BY <2>1, <2>3 DEF AgreementInv, ConfigurationInv, ConfigAgrees, EndpointsAgree
  <2>6. QED
    BY <2>4, <2>5 DEF HostAgrees
<1>2. QED
  BY <1>1, CoreInvariant, PTL

(* No handler writes a new address to the register before the host uses it *)
(* (usbd_eptn_handler, device_addr).                                       *)
THEOREM AddressIsTakenLate ==
  ASSUME HostPolicy
  PROVE  Spec => AddressTakenLate
<1> DEFINE Late == hwaddr' # hwaddr => hwaddr' = haddr \/ bus = "reset" \/ "RST" \in flags
<1>1. ASSUME CoreInv, [Next]_vars
      PROVE  [Late]_vars
  <2>1. CASE EptTx
    <3>1. "TX" \in tc /\ (ssp \/ hwaddr' = hwaddr \/ (Waiting /\ hwaddr' = device_addr))
      BY <2>1 DEF EptTx, Waiting, Connected
    <3>2. ~ssp
      BY <1>1, <2>1 DEF CoreInv, AgreementInv, SuspendInv, EptTx
    <3>3. ~Accepted("SET_ADDRESS")
      BY <1>1, <3>1, <3>2, PipeFacts DEF CoreInv, Accepted
    <3>4. QED
      BY <1>1, <3>1, <3>2, <3>3 DEF CoreInv, AgreementInv, AddressInv, Calm
  <2>2. CASE usbd_reset_handler
    <3>1. "RST" \in flags
      BY <1>1, <2>2, PipeFacts DEF CoreInv, usbd_reset_handler
    <3>2. QED
      BY <3>1
  <2>3. CASE UNCHANGED hwaddr
    BY <2>3
  <2>4. ASSUME ~EptTx, ~usbd_reset_handler
        PROVE  UNCHANGED hwaddr
    <3>1. CASE HostMakes \/ HostServes
      BY <3>1 DEF HostMakes, HostServes, HostSetup, HostGoesOn
    <3>2. CASE HostChoice \/ Wire
      BY <3>2 DEF HostChoice, Wire, HostCancel, HostReset, HostSuspend, HostResume, HwReset,
                  HwSuspend, HwWake, chipVars
    <3>3. CASE usbd_irq_handler
      BY <2>4, <3>3
         DEF usbd_irq_handler, IrqEnter, usbd_core_setup_handler, EptOut, usbd_ept_loop_end,
             usbd_suspend_handler, usbd_wakeup_handler, wireVars
    <3>4. CASE usbd_remote_wakeup
      BY <3>4 DEF usbd_remote_wakeup
    <3>5. CASE Finished \/ UNCHANGED vars
      BY <3>5 DEF Finished, vars, wireVars
    <3>6. QED
      BY <1>1, <3>1, <3>2, <3>3, <3>4, <3>5 DEF Next
  <2>5. QED
    BY <2>1, <2>2, <2>3, <2>4
<1>2. QED
  BY <1>1, CoreInvariant, PTL DEF Spec, AddressTakenLate

-----------------------------------------------------------------------------
(* The steps of the control pipe, as the host sees them.                   *)

(* What the host gets is a step of USBTransfers, or nothing at all.        *)
PipeStep == Transfers!Next \/ UNCHANGED Transfers!vars

LEMMA PipeUnchanged ==
  ASSUME UNCHANGED <<xfer, req, got, result, haddr, hconf>>, stage # "idle" <=> stage' # "idle"
  PROVE  PipeStep
BY DEF PipeStep, Transfers!vars

LEMMA MakeImplements ==
  ASSUME NEW r \in Requests, HostSetup(r)
  PROVE  Transfers!Make
BY DEF HostSetup, Transfers!Make

LEMMA ServeImplements ==
  ASSUME CoreInv, CoreInv', HostServes
  PROVE  PipeStep
<1>1. /\ PipeInv /\ TypeOK /\ StageInv /\ ReadInv /\ WriteInv /\ AnswerInv
      /\ got = Bytes(xfer, Len(got)) /\ got' = Bytes(xfer', Len(got'))
  BY DEF CoreInv, PipeInv, AgreementInv
<1>2. /\ HostDataIn \/ HostDataOut \/ HostStatusIn \/ HostStatusOut
      /\ UNCHANGED <<req, xfer>> /\ stage # "idle" /\ bus = "active"
  BY DEF HostServes, HostGoesOn, Hears, HostDataIn, HostDataOut, HostStatusIn, HostStatusOut
<1>3. Calm /\ req \in Requests /\ xfer \in Nat
  BY <1>1, <1>2, PipeFacts, HostAssumption DEF TypeOK, WireTypeOK
<1>4. CASE /\ \/ stage \in {"data_in", "status_in"} /\ IsStalled(txsts)
              \/ stage \in {"data_out", "status_out"} /\ IsStalled(rxsts)
  <2>1. "stall" \in {txsts, rxsts} /\ Ends("stalled") /\ got' = got
    BY <1>4 DEF IsStalled
  <2>2. ~SetupPending
    BY <1>1, <1>3, <2>1, PipeFacts
  <2>3. ~Transfers!Supported(req)
    BY <1>1, <1>2, <2>1, <2>2 DEF AnswerInv
  <2>4. Transfers!Refuse
    BY <1>2, <2>1, <2>3 DEF Transfers!Refuse, Ends
  <2>5. QED
    BY <2>4 DEF PipeStep, Transfers!Next, Transfers!Answer
<1>5. CASE stage = "data_in" /\ TakesPacket /\ stage' # "idle"
           /\ UNCHANGED <<result, haddr, hconf>>
  <2> DEFINE n == Len(got)
             m == in0.last_len
  <2>1. txsts = "valid" /\ got' = got \o txpkt
    BY <1>5 DEF TakesPacket
  <2>2. ~SetupPending /\ Sending /\ "TX" \notin tc
    BY <1>1, <1>3, <1>5, <2>1, PipeFacts DEF ReadInv, Sending
  <2>3. /\ in0.ept0_slen = Expected(req) /\ (DataPacket \/ EndPacket)
        /\ txpkt = Packet(xfer, n, m) /\ n = in0.off
    BY <2>2 DEF Sending, Packet
  <2>4. in0 \in EptIn /\ MaxPacket \in Nat /\ MaxPacket >= 1 /\ txpkt \in Seq(Byte)
        /\ got \in Seq(Byte)
    BY <1>1, ConstantFacts DEF TypeOK, WireTypeOK, CoreTypeOK
  <2>5. m \in Nat /\ n \in Nat /\ in0.rem0_len \in Nat /\ in0.ept0_slen \in Nat
    BY <2>3, <2>4 DEF EptIn
  <2>6. Len(txpkt) = m
    BY <1>3, <2>3, <2>5, PacketType
  <2>7. Len(got') = n + m
    BY <2>1, <2>4, <2>6, ConcatProperties
  <2>8. n + m <= Expected(req)
    BY <2>3, <2>4, <2>5 DEF DataPacket, EndPacket, Transfers!Min2
  <2>9. CASE m = 0
    <3>1. txpkt = <<>>
      BY <1>3, <2>3, <2>5, <2>9, BytesEmpty
    <3>2. got' = got
      BY <2>1, <2>4, <3>1
    <3>3. QED
      BY <1>2, <1>5, <3>2, PipeUnchanged
  <2>10. CASE m # 0
    <3>1. Len(got') \in Len(got) + 1 .. Expected(req)
      <4>1. Expected(req) \in Nat
        BY <1>3, ConstantFacts
      <4>2. QED
        BY <2>5, <2>7, <2>8, <2>10, <4>1
    <3>2. got' = Transfers!Bytes(xfer, Len(got'))
      BY <1>1, <1>2 DEF Bytes
    <3>3. Transfers!Deliver
      BY <1>2, <1>5, <3>1, <3>2 DEF Transfers!Deliver, Expected
    <3>4. QED
      BY <3>3 DEF PipeStep, Transfers!Next, Transfers!Answer
  <2>11. QED
    BY <2>9, <2>10
<1>6. CASE stage = "data_out" /\ got' = got /\ stage' # "idle"
           /\ UNCHANGED <<result, haddr, hconf>>
  BY <1>2, <1>6, PipeUnchanged
<1>7. CASE stage = "status_in" /\ TakesPacket /\ Ends("ok")
  <2>1. txsts = "valid" /\ got' = got \o txpkt
    BY <1>7 DEF TakesPacket
  <2>2. ~SetupPending
    BY <1>1, <1>3, <2>1, PipeFacts
  <2>3. got = <<>> /\ txpkt = <<>> /\ Expected(req) = 0
    BY <1>1, <1>7, <2>1, <2>2 DEF WriteInv
  <2>4. Transfers!Supported(req)
    BY <1>1, <1>7, <2>1, <2>2 DEF AnswerInv
  <2>5. got = Transfers!Bytes(xfer, Transfers!Expected(req)) /\ got' = got
    BY <1>3, <2>1, <2>3, BytesEmpty DEF Bytes, Expected
  <2>6. Transfers!Complete
    BY <1>2, <1>7, <2>4, <2>5 DEF Transfers!Complete, Ends
  <2>7. QED
    BY <2>6 DEF PipeStep, Transfers!Next, Transfers!Answer
<1>8. CASE stage = "status_out" /\ GivesPacket(0) /\ Ends("ok")
  <2>1. got' = got
    BY <1>8 DEF GivesPacket
  <2>2. ~SetupPending /\ ept0_sts # "SETUP" /\ Len(got) = Expected(req)
    BY <1>1, <1>8 DEF ReadInv
  <2>3. Transfers!Supported(req)
    BY <1>1, <1>8, <2>2 DEF AnswerInv
  <2>4. got = Transfers!Bytes(xfer, Transfers!Expected(req))
    BY <1>1, <2>2 DEF Bytes, Expected
  <2>5. Transfers!Complete
    BY <1>2, <1>8, <2>1, <2>3, <2>4 DEF Transfers!Complete, Ends
  <2>6. QED
    BY <2>5 DEF PipeStep, Transfers!Next, Transfers!Answer
<1>9. QED
  BY <1>2, <1>4, <1>5, <1>6, <1>7, <1>8
     DEF HostDataIn, HostDataOut, HostStatusIn, HostStatusOut, GoesOn, GivesPacket

(* The host gives up, resets the bus or lets it idle.                      *)
LEMMA ChoiceImplements ==
  ASSUME HostChoice
  PROVE  PipeStep
<1>1. CASE HostCancel
  BY <1>1 DEF HostCancel, Ends, PipeStep, Transfers!Next, Transfers!Cancel
<1>2. CASE HostReset
  BY <1>2 DEF HostReset, PipeStep, Transfers!Next, Transfers!Reset
<1>3. CASE HostSuspend
  BY <1>3, PipeUnchanged DEF HostSuspend
<1>4. QED
  BY <1>1, <1>2, <1>3 DEF HostChoice

(* Nothing else changes what the host has.                                 *)
LEMMA DeviceImplements ==
  ASSUME Wire \/ usbd_irq_handler \/ usbd_remote_wakeup \/ Finished \/ UNCHANGED vars
  PROVE  PipeStep
<1>1. UNCHANGED <<xfer, req, got, result, haddr, hconf, stage>>
  BY DEF Wire, HostResume, HwReset, HwSuspend, HwWake, usbd_irq_handler, IrqEnter, EptTx,
         usbd_core_setup_handler, EptOut, usbd_ept_loop_end, usbd_reset_handler,
         usbd_suspend_handler, usbd_wakeup_handler, usbd_remote_wakeup, Finished,
         vars, wireVars, hostVars
<1>2. QED
  BY <1>1, PipeUnchanged

(* Seen from the host, every step of the device core is a step of a device *)
(* that delivers in order what it is asked for, completes what it supports *)
(* and refuses nothing else: the safety of ControlPipe.                    *)
THEOREM ImplementsControlPipe ==
  ASSUME HostPolicy
  PROVE  Spec => Transfers!Init /\ [][Transfers!Next]_Transfers!vars
<1>1. Init => Transfers!Init
  BY DEF Init, WireInit, Transfers!Init
<1>2. ASSUME CoreInv, CoreInv', [Next]_vars
      PROVE  [Transfers!Next]_Transfers!vars
  <2>1. PipeStep
    <3>1. CASE HostMakes
      BY <3>1, MakeImplements DEF HostMakes, PipeStep, Transfers!Next
    <3>2. CASE ~HostMakes
      BY <1>2, <3>2, ServeImplements, ChoiceImplements, DeviceImplements DEF Next
    <3>3. QED
      BY <3>1, <3>2
  <2>2. QED
    BY <2>1 DEF PipeStep
<1>3. QED
  BY <1>1, <1>2, CoreInvariant, PTL DEF Spec
=============================================================================
