---------------------------- MODULE USBControlInv ----------------------------
(***************************************************************************)
(* What holds of host, peripheral and device core between any two steps of *)
(* a control transfer.  Together with the types it is inductive, and it    *)
(* implies ReadExact and WriteExact.                                       *)
(***************************************************************************)
EXTENDS USBControl

Bytes(k, n) == Transfers!Bytes(k, n)
Expected(r) == Transfers!Expected(r)

(* No reset is on its way or waits to be served.                           *)
Calm == bus # "reset" /\ "RST" \notin flags

SetupPending == "SETUP" \in tc

(* The handler serves flags that are still set; a reset ends the transfer, *)
(* and when it is served, everything of before has been.                   *)
ResetInv ==
  /\ irq \ {"TC"} \subseteq flags
  /\ ~Calm => stage = "idle"
  /\ "RST" \in irq /\ "TC" \notin irq => tc = {}

(* No completion of an old read is left when the next request comes, and   *)
(* what a successful request has achieved stays.                           *)
IdleInv ==
  stage = "idle" =>
    /\ Calm => ~SetupPending /\ ("TX" \in tc /\ "OUT" \notin tc => ept0_sts # "DATA_IN")
    /\ result = "ok" =>
         /\ ~SetupPending /\ ept0_sts # "DATA_OUT"
         /\ Len(got) = Expected(req)
         /\ req.name = "CLASS_OUT" /\ req.wLength # 0 => applied = Bytes(xfer, req.wLength)

(* A request that the core has not seen yet.                               *)
SetupInv ==
  Calm /\ SetupPending =>
    /\ got = <<>> /\ sent = 0
    /\ txsts = "nak" /\ rxsts = "nak"
    /\ "OUT" \notin tc
    /\ "TX" \in tc => ept0_sts # "DATA_IN"
    /\ stage = "status_in" => req.wLength = 0

StageInv ==
  /\ stage # "idle" => req \in Requests
  /\ stage = "data_in" => Reads(req) /\ req.wLength # 0
  /\ stage = "data_out" => ~Reads(req) /\ req.wLength # 0
  /\ stage = "status_in" => ~Reads(req) \/ req.wLength = 0
  /\ stage = "status_out" => Reads(req)

(* A packet with data, or the one of length zero that ends a read whose    *)
(* length is a multiple of the packet size.                                *)
DataPacket ==
  /\ in0.rem0_len = in0.ept0_slen - in0.off /\ in0.rem0_len >= 1
  /\ in0.last_len = Transfers!Min2(in0.rem0_len, MaxPacket)

EndPacket == in0.off = in0.ept0_slen /\ in0.last_len = 0 /\ in0.rem0_len <= MaxPacket

(* The packet that the host takes next, or the last one it has taken while *)
(* its completion waits.                                                   *)
Sending ==
  /\ ept0_sts = "DATA_IN" /\ ept0_wlength = req.wLength
  /\ in0.of = xfer
  /\ in0.ept0_slen = Expected(req) /\ in0.ept0_slen <= req.wLength
  /\ DataPacket \/ EndPacket
  /\ txpkt = [i \in 1 .. in0.last_len |-> <<xfer, in0.off + i>>]
  /\ "TX" \notin tc => txsts = "valid" /\ Len(got) = in0.off
  /\ "TX" \in tc =>
       /\ txsts = "nak" /\ Len(got) = in0.off + in0.last_len
       /\ in0.last_len = MaxPacket /\ Len(got) < req.wLength

ReadInv ==
  /\ stage = "data_in" /\ ~SetupPending =>
       /\ "OUT" \notin tc
       /\ \/ Sending /\ rxsts # "stall"
          \/ ept0_sts = "SETUP" /\ txsts # "valid" /\ "TX" \notin tc /\ got = <<>>
  /\ stage = "status_out" =>
       /\ ~SetupPending /\ "OUT" \notin tc
       /\ ept0_sts \in {"DATA_IN", "STATUS_OUT"}
       /\ rxsts # "stall"
       /\ Len(got) = Expected(req)

(* A packet of a write is on its way, or all that has come in is stored.   *)
Storing ==
  /\ req.name = "CLASS_OUT" /\ req.wLength # 0
  /\ txsts # "valid" /\ rxsts # "stall"
  /\ out0 = req.wLength - Len(stored)
  /\ "OUT" \in tc =>
       /\ stored \o rxpkt = Bytes(xfer, sent)
       /\ Len(rxpkt) = Transfers!Min2(out0, MaxPacket)
  /\ "OUT" \notin tc => stored = Bytes(xfer, sent) /\ stage = "data_out"
  /\ IF stage = "data_out" THEN sent < req.wLength ELSE sent = req.wLength

WriteInv ==
  stage \in {"data_out", "status_in"} /\ ~SetupPending =>
    /\ got = <<>> /\ "TX" \notin tc /\ ept0_sts # "DATA_IN"
    /\ txsts = "valid" => txpkt = <<>>
    /\ stage = "status_in" /\ txsts = "valid" =>
         /\ Expected(req) = 0
         /\ req.name = "CLASS_OUT" /\ req.wLength # 0 => applied = Bytes(xfer, req.wLength)
    /\ ept0_sts = "DATA_OUT" => Storing
    /\ ept0_sts # "DATA_OUT" => "OUT" \notin tc /\ (stage = "data_out" => rxsts # "valid")

(* The control pipe's invariant (usbd_core.c with the handlers of          *)
(* usbd_int.c): at every point of a transfer the lengths, positions and    *)
(* the state of endpoint 0 are those of the request the host is waiting    *)
(* for.                                                                    *)
PipeInv ==
  /\ TypeOK
  /\ got = Bytes(xfer, Len(got))
  /\ ResetInv
  /\ IdleInv
  /\ SetupInv
  /\ StageInv
  /\ ReadInv
  /\ WriteInv
=============================================================================
