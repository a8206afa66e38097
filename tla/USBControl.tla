------------------------------ MODULE USBControl ------------------------------
(***************************************************************************)
(* The USB device core: the interrupt dispatcher (usbd_int.c), the control *)
(* endpoint's transfers (usbd_core.c) and the standard requests            *)
(* (usbd_sdr.c), with the CDC class for the requests that the core hands   *)
(* on.                                                                     *)
(*                                                                         *)
(* usbd_irq_handler samples the interrupt flags once and serves them one   *)
(* after the other; the host and the wire go on in between.                *)
(***************************************************************************)
EXTENDS USBWire

VARIABLES
  \* usbd_core_type
  conn_state, old_conn_state, device_addr, dev_config, remote_wakup,
  ept0_sts, ept0_wlength,
  in0,       \* ept_in[0]: the buffer's owner and position, and the lengths
  out0,      \* ept_out[0].rem0_len
  stored,    \* what has been stored behind ept_out[0].trans_buf
  stall,     \* endpoints whose stall field is set
  \* the class, the interrupt handler
  applied,   \* data of the last request that class_ept0_rx_handler was given
  irq        \* sampled flags that the handler has still to serve

coreVars == <<conn_state, old_conn_state, device_addr, dev_config, remote_wakup>>
ept0Vars == <<ept0_sts, ept0_wlength, in0, out0, stored, stall>>
vars == <<wireVars, coreVars, ept0Vars, applied, irq>>

ConnStates == {"DEFAULT", "ADDRESSED", "CONFIGURED", "SUSPENDED"}

EptIn ==
  [of : Nat, off : Nat, rem0_len : Nat, last_len : 0 .. MaxPacket, ept0_slen : Nat]

CoreTypeOK ==
  /\ conn_state \in ConnStates /\ old_conn_state \in ConnStates
  /\ device_addr \in Nat /\ dev_config \in Nat
  /\ remote_wakup \in BOOLEAN
  /\ ept0_sts \in {"IDLE", "SETUP", "DATA_IN", "DATA_OUT", "STATUS_IN", "STATUS_OUT"}
  /\ ept0_wlength \in UInt16
  /\ in0 \in EptIn
  /\ out0 \in Nat
  /\ stored \in Seq(Byte) /\ applied \in Seq(Byte)
  /\ stall \subseteq {"in0", "out0", "in1"}
  /\ irq \subseteq {"TC", "RST", "SP", "WK"}

(* Host, peripheral and core keep their types; no remaining length wraps   *)
(* below zero, and no packet is longer than the endpoint's.                *)
TypeOK == WireTypeOK /\ CoreTypeOK

(* usbd_core_init on a structure that starts out zero.                     *)
Init ==
  /\ WireInit
  /\ conn_state = "DEFAULT" /\ old_conn_state = "DEFAULT"
  /\ device_addr = 0 /\ dev_config = 0 /\ remote_wakup = FALSE
  /\ ept0_sts = "IDLE" /\ ept0_wlength = 0
  /\ in0 = [of |-> 0, off |-> 0, rem0_len |-> 0, last_len |-> 0, ept0_slen |-> 0]
  /\ out0 = 0 /\ stored = <<>> /\ stall = {}
  /\ applied = <<>> /\ irq = {}

-----------------------------------------------------------------------------
(* Endpoint 0 transfers, usbd_core.c.                                      *)

(* A packet of at most n bytes from the buffer's position.                 *)
usbd_ept_send(info, n) ==
  LET len == Transfers!Min2(n, MaxPacket)
  IN  /\ in0' = [info EXCEPT !.last_len = len]
      /\ txpkt' = [i \in 1 .. len |-> <<info.of, info.off + i>>]
      /\ txsts' = "valid"

usbd_ctrl_send(n) ==
  /\ ept0_sts' = "DATA_IN"
  /\ usbd_ept_send([in0 EXCEPT !.of = xfer, !.off = 0, !.rem0_len = n, !.ept0_slen = n], n)
  /\ UNCHANGED <<rxsts, out0, stored, stall>>

usbd_ctrl_recv(n) ==
  /\ ept0_sts' = "DATA_OUT"
  /\ out0' = n
  /\ stored' = <<>>
  /\ rxsts' = "valid"
  /\ UNCHANGED <<txsts, txpkt, in0, stall>>

usbd_ctrl_send_status ==
  /\ ept0_sts' = "STATUS_IN"
  /\ usbd_ept_send(in0, 0)
  /\ UNCHANGED <<rxsts, out0, stored, stall>>

usbd_ctrl_unsupport ==
  /\ ept0_sts' = "SETUP"
  /\ txsts' = "stall" /\ rxsts' = "stall"
  /\ stall' = stall \cup {"in0", "out0"}
  /\ UNCHANGED <<txpkt, in0, out0, stored>>

NoAnswer ==
  /\ ept0_sts' = "SETUP"
  /\ UNCHANGED <<txsts, rxsts, txpkt, in0, out0, stored, stall>>

(* The last packet of a read has gone out: more data, a packet of length   *)
(* zero, or the status stage.                                              *)
usbd_core_in_handler(info) ==
  \/ /\ ept0_sts = "DATA_IN" /\ info.rem0_len > MaxPacket
     /\ usbd_ept_send([info EXCEPT !.rem0_len = @ - MaxPacket], info.rem0_len - MaxPacket)
     /\ UNCHANGED <<rxsts, ept0_sts>>
  \/ /\ ept0_sts = "DATA_IN" /\ info.rem0_len <= MaxPacket
     /\ IF /\ info.last_len = MaxPacket
           /\ info.ept0_slen >= MaxPacket /\ info.ept0_slen < ept0_wlength
          THEN usbd_ept_send(info, 0) /\ UNCHANGED ept0_sts
          ELSE /\ ept0_sts' = "STATUS_OUT"
               /\ in0' = info
               /\ UNCHANGED <<txpkt, txsts>>
     /\ rxsts' = "valid"
  \/ /\ ept0_sts # "DATA_IN"
     /\ in0' = info
     /\ UNCHANGED <<txpkt, txsts, rxsts, ept0_sts>>

(* A packet of a write has come in: more, or the class and the status.     *)
usbd_core_out_handler ==
  \/ /\ ept0_sts = "DATA_OUT" /\ out0 > MaxPacket
     /\ out0' = out0 - MaxPacket
     /\ rxsts' = "valid"
     /\ UNCHANGED <<ept0_sts, in0, txpkt, txsts, applied>>
  \/ /\ ept0_sts = "DATA_OUT" /\ out0 <= MaxPacket
     /\ applied' = stored'
     /\ ept0_sts' = "STATUS_IN"
     /\ usbd_ept_send(in0, 0)
     /\ UNCHANGED <<out0, rxsts>>
  \/ /\ ept0_sts # "DATA_OUT"
     /\ UNCHANGED <<ept0_sts, in0, out0, txpkt, txsts, rxsts, applied>>

-----------------------------------------------------------------------------
(* The CDC class: its IN endpoint, and the requests that the core hands on *)
(* to it (those without data are left to the core).                        *)

class_init_handler == ept1' = "nak"

class_clear_handler == ept1' = "disabled"

class_setup_handler ==
  \/ req.name = "CLASS_IN" /\ usbd_ctrl_send(req.wLength)
  \/ req.name = "CLASS_OUT" /\ usbd_ctrl_recv(req.wLength)
  \/ req.name = "GET_INTERFACE" /\ usbd_ctrl_send(1)
  \/ req.name = "SET_INTERFACE" /\ NoAnswer

-----------------------------------------------------------------------------
(* Standard requests, usbd_sdr.c.  Each changes the connect state and      *)
(* answers in one of the ways above.                                       *)

usbd_get_descriptor ==
  /\ req.name = "GET_DESCRIPTOR"
  /\ \/ req.value = 0 /\ usbd_ctrl_unsupport
     \/ /\ req.value # 0 /\ req.wLength # 0
        /\ usbd_ctrl_send(Transfers!Min2(req.value, req.wLength))
     \/ req.value # 0 /\ req.wLength = 0 /\ NoAnswer
  /\ UNCHANGED <<coreVars, ept1>>

usbd_set_address ==
  /\ req.name = "SET_ADDRESS"
  /\ \/ /\ conn_state # "CONFIGURED" /\ req.wLength = 0
        /\ device_addr' = req.value
        /\ conn_state' = IF req.value # 0 THEN "ADDRESSED" ELSE "DEFAULT"
        /\ usbd_ctrl_send_status
     \/ /\ conn_state = "CONFIGURED" \/ req.wLength # 0
        /\ usbd_ctrl_unsupport
        /\ UNCHANGED <<device_addr, conn_state>>
  /\ UNCHANGED <<old_conn_state, dev_config, remote_wakup, ept1>>

(* Defect: answered before there is an address.                            *)
usbd_get_status_any_state ==
  /\ req.name = "GET_STATUS"
  /\ usbd_ctrl_send(2)
  /\ UNCHANGED <<coreVars, ept1>>

usbd_get_status ==
  /\ req.name = "GET_STATUS"
  /\ \/ conn_state \in {"ADDRESSED", "CONFIGURED"} /\ usbd_ctrl_send(2)
     \/ conn_state \notin {"ADDRESSED", "CONFIGURED"} /\ usbd_ctrl_unsupport
  /\ UNCHANGED <<coreVars, ept1>>

(* The value 1 is USB_FEATURE_REMOTE_WAKEUP.                               *)
usbd_clear_feature ==
  /\ req.name = "CLEAR_FEATURE"
  /\ \/ /\ conn_state \in {"ADDRESSED", "CONFIGURED"} /\ req.value = 1
        /\ remote_wakup' = FALSE
        /\ usbd_ctrl_send_status
     \/ /\ conn_state \in {"ADDRESSED", "CONFIGURED"} /\ req.value # 1
        /\ NoAnswer /\ UNCHANGED remote_wakup
     \/ /\ conn_state \notin {"ADDRESSED", "CONFIGURED"}
        /\ usbd_ctrl_unsupport /\ UNCHANGED remote_wakup
  /\ UNCHANGED <<conn_state, old_conn_state, device_addr, dev_config, ept1>>

usbd_set_feature ==
  /\ req.name = "SET_FEATURE"
  /\ \/ req.value = 1 /\ remote_wakup' = TRUE /\ usbd_ctrl_send_status
     \/ req.value # 1 /\ NoAnswer /\ UNCHANGED remote_wakup
  /\ UNCHANGED <<conn_state, old_conn_state, device_addr, dev_config, ept1>>

usbd_get_configuration ==
  /\ req.name = "GET_CONFIGURATION"
  /\ IF req.wLength = 1 /\ conn_state \in {"ADDRESSED", "CONFIGURED"}
       THEN usbd_ctrl_send(1) ELSE usbd_ctrl_unsupport
  /\ UNCHANGED <<coreVars, ept1>>

usbd_set_configuration ==
  /\ req.name = "SET_CONFIGURATION"
  /\ \/ /\ req.wLength = 0 /\ conn_state = "ADDRESSED"
        /\ IF req.value # 0
             THEN dev_config' = req.value /\ conn_state' = "CONFIGURED" /\ class_init_handler
             ELSE UNCHANGED <<dev_config, conn_state, ept1>>
        /\ usbd_ctrl_send_status
     \/ /\ req.wLength = 0 /\ conn_state = "CONFIGURED"
        /\ \/ /\ req.value = 0
              /\ conn_state' = "ADDRESSED" /\ dev_config' = 0 /\ class_clear_handler
           \/ /\ req.value # 0 /\ req.value = dev_config
              /\ class_init_handler  \* after class_clear_handler
              /\ UNCHANGED <<conn_state, dev_config>>
           \/ /\ req.value \notin {0, dev_config}
              /\ UNCHANGED <<conn_state, dev_config, ept1>>
        /\ usbd_ctrl_send_status
     \/ /\ req.wLength # 0 \/ conn_state \notin {"ADDRESSED", "CONFIGURED"}
        /\ usbd_ctrl_unsupport
        /\ UNCHANGED <<conn_state, dev_config, ept1>>
  /\ UNCHANGED <<old_conn_state, device_addr, remote_wakup>>

usbd_interface_request ==
  /\ req.name \in {"CLASS_IN", "CLASS_OUT", "GET_INTERFACE", "SET_INTERFACE"}
  /\ \/ /\ conn_state = "CONFIGURED"
        /\ \/ req.wLength = 0 /\ usbd_ctrl_send_status
           \/ req.wLength # 0 /\ class_setup_handler
     \/ conn_state # "CONFIGURED" /\ usbd_ctrl_unsupport
  /\ UNCHANGED <<coreVars, ept1>>

(* Of the class's IN endpoint.                                             *)
usbd_set_stall ==
  /\ ept1' = "stall"
  /\ stall' = stall \cup {"in1"}

usbd_clear_stall ==
  /\ ept1' = "valid"
  /\ stall' = stall \ {"in1"}

(* Requests to an endpoint: value 1 is the class's IN endpoint, value 0    *)
(* endpoint 0.  In the addressed state the core stalls the endpoint asked  *)
(* about and leaves the request itself unanswered.                         *)
usbd_endpoint_request ==
  /\ req.name \in {"EPT_GET_STATUS", "EPT_CLEAR_HALT", "EPT_SET_HALT"}
  /\ \/ /\ conn_state = "ADDRESSED"
        /\ ept0_sts' = "SETUP"
        /\ IF req.value = 1 THEN usbd_set_stall ELSE UNCHANGED <<ept1, stall>>
        /\ UNCHANGED <<txsts, rxsts, txpkt, in0, out0, stored>>
     \/ /\ conn_state = "CONFIGURED" /\ req.name = "EPT_GET_STATUS"
        /\ usbd_ctrl_send(2)
        /\ UNCHANGED ept1
     \/ /\ conn_state = "CONFIGURED" /\ req.name # "EPT_GET_STATUS"
        /\ ept0_sts' = "STATUS_IN"
        /\ usbd_ept_send(in0, 0)
        /\ \/ req.value = 0 /\ UNCHANGED <<ept1, stall>>
           \/ req.value = 1 /\ req.name = "EPT_SET_HALT" /\ usbd_set_stall
           \/ req.value = 1 /\ req.name = "EPT_CLEAR_HALT" /\ usbd_clear_stall
        /\ UNCHANGED <<rxsts, out0, stored>>
     \/ /\ conn_state \notin {"ADDRESSED", "CONFIGURED"}
        /\ usbd_ctrl_unsupport
        /\ UNCHANGED ept1
  /\ UNCHANGED coreVars

(* Another request to the device, and one to a recipient that is none of   *)
(* device, interface and endpoint.                                         *)
UnknownRequest ==
  /\ \/ req.name = "OTHER" /\ usbd_ctrl_unsupport
     \/ req.name = "OTHER_RECIPIENT" /\ NoAnswer
  /\ UNCHANGED <<coreVars, ept1>>

-----------------------------------------------------------------------------
(* The interrupt handler, usbd_int.c.                                      *)

IrqEnter ==
  /\ irq = {}
  /\ tc # {} \/ flags # {}
  /\ irq' = flags \cup IF tc = {} THEN {} ELSE {"TC"}
  /\ UNCHANGED <<wireVars, coreVars, ept0Vars, applied>>

(* Defect: the position does not move.                                     *)
EptTx_position_kept ==
  /\ "TC" \in irq /\ "TX" \in tc
  /\ tc' = tc \ {"TX"}
  /\ usbd_core_in_handler(in0)
  /\ IF conn_state = "ADDRESSED" /\ device_addr > 0
       THEN hwaddr' = device_addr /\ device_addr' = 0
       ELSE UNCHANGED <<hwaddr, device_addr>>
  /\ UNCHANGED <<rxpkt, flags, ssp, ept1, hostVars, conn_state, old_conn_state, dev_config,
                 remote_wakup, ept0_wlength, out0, stored, stall, applied, irq>>

(* The transmit completion is served first.  An address waits for it.      *)
EptTx ==
  /\ "TC" \in irq /\ "TX" \in tc
  /\ tc' = tc \ {"TX"}
  /\ usbd_core_in_handler([in0 EXCEPT !.off = @ + Len(txpkt)])
  /\ IF conn_state = "ADDRESSED" /\ device_addr > 0
       THEN hwaddr' = device_addr /\ device_addr' = 0
       ELSE UNCHANGED <<hwaddr, device_addr>>
  /\ UNCHANGED <<rxpkt, flags, ssp, ept1, hostVars, conn_state, old_conn_state, dev_config,
                 remote_wakup, ept0_wlength, out0, stored, stall, applied, irq>>

(* Defect: the address register is written before the status stage.        *)
usbd_core_setup_handler_address_at_once ==
  /\ "TC" \in irq /\ "TX" \notin tc /\ "SETUP" \in tc
  /\ tc' = tc \ {"SETUP"}
  /\ ept0_wlength' = req.wLength
  /\ \/ usbd_get_descriptor \/ usbd_set_address \/ usbd_set_feature
     \/ usbd_set_configuration \/ usbd_interface_request
  /\ hwaddr' = device_addr'
  /\ UNCHANGED <<rxpkt, flags, ssp, hostVars, applied, irq>>

usbd_core_setup_handler ==
  /\ "TC" \in irq /\ "TX" \notin tc /\ "SETUP" \in tc
  /\ tc' = tc \ {"SETUP"}
  /\ ept0_wlength' = req.wLength
  /\ \/ usbd_get_descriptor \/ usbd_set_address \/ usbd_get_status
     \/ usbd_clear_feature \/ usbd_set_feature
     \/ usbd_get_configuration \/ usbd_set_configuration
     \/ usbd_interface_request \/ usbd_endpoint_request \/ UnknownRequest
  /\ UNCHANGED <<rxpkt, flags, hwaddr, ssp, hostVars, applied, irq>>

(* Defect: each packet is stored at the start of the buffer.               *)
EptOut_position_kept ==
  /\ "TC" \in irq /\ tc \cap {"TX", "SETUP"} = {} /\ "OUT" \in tc
  /\ tc' = tc \ {"OUT"}
  /\ stored' = IF ept0_sts = "DATA_OUT" THEN rxpkt ELSE stored
  /\ usbd_core_out_handler
  /\ UNCHANGED <<rxpkt, flags, hwaddr, ssp, ept1, hostVars, coreVars, ept0_wlength, stall, irq>>

EptOut ==
  /\ "TC" \in irq /\ tc \cap {"TX", "SETUP"} = {} /\ "OUT" \in tc
  /\ tc' = tc \ {"OUT"}
  /\ stored' = IF ept0_sts = "DATA_OUT" THEN stored \o rxpkt ELSE stored
  /\ usbd_core_out_handler
  /\ UNCHANGED <<rxpkt, flags, hwaddr, ssp, ept1, hostVars, coreVars, ept0_wlength, stall, irq>>

usbd_ept_loop_end ==
  /\ "TC" \in irq /\ tc = {}
  /\ irq' = irq \ {"TC"}
  /\ UNCHANGED <<wireVars, coreVars, ept0Vars, applied>>

(* Defect: the connect state is not reset.                                *)
usbd_reset_handler_state_kept ==
  /\ "TC" \notin irq /\ "RST" \in irq
  /\ irq' = irq \ {"RST"}
  /\ flags' = flags \ {"RST"}
  /\ rxsts' = "valid" /\ txsts' = "nak"
  /\ in0' = [in0 EXCEPT !.of = 0, !.off = 0]
  /\ stored' = <<>>
  /\ hwaddr' = 0
  /\ conn_state' = conn_state
  /\ UNCHANGED <<txpkt, rxpkt, tc, ssp, ept1, hostVars, old_conn_state, device_addr,
                 dev_config, remote_wakup, ept0_sts, ept0_wlength, out0, stall, applied>>

(* usbd_ept_defaut_init leaves the lengths, the stall fields, the pending  *)
(* address and the configuration as they are.                              *)
usbd_reset_handler ==
  /\ "TC" \notin irq /\ "RST" \in irq
  /\ irq' = irq \ {"RST"}
  /\ flags' = flags \ {"RST"}
  /\ rxsts' = "valid" /\ txsts' = "nak"
  /\ in0' = [in0 EXCEPT !.of = 0, !.off = 0]
  /\ stored' = <<>>
  /\ hwaddr' = 0
  /\ conn_state' = "DEFAULT"
  /\ UNCHANGED <<txpkt, rxpkt, tc, ssp, ept1, hostVars, old_conn_state, device_addr,
                 dev_config, remote_wakup, ept0_sts, ept0_wlength, out0, stall, applied>>

(* Defect: the connect state is not saved.                                 *)
usbd_suspend_handler_no_save ==
  /\ irq \cap {"TC", "RST"} = {} /\ "SP" \in irq
  /\ irq' = irq \ {"SP"}
  /\ flags' = flags \ {"SP"}
  /\ conn_state' = "SUSPENDED"
  /\ ssp' = TRUE
  /\ UNCHANGED <<txsts, rxsts, txpkt, rxpkt, tc, hwaddr, ept1, hostVars, old_conn_state,
                 device_addr, dev_config, remote_wakup, ept0Vars, applied>>

usbd_suspend_handler ==
  /\ irq \cap {"TC", "RST"} = {} /\ "SP" \in irq
  /\ irq' = irq \ {"SP"}
  /\ flags' = flags \ {"SP"}
  /\ old_conn_state' = conn_state
  /\ conn_state' = "SUSPENDED"
  /\ ssp' = TRUE
  /\ UNCHANGED <<txsts, rxsts, txpkt, rxpkt, tc, hwaddr, ept1, hostVars, device_addr,
                 dev_config, remote_wakup, ept0Vars, applied>>

usbd_wakeup_handler ==
  /\ irq = {"WK"}
  /\ irq' = {}
  /\ flags' = flags \ {"WK"}
  /\ ssp' = FALSE
  /\ conn_state' = old_conn_state
  /\ UNCHANGED <<txsts, rxsts, txpkt, rxpkt, tc, hwaddr, ept1, hostVars, old_conn_state,
                 device_addr, dev_config, remote_wakup, ept0Vars, applied>>

usbd_irq_handler ==
  \/ IrqEnter \/ EptTx \/ usbd_core_setup_handler \/ EptOut \/ usbd_ept_loop_end
  \/ usbd_reset_handler \/ usbd_suspend_handler \/ usbd_wakeup_handler

(* The application's own wake-up, from the main thread.                    *)
usbd_remote_wakeup ==
  /\ irq = {} /\ conn_state = "SUSPENDED" /\ remote_wakup
  /\ conn_state' = old_conn_state
  /\ ssp' = FALSE
  /\ bus' = IF bus = "idle" THEN "active" ELSE bus
  /\ UNCHANGED <<txsts, rxsts, txpkt, rxpkt, tc, flags, hwaddr, ept1, stage, req, xfer, got,
                 sent, result, haddr, hconf, resets, suspends, old_conn_state, device_addr,
                 dev_config, remote_wakup, ept0Vars, applied, irq>>

-----------------------------------------------------------------------------

Device == UNCHANGED <<coreVars, ept0Vars, applied, irq>>

HostMakes == (\E r \in Requests : HostSetup(r)) /\ Device
HostServes == HostGoesOn /\ Device
HostChoice == (HostCancel \/ HostReset \/ HostSuspend) /\ Device
Wire == (HostResume \/ HwReset \/ HwSuspend \/ HwWake) /\ Device

Quiescent == stage = "idle" /\ bus = "active" /\ ~ssp /\ irq = {} /\ tc = {} /\ flags = {}

Finished == Quiescent /\ UNCHANGED vars

Next ==
  \/ HostMakes \/ HostServes \/ HostChoice \/ Wire
  \/ usbd_irq_handler \/ usbd_remote_wakeup
  \/ Finished

Spec == Init /\ [][Next]_vars

(* The CPU serves its interrupts, a transfer in progress and the bus go    *)
(* on, and a host that may give up does not wait for ever; a host need not *)
(* make requests, reset or suspend.                                        *)
FairSpec ==
  /\ Spec
  /\ WF_vars(usbd_irq_handler)
  /\ WF_vars(HostServes)
  /\ WF_vars(Wire)
  /\ WF_vars(HostCancel /\ Device)

-----------------------------------------------------------------------------
(* Properties.                                                             *)

(* A read delivers the bytes of its own request in order, and ends with    *)
(* all of them: the position in the buffer, the remaining length and the   *)
(* zero-length packet come out right for every length (usbd_core_in_handler *)
(* with usbd_eptn_handler), whatever an earlier request left behind.       *)
ReadExact ==
  /\ got = Transfers!Bytes(xfer, Len(got))
  /\ stage = "idle" /\ result = "ok" => Len(got) = Transfers!Expected(req)

(* When a write to the class completes, the class has been given all of    *)
(* its bytes and no others (usbd_core_out_handler).                        *)
WriteExact ==
  stage = "idle" /\ result = "ok" /\ req.name = "CLASS_OUT" /\ req.wLength # 0
    => applied = Transfers!Bytes(xfer, req.wLength)

(* The device answers to the address that the host has given it, after a   *)
(* reset to 0.                                                             *)
AddressAgrees == Quiescent => hwaddr = haddr

(* The address register takes a new address only when the host already     *)
(* uses it, that is after the status stage of SET_ADDRESS (the deferred    *)
(* device_addr of usbd_eptn_handler), unless a reset is about to clear it. *)
AddressTakenLate ==
  [][hwaddr' # hwaddr => hwaddr' = haddr \/ bus = "reset" \/ "RST" \in flags]_vars

(* Device and host agree on the configuration, and the connect state says  *)
(* so.                                                                     *)
ConfigAgrees ==
  Quiescent =>
    /\ conn_state = IF haddr = 0 THEN "DEFAULT"
                    ELSE IF hconf = 0 THEN "ADDRESSED" ELSE "CONFIGURED"
    /\ hconf # 0 => dev_config = hconf

(* The class's endpoint is in use exactly while the device is configured,  *)
(* but for a SET_CONFIGURATION that is served after the reset it met: it   *)
(* leaves the endpoint open.  (One that is asked for before it can be is   *)
(* stalled.)                                                               *)
EndpointsAgree ==
  Quiescent =>
    /\ conn_state = "CONFIGURED" => ept1 # "disabled"
    /\ ept1 \notin {"disabled", "stall"} /\ resets = 0 => conn_state = "CONFIGURED"

(* Between transfers host and device agree on what has been set up:        *)
(* address, configuration and open endpoints, which different handlers     *)
(* change, through resets, suspends, wake-ups and transfers given up.      *)
HostAgrees == AddressAgrees /\ ConfigAgrees /\ EndpointsAgree

(* Seen from the host, the device is one that answers every request it     *)
(* supports and refuses every other, and it always answers.                *)
ControlPipe == Transfers!Spec

(* "usb connect state set to default" (usbd_int.c:264): after a reset the  *)
(* device is in the default state until it is given an address.            *)
ResetLeavesDefault == Quiescent /\ haddr = 0 => conn_state = "DEFAULT"

=============================================================================
