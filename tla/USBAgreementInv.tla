--------------------------- MODULE USBAgreementInv ---------------------------
(***************************************************************************)
(* What host and device core know of each other between any two steps: the *)
(* address, the configuration and which requests are supported, through    *)
(* resets, suspends and wake-ups.  Together with the invariant of the      *)
(* control pipe it is inductive, and it implies HostAgrees,                *)
(* AddressTakenLate and the safety of ControlPipe.                         *)
(***************************************************************************)
EXTENDS USBControlInv

(* Hosts this is about.  SET_ADDRESS to zero leaves the address register   *)
(* as it is, and a second configuration is acknowledged without being      *)
(* taken (usbd_sdr.c): a host has no use for the first, and the            *)
(* descriptors of this core's devices offer no second.                     *)
HostPolicy ==
  /\ ~ResetSuspended
  /\ \A r \in Requests : r.name = "SET_ADDRESS" => r.value # 0
  /\ \A r, s \in Requests :
       /\ r.name = "SET_CONFIGURATION" /\ s.name = "SET_CONFIGURATION"
       /\ r.value # 0 /\ s.value # 0
       => r.value = s.value

(* The connect state, looking through a suspend.                           *)
Connected == IF ssp THEN old_conn_state ELSE conn_state

(* The device has acknowledged a request, and the host does not know yet.  *)
Accepted(name) ==
  stage = "status_in" /\ ~SetupPending /\ txsts = "valid" /\ req.name = name

NewAddress == IF Accepted("SET_ADDRESS") THEN req.value ELSE haddr

NewConfiguration == IF Accepted("SET_CONFIGURATION") THEN req.value ELSE hconf

(* A suspend, a wake-up and a reset are served one at a time, with no      *)
(* transfer open.                                                          *)
SuspendInv ==
  /\ ssp <=> conn_state = "SUSPENDED"
  /\ old_conn_state # "SUSPENDED"
  /\ bus = "idle" \/ flags # {} \/ ssp => stage = "idle"
  /\ ssp => tc = {} /\ flags \subseteq {"WK"}
  /\ "SP" \in flags => flags = {"SP"}
  /\ "SP" \in irq /\ "TC" \notin irq => tc = {}
  /\ "WK" \in flags =>
       bus = "active" /\ tc = {} /\ flags = {"WK"} /\ (ssp \/ conn_state = old_conn_state)
  /\ "RST" \in flags => flags = {"RST"} /\ bus = "active"
  /\ bus = "reset" => flags = {}
  /\ ~Calm => ~ssp /\ haddr = 0 /\ hconf = 0

(* The address waits in device_addr from the request to the completion of  *)
(* its status stage.                                                       *)
Waiting == Connected = "ADDRESSED" /\ device_addr > 0

AddressInv ==
  Calm =>
    /\ Accepted("SET_ADDRESS") => Waiting /\ device_addr = req.value /\ hwaddr = haddr
    /\ ~Accepted("SET_ADDRESS") =>
         \/ ~Waiting /\ hwaddr = haddr
         \/ Waiting /\ "TX" \in tc /\ device_addr = haddr
    /\ Connected = "CONFIGURED" => device_addr = 0

ConfigurationInv ==
  /\ Calm =>
       /\ Connected = IF NewAddress = 0 THEN "DEFAULT"
                      ELSE IF NewConfiguration = 0 THEN "ADDRESSED" ELSE "CONFIGURED"
       /\ NewConfiguration # 0 => NewAddress # 0 /\ dev_config = NewConfiguration
       /\ hconf # 0 => haddr # 0
       /\ Connected = "CONFIGURED" => ept1 # "disabled"
  /\ \A r \in Requests :
       r.name = "SET_CONFIGURATION" /\ r.value # 0 /\ dev_config # 0 => r.value = dev_config
  /\ resets = 0 =>
       /\ ~Calm => tc = {} /\ ept1 = "disabled"
       /\ Calm /\ ept1 \notin {"disabled", "stall"} => Connected = "CONFIGURED"

(* The core answers what the host may expect of it, and stalls the rest.   *)
AnswerInv ==
  stage # "idle" /\ ~SetupPending =>
    IF ept0_sts = "SETUP"
      THEN /\ txsts # "valid"
           /\ "stall" \in {txsts, rxsts} => ~Transfers!Supported(req)
      ELSE /\ "stall" \notin {txsts, rxsts}
           /\ Transfers!Supported(req)

AgreementInv == SuspendInv /\ AddressInv /\ ConfigurationInv /\ AnswerInv

(* The core's invariant (usbd_core.c, usbd_int.c, usbd_sdr.c): the pipe is *)
(* where the host believes it to be, and so are address and configuration. *)
CoreInv == PipeInv /\ AgreementInv
=============================================================================
