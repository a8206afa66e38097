---------------------------- MODULE USBTransfers ----------------------------
(***************************************************************************)
(* What a host may expect of the control pipe of a device: it makes one    *)
(* request at a time; a request that the device supports in the state it   *)
(* is in delivers exactly the bytes it asks for, in order and of no other  *)
(* request, and completes; any other request is refused; address and       *)
(* configuration change with the completion of the requests that set them. *)
(***************************************************************************)
EXTENDS Naturals, Sequences

CONSTANT Requests

VARIABLES
  number,        \* requests made so far
  open,          \* is one of them in progress?
  request,       \* the last one: [name, value, wLength]
  received,      \* the bytes it has delivered to the host
  result,        \* how it ended: "none", "ok", "stalled", "cancelled"
  address,       \* the device's address, 0 after a reset
  configuration  \* its configuration, 0 if not configured

vars == <<number, open, request, received, result, address, configuration>>

Min2(a, b) == IF a < b THEN a ELSE b

NoRequest == [name |-> "none", value |-> 0, wLength |-> 0]

(* Byte i of what request k is about, and the first n of them.             *)
Bytes(k, n) == [i \in 1 .. n |-> <<k, i>>]

(* How many bytes a request delivers to the host.  The value of a          *)
(* GET_DESCRIPTOR stands for the length of the descriptor asked for.       *)
Expected(r) ==
  CASE r.name = "GET_DESCRIPTOR" -> Min2(r.value, r.wLength)
    [] r.name \in {"GET_STATUS", "EPT_GET_STATUS"} -> 2
    [] r.name \in {"GET_CONFIGURATION", "GET_INTERFACE"} -> 1
    [] r.name = "CLASS_IN" -> r.wLength
    [] OTHER -> 0

Supported(r) ==
  \/ r.name = "GET_DESCRIPTOR" /\ r.value # 0
  \/ r.name = "SET_ADDRESS" /\ configuration = 0 /\ r.wLength = 0
  \/ r.name = "SET_CONFIGURATION" /\ address # 0 /\ r.wLength = 0
  \/ r.name \in {"GET_STATUS", "CLEAR_FEATURE"} /\ address # 0
  \/ r.name = "GET_CONFIGURATION" /\ address # 0 /\ r.wLength = 1
  \/ r.name = "SET_FEATURE"
  \/ /\ configuration # 0
     /\ r.name \in {"CLASS_IN", "CLASS_OUT", "GET_INTERFACE", "SET_INTERFACE",
                    "EPT_GET_STATUS", "EPT_CLEAR_HALT", "EPT_SET_HALT"}

Init ==
  /\ number = 0
  /\ open = FALSE
  /\ request = NoRequest
  /\ received = <<>>
  /\ result = "none"
  /\ address = 0
  /\ configuration = 0

Make ==
  /\ ~open
  /\ open' = TRUE
  /\ number' = number + 1
  /\ request' \in Requests
  /\ received' = <<>>
  /\ result' = "none"
  /\ UNCHANGED <<address, configuration>>

Deliver ==
  /\ open
  /\ \E n \in Len(received) + 1 .. Expected(request) : received' = Bytes(number, n)
  /\ UNCHANGED <<number, open, request, result, address, configuration>>

Complete ==
  /\ open /\ Supported(request)
  /\ received = Bytes(number, Expected(request))
  /\ open' = FALSE
  /\ result' = "ok"
  /\ address' = IF request.name = "SET_ADDRESS" THEN request.value ELSE address
  /\ configuration' =
       IF request.name = "SET_CONFIGURATION" THEN request.value ELSE configuration
  /\ UNCHANGED <<number, request, received>>

Refuse ==
  /\ open /\ ~Supported(request)
  /\ open' = FALSE
  /\ result' = "stalled"
  /\ UNCHANGED <<number, request, received, address, configuration>>

(* The host gives up a request, or resets the bus.                         *)
Cancel ==
  /\ open
  /\ open' = FALSE
  /\ result' = "cancelled"
  /\ UNCHANGED <<number, request, received, address, configuration>>

Reset ==
  /\ open' = FALSE
  /\ result' = IF open THEN "cancelled" ELSE result
  /\ address' = 0
  /\ configuration' = 0
  /\ UNCHANGED <<number, request, received>>

Answer == Deliver \/ Complete \/ Refuse

Next == Make \/ Answer \/ Cancel \/ Reset

Spec == Init /\ [][Next]_vars /\ WF_vars(Answer)
=============================================================================
