---------------------------- MODULE MCUSBControl ----------------------------
(* Requests for the model checker.                                         *)
EXTENDS USBAgreementInv

Request(name, value, wLength) == [name |-> name, value |-> value, wLength |-> wLength]

Plain(names) == {Request(name, 0, 0) : name \in names}

Enumerate == {Request("SET_ADDRESS", 1, 0), Request("SET_CONFIGURATION", 1, 0)}

(* Every relation of the descriptor, the length asked for and the packet   *)
(* size.                                                                   *)
Descriptors == {Request("GET_DESCRIPTOR", v, n) : v \in 0 .. 5, n \in 1 .. 6}

Status ==
  {Request("GET_STATUS", 0, 2), Request("GET_CONFIGURATION", 0, 1),
   Request("GET_CONFIGURATION", 0, 2), Request("SET_FEATURE", 1, 0),
   Request("CLEAR_FEATURE", 1, 0)}

Class ==
  {Request(name, 0, n) : name \in {"CLASS_IN", "CLASS_OUT"}, n \in {0, 3, 4}}
    \cup {Request("GET_INTERFACE", 0, 1), Request("SET_INTERFACE", 0, 0)}

Endpoint ==
  {Request("EPT_GET_STATUS", e, 2) : e \in {0, 1}}
    \cup {Request(name, e, 0) : name \in {"EPT_CLEAR_HALT", "EPT_SET_HALT"}, e \in {0, 1}}

(* Everything that a device of this core has to answer.                    *)
Answered ==
  Enumerate \cup Descriptors \cup Status \cup Class \cup Endpoint \cup Plain({"OTHER"})
    \cup {Request("SET_CONFIGURATION", 0, 0), Request("SET_ADDRESS", 2, 0),
          Request("SET_ADDRESS", 1, 2), Request("SET_CONFIGURATION", 1, 2)}

(* What matters to a bus that is reset and suspended.                      *)
Restless ==
  Enumerate \cup {Request("GET_DESCRIPTOR", 4, 3), Request("SET_FEATURE", 1, 0),
                  Request("SET_CONFIGURATION", 0, 0), Request("CLASS_OUT", 0, 3)}

(* And a host that gives up where it gets no answer or too late.           *)
Unruly ==
  Restless \cup {Request("OTHER_RECIPIENT", 0, 0), Request("EPT_SET_HALT", 1, 0),
                 Request("CLASS_IN", 0, 4), Request("SET_INTERFACE", 0, 2)}
=============================================================================
