----------------------------- MODULE I2CBoardsInv -----------------------------
(***************************************************************************)
(* Two boards in a script of one round: an inductive invariant of          *)
(* I2CPolling that says which bytes are under way between them and which   *)
(* ones their buffers hold, over a line that loses acknowledges and with   *)
(* calls that give up, are reset and tried again.                          *)
(***************************************************************************)
EXTENDS I2CPollingInv

(* The waits and writes of a read, from the clearing of ADDR7F on.         *)
Reading == {"ev6stop", "ev6ack", "rdbf", "rtdc"}

OneRound == env.reset /\ env.prompt /\ ~Memory /\ Len(plan) = 1

(* The slave follows the frame: its software has cleared ADDR7F.           *)
Following == sel /\ phase = "data" /\ "ADDR7F" \notin flags["S"]

(* The bytes of the round after the first k, and the same with an undriven *)
(* line after the first m.                                                 *)
InOrder(s, k) == \A i \in 1 .. Len(s) : s[i] = <<1, k + i>>

UpTo(m, s, k) == \A i \in 1 .. Len(s) : s[i] = IF k + i <= m THEN <<1, k + i>> ELSE Garbage

(* The transmitters hold what comes next in the frame.                     *)
Sending ==
  /\ phase \in {"addr", "data"} => dir = plan[1].op
  /\ phase = "data" /\ dir = "write" => InOrder(tx["M"], clocked)
  /\ dir = "read" /\ Following =>
       /\ InOrder(tx["S"], clocked)
       /\ pc["S"] = "tdbe" => Size("S") - left["S"] = clocked + Len(tx["S"])
  /\ sel /\ phase = "data" /\ "ADDR7F" \in flags["S"] => clocked = 0 /\ tx["S"] = <<>>

(* A slave that has not cleared ADDR7F in this call has received nothing;  *)
(* then its buffer and its data register hold the bytes clocked so far.    *)
SlaveTakes ==
  /\ pc["S"] \in {"idle", "free", "busy", "addr7"} =>
       rx["S"] = <<>> /\ (sel => "ADDR7F" \in flags["S"])
  /\ pc["S"] \in {"free", "busy", "addr7"} => mem["S"] = <<>>
  /\ pc["S"] \notin {"idle", "done"} /\ Reads("S") => InOrder(mem["S"], 0)
  /\ pc["S"] = "rdbf" =>
       /\ Reads("S") /\ InOrder(rx["S"], Len(mem["S"]))
       /\ Following => clocked = Len(mem["S"]) + Len(rx["S"])

(* A master's bytes are the slave's as long as the slave follows, and      *)
(* never again once it has let go.                                         *)
MasterHas(m) ==
  /\ UpTo(m, mem["M"], 0)
  /\ pc["M"] \in Reading =>
       /\ UpTo(m, rx["M"], Len(mem["M"]))
       /\ sel /\ phase = "data" =>
            clocked = Len(mem["M"]) + Len(rx["M"]) /\ clocked <= m

MasterTakes ==
  /\ pc["M"] \in {"free", "startf", "addr7"} => mem["M"] = <<>>
  /\ pc["M"] \notin {"idle", "done"} /\ Reads("M") =>
       \E m \in 0 .. Len(mem["M"]) + Len(rx["M"]) : MasterHas(m)

BoardInv == OneRound => Sending /\ SlaveTakes /\ MasterTakes

=============================================================================
