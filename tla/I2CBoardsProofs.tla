--------------------------- MODULE I2CBoardsProofs ---------------------------
(***************************************************************************)
(* Two more invariants of a polling transfer that are inductive where      *)
(* PollInv holds: BoardInv, from which no receive buffer between two       *)
(* boards ever holds a byte that is not the next one of the round, or of a *)
(* line that nobody drives; and SoundInv, from which a receive that        *)
(* returns I2C_OK over a sound line has stored what its partner had.       *)
(***************************************************************************)
EXTENDS I2CReceivedInv, I2CPollingProofs

(***************************************************************************)
(* Sequences of bytes in the order of the round.                           *)
(***************************************************************************)

LEMMA OrderEmpty == ASSUME NEW k PROVE InOrder(<<>>, k)
BY DEF InOrder

LEMMA OrderAppend ==
  ASSUME NEW s \in Seq(Byte), NEW k \in Nat, NEW b, InOrder(s, k), b = <<1, k + Len(s) + 1>>
  PROVE  InOrder(Append(s, b), k)
<1> DEFINE n == Len(s)
           t == Append(s, b)
<1>1. n \in Nat /\ Len(t) = n + 1 /\ t[n + 1] = b /\ \A i \in 1 .. n : t[i] = s[i]
  OBVIOUS
<1>2. \A i \in 1 .. n : s[i] = <<1, k + i>>
  BY DEF InOrder
<1>3. b = <<1, k + (n + 1)>>
  BY <1>1
<1> HIDE DEF n, t
<1>4. \A i \in 1 .. n + 1 : i \in 1 .. n \/ i = n + 1
  BY <1>1
<1>5. \A i \in 1 .. Len(t) : t[i] = <<1, k + i>>
  BY <1>1, <1>2, <1>3, <1>4
<1>6. InOrder(t, k)
  BY <1>5 DEF InOrder
<1> QED
  BY <1>6 DEF t

LEMMA OrderTail ==
  ASSUME NEW s \in Seq(Byte), NEW k \in Nat, InOrder(s, k), s # <<>>
  PROVE  /\ Head(s) = <<1, k + 1>> /\ InOrder(Tail(s), k + 1)
         /\ Len(Tail(s)) = Len(s) - 1 /\ Len(s) \in Nat \ {0}
<1> DEFINE n == Len(s)
           t == Tail(s)
<1>1. /\ n \in Nat \ {0} /\ Len(t) = n - 1 /\ Head(s) = s[1]
      /\ \A i \in 1 .. n - 1 : t[i] = s[i + 1]
  OBVIOUS
<1>2. \A i \in 1 .. n : s[i] = <<1, k + i>>
  BY DEF InOrder
<1> HIDE DEF n, t
<1>3. 1 \in 1 .. n /\ \A i \in 1 .. n - 1 : i + 1 \in 1 .. n /\ k + (i + 1) = (k + 1) + i
  BY <1>1
<1>4. \A i \in 1 .. Len(t) : t[i] = <<1, (k + 1) + i>>
  BY <1>1, <1>2, <1>3
<1>5. Head(s) = <<1, k + 1>>
  BY <1>1, <1>2, <1>3
<1>6. InOrder(t, k + 1)
  BY <1>4 DEF InOrder
<1> QED
  BY <1>1, <1>5, <1>6 DEF t, n

(* k bytes go from the data register to the end of the buffer.             *)
TakenBytes(n, k) ==
  /\ Len(mem[n]) \in Nat /\ Len(rx[n]) \in Nat
  /\ Len(mem'[n]) = Len(mem[n]) + k /\ Len(rx'[n]) = Len(rx[n]) - k
  /\ \A i \in 1 .. Len(mem[n]) : mem'[n][i] = mem[n][i]
  /\ \A i \in 1 .. k : mem'[n][Len(mem[n]) + i] = rx[n][i]
  /\ \A i \in 1 .. Len(rx[n]) - k : rx'[n][i] = rx[n][k + i]

LEMMA Taken ==
  ASSUME mem \in [Node -> Seq(Byte)], rx \in [Node -> Seq(Byte)],
         NEW n \in Node, NEW k \in Nat, k <= Len(rx[n]), ReadData(n, k)
  PROVE  TakenBytes(n, k)
<1> DEFINE s == mem[n]
           r == rx[n]
           c == Received(n, k)
<1>1. /\ s \in Seq(Byte) /\ r \in Seq(Byte) /\ mem'[n] = s \o c
      /\ rx'[n] = SubSeq(r, k + 1, Len(r))
  BY DEF ReadData, i2c_data_receive
<1>2. Len(s) \in Nat /\ Len(r) \in Nat
  BY <1>1
<1>3. c \in Seq(Byte) /\ Len(c) = k
  BY ReceivedType
<1>4. \A i \in 1 .. k : c[i] = r[i]
  <2>1. \A i \in 1 .. k : i <= Len(r)
    BY <1>2
  <2>2. QED
    BY <2>1 DEF Received
<1>5. /\ Len(s \o c) = Len(s) + k
      /\ \A i \in 1 .. Len(s) : (s \o c)[i] = s[i]
      /\ \A i \in 1 .. k : (s \o c)[Len(s) + i] = c[i]
  <2> HIDE DEF s, c
  <2>1. /\ Len(s \o c) = Len(s) + Len(c)
        /\ \A i \in 1 .. Len(s) + Len(c) :
             (s \o c)[i] = IF i <= Len(s) THEN s[i] ELSE c[i - Len(s)]
    BY <1>1, <1>3, ConcatProperties, ZenonT(40)
  <2>2. \A i \in 1 .. Len(s) : i \in 1 .. Len(s) + Len(c) /\ i <= Len(s)
    BY <1>2, <1>3
  <2>3. \A i \in 1 .. k :
          /\ Len(s) + i \in 1 .. Len(s) + Len(c) /\ ~(Len(s) + i <= Len(s))
          /\ (Len(s) + i) - Len(s) = i
    BY <1>2, <1>3
  <2>4. QED
    BY <1>3, <2>1, <2>2, <2>3
<1>6. /\ Len(rx'[n]) = Len(r) - k
      /\ \A i \in 1 .. Len(r) - k : rx'[n][i] = r[k + i]
  <2>1. k + 1 \in 1 .. Len(r) + 1 /\ Len(r) \in k .. Len(r)
    BY <1>2
  <2>2. Len(SubSeq(r, k + 1, Len(r))) = Len(r) - k
    BY <1>1, RestLength
  <2>3. \A i \in 1 .. Len(r) - k : SubSeq(r, k + 1, Len(r))[i] = r[k + i]
    <3> TAKE i \in 1 .. Len(r) - k
    <3>1. SubSeq(r, k + 1, Len(r))[i] = r[(k + 1) + i - 1]
      BY <1>1, <1>2, SubSeqProperties
    <3>2. (k + 1) + i - 1 = k + i
      OBVIOUS
    <3>3. QED
      BY <3>1, <3>2
  <2>4. QED
    BY <1>1, <2>2, <2>3
<1>7. QED
  BY <1>1, <1>2, <1>4, <1>5, <1>6 DEF TakenBytes

LEMMA OrderTaken ==
  ASSUME NEW n \in Node, NEW k \in Nat, k <= Len(rx[n]), TakenBytes(n, k),
         InOrder(mem[n], 0), InOrder(rx[n], Len(mem[n]))
  PROVE  InOrder(mem'[n], 0) /\ InOrder(rx'[n], Len(mem'[n]))
<1> DEFINE a == Len(mem[n])
           b == Len(rx[n])
<1>1. a \in Nat /\ b \in Nat /\ k <= b
  BY DEF TakenBytes
<1>2. /\ \A i \in 1 .. a : mem'[n][i] = <<1, i>>
      /\ \A i \in 1 .. k : mem'[n][a + i] = <<1, a + i>>
      /\ \A i \in 1 .. b - k : rx'[n][i] = <<1, (a + k) + i>>
  <2>1. /\ \A i \in 1 .. k : i \in 1 .. b
        /\ \A i \in 1 .. b - k : k + i \in 1 .. b /\ a + (k + i) = (a + k) + i
        /\ \A i \in 1 .. a : 0 + i = i
    <3> HIDE DEF a, b
    <3> QED
      BY <1>1
  <2>2. QED
    BY <2>1 DEF TakenBytes, InOrder
<1>3. \A i \in 1 .. a + k : i \in 1 .. a \/ (i - a \in 1 .. k /\ a + (i - a) = i)
  BY <1>1
<1>4. Len(mem'[n]) = a + k /\ Len(rx'[n]) = b - k
  BY DEF TakenBytes
<1> HIDE DEF a, b
<1>5. \A i \in 1 .. a + k : mem'[n][i] = <<1, 0 + i>>
  <2> TAKE i \in 1 .. a + k
  <2>1. 0 + i = i
    BY <1>1
  <2>2. QED
    BY <1>2, <1>3, <2>1
<1>6. QED
  BY <1>2, <1>4, <1>5 DEF InOrder

LEMMA UpToTaken ==
  ASSUME NEW m \in Nat, NEW n \in Node, NEW k \in Nat, k <= Len(rx[n]), TakenBytes(n, k),
         UpTo(m, mem[n], 0), UpTo(m, rx[n], Len(mem[n]))
  PROVE  UpTo(m, mem'[n], 0) /\ UpTo(m, rx'[n], Len(mem'[n]))
<1> DEFINE a == Len(mem[n])
           b == Len(rx[n])
           E(i) == IF i <= m THEN <<1, i>> ELSE Garbage
<1>1. a \in Nat /\ b \in Nat /\ k <= b
  BY DEF TakenBytes
<1>2. /\ \A i \in 1 .. a : mem'[n][i] = E(i)
      /\ \A i \in 1 .. k : mem'[n][a + i] = E(a + i)
      /\ \A i \in 1 .. b - k : rx'[n][i] = E((a + k) + i)
  <2>1. /\ \A i \in 1 .. k : i \in 1 .. b
        /\ \A i \in 1 .. b - k : k + i \in 1 .. b /\ a + (k + i) = (a + k) + i
        /\ \A i \in 1 .. a : 0 + i = i
    <3> HIDE DEF a, b
    <3> QED
      BY <1>1
  <2>2. QED
    BY <2>1 DEF TakenBytes, UpTo
<1>3. \A i \in 1 .. a + k : i \in 1 .. a \/ (i - a \in 1 .. k /\ a + (i - a) = i)
  BY <1>1
<1>4. Len(mem'[n]) = a + k /\ Len(rx'[n]) = b - k
  BY DEF TakenBytes
<1> HIDE DEF a, b
<1>5. \A i \in 1 .. a + k : mem'[n][i] = E(0 + i)
  <2> TAKE i \in 1 .. a + k
  <2>1. 0 + i = i
    BY <1>1
  <2> HIDE DEF E
  <2>2. QED
    BY <1>2, <1>3, <2>1
<1>6. QED
  BY <1>2, <1>4, <1>5 DEF UpTo

(* One more byte: of the slave, if it follows, or of an undriven line.     *)
LEMMA UpToAppend ==
  ASSUME NEW s \in Seq(Byte), NEW k \in Nat, NEW m \in Nat, NEW b,
         UpTo(m, s, k), b = IF k + Len(s) + 1 <= m THEN <<1, k + Len(s) + 1>> ELSE Garbage
  PROVE  UpTo(m, Append(s, b), k)
<1> DEFINE n == Len(s)
           t == Append(s, b)
           E(i) == IF i <= m THEN <<1, i>> ELSE Garbage
<1>1. n \in Nat /\ Len(t) = n + 1 /\ t[n + 1] = b /\ \A i \in 1 .. n : t[i] = s[i]
  OBVIOUS
<1>2. \A i \in 1 .. n : s[i] = E(k + i)
  BY DEF UpTo
<1>3. b = E(k + (n + 1))
  <2>1. k + Len(s) + 1 = k + (n + 1)
    BY <1>1
  <2>2. QED
    BY <2>1
<1> HIDE DEF n, t
<1>4. \A i \in 1 .. n + 1 : i \in 1 .. n \/ i = n + 1
  BY <1>1
<1>5. \A i \in 1 .. Len(t) : t[i] = E(k + i)
  <2> HIDE DEF E
  <2>1. QED
    BY <1>1, <1>2, <1>3, <1>4
<1>6. UpTo(m, t, k)
  BY <1>5 DEF UpTo
<1> QED
  BY <1>6 DEF t

(* As long as all bytes are the slave's, it does not matter where they     *)
(* would end.                                                              *)
LEMMA UpToMore ==
  ASSUME NEW s \in Seq(Byte), NEW k \in Nat, NEW m \in Nat, UpTo(m, s, k), k + Len(s) <= m
  PROVE  UpTo(m + 1, s, k)
<1> DEFINE n == Len(s)
<1>1. n \in Nat
  OBVIOUS
<1>2. \A i \in 1 .. n : k + i <= m /\ k + i <= m + 1
  BY <1>1
<1>3. QED
  BY <1>2 DEF UpTo

(***************************************************************************)
(* What the steps start from and what most of them keep.                   *)
(***************************************************************************)

BoardFacts ==
  /\ OneRound /\ Sending /\ SlaveTakes /\ MasterTakes /\ SlaveCount
  /\ MasterFacts /\ InTimeSoFar
  /\ "M" \in Node /\ "S" \in Node /\ "M" # "S" /\ Len(plan) = 1
  /\ mem \in [Node -> Seq(Byte)]
  /\ sel \in BOOLEAN /\ dir \in {"write", "read"}
  /\ plan[1].op \in {"write", "read"}
  /\ \A n \in Node : pc[n] # "done" => round[n] = 1 /\ MyRound(n) = plan[1]
  /\ \A n \in Node : checking[n] => pc[n] \in Waits
  /\ pc["M"] # "done" => (Reads("M") <=> plan[1].op = "read")
  /\ pc["S"] # "done" =>
       /\ Reads("S") <=> plan[1].op = "write"
       /\ SlaveReceives <=> plan[1].op = "write"
       /\ Size("S") \in Nat
  /\ pc["M"] \notin {"tdbe_reg", "tdbe_restart", "restartf", "readdr7", "ev6ack"}

LEMMA BoardStart ==
  ASSUME PollInv, BoardInv, OneRound
  PROVE  BoardFacts
<1>1. /\ TypeOK /\ ScriptFits /\ ThreadOf("M") /\ ThreadOf("S") /\ CountInv
      /\ "M" \in Node /\ "S" \in Node /\ "M" # "S"
  BY DEF PollInv, ScriptInv, ThreadInv, Node
<1>2. MasterFacts
  BY MasterStart DEF PollInv
<1>3. InTimeSoFar
  BY DEF InTimeSoFar, OneRound
<1>4. <<plan, env>> \in Scenarios /\ Len(plan) = 1 /\ ~Memory
  BY <1>1 DEF TypeOK, SwTypeOK, OneRound
<1>5. 1 \in 1 .. Len(plan)
  BY <1>4
<1>6. plan[1].op \in {"write", "read"}
  BY <1>1, <1>4, <1>5, ModeFacts
<1>7. ASSUME NEW n \in Node, pc[n] # "done"
      PROVE  round[n] = 1 /\ MyRound(n) = plan[1] /\ Size(n) \in Nat
  <2>1. round[n] \in 1 .. Len(plan)
    BY <1>1, <1>7 DEF ThreadOf, Node
  <2>2. round[n] = 1
    BY <1>4, <2>1
  <2>3. QED
    BY <1>4, <2>1, <2>2, RoundFacts DEF MyRound
<1>8. pc["M"] # "done" => (Reads("M") <=> plan[1].op = "read")
  BY <1>1, <1>6, <1>7 DEF Reads
<1>9. pc["S"] # "done" =>
       /\ Reads("S") <=> plan[1].op = "write"
       /\ SlaveReceives <=> plan[1].op = "write"
       /\ Size("S") \in Nat
  BY <1>1, <1>6, <1>7 DEF Reads, SlaveReceives
<1>10. pc["M"] \notin {"tdbe_reg", "tdbe_restart", "restartf", "readdr7", "ev6ack"}
  BY <1>2, <1>4 DEF MasterFacts, MasterCount
<1>11. QED
  BY <1>1, <1>2, <1>3, <1>4, <1>6, <1>7, <1>8, <1>9, <1>10
     DEF BoardFacts, BoardInv, CountInv, ThreadOf, Node, TypeOK, HwTypeOK, SwTypeOK

(* The bytes under way stay as they are, or nobody follows any longer.     *)
LEMMA SendingKeeps ==
  ASSUME Sending, UNCHANGED plan,
         phase' \in {"addr", "data"} => phase' = phase /\ dir' = dir,
         phase' = "data" /\ dir' = "write" => clocked' = clocked /\ tx'["M"] = tx["M"],
         sel' /\ phase' = "data" =>
           /\ sel /\ clocked' = clocked /\ tx'["S"] = tx["S"]
           /\ "ADDR7F" \in flags'["S"] <=> "ADDR7F" \in flags["S"]
           /\ dir = "read" /\ pc'["S"] = "tdbe" => pc["S"] = "tdbe" /\ UNCHANGED <<left["S"], round["S"]>>
  PROVE  Sending'
<1>1. phase' \in {"addr", "data"} => dir' = plan[1].op
  BY DEF Sending
<1>2. phase' = "data" /\ dir' = "write" => InOrder(tx'["M"], clocked')
  BY DEF Sending
<1>3. ASSUME dir' = "read", Following'
      PROVE  /\ InOrder(tx'["S"], clocked')
             /\ pc'["S"] = "tdbe" => Size("S")' - left'["S"] = clocked' + Len(tx'["S"])
  <2>1. sel' /\ phase' = "data" /\ "ADDR7F" \notin flags'["S"]
    BY <1>3 DEF Following
  <2>2. dir = "read" /\ Following
    BY <1>3, <2>1 DEF Following
  <2>3. pc'["S"] = "tdbe" => Size("S")' = Size("S")
    BY <2>1, <2>2 DEF Size, MyRound
  <2>4. QED
    BY <2>1, <2>2, <2>3 DEF Sending
<1>4. ASSUME sel', phase' = "data", "ADDR7F" \in flags'["S"]
      PROVE  clocked' = 0 /\ tx'["S"] = <<>>
  BY <1>4 DEF Sending
<1>5. QED
  BY <1>1, <1>2, <1>3, <1>4 DEF Sending, InOrder

(* So does what the slave has received.                                    *)
LEMMA SlaveKeeps ==
  ASSUME SlaveTakes, UNCHANGED plan,
         pc'["S"] \notin {"idle", "done"} => pc["S"] \notin {"idle", "done"},
         pc'["S"] # "done" => UNCHANGED <<mem["S"], rx["S"], round["S"]>>,
         pc'["S"] = "idle" => pc["S"] = "idle",
         pc'["S"] \in {"free", "busy", "addr7"} => pc["S"] \in {"free", "busy", "addr7"},
         pc'["S"] = "rdbf" => pc["S"] = "rdbf",
         sel' /\ "ADDR7F" \notin flags'["S"] => sel /\ "ADDR7F" \notin flags["S"],
         Following' => Following /\ clocked' = clocked
  PROVE  SlaveTakes'
<1>1. pc'["S"] # "done" => Reads("S")' = Reads("S")
  BY DEF Reads, MyRound
<1>2. QED
  BY <1>1 DEF SlaveTakes, InOrder

(* And what the master has.                                                *)
LEMMA MasterKeeps ==
  ASSUME MasterTakes, UNCHANGED plan,
         pc'["M"] \notin {"idle", "done"} =>
           pc["M"] \notin {"idle", "done"} /\ UNCHANGED <<mem["M"], rx["M"], round["M"]>>,
         pc'["M"] \in {"free", "startf", "addr7"} => pc["M"] \in {"free", "startf", "addr7"},
         pc'["M"] \in Reading => pc["M"] \in Reading,
         pc'["M"] \in Reading /\ sel' /\ phase' = "data" =>
           sel /\ phase = "data" /\ clocked' = clocked
  PROVE  MasterTakes'
<1>1. pc'["M"] \in {"free", "startf", "addr7"} => mem'["M"] = <<>>
  BY DEF MasterTakes
<1>2. ASSUME pc'["M"] \notin {"idle", "done"}, Reads("M")'
      PROVE  \E m \in 0 .. Len(mem'["M"]) + Len(rx'["M"]) : MasterHas(m)'
  <2>1. Reads("M") /\ mem'["M"] = mem["M"] /\ rx'["M"] = rx["M"]
    BY <1>2 DEF Reads, MyRound
  <2>2. PICK m \in 0 .. Len(mem["M"]) + Len(rx["M"]) : MasterHas(m)
    BY <1>2, <2>1 DEF MasterTakes
  <2>3. MasterHas(m)'
    BY <2>1, <2>2 DEF MasterHas, UpTo, Reading
  <2>4. QED
    BY <2>1, <2>2, <2>3
<1>3. QED
  BY <1>1, <1>2 DEF MasterTakes
(***************************************************************************)
(* The steps of the master.                                                *)
(***************************************************************************)

(* The application's steps and the waits, which also i2c_config belongs to.*)
LEMMA CommonMasterBoard ==
  ASSUME TypeOK, BoardFacts,
         StartCall("M") \/ NextRound("M") \/ TryAgain("M") \/ GiveUp("M") \/ Wait("M")
  PROVE  Sending' /\ SlaveTakes' /\ MasterTakes'
<1> USE DEF Goto, Return, Stay
<1>1. /\ UNCHANGED <<plan, env>> /\ SameThread("S") /\ SameRegisters("S")
  BY CommonLocal DEF BoardFacts
<1>2. /\ pc \in [Node -> MainPc] /\ tx \in [Node -> Seq(Byte)] /\ rx \in [Node -> Seq(Byte)]
      /\ mem \in [Node -> Seq(Byte)]
      /\ Sending /\ SlaveTakes /\ MasterTakes /\ "M" \in Node
  BY DEF BoardFacts, MasterFacts
<1>3. /\ UNCHANGED <<dir, clocked>>
      /\ phase' = "free" \/ (UNCHANGED <<phase, tx>> /\ (sel' <=> sel))
      /\ phase' = "free" => (sel' => sel)
  <2>1. CASE TryAgain("M")
    <3>1. i2c_reset("M")
      BY <2>1 DEF TryAgain, BoardFacts, OneRound
    <3>2. QED
      BY <3>1 DEF i2c_reset
  <2>2. CASE StartCall("M") \/ NextRound("M") \/ GiveUp("M")
    BY <2>2 DEF StartCall, NextRound, GiveUp, hwVars
  <2>3. CASE Wait("M")
    BY <2>3 DEF Wait, LookAgain, NoEvent, WaitAckFail, WaitStop, WaitTimeout, CleanUp, hwVars, busVars
  <2>4. QED
    BY <2>1, <2>2, <2>3
<1>4. Sending'
  BY <1>1, <1>2, <1>3, SendingKeeps DEF SameThread, SameRegisters
<1>5. Following' => Following
  BY <1>1, <1>3 DEF Following, SameRegisters
<1>6. SlaveTakes'
  BY <1>1, <1>2, <1>3, <1>5, SlaveKeeps DEF SameThread, SameRegisters
<1>7. CASE StartCall("M")
  <2>1. pc'["M"] = "free" /\ mem'["M"] = <<>>
    BY <1>2, <1>7 DEF StartCall, FirstWait
  <2>2. /\ UpTo(0, <<>>, 0)
    BY DEF UpTo
  <2>3. rx'["M"] = rx["M"]
    BY <1>7 DEF StartCall, hwVars
  <2>4. 0 \in 0 .. Len(mem'["M"]) + Len(rx'["M"])
    <3>1. Len(rx["M"]) \in Nat
      <4>1. rx["M"] \in Seq(Byte)
        BY <1>2
      <4>2. QED
        BY <4>1
    <3>2. Len(mem'["M"]) = 0
      BY <2>1
    <3>3. QED
      BY <2>3, <3>1, <3>2
  <2>5. MasterHas(0)'
    <3>1. pc'["M"] \notin Reading /\ UpTo(0, mem'["M"], 0)
      BY <2>1, <2>2 DEF Reading
    <3>2. UpTo(0, mem["M"], 0)'
      BY <3>1 DEF UpTo
    <3>3. QED
      BY <3>1, <3>2 DEF MasterHas
  <2>6. MasterTakes'
    BY <2>1, <2>4, <2>5 DEF MasterTakes
  <2>7. QED
    BY <1>4, <1>6, <2>6
<1>8. CASE NextRound("M")
  <2>1. round["M"] = 1
    BY <1>8 DEF NextRound, BoardFacts
  <2>2. pc'["M"] = "done"
    BY <1>2, <1>8, <2>1 DEF NextRound, BoardFacts
  <2>3. MasterTakes'
    BY <2>2 DEF MasterTakes
  <2>4. QED
    BY <1>4, <1>6, <2>3
<1>9. CASE TryAgain("M")
  <2>1. pc'["M"] = "idle"
    BY <1>2, <1>9 DEF TryAgain
  <2>2. MasterTakes'
    BY <2>1 DEF MasterTakes
  <2>3. QED
    BY <1>4, <1>6, <2>2
<1>10. CASE GiveUp("M") \/ Wait("M")
  <2>1. /\ pc["M"] \notin {"idle", "done"}
        /\ \/ pc'["M"] = pc["M"]
           \/ pc'["M"] \in {"fail", "returned", "gave_up"}
        /\ UNCHANGED <<mem, rx, round, phase>> /\ (sel' <=> sel)
    <3>1. CASE GiveUp("M")
      BY <1>2, <3>1 DEF GiveUp, local, app, hwVars
    <3>2. CASE CleanUp("M") \/ WaitAckFail("M") \/ WaitStop("M")
      BY <1>2, <3>2 DEF CleanUp, WaitAckFail, WaitStop, EventCheck, local, app, busVars
    <3>3. CASE WaitTimeout("M")
      BY <1>2, <3>3 DEF BoardFacts, Waits, WaitTimeout, hwVars, app
    <3>4. CASE LookAgain("M") \/ NoEvent("M")
      BY <1>2, <3>4 DEF BoardFacts, Waits, LookAgain, NoEvent, hwVars, app, local
    <3>5. QED
      BY <1>10, <3>1, <3>2, <3>3, <3>4 DEF Wait
  <2>2. MasterTakes'
    BY <1>1, <1>2, <1>3, <2>1, MasterKeeps DEF Reading
  <2>3. QED
    BY <1>4, <1>6, <2>2
<1>11. QED
  BY <1>7, <1>8, <1>9, <1>10
(* The slave's side of the master's own actions.                           *)
MasterQuiet ==
  /\ UNCHANGED <<plan, env, round, sel, clocked>>
  /\ SameThread("S") /\ SameRegisters("S")

LEMMA MasterQuietly ==
  ASSUME TypeOK, BoardFacts, Master
  PROVE  MasterQuiet
BY MasterLocal DEF MasterQuiet

LEMMA MasterSlaveTakes ==
  ASSUME BoardFacts, MasterQuiet, phase' = "data" => phase = "data"
  PROVE  SlaveTakes'
<1>1. Following' => Following
  BY DEF Following, MasterQuiet, SameRegisters
<1>2. QED
  BY <1>1, SlaveKeeps DEF BoardFacts, MasterQuiet, SameThread, SameRegisters

(* Steps that leave the frame, the transmitter and the buffer alone.       *)
LEMMA MasterIdles ==
  ASSUME BoardFacts, MasterQuiet, UNCHANGED <<phase, dir, tx, rx, mem>>,
         pc["M"] \notin {"idle", "done"},
         pc'["M"] \in {"free", "startf", "addr7"} => pc["M"] \in {"free", "startf", "addr7"},
         pc'["M"] \in Reading => pc["M"] \in Reading
  PROVE  Sending' /\ SlaveTakes' /\ MasterTakes'
<1>1. Sending'
  BY SendingKeeps DEF BoardFacts, MasterQuiet, SameThread, SameRegisters
<1>2. SlaveTakes'
  BY MasterSlaveTakes
<1>3. MasterTakes'
  BY MasterKeeps DEF BoardFacts, MasterQuiet
<1>4. QED
  BY <1>1, <1>2, <1>3

(* START, address, and the data of a write.                                *)
LEMMA MasterWritesBoard ==
  ASSUME BoardFacts, MasterQuiet,
         \/ GenerateStart \/ SendAddress \/ ClearAddrToWrite \/ SendRegister \/ GenerateRestart
         \/ SendData("M", "tdc") \/ StopWrite \/ Ev6Stop \/ Ev6Ack
  PROVE  Sending' /\ SlaveTakes' /\ MasterTakes'
<1> USE DEF Goto, Return, Stay
<1>1. CASE GenerateStart
  BY <1>1, MasterIdles DEF BoardFacts, MasterFacts, GenerateStart, Came, busVars, local, Reading
<1>2. CASE SendAddress
  <2>1. /\ pc["M"] = "startf" /\ pc'["M"] = "addr7" /\ phase' = "addr"
        /\ dir' = IF MyRound("M").op = "read" THEN "read" ELSE "write"
        /\ UNCHANGED <<tx, rx, mem>>
    BY <1>2 DEF BoardFacts, MasterFacts, SendAddress, Came, i2c_7bit_address_send, local
  <2>2. dir' = plan[1].op
    BY <2>1 DEF BoardFacts
  <2>3. Sending'
    BY <2>1, <2>2 DEF Sending, MasterQuiet, Following
  <2>4. SlaveTakes'
    BY <2>1, MasterSlaveTakes
  <2>5. MasterTakes'
    BY <2>1, MasterKeeps DEF BoardFacts, MasterQuiet, Reading
  <2>6. QED
    BY <2>3, <2>4, <2>5
<1>3. CASE ClearAddrToWrite
  BY <1>3, MasterIdles DEF BoardFacts, MasterFacts, ClearAddrToWrite, Came, busVars, local, Reading
<1>4. CASE SendRegister \/ GenerateRestart \/ Ev6Ack
  BY <1>4 DEF BoardFacts, SendRegister, GenerateRestart, Ev6Ack, Came
<1>5. CASE StopWrite
  BY <1>5, MasterIdles DEF BoardFacts, MasterFacts, StopWrite, Came, busVars, Reading
<1>6. CASE Ev6Stop
  BY <1>6, MasterIdles DEF BoardFacts, MasterFacts, Ev6Stop, busVars, local, Reading
<1>7. CASE SendData("M", "tdc")
  <2> DEFINE b == <<round["M"], Size("M") - left["M"] + 1>>
             t == tx["M"]
  <2>1. /\ pc["M"] = "tdbe" /\ pc'["M"] \in {"tdc", "tdbe"} /\ Transmitting("M")
        /\ tx'["M"] = Append(t, b)
        /\ UNCHANGED <<phase, dir, rx, mem>>
    BY <1>7 DEF BoardFacts, MasterFacts, SendData, Came, FlagCame, TDBE, i2c_data_send, busVars
  <2>2. Written /\ phase = "data" /\ dir = "write"
    BY <2>1 DEF BoardFacts, MasterFacts, MasterInv, Transmitting, Written
  <2>3. clocked + Len(t) = Size("M") - left["M"] /\ round["M"] = 1
    <3>1. clocked + Len(t) = Size("M") - left["M"] + 0
      BY <2>2 DEF Written, BoardFacts, OneRound
    <3>2. Size("M") \in Nat /\ left["M"] \in Nat
      BY <2>1 DEF BoardFacts, MasterFacts
    <3>3. QED
      BY <2>1, <3>1, <3>2 DEF BoardFacts
  <2>4. b = <<1, clocked + Len(t) + 1>>
    BY <2>3
  <2>5. t \in Seq(Byte) /\ clocked \in Nat /\ InOrder(t, clocked)
    BY <2>2 DEF BoardFacts, MasterFacts, Sending
  <2> HIDE DEF t, b
  <2>6. InOrder(tx'["M"], clocked)
    BY <2>1, <2>4, <2>5, OrderAppend
  <2>7. Sending'
    <3>1. phase = "data" => dir = plan[1].op
      BY DEF BoardFacts, Sending
    <3>2. sel' /\ phase' = "data" /\ "ADDR7F" \in flags'["S"] => clocked' = 0 /\ tx'["S"] = <<>>
      BY <2>1 DEF BoardFacts, Sending, MasterQuiet, SameRegisters
    <3>3. InOrder(tx'["M"], clocked')
      BY <2>6 DEF MasterQuiet
    <3>4. QED
      BY <2>1, <2>2, <3>1, <3>2, <3>3 DEF MasterQuiet, Sending, InOrder
  <2>8. SlaveTakes'
    BY <2>1, MasterSlaveTakes
  <2>9. MasterTakes'
    BY <2>1, MasterKeeps DEF BoardFacts, MasterQuiet, Reading
  <2>10. QED
    BY <2>7, <2>8, <2>9
<1>8. QED
  BY <1>1, <1>2, <1>3, <1>4, <1>5, <1>6, <1>7

(* ADDR7F is cleared for a read: nothing is stored, nothing clocked yet.   *)
LEMMA MasterListensBoard ==
  ASSUME BoardFacts, MasterQuiet, ClearAddrToRead
  PROVE  Sending' /\ SlaveTakes' /\ MasterTakes'
<1>1. /\ pc["M"] = "addr7" /\ pc'["M"] \in Reading /\ UNCHANGED <<phase, dir, tx, rx, mem>>
      /\ "ADDR7F" \in flags["M"]
  BY SMTT(30) DEF ClearAddrToRead, Came, FlagCame, Goto, ReadWait, Reading, BoardFacts, MasterFacts, busVars,
         local
<1>2. Sending'
  BY <1>1, SendingKeeps DEF BoardFacts, MasterQuiet, SameThread, SameRegisters
<1>3. SlaveTakes'
  BY <1>1, MasterSlaveTakes
<1>4. mem["M"] = <<>> /\ rx["M"] = <<>> /\ clocked = 0
  <2>1. phase = "data"
    BY <1>1 DEF BoardFacts, MasterFacts, FlagInv
  <2>2. AddressInv /\ MasterTakes
    BY DEF BoardFacts, MasterFacts, MasterInv
  <2>3. Leftover /\ Bytes0
    BY <1>1, <2>1, <2>2 DEF AddressInv
  <2>4. QED
    BY <1>1, <2>2, <2>3 DEF MasterTakes, Leftover, Bytes0, BoardFacts
<1>5. Len(mem'["M"]) = 0 /\ Len(rx'["M"]) = 0 /\ mem'["M"] = <<>> /\ rx'["M"] = <<>> /\ clocked' = 0
  BY <1>1, <1>4 DEF MasterQuiet
<1>6. MasterHas(0)'
  <2>1. UpTo(0, <<>>, 0)
    BY DEF UpTo
  <2>2. QED
    BY <1>5, <2>1 DEF MasterHas, UpTo
<1>7. MasterTakes'
  <2>1. 0 \in 0 .. Len(mem'["M"]) + Len(rx'["M"])
    BY <1>5
  <2>2. pc'["M"] \notin {"free", "startf", "addr7"}
    BY <1>1 DEF Reading
  <2>3. QED
    BY <1>6, <2>1, <2>2 DEF MasterTakes
<1>8. QED
  BY <1>2, <1>3, <1>7

(* Bytes go from the data register to the buffer.                          *)
LEMMA MasterReadsBoard ==
  ASSUME BoardFacts, MasterQuiet, ReadByte \/ ReadThirdLast \/ ReadLastTwo
  PROVE  Sending' /\ SlaveTakes' /\ MasterTakes'
<1> DEFINE a == Len(mem["M"])
           b == Len(rx["M"])
<1>1. /\ pc["M"] \in {"rdbf", "rtdc"} /\ pc'["M"] \in {"returned", "rdbf", "rtdc"}
      /\ UNCHANGED <<phase, dir, tx>>
  BY DEF ReadByte, ReadThirdLast, ReadLastTwo, Came, Goto, Return, ReadWait, BoardFacts, MasterFacts,
         busVars
<1>2. \E k \in {1, 2} : k <= b /\ ReadData("M", k)
  <2>1. rx["M"] \in Seq(Byte) /\ b \in Nat
    <3>1. rx["M"] \in Seq(Byte)
      BY DEF BoardFacts, MasterFacts
    <3>2. QED
      BY <3>1
  <2>2. CASE ReadByte
    <3>1. rx["M"] # <<>> /\ ReadData("M", 1)
      BY <2>2 DEF ReadByte, Came, FlagCame, RDBF
    <3>2. 1 <= b
      BY <2>1, <3>1
    <3>3. QED
      BY <3>1, <3>2
  <2>3. CASE ReadThirdLast \/ ReadLastTwo
    <3>1. TDC("M") /\ pc["M"] = "rtdc"
      BY <2>3 DEF ReadThirdLast, ReadLastTwo, Came, FlagCame
    <3>2. Read
      BY <3>1 DEF BoardFacts, MasterFacts, MasterInv
    <3>3. ~Transmitting("M")
      BY <3>2 DEF Read, Transmitting
    <3>4. b = 2
      BY <3>1, <3>3 DEF TDC
    <3>5. QED
      BY <2>3, <3>4 DEF ReadThirdLast, ReadLastTwo
  <2>4. QED
    BY <2>2, <2>3
<1>3. PICK k \in {1, 2} : k <= b /\ ReadData("M", k)
  BY <1>2
<1>4. TakenBytes("M", k)
  BY <1>3, Taken DEF BoardFacts, MasterFacts
<1>5. Sending'
  BY <1>1, SendingKeeps DEF BoardFacts, MasterQuiet, SameThread, SameRegisters
<1>6. SlaveTakes'
  BY <1>1, MasterSlaveTakes
<1>7. ASSUME Reads("M")'
      PROVE  \E m \in 0 .. Len(mem'["M"]) + Len(rx'["M"]) : MasterHas(m)'
  <2>1. Reads("M") /\ pc["M"] \notin {"idle", "done"}
    BY <1>1, <1>7 DEF Reads, MyRound, MasterQuiet
  <2>2. PICK m \in 0 .. a + b : MasterHas(m)
    BY <2>1 DEF BoardFacts, MasterTakes
  <2>3. /\ UpTo(m, mem["M"], 0) /\ UpTo(m, rx["M"], a)
        /\ sel /\ phase = "data" => clocked = a + b /\ clocked <= m
    <3>1. pc["M"] \in Reading
      BY <1>1 DEF Reading
    <3>2. QED
      BY <2>2, <3>1 DEF MasterHas
  <2>4. /\ a \in Nat /\ b \in Nat /\ m \in Nat /\ k \in Nat
        /\ Len(mem'["M"]) = a + k /\ Len(rx'["M"]) = b - k
    BY <1>3, <1>4, <2>2 DEF TakenBytes
  <2>5. UpTo(m, mem'["M"], 0) /\ UpTo(m, rx'["M"], Len(mem'["M"]))
    BY <1>3, <1>4, <2>3, <2>4, UpToTaken DEF BoardFacts
  <2>6. Len(mem'["M"]) + Len(rx'["M"]) = a + b
    <3> HIDE DEF a, b
    <3> QED
      BY <2>4
  <2>7. sel' /\ phase' = "data" =>
          clocked' = Len(mem'["M"]) + Len(rx'["M"]) /\ clocked' <= m
    BY <1>1, <2>3, <2>6 DEF MasterQuiet
  <2>8. MasterHas(m)'
    BY <2>5, <2>7 DEF MasterHas, UpTo
  <2>9. QED
    BY <2>2, <2>6, <2>8
<1>8. MasterTakes'
  BY <1>1, <1>7 DEF MasterTakes
<1>9. QED
  BY <1>5, <1>6, <1>8

LEMMA MasterBoard ==
  ASSUME TypeOK, BoardFacts, Master
  PROVE  Sending' /\ SlaveTakes' /\ MasterTakes'
<1>1. MasterQuiet
  BY MasterQuietly
<1>2. QED
  BY <1>1, MasterWritesBoard, MasterListensBoard, MasterReadsBoard DEF Master
(***************************************************************************)
(* The steps of the slave.                                                 *)
(***************************************************************************)

(* The master's side of them.                                              *)
SlaveQuiet ==
  /\ UNCHANGED <<plan, env, phase, dir, clocked>>
  /\ SameThread("M") /\ SameRegisters("M")
  /\ sel' => sel

LEMMA SlaveMasterTakes ==
  ASSUME BoardFacts, SlaveQuiet
  PROVE  MasterTakes'
BY MasterKeeps DEF BoardFacts, SlaveQuiet, SameThread, SameRegisters

(* The application's steps and the waits.                                  *)
LEMMA CommonSlaveBoard ==
  ASSUME TypeOK, BoardFacts,
         StartCall("S") \/ NextRound("S") \/ TryAgain("S") \/ GiveUp("S") \/ Wait("S")
  PROVE  Sending' /\ SlaveTakes' /\ MasterTakes'
<1> USE DEF Goto, Return, Stay, SetCtrl, ClearFlags
<1>1. /\ pc \in [Node -> MainPc] /\ tx \in [Node -> Seq(Byte)] /\ rx \in [Node -> Seq(Byte)]
      /\ mem \in [Node -> Seq(Byte)] /\ flags \in [Node -> SUBSET Flags]
      /\ Sending /\ SlaveTakes /\ MasterTakes /\ "S" \in Node
      /\ left \in [Node -> Nat] /\ round \in [Node -> Nat \ {0}]
  BY DEF BoardFacts, MasterFacts
<1>2. ASSUME TryAgain("S")
      PROVE  /\ UNCHANGED <<phase, dir, clocked>> /\ pc'["S"] = "idle" /\ rx'["S"] = <<>> /\ ~sel'
  <2>1. i2c_reset("S")
    BY <1>2 DEF TryAgain, BoardFacts, OneRound
  <2>2. ~sel'
    BY <2>1 DEF i2c_reset
  <2>3. QED
    BY <1>1, <1>2, <2>1, <2>2 DEF i2c_reset, TryAgain
<1>3. ASSUME StartCall("S") \/ NextRound("S") \/ GiveUp("S")
      PROVE  /\ UNCHANGED <<ctrl, flags, tx, rx, phase, dir, clocked, sel>>
             /\ pc'["S"] \in {"free", "busy", "done", "gave_up"}
             /\ pc'["S"] \in {"free", "busy"} => pc["S"] = "idle" /\ mem'["S"] = <<>>
             /\ pc'["S"] = "gave_up" =>
                  pc["S"] = "returned" /\ UNCHANGED <<mem, round>>
  <2>1. CASE StartCall("S")
    BY <1>1, <2>1 DEF StartCall, FirstWait, hwVars
  <2>2. CASE NextRound("S")
    BY <1>1, <2>2 DEF NextRound, BoardFacts, hwVars
  <2>3. CASE GiveUp("S")
    BY <1>1, <2>3 DEF GiveUp, hwVars, app, local
  <2>4. QED
    BY <1>3, <2>1, <2>2, <2>3
<1>4. ASSUME Wait("S")
      PROVE  /\ pc["S"] \notin {"idle", "done"}
             /\ \/ pc'["S"] = pc["S"]
                \/ pc'["S"] \in {"fail", "returned"}
             /\ UNCHANGED <<tx, rx, mem, left, round, phase, dir, clocked, sel>>
             /\ "ADDR7F" \in flags'["S"] <=> "ADDR7F" \in flags["S"]
  <2>1. CASE CleanUp("S")
    BY <1>1, <2>1 DEF CleanUp, app, busVars
  <2>2. CASE WaitAckFail("S")
    BY <1>1, <2>2 DEF WaitAckFail, EventCheck, local, app, busVars
  <2>3. CASE WaitStop("S")
    BY <1>1, <2>3 DEF WaitStop, EventCheck, local, app, busVars
  <2>4. CASE WaitTimeout("S")
    BY <1>1, <2>4 DEF BoardFacts, Waits, WaitTimeout, hwVars, app
  <2>5. CASE LookAgain("S") \/ NoEvent("S")
    BY <1>1, <2>5 DEF BoardFacts, Waits, LookAgain, NoEvent, hwVars, app, local
  <2>6. QED
    BY <1>4, <2>1, <2>2, <2>3, <2>4, <2>5 DEF Wait
<1>5. SlaveQuiet
  <2>1. UNCHANGED <<plan, env>> /\ SameThread("M") /\ SameRegisters("M")
    BY CommonLocal DEF BoardFacts
  <2>2. QED
    BY <1>2, <1>3, <1>4, <2>1 DEF SlaveQuiet
<1>6. MasterTakes' /\ tx'["M"] = tx["M"]
  BY <1>5, SlaveMasterTakes DEF SlaveQuiet, SameRegisters
<1>7. CASE TryAgain("S")
  <2>1. Sending'
    BY <1>1, <1>2, <1>5, <1>6, <1>7, SendingKeeps DEF SlaveQuiet
  <2>2. SlaveTakes'
    BY <1>2, <1>7 DEF SlaveTakes, Following
  <2>3. QED
    BY <1>6, <2>1, <2>2
<1>8. CASE StartCall("S") \/ NextRound("S") \/ GiveUp("S")
  <2>1. Sending'
    BY <1>1, <1>3, <1>5, <1>6, <1>8, SendingKeeps DEF SlaveQuiet
  <2>2. SlaveTakes'
    <3>1. CASE pc'["S"] \in {"free", "busy"}
      <4>1. /\ pc["S"] = "idle" /\ mem'["S"] = <<>>
            /\ UNCHANGED <<rx, flags, sel>>
        BY <1>3, <1>8, <3>1
      <4>2. rx'["S"] = <<>> /\ (sel' => "ADDR7F" \in flags'["S"])
        BY <1>1, <4>1 DEF SlaveTakes
      <4>3. InOrder(mem'["S"], 0)
        BY <4>1, OrderEmpty
      <4>4. QED
        BY <3>1, <4>1, <4>2, <4>3 DEF SlaveTakes, InOrder
    <3>2. CASE pc'["S"] \in {"done", "gave_up"}
      BY <1>1, <1>3, <1>5, <1>8, <3>2, SlaveKeeps DEF SlaveQuiet, Following
    <3>3. QED
      BY <1>3, <1>8, <3>1, <3>2
  <2>3. QED
    BY <1>6, <2>1, <2>2
<1>9. CASE Wait("S")
  <2>1. Sending'
    BY <1>1, <1>4, <1>5, <1>6, <1>9, SendingKeeps DEF SlaveQuiet
  <2>2. Following' => Following
    BY <1>4, <1>9 DEF Following
  <2>3. SlaveTakes'
    BY <1>1, <1>4, <1>5, <1>9, <2>2, SlaveKeeps DEF SlaveQuiet
  <2>4. QED
    BY <1>6, <2>1, <2>3
<1>10. QED
  BY <1>7, <1>8, <1>9

(* The slave's own actions.                                                *)
LEMMA SlaveBoard ==
  ASSUME TypeOK, BoardFacts, Slave
  PROVE  Sending' /\ SlaveTakes' /\ MasterTakes'
<1> USE DEF Goto, Return, Stay, SetCtrl, ClearFlags
<1>1. /\ pc \in [Node -> MainPc] /\ tx \in [Node -> Seq(Byte)] /\ rx \in [Node -> Seq(Byte)]
      /\ mem \in [Node -> Seq(Byte)] /\ flags \in [Node -> SUBSET Flags]
      /\ left \in [Node -> Nat]
      /\ Sending /\ SlaveTakes /\ MasterTakes /\ SlaveCount /\ "S" \in Node /\ clocked \in Nat
  BY DEF BoardFacts, MasterFacts
<1>2. /\ SlaveQuiet /\ UNCHANGED <<round, sel>>
  BY SlaveLocal DEF SlaveQuiet, busVars
<1>3. MasterTakes' /\ tx'["M"] = tx["M"]
  BY <1>2, SlaveMasterTakes DEF SlaveQuiet, SameRegisters
<1>4. CASE EnableAck \/ SlaveEnd
  <2>1. /\ UNCHANGED <<tx, rx, mem>>
        /\ "ADDR7F" \in flags'["S"] <=> "ADDR7F" \in flags["S"]
        /\ \/ pc["S"] \in {"free", "busy"} /\ pc'["S"] = "addr7"
           \/ pc["S"] \in {"stopf", "ackfail"} /\ pc'["S"] = "returned"
    BY <1>1, <1>4 DEF EnableAck, SlaveEnd, Came, local
  <2>2. Sending'
    BY <1>1, <1>2, <1>3, <2>1, SendingKeeps DEF SlaveQuiet
  <2>3. Following' => Following
    BY <1>2, <2>1 DEF Following, SlaveQuiet
  <2>4. SlaveTakes'
    BY <1>1, <1>2, <2>1, <2>3, SlaveKeeps DEF SlaveQuiet
  <2>5. QED
    BY <1>3, <2>2, <2>4
<1>5. CASE SlaveClearAddr
  <2>1. /\ UNCHANGED <<tx, rx, mem, left>> /\ pc["S"] = "addr7"
        /\ pc'["S"] = (IF SlaveReceives THEN "rdbf" ELSE "tdbe")
        /\ "ADDR7F" \in flags["S"] /\ "ADDR7F" \notin flags'["S"]
    BY <1>1, <1>5 DEF SlaveClearAddr, Came, FlagCame, local
  <2>2. /\ rx["S"] = <<>> /\ mem["S"] = <<>> /\ left["S"] = Size("S")
        /\ sel /\ phase = "data" => clocked = 0 /\ tx["S"] = <<>>
    BY <1>1, <2>1 DEF SlaveTakes, SlaveCount, Sending
  <2>3. Size("S")' = Size("S") /\ Reads("S")' = Reads("S") /\ Size("S") \in Nat
    BY <1>2, <2>1 DEF Size, Reads, MyRound, SlaveQuiet, BoardFacts
  <2>4. Following' => clocked' = 0 /\ tx'["S"] = <<>>
    BY <1>2, <2>1, <2>2 DEF Following, SlaveQuiet
  <2>5. Sending'
    <3>1. phase' \in {"addr", "data"} => dir' = plan'[1].op
      BY <1>1, <1>2 DEF Sending, SlaveQuiet
    <3>2. phase' = "data" /\ dir' = "write" => InOrder(tx'["M"], clocked')
      BY <1>1, <1>2, <1>3 DEF Sending, SlaveQuiet
    <3>3. Following' =>
            /\ InOrder(tx'["S"], clocked')
            /\ Size("S")' - left'["S"] = clocked' + Len(tx'["S"])
      <4>1. Size("S")' - left'["S"] = 0 + 0
        BY <2>1, <2>2, <2>3
      <4>2. QED
        BY <2>4, <4>1, OrderEmpty
    <3>4. QED
      BY <2>1, <3>1, <3>2, <3>3 DEF Sending, InOrder
  <2>6. SlaveTakes'
    <3>1. pc'["S"] = "rdbf" => Reads("S")
      BY <2>1 DEF BoardFacts
    <3>2. Len(mem'["S"]) = 0 /\ Len(rx'["S"]) = 0 /\ mem'["S"] = <<>> /\ rx'["S"] = <<>>
      BY <2>1, <2>2
    <3>3. QED
      BY <2>1, <2>3, <2>4, <3>1, <3>2, OrderEmpty DEF SlaveTakes, InOrder
  <2>7. QED
    BY <1>3, <2>5, <2>6
<1>6. CASE SlaveReadByte
  <2>1. /\ UNCHANGED <<tx, flags>> /\ pc["S"] = "rdbf" /\ pc'["S"] \in {"stopf", "rdbf"}
        /\ rx["S"] # <<>> /\ ReadData("S", 1)
    BY <1>1, <1>6 DEF SlaveReadByte, Came, FlagCame, RDBF
  <2>2. Sending'
    BY <1>1, <1>2, <1>3, <2>1, SendingKeeps DEF SlaveQuiet
  <2>3. 1 <= Len(rx["S"])
    <3>1. rx["S"] \in Seq(Byte)
      BY <1>1
    <3>2. QED
      BY <2>1, <3>1
  <2>4. TakenBytes("S", 1)
    BY <1>1, <2>1, <2>3, Taken
  <2>5. /\ Reads("S") /\ InOrder(mem["S"], 0) /\ InOrder(rx["S"], Len(mem["S"]))
        /\ Following => clocked = Len(mem["S"]) + Len(rx["S"])
    BY <1>1, <2>1 DEF SlaveTakes
  <2>6. InOrder(mem'["S"], 0) /\ InOrder(rx'["S"], Len(mem'["S"]))
    BY <1>1, <2>3, <2>4, <2>5, OrderTaken
  <2>7. Len(mem'["S"]) + Len(rx'["S"]) = Len(mem["S"]) + Len(rx["S"])
    <3> DEFINE a == Len(mem["S"])
               b == Len(rx["S"])
    <3>1. a \in Nat /\ b \in Nat /\ Len(mem'["S"]) = a + 1 /\ Len(rx'["S"]) = b - 1
      BY <2>4 DEF TakenBytes
    <3> HIDE DEF a, b
    <3>2. Len(mem'["S"]) + Len(rx'["S"]) = a + b
      BY <3>1
    <3> QED
      BY <3>2 DEF a, b
  <2>8. Reads("S")' /\ (Following' => clocked' = Len(mem'["S"]) + Len(rx'["S"]))
    BY <1>2, <2>1, <2>5, <2>7 DEF Reads, MyRound, SlaveQuiet, Following
  <2>9. SlaveTakes'
    BY <2>1, <2>6, <2>8 DEF SlaveTakes, InOrder
  <2>10. QED
    BY <1>3, <2>2, <2>9
<1>7. CASE SendData("S", "ackfail")
  <2> DEFINE b == <<round["S"], Size("S") - left["S"] + 1>>
             t == tx["S"]
  <2>1. /\ pc["S"] = "tdbe" /\ pc'["S"] \in {"ackfail", "tdbe"} /\ Transmitting("S")
        /\ tx'["S"] = Append(t, b) /\ left'["S"] = left["S"] - 1
        /\ UNCHANGED <<flags, rx, mem>>
    BY <1>1, <1>7 DEF SendData, Came, FlagCame, TDBE, i2c_data_send, Count
  <2>2. dir = "read" /\ sel /\ "ADDR7F" \notin flags["S"]
    BY <2>1 DEF Transmitting, BoardFacts
  <2>3. /\ Size("S")' = Size("S") /\ Size("S") \in Nat /\ round["S"] = 1
        /\ left["S"] \in Nat /\ t \in Seq(Byte)
    BY <1>1, <1>2, <2>1 DEF Size, MyRound, SlaveQuiet, BoardFacts
  <2>4. Following => InOrder(t, clocked) /\ Size("S") - left["S"] = clocked + Len(t)
    BY <1>1, <2>1, <2>2 DEF Sending
  <2>5. Len(tx'["S"]) = Len(t) + 1 /\ Len(t) \in Nat
    BY <2>1, <2>3
  <2>6. Following =>
          /\ b = <<1, clocked + Len(t) + 1>>
          /\ Size("S") - (left["S"] - 1) = clocked + (Len(t) + 1)
    <3> DEFINE s == Size("S")
               l == left["S"]
               n == Len(t)
    <3>1. s \in Nat /\ l \in Nat /\ n \in Nat /\ clocked \in Nat /\ (Following => s - l = clocked + n)
      BY <1>1, <2>3, <2>4, <2>5
    <3> HIDE DEF s, l, n
    <3>2. Following => s - l + 1 = clocked + n + 1 /\ s - (l - 1) = clocked + (n + 1)
      BY <3>1
    <3> QED
      BY <2>3, <3>2 DEF s, l, n
  <2> HIDE DEF t, b
  <2>7. Following => InOrder(tx'["S"], clocked)
    BY <1>1, <2>1, <2>3, <2>4, <2>6, OrderAppend
  <2>8. Following' = Following
    BY <1>2, <2>1 DEF Following, SlaveQuiet
  <2>9. Sending'
    <3>1. phase' \in {"addr", "data"} => dir' = plan'[1].op
      BY <1>1, <1>2 DEF Sending, SlaveQuiet
    <3>2. phase' = "data" /\ dir' = "write" => InOrder(tx'["M"], clocked')
      BY <1>1, <1>2, <1>3 DEF Sending, SlaveQuiet
    <3>3. Following' =>
            /\ InOrder(tx'["S"], clocked')
            /\ Size("S")' - left'["S"] = clocked' + Len(tx'["S"])
      BY <1>2, <2>1, <2>3, <2>5, <2>6, <2>7, <2>8 DEF SlaveQuiet
    <3>4. QED
      BY <2>1, <2>2, <3>1, <3>2, <3>3 DEF Sending, InOrder
  <2>10. SlaveTakes'
    BY <1>1, <1>2, <2>1, <2>8, SlaveKeeps DEF SlaveQuiet
  <2>11. QED
    BY <1>3, <2>9, <2>10
<1>8. QED
  BY <1>4, <1>5, <1>6, <1>7 DEF Slave
(***************************************************************************)
(* The steps of the bus.                                                   *)
(***************************************************************************)

LEMMA BusQuietly ==
  ASSUME BoardFacts, Bus \/ Fault
  PROVE  UNCHANGED <<pc, left, mem, round, plan, env>>
BY DEF Bus, Fault, Quiet, local, app

(* START, STOP, a refused address, and a slave that lets go.               *)
LEMMA ControlBoard ==
  ASSUME BoardFacts, UNCHANGED <<pc, left, mem, round, plan, env>>,
         \/ HwStart \/ HwRestart \/ HwStop \/ HwAddrNack \/ HwSlaveRelease
  PROVE  Sending' /\ SlaveTakes' /\ MasterTakes'
<1>1. flags \in [Node -> SUBSET Flags] /\ "S" \in Node /\ Sending /\ SlaveTakes /\ MasterTakes
  BY DEF BoardFacts, MasterFacts
<1>2. /\ UNCHANGED <<tx, rx, dir>>
      /\ \/ phase' \in {"start", "free"} /\ ~sel'
         \/ phase' = "closing" /\ UNCHANGED <<sel, flags["S"]>>
         \/ ~sel' /\ UNCHANGED <<phase, clocked, flags>>
  <2>1. CASE HwStart \/ HwRestart \/ HwStop
    BY <2>1 DEF HwStart, HwRestart, HwStop
  <2>2. CASE HwAddrNack
    BY <1>1, <2>2 DEF HwAddrNack
  <2>3. CASE HwSlaveRelease
    BY <2>3 DEF HwSlaveRelease
  <2>4. QED
    BY <2>1, <2>2, <2>3
<1>3. Sending'
  BY <1>1, <1>2, SendingKeeps
<1>4. ~Following'
  BY <1>2 DEF Following
<1>5. SlaveTakes'
  BY <1>1, <1>2, <1>4, SlaveKeeps
<1>6. MasterTakes'
  BY <1>1, <1>2, MasterKeeps
<1>7. QED
  BY <1>3, <1>5, <1>6

(* The address, acknowledged: the frame has its first byte to come.        *)
LEMMA AddrAckBoard ==
  ASSUME BoardFacts, UNCHANGED <<pc, left, mem, round, plan, env>>, HwAddrAck
  PROVE  Sending' /\ SlaveTakes' /\ MasterTakes'
<1>1. /\ phase = "addr" /\ phase' = "data" /\ clocked' = 0 /\ UNCHANGED <<rx, dir>>
      /\ tx'["M"] = <<>> /\ tx'["S"] = <<>> /\ "ADDR7F" \in flags'["S"]
  BY DEF HwAddrAck, BoardFacts
<1>2. Sending /\ SlaveTakes /\ MasterTakes
  BY DEF BoardFacts
<1>3. ~Following'
  BY <1>1 DEF Following
<1>4. Sending'
  BY <1>1, <1>2, <1>3, OrderEmpty DEF Sending, InOrder
<1>5. SlaveTakes'
  BY <1>1, <1>2, <1>3, SlaveKeeps
<1>6. pc["M"] \notin Reading
  <2>1. ~Read
    BY <1>1 DEF Read
  <2>2. QED
    BY <2>1 DEF BoardFacts, MasterFacts, MasterInv, Reading
<1>7. MasterTakes'
  BY <1>1, <1>2, <1>6, MasterKeeps
<1>8. QED
  BY <1>4, <1>5, <1>7

(* A byte of the master.                                                   *)
LEMMA WriteByteBoard ==
  ASSUME BoardFacts, UNCHANGED <<pc, left, mem, round, plan, env>>,
         NEW lost \in BOOLEAN, HwWriteByte(lost)
  PROVE  Sending' /\ SlaveTakes' /\ MasterTakes'
<1> DEFINE t == tx["M"]
           r == rx["S"]
<1>1. /\ flags \in [Node -> SUBSET Flags] /\ t \in Seq(Byte) /\ r \in Seq(Byte)
      /\ tx \in [Node -> Seq(Byte)] /\ rx \in [Node -> Seq(Byte)] /\ mem["S"] \in Seq(Byte)
      /\ Sending /\ SlaveTakes /\ MasterTakes /\ clocked \in Nat
      /\ "M" \in Node /\ "S" \in Node /\ "M" # "S"
  BY DEF BoardFacts, MasterFacts
<1>2. /\ phase = "data" /\ dir = "write" /\ t # <<>>
      /\ UNCHANGED <<ctrl, dir, sel>> /\ clocked' = clocked + 1
      /\ rx'["M"] = rx["M"] /\ tx'["S"] = tx["S"] /\ flags'["S"] = flags["S"]
      /\ sel => "ADDR7F" \notin flags["S"] /\ rx'["S"] = Append(r, Head(t))
      /\ ~sel => rx'["S"] = r
      /\ \/ phase' = "data" /\ tx'["M"] = Tail(t)
         \/ phase' = "closing" /\ tx'["M"] = <<>>
  BY <1>1 DEF HwWriteByte, SlaveStretches
<1>3. InOrder(t, clocked)
  BY <1>1, <1>2 DEF Sending
<1>4. Head(t) = <<1, clocked + 1>> /\ InOrder(Tail(t), clocked + 1)
  BY <1>1, <1>2, <1>3, OrderTail
<1>5. Sending'
  <2>1. phase' \in {"addr", "data"} => dir' = plan'[1].op
    BY <1>1, <1>2 DEF Sending
  <2>2. phase' = "data" => InOrder(tx'["M"], clocked')
    BY <1>2, <1>4
  <2>3. QED
    BY <1>2, <2>1, <2>2 DEF Sending, InOrder
<1>6. SlaveTakes'
  <2>1. CASE ~sel
    <3>1. ~Following'
      BY <1>2, <2>1 DEF Following
    <3>2. QED
      BY <1>1, <1>2, <2>1, <3>1, SlaveKeeps
  <2>2. CASE sel
    <3>1. Following /\ pc["S"] \notin {"idle", "free", "busy", "addr7"}
      BY <1>1, <1>2, <2>2 DEF Following, SlaveTakes
    <3>2. pc["S"] = "rdbf" =>
            /\ Reads("S") /\ InOrder(r, Len(mem["S"]))
            /\ clocked = Len(mem["S"]) + Len(r)
      BY <1>1, <3>1 DEF SlaveTakes
    <3>3. Len(mem["S"]) \in Nat /\ Len(r) \in Nat /\ Len(Append(r, Head(t))) = Len(r) + 1
      BY <1>1
    <3>4. pc["S"] = "rdbf" => Head(t) = <<1, Len(mem["S"]) + Len(r) + 1>>
      BY <1>4, <3>2
    <3>5. pc["S"] = "rdbf" => InOrder(rx'["S"], Len(mem["S"]))
      <4> HIDE DEF r, t
      <4> QED
        BY <1>1, <1>2, <2>2, <3>2, <3>3, <3>4, OrderAppend
    <3>6. pc["S"] = "rdbf" => clocked' = Len(mem["S"]) + Len(rx'["S"])
      <4> DEFINE a == Len(mem["S"])
                 b == Len(r)
      <4>1. /\ a \in Nat /\ b \in Nat /\ Len(rx'["S"]) = b + 1 /\ clocked' = clocked + 1
            /\ pc["S"] = "rdbf" => clocked = a + b
        BY <1>2, <2>2, <3>2, <3>3
      <4> HIDE DEF a, b
      <4>2. pc["S"] = "rdbf" => clocked' = a + Len(rx'["S"])
        BY <4>1
      <4> QED
        BY <4>2 DEF a
    <3>7. /\ Reads("S")' = Reads("S")
          /\ pc["S"] \notin {"idle", "done"} /\ Reads("S") => InOrder(mem["S"], 0)
      BY <1>1 DEF Reads, MyRound, SlaveTakes
    <3>8. QED
      BY <3>1, <3>2, <3>5, <3>6, <3>7 DEF SlaveTakes, InOrder
  <2>3. QED
    BY <2>1, <2>2
<1>7. pc["M"] \notin Reading
  <2>1. ~Read
    BY <1>2 DEF Read
  <2>2. QED
    BY <2>1 DEF BoardFacts, MasterFacts, MasterInv, Reading
<1>8. MasterTakes'
  BY <1>1, <1>2, <1>7, MasterKeeps
<1>9. QED
  BY <1>5, <1>6, <1>8

(* A byte that the master clocks in, the slave's or of an undriven line.   *)
LEMMA ClockedInBoard ==
  ASSUME BoardFacts, UNCHANGED <<pc, left, mem, round, plan, env>>, NEW b \in Byte,
         rx'["M"] = Append(rx["M"], b), clocked' = clocked + 1,
         sel' /\ phase' = "data" => sel /\ phase = "data",
         IF sel /\ phase = "data" THEN b = <<1, clocked + 1>> ELSE b = Garbage
  PROVE  MasterTakes'
<1> DEFINE s == mem["M"]
           r == rx["M"]
           p == Len(mem["M"])
           q == Len(rx["M"])
<1>1. /\ s \in Seq(Byte) /\ r \in Seq(Byte) /\ clocked \in Nat /\ MasterTakes
  BY DEF BoardFacts, MasterFacts
<1>2. p \in Nat /\ q \in Nat /\ Len(rx'["M"]) = q + 1
  BY <1>1
<1>3. ASSUME pc["M"] \notin {"idle", "done"}, Reads("M")
      PROVE  \E m \in 0 .. p + (q + 1) : MasterHas(m)'
  <2>1. PICK m \in 0 .. p + q : MasterHas(m)
    BY <1>1, <1>3 DEF MasterTakes
  <2>2. m \in Nat /\ m <= p + q /\ m \in 0 .. p + (q + 1) /\ m + 1 \in 0 .. p + (q + 1)
    <3> HIDE DEF p, q
    <3> QED
      BY <1>2, <2>1
  <2>3. CASE pc["M"] \notin Reading
    BY <2>1, <2>2, <2>3 DEF MasterHas, Reading, UpTo
  <2>4. CASE pc["M"] \in Reading /\ ~(sel /\ phase = "data")
    <3>1. UpTo(m, s, 0) /\ UpTo(m, r, p)
      BY <2>1, <2>4 DEF MasterHas, Reading
    <3>2. b = Garbage /\ ~(p + q + 1 <= m)
      <4>1. b = Garbage
        BY <2>4
      <4> HIDE DEF p, q
      <4>2. QED
        BY <1>2, <2>2, <4>1
    <3>3. UpTo(m, rx'["M"], p)
      BY <1>1, <1>2, <2>2, <3>1, <3>2, UpToAppend
    <3>4. MasterHas(m)'
      BY <2>4, <3>1, <3>3 DEF MasterHas, UpTo
    <3>5. QED
      BY <2>2, <3>4
  <2>5. CASE pc["M"] \in Reading /\ sel /\ phase = "data"
    <3>1. UpTo(m, s, 0) /\ UpTo(m, r, p) /\ clocked = p + q /\ clocked <= m
      BY <2>1, <2>5 DEF MasterHas, Reading
    <3>2. /\ m = p + q /\ 0 + p <= m /\ p + q <= m /\ b = <<1, p + q + 1>> /\ p + q + 1 <= m + 1
          /\ clocked' = p + (q + 1) /\ clocked' <= m + 1
      <4>1. b = <<1, clocked + 1>>
        BY <2>5
      <4> HIDE DEF p, q
      <4>2. QED
        BY <1>2, <2>2, <3>1, <4>1
    <3>3. UpTo(m + 1, s, 0) /\ UpTo(m + 1, r, p)
      BY <1>1, <1>2, <2>2, <3>1, <3>2, UpToMore
    <3>4. UpTo(m + 1, rx'["M"], p)
      <4>1. m + 1 \in Nat
        BY <2>2
      <4>2. QED
        BY <1>1, <1>2, <3>2, <3>3, <4>1, UpToAppend
    <3>5. MasterHas(m + 1)'
      <4>1. clocked' = p + Len(rx'["M"]) /\ clocked' <= m + 1
        BY <1>2, <3>2
      <4>2. UpTo(m + 1, mem'["M"], 0) /\ UpTo(m + 1, rx'["M"], Len(mem'["M"]))
        BY <3>3, <3>4
      <4>3. QED
        BY <4>1, <4>2 DEF MasterHas, UpTo
    <3>6. QED
      BY <2>2, <3>5
  <2>6. QED
    BY <2>3, <2>4, <2>5
<1>4. Reads("M")' = Reads("M")
  BY DEF Reads, MyRound
<1>5. Len(mem'["M"]) + Len(rx'["M"]) = p + (q + 1)
  BY <1>2
<1>6. QED
  BY <1>1, <1>3, <1>4, <1>5 DEF MasterTakes

LEMMA ReadByteBoard ==
  ASSUME BoardFacts, UNCHANGED <<pc, left, mem, round, plan, env>>, HwReadByte
  PROVE  Sending' /\ SlaveTakes' /\ MasterTakes'
<1> DEFINE t == tx["S"]
           b == IF sel THEN Head(t) ELSE Garbage
<1>1. /\ flags \in [Node -> SUBSET Flags] /\ t \in Seq(Byte)
      /\ tx \in [Node -> Seq(Byte)] /\ rx \in [Node -> Seq(Byte)]
      /\ Sending /\ SlaveTakes /\ MasterTakes /\ clocked \in Nat
      /\ "M" \in Node /\ "S" \in Node /\ "M" # "S"
  BY DEF BoardFacts, MasterFacts
<1>2. /\ phase = "data" /\ dir = "read" /\ UNCHANGED dir /\ clocked' = clocked + 1
      /\ rx'["M"] = Append(rx["M"], b)
      /\ rx'["S"] = rx["S"] /\ tx'["M"] = tx["M"]
      /\ tx'["S"] = IF sel THEN Tail(t) ELSE t
      /\ phase' \in {"data", "closing"} /\ (sel' => sel)
      /\ "ADDR7F" \in flags'["S"] <=> "ADDR7F" \in flags["S"]
      /\ sel => "ADDR7F" \notin flags["S"] /\ t # <<>>
  BY <1>1 DEF HwReadByte, HwReadByteAck, SlaveStretches
<1>3. sel => Following
  BY <1>2 DEF Following
<1>4. sel => /\ InOrder(t, clocked)
             /\ pc["S"] = "tdbe" => Size("S") - left["S"] = clocked + Len(t)
  BY <1>1, <1>2, <1>3 DEF Sending
<1>5. sel => /\ Head(t) = <<1, clocked + 1>> /\ InOrder(Tail(t), clocked + 1)
             /\ Len(Tail(t)) = Len(t) - 1 /\ Len(t) \in Nat \ {0}
  <2> HIDE DEF t
  <2> QED
    BY <1>1, <1>2, <1>4, OrderTail
<1>6. Sending'
  <2>1. phase' \in {"addr", "data"} => dir' = plan'[1].op
    BY <1>1, <1>2 DEF Sending
  <2>2. sel' => /\ InOrder(tx'["S"], clocked')
                /\ pc["S"] = "tdbe" => Size("S")' - left'["S"] = clocked' + Len(tx'["S"])
    <3>1. Size("S")' = Size("S")
      BY DEF Size, MyRound
    <3>2. sel' => clocked + Len(t) = clocked' + Len(tx'["S"])
      BY <1>1, <1>2, <1>5
    <3>3. QED
      BY <1>2, <1>4, <1>5, <3>1, <3>2
  <2>3. sel' => "ADDR7F" \notin flags'["S"]
    BY <1>2
  <2>4. QED
    BY <1>2, <2>1, <2>2, <2>3 DEF Sending, InOrder, Following
<1>7. SlaveTakes'
  <2>1. /\ rx["S"] = rx'["S"]
        /\ sel' => sel /\ "ADDR7F" \notin flags["S"]
        /\ pc["S"] # "rdbf"  \/ ~sel
    <3>1. sel => dir = plan[1].op /\ plan[1].op = "read"
      BY <1>1, <1>2 DEF Sending
    <3>2. pc["S"] = "rdbf" => plan[1].op = "write"
      BY <1>1 DEF SlaveTakes, BoardFacts
    <3>3. QED
      BY <1>2, <3>1, <3>2
  <2>2. Reads("S")' = Reads("S")
    BY DEF Reads, MyRound
  <2>3. pc["S"] = "rdbf" => ~Following'
    BY <1>2, <2>1 DEF Following
  <2>4. QED
    BY <1>1, <1>2, <2>1, <2>2, <2>3 DEF SlaveTakes, InOrder
<1>8. MasterTakes'
  <2>1. sel => b = <<1, clocked + 1>>
    BY <1>5
  <2>2. ~sel => b = Garbage
    OBVIOUS
  <2>3. <<1, clocked + 1>> \in Byte /\ Garbage \in Byte
    BY <1>1 DEF Byte, Garbage
  <2> HIDE DEF b
  <2>4. QED
    BY <1>1, <1>2, <2>1, <2>2, <2>3, ClockedInBoard
<1>9. QED
  BY <1>6, <1>7, <1>8

LEMMA OverrunBoard ==
  ASSUME BoardFacts, UNCHANGED <<pc, left, mem, round, plan, env>>, HwOverrunByte
  PROVE  Sending' /\ SlaveTakes' /\ MasterTakes'
<1>1. /\ phase = "closing" /\ clocked' = clocked + 1
      /\ rx'["M"] = Append(rx["M"], Garbage) /\ rx'["S"] = rx["S"]
      /\ UNCHANGED <<ctrl, flags, tx, phase, dir, sel>>
  BY DEF HwOverrunByte, BoardFacts, MasterFacts
<1>2. Sending'
  BY <1>1, SendingKeeps DEF BoardFacts
<1>3. SlaveTakes'
  <2>1. ~Following'
    BY <1>1 DEF Following
  <2>2. QED
    BY <1>1, <2>1, SlaveKeeps DEF BoardFacts
<1>4. MasterTakes'
  <2>1. Garbage \in Byte
    BY DEF Byte, Garbage
  <2>2. QED
    BY <1>1, <2>1, ClockedInBoard
<1>5. QED
  BY <1>2, <1>3, <1>4
(***************************************************************************)
(* The invariant, and what follows for the buffers.                        *)
(***************************************************************************)

LEMMA InitBoard == Init => BoardInv
<1> SUFFICES ASSUME Init, OneRound PROVE Sending /\ SlaveTakes /\ MasterTakes
  BY DEF BoardInv
<1>1. /\ pc["M"] = "idle" /\ pc["S"] = "idle" /\ rx["S"] = <<>> /\ mem["M"] = <<>>
      /\ phase = "free" /\ ~sel
  BY DEF Init, OneRound, Node
<1>2. QED
  BY <1>1 DEF Sending, SlaveTakes, MasterTakes, Following

LEMMA PlanStays ==
  ASSUME TypeOK, [Next]_vars
  PROVE  UNCHANGED <<plan, env>>
<1>1. "M" \in Node \ {"S"} /\ "S" \in Node \ {"M"} /\ "M" \in Node /\ "S" \in Node
  BY DEF Node
<1>2. CASE Main("M") \/ Main("S")
  BY <1>1, <1>2, MainLocal
<1>3. CASE Device \/ Bus \/ Fault \/ UNCHANGED vars
  BY <1>3 DEF Device, Bus, Fault, Quiet, vars, app
<1>4. QED
  BY <1>2, <1>3 DEF Next, Node

LEMMA BoardStep ==
  ASSUME PollInv, BoardInv, [Next]_vars
  PROVE  BoardInv'
<1> SUFFICES ASSUME OneRound' PROVE Sending' /\ SlaveTakes' /\ MasterTakes'
  BY DEF BoardInv
<1>1. TypeOK /\ "M" \in Node /\ "S" \in Node
  BY DEF PollInv, ScriptInv, Node
<1>2. UNCHANGED <<plan, env>>
  BY <1>1, PlanStays
<1>3. OneRound
  BY <1>2 DEF OneRound, Memory
<1>4. BoardFacts
  BY <1>3, BoardStart
<1>5. CASE Main("M")
  BY <1>1, <1>4, <1>5, CommonMasterBoard, MasterBoard DEF Main
<1>6. CASE Main("S")
  BY <1>1, <1>4, <1>6, CommonSlaveBoard, SlaveBoard DEF Main
<1>7. CASE Bus \/ Fault
  <2>1. UNCHANGED <<pc, left, mem, round, plan, env>>
    BY <1>4, <1>7, BusQuietly
  <2>2. TRUE \in BOOLEAN /\ FALSE \in BOOLEAN
    OBVIOUS
  <2>3. CASE HwStart \/ HwRestart \/ HwStop \/ HwAddrNack \/ HwSlaveRelease
    BY <1>4, <2>1, <2>3, ControlBoard
  <2>4. CASE HwAddrAck
    BY <1>4, <2>1, <2>4, AddrAckBoard
  <2>5. CASE HwReadByte
    BY <1>4, <2>1, <2>5, ReadByteBoard
  <2>6. CASE HwOverrunByte
    BY <1>4, <2>1, <2>6, OverrunBoard
  <2>7. CASE HwWriteByte(TRUE)
    BY <1>4, <2>1, <2>2, <2>7, WriteByteBoard
  <2>8. CASE HwWriteByte(FALSE)
    BY <1>4, <2>1, <2>2, <2>8, WriteByteBoard
  <2>9. QED
    BY <1>7, <2>3, <2>4, <2>5, <2>6, <2>7, <2>8 DEF Bus, Fault
<1>8. CASE Device
  BY <1>3, <1>8 DEF Device, OneRound
<1>9. CASE UNCHANGED vars
  <2>1. UNCHANGED <<pc, left, mem, round, flags, tx, rx, phase, dir, sel, clocked>>
    BY <1>9 DEF vars, hwVars, local, app
  <2>2. Following' => Following
    BY <2>1 DEF Following
  <2>3. QED
    BY <1>2, <1>4, <2>1, <2>2, SendingKeeps, SlaveKeeps, MasterKeeps DEF BoardFacts
<1>10. QED
  BY <1>5, <1>6, <1>7, <1>8, <1>9 DEF Next, Node

(* What UpTo says of a buffer, as NoMixedBuffer puts it.                   *)
LEMMA UpToSplit ==
  ASSUME NEW s \in Seq(Byte), NEW m \in Nat, UpTo(m, s, 0)
  PROVE  \E j \in 0 .. Len(s) : s = Sent(1, j) \o [i \in 1 .. Len(s) - j |-> Garbage]
<1> DEFINE n == Len(s)
           j == IF m <= n THEN m ELSE n
           a == Sent(1, j)
           z == [i \in 1 .. n - j |-> Garbage]
<1>1. n \in Nat
  OBVIOUS
<1>2. j \in 0 .. n /\ j \in Nat /\ n - j \in Nat /\ j + (n - j) = n
  <2> HIDE DEF n
  <2> QED
    BY <1>1
<1>3. \A i \in 1 .. n : s[i] = IF i <= m THEN <<1, i>> ELSE Garbage
  <2>1. \A i \in 1 .. n : 0 + i = i
    OBVIOUS
  <2>2. QED
    BY <2>1 DEF UpTo
<1>4. \A i \in 1 .. n : (i <= m) = (i <= j)
  <2> HIDE DEF n
  <2> QED
    BY <1>1
<1> HIDE DEF j
<1>5. a \in Seq(Byte) /\ Len(a) = j /\ \A i \in 1 .. j : a[i] = <<1, i>>
  <2>1. \A i \in 1 .. j : <<1, i>> \in Byte
    BY DEF Byte
  <2>2. a = [i \in 1 .. j |-> <<1, i>>]
    BY DEF Sent
  <2>3. a \in [1 .. j -> Byte]
    BY <2>1, <2>2
  <2>4. QED
    BY <1>2, <2>2, <2>3
<1>6. z \in Seq(Byte) /\ Len(z) = n - j /\ \A i \in 1 .. n - j : z[i] = Garbage
  <2> DEFINE c == n - j
  <2>1. Garbage \in Byte
    BY DEF Byte, Garbage
  <2>2. c \in Nat
    BY <1>2
  <2>3. z = [i \in 1 .. c |-> Garbage]
    OBVIOUS
  <2> HIDE DEF c, z
  <2>4. z \in [1 .. c -> Byte]
    BY <2>1, <2>3
  <2>5. z \in Seq(Byte) /\ Len(z) = c /\ \A i \in 1 .. c : z[i] = Garbage
    BY <2>2, <2>3, <2>4
  <2>6. QED
    BY <2>5 DEF c
<1> HIDE DEF a, z
<1>7. /\ a \o z \in Seq(Byte) /\ Len(a \o z) = n
      /\ \A i \in 1 .. n : (a \o z)[i] = IF i <= j THEN a[i] ELSE z[i - j]
  <2>1. /\ a \o z \in Seq(Byte) /\ Len(a \o z) = Len(a) + Len(z)
        /\ \A i \in 1 .. Len(a) + Len(z) : (a \o z)[i] = IF i <= Len(a) THEN a[i] ELSE z[i - Len(a)]
    BY <1>5, <1>6, ConcatProperties
  <2>2. Len(a) = j /\ Len(a) + Len(z) = n
    BY <1>2, <1>5, <1>6
  <2>3. QED
    BY <2>1, <2>2
<1>8. \A i \in 1 .. n : (a \o z)[i] = s[i]
  <2> TAKE i \in 1 .. n
  <2>1. CASE i <= j
    <3>1. i \in 1 .. j
      BY <1>2, <2>1
    <3>2. QED
      BY <1>3, <1>4, <1>5, <1>7, <2>1, <3>1
  <2>2. CASE ~(i <= j)
    <3>1. i - j \in 1 .. n - j
      BY <1>1, <1>2, <2>2
    <3>2. QED
      BY <1>3, <1>4, <1>6, <1>7, <2>2, <3>1
  <2>3. QED
    BY <2>1, <2>2
<1>9. s = a \o z
  <2> HIDE DEF n
  <2>1. Len(s) = n
    BY DEF n
  <2>2. QED
    BY <1>7, <1>8, <2>1, SeqEqual
<1>10. QED
  BY <1>2, <1>9 DEF a, z

LEMMA BoardBuffers ==
  ASSUME PollInv, BoardInv
  PROVE  NoMixedBuffer
<1> SUFFICES ASSUME NEW n \in Node, OneRound, pc[n] \notin {"idle", "done"}, Reads(n)
             PROVE  \E m \in 0 .. Len(mem[n]) :
                      mem[n] = Sent(1, m) \o [i \in 1 .. Len(mem[n]) - m |-> Garbage]
  BY DEF NoMixedBuffer, OneRound
<1>1. mem[n] \in Seq(Byte) /\ SlaveTakes /\ MasterTakes
  BY DEF PollInv, ScriptInv, TypeOK, SwTypeOK, BoardInv
<1>2. \E m \in Nat : UpTo(m, mem[n], 0)
  <2>1. CASE n = "M"
    <3>1. PICK m \in 0 .. Len(mem["M"]) + Len(rx["M"]) : MasterHas(m)
      BY <1>1, <2>1 DEF MasterTakes
    <3>2. m \in Nat
      OBVIOUS
    <3>3. QED
      BY <2>1, <3>1, <3>2 DEF MasterHas
  <2>2. CASE n = "S"
    <3>1. InOrder(mem[n], 0) /\ Len(mem[n]) \in Nat
      BY <1>1, <2>2 DEF SlaveTakes
    <3>2. UpTo(Len(mem[n]), mem[n], 0)
      <4>1. \A i \in 1 .. Len(mem[n]) : 0 + i <= Len(mem[n])
        BY <3>1
      <4>2. QED
        BY <3>1, <4>1 DEF InOrder, UpTo
    <3>3. QED
      BY <3>1, <3>2
  <2>3. QED
    BY <2>1, <2>2 DEF Node
<1>3. QED
  BY <1>1, <1>2, UpToSplit

(* Between two boards, over a line that loses acknowledges, with calls     *)
(* that give up half way, are reset and tried again at any point of the    *)
(* other one's call, i2c_master_receive and i2c_slave_receive never store  *)
(* a byte twice, out of order, or from another call's frame: a buffer is a *)
(* beginning of what the other board sends, and then bytes of a line that  *)
(* nobody drives.  Nor does a memory device hold a byte where none was     *)
(* meant to go.                                                            *)
THEOREM NothingIsMisplaced == Spec /\ ScriptFits /\ Recovers => []NothingMisplaced
<1>1. Init => BoardInv
  BY InitBoard
<1>2. PollInv /\ BoardInv /\ [Next]_vars => BoardInv'
  BY BoardStep
<1>3. PollInv /\ BoardInv => NothingMisplaced
  BY BoardBuffers DEF NothingMisplaced, PollInv, DeviceInv
<1>4. QED
  BY <1>1, <1>2, <1>3, PollingInvariant, PTL DEF Spec
(***************************************************************************)
(* What a sound line delivers: buffers that hold the bytes of a source.    *)
(***************************************************************************)

LEMMA HoldsEmpty == ASSUME NEW k, NEW at PROVE Holds(<<>>, k, at)
BY DEF Holds

LEMMA HoldsAppend ==
  ASSUME NEW s \in Seq(Byte), NEW k, NEW at \in Nat, NEW b,
         Holds(s, k, at), b = Source(k)[at + Len(s) + 1]
  PROVE  Holds(Append(s, b), k, at)
<1> DEFINE n == Len(s)
           t == Append(s, b)
           f == Source(k)
<1>1. n \in Nat /\ Len(t) = n + 1 /\ t[n + 1] = b /\ \A i \in 1 .. n : t[i] = s[i]
  OBVIOUS
<1>2. \A i \in 1 .. n : s[i] = f[at + i]
  BY DEF Holds
<1> HIDE DEF f
<1>3. b = f[at + (n + 1)]
  <2>1. at + Len(s) + 1 = at + (n + 1)
    BY <1>1
  <2>2. QED
    BY <2>1 DEF f
<1> HIDE DEF n, t
<1>4. \A i \in 1 .. n + 1 : i \in 1 .. n \/ i = n + 1
  BY <1>1
<1>5. \A i \in 1 .. Len(t) : t[i] = f[at + i]
  BY <1>1, <1>2, <1>3, <1>4
<1>6. Holds(t, k, at)
  BY <1>5 DEF Holds, f
<1> QED
  BY <1>6 DEF t

LEMMA HoldsTail ==
  ASSUME NEW s \in Seq(Byte), NEW k, NEW at \in Nat, Holds(s, k, at), s # <<>>
  PROVE  /\ Head(s) = Source(k)[at + 1] /\ Holds(Tail(s), k, at + 1)
         /\ Len(Tail(s)) = Len(s) - 1 /\ Len(s) \in Nat \ {0}
<1> DEFINE n == Len(s)
           t == Tail(s)
           f == Source(k)
<1>1. /\ n \in Nat \ {0} /\ Len(t) = n - 1 /\ Head(s) = s[1]
      /\ \A i \in 1 .. n - 1 : t[i] = s[i + 1]
  OBVIOUS
<1>2. \A i \in 1 .. n : s[i] = f[at + i]
  BY DEF Holds
<1> HIDE DEF n, t, f
<1>3. 1 \in 1 .. n /\ \A i \in 1 .. n - 1 : i + 1 \in 1 .. n /\ at + (i + 1) = (at + 1) + i
  BY <1>1
<1>4. \A i \in 1 .. Len(t) : t[i] = f[(at + 1) + i]
  BY <1>1, <1>2, <1>3
<1>5. Head(s) = f[at + 1]
  BY <1>1, <1>2, <1>3
<1>6. Holds(t, k, at + 1)
  BY <1>4 DEF Holds, f
<1> QED
  BY <1>1, <1>5, <1>6 DEF t, n, f

LEMMA HoldsTaken ==
  ASSUME NEW n \in Node, NEW j \in Nat, j <= Len(rx[n]), TakenBytes(n, j), NEW k,
         Holds(mem[n], k, 0), Holds(rx[n], k, Len(mem[n]))
  PROVE  /\ Holds(mem'[n], k, 0) /\ Holds(rx'[n], k, Len(mem'[n]))
         /\ Len(mem'[n]) + Len(rx'[n]) = Len(mem[n]) + Len(rx[n])
<1> DEFINE a == Len(mem[n])
           b == Len(rx[n])
           f == Source(k)
<1>1. a \in Nat /\ b \in Nat /\ j <= b
  BY DEF TakenBytes
<1> HIDE DEF f
<1>2. /\ \A i \in 1 .. a : mem'[n][i] = f[i]
      /\ \A i \in 1 .. j : mem'[n][a + i] = f[a + i]
      /\ \A i \in 1 .. b - j : rx'[n][i] = f[(a + j) + i]
  <2>1. /\ \A i \in 1 .. j : i \in 1 .. b
        /\ \A i \in 1 .. b - j : j + i \in 1 .. b /\ a + (j + i) = (a + j) + i
        /\ \A i \in 1 .. a : 0 + i = i
    <3> HIDE DEF a, b
    <3> QED
      BY <1>1
  <2>2. \A i \in 1 .. a : mem[n][i] = f[0 + i]
    BY DEF Holds, f
  <2>3. \A i \in 1 .. b : rx[n][i] = f[a + i]
    BY DEF Holds, f
  <2>4. /\ \A i \in 1 .. a : mem'[n][i] = mem[n][i]
        /\ \A i \in 1 .. j : mem'[n][a + i] = rx[n][i]
        /\ \A i \in 1 .. b - j : rx'[n][i] = rx[n][j + i]
    BY DEF TakenBytes
  <2> HIDE DEF a, b
  <2>5. \A i \in 1 .. a : mem'[n][i] = f[i]
    BY <2>1, <2>2, <2>4
  <2>6. \A i \in 1 .. j : mem'[n][a + i] = f[a + i]
    BY <2>1, <2>3, <2>4
  <2>7. \A i \in 1 .. b - j : rx'[n][i] = f[(a + j) + i]
    BY <2>1, <2>3, <2>4
  <2>8. QED
    BY <2>5, <2>6, <2>7
<1>3. \A i \in 1 .. a + j : i \in 1 .. a \/ (i - a \in 1 .. j /\ a + (i - a) = i)
  BY <1>1
<1>4. Len(mem'[n]) = a + j /\ Len(rx'[n]) = b - j
  BY DEF TakenBytes
<1> HIDE DEF a, b
<1>5. \A i \in 1 .. a + j : mem'[n][i] = f[0 + i]
  <2> TAKE i \in 1 .. a + j
  <2>1. 0 + i = i
    BY <1>1
  <2>2. QED
    BY <1>2, <1>3, <2>1
<1>6. Len(mem'[n]) + Len(rx'[n]) = a + b
  BY <1>1, <1>4
<1>7. Holds(mem'[n], k, 0) /\ Holds(rx'[n], k, Len(mem'[n]))
  BY <1>2, <1>4, <1>5 DEF Holds, f
<1>8. QED
  BY <1>6, <1>7 DEF a, b

(* The source stays what it is while the registers do.                     *)
LEMMA SameSource ==
  ASSUME UNCHANGED plan, Memory => UNCHANGED store
  PROVE  \A k : Source(k)' = Source(k)
<1>1. Memory' = Memory
  BY DEF Memory
<1>2. CASE Memory
  BY <1>1, <1>2 DEF Source, Place
<1>3. CASE ~Memory
  BY <1>1, <1>3 DEF Source
<1>4. QED
  BY <1>2, <1>3

(* What the steps over a sound line start from.                            *)
ThreadFacts ==
  \A n \in Node : /\ checking[n] => pc[n] \in Waits
                  /\ pc[n] \in PolledPc(n) \cup DmaPc
                  /\ pc[n] # "done" => round[n] \in 1 .. Len(plan)

SoundFacts ==
  /\ Sound /\ SizesAgree /\ MasterStores /\ Wire
  /\ TypeOK /\ MasterFacts /\ SlaveCount /\ InTimeSoFar /\ Steady
  /\ "M" \in Node /\ "S" \in Node /\ "M" # "S"
  /\ mem \in [Node -> Seq(Byte)] /\ sel \in BOOLEAN /\ dir \in {"write", "read"}
  /\ phase \in {"free", "start", "addr", "data", "closing"}
  /\ Len(plan) \in Nat \ {0} /\ faults \in Nat
  /\ ThreadFacts

LEMMA SoundStart ==
  ASSUME PollInv, Sound, SizesAgree, MasterStores, Wire
  PROVE  SoundFacts
<1>1. /\ TypeOK /\ ThreadInv /\ CountInv /\ "M" \in Node /\ "S" \in Node /\ "M" # "S"
  BY DEF PollInv, ScriptInv, Node
<1>2. MasterFacts
  BY MasterStart DEF PollInv
<1>3. InTimeSoFar /\ Steady
  BY DEF InTimeSoFar, Steady, Sound
<1>4. Len(plan) \in Nat \ {0}
  BY <1>1, ScriptFacts DEF TypeOK, SwTypeOK
<1>5. ThreadFacts
  BY <1>1, PcFacts DEF ThreadInv, ThreadOf, ThreadFacts
<1>6. /\ mem \in [Node -> Seq(Byte)] /\ sel \in BOOLEAN /\ dir \in {"write", "read"}
      /\ phase \in {"free", "start", "addr", "data", "closing"} /\ faults \in Nat
  BY <1>1 DEF TypeOK, HwTypeOK, SwTypeOK
<1>7. SlaveCount
  BY <1>1 DEF CountInv
<1>8. QED
  BY <1>1, <1>2, <1>3, <1>4, <1>5, <1>6, <1>7 DEF SoundFacts

(* What keeps what the master has stored.                                  *)
LEMMA StoresKeep ==
  ASSUME MasterStores, UNCHANGED plan, Memory => UNCHANGED store,
         UNCHANGED <<mem["M"], rx["M"], round["M"], clocked>>,
         pc'["M"] \in {"free", "startf", "addr7", "tdbe_reg", "tdbe_restart", "restartf", "readdr7"}
           => pc["M"] \in {"free", "startf", "addr7", "tdbe_reg", "tdbe_restart", "restartf", "readdr7"},
         pc'["M"] \in Reading => pc["M"] \in Reading,
         Ended("M", "OK")' /\ Reads("M")' => Ended("M", "OK")
  PROVE  MasterStores'
<1>1. \A k : Source(k)' = Source(k)
  BY SameSource
<1>2. Stored("M") => Stored("M")'
  BY <1>1 DEF Stored, Holds
<1>3. StoredAll("M") => StoredAll("M")'
  BY <1>1 DEF StoredAll, Holds, Size, MyRound
<1>4. Reads("M")' = Reads("M")
  BY DEF Reads, MyRound
<1>5. QED
  BY <1>2, <1>3, <1>4 DEF MasterStores, Reading

(* The application's steps and the waits.                                  *)
LEMMA CommonStores ==
  ASSUME SoundFacts,
         StartCall("M") \/ NextRound("M") \/ TryAgain("M") \/ GiveUp("M") \/ Wait("M")
  PROVE  MasterStores'
<1> USE DEF Goto, Return, Stay
<1>1. UNCHANGED <<plan, store>> /\ MasterStores /\ "M" \in Node /\ "S" \in Node \ {"M"}
      /\ pc \in [Node -> MainPc] /\ ret \in [Node -> {"OK", "ERR"}] /\ mem \in [Node -> Seq(Byte)]
  BY CommonLocal DEF SoundFacts, device, MasterFacts
<1>2. CASE StartCall("M")
  <2>1. pc'["M"] = "free" /\ mem'["M"] = <<>>
    BY <1>1, <1>2 DEF StartCall, FirstWait
  <2>2. QED
    BY <2>1 DEF MasterStores, Reading, Ended
<1>3. CASE NextRound("M") \/ TryAgain("M") \/ GiveUp("M")
  <2>1. pc'["M"] \in {"idle", "done", "gave_up"}
    BY <1>1, <1>3 DEF NextRound, TryAgain, GiveUp
  <2>2. QED
    BY <2>1 DEF MasterStores, Reading, Ended
<1>4. CASE WaitAckFail("M") \/ WaitStop("M") \/ CleanUp("M")
  <2>1. pc'["M"] = "fail" \/ (pc'["M"] = "returned" /\ ret'["M"] = "ERR")
    BY <1>1, <1>4 DEF WaitAckFail, WaitStop, CleanUp
  <2>2. QED
    BY <2>1 DEF MasterStores, Reading, Ended
<1>5. CASE LookAgain("M") \/ NoEvent("M")
  <2>1. UNCHANGED <<pc, mem, rx, round, clocked, ret>>
    BY <1>5 DEF LookAgain, NoEvent, local, app, hwVars
  <2>2. QED
    BY <1>1, <2>1, StoresKeep DEF Ended
<1>6. CASE WaitTimeout("M")
  BY <1>6 DEF WaitTimeout, SoundFacts, Sound
<1>7. QED
  BY <1>2, <1>3, <1>4, <1>5, <1>6 DEF Wait

(* START, address, and the data of a write.                                *)
LEMMA MasterWritesStores ==
  ASSUME SoundFacts, Master,
         \/ GenerateStart \/ SendAddress \/ ClearAddrToWrite \/ SendRegister \/ GenerateRestart
         \/ SendData("M", "tdc") \/ StopWrite \/ Ev6Stop \/ Ev6Ack
  PROVE  MasterStores'
<1> USE DEF Goto, Return, Stay, Came
<1>1. /\ UNCHANGED <<plan, store, round, clocked>> /\ MasterStores /\ "M" \in Node
      /\ pc \in [Node -> MainPc]
  BY MasterLocal DEF SoundFacts, device, MasterFacts
<1>2. UNCHANGED <<mem, rx>>
  BY DEF GenerateStart, SendAddress, ClearAddrToWrite, SendRegister, GenerateRestart, SendData,
         StopWrite, Ev6Stop, Ev6Ack, local
<1>3. /\ pc'["M"] \in {"free", "startf", "addr7", "tdbe_reg", "tdbe_restart", "restartf", "readdr7"}
           => pc["M"] \in {"free", "startf", "addr7", "tdbe_reg", "tdbe_restart", "restartf", "readdr7"}
      /\ pc'["M"] \in Reading => pc["M"] \in Reading
      /\ Ended("M", "OK")' => pc["M"] = "tdc"
  <2>1. CASE GenerateStart \/ SendAddress \/ ClearAddrToWrite \/ SendRegister \/ GenerateRestart
    BY <1>1, <2>1 DEF GenerateStart, SendAddress, ClearAddrToWrite, SendRegister, GenerateRestart,
                      Reading, Ended
  <2>2. CASE SendData("M", "tdc") \/ StopWrite \/ Ev6Stop \/ Ev6Ack
    BY <1>1, <2>2 DEF SendData, StopWrite, Ev6Stop, Ev6Ack, Reading, Ended
  <2>3. QED
    BY <2>1, <2>2
<1>4. pc["M"] = "tdc" => ~Reads("M")
  BY DEF SoundFacts, MasterFacts, MasterCount
<1>5. Reads("M")' = Reads("M")
  BY <1>1 DEF Reads, MyRound
<1>6. QED
  BY <1>1, <1>2, <1>3, <1>4, <1>5, StoresKeep

(* ADDR7F is cleared for a read: nothing is stored, nothing clocked yet.   *)
LEMMA MasterListensStores ==
  ASSUME SoundFacts, Master, ClearAddrToRead
  PROVE  MasterStores'
<1>1. /\ UNCHANGED <<plan, store, round, clocked, mem, rx>> /\ MasterStores /\ "M" \in Node
      /\ pc["M"] \in {"addr7", "readdr7"} /\ pc'["M"] \in Reading /\ "ADDR7F" \in flags["M"]
  <2>1. UNCHANGED <<plan, store, round, clocked>>
    BY MasterLocal DEF SoundFacts, device
  <2>2. /\ pc["M"] \in {"addr7", "readdr7"} /\ "ADDR7F" \in flags["M"] /\ UNCHANGED <<mem, rx>>
    BY DEF ClearAddrToRead, Came, FlagCame, local
  <2>3. pc'["M"] \in Reading
    BY SMTT(30) DEF ClearAddrToRead, Goto, ReadWait, Reading, SoundFacts, MasterFacts
  <2>4. QED
    BY <2>1, <2>2, <2>3 DEF SoundFacts
<1>2. phase = "data" /\ AddressInv
  BY <1>1 DEF SoundFacts, MasterFacts, FlagInv, MasterInv
<1>3. Leftover /\ Bytes0
  BY <1>1, <1>2 DEF AddressInv
<1>4. mem'["M"] = <<>> /\ rx'["M"] = <<>> /\ clocked' = 0
  BY <1>1, <1>3 DEF MasterStores, Leftover, Bytes0, SoundFacts
<1>5. Stored("M")' /\ Len(mem'["M"]) + Len(rx'["M"]) = clocked'
  BY <1>4 DEF Stored, Holds
<1>6. QED
  BY <1>1, <1>5 DEF MasterStores, Reading, Ended

(* Bytes go from the data register to the buffer: those that have been     *)
(* clocked, and at the end of the call all of them.                        *)
LEMMA MasterReadsStores ==
  ASSUME SoundFacts, Master, ReadByte \/ ReadThirdLast \/ ReadLastTwo
  PROVE  MasterStores'
<1> DEFINE a == Len(mem["M"])
           b == Len(rx["M"])
<1>1. /\ UNCHANGED <<plan, store, round, clocked>> /\ MasterStores /\ "M" \in Node
      /\ pc["M"] \in {"rdbf", "rtdc"} /\ pc'["M"] \in {"returned", "rdbf", "rtdc"}
  <2>1. UNCHANGED <<plan, store, round, clocked>>
    BY MasterLocal DEF SoundFacts, device
  <2>2. QED
    BY <2>1 DEF ReadByte, ReadThirdLast, ReadLastTwo, Came, Goto, Return, ReadWait, SoundFacts,
                MasterFacts
<1>2. Read /\ Reads("M") /\ rx["M"] \in Seq(Byte) /\ mem["M"] \in Seq(Byte)
      /\ mem \in [Node -> Seq(Byte)] /\ rx \in [Node -> Seq(Byte)]
  BY <1>1 DEF SoundFacts, MasterFacts, MasterInv, MasterCount
<1>3. /\ a \in Nat /\ b \in Nat /\ clocked \in Nat /\ left["M"] \in Nat /\ Size("M") \in Nat
      /\ Stored("M") /\ a + b = clocked
  BY <1>1, <1>2 DEF SoundFacts, MasterFacts, MasterStores, Reading
<1>4. pc["M"] = "rtdc" /\ TDC("M") => b = 2
  BY <1>2 DEF Read, Transmitting, TDC
<1>5. \E k \in {1, 2} : /\ k <= b /\ ReadData("M", k)
                        /\ pc'["M"] = "returned" => b = k /\ clocked = Size("M")
  <2>1. CASE ReadByte
    <3>1. rx["M"] # <<>> /\ ReadData("M", 1) /\ pc["M"] = "rdbf"
      BY <2>1 DEF ReadByte, Came, FlagCame, RDBF
    <3>2. 1 <= b
      BY <1>2, <3>1
    <3>3. pc'["M"] = "returned" => left["M"] = 1
      BY <1>1, <2>1 DEF ReadByte, Return, Goto, ReadWait, SoundFacts, MasterFacts
    <3>4. left["M"] = 1 => OnlyByte /\ Size("M") = 1
      BY <1>2, <3>1 DEF Read, SoundFacts, MasterFacts, MasterCount
    <3>5. OnlyByte => b = 1 /\ clocked = 1
      BY <3>1 DEF OnlyByte
    <3>6. QED
      BY <3>1, <3>2, <3>3, <3>4, <3>5
  <2>2. CASE ReadThirdLast
    <3>1. ReadData("M", 1) /\ pc["M"] = "rtdc" /\ TDC("M") /\ pc'["M"] = pc["M"]
      BY <2>2 DEF ReadThirdLast, Came, FlagCame
    <3>2. QED
      BY <1>4, <3>1
  <2>3. CASE ReadLastTwo
    <3>1. ReadData("M", 2) /\ pc["M"] = "rtdc" /\ TDC("M") /\ left["M"] = 2
      BY <2>3 DEF ReadLastTwo, Came, FlagCame
    <3>2. clocked = Size("M") - 2 + b
      BY <1>2, <3>1 DEF Read, LastTwo, SoundFacts
    <3>3. Size("M") >= 2
      BY <3>1 DEF SoundFacts, MasterFacts, MasterCount
    <3>4. b = 2
      BY <1>4, <3>1
    <3>5. clocked = Size("M")
      BY <1>3, <3>2, <3>3, <3>4
    <3>6. 2 \in {1, 2} /\ 2 <= b
      BY <3>4
    <3>7. QED
      BY <3>1, <3>4, <3>5, <3>6
  <2>4. QED
    BY <2>1, <2>2, <2>3
<1>6. PICK k \in {1, 2} : /\ k <= b /\ ReadData("M", k)
                          /\ pc'["M"] = "returned" => b = k /\ clocked = Size("M")
  BY <1>5
<1>7. TakenBytes("M", k)
  BY <1>1, <1>2, <1>6, Taken
<1>8. /\ Holds(mem'["M"], round["M"], 0) /\ Holds(rx'["M"], round["M"], Len(mem'["M"]))
      /\ Len(mem'["M"]) + Len(rx'["M"]) = clocked
      /\ Len(mem'["M"]) = a + k
  <2>1. Holds(mem["M"], round["M"], 0) /\ Holds(rx["M"], round["M"], a)
    BY <1>3 DEF Stored
  <2>2. k \in Nat
    BY <1>6
  <2>3. QED
    BY <1>1, <1>3, <1>6, <1>7, <2>1, <2>2, HoldsTaken DEF TakenBytes
<1>9. \A j : Source(j)' = Source(j)
  BY <1>1, SameSource
<1>10. Stored("M")' /\ Len(mem'["M"]) + Len(rx'["M"]) = clocked'
  BY <1>1, <1>8, <1>9 DEF Stored, Holds
<1>11. pc'["M"] = "returned" => StoredAll("M")'
  <2>1. pc'["M"] = "returned" => Len(mem'["M"]) = Size("M")
    BY <1>3, <1>6, <1>8
  <2>2. QED
    BY <1>1, <1>10, <2>1 DEF Stored, StoredAll, Size, MyRound
<1>12. QED
  BY <1>1, <1>10, <1>11 DEF MasterStores, Reading, Ended

LEMMA MainStores ==
  ASSUME SoundFacts, Main("M")
  PROVE  MasterStores'
BY CommonStores, MasterWritesStores, MasterListensStores, MasterReadsStores DEF Main, Master, SoundFacts

(* The last bytes of a read close the frame before the call returns.       *)
LEMMA ReadEnds ==
  ASSUME SoundFacts, ReadByte \/ ReadThirdLast \/ ReadLastTwo
  PROVE  /\ pc["M"] \in Reading
         /\ \/ pc'["M"] \in Reading
            \/ pc'["M"] = "returned" /\ ret'["M"] = "OK" /\ phase # "data"
<1> USE DEF Goto, Return, Came
<1>1. /\ MasterInv /\ InTimeSoFar /\ "M" \in Node
      /\ pc \in [Node -> MainPc] /\ ret \in [Node -> {"OK", "ERR"}]
  BY DEF SoundFacts, MasterFacts
<1>2. pc["M"] \in {"rdbf", "rtdc"} /\ Read
  BY <1>1 DEF ReadByte, ReadThirdLast, ReadLastTwo, MasterInv
<1>3. \/ pc'["M"] \in Reading
      \/ pc["M"] = "rdbf" /\ left["M"] = 1 /\ rx["M"] # <<>> /\ pc'["M"] = "returned" /\ ret'["M"] = "OK"
      \/ pc["M"] = "rtdc" /\ left["M"] = 2 /\ TDC("M") /\ pc'["M"] = "returned" /\ ret'["M"] = "OK"
  <2>1. CASE ReadByte
    BY <1>1, <2>1 DEF ReadByte, ReadWait, Reading, FlagCame, RDBF
  <2>2. CASE ReadThirdLast
    BY <1>1, <2>2 DEF ReadThirdLast, Reading
  <2>3. CASE ReadLastTwo
    BY <1>1, <2>3 DEF ReadLastTwo, FlagCame
  <2>4. QED
    BY <2>1, <2>2, <2>3
<1>4. ASSUME pc["M"] = "rdbf", left["M"] = 1, rx["M"] # <<>> PROVE phase # "data"
  BY <1>1, <1>2, <1>4 DEF Read, OnlyByte
<1>5. ASSUME pc["M"] = "rtdc", left["M"] = 2, TDC("M") PROVE phase # "data"
  <2>1. Len(rx["M"]) = 2
    BY <1>2, <1>5 DEF TDC, Transmitting, Read
  <2>2. ~(Len(rx["M"]) <= 1)
    BY <2>1
  <2>3. QED
    BY <1>1, <1>2, <1>5, <2>2 DEF Read, LastTwo
<1>6. QED
  BY <1>2, <1>3, <1>4, <1>5 DEF Reading

(* The bus clocks no byte after the last one of a read.                    *)
LEMMA NoOverrun ==
  ASSUME SoundFacts
  PROVE  ~HwOverrunByte
<1> SUFFICES ASSUME phase = "closing", dir = "read", "GENSTOP" \notin ctrl["M"], clocked > 0,
                    Len(rx["M"]) < 2
             PROVE  FALSE
  BY DEF HwOverrunByte
<1>1. MasterInv /\ Wire /\ Steady /\ InTimeSoFar /\ left["M"] \in Nat /\ clocked \in Nat
      /\ MasterCount /\ pc["M"] \in PolledPc("M") /\ ret \in [Node -> {"OK", "ERR"}] /\ "M" \in Node
  BY DEF SoundFacts, MasterFacts, ThreadFacts, Wire
<1>2. pc["M"] \notin {"idle", "free", "returned", "fail", "gave_up"}
  <2>1. ~Between
    BY DEF Between
  <2>2. ~AfterFailure
    BY <1>1, <2>1 DEF AfterFailure
  <2>3. ret["M"] \in {"OK", "ERR"}
    BY <1>1
  <2>4. QED
    BY <1>1, <2>1, <2>2, <2>3 DEF MasterInv, Wire
<1>3. pc["M"] \notin {"startf", "restartf", "addr7", "readdr7", "tdbe_reg"}
  <2>1. ~Bytes0
    BY <1>1 DEF Bytes0
  <2>2. QED
    BY <1>1, <2>1 DEF MasterInv, AddressInv
<1>4. pc["M"] \notin {"tdbe_restart", "tdbe", "tdc"}
  BY <1>1 DEF MasterInv, AddressInv, Written
<1>5. pc["M"] \notin Reading
  <2> SUFFICES ASSUME pc["M"] \in Reading PROVE FALSE
    OBVIOUS
  <2>1. Read
    BY <1>1 DEF MasterInv, Reading
  <2>2. ~(pc["M"] = "rdbf" /\ left["M"] = 1)
    BY <2>1 DEF Read
  <2>3. ~BeforeByte /\ ~AckedSoFar
    BY DEF BeforeByte, AckedSoFar
  <2>4. ~LastTwo
    <3>1. Len(rx["M"]) # 2
      <4> DEFINE l == Len(rx["M"])
      <4>1. rx["M"] \in Seq(Byte)
        BY DEF SoundFacts, MasterFacts
      <4>2. l \in Nat /\ l < 2
        BY <4>1
      <4> HIDE DEF l
      <4>3. l # 2
        BY <4>2
      <4>4. QED
        BY <4>3 DEF l
    <3>2. QED
      BY <3>1 DEF LastTwo
  <2>5. pc["M"] \in {"rdbf", "rtdc"} /\ ~(left["M"] > 2)
    BY <1>1, <2>1, <2>3 DEF Read, Reading
  <2>6. pc["M"] = "rtdc" /\ left["M"] = 2
    BY <1>1, <2>2, <2>5 DEF MasterCount
  <2>7. QED
    BY <1>1, <2>1, <2>4, <2>6 DEF Read
<1>6. pc["M"] # "done"
  BY <1>1 DEF Wire
<1>7. QED
  BY <1>1, <1>2, <1>3, <1>4, <1>5, <1>6 DEF PolledPc, Waits, Reading

(* A byte of a read comes from the slave, to a master that waits for it;   *)
(* the one that the master refuses is the last.                            *)
LEMMA ReadByteSound ==
  ASSUME SoundFacts, PollInv', UNCHANGED <<pc, left, round, plan, env>>, HwReadByte
  PROVE  /\ pc["M"] \in Reading /\ phase = "data" /\ dir = "read" /\ UNCHANGED <<dir, ctrl>>
         /\ sel /\ "ADDR7F" \notin flags["S"] /\ tx["S"] # <<>>
         /\ rx'["M"] = Append(rx["M"], Head(tx["S"])) /\ rx'["S"] = rx["S"]
         /\ tx'["S"] = Tail(tx["S"]) /\ tx'["M"] = tx["M"] /\ clocked' = clocked + 1
         /\ phase' \in {"data", "closing"} /\ (sel' <=> phase' = "data")
         /\ flags'["M"] = flags["M"] /\ "ADDR7F" \notin flags'["S"]
         /\ phase' = "data" => flags' = flags
         /\ phase' = "closing" => clocked' = Size("M")
<1>1. MasterInv /\ Wire /\ Steady /\ InTimeSoFar /\ left["M"] \in Nat /\ clocked \in Nat
      /\ MasterCount /\ rx \in [Node -> Seq(Byte)] /\ tx \in [Node -> Seq(Byte)]
      /\ flags \in [Node -> SUBSET Flags] /\ "M" \in Node /\ "S" \in Node /\ "M" # "S"
  BY DEF SoundFacts, MasterFacts
<1>2. /\ phase = "data" /\ dir = "read" /\ UNCHANGED <<dir, ctrl>> /\ "ADDR7F" \notin flags["M"]
      /\ ~SlaveStretches /\ clocked' = clocked + 1
  BY DEF HwReadByte, HwReadByteAck
<1>3. sel /\ "ADDR7F" \notin flags["S"] /\ tx["S"] # <<>>
  BY <1>1, <1>2 DEF Wire, SlaveStretches
<1>4. pc["M"] \in Reading
  <2>1. pc["M"] \in {"addr7", "readdr7"} \cup Reading
    BY <1>1, <1>2 DEF Wire
  <2>2. pc["M"] \notin {"addr7", "readdr7"}
    BY <1>1, <1>2 DEF MasterInv, AddressInv
  <2>3. QED
    BY <2>1, <2>2
<1>5. Read
  BY <1>1, <1>4 DEF MasterInv, Reading
<1>6. "GENSTOP" \in ctrl["M"] => ~MasterAcks
  <2> SUFFICES ASSUME "GENSTOP" \in ctrl["M"] PROVE ~MasterAcks
    OBVIOUS
  <2>1. left["M"] = 1
    BY <1>5 DEF Read
  <2>2. QED
    BY <1>5, <2>1 DEF Read, Requested, MasterAcks
<1>7. /\ rx'["M"] = Append(rx["M"], Head(tx["S"])) /\ rx'["S"] = rx["S"]
      /\ tx'["S"] = Tail(tx["S"]) /\ tx'["M"] = tx["M"]
  BY <1>1, <1>3 DEF HwReadByte, HwReadByteAck
<1>8. /\ phase' = IF MasterAcks THEN "data" ELSE "closing"
      /\ sel' <=> MasterAcks
      /\ flags' = IF MasterAcks THEN flags ELSE [flags EXCEPT !["S"] = @ \cup {"ACKFAIL"}]
  <2>1. CASE MasterAcks
    BY <1>3, <1>6, <2>1 DEF HwReadByte, HwReadByteAck, SoundFacts
  <2>2. CASE ~MasterAcks
    BY <1>3, <2>2 DEF HwReadByte, HwReadByteAck, SoundFacts
  <2>3. QED
    BY <2>1, <2>2
<1>9. flags'["M"] = flags["M"] /\ "ADDR7F" \notin flags'["S"]
  BY <1>1, <1>3, <1>8
<1>10. ASSUME phase' = "closing" PROVE clocked' = Size("M")
  <2>1. Read' /\ Size("M")' = Size("M") /\ InTimeSoFar'
    <3>1. MasterInv'
      BY DEF PollInv, FrameInv
    <3>2. InTimeSoFar'
      BY <1>1 DEF InTimeSoFar, TimingFree
    <3>3. QED
      BY <1>4, <3>1, <3>2 DEF MasterInv, Reading, Size, MyRound
  <2>2. ~BeforeByte' /\ ~AckedSoFar'
    BY <1>10 DEF BeforeByte, AckedSoFar
  <2>3. pc["M"] \in {"rdbf", "rtdc"} /\ ~(left["M"] > 2)
    BY <1>1, <1>4, <2>1, <2>2 DEF Read, Reading
  <2>4. CASE pc["M"] = "rdbf"
    <3>1. left["M"] = 1 /\ Size("M") = 1
      <4>1. left["M"] \in 1 .. Size("M") /\ left["M"] \notin {2, 3} /\ (left["M"] = 1 => Size("M") = 1)
        BY <1>1, <2>4 DEF MasterCount
      <4>2. Size("M") \in Nat
        BY <2>4 DEF SoundFacts, MasterFacts
      <4>3. left["M"] \in Nat /\ left["M"] >= 1 /\ ~(left["M"] > 2) /\ left["M"] # 2
        BY <1>1, <2>3, <4>1, <4>2
      <4>4. left["M"] = 1
        BY <4>3
      <4>5. QED
        BY <4>1, <4>4
    <3>2. OnlyByte'
      BY <2>1, <2>4, <3>1 DEF Read
    <3>3. QED
      BY <1>10, <3>1, <3>2 DEF OnlyByte
  <2>5. CASE pc["M"] = "rtdc"
    <3>1. left["M"] = 2 /\ Size("M") \in Nat /\ Size("M") >= 2
      BY <1>1, <2>3, <2>5 DEF MasterCount, SoundFacts, MasterFacts
    <3>2. LastTwo'
      BY <2>1, <2>5, <3>1 DEF Read
    <3>3. clocked' = Size("M") - 2 + 2
      BY <1>10, <2>1, <3>2 DEF LastTwo
    <3>4. QED
      BY <3>1, <3>3
  <2>6. QED
    BY <2>3, <2>4, <2>5
<1>11. QED
  BY <1>2, <1>3, <1>4, <1>7, <1>8, <1>9, <1>10

(* It is the next one of the source.                                       *)
LEMMA ReadByteStores ==
  ASSUME SoundFacts, PollInv', UNCHANGED <<pc, left, mem, ret, round, plan, env, store>>, HwReadByte,
         Holds(tx["S"], round["M"], clocked)
  PROVE  /\ MasterStores'
         /\ Holds(tx'["S"], round["M"], clocked') /\ Len(tx'["S"]) = Len(tx["S"]) - 1
         /\ Len(tx["S"]) \in Nat \ {0}
<1> DEFINE t == tx["S"]
           s == rx["M"]
           k == round["M"]
           a == Len(mem["M"])
<1>1. /\ pc["M"] \in Reading /\ t # <<>> /\ rx'["M"] = Append(s, Head(t)) /\ tx'["S"] = Tail(t)
      /\ clocked' = clocked + 1
  BY ReadByteSound
<1>2. /\ s \in Seq(Byte) /\ t \in Seq(Byte) /\ mem["M"] \in Seq(Byte) /\ a \in Nat
      /\ clocked \in Nat
      /\ MasterStores
  <2>1. mem["M"] \in Seq(Byte) /\ rx["M"] \in Seq(Byte) /\ tx["S"] \in Seq(Byte)
    BY DEF SoundFacts, MasterFacts
  <2>2. QED
    BY <2>1 DEF SoundFacts, MasterFacts
<1>3. Holds(mem["M"], k, 0) /\ Holds(s, k, a) /\ a + Len(s) = clocked /\ Len(s) \in Nat
  <2>1. Len(s) \in Nat
    BY <1>2
  <2>2. QED
    BY <1>1, <1>2, <2>1 DEF MasterStores, Stored
<1>4. /\ Head(t) = Source(k)[clocked + 1] /\ Holds(Tail(t), k, clocked + 1)
      /\ Len(Tail(t)) = Len(t) - 1 /\ Len(t) \in Nat \ {0}
  <2> HIDE DEF t, k
  <2>1. Holds(t, k, clocked)
    BY DEF t, k
  <2>2. QED
    BY <1>1, <1>2, <2>1, HoldsTail
<1>5. Holds(rx'["M"], k, a) /\ a + Len(rx'["M"]) = clocked'
  <2> DEFINE b == Head(t)
             f == Source(k)
  <2>1. b = f[clocked + 1] /\ rx'["M"] = Append(s, b)
    BY <1>1, <1>4
  <2> HIDE DEF b, s, a
  <2>2. b = f[a + Len(s) + 1]
    BY <1>3, <2>1
  <2>3. Holds(Append(s, b), k, a)
    BY <1>2, <1>3, <2>2, HoldsAppend
  <2>4. Len(Append(s, b)) = Len(s) + 1
    BY <1>2
  <2>5. a + (Len(s) + 1) = clocked + 1
    BY <1>2, <1>3
  <2>6. QED
    BY <1>1, <2>1, <2>3, <2>4, <2>5
<1>6. \A j : Source(j)' = Source(j)
  BY SameSource
<1>7. Stored("M")' /\ Len(mem'["M"]) + Len(rx'["M"]) = clocked'
  BY <1>3, <1>5, <1>6 DEF Stored, Holds
<1>8. MasterStores'
  BY <1>1, <1>7 DEF MasterStores, Reading, Ended
<1>9. QED
  BY <1>1, <1>4, <1>8

(***************************************************************************)
(* Two boards, in step over any number of rounds.                          *)
(***************************************************************************)

LockFacts ==
  /\ SoundFacts /\ ~Memory /\ LockInv /\ SlaveWaits /\ EndSeen /\ ReadBefore
  /\ \A k \in 1 .. Len(plan) : /\ plan[k].op \in {"write", "read"} /\ plan[k].M \in Nat \ {0}
                               /\ plan[k].M = plan[k].S

LEMMA LockStart ==
  ASSUME PollInv, EndInv, Sound, SizesAgree, SoundInv, ~Memory
  PROVE  LockFacts
<1>1. SoundFacts /\ LockInv
  BY SoundStart DEF SoundInv
<1>2. SlaveWaits /\ EndSeen /\ ReadBefore
  BY <1>1 DEF EndInv, SoundFacts
<1>3. ASSUME NEW k \in 1 .. Len(plan)
      PROVE  plan[k].op \in {"write", "read"} /\ plan[k].M \in Nat \ {0} /\ plan[k].M = plan[k].S
  BY <1>3, ModeFacts, RoundFacts DEF SizesAgree, PollInv, ScriptInv, TypeOK, SwTypeOK
<1>4. QED
  BY <1>1, <1>2, <1>3 DEF LockFacts

(* What the slave is in, and has room for, while it follows a frame.       *)
InStep ==
  /\ phase = "data" /\ pc["S"] \in InData
  /\ round["S"] = FrameRound /\ FrameRound \in 1 .. Len(plan)
  /\ Size("S") = plan[FrameRound].M /\ Size("S") \in Nat \ {0}
  /\ dir = MyRound("S").op /\ (dir = "write" <=> SlaveReceives)
  /\ dir = "write" => pc["S"] \in {"rdbf", "stopf"}
  /\ dir = "read" => pc["S"] \in {"tdbe", "ackfail"}
  /\ pc["M"] \in InFrame => round["M"] = FrameRound /\ Size("M") = Size("S")
  /\ dir = "write" => clocked + Len(tx["M"]) <= Size("S")

LEMMA FollowFacts ==
  ASSUME LockFacts, Follows
  PROVE  InStep
<1>1. /\ SoundFacts /\ MasterGoesOn /\ RoundInv /\ MasterSends /\ SlaveWaits /\ EndSeen /\ Wire
      /\ round["M"] \in Nat \ {0} /\ round["S"] \in Nat \ {0} /\ left["M"] \in Nat
      /\ clocked \in Nat
  BY DEF LockFacts, LockInv, SoundFacts, MasterFacts
<1>2. phase = "data" /\ pc["S"] \in InData
  BY <1>1 DEF Wire, Follows, EndSeen
<1>3. FrameRound \in 1 .. Len(plan) /\ dir = plan[FrameRound].op
  BY <1>1, <1>2 DEF MasterGoesOn
<1>4. Reported("S") = round["S"] - 1
  BY <1>2 DEF Reported, Ended, InData
<1>5. round["S"] = FrameRound
  <2>1. Reported("S") = Moved
    BY <1>1, <1>2 DEF RoundInv
  <2>2. QED
    BY <1>1, <1>4, <2>1 DEF FrameRound
<1>6. Size("S") = plan[FrameRound].M /\ Size("S") \in Nat \ {0} /\ dir = MyRound("S").op
  BY <1>3, <1>5 DEF LockFacts, Size, MyRound
<1>7. /\ dir = "write" <=> SlaveReceives
      /\ dir = "write" => pc["S"] \in {"rdbf", "stopf"}
      /\ dir = "read" => pc["S"] \in {"tdbe", "ackfail"}
  BY <1>1, <1>2, <1>6 DEF SlaveReceives, SlaveWaits, InData
<1>8. pc["M"] \in InFrame => round["M"] = FrameRound /\ Size("M") = Size("S")
  <2> SUFFICES ASSUME pc["M"] \in InFrame PROVE round["M"] = FrameRound /\ Size("M") = Size("S")
    OBVIOUS
  <2>1. ~Ended("M", "OK")
    BY DEF Ended, InFrame, Reading
  <2>2. Moved = round["M"] - 1 - 0
    BY <1>2, <2>1 DEF Moved, Reported
  <2>3. round["M"] = FrameRound
    BY <1>1, <2>2 DEF FrameRound
  <2>4. QED
    BY <1>6, <2>3 DEF Size, MyRound
<1>9. dir = "write" => clocked + Len(tx["M"]) <= Size("S")
  <2> SUFFICES ASSUME dir = "write" PROVE clocked + Len(tx["M"]) <= Size("S")
    OBVIOUS
  <2>1. clocked + Len(tx["M"]) = Posted
    BY <1>1, <1>2 DEF MasterSends
  <2>2. CASE pc["M"] \in InFrame
    BY <1>1, <1>6, <1>8, <2>1, <2>2 DEF Posted
  <2>3. CASE pc["M"] \notin InFrame
    BY <1>6, <2>1, <2>3 DEF Posted
  <2>4. QED
    BY <2>2, <2>3
<1>10. QED
  BY <1>2, <1>3, <1>5, <1>6, <1>7, <1>8, <1>9 DEF InStep

(* A step of the slave leaves the master and the bus where they are.       *)
SlaveCalm ==
  /\ UNCHANGED <<plan, env, phase, dir, sel, clocked, store>>
  /\ SameThread("M") /\ SameRegisters("M")

LEMMA SlaveCalmly ==
  ASSUME LockFacts, Main("S")
  PROVE  SlaveCalm /\ ~TryAgain("S") /\ ~GiveUp("S") /\ ~WaitTimeout("S") /\ ~CleanUp("S")
<1>1. SoundFacts /\ SlaveGoesOn /\ TypeOK /\ "M" \in Node \ {"S"} /\ "S" \in Node
  BY DEF LockFacts, LockInv, SoundFacts
<1>2. SameThread("M") /\ SameRegisters("M") /\ UNCHANGED <<env, plan, store>>
  BY <1>1, MainLocal DEF device
<1>3. ~TryAgain("S") /\ ~GiveUp("S") /\ ~CleanUp("S")
  BY <1>1 DEF TryAgain, GiveUp, CleanUp, SlaveGoesOn
<1>4. ~WaitTimeout("S")
  BY <1>1 DEF WaitTimeout, SoundFacts, Sound
<1>5. UNCHANGED <<phase, dir, sel, clocked>>
  <2>1. CASE StartCall("S") \/ NextRound("S")
    BY <2>1 DEF StartCall, NextRound, hwVars
  <2>2. CASE Wait("S")
    BY <1>3, <1>4, <2>2 DEF Wait, LookAgain, NoEvent, WaitAckFail, WaitStop, hwVars, busVars
  <2>3. CASE Slave
    BY <1>1, <2>3, SlaveLocal DEF busVars
  <2>4. QED
    BY <1>3, <2>1, <2>2, <2>3 DEF Main
<1>6. QED
  BY <1>2, <1>3, <1>4, <1>5 DEF SlaveCalm

LEMMA SlaveCalmKeeps ==
  ASSUME LockFacts, SlaveCalm,
         "ADDR7F" \in flags'["S"] => "ADDR7F" \in flags["S"] /\ tx'["S"] = tx["S"]
  PROVE  MasterStores' /\ Wire' /\ MasterGoesOn' /\ MasterSends' /\ Moved' = Moved
<1>1. SoundFacts /\ MasterStores /\ Wire /\ MasterGoesOn /\ MasterSends
  BY DEF LockFacts, LockInv, SoundFacts
<1>2. /\ UNCHANGED <<plan, env, phase, dir, sel, clocked, store, pc["M"], left["M"], mem["M"], ret["M"],
                     round["M"], ctrl["M"], flags["M"], tx["M"], rx["M"]>>
  BY DEF SlaveCalm, SameThread, SameRegisters
<1>3. Ended("M", "OK")' = Ended("M", "OK") /\ Ended("M", "ERR")' = Ended("M", "ERR")
      /\ Size("M")' = Size("M")
  BY <1>2 DEF Ended, Size, MyRound
<1>4. Moved' = Moved /\ FrameRound' = FrameRound
  BY <1>2, <1>3 DEF Moved, FrameRound, Reported, InFrame
<1>5. MasterStores'
  BY <1>1, <1>2, <1>3, StoresKeep
<1>6. Wire'
  BY <1>1, <1>2 DEF Wire
<1>7. MasterGoesOn'
  BY <1>1, <1>2, <1>3, <1>4 DEF MasterGoesOn
<1>8. MasterSends'
  <2>1. Posted' = Posted
    BY <1>2, <1>3, <1>4 DEF Posted, InFrame
  <2>2. \A j : Source(j)' = Source(j)
    BY <1>2, SameSource
  <2>3. QED
    BY <1>1, <1>2, <1>4, <2>1, <2>2 DEF MasterSends, Holds
<1>9. QED
  BY <1>4, <1>5, <1>6, <1>7, <1>8

SlavePart == SlaveGoesOn /\ RoundInv /\ SlaveStores /\ SlaveSends

(* The application's steps of the slave, and its waits, none of which ever *)
(* gives up.                                                               *)
LEMMA CommonSlaveLock ==
  ASSUME LockFacts, SlaveCalm, Moved' = Moved,
         StartCall("S") \/ NextRound("S") \/ LookAgain("S") \/ NoEvent("S")
  PROVE  SlavePart'
<1> USE DEF Goto, Return, Stay
<1>1. SlaveGoesOn /\ RoundInv /\ SlaveStores /\ SlaveSends /\ "S" \in Node
      /\ pc \in [Node -> MainPc] /\ mem \in [Node -> Seq(Byte)] /\ round \in [Node -> Nat \ {0}]
      /\ UNCHANGED <<plan, sel, clocked>>
  BY DEF LockFacts, LockInv, SoundFacts, MasterFacts, SlaveCalm
<1>2. \A j : Source(j)' = Source(j)
  BY SameSource DEF SlaveCalm
<1>3. UNCHANGED <<ctrl, flags, tx, rx, ret>>
  BY DEF StartCall, NextRound, LookAgain, NoEvent, hwVars, local
<1>4. CASE StartCall("S")
  <2>1. pc["S"] = "idle" /\ pc'["S"] \in {"free", "busy"} /\ mem'["S"] = <<>> /\ UNCHANGED round
    BY <1>1, <1>4 DEF StartCall, FirstWait, app
  <2>2. Reported("S")' = Reported("S")
    <3>1. ~Ended("S", "OK") /\ ~Ended("S", "OK")'
      BY <2>1 DEF Ended
    <3>2. QED
      BY <2>1, <3>1 DEF Reported
  <2>3. RoundInv'
    BY <1>1, <2>1, <2>2 DEF RoundInv, InData
  <2>4. SlaveGoesOn' /\ SlaveSends'
    BY <1>1, <1>3, <2>1 DEF SlaveGoesOn, SlaveSends, InData, DmaPc
  <2>5. SlaveStores'
    BY <1>1, <1>3, <2>1 DEF SlaveStores, Ended
  <2>6. QED
    BY <2>3, <2>4, <2>5 DEF SlavePart
<1>5. CASE NextRound("S")
  <2>1. /\ pc["S"] = "returned" /\ ret["S"] = "OK" /\ pc'["S"] \in {"idle", "done"}
        /\ round'["S"] = round["S"] + 1
    BY <1>1, <1>5 DEF NextRound
  <2>2. Reported("S")' = Reported("S")
    <3>1. Ended("S", "OK") /\ ~Ended("S", "OK")' /\ round["S"] \in Nat
      BY <1>1, <2>1 DEF Ended
    <3>2. Reported("S") = round["S"] - 0 /\ Reported("S")' = (round["S"] + 1) - 1
      BY <2>1, <3>1 DEF Reported
    <3>3. QED
      BY <3>1, <3>2
  <2>3. RoundInv'
    BY <1>1, <2>1, <2>2 DEF RoundInv, InData
  <2>4. SlaveGoesOn' /\ SlaveSends'
    BY <1>1, <1>3, <2>1 DEF SlaveGoesOn, SlaveSends, InData, DmaPc
  <2>5. SlaveStores'
    BY <1>1, <1>3, <2>1 DEF SlaveStores, Ended
  <2>6. QED
    BY <2>3, <2>4, <2>5 DEF SlavePart
<1>6. CASE LookAgain("S") \/ NoEvent("S")
  <2>1. UNCHANGED <<pc, mem, left, round>>
    BY <1>6 DEF LookAgain, NoEvent, local, app
  <2>2. /\ Ended("S", "OK")' = Ended("S", "OK") /\ Size("S")' = Size("S") /\ Follows' = Follows
        /\ Reads("S")' = Reads("S")
    BY <1>1, <1>3, <2>1 DEF Ended, Size, MyRound, Follows, Reads
  <2>3. RoundInv'
    BY <1>1, <2>1, <2>2 DEF RoundInv, Reported
  <2>4. SlaveGoesOn'
    BY <1>1, <1>3, <2>1 DEF SlaveGoesOn
  <2>5. SlaveSends'
    BY <1>1, <1>2, <1>3, <2>1, <2>2 DEF SlaveSends, Holds
  <2>6. SlaveStores'
    BY <1>1, <1>2, <1>3, <2>1, <2>2 DEF SlaveStores, Stored, StoredAll, Holds
  <2>7. QED
    BY <2>3, <2>4, <2>5, <2>6 DEF SlavePart
<1>7. QED
  BY <1>4, <1>5, <1>6

(* The slave never sees an end of a frame that it has not waited for.      *)
LEMMA SlaveNoFail ==
  ASSUME LockFacts
  PROVE  ~WaitAckFail("S") /\ ~WaitStop("S")
<1>1. SoundFacts /\ SlaveSends /\ SlaveStores /\ EndSeen /\ ReadBefore /\ SlaveCount
      /\ left["S"] \in Nat
  BY DEF LockFacts, LockInv, SoundFacts, MasterFacts
<1>2. EventCheck("S") = IF pc["S"] = "rdbf" THEN {"STOPF"}
                        ELSE IF pc["S"] \in {"tdbe", "stopf"} THEN {"ACKFAIL"} ELSE {}
  BY <1>1 DEF EventCheck, SoundFacts
<1>3. ~WaitAckFail("S")
  <2> SUFFICES ASSUME "ACKFAIL" \in EventCheck("S"), "ACKFAIL" \in flags["S"] PROVE FALSE
    BY DEF WaitAckFail
  <2>1. pc["S"] = "tdbe"
    BY <1>1, <1>2 DEF EndSeen
  <2>2. ~Follows
    BY <1>1 DEF EndSeen, Ends
  <2>3. QED
    BY <1>1, <2>1, <2>2 DEF SlaveSends
<1>4. ~WaitStop("S")
  <2> SUFFICES ASSUME checking["S"], "STOPF" \in EventCheck("S"), "STOPF" \in flags["S"] PROVE FALSE
    BY DEF WaitStop
  <2>1. pc["S"] = "rdbf"
    BY <1>2
  <2>2. ~Follows
    BY <1>1 DEF EndSeen, Ends
  <2>3. rx["S"] = <<>>
    BY <1>1, <2>1 DEF ReadBefore
  <2>4. Len(mem["S"]) + Len(rx["S"]) = Size("S") /\ Len(mem["S"]) = Size("S") - left["S"]
    BY <1>1, <2>1, <2>2 DEF SlaveStores
  <2>5. left["S"] \in 1 .. Size("S")
    BY <1>1, <2>1 DEF SlaveCount
  <2>6. mem["S"] \in Seq(Byte) /\ Len(rx["S"]) = 0
    BY <2>3 DEF LockFacts, SoundFacts
  <2>7. Len(mem["S"]) \in Nat
    BY <2>6
  <2>8. Size("S") = Len(mem["S"])
    BY <2>4, <2>6, <2>7
  <2>9. QED
    BY <1>1, <2>4, <2>5, <2>7, <2>8
<1>5. QED
  BY <1>3, <1>4

(* The slave's own actions.                                                *)
LEMMA SlaveOpensLock ==
  ASSUME LockFacts, SlaveCalm, Moved' = Moved, Slave, EnableAck \/ SlaveClearAddr
  PROVE  SlavePart'
<1> USE DEF Goto, Stay, Came, SetCtrl, ClearFlags
<1>1. /\ SlaveGoesOn /\ RoundInv /\ SlaveStores /\ SlaveSends /\ "S" \in Node /\ Wire
      /\ SlaveCount /\ pc \in [Node -> MainPc] /\ mem \in [Node -> Seq(Byte)] /\ EndSeen
      /\ ctrl \in [Node -> SUBSET CtrlBits] /\ flags \in [Node -> SUBSET Flags]
      /\ left \in [Node -> Nat] /\ UNCHANGED <<plan, sel, clocked, round>>
  BY SlaveLocal DEF LockFacts, LockInv, SoundFacts, MasterFacts, SlaveCalm
<1>2. UNCHANGED <<tx, rx, left, mem, ret>>
  BY DEF EnableAck, SlaveClearAddr, local
<1>3. Size("S")' = Size("S")
  BY <1>1 DEF Size, MyRound
<1>4. pc["S"] \in {"free", "busy", "addr7"} /\ pc'["S"] \in {"addr7", "rdbf", "tdbe"}
  BY <1>1 DEF EnableAck, SlaveClearAddr
<1>5. Reported("S")' = Reported("S")
  <2>1. ~Ended("S", "OK") /\ ~Ended("S", "OK")'
    BY <1>4 DEF Ended
  <2>2. QED
    BY <1>1, <2>1 DEF Reported
<1>6. mem["S"] = <<>> /\ rx["S"] = <<>>
  BY <1>1, <1>4 DEF SlaveStores
<1>7. CASE EnableAck
  <2>1. pc'["S"] = "addr7" /\ ctrl'["S"] = (ctrl["S"] \ {"ACKNEXT"}) \cup {"ACKEN"}
    BY <1>1, <1>7 DEF EnableAck
  <2>2. SlaveGoesOn' /\ SlaveSends' /\ SlaveStores'
    BY <1>1, <1>2, <1>6, <2>1 DEF SlaveGoesOn, SlaveSends, SlaveStores, InData, DmaPc, Ended
  <2>3. RoundInv'
    BY <1>1, <1>4, <1>5, <2>1 DEF RoundInv, InData
  <2>4. QED
    BY <2>2, <2>3 DEF SlavePart
<1>8. CASE SlaveClearAddr
  <2>1. /\ pc["S"] = "addr7" /\ pc'["S"] \in {"rdbf", "tdbe"} /\ "ADDR7F" \in flags["S"]
        /\ flags'["S"] = flags["S"] \ {"ADDR7F"} /\ ctrl' = ctrl
    BY <1>1, <1>8 DEF SlaveClearAddr, FlagCame
  <2>2. sel /\ clocked = 0 /\ tx["S"] = <<>>
    BY <1>1, <2>1 DEF Wire
  <2>3. Follows' /\ left["S"] = Size("S")
    BY <1>1, <2>1, <2>2 DEF Follows, SlaveCount
  <2>4. Size("S") \in Nat
    BY <1>1, <2>3
  <2>5. RoundInv'
    BY <1>1, <1>4, <1>5, <2>1, <2>3 DEF RoundInv, InData
  <2>6. SlaveGoesOn'
    BY <1>1, <2>1 DEF SlaveGoesOn, InData, DmaPc
  <2>7. Len(<<>>) = 0 /\ 0 = Size("S")' - left'["S"]
    BY <1>2, <1>3, <2>3, <2>4
  <2>8. SlaveSends'
    BY <1>1, <1>2, <2>1, <2>2, <2>3, <2>7 DEF SlaveSends, Holds
  <2>9. SlaveStores'
    <3>1. Stored("S")'
      BY <1>2, <1>6 DEF Stored, Holds
    <3>2. QED
      BY <1>1, <1>2, <1>6, <2>1, <2>2, <2>3, <2>7, <3>1 DEF SlaveStores, Ended
  <2>10. QED
    BY <2>5, <2>6, <2>8, <2>9 DEF SlavePart
<1>9. QED
  BY <1>7, <1>8

(* A byte from the data register to the buffer; behind the last one there  *)
(* is none.                                                                *)
LEMMA SlaveReadsLock ==
  ASSUME LockFacts, SlaveCalm, Moved' = Moved, Slave, SlaveReadByte
  PROVE  SlavePart'
<1> DEFINE a == Len(mem["S"])
           b == Len(rx["S"])
<1>1. /\ SlaveGoesOn /\ RoundInv /\ SlaveStores /\ SlaveSends /\ "S" \in Node /\ Wire
      /\ SlaveCount /\ pc \in [Node -> MainPc] /\ mem \in [Node -> Seq(Byte)]
      /\ rx \in [Node -> Seq(Byte)] /\ tx["M"] \in Seq(Byte) /\ SlaveWaits
      /\ left \in [Node -> Nat] /\ clocked \in Nat /\ UNCHANGED <<plan, sel, clocked, round>>
  BY SlaveLocal DEF LockFacts, LockInv, SoundFacts, MasterFacts, SlaveCalm
<1>2. /\ pc["S"] = "rdbf" /\ rx["S"] # <<>> /\ ReadData("S", 1)
      /\ UNCHANGED <<ctrl, flags, tx, ret>>
      /\ pc'["S"] = IF left["S"] = 1 THEN "stopf" ELSE "rdbf"
      /\ left'["S"] = left["S"] - 1
  BY <1>1 DEF SlaveReadByte, Came, FlagCame, RDBF, Goto, ReadData, Count
<1>3. a \in Nat /\ b \in Nat /\ 1 <= b
  <2>1. mem["S"] \in Seq(Byte) /\ rx["S"] \in Seq(Byte)
    BY <1>1
  <2>2. QED
    BY <1>2, <2>1
<1>4. TakenBytes("S", 1)
  BY <1>1, <1>2, <1>3, Taken
<1>5. /\ Stored("S") /\ a = Size("S") - left["S"]
      /\ a + b = IF Follows THEN clocked ELSE Size("S")
  BY <1>1, <1>2 DEF SlaveStores
<1>6. /\ Holds(mem'["S"], round["S"], 0) /\ Holds(rx'["S"], round["S"], Len(mem'["S"]))
      /\ Len(mem'["S"]) + Len(rx'["S"]) = a + b
      /\ Len(mem'["S"]) = a + 1
  <2>1. Holds(mem["S"], round["S"], 0) /\ Holds(rx["S"], round["S"], a)
    BY <1>5 DEF Stored
  <2>2. QED
    BY <1>1, <1>3, <1>4, <2>1, HoldsTaken DEF TakenBytes
<1>7. left["S"] \in 1 .. Size("S") /\ left["S"] \in Nat /\ Size("S") \in Nat
  <2>1. Size("S") \in Nat
    <3>1. Size("S") = a + left["S"] \/ Size("S") \in Nat
      <4>1. round["S"] \in 1 .. Len(plan)
        BY <1>1, <1>2 DEF LockFacts, SoundFacts, ThreadFacts
      <4>2. QED
        BY <4>1 DEF LockFacts, Size, MyRound
    <3>2. QED
      BY <1>1, <1>3, <3>1
  <2>2. QED
    BY <1>1, <1>2, <2>1 DEF SlaveCount
<1>8. a + b <= Size("S")
  <2>1. CASE Follows
    <3>1. InStep
      BY <2>1, FollowFacts
    <3>2. dir = "write"
      BY <1>2, <3>1 DEF InStep, LockFacts, SoundFacts
    <3>3. clocked + Len(tx["M"]) <= Size("S") /\ Len(tx["M"]) \in Nat
      BY <1>1, <3>1, <3>2 DEF InStep
    <3>4. QED
      BY <1>1, <1>5, <1>7, <2>1, <3>3
  <2>2. CASE ~Follows
    BY <1>3, <1>5, <1>7, <2>2
  <2>3. QED
    BY <2>1, <2>2
<1>9. /\ Size("S")' = Size("S") /\ Follows' = Follows /\ pc'["S"] \in {"rdbf", "stopf"}
      /\ ~Ended("S", "OK") /\ ~Ended("S", "OK")'
  BY <1>1, <1>2 DEF Size, MyRound, Follows, Ended
<1>10. RoundInv'
  BY <1>1, <1>2, <1>9 DEF RoundInv, Reported, InData
<1>11. SlaveGoesOn' /\ SlaveSends'
  BY <1>1, <1>2, <1>9 DEF SlaveGoesOn, SlaveSends, InData, DmaPc
<1>12. left["S"] = 1 => rx'["S"] = <<>>
  <2> SUFFICES ASSUME left["S"] = 1 PROVE rx'["S"] = <<>>
    OBVIOUS
  <2>1. Len(rx'["S"]) = 0
    <3>1. Len(rx'["S"]) = b - 1
      BY <1>4 DEF TakenBytes
    <3> HIDE DEF a, b
    <3>2. b = 1
      BY <1>3, <1>5, <1>7, <1>8
    <3>3. QED
      BY <3>1, <3>2
  <2>2. rx'["S"] \in Seq(Byte)
    BY <1>1, <1>2, RestType DEF ReadData, i2c_data_receive
  <2>3. QED
    BY <2>1, <2>2
<1>13. SlaveStores'
  <2>1. \A j : Source(j)' = Source(j)
    BY SameSource DEF SlaveCalm
  <2>2. Stored("S")'
    BY <1>1, <1>6, <2>1 DEF Stored, Holds
  <2>3. Len(mem'["S"]) = Size("S") - left'["S"]
    <3> HIDE DEF a
    <3>1. Len(mem'["S"]) = a + 1 /\ a = Size("S") - left["S"] /\ left'["S"] = left["S"] - 1
      BY <1>2, <1>5, <1>6
    <3>2. QED
      BY <1>7, <3>1
  <2>4. left["S"] = 1 => left'["S"] = 0
    BY <1>2
  <2>5. QED
    BY <1>1, <1>2, <1>5, <1>6, <1>9, <1>12, <2>2, <2>3, <2>4 DEF SlaveStores
<1>14. QED
  BY <1>10, <1>11, <1>13 DEF SlavePart

LEMMA SlaveSendsLock ==
  ASSUME LockFacts, SlaveCalm, Moved' = Moved, Slave, SendData("S", "ackfail")
  PROVE  SlavePart'
<1> DEFINE t == tx["S"]
           k == round["S"]
           b == <<k, Size("S") - left["S"] + 1>>
<1>1. /\ SlaveGoesOn /\ RoundInv /\ SlaveStores /\ SlaveSends /\ "S" \in Node /\ ~Memory
      /\ SlaveCount /\ pc \in [Node -> MainPc] /\ tx \in [Node -> Seq(Byte)]
      /\ left \in [Node -> Nat] /\ clocked \in Nat /\ UNCHANGED <<plan, sel, clocked, round>>
  BY SlaveLocal DEF LockFacts, LockInv, SoundFacts, MasterFacts, SlaveCalm
<1>2. /\ pc["S"] = "tdbe" /\ UNCHANGED <<ctrl, flags, rx, mem, ret>>
      /\ pc'["S"] = IF left["S"] = 1 THEN "ackfail" ELSE "tdbe"
      /\ left'["S"] = left["S"] - 1
      /\ tx'["S"] = Append(t, b)
  BY <1>1 DEF SendData, Came, Goto, Count, i2c_data_send
<1>3. Follows
  BY <1>1, <1>2 DEF SlaveSends
<1>4. t \in Seq(Byte) /\ Len(t) \in Nat /\ Holds(t, k, clocked) /\ clocked + Len(t) = Size("S") - left["S"]
  <2>1. t \in Seq(Byte)
    BY <1>1
  <2>2. Len(t) \in Nat
    BY <2>1
  <2>3. QED
    BY <1>1, <1>2, <1>3, <2>1, <2>2 DEF SlaveSends
<1>5. left["S"] \in 1 .. Size("S") /\ left["S"] \in Nat /\ Size("S") \in Nat
  <2>1. InStep
    BY <1>3, FollowFacts
  <2>2. QED
    BY <1>1, <1>2, <2>1 DEF SlaveCount, InStep
<1>6. Holds(tx'["S"], k, clocked) /\ Len(tx'["S"]) = Len(t) + 1
  <2>1. b = Source(k)[clocked + Len(t) + 1]
    <3> DEFINE i == clocked + Len(t) + 1
    <3>1. i \in Nat /\ b = <<k, i>>
      BY <1>1, <1>4, <1>5
    <3> HIDE DEF i, b
    <3>2. Source(k)[i] = <<k, i>>
      BY <1>1, <3>1 DEF Source
    <3>3. QED
      BY <3>1, <3>2 DEF i
  <2> HIDE DEF b, k
  <2>2. Holds(Append(t, b), k, clocked)
    BY <1>1, <1>4, <2>1, HoldsAppend
  <2>3. Len(Append(t, b)) = Len(t) + 1
    BY <1>4
  <2>4. QED
    BY <1>2, <2>2, <2>3
<1>7. /\ Size("S")' = Size("S") /\ Follows' = Follows /\ pc'["S"] \in {"tdbe", "ackfail"}
      /\ ~Ended("S", "OK") /\ ~Ended("S", "OK")'
  BY <1>1, <1>2 DEF Size, MyRound, Follows, Ended
<1>8. RoundInv'
  BY <1>1, <1>2, <1>7 DEF RoundInv, Reported, InData
<1>9. SlaveGoesOn' /\ SlaveStores'
  BY <1>1, <1>2, <1>7 DEF SlaveGoesOn, SlaveStores, InData, DmaPc
<1>10. SlaveSends'
  <2>1. clocked + Len(tx'["S"]) = Size("S") - left'["S"] /\ (left["S"] = 1 => left'["S"] = 0)
    <3> HIDE DEF t
    <3>1. QED
      BY <1>1, <1>2, <1>4, <1>5, <1>6
  <2>2. \A j : Source(j)' = Source(j)
    BY SameSource DEF SlaveCalm
  <2>3. QED
    BY <1>1, <1>2, <1>3, <1>6, <1>7, <2>1, <2>2 DEF SlaveSends, Holds
<1>11. QED
  BY <1>8, <1>9, <1>10 DEF SlavePart

(* The end that the slave has waited for is that of its own frame, and all *)
(* of its bytes are in the buffer.                                         *)
LEMMA SlaveEndsLock ==
  ASSUME LockFacts, SlaveCalm, Moved' = Moved, Slave, SlaveEnd
  PROVE  SlavePart'
<1>1. /\ SlaveGoesOn /\ RoundInv /\ SlaveStores /\ SlaveSends /\ "S" \in Node
      /\ EndSeen /\ SlaveWaits /\ pc \in [Node -> MainPc] /\ ret \in [Node -> {"OK", "ERR"}]
      /\ ctrl \in [Node -> SUBSET CtrlBits] /\ mem["S"] \in Seq(Byte) /\ left["S"] \in Nat
      /\ round["S"] \in Nat /\ UNCHANGED <<plan, sel, clocked, round>>
  BY SlaveLocal DEF LockFacts, LockInv, SoundFacts, MasterFacts, SlaveCalm
<1>2. /\ pc["S"] \in {"stopf", "ackfail"} /\ UNCHANGED <<tx, rx, mem, left>>
      /\ flags["S"] \cap Ends # {}
      /\ pc'["S"] = "returned" /\ ret'["S"] = "OK" /\ ctrl'["S"] = ctrl["S"] \ {"ACKEN"}
  BY <1>1 DEF SlaveEnd, Came, FlagCame, Return, Goto, SetCtrl, Ends
<1>3. ~Follows
  BY <1>1, <1>2 DEF EndSeen
<1>4. /\ Size("S")' = Size("S") /\ Reads("S")' = Reads("S")
      /\ ~Ended("S", "OK") /\ Ended("S", "OK")'
  BY <1>1, <1>2 DEF Size, MyRound, Reads, Ended
<1>5. RoundInv'
  <2>1. Reported("S") = Moved - 1
    BY <1>1, <1>2, <1>3 DEF RoundInv, InData
  <2>2. Reported("S") = round["S"] - 1 /\ Reported("S")' = round["S"] - 0
    BY <1>1, <1>4 DEF Reported
  <2>3. Reported("S")' = Moved
    <3>1. Moved \in Int
      <4>1. /\ round["M"] \in Nat
        BY DEF LockFacts, SoundFacts, MasterFacts
      <4>2. Reported("M") \in Int
        BY <4>1 DEF Reported
      <4>3. QED
        BY <4>1, <4>2 DEF Moved
    <3>2. QED
      BY <1>1, <2>1, <2>2, <3>1
  <2>4. QED
    BY <1>2, <2>3 DEF RoundInv, InData
<1>6. SlaveGoesOn' /\ SlaveSends'
  BY <1>1, <1>2 DEF SlaveGoesOn, SlaveSends, InData, DmaPc
<1>7. Reads("S") => pc["S"] = "stopf"
  BY <1>1, <1>2 DEF Reads, SlaveWaits, SlaveReceives
<1>8. pc["S"] = "stopf" => StoredAll("S")
  <2> SUFFICES ASSUME pc["S"] = "stopf" PROVE StoredAll("S")
    OBVIOUS
  <2>1. Stored("S") /\ Len(mem["S"]) = Size("S") - left["S"] /\ left["S"] = 0
    BY <1>1 DEF SlaveStores
  <2>2. Size("S") \in Nat
    <3>1. round["S"] \in 1 .. Len(plan)
      BY DEF LockFacts, SoundFacts, ThreadFacts
    <3>2. QED
      BY <3>1 DEF LockFacts, Size, MyRound
  <2>3. QED
    BY <2>1, <2>2 DEF Stored, StoredAll
<1>9. SlaveStores'
  <2>1. \A j : Source(j)' = Source(j)
    BY SameSource DEF SlaveCalm
  <2>2. StoredAll("S") => StoredAll("S")'
    BY <1>1, <1>2, <1>4, <2>1 DEF StoredAll, Holds
  <2>3. QED
    BY <1>1, <1>2, <1>4, <1>7, <1>8, <2>2 DEF SlaveStores
<1>10. QED
  BY <1>5, <1>6, <1>9 DEF SlavePart

LEMMA SlaveLock ==
  ASSUME LockFacts, Main("S")
  PROVE  MasterStores' /\ Wire' /\ LockInv'
<1>1. SlaveCalm /\ ~TryAgain("S") /\ ~GiveUp("S") /\ ~WaitTimeout("S") /\ ~CleanUp("S")
      /\ ~WaitAckFail("S") /\ ~WaitStop("S")
  BY SlaveCalmly, SlaveNoFail
<1>2. "S" # "M" /\ tx \in [Node -> Seq(Byte)] /\ flags \in [Node -> SUBSET Flags] /\ "S" \in Node
  BY DEF LockFacts, SoundFacts, MasterFacts
<1>3. "ADDR7F" \in flags'["S"] => "ADDR7F" \in flags["S"] /\ tx'["S"] = tx["S"]
  <2>1. CASE StartCall("S") \/ NextRound("S") \/ LookAgain("S") \/ NoEvent("S")
    BY <2>1 DEF StartCall, NextRound, LookAgain, NoEvent, hwVars
  <2>2. CASE EnableAck \/ SlaveClearAddr \/ SlaveReadByte \/ SlaveEnd
    BY <1>2, <2>2 DEF EnableAck, SlaveClearAddr, SlaveReadByte, SlaveEnd, ClearFlags
  <2>3. CASE SendData("S", "ackfail")
    BY <1>2, <2>3 DEF SendData, Came, FlagCame, TDBE, Transmitting, LockFacts, LockInv, SlaveSends, Follows
  <2>4. QED
    BY <1>1, <1>2, <2>1, <2>2, <2>3 DEF Main, Wait, Slave
<1>4. MasterStores' /\ Wire' /\ MasterGoesOn' /\ MasterSends' /\ Moved' = Moved
  BY <1>1, <1>3, SlaveCalmKeeps
<1>5. SlavePart'
  <2>1. CASE StartCall("S") \/ NextRound("S") \/ LookAgain("S") \/ NoEvent("S")
    BY <1>1, <1>4, <2>1, CommonSlaveLock
  <2>2. CASE Slave
    BY <1>1, <1>4, <2>2, SlaveOpensLock, SlaveReadsLock, SlaveSendsLock, SlaveEndsLock DEF Slave
  <2>3. QED
    BY <1>1, <1>2, <2>1, <2>2 DEF Main, Wait
<1>6. QED
  BY <1>4, <1>5 DEF LockInv, SlavePart

(* A step of the master leaves the slave where it is, and the frame in its *)
(* round.                                                                  *)
MasterCalm ==
  /\ UNCHANGED <<plan, env, store, clocked>>
  /\ SameThread("S") /\ SameRegisters("S")
  /\ sel' <=> sel

LEMMA MasterLockKeeps ==
  ASSUME LockFacts, MasterCalm, Moved' = Moved
  PROVE  SlavePart'
<1>1. SlaveGoesOn /\ RoundInv /\ SlaveStores /\ SlaveSends
  BY DEF LockFacts, LockInv
<1>2. UNCHANGED <<plan, clocked, pc["S"], left["S"], mem["S"], ret["S"], round["S"],
                  ctrl["S"], flags["S"], tx["S"], rx["S"]>>
  BY DEF MasterCalm, SameThread, SameRegisters
<1>3. /\ Ended("S", "OK")' = Ended("S", "OK") /\ Size("S")' = Size("S")
      /\ Reads("S")' = Reads("S")
  BY <1>2 DEF Ended, Size, MyRound, Reads
<1>4. Follows' <=> Follows
  BY <1>2 DEF Follows, MasterCalm
<1>5. \A j : Source(j)' = Source(j)
  BY SameSource DEF MasterCalm
<1>6. RoundInv'
  BY <1>1, <1>2, <1>3, <1>4 DEF RoundInv, Reported
<1>7. SlaveGoesOn'
  BY <1>1, <1>2 DEF SlaveGoesOn
<1>8. SlaveSends'
  BY <1>1, <1>2, <1>3, <1>4, <1>5 DEF SlaveSends, Holds
<1>9. SlaveStores'
  <2>1. /\ Stored("S") => Stored("S")'
        /\ StoredAll("S") => StoredAll("S")'
    BY <1>2, <1>3, <1>5 DEF Stored, StoredAll, Holds
  <2>2. QED
    BY <1>1, <1>2, <1>3, <1>4, <2>1 DEF SlaveStores
<1>10. QED
  BY <1>6, <1>7, <1>8, <1>9 DEF SlavePart

(* The application's steps of the master and the loops of its waits.       *)
LEMMA CommonMasterLock ==
  ASSUME LockFacts, MasterCalm,
         StartCall("M") \/ NextRound("M") \/ LookAgain("M") \/ NoEvent("M")
  PROVE  Wire' /\ LockInv'
<1> USE DEF Goto, Return, Stay
<1>1. /\ Wire /\ MasterGoesOn /\ MasterSends /\ MasterInv /\ "M" \in Node
      /\ pc \in [Node -> MainPc] /\ round["M"] \in Nat /\ round \in [Node -> Nat \ {0}]
      /\ UNCHANGED <<plan, clocked>>
  BY DEF LockFacts, LockInv, SoundFacts, MasterFacts, MasterCalm
<1>2. UNCHANGED <<ctrl, flags, tx, rx, phase, dir, sel, ret>>
  BY DEF StartCall, NextRound, LookAgain, NoEvent, hwVars, local
<1>3. /\ \/ UNCHANGED <<pc, left, round>>
         \/ pc["M"] = "idle" /\ pc'["M"] = "free" /\ UNCHANGED round
         \/ /\ pc["M"] = "returned" /\ ret["M"] = "OK" /\ pc'["M"] \in {"idle", "done"}
            /\ round'["M"] = round["M"] + 1
  <2>1. CASE StartCall("M")
    BY <1>1, <2>1 DEF StartCall, FirstWait, LockFacts, SoundFacts, app
  <2>2. CASE NextRound("M")
    BY <1>1, <2>2 DEF NextRound
  <2>3. CASE LookAgain("M") \/ NoEvent("M")
    BY <2>3 DEF LookAgain, NoEvent, local, app
  <2>4. QED
    BY <2>1, <2>2, <2>3
<1>4. /\ Reported("M")' = Reported("M") /\ (Ended("M", "ERR")' => Ended("M", "ERR"))
  <2>1. CASE UNCHANGED <<pc, left, round>>
    BY <1>2, <2>1 DEF Reported, Ended
  <2>2. CASE pc["M"] = "idle" /\ pc'["M"] = "free" /\ UNCHANGED round
    <3>1. ~Ended("M", "OK") /\ ~Ended("M", "OK")' /\ ~Ended("M", "ERR")'
      BY <2>2 DEF Ended
    <3>2. QED
      BY <2>2, <3>1 DEF Reported
  <2>3. CASE /\ pc["M"] = "returned" /\ ret["M"] = "OK" /\ pc'["M"] \in {"idle", "done"}
             /\ round'["M"] = round["M"] + 1
    <3>1. Ended("M", "OK") /\ ~Ended("M", "OK")' /\ ~Ended("M", "ERR")'
      BY <2>3 DEF Ended
    <3>2. Reported("M") = round["M"] - 0 /\ Reported("M")' = (round["M"] + 1) - 1
      BY <2>3, <3>1 DEF Reported
    <3>3. QED
      BY <1>1, <3>1, <3>2
  <2>4. QED
    BY <1>3, <2>1, <2>2, <2>3
<1>5. UNCHANGED <<pc, left, round>> \/ (pc["M"] \notin InFrame /\ pc'["M"] \notin InFrame)
  BY <1>3 DEF InFrame, Reading
<1>6. Moved' = Moved /\ FrameRound' = FrameRound
  BY <1>2, <1>4, <1>5 DEF Moved, FrameRound, InFrame
<1>7. MasterSends'
  <2>1. Posted' = Posted
    BY <1>1, <1>5, <1>6 DEF Posted, Size, MyRound
  <2>2. \A j : Source(j)' = Source(j)
    BY SameSource DEF MasterCalm
  <2>3. QED
    BY <1>1, <1>2, <1>6, <2>1, <2>2 DEF MasterSends, Holds
<1>8. MasterGoesOn'
  BY <1>1, <1>2, <1>3, <1>4, <1>6 DEF MasterGoesOn
<1>9. Wire'
  <2>1. pc["M"] = "returned" /\ ret["M"] = "OK" =>
          "GENSTART" \notin ctrl["M"] /\ ("GENSTOP" \in ctrl["M"] <=> phase # "free")
    BY <1>1 DEF MasterInv, Between
  <2>2. QED
    BY <1>1, <1>2, <1>3, <2>1 DEF Wire, Reading, DmaPc
<1>10. SlavePart'
  BY <1>6, MasterLockKeeps
<1>11. QED
  BY <1>7, <1>8, <1>9, <1>10 DEF LockInv, SlavePart

LEMMA MasterCalmly ==
  ASSUME LockFacts, Main("M")
  PROVE  MasterCalm /\ ~WaitStop("M") /\ ~WaitTimeout("M")
<1>1. /\ SoundFacts /\ TypeOK /\ "S" \in Node \ {"M"} /\ "M" \in Node
      /\ MasterGoesOn /\ Wire
  BY DEF LockFacts, LockInv, SoundFacts
<1>2. SameThread("S") /\ SameRegisters("S") /\ UNCHANGED <<env, plan, store>>
  BY <1>1, MainLocal DEF device
<1>3. ~WaitStop("M") /\ ~WaitTimeout("M")
  BY <1>1 DEF WaitStop, EventCheck, WaitTimeout, SoundFacts, Sound
<1>4. UNCHANGED clocked /\ (sel' <=> sel)
  <2>1. CASE StartCall("M") \/ NextRound("M") \/ GiveUp("M")
    BY <2>1 DEF StartCall, NextRound, GiveUp, hwVars
  <2>2. CASE Wait("M")
    BY <1>3, <2>2 DEF Wait, LookAgain, NoEvent, WaitAckFail, CleanUp, hwVars, busVars
  <2>3. CASE Master
    BY <1>1, <2>3, MasterLocal
  <2>4. CASE TryAgain("M")
    BY <2>4 DEF TryAgain, i2c_reset, hwVars
  <2>5. QED
    BY <2>1, <2>2, <2>3, <2>4 DEF Main
<1>5. QED
  BY <1>2, <1>3, <1>4 DEF MasterCalm

(* A call that has had no answer to its address: the frame is closing, or  *)
(* over.                                                                   *)
LEMMA MasterFailsLock ==
  ASSUME LockFacts, MasterCalm,
         TryAgain("M") \/ GiveUp("M") \/ WaitAckFail("M") \/ CleanUp("M")
  PROVE  Wire' /\ LockInv'
<1> USE DEF Goto, Return, Stay
<1>1. /\ Wire /\ MasterGoesOn /\ MasterSends /\ "M" \in Node
      /\ pc \in [Node -> MainPc] /\ ret \in [Node -> {"OK", "ERR"}]
      /\ flags \in [Node -> SUBSET Flags]
      /\ phase \in {"free", "start", "addr", "data", "closing"}
      /\ UNCHANGED <<plan, clocked>> /\ UNCHANGED flags["S"] /\ UNCHANGED tx["S"]
  BY DEF LockFacts, LockInv, SoundFacts, MasterFacts, MasterCalm, SameRegisters
<1>2. /\ phase \in {"closing", "free"} /\ phase' \in {"closing", "free"}
      /\ pc["M"] \notin Reading /\ ~Ended("M", "OK")
      /\ UNCHANGED round
      /\ "ACKFAIL" \notin flags'["M"]
      /\ \/ pc'["M"] \in {"idle", "fail"}
         \/ pc'["M"] = "gave_up" /\ ret'["M"] = "ERR"
         \/ pc'["M"] = "returned" /\ ret'["M"] = "ERR"
  <2>1. CASE TryAgain("M")
    <3>1. pc["M"] = "returned" /\ ret["M"] = "ERR" /\ pc'["M"] = "idle" /\ UNCHANGED round
      BY <1>1, <2>1 DEF TryAgain
    <3>2. phase \in {"closing", "free"} /\ "ACKFAIL" \notin flags["M"]
      BY <1>1, <3>1 DEF MasterGoesOn, Ended
    <3>3. phase' \in {"closing", "free"} /\ "ACKFAIL" \notin flags'["M"]
      <4>1. CASE i2c_reset("M")
        BY <1>1, <4>1 DEF i2c_reset
      <4>2. CASE UNCHANGED hwVars
        BY <3>2, <4>2 DEF hwVars
      <4>3. QED
        BY <2>1, <4>1, <4>2 DEF TryAgain
    <3>4. QED
      BY <3>1, <3>2, <3>3 DEF Reading, Ended
  <2>2. CASE GiveUp("M")
    <3>1. /\ pc["M"] = "returned" /\ ret["M"] = "ERR" /\ pc'["M"] = "gave_up" /\ ret' = ret
          /\ UNCHANGED <<round, flags, phase>>
      BY <1>1, <2>2 DEF GiveUp, hwVars, local, app
    <3>2. phase \in {"closing", "free"} /\ "ACKFAIL" \notin flags["M"]
      BY <1>1, <3>1 DEF MasterGoesOn, Ended
    <3>3. QED
      BY <3>1, <3>2 DEF Reading, Ended
  <2>3. CASE WaitAckFail("M")
    <3>1. /\ "ACKFAIL" \in flags["M"] /\ pc'["M"] = "fail" /\ flags'["M"] = flags["M"] \ {"ACKFAIL"}
          /\ UNCHANGED <<round, phase>>
      BY <1>1, <2>3 DEF WaitAckFail, ClearFlags, app, busVars
    <3>2. pc["M"] = "addr7" /\ phase = "closing"
      BY <1>1, <3>1 DEF MasterGoesOn
    <3>3. QED
      BY <3>1, <3>2 DEF Reading, Ended
  <2>4. CASE CleanUp("M")
    <3>1. /\ pc["M"] = "fail" /\ pc'["M"] = "returned" /\ ret'["M"] = "ERR"
          /\ UNCHANGED <<round, flags, phase>>
      BY <1>1, <2>4 DEF CleanUp, busVars, app
    <3>2. phase \in {"closing", "free"} /\ "ACKFAIL" \notin flags["M"]
      BY <1>1, <3>1 DEF MasterGoesOn
    <3>3. QED
      BY <3>1, <3>2 DEF Reading, Ended
  <2>5. QED
    BY <2>1, <2>2, <2>3, <2>4
<1>3. ~Ended("M", "OK")' /\ pc'["M"] \notin Reading
  BY <1>2 DEF Ended, Reading
<1>4. Moved' = Moved
  BY <1>2, <1>3 DEF Moved, Reported
<1>5. MasterSends' /\ MasterGoesOn'
  BY <1>2 DEF MasterSends, MasterGoesOn
<1>6. Wire'
  BY <1>1, <1>2 DEF Wire, DmaPc, MasterCalm
<1>7. SlavePart'
  BY <1>4, MasterLockKeeps
<1>8. QED
  BY <1>5, <1>6, <1>7 DEF LockInv, SlavePart

(* START and address.                                                      *)
LEMMA MasterStartsLock ==
  ASSUME LockFacts, MasterCalm, GenerateStart \/ SendAddress
  PROVE  Wire' /\ LockInv'
<1> USE DEF Goto, Return, Stay, Came
<1>1. /\ Wire /\ MasterGoesOn /\ MasterSends /\ "M" \in Node /\ FlagInv /\ MasterCount /\ ~Memory
      /\ pc \in [Node -> MainPc] /\ ret \in [Node -> {"OK", "ERR"}]
      /\ flags \in [Node -> SUBSET Flags]
      /\ UNCHANGED <<plan, clocked>> /\ UNCHANGED flags["S"] /\ UNCHANGED tx["S"]
  BY DEF LockFacts, LockInv, SoundFacts, MasterFacts, MasterCalm, SameRegisters
<1>2. /\ \/ pc["M"] = "free" /\ pc'["M"] = "startf" /\ phase = "free" /\ phase' = "free"
         \/ pc["M"] = "startf" /\ pc'["M"] = "addr7" /\ phase = "start" /\ phase' = "addr"
      /\ UNCHANGED round
      /\ "ACKFAIL" \in flags'["M"] => "ACKFAIL" \in flags["M"]
  <2>1. CASE GenerateStart
    <3>1. /\ pc["M"] = "free" /\ "BUSYF" \notin flags["M"] /\ pc'["M"] = "startf"
          /\ UNCHANGED <<phase, flags, round>>
      BY <1>1, <2>1 DEF GenerateStart, FlagCame, busVars, app
    <3>2. phase = "free"
      BY <1>1, <3>1 DEF FlagInv
    <3>3. QED
      BY <3>1, <3>2
  <2>2. CASE SendAddress
    <3>1. /\ pc["M"] = "startf" /\ "STARTF" \in flags["M"] /\ pc'["M"] = "addr7"
          /\ flags'["M"] = flags["M"] \ {"STARTF"} /\ phase' = "addr" /\ UNCHANGED round
      BY <1>1, <2>2 DEF SendAddress, FlagCame, i2c_7bit_address_send, ClearFlags, app, MasterCount
    <3>2. phase = "start"
      BY <1>1, <3>1 DEF FlagInv
    <3>3. QED
      BY <3>1, <3>2
  <2>3. QED
    BY <2>1, <2>2
<1>3. /\ ~Ended("M", "OK") /\ ~Ended("M", "OK")' /\ pc["M"] \notin Reading /\ pc'["M"] \notin Reading
      /\ phase \notin {"data", "closing"} /\ phase' \notin {"data", "closing"}
  BY <1>2 DEF Ended, Reading
<1>4. Moved' = Moved
  BY <1>2, <1>3 DEF Moved, Reported
<1>5. MasterSends' /\ MasterGoesOn'
  BY <1>1, <1>2, <1>3 DEF MasterSends, MasterGoesOn, Ended
<1>6. Wire'
  BY <1>1, <1>2, <1>3 DEF Wire, DmaPc, MasterCalm
<1>7. SlavePart'
  BY <1>4, MasterLockKeeps
<1>8. QED
  BY <1>5, <1>6, <1>7 DEF LockInv, SlavePart

(* A write, from the clearing of ADDR7F to the request of the STOP.        *)
LEMMA MasterWritesLock ==
  ASSUME LockFacts, MasterCalm, Master, ClearAddrToWrite \/ SendData("M", "tdc") \/ StopWrite
  PROVE  Wire' /\ LockInv'
<1> USE DEF Goto, Return, Stay, Came
<1> DEFINE t == tx["M"]
           k == round["M"]
<1>1. /\ Wire /\ MasterGoesOn /\ MasterSends /\ MasterInv /\ MasterCount /\ FlagInv
      /\ "M" \in Node /\ ~Memory
      /\ pc \in [Node -> MainPc] /\ ret \in [Node -> {"OK", "ERR"}] /\ left \in [Node -> Nat]
      /\ tx \in [Node -> Seq(Byte)] /\ flags \in [Node -> SUBSET Flags]
      /\ k \in Nat /\ clocked \in Nat
      /\ UNCHANGED <<plan, clocked, round>> /\ UNCHANGED flags["S"] /\ UNCHANGED tx["S"]
  BY MasterLocal DEF LockFacts, LockInv, SoundFacts, MasterFacts, MasterCalm, SameRegisters
<1>2. /\ pc["M"] \in {"addr7", "tdbe", "tdc"} /\ UNCHANGED <<phase, dir>>
      /\ "ACKFAIL" \in flags'["M"] => "ACKFAIL" \in flags["M"]
      /\ pc["M"] = "addr7" => "ADDR7F" \in flags["M"]
  BY <1>1 DEF ClearAddrToWrite, SendData, StopWrite, ClearFlags, FlagCame, busVars
<1>3. phase = "data" /\ dir = "write"
  <2>1. CASE pc["M"] = "addr7"
    <3>1. phase = "data" /\ MyRound("M").op # "read"
      BY <1>1, <1>2, <2>1 DEF FlagInv, ClearAddrToWrite, SendData, StopWrite
    <3>2. QED
      BY <1>1, <2>1, <3>1 DEF MasterInv, AddressInv
  <2>2. CASE pc["M"] \in {"tdbe", "tdc"}
    <3>1. Written
      BY <1>1, <2>2 DEF MasterInv
    <3>2. TDBE("M") \/ TDC("M")
      BY <1>1, <2>2 DEF ClearAddrToWrite, SendData, StopWrite, FlagCame
    <3>3. Len(rx["M"]) # 2
      <4>1. rx["M"] = <<>>
        BY <3>1 DEF Written, Leftover, LockFacts, SoundFacts
      <4>2. QED
        BY <4>1
    <3>4. QED
      BY <3>1, <3>2, <3>3 DEF TDBE, TDC, Transmitting, Written
  <2>3. QED
    BY <1>2, <2>1, <2>2
<1>4. FrameRound = k /\ Moved = k - 1 /\ Posted = Size("M") - left["M"]
      /\ Size("M") \in Nat /\ Size("M") = plan[k].M
  <2>1. pc["M"] \in InFrame /\ ~Ended("M", "OK")
    BY <1>2 DEF InFrame, Ended
  <2>2. Moved = k - 1 - 0
    BY <1>3, <2>1 DEF Moved, Reported
  <2>3. FrameRound = k /\ Moved = k - 1
    <3>1. \A i \in Nat : i - 1 - 0 = i - 1 /\ (i - 1 - 0) + 1 = i
      OBVIOUS
    <3>2. QED
      BY <1>1, <2>2, <3>1 DEF FrameRound
  <2>4. pc["M"] # "done"
    BY <1>2
  <2>5. Size("M") \in Nat
    BY <2>4 DEF LockFacts, SoundFacts, MasterFacts
  <2>6. QED
    BY <2>1, <2>3, <2>5 DEF Posted, Size, MyRound
<1>5. Holds(t, k, clocked) /\ clocked + Len(t) = Size("M") - left["M"] /\ t \in Seq(Byte) /\ Len(t) \in Nat
  <2>1. t \in Seq(Byte)
    BY <1>1
  <2>2. QED
    BY <1>1, <1>3, <1>4, <2>1 DEF MasterSends
<1>6. /\ Moved' = k - 1
      /\ Holds(tx'["M"], k, clocked) /\ clocked + Len(tx'["M"]) = Posted'
      /\ pc'["M"] \in {"tdbe", "tdc", "returned"} /\ ~Ended("M", "ERR")'
      /\ "ACKFAIL" \notin flags["M"]
  <2>1. "ACKFAIL" \notin flags["M"]
    BY <1>1, <1>3 DEF MasterGoesOn
  <2>2. ASSUME pc'["M"] \in {"tdbe", "tdc"}
        PROVE  Moved' = k - 1 /\ Posted' = Size("M") - left'["M"] /\ ~Ended("M", "ERR")'
    <3>1. pc'["M"] \in InFrame /\ ~Ended("M", "OK")' /\ ~Ended("M", "ERR")'
      BY <2>2 DEF InFrame, Ended
    <3>2. Moved' = k - 1 - 0
      BY <1>1, <1>2, <1>3, <3>1 DEF Moved, Reported
    <3>3. QED
      BY <1>1, <3>1, <3>2 DEF Posted, Size, MyRound
  <2>3. CASE ClearAddrToWrite
    <3>1. pc'["M"] = "tdbe" /\ UNCHANGED <<tx, left>>
      BY <1>1, <2>3 DEF ClearAddrToWrite, local
    <3>2. QED
      BY <1>5, <2>1, <2>2, <3>1
  <2>4. CASE SendData("M", "tdc")
    <3> DEFINE b == <<k, Size("M") - left["M"] + 1>>
    <3>1. /\ pc["M"] = "tdbe" /\ pc'["M"] \in {"tdc", "tdbe"} /\ tx'["M"] = Append(t, b)
          /\ left'["M"] = left["M"] - 1 /\ left["M"] \in Nat
      BY <1>1, <2>4 DEF SendData, i2c_data_send, Count
    <3>2. b = Source(k)[clocked + Len(t) + 1]
      <4> DEFINE i == clocked + Len(t) + 1
      <4>1. i \in Nat /\ b = <<k, i>>
        BY <1>1, <1>4, <1>5, <3>1
      <4> HIDE DEF i, b
      <4>2. Source(k)[i] = <<k, i>>
        BY <1>1, <4>1 DEF Source
      <4>3. QED
        BY <4>1, <4>2 DEF i
    <3>3. Holds(Append(t, b), k, clocked)
      <4> HIDE DEF b, k
      <4>1. QED
        BY <1>1, <1>5, <3>2, HoldsAppend
    <3>4. Len(Append(t, b)) = Len(t) + 1
      <4> HIDE DEF b
      <4>1. QED
        BY <1>5
    <3>5. clocked + Len(Append(t, b)) = Posted'
      <4>1. Posted' = Size("M") - (left["M"] - 1)
        BY <2>2, <3>1
      <4>2. clocked + Len(t) = Size("M") - left["M"] /\ Len(t) \in Nat
        BY <1>5
      <4>3. Size("M") \in Nat /\ left["M"] \in Nat /\ clocked \in Nat
        BY <1>1, <1>4
      <4> HIDE DEF t, b
      <4>4. clocked + (Len(t) + 1) = Size("M") - (left["M"] - 1)
        BY <4>2, <4>3
      <4>5. QED
        BY <3>4, <4>1, <4>4
    <3>6. QED
      BY <2>1, <2>2, <3>1, <3>3, <3>5
  <2>5. CASE StopWrite
    <3>1. /\ pc["M"] = "tdc" /\ pc'["M"] = "returned" /\ ret'["M"] = "OK" /\ UNCHANGED <<tx, left>>
          /\ left["M"] = 0
      BY <1>1, <2>5 DEF StopWrite, MasterCount
    <3>2. Ended("M", "OK")' /\ ~Ended("M", "ERR")' /\ pc'["M"] \notin InFrame
      BY <3>1 DEF Ended, InFrame, Reading
    <3>3. Moved' = k - 0 - 1
      BY <1>1, <1>2, <1>3, <3>2 DEF Moved, Reported
    <3>4. Moved' = k - 1 /\ FrameRound' = k
      BY <1>1, <3>3 DEF FrameRound
    <3>5. Posted' = plan[k].M
      BY <1>1, <3>2, <3>4 DEF Posted
    <3>6. QED
      BY <1>4, <1>5, <2>1, <3>1, <3>2, <3>4, <3>5
  <2>6. QED
    BY <2>3, <2>4, <2>5
<1>7. FrameRound' = FrameRound /\ Moved' = Moved
  BY <1>4, <1>6 DEF FrameRound
<1>8. MasterSends'
  <2>1. \A j : Source(j)' = Source(j)
    BY SameSource DEF MasterCalm
  <2>2. QED
    BY <1>1, <1>2, <1>4, <1>6, <1>7, <2>1 DEF MasterSends, Holds
<1>9. MasterGoesOn'
  BY <1>1, <1>2, <1>3, <1>6, <1>7 DEF MasterGoesOn
<1>10. Wire'
  BY <1>1, <1>2, <1>3, <1>6 DEF Wire, DmaPc, MasterCalm
<1>11. SlavePart'
  BY <1>7, MasterLockKeeps
<1>12. QED
  BY <1>8, <1>9, <1>10, <1>11 DEF LockInv, SlavePart

(* A read, from the clearing of ADDR7F to its last byte, which closes the  *)
(* frame.                                                                  *)
LEMMA MasterReadsLock ==
  ASSUME LockFacts, MasterCalm, Master,
         ClearAddrToRead \/ Ev6Stop \/ ReadByte \/ ReadThirdLast \/ ReadLastTwo
  PROVE  Wire' /\ LockInv'
<1> USE DEF Goto, Return, Stay, Came
<1>1. /\ Wire /\ MasterGoesOn /\ MasterInv /\ MasterCount /\ FlagInv
      /\ "M" \in Node /\ ~Memory
      /\ pc \in [Node -> MainPc] /\ flags \in [Node -> SUBSET Flags]
      /\ round["M"] \in Nat
      /\ UNCHANGED <<plan, clocked, round>> /\ UNCHANGED flags["S"] /\ UNCHANGED tx["S"]
  BY MasterLocal DEF LockFacts, LockInv, SoundFacts, MasterFacts, MasterCalm, SameRegisters
<1>2. /\ UNCHANGED <<phase, dir>>
      /\ "ACKFAIL" \in flags'["M"] => "ACKFAIL" \in flags["M"]
  BY <1>1 DEF ClearAddrToRead, Ev6Stop, ReadByte, ReadThirdLast, ReadLastTwo, ClearFlags, busVars
<1>3. \/ /\ pc["M"] = "addr7" /\ "ADDR7F" \in flags["M"] /\ MyRound("M").op = "read"
         /\ pc'["M"] \in Reading
      \/ pc["M"] \in Reading /\ pc'["M"] \in Reading
      \/ pc["M"] \in Reading /\ pc'["M"] = "returned" /\ ret'["M"] = "OK" /\ phase # "data"
  <2>1. CASE ClearAddrToRead
    <3>1. /\ pc["M"] = "addr7" /\ "ADDR7F" \in flags["M"] /\ MyRound("M").op = "read"
      BY <1>1, <2>1 DEF ClearAddrToRead, FlagCame, MasterCount
    <3>2. pc'["M"] \in Reading
      BY <1>1, <2>1, SMTT(30) DEF ClearAddrToRead, ReadWait, Reading
    <3>3. QED
      BY <3>1, <3>2
  <2>2. CASE Ev6Stop
    BY <1>1, <2>2 DEF Ev6Stop, Reading
  <2>3. CASE ReadByte \/ ReadThirdLast \/ ReadLastTwo
    BY <2>3, ReadEnds DEF LockFacts
  <2>4. QED
    BY <2>1, <2>2, <2>3
<1>4. /\ dir = "read" /\ phase \in {"data", "closing", "free"}
      /\ pc["M"] = "addr7" => phase = "data"
  <2>1. CASE pc["M"] = "addr7"
    BY <1>1, <1>3, <2>1 DEF FlagInv, MasterInv, AddressInv, Reading
  <2>2. CASE pc["M"] # "addr7"
    BY <1>1, <1>3, <2>2 DEF MasterInv, Reading, Read
  <2>3. QED
    BY <2>1, <2>2
<1>5. Moved' = Moved
  <2>1. CASE pc'["M"] \in Reading
    <3>1. Reported("M")' = Reported("M")
      <4>1. ~Ended("M", "OK") /\ ~Ended("M", "OK")'
        BY <1>3, <2>1 DEF Ended, Reading
      <4>2. QED
        BY <1>1, <4>1 DEF Reported
    <3>2. pc["M"] \in InFrame /\ pc'["M"] \in InFrame
      BY <1>3, <2>1 DEF InFrame, Reading
    <3>3. phase # "data" => pc["M"] \in Reading
      BY <1>3, <1>4, <2>1 DEF Reading
    <3>4. QED
      BY <1>1, <1>2, <2>1, <3>1, <3>2, <3>3 DEF Moved
  <2>2. CASE pc'["M"] \notin Reading
    <3>1. pc["M"] \in Reading /\ Ended("M", "OK")' /\ phase # "data"
      BY <1>3, <1>4, <2>2 DEF Ended, Reading
    <3>2. Moved = round["M"] /\ Moved' = round["M"] - 0
      BY <1>1, <1>2, <2>2, <3>1 DEF Moved, Reported
    <3>3. QED
      BY <1>1, <3>2
  <2>3. QED
    BY <2>1, <2>2
<1>6. MasterSends'
  BY <1>2, <1>4 DEF MasterSends
<1>7. MasterGoesOn'
  <2>1. FrameRound' = FrameRound
    BY <1>5 DEF FrameRound
  <2>2. "ACKFAIL" \notin flags["M"]
    BY <1>1, <1>3, <1>4 DEF MasterGoesOn, Reading
  <2>3. pc'["M"] \notin {"fail", "gave_up"} /\ ~Ended("M", "ERR")'
    BY <1>3 DEF Reading, Ended
  <2>4. QED
    BY <1>1, <1>2, <1>4, <2>1, <2>2, <2>3 DEF MasterGoesOn
<1>8. Wire'
  <2>1. pc'["M"] \in Reading \cup {"returned"} /\ pc'["M"] \notin DmaPc \cup {"done", "gave_up"}
    BY <1>3 DEF Reading, DmaPc
  <2>2. pc'["M"] = "returned" => phase # "data"
    BY <1>3 DEF Reading
  <2>3. QED
    BY <1>1, <1>2, <1>4, <2>1, <2>2 DEF Wire, MasterCalm
<1>9. SlavePart'
  BY <1>5, MasterLockKeeps
<1>10. QED
  BY <1>6, <1>7, <1>8, <1>9 DEF LockInv, SlavePart

LEMMA MasterLock ==
  ASSUME LockFacts, Main("M")
  PROVE  MasterStores' /\ Wire' /\ LockInv'
<1>1. MasterStores'
  BY MainStores DEF LockFacts
<1>2. MasterCalm /\ ~WaitStop("M") /\ ~WaitTimeout("M")
  BY MasterCalmly
<1>3. ~Memory /\ MasterCount /\ "M" # "S"
  BY DEF LockFacts, SoundFacts, MasterFacts
<1>4. CASE StartCall("M") \/ NextRound("M") \/ TryAgain("M") \/ GiveUp("M") \/ Wait("M")
  BY <1>1, <1>2, <1>4, CommonMasterLock, MasterFailsLock DEF Wait
<1>5. CASE Master
  <2>1. ~SendRegister /\ ~GenerateRestart /\ ~Ev6Ack
    BY <1>3 DEF SendRegister, GenerateRestart, Ev6Ack, Came, MasterCount
  <2>2. QED
    BY <1>1, <1>2, <1>5, <2>1, MasterStartsLock, MasterWritesLock, MasterReadsLock DEF Master
<1>6. QED
  BY <1>3, <1>4, <1>5 DEF Main

(* Who has asked for a START, and who not for a STOP.                      *)
LEMMA Requests ==
  ASSUME SoundFacts
  PROVE  /\ "GENSTART" \in ctrl["M"] => pc["M"] \in {"startf", "restartf"}
         /\ "GENSTOP" \in ctrl["M"] =>
              /\ pc["M"] \notin {"startf", "addr7", "tdbe_reg", "tdbe_restart", "restartf", "readdr7",
                                 "tdbe", "tdc", "ev6stop", "ev6ack", "rtdc"}
              /\ pc["M"] = "rdbf" => left["M"] = 1
<1>1. MasterInv /\ Wire /\ Steady /\ pc["M"] \in PolledPc("M") \cup DmaPc
      /\ ret["M"] \in {"OK", "ERR"}
  BY DEF SoundFacts, MasterFacts, ThreadFacts
<1>2. pc["M"] \in PolledPc("M")
  BY <1>1 DEF Wire
<1>3. ASSUME "GENSTART" \in ctrl["M"] PROVE pc["M"] \in {"startf", "restartf"}
  <2>1. ~Between
    BY <1>3 DEF Between
  <2>2. ~AfterFailure
    BY <1>1, <2>1 DEF AfterFailure
  <2>3. pc["M"] \notin {"idle", "free", "returned", "fail", "gave_up", "done"}
    BY <1>1, <1>3, <2>1, <2>2 DEF MasterInv, Wire
  <2>4. pc["M"] \notin {"addr7", "tdbe_reg", "tdbe_restart", "readdr7", "tdbe", "tdc"}
    BY <1>1, <1>3 DEF MasterInv, AddressInv, Written, Requested
  <2>5. pc["M"] \notin Reading
    BY <1>1, <1>3 DEF MasterInv, Reading, Read, Requested
  <2>6. QED
    BY <1>2, <2>3, <2>4, <2>5 DEF PolledPc, Waits, Reading
<1>4. ASSUME "GENSTOP" \in ctrl["M"]
      PROVE  /\ pc["M"] \notin {"startf", "addr7", "tdbe_reg", "tdbe_restart", "restartf", "readdr7",
                                "tdbe", "tdc", "ev6stop", "ev6ack", "rtdc"}
             /\ pc["M"] = "rdbf" => left["M"] = 1
  <2>1. pc["M"] \notin {"startf", "addr7", "tdbe_reg", "tdbe_restart", "restartf", "readdr7",
                        "tdbe", "tdc"}
    BY <1>1, <1>4 DEF MasterInv, AddressInv, Written, Requested
  <2>2. pc["M"] \in Reading => pc["M"] = "rdbf" /\ left["M"] = 1
    BY <1>1, <1>4 DEF MasterInv, Reading, Read
  <2>3. QED
    BY <2>1, <2>2 DEF Reading
<1>5. QED
  BY <1>3, <1>4

(* What a step of the bus leaves alone.                                    *)
BusCalm == Quiet /\ UNCHANGED faults

LEMMA BusKeeps ==
  ASSUME BusCalm
  PROVE  /\ UNCHANGED <<pc, checking, left, mem, ret, store, pointer, env, plan, round>>
         /\ \A n : /\ Ended(n, "OK")' = Ended(n, "OK") /\ Ended(n, "ERR")' = Ended(n, "ERR")
                   /\ Size(n)' = Size(n) /\ MyRound(n)' = MyRound(n) /\ Reads(n)' = Reads(n)
                   /\ Reported(n)' = Reported(n)
         /\ \A k : Source(k)' = Source(k)
         /\ Memory' = Memory
<1>1. UNCHANGED <<pc, checking, left, mem, ret, store, pointer, env, plan, round>>
  BY DEF BusCalm, Quiet, local, device, app
<1>2. \A k : Source(k)' = Source(k)
  BY <1>1, SameSource
<1>3. QED
  BY <1>1, <1>2 DEF Ended, Size, MyRound, Reads, Reported, Memory

(* A slave that does not follow the frame does not mind it.                *)
LEMMA BusSlaveKeeps ==
  ASSUME LockFacts, BusCalm, Moved' = Moved, ~Follows, ~Follows', rx'["S"] = rx["S"],
         ctrl'["S"] \subseteq ctrl["S"], "ACKEN" \in ctrl["S"] => "ACKEN" \in ctrl'["S"]
  PROVE  SlavePart'
<1>1. SlaveGoesOn /\ RoundInv /\ SlaveStores /\ SlaveSends
  BY DEF LockFacts, LockInv
<1>2. /\ UNCHANGED <<pc, left, mem, ret, plan, round>>
      /\ Ended("S", "OK")' = Ended("S", "OK") /\ Size("S")' = Size("S") /\ Reads("S")' = Reads("S")
      /\ Reported("S")' = Reported("S") /\ \A k : Source(k)' = Source(k)
  BY BusKeeps
<1>3. SlaveGoesOn' /\ RoundInv' /\ SlaveSends'
  BY <1>1, <1>2 DEF SlaveGoesOn, RoundInv, SlaveSends
<1>4. SlaveStores'
  <2>1. /\ Stored("S") => Stored("S")'
        /\ StoredAll("S") => StoredAll("S")'
    BY <1>2 DEF Stored, StoredAll, Holds
  <2>2. QED
    BY <1>1, <1>2, <2>1 DEF SlaveStores
<1>5. QED
  BY <1>3, <1>4 DEF SlavePart

(* START, and the answer to the address.                                   *)
LEMMA BusOpensLock ==
  ASSUME LockFacts, BusCalm, HwStart \/ HwAddrAck \/ HwAddrNack
  PROVE  MasterStores' /\ Wire' /\ LockInv'
<1>1. /\ SoundFacts /\ ~Memory /\ MasterStores /\ Wire /\ MasterGoesOn /\ MasterInv /\ MasterCount
      /\ "M" \in Node /\ "S" \in Node /\ "M" # "S" /\ round["M"] \in Nat \ {0}
      /\ flags \in [Node -> SUBSET Flags] /\ ctrl \in [Node -> SUBSET CtrlBits]
  BY DEF LockFacts, LockInv, SoundFacts, MasterFacts
<1>2. /\ UNCHANGED <<pc, left, mem, ret, plan, round, store>> /\ Reported("M")' = Reported("M")
      /\ Ended("M", "OK")' = Ended("M", "OK") /\ Ended("M", "ERR")' = Ended("M", "ERR")
      /\ Size("M")' = Size("M") /\ Reads("M")' = Reads("M")
      /\ \A k : Source(k)' = Source(k)
  BY BusKeeps
<1>3. /\ pc["M"] \in {"startf", "addr7"} /\ phase \notin {"data", "closing"}
      /\ UNCHANGED <<rx, dir>> /\ ctrl'["S"] = ctrl["S"]
      /\ HwStart => phase' = "start" /\ sel' = FALSE
      /\ ~HwStart => pc["M"] = "addr7" /\ phase = "addr"
  <2>1. CASE HwStart
    <3>1. pc["M"] \in {"startf", "restartf"} /\ "GENSTART" \in ctrl["M"]
      BY <1>1, <2>1, Requests DEF HwStart
    <3>2. pc["M"] = "startf" /\ phase = "free"
      BY <1>1, <3>1 DEF MasterCount, MasterInv, AddressInv
    <3>3. QED
      BY <1>1, <2>1, <3>2 DEF HwStart
  <2>2. CASE HwAddrAck \/ HwAddrNack
    <3>1. phase = "addr" /\ UNCHANGED <<rx, dir, ctrl>>
      BY <2>2 DEF HwAddrAck, HwAddrNack
    <3>2. pc["M"] = "addr7"
      BY <1>1, <3>1 DEF MasterGoesOn, MasterInv, AddressInv
    <3>3. ~HwStart
      BY <1>1, <3>2, Requests DEF HwStart
    <3>4. QED
      BY <3>1, <3>2, <3>3
  <2>3. QED
    BY <2>1, <2>2
<1>4. /\ phase' \in {"start", "data", "closing"} /\ (sel' <=> phase' = "data")
      /\ phase' = "data" =>
           /\ HwAddrAck
           /\ tx'["M"] = <<>> /\ tx'["S"] = <<>> /\ clocked' = 0 /\ "ADDR7F" \in flags'["S"]
      /\ phase' = "start" => HwStart
      /\ phase' # "data" => flags'["S"] \subseteq flags["S"] \cup {"BUSYF"}
      /\ "ACKFAIL" \in flags'["M"] => "ACKFAIL" \in flags["M"] \/ (HwAddrNack /\ phase' = "closing")
  <2>1. ~sel
    BY <1>1, <1>3 DEF Wire
  <2>2. CASE HwStart
    BY <1>1, <2>1, <2>2 DEF HwStart
  <2>3. CASE HwAddrAck
    BY <1>1, <2>1, <2>3 DEF HwAddrAck
  <2>4. CASE HwAddrNack
    BY <1>1, <2>1, <2>4 DEF HwAddrNack
  <2>5. QED
    BY <2>2, <2>3, <2>4
<1>5. ~Follows /\ ~Follows'
  BY <1>1, <1>3, <1>4 DEF Follows, Wire
<1>6. Moved' = Moved /\ FrameRound' = FrameRound
  <2>1. Moved = Reported("M")
    BY <1>3 DEF Moved, Reading
  <2>2. Moved' = Reported("M")
    <3>1. CASE phase' = "data"
      <4>1. pc["M"] = "addr7"
        BY <1>1, <1>3, <1>4, <3>1
      <4>2. Moved' = Reported("M") - 0
        BY <1>2, <3>1, <4>1 DEF Moved, InFrame
      <4>3. ~Ended("M", "OK")
        BY <1>3 DEF Ended
      <4>4. Reported("M") = round["M"] - 1
        BY <4>3 DEF Reported
      <4>5. QED
        BY <1>1, <4>2, <4>4
    <3>2. CASE phase' # "data"
      BY <1>2, <1>3, <3>2 DEF Moved, Reading
    <3>3. QED
      BY <3>1, <3>2
  <2>3. QED
    BY <2>1, <2>2 DEF FrameRound
<1>7. MasterStores'
  <2>1. mem["M"] = <<>>
    BY <1>1, <1>3 DEF MasterStores
  <2>2. QED
    BY <1>2, <1>3, <2>1 DEF MasterStores, Reading, Ended
<1>8. "ADDR7F" \notin flags["S"]
  BY <1>1, <1>3 DEF Wire
<1>9. Wire'
  BY <1>1, <1>2, <1>3, <1>4, <1>8 DEF Wire, DmaPc
<1>10. FrameRound = round["M"] /\ round["M"] \in 1 .. Len(plan)
  <2>1. ~Ended("M", "OK")
    BY <1>3 DEF Ended
  <2>2. Moved = round["M"] - 1
    BY <1>3, <2>1 DEF Moved, Reported, Reading
  <2>3. round["M"] \in 1 .. Len(plan)
    BY <1>1, <1>3 DEF SoundFacts, ThreadFacts
  <2>4. QED
    BY <1>1, <2>2, <2>3 DEF FrameRound
<1>11. MasterGoesOn'
  <2>1. "ACKFAIL" \notin flags["M"]
    BY <1>1, <1>3 DEF MasterGoesOn
  <2>2. phase' = "data" => dir' = plan[round["M"]].op
    <3> SUFFICES ASSUME phase' = "data" PROVE dir' = plan[round["M"]].op
      OBVIOUS
    <3>1. pc["M"] = "addr7" /\ dir' = dir
      BY <1>1, <1>3, <1>4
    <3>2. dir = IF MyRound("M").op = "read" THEN "read" ELSE "write"
      BY <1>1, <3>1 DEF MasterInv, AddressInv
    <3>3. plan[round["M"]].op \in {"write", "read"}
      BY <1>10 DEF LockFacts
    <3>4. QED
      BY <3>1, <3>2, <3>3 DEF MyRound
  <2>3. "ACKFAIL" \in flags'["M"] => pc["M"] = "addr7" /\ phase' = "closing"
    BY <1>1, <1>3, <1>4, <2>1
  <2>4. pc["M"] \notin {"fail", "gave_up"} /\ ~Ended("M", "ERR")
    BY <1>3 DEF Ended
  <2>5. QED
    BY <1>2, <1>3, <1>4, <1>6, <1>10, <2>2, <2>3, <2>4 DEF MasterGoesOn
<1>12. MasterSends'
  <2> SUFFICES ASSUME phase' = "data"
               PROVE  Holds(tx["M"], FrameRound, clocked)' /\ clocked' + Len(tx'["M"]) = Posted'
    BY DEF MasterSends
  <2>1. pc["M"] = "addr7" /\ tx'["M"] = <<>> /\ clocked' = 0
    BY <1>1, <1>3, <1>4
  <2>2. left["M"] = Size("M") /\ Size("M") \in Nat
    BY <1>1, <2>1 DEF MasterCount, SoundFacts, MasterFacts
  <2>3. Posted' = Size("M") - Size("M")
    BY <1>2, <2>1, <2>2 DEF Posted, InFrame
  <2>4. Posted' = 0
    BY <2>2, <2>3
  <2>5. QED
    BY <2>1, <2>4 DEF Holds
<1>13. SlavePart'
  BY <1>3, <1>5, <1>6, BusSlaveKeeps
<1>14. QED
  BY <1>7, <1>9, <1>11, <1>12, <1>13 DEF LockInv, SlavePart

(* A byte of a read; the last one closes the frame, and then the slave has *)
(* sent all of its own.                                                    *)
LEMMA BusReadsLock ==
  ASSUME LockFacts, PollInv', BusCalm, HwReadByte
  PROVE  MasterStores' /\ Wire' /\ LockInv'
<1>1. /\ UNCHANGED <<pc, left, mem, ret, plan, round, store, env>> /\ Reported("M")' = Reported("M")
      /\ \A n : /\ Ended(n, "OK")' = Ended(n, "OK") /\ Ended(n, "ERR")' = Ended(n, "ERR")
                /\ Size(n)' = Size(n) /\ Reads(n)' = Reads(n) /\ Reported(n)' = Reported(n)
      /\ \A k : Source(k)' = Source(k)
  BY BusKeeps
<1>2. /\ SoundFacts /\ Wire /\ MasterGoesOn /\ SlaveGoesOn /\ RoundInv /\ SlaveStores /\ SlaveSends
      /\ SlaveCount /\ clocked \in Nat /\ left["S"] \in Nat /\ round["M"] \in Nat \ {0}
  BY DEF LockFacts, LockInv, SoundFacts, MasterFacts
<1>3. /\ pc["M"] \in Reading /\ phase = "data" /\ dir = "read" /\ UNCHANGED <<dir, ctrl>>
      /\ sel /\ "ADDR7F" \notin flags["S"] /\ rx'["S"] = rx["S"]
      /\ clocked' = clocked + 1
      /\ phase' \in {"data", "closing"} /\ (sel' <=> phase' = "data")
      /\ flags'["M"] = flags["M"] /\ "ADDR7F" \notin flags'["S"]
      /\ phase' = "closing" => clocked' = Size("M")
  BY <1>1, <1>2, ReadByteSound
<1>4. Follows /\ InStep
  BY <1>3, FollowFacts DEF Follows
<1>5. /\ pc["S"] \in {"tdbe", "ackfail"} /\ round["M"] = FrameRound /\ round["S"] = FrameRound
      /\ Size("S") = Size("M") /\ Size("S") \in Nat \ {0}
  BY <1>3, <1>4 DEF InStep, InFrame
<1>6. Holds(tx["S"], round["M"], clocked) /\ clocked + Len(tx["S"]) = Size("S") - left["S"]
  BY <1>2, <1>4, <1>5 DEF SlaveSends
<1>7. /\ MasterStores'
      /\ Holds(tx'["S"], round["M"], clocked') /\ Len(tx'["S"]) = Len(tx["S"]) - 1
      /\ Len(tx["S"]) \in Nat \ {0}
  BY <1>1, <1>2, <1>6, ReadByteStores
<1>8. phase' = "closing" => left["S"] = 0 /\ pc["S"] = "ackfail"
  <2> SUFFICES ASSUME phase' = "closing" PROVE left["S"] = 0 /\ pc["S"] = "ackfail"
    OBVIOUS
  <2>1. clocked + 1 = Size("S")
    BY <1>3, <1>5
  <2>2. left["S"] = 0
    BY <1>2, <1>5, <1>6, <1>7, <2>1
  <2>3. QED
    BY <1>2, <1>5, <2>2 DEF SlaveCount
<1>9. Follows' <=> phase' = "data"
  BY <1>3 DEF Follows
<1>10. Moved = round["M"] - 1 /\ Moved' = IF phase' = "data" THEN Moved ELSE Moved + 1
  <2>1. ~Ended("M", "OK")
    BY <1>3 DEF Ended, Reading
  <2>2. Moved = round["M"] - 1 - 0
    BY <1>3, <2>1 DEF Moved, Reported, InFrame
  <2>3. phase' = "data" => Moved' = round["M"] - 1 - 0
    BY <1>1, <1>3, <2>1 DEF Moved, Reported, InFrame
  <2>4. phase' # "data" => Moved' = round["M"]
    BY <1>1, <1>3 DEF Moved
  <2>5. QED
    BY <1>2, <2>2, <2>3, <2>4
<1>11. RoundInv'
  <2>1. Reported("S") = Moved
    BY <1>2, <1>4 DEF RoundInv
  <2>2. pc'["S"] \in InData
    BY <1>1, <1>5 DEF InData
  <2>3. CASE phase' = "data"
    BY <1>1, <1>9, <1>10, <2>1, <2>3 DEF RoundInv
  <2>4. CASE phase' # "data"
    <3>1. Moved' - 1 = Moved
      BY <1>2, <1>10, <2>4
    <3>2. QED
      BY <1>1, <1>9, <2>1, <2>2, <2>4, <3>1 DEF RoundInv
  <2>5. QED
    BY <2>3, <2>4
<1>12. SlaveGoesOn' /\ MasterSends'
  BY <1>1, <1>2, <1>3 DEF SlaveGoesOn, MasterSends
<1>13. MasterGoesOn'
  <2>1. "ACKFAIL" \notin flags'["M"]
    BY <1>2, <1>3 DEF MasterGoesOn
  <2>2. pc'["M"] \notin {"fail", "gave_up"} /\ ~Ended("M", "ERR")'
    BY <1>1, <1>3 DEF Ended, Reading
  <2>3. phase' = "data" => FrameRound' = FrameRound
    BY <1>10 DEF FrameRound
  <2>4. QED
    BY <1>1, <1>2, <1>3, <2>1, <2>2, <2>3 DEF MasterGoesOn
<1>14. Wire'
  BY <1>1, <1>2, <1>3 DEF Wire, Reading
<1>15. SlaveStores'
  <2>1. StoredAll("S") => StoredAll("S")'
    BY <1>1 DEF StoredAll, Holds
  <2>2. QED
    BY <1>1, <1>2, <1>3, <1>5, <2>1 DEF SlaveStores
<1>16. SlaveSends'
  <2>1. phase' = "data" =>
          Holds(tx["S"], round["S"], clocked)' /\ clocked' + Len(tx'["S"]) = (Size("S") - left["S"])'
    <3>1. Holds(tx'["S"], round["S"], clocked')
      BY <1>5, <1>7
    <3>2. Holds(tx["S"], round["S"], clocked)'
      BY <1>1, <3>1 DEF Holds
    <3>3. clocked' + Len(tx'["S"]) = Size("S") - left["S"]
      <4> DEFINE l == Len(tx["S"])
                 m == Len(tx'["S"])
                 z == Size("S") - left["S"]
      <4>1. clocked' = clocked + 1 /\ m = l - 1 /\ clocked + l = z /\ l \in Nat /\ clocked \in Nat
        BY <1>2, <1>3, <1>6, <1>7
      <4> HIDE DEF l, m, z
      <4>2. clocked' + m = z
        BY <4>1
      <4>3. QED
        BY <4>2 DEF m, z
    <3>4. QED
      BY <1>1, <3>2, <3>3
  <2>2. QED
    BY <1>1, <1>2, <1>3, <1>8, <1>9, <2>1 DEF SlaveSends
<1>17. QED
  BY <1>7, <1>11, <1>12, <1>13, <1>14, <1>15, <1>16 DEF LockInv

(* A byte of a write: the slave has room for it and takes it.              *)
LEMMA BusWritesLock ==
  ASSUME LockFacts, BusCalm, HwWriteByte(FALSE)
  PROVE  MasterStores' /\ Wire' /\ LockInv'
<1> DEFINE t == tx["M"]
           s == rx["S"]
           k == FrameRound
           a == Len(mem["S"])
<1>1. /\ UNCHANGED <<pc, left, mem, ret, plan, round, store>> /\ Reported("M")' = Reported("M")
      /\ \A n : /\ Ended(n, "OK")' = Ended(n, "OK") /\ Ended(n, "ERR")' = Ended(n, "ERR")
                /\ Size(n)' = Size(n) /\ Reads(n)' = Reads(n) /\ Reported(n)' = Reported(n)
      /\ \A j : Source(j)' = Source(j)
  BY BusKeeps
<1>2. /\ SoundFacts /\ Wire /\ MasterGoesOn /\ SlaveGoesOn /\ RoundInv /\ SlaveStores /\ SlaveSends
      /\ MasterSends /\ MasterInv /\ MasterStores
      /\ SlaveCount /\ clocked \in Nat /\ left["S"] \in Nat
      /\ tx \in [Node -> Seq(Byte)] /\ rx \in [Node -> Seq(Byte)] /\ mem \in [Node -> Seq(Byte)]
      /\ "M" \in Node /\ "S" \in Node /\ "M" # "S"
  BY DEF LockFacts, LockInv, SoundFacts, MasterFacts
<1>3. t \in Seq(Byte) /\ s \in Seq(Byte) /\ mem["S"] \in Seq(Byte)
  BY <1>2
<1>4. /\ phase = "data" /\ dir = "write" /\ t # <<>> /\ sel /\ "ADDR7F" \notin flags["S"]
      /\ rx' = [rx EXCEPT !["S"] = Append(@, Head(t))] /\ clocked' = clocked + 1
      /\ UNCHANGED <<ctrl, dir, sel>>
  <2>1. /\ phase = "data" /\ dir = "write" /\ t # <<>> /\ ~SlaveStretches /\ clocked' = clocked + 1
        /\ UNCHANGED <<ctrl, dir, sel>>
    BY DEF HwWriteByte
  <2>2. sel
    BY <1>2, <2>1 DEF Wire
  <2>3. "ADDR7F" \notin flags["S"]
    BY <2>1, <2>2 DEF SlaveStretches
  <2>4. QED
    BY <2>1, <2>2, <2>3 DEF HwWriteByte
<1>5. Follows /\ InStep
  BY <1>4, FollowFacts DEF Follows
<1>6. /\ pc["S"] \in {"rdbf", "stopf"} /\ round["S"] = k
      /\ clocked + Len(t) <= Size("S") /\ Size("S") \in Nat \ {0}
  BY <1>4, <1>5 DEF InStep
<1>7. tx' = [tx EXCEPT !["M"] = Tail(@)] /\ UNCHANGED <<flags, phase>>
  <2>1. "ACKEN" \in ctrl["S"]
    BY <1>2, <1>6 DEF SlaveGoesOn, InData
  <2>2. QED
    BY <1>4, <2>1 DEF HwWriteByte
<1>8. pc["M"] \notin Reading
  BY <1>2, <1>4 DEF MasterInv, Reading, Read
<1>9. Follows' /\ Moved' = Moved /\ FrameRound' = FrameRound
  BY <1>1, <1>4, <1>5, <1>7 DEF Follows, Moved, FrameRound
<1>10. MasterStores'
  <2>1. StoredAll("M") => StoredAll("M")'
    BY <1>1 DEF StoredAll, Holds
  <2>2. QED
    BY <1>1, <1>2, <1>8, <2>1 DEF MasterStores
<1>11. Wire' /\ SlaveGoesOn' /\ MasterGoesOn'
  BY <1>1, <1>2, <1>4, <1>7, <1>9 DEF Wire, SlaveGoesOn, MasterGoesOn
<1>12. RoundInv'
  BY <1>1, <1>2, <1>5, <1>9 DEF RoundInv
<1>13. Len(t) \in Nat \ {0} /\ a \in Nat /\ Len(s) \in Nat
  <2>1. Len(t) \in Nat /\ a \in Nat /\ Len(s) \in Nat
    BY <1>3
  <2>2. Len(t) # 0
    BY <1>3, <1>4, EmptySeq
  <2>3. QED
    BY <2>1, <2>2
<1>14. /\ Stored("S") /\ a + Len(s) = clocked /\ a = Size("S") - left["S"]
       /\ pc["S"] = "stopf" => left["S"] = 0
  BY <1>2, <1>5, <1>6 DEF SlaveStores
<1>15. pc["S"] = "rdbf"
  <2> SUFFICES ASSUME pc["S"] = "stopf" PROVE FALSE
    BY <1>6
  <2>1. a = Size("S")
    BY <1>6, <1>14
  <2> DEFINE l == Len(t)
             b == Len(s)
             z == Size("S")
  <2>2. a = z /\ a + b = clocked /\ clocked + l <= z /\ l \in Nat \ {0} /\ b \in Nat /\ a \in Nat
    BY <1>6, <1>13, <1>14, <2>1
  <2> HIDE DEF l, b, z, a
  <2>3. QED
    BY <2>2
<1>16. /\ Holds(t, k, clocked) /\ clocked + Len(t) = Posted
  BY <1>2, <1>4 DEF MasterSends
<1>17. /\ Head(t) = Source(k)[clocked + 1] /\ Holds(Tail(t), k, clocked + 1)
       /\ Len(Tail(t)) = Len(t) - 1
  <2> HIDE DEF t, k
  <2>1. QED
    BY <1>2, <1>3, <1>4, <1>16, HoldsTail
<1>18. MasterSends'
  <2>1. tx'["M"] = Tail(t)
    BY <1>2, <1>7
  <2>2. Posted' = Posted
    BY <1>1, <1>9 DEF Posted
  <2>3. clocked' + Len(tx'["M"]) = clocked + Len(t)
    <3>1. clocked' + Len(tx'["M"]) = (clocked + 1) + (Len(t) - 1)
      BY <1>4, <1>17, <2>1
    <3> DEFINE l == Len(t)
    <3>2. l \in Nat \ {0}
      BY <1>13
    <3> HIDE DEF l
    <3>3. (clocked + 1) + (l - 1) = clocked + l
      BY <1>2, <3>2
    <3>4. QED
      BY <3>1, <3>3 DEF l
  <2>4. Holds(tx'["M"], k, clocked')
    BY <1>4, <1>17, <2>1
  <2>5. QED
    BY <1>1, <1>9, <1>16, <2>2, <2>3, <2>4 DEF MasterSends, Holds
<1>19. Holds(rx'["S"], k, a) /\ a + Len(rx'["S"]) = clocked'
  <2> DEFINE b == Head(t)
  <2>1. rx'["S"] = Append(s, b)
    BY <1>2, <1>4
  <2>2. Holds(s, k, a)
    BY <1>6, <1>14 DEF Stored
  <2>3. b = Source(k)[a + Len(s) + 1]
    BY <1>14, <1>17
  <2>4. Len(Append(s, b)) = Len(s) + 1
    <3> HIDE DEF b
    <3>1. QED
      BY <1>3
  <2>5. Holds(Append(s, b), k, a)
    <3> HIDE DEF b, s, k, a
    <3>1. QED
      BY <1>3, <1>13, <2>2, <2>3, HoldsAppend
  <2>6. a + (Len(s) + 1) = clocked + 1
    <3> DEFINE l == Len(s)
    <3>1. a \in Nat /\ l \in Nat /\ clocked \in Nat /\ a + l = clocked
      BY <1>2, <1>13, <1>14
    <3> HIDE DEF l, a
    <3>2. a + (l + 1) = clocked + 1
      BY <3>1
    <3>3. QED
      BY <3>2 DEF l
  <2>7. QED
    BY <1>4, <2>1, <2>4, <2>5, <2>6
<1>20. Stored("S")' /\ Len(mem'["S"]) + Len(rx'["S"]) = clocked'
  <2>1. Holds(mem["S"], k, 0)
    BY <1>6, <1>14 DEF Stored
  <2>2. QED
    BY <1>1, <1>6, <1>19, <2>1 DEF Stored, Holds
<1>21. SlaveStores'
  BY <1>1, <1>9, <1>14, <1>15, <1>20 DEF SlaveStores, Ended
<1>22. SlaveSends'
  BY <1>1, <1>15 DEF SlaveSends
<1>23. QED
  BY <1>10, <1>11, <1>12, <1>18, <1>21, <1>22 DEF LockInv

(* A STOP ends a write whose last byte the slave has taken, or a frame     *)
(* that is closing anyway.                                                 *)
LEMMA BusStopsLock ==
  ASSUME LockFacts, BusCalm, HwStop
  PROVE  MasterStores' /\ Wire' /\ LockInv'
<1>1. /\ UNCHANGED <<pc, left, mem, ret, plan, round, store>>
      /\ \A n : /\ Ended(n, "OK")' = Ended(n, "OK") /\ Ended(n, "ERR")' = Ended(n, "ERR")
                /\ Size(n)' = Size(n) /\ Reads(n)' = Reads(n) /\ Reported(n)' = Reported(n)
      /\ \A j : Source(j)' = Source(j)
  BY BusKeeps
<1>2. /\ SoundFacts /\ Wire /\ MasterGoesOn /\ SlaveGoesOn /\ RoundInv /\ SlaveStores /\ SlaveSends
      /\ MasterSends /\ MasterInv /\ MasterStores /\ FlagInv /\ Steady /\ InTimeSoFar
      /\ SlaveCount /\ clocked \in Nat /\ round["M"] \in Nat
      /\ tx \in [Node -> Seq(Byte)] /\ rx \in [Node -> Seq(Byte)]
      /\ ctrl \in [Node -> SUBSET CtrlBits] /\ flags \in [Node -> SUBSET Flags]
      /\ "M" \in Node /\ "S" \in Node /\ "M" # "S"
      /\ pc["M"] \in PolledPc("M") \cup DmaPc
  BY DEF LockFacts, LockInv, SoundFacts, MasterFacts, ThreadFacts
<1>3. /\ "GENSTOP" \in ctrl["M"] /\ ByteBoundary /\ ~SlaveStretches
      /\ ctrl' = [n \in Node |-> ctrl[n] \ {"GENSTOP"}]
      /\ flags'["M"] \subseteq flags["M"] /\ flags'["S"] \subseteq flags["S"] \cup {"STOPF"}
      /\ phase' = "free" /\ sel' = FALSE /\ UNCHANGED <<tx, rx, dir, clocked>>
  BY <1>2 DEF HwStop
<1>4. /\ pc["M"] \notin {"startf", "addr7", "tdbe", "tdc", "ev6stop", "ev6ack", "rtdc"}
      /\ pc["M"] = "rdbf" => left["M"] = 1
  BY <1>2, <1>3, Requests
<1>5. phase \in {"data", "closing"}
  BY <1>2, <1>3, <1>4 DEF ByteBoundary, MasterGoesOn
<1>6. phase = "data" => dir = "write" /\ pc["M"] \notin InFrame /\ tx["M"] = <<>>
  <2> SUFFICES ASSUME phase = "data" PROVE dir = "write" /\ pc["M"] \notin InFrame /\ tx["M"] = <<>>
    OBVIOUS
  <2>1. pc["M"] \notin Reading
    <3> SUFFICES ASSUME pc["M"] \in Reading PROVE FALSE
      OBVIOUS
    <3>1. Read /\ pc["M"] = "rdbf" /\ left["M"] = 1
      BY <1>2, <1>4 DEF MasterInv, Reading
    <3>2. dir = "read" /\ "ADDR7F" \notin flags["M"] /\ rx["M"] = <<>>
      BY <1>2, <3>1 DEF Read, OnlyByte
    <3>3. Len(rx["M"]) # 2
      BY <3>2
    <3>4. QED
      BY <1>3, <3>2, <3>3 DEF ByteBoundary
  <2>2. dir # "read"
    <3>1. pc["M"] \notin {"addr7", "readdr7"}
      BY <1>2, <1>3, Requests
    <3>2. QED
      BY <1>2, <2>1, <3>1 DEF Wire
  <2>3. dir = "write"
    BY <2>2 DEF LockFacts, SoundFacts
  <2>4. pc["M"] \notin InFrame
    BY <1>4, <2>1 DEF InFrame
  <2>5. tx["M"] = <<>>
    BY <1>2, <1>3, <2>2 DEF ByteBoundary, FlagInv
  <2>6. QED
    BY <2>3, <2>4, <2>5
<1>7. MasterStores'
  BY <1>1, <1>2, <1>3, StoresKeep
<1>8. Wire'
  <2>1. "ADDR7F" \notin flags["S"]
    BY <1>2, <1>3 DEF Wire, SlaveStretches
  <2>2. "ADDR7F" \notin flags'["S"]
    BY <1>3, <2>1
  <2>3. "GENSTOP" \notin ctrl'["M"] /\ ("GENSTART" \in ctrl'["M"] => "GENSTART" \in ctrl["M"])
    BY <1>2, <1>3
  <2>4. QED
    BY <1>1, <1>2, <1>3, <2>2, <2>3 DEF Wire
<1>9. MasterGoesOn' /\ MasterSends'
  <2>1. "ACKFAIL" \notin flags["M"]
    BY <1>2, <1>4 DEF MasterGoesOn
  <2>2. QED
    BY <1>1, <1>3, <2>1 DEF MasterGoesOn, MasterSends
<1>10. /\ ctrl'["S"] \subseteq ctrl["S"] /\ ("ACKEN" \in ctrl["S"] => "ACKEN" \in ctrl'["S"])
  BY <1>2, <1>3
<1>11. CASE phase = "closing"
  <2>1. ~Follows /\ ~Follows'
    BY <1>2, <1>3, <1>11 DEF Follows, Wire
  <2>2. Moved' = Moved
    BY <1>1, <1>3, <1>11 DEF Moved
  <2>3. SlavePart'
    BY <1>3, <1>10, <2>1, <2>2, BusSlaveKeeps
  <2>4. QED
    BY <1>7, <1>8, <1>9, <2>3 DEF LockInv, SlavePart
<1>12. CASE phase = "data"
  <2>1. dir = "write" /\ pc["M"] \notin InFrame /\ tx["M"] = <<>>
    BY <1>6, <1>12
  <2>2. Follows /\ InStep /\ ~Follows'
    <3>1. Follows
      BY <1>2, <1>3, <1>12 DEF Wire, SlaveStretches, Follows
    <3>2. QED
      BY <1>3, <3>1, FollowFacts DEF Follows
  <2>3. clocked = Size("S") /\ pc["S"] \in {"rdbf", "stopf"}
    <3>1. clocked + Len(tx["M"]) = plan[FrameRound].M
      BY <1>2, <1>12, <2>1 DEF MasterSends, Posted
    <3>2. Len(tx["M"]) = 0
      BY <2>1
    <3>3. QED
      BY <1>2, <2>1, <2>2, <3>1, <3>2 DEF InStep
  <2>4. Moved = Reported("M") - 1 /\ Moved' = Reported("M") /\ Reported("M") \in Int
    <3>1. pc["M"] \notin Reading
      BY <2>1 DEF InFrame
    <3>2. Reported("M") \in Int
      BY <1>2 DEF Reported
    <3>3. QED
      BY <1>1, <1>3, <1>12, <2>1, <3>1, <3>2 DEF Moved
  <2>5. RoundInv'
    <3>1. Reported("S") = Moved
      BY <1>2, <2>2 DEF RoundInv
    <3>2. Reported("S") = Moved' - 1
      BY <2>4, <3>1
    <3>3. QED
      BY <1>1, <2>2, <2>3, <3>2 DEF RoundInv, InData
  <2>6. SlaveGoesOn' /\ SlaveSends'
    BY <1>1, <1>2, <1>10, <2>2, <2>3 DEF SlaveGoesOn, SlaveSends
  <2>7. SlaveStores'
    <3>1. Stored("S") => Stored("S")'
      BY <1>1, <1>3 DEF Stored, Holds
    <3>2. /\ Stored("S") /\ Len(mem["S"]) + Len(rx["S"]) = Size("S")
          /\ Len(mem["S"]) = Size("S") - left["S"]
          /\ pc["S"] = "stopf" => left["S"] = 0
          /\ rx["S"] # <<>> => pc["S"] = "rdbf"
      BY <1>2, <2>2, <2>3 DEF SlaveStores
    <3>3. QED
      BY <1>1, <1>3, <2>2, <2>3, <3>1, <3>2 DEF SlaveStores, Ended
  <2>8. QED
    BY <1>7, <1>8, <1>9, <2>5, <2>6, <2>7 DEF LockInv
<1>13. QED
  BY <1>5, <1>11, <1>12

(* No other step of the bus is there over a sound line.                    *)
LEMMA BusLock ==
  ASSUME LockFacts, PollInv', Bus \/ Fault
  PROVE  MasterStores' /\ Wire' /\ LockInv'
<1>1. SoundFacts /\ MasterInv /\ SlaveGoesOn /\ MasterCount /\ ~Memory /\ Wire
  BY DEF LockFacts, LockInv, SoundFacts, MasterFacts
<1>2. ~Fault
  <2>1. faults \in Nat /\ env.faults = 0
    BY <1>1 DEF SoundFacts, Sound
  <2>2. ~(faults < env.faults)
    BY <2>1
  <2>3. QED
    BY <2>2 DEF Fault
<1>3. BusCalm
  BY <1>2 DEF Bus, BusCalm
<1>4. ~HwOverrunByte
  BY <1>1, NoOverrun
<1>5. ~HwSlaveRelease
  BY <1>1 DEF HwSlaveRelease, SlaveGoesOn
<1>6. ~HwRestart
  <2> SUFFICES ASSUME HwRestart PROVE FALSE
    OBVIOUS
  <2>1. "GENSTART" \in ctrl["M"] /\ phase \in {"data", "closing"}
    BY DEF HwRestart
  <2>2. pc["M"] = "startf"
    BY <1>1, <2>1, Requests DEF MasterCount
  <2>3. QED
    BY <1>1, <2>1, <2>2 DEF MasterInv, AddressInv
<1>7. HwStart \/ HwAddrAck \/ HwAddrNack \/ HwReadByte \/ HwStop \/ HwWriteByte(FALSE)
  BY <1>2, <1>4, <1>5, <1>6 DEF Bus
<1>8. QED
  BY <1>3, <1>7, BusOpensLock, BusReadsLock, BusWritesLock, BusStopsLock

(***************************************************************************)
(* The memory device.                                                      *)
(***************************************************************************)

MemFacts == SoundFacts /\ MemoryFacts /\ MemoryInv

(* The master's calls.                                                     *)
LEMMA CommonMasterMem ==
  ASSUME MemFacts, MasterCalm, UNCHANGED pointer,
         StartCall("M") \/ NextRound("M") \/ TryAgain("M") \/ GiveUp("M") \/ Wait("M")
  PROVE  Wire' /\ MemoryInv'
<1> USE DEF Goto, Return, Stay
<1>1. /\ Wire /\ RegisterGiven /\ Gives /\ DeviceWire /\ MasterInv /\ "M" \in Node
      /\ pc \in [Node -> MainPc] /\ ret \in [Node -> {"OK", "ERR"}]
      /\ UNCHANGED <<plan, store, pointer>>
  BY DEF MemFacts, MemoryInv, SoundFacts, MasterFacts, MasterCalm
<1>2. StartCall("M") \/ NextRound("M") \/ LookAgain("M") \/ NoEvent("M")
  <2>1. ~TryAgain("M") /\ ~GiveUp("M") /\ ~CleanUp("M")
    BY <1>1 DEF TryAgain, GiveUp, CleanUp, DeviceWire
  <2>2. ~WaitAckFail("M") /\ ~WaitStop("M")
    BY <1>1 DEF WaitAckFail, WaitStop, EventCheck, DeviceWire
  <2>3. ~WaitTimeout("M")
    BY DEF WaitTimeout, MemFacts, SoundFacts, Sound
  <2>4. QED
    BY <2>1, <2>2, <2>3 DEF Wait
<1>3. UNCHANGED <<ctrl, flags, tx, rx, phase, dir, sel, clocked, ret>>
  BY <1>2 DEF StartCall, NextRound, LookAgain, NoEvent, hwVars, local
<1>4. \/ UNCHANGED <<pc, round>>
      \/ pc["M"] = "idle" /\ pc'["M"] = "free" /\ UNCHANGED round
      \/ pc["M"] = "returned" /\ ret["M"] = "OK" /\ pc'["M"] \in {"idle", "done"}
  <2>1. CASE StartCall("M")
    <3>1. "M" # "S"
      BY DEF MemoryFacts, MemFacts
    <3>2. QED
      BY <1>1, <2>1, <3>1 DEF StartCall, FirstWait, app
  <2>2. CASE NextRound("M")
    BY <1>1, <2>2 DEF NextRound
  <2>3. CASE LookAgain("M") \/ NoEvent("M")
    BY <2>3 DEF LookAgain, NoEvent, app
  <2>4. QED
    BY <1>2, <2>1, <2>2, <2>3
<1>5. Wire'
  <2>1. pc["M"] = "returned" /\ ret["M"] = "OK" =>
          "GENSTART" \notin ctrl["M"] /\ ("GENSTOP" \in ctrl["M"] <=> phase # "free")
    BY <1>1 DEF MasterInv, Between
  <2>2. QED
    BY <1>1, <1>3, <1>4, <2>1 DEF Wire, Reading, DmaPc
<1>6. \A k, j : StreamByte(k, j)' = StreamByte(k, j) /\ Place(k, j)' = Place(k, j)
  BY <1>1 DEF StreamByte, Place
<1>7. RegisterGiven'
  <2>1. CASE UNCHANGED <<pc, round>>
    BY <1>1, <1>3, <1>6, <2>1 DEF RegisterGiven
  <2>2. CASE pc'["M"] \in {"free", "idle", "done"}
    BY <2>2 DEF RegisterGiven
  <2>3. QED
    BY <1>4, <2>1, <2>2
<1>8. Gives'
  <2> SUFFICES ASSUME phase = "data", dir = "read" PROVE Gives'
    BY <1>3 DEF Gives
  <2>1. UNCHANGED <<pc, round>>
    BY <1>1, <1>4 DEF Wire, Reading
  <2>2. \A k : Source(k)' = Source(k)
    BY <1>1, SameSource
  <2>3. QED
    BY <1>1, <1>3, <1>6, <2>1, <2>2 DEF Gives, Holds
<1>9. DeviceWire'
  BY <1>1, <1>3, <1>4 DEF DeviceWire
<1>10. QED
  BY <1>5, <1>7, <1>8, <1>9 DEF MemoryInv

LEMMA MasterActsMem ==
  ASSUME MemFacts, MasterCalm, UNCHANGED pointer, Master
  PROVE  Wire' /\ MemoryInv'
<1> USE DEF Goto, Return, Stay, Came
<1>1. /\ Wire /\ RegisterGiven /\ Gives /\ DeviceWire /\ MasterInv /\ MasterCount /\ FlagInv
      /\ "M" \in Node /\ Memory
      /\ pc \in [Node -> MainPc] /\ ret \in [Node -> {"OK", "ERR"}]
      /\ flags \in [Node -> SUBSET Flags] /\ tx \in [Node -> Seq(Byte)]
      /\ UNCHANGED <<plan, store, pointer, round, clocked>> /\ (sel' <=> sel)
      /\ UNCHANGED <<flags["S"], tx["S"], rx["S"]>>
  BY MasterLocal DEF MemFacts, MemoryInv, MemoryFacts, SoundFacts, MasterFacts, MasterCalm, SameRegisters
<1>2. \A k, j : StreamByte(k, j)' = StreamByte(k, j) /\ Place(k, j)' = Place(k, j)
  BY <1>1 DEF StreamByte, Place
<1>3. pc["M"] # "done" => MyRound("M").op # "read"
  BY <1>1 DEF MemFacts, SoundFacts, MasterFacts
<1>4. ASSUME UNCHANGED <<phase, dir>>, flags'["M"] \subseteq flags["M"],
             pc'["M"] \notin {"tdbe_restart", "restartf", "readdr7", "done", "fail", "gave_up"} \cup DmaPc,
             pc'["M"] = "returned" => ret'["M"] = "OK",
             phase \in {"start", "addr"} => pc'["M"] \in {"startf", "addr7"},
             phase = "data" /\ dir = "read" => pc'["M"] \in Reading
      PROVE  Wire' /\ MemoryInv'
  <2>1. Wire'
    BY <1>1, <1>4 DEF Wire
  <2>2. RegisterGiven'
    BY <1>4 DEF RegisterGiven
  <2>3. \A k : Source(k)' = Source(k)
    BY <1>1, SameSource
  <2>4. Gives'
    BY <1>1, <1>2, <1>4, <2>3 DEF Gives, Holds
  <2>5. DeviceWire'
    BY <1>1, <1>4 DEF DeviceWire
  <2>6. QED
    BY <2>1, <2>2, <2>4, <2>5 DEF MemoryInv
<1>5. CASE GenerateStart
  <2>1. /\ pc["M"] = "free" /\ "BUSYF" \notin flags["M"] /\ pc'["M"] = "startf"
        /\ UNCHANGED <<phase, dir, flags>>
    BY <1>1, <1>5 DEF GenerateStart, FlagCame, busVars
  <2>2. phase = "free"
    BY <1>1, <2>1 DEF FlagInv
  <2>3. QED
    BY <1>4, <2>1, <2>2 DEF DmaPc
<1>6. CASE SendAddress
  <2>1. /\ \/ pc["M"] = "startf" /\ pc'["M"] = "addr7"
           \/ pc["M"] = "restartf" /\ pc'["M"] = "readdr7"
        /\ "STARTF" \in flags["M"] /\ flags'["M"] \subseteq flags["M"] /\ phase' = "addr"
    BY <1>1, <1>6 DEF SendAddress, FlagCame, i2c_7bit_address_send, ClearFlags
  <2>2. phase = "start"
    BY <1>1, <2>1 DEF FlagInv
  <2>3. Wire'
    BY <1>1, <2>1, <2>2 DEF Wire, DmaPc
  <2>4. RegisterGiven'
    BY <1>1, <1>2, <2>1, <2>2 DEF RegisterGiven
  <2>5. Gives' /\ DeviceWire'
    BY <1>1, <2>1, <2>2 DEF Gives, DeviceWire
  <2>6. QED
    BY <2>3, <2>4, <2>5 DEF MemoryInv
<1>7. CASE ClearAddrToWrite
  <2>1. /\ pc["M"] = "addr7" /\ "ADDR7F" \in flags["M"] /\ pc'["M"] = "tdbe_reg"
        /\ UNCHANGED <<phase, dir>> /\ flags'["M"] \subseteq flags["M"]
    BY <1>1, <1>7 DEF ClearAddrToWrite, FlagCame, ClearFlags, busVars
  <2>2. phase = "data" /\ dir = "write"
    BY <1>1, <1>3, <2>1 DEF FlagInv, MasterInv, AddressInv
  <2>3. QED
    BY <1>4, <2>1, <2>2 DEF DmaPc
<1>8. CASE SendRegister
  <2>1. /\ pc["M"] = "tdbe_reg" /\ pc'["M"] \in {"tdbe_restart", "tdbe"}
        /\ tx'["M"] = Append(tx["M"], <<0, MyRound("M").reg>>)
        /\ UNCHANGED <<phase, dir, flags>>
    BY <1>1, <1>8 DEF SendRegister, i2c_data_send, busVars
  <2>2. phase = "data" /\ dir = "write" /\ tx["M"] = <<>> /\ clocked = 0
    BY <1>1, <2>1 DEF MasterInv, AddressInv, Bytes0
  <2>3. tx'["M"] # <<>> /\ clocked' + Len(tx'["M"]) = 1
    <3>1. tx'["M"] # <<>> /\ Len(tx'["M"]) = 1
      BY <2>1, <2>2
    <3>2. clocked' + 1 = 1
      BY <1>1, <2>2
    <3>3. QED
      BY <3>1, <3>2
  <2>4. Wire'
    BY <1>1, <2>1, <2>2 DEF Wire, DmaPc
  <2>5. RegisterGiven'
    BY <2>1, <2>2, <2>3 DEF RegisterGiven
  <2>6. Gives' /\ DeviceWire'
    BY <1>1, <2>1, <2>2 DEF Gives, DeviceWire
  <2>7. QED
    BY <2>4, <2>5, <2>6 DEF MemoryInv
<1>9. CASE GenerateRestart
  <2>1. /\ pc["M"] = "tdbe_restart" /\ pc'["M"] = "restartf"
        /\ UNCHANGED <<phase, dir, flags, tx>>
    BY <1>1, <1>9 DEF GenerateRestart, busVars
  <2>2. phase = "data" /\ dir = "write"
    BY <1>1, <2>1 DEF MasterInv, AddressInv, DeviceWire
  <2>3. Wire'
    BY <1>1, <2>1, <2>2 DEF Wire, DmaPc
  <2>4. RegisterGiven'
    BY <1>1, <1>2, <2>1, <2>2 DEF RegisterGiven
  <2>5. Gives' /\ DeviceWire'
    BY <1>1, <2>1, <2>2 DEF Gives, DeviceWire
  <2>6. QED
    BY <2>3, <2>4, <2>5 DEF MemoryInv
<1>10. CASE SendData("M", "tdc") \/ StopWrite
  <2>1. /\ pc["M"] \in {"tdbe", "tdc"} /\ pc'["M"] \in {"tdbe", "tdc", "returned"}
        /\ pc'["M"] = "returned" => ret'["M"] = "OK"
        /\ UNCHANGED <<phase, dir, flags>>
    BY <1>1, <1>10 DEF SendData, StopWrite, busVars
  <2>2. phase \in {"data", "closing"} /\ dir = "write"
    BY <1>1, <2>1 DEF MasterInv, Written
  <2>3. QED
    BY <1>4, <2>1, <2>2 DEF DmaPc
<1>11. CASE ClearAddrToRead
  <2>1. /\ pc["M"] \in {"readdr7", "addr7"} /\ "ADDR7F" \in flags["M"]
        /\ UNCHANGED <<phase, dir>> /\ flags'["M"] \subseteq flags["M"]
    BY <1>1, <1>11 DEF ClearAddrToRead, FlagCame, ClearFlags, busVars
  <2>2. pc'["M"] \in Reading
    BY <1>1, <1>11, SMTT(30) DEF ClearAddrToRead, ReadWait, Reading, MemFacts, SoundFacts, MasterFacts
  <2>3. phase = "data"
    BY <1>1, <2>1 DEF FlagInv
  <2>4. QED
    BY <1>4, <2>1, <2>2, <2>3 DEF DmaPc, Reading
<1>12. CASE Ev6Stop \/ Ev6Ack \/ ReadByte \/ ReadThirdLast \/ ReadLastTwo
  <2>1. /\ pc["M"] \in Reading
        /\ \/ pc'["M"] \in Reading
           \/ pc'["M"] = "returned" /\ ret'["M"] = "OK" /\ phase # "data"
    <3>1. CASE Ev6Stop \/ Ev6Ack
      BY <1>1, <3>1 DEF Ev6Stop, Ev6Ack, Reading
    <3>2. CASE ReadByte \/ ReadThirdLast \/ ReadLastTwo
      BY <3>2, ReadEnds DEF MemFacts
    <3>3. QED
      BY <1>12, <3>1, <3>2
  <2>2. UNCHANGED <<phase, dir, flags>>
    BY <1>12 DEF Ev6Stop, Ev6Ack, ReadByte, ReadThirdLast, ReadLastTwo, busVars
  <2>3. phase \notin {"start", "addr"}
    BY <1>1, <2>1 DEF MasterInv, Reading, Read
  <2>4. QED
    BY <1>4, <2>1, <2>2, <2>3 DEF DmaPc, Reading
<1>13. QED
  BY <1>5, <1>6, <1>7, <1>8, <1>9, <1>10, <1>11, <1>12 DEF Master

(* The device: it takes the register number before the repeated START, and *)
(* gives the registers from there on, one ahead of the bus.                *)
LEMMA DeviceMem ==
  ASSUME MemFacts, Device
  PROVE  MasterStores' /\ Wire' /\ MemoryInv'
<1> DEFINE k == round["M"]
<1>1. /\ SoundFacts /\ MemoryFacts /\ Wire /\ MasterStores /\ RegisterGiven /\ Gives /\ DeviceWire
      /\ MasterInv /\ InTimeSoFar /\ Held /\ "M" \in Node /\ "S" \in Node /\ "M" # "S"
      /\ tx \in [Node -> Seq(Byte)] /\ rx \in [Node -> Seq(Byte)] /\ flags \in [Node -> SUBSET Flags]
      /\ clocked \in Nat
  <2>1. SoundFacts /\ MemoryFacts /\ MemoryInv
    BY DEF MemFacts
  <2>2. RegisterGiven /\ Gives /\ DeviceWire
    BY <2>1 DEF MemoryInv
  <2>3. Wire /\ MasterStores /\ MasterFacts /\ InTimeSoFar /\ "S" \in Node /\ "M" # "S"
    BY <2>1 DEF SoundFacts
  <2>4. Held
    BY <2>1 DEF MemoryFacts
  <2>5. /\ MasterInv /\ "M" \in Node
        /\ tx \in [Node -> Seq(Byte)] /\ rx \in [Node -> Seq(Byte)] /\ flags \in [Node -> SUBSET Flags]
        /\ clocked \in Nat
    BY <2>3 DEF MasterFacts
  <2>6. QED
    BY <2>1, <2>2, <2>3, <2>4, <2>5
<1>2. UNCHANGED <<ctrl, phase, dir, sel, clocked, pc, left, mem, ret, plan, round>>
  BY DEF Device, busVars, local, app
<1>3. \A i, j : StreamByte(i, j)' = StreamByte(i, j) /\ Place(i, j)' = Place(i, j)
  BY <1>2 DEF StreamByte, Place
<1>4. DeviceAddressed \/ DeviceTakes \/ DeviceGives
  BY DEF Device
<1>5. /\ UNCHANGED <<flags["M"], tx["M"], rx["M"]>>
      /\ "ADDR7F" \in flags'["S"] => "ADDR7F" \in flags["S"] /\ tx'["S"] = tx["S"]
      /\ rx'["S"] # <<>> => rx["S"] # <<>>
  <2>1. CASE DeviceAddressed
    BY <1>1, <2>1 DEF DeviceAddressed, ClearFlags
  <2>2. CASE DeviceTakes
    BY <1>1, <2>2 DEF DeviceTakes, i2c_data_receive, RDBF
  <2>3. CASE DeviceGives
    BY <1>1, <2>3 DEF DeviceGives, i2c_data_send
  <2>4. QED
    BY <1>4, <2>1, <2>2, <2>3
<1>6. Wire' /\ DeviceWire'
  BY <1>1, <1>2, <1>5 DEF Wire, DeviceWire
<1>7. CASE DeviceAddressed
  <2>1. /\ "ADDR7F" \in flags["S"] /\ UNCHANGED <<tx, rx, store>>
        /\ pointer' = IF dir = "write" THEN 0 ELSE pointer
    BY <1>7 DEF DeviceAddressed
  <2>2. phase = "data"
    BY <1>1, <2>1 DEF Wire
  <2>3. MasterStores'
    BY <1>1, <1>2, <2>1, StoresKeep DEF Ended
  <2>4. RegisterGiven'
    BY <1>1, <1>2, <2>1, <2>2 DEF RegisterGiven
  <2>5. Gives'
    <3>1. \A j : Source(j)' = Source(j)
      BY <1>2, <2>1, SameSource
    <3>2. QED
      BY <1>1, <1>2, <1>3, <2>1, <3>1 DEF Gives, Holds
  <2>6. QED
    BY <1>6, <2>3, <2>4, <2>5 DEF MemoryInv
<1>8. CASE DeviceTakes
  <2>1. rx["S"] # <<>> /\ UNCHANGED <<flags, tx>> /\ rx'["S"] = SubSeq(rx["S"], 2, Len(rx["S"]))
    BY <1>1, <1>8 DEF DeviceTakes, RDBF, i2c_data_receive
  <2>2. phase = "data" /\ dir = "write"
    BY <1>1, <2>1 DEF DeviceWire
  <2>3. rx'["S"] = <<>>
    <3>1. Len(rx["S"]) <= 1 /\ rx["S"] \in Seq(Byte)
      BY <1>1 DEF Held
    <3>2. QED
      BY <2>1, <3>1
  <2>4. MasterStores'
    <3>1. pc["M"] \notin Reading
      BY <1>1, <2>2 DEF MasterInv, Reading, Read
    <3>2. ~(Ended("M", "OK") /\ Reads("M"))
      BY <1>1, <2>2 DEF Ended, MasterInv, AfterSuccess
    <3>3. Ended("M", "OK")' = Ended("M", "OK") /\ Reads("M")' = Reads("M")
      BY <1>2 DEF Ended, Reads, MyRound
    <3>4. QED
      BY <1>1, <1>2, <3>1, <3>2, <3>3 DEF MasterStores
  <2>5. RegisterGiven'
    <3>1. ASSUME pc["M"] \in {"tdbe_restart", "restartf"}, tx["M"] = <<>>
          PROVE  pointer' = Place(k, 1)
      <4>1. Head(rx["S"]) = StreamByte(k, 0) /\ pointer = 0
        BY <1>1, <2>1, <2>2, <3>1 DEF RegisterGiven
      <4>2. k \in 1 .. Len(plan) /\ 0 \in Nat
        BY <1>1, <3>1 DEF MemoryFacts
      <4>3. pointer = Place(k, 0)
        BY <4>1 DEF Place
      <4>4. pointer' = Place(k, 0 + 1)
        BY <1>1, <1>8, <4>1, <4>2, <4>3, TakenPlace
      <4>5. QED
        BY <4>4
    <3>2. QED
      BY <1>1, <1>2, <1>3, <2>1, <2>2, <2>3, <3>1 DEF RegisterGiven
  <2>6. Gives'
    BY <1>2, <2>2 DEF Gives
  <2>7. QED
    BY <1>6, <2>4, <2>5, <2>6 DEF MemoryInv
<1>9. CASE DeviceGives
  <2>1. /\ sel /\ dir = "read" /\ tx["S"] = <<>> /\ pointer' = After(pointer)
        /\ tx'["S"] = Append(<<>>, store[pointer]) /\ UNCHANGED <<flags, rx, store>>
    BY <1>1, <1>9 DEF DeviceGives, i2c_data_send
  <2>2. phase = "data" /\ pc["M"] \in {"addr7", "readdr7"} \cup Reading
    BY <1>1, <2>1 DEF Wire
  <2>3. MasterStores'
    BY <1>1, <1>2, <1>5, <2>1, StoresKeep DEF Ended
  <2>4. RegisterGiven'
    BY <1>2, <2>2 DEF RegisterGiven, Reading
  <2>5. Gives'
    <3>1. \A j : Source(j)' = Source(j)
      BY <1>2, <2>1, SameSource
    <3>2. k \in 1 .. Len(plan) /\ plan[k].reg \in 1 .. NReg /\ NReg \in Nat \ {0}
      <4>1. pc["M"] # "done"
        BY <2>2 DEF Reading
      <4>2. QED
        BY <1>1, <4>1 DEF MemoryFacts
    <3>3. pointer = Place(k, clocked + 1)
      <4>1. pointer = Place(k, clocked + 1 + Len(<<>>))
        BY <1>1, <2>1, <2>2 DEF Gives
      <4>2. clocked + 1 + Len(<<>>) = clocked + 1
        BY <1>1
      <4>3. QED
        BY <4>1, <4>2
    <3>4. After(pointer) = Place(k, clocked + 1 + 1)
      <4> DEFINE j == clocked + 1
      <4>1. j \in Nat /\ j # 0
        BY <1>1
      <4> HIDE DEF j
      <4>2. Place(k, j + 1) = After(Place(k, j))
        BY <3>2, <4>1, NextPlace
      <4>3. QED
        BY <3>3, <4>2 DEF j
    <3>5. Len(tx'["S"]) = 1 /\ tx'["S"][1] = Source(k)[clocked + 1]
      <4> DEFINE j == clocked + 1
      <4>1. j \in Nat
        BY <1>1
      <4> HIDE DEF j
      <4>2. Source(k)[j] = store[Place(k, j)]
        BY <1>1, <4>1 DEF Source, MemoryFacts
      <4>3. tx'["S"] = <<store[pointer]>>
        BY <2>1
      <4>4. QED
        BY <3>3, <4>2, <4>3 DEF j
    <3>6. Holds(tx'["S"], k, clocked)
      BY <3>5 DEF Holds
    <3>7. clocked + 1 + Len(tx'["S"]) = clocked + 1 + 1
      BY <3>5
    <3>8. Holds(tx["S"], round["M"], clocked)' /\ pointer' = Place(round["M"], clocked + 1 + Len(tx["S"]))'
      BY <1>2, <1>3, <2>1, <3>1, <3>4, <3>6, <3>7 DEF Holds
    <3>9. Len(tx'["S"]) <= 1
      BY <3>5
    <3>10. QED
      BY <3>8, <3>9 DEF Gives
  <2>6. QED
    BY <1>6, <2>3, <2>4, <2>5 DEF MemoryInv
<1>10. QED
  BY <1>4, <1>7, <1>8, <1>9

(* The bus, with a device that has always served its peripheral.           *)
LEMMA BusOpensMem ==
  ASSUME MemFacts, DeviceReady, BusCalm, HwStart \/ HwRestart \/ HwAddrAck \/ HwStop
  PROVE  MasterStores' /\ Wire' /\ MemoryInv'
<1> DEFINE k == round["M"]
<1>1. /\ SoundFacts /\ MemoryFacts /\ Wire /\ MasterStores /\ RegisterGiven /\ DeviceWire
      /\ MasterInv /\ MasterCount /\ "M" \in Node /\ "S" \in Node /\ "M" # "S"
      /\ tx \in [Node -> Seq(Byte)] /\ flags \in [Node -> SUBSET Flags] /\ ctrl \in [Node -> SUBSET CtrlBits]
      /\ clocked \in Nat /\ Memory
  BY DEF MemFacts, MemoryInv, MemoryFacts, SoundFacts, MasterFacts
<1>2. /\ UNCHANGED <<pc, left, mem, ret, store, pointer, plan, round>>
      /\ Ended("M", "OK")' = Ended("M", "OK")
      /\ \A j : Source(j)' = Source(j)
  BY BusKeeps
<1>3. "ADDR7F" \notin flags["S"] /\ rx["S"] = <<>>
  BY <1>1 DEF DeviceReady, RDBF
<1>4. /\ \A j : Place(k, j)' = Place(k, j)
  BY <1>2 DEF Place
<1>5. CASE HwAddrAck
  <2>1. /\ phase = "addr" /\ phase' = "data" /\ sel' = TRUE /\ tx' = [n \in Node |-> <<>>]
        /\ clocked' = 0 /\ flags' = [n \in Node |-> flags[n] \cup {"ADDR7F"}]
        /\ UNCHANGED <<ctrl, rx, dir>>
    BY <1>5 DEF HwAddrAck
  <2>2. pc["M"] \in {"addr7", "readdr7"} /\ (dir = "read" => pc["M"] = "readdr7")
    <3>1. pc["M"] \in {"addr7", "readdr7"}
      BY <1>1, <2>1 DEF DeviceWire, MasterInv, AddressInv
    <3>2. MyRound("M").op # "read"
      BY <1>1, <3>1 DEF SoundFacts, MasterFacts
    <3>3. QED
      BY <1>1, <3>1, <3>2 DEF MasterInv, AddressInv
  <2>3. MasterStores'
    BY <1>1, <1>2, <2>2 DEF MasterStores, Reading, Ended
  <2>4. tx'["S"] = <<>> /\ Len(tx'["S"]) = 0
    BY <1>1, <2>1
  <2>5. Wire'
    BY <1>1, <1>2, <2>1, <2>2, <2>4 DEF Wire, DmaPc
  <2>6. RegisterGiven'
    BY <1>2, <2>1, <2>2 DEF RegisterGiven
  <2>7. Gives'
    <3> SUFFICES ASSUME dir = "read" PROVE Gives'
      BY <2>1 DEF Gives
    <3>1. pointer = Place(k, 1)
      BY <1>1, <2>1, <2>2 DEF RegisterGiven
    <3>2. clocked' + 1 + Len(tx'["S"]) = 1
      BY <2>1, <2>4
    <3>3. pointer' = Place(round["M"], clocked + 1 + Len(tx["S"]))'
      BY <1>2, <1>4, <3>1, <3>2
    <3>4. QED
      BY <2>4, <3>3 DEF Gives, Holds
  <2>8. DeviceWire'
    <3>1. "ACKFAIL" \notin flags'["M"] /\ rx'["S"] = <<>>
      BY <1>1, <1>3, <2>1 DEF DeviceWire
    <3>2. QED
      BY <1>1, <1>2, <2>1, <2>2, <3>1 DEF DeviceWire
  <2>9. QED
    BY <2>3, <2>5, <2>6, <2>7, <2>8 DEF MemoryInv
<1>6. ASSUME phase' \in {"start", "free"}, sel' = FALSE, UNCHANGED <<rx, clocked>>,
             "ADDR7F" \notin flags'["S"], "ACKFAIL" \notin flags'["M"],
             phase' = "start" => pc["M"] \in {"startf", "restartf"},
             phase' = "start" /\ pc["M"] = "restartf" => pointer = Place(k, 1),
             pc["M"] = "done" =>
               phase' = "free" /\ "GENSTOP" \notin ctrl'["M"] /\ "GENSTART" \notin ctrl'["M"]
      PROVE  MasterStores' /\ Wire' /\ MemoryInv'
  <2>1. MasterStores'
    BY <1>1, <1>2, <1>6, StoresKeep
  <2>2. Wire'
    BY <1>1, <1>2, <1>6 DEF Wire
  <2>3. RegisterGiven' /\ Gives'
    BY <1>2, <1>4, <1>6 DEF RegisterGiven, Gives
  <2>4. DeviceWire'
    BY <1>1, <1>2, <1>3, <1>6 DEF DeviceWire
  <2>5. QED
    BY <2>1, <2>2, <2>3, <2>4 DEF MemoryInv
<1>7. CASE HwStart
  <2>1. /\ "GENSTART" \in ctrl["M"] /\ "BUSYF" \notin flags["M"]
        /\ phase' = "start" /\ sel' = FALSE /\ UNCHANGED <<rx, clocked>>
        /\ flags' = [n \in Node |-> flags[n] \cup IF n = "M" THEN {"BUSYF", "STARTF"} ELSE {"BUSYF"}]
    BY <1>7 DEF HwStart
  <2>2. phase = "free"
    BY <1>1, <2>1 DEF SoundFacts, MasterFacts, FlagInv
  <2>3. pc["M"] = "startf"
    BY <1>1, <2>1, <2>2, Requests DEF MasterInv, AddressInv
  <2>4. "ADDR7F" \notin flags'["S"] /\ "ACKFAIL" \notin flags'["M"]
    BY <1>1, <1>3, <2>1 DEF DeviceWire
  <2>5. QED
    BY <1>6, <2>1, <2>3, <2>4
<1>8. CASE HwRestart
  <2>1. /\ "GENSTART" \in ctrl["M"] /\ phase \in {"data", "closing"} /\ tx["M"] = <<>>
        /\ phase' = "start" /\ sel' = FALSE /\ UNCHANGED <<rx, clocked>>
        /\ flags' = [flags EXCEPT !["M"] = @ \cup {"STARTF"}]
    BY <1>8 DEF HwRestart
  <2>2. pc["M"] = "restartf"
    BY <1>1, <2>1, Requests DEF MasterInv, AddressInv
  <2>3. pointer = Place(k, 1)
    BY <1>1, <1>3, <2>1, <2>2 DEF DeviceWire, RegisterGiven
  <2>4. "ADDR7F" \notin flags'["S"] /\ "ACKFAIL" \notin flags'["M"]
    BY <1>1, <1>3, <2>1 DEF DeviceWire
  <2>5. QED
    BY <1>6, <2>1, <2>2, <2>3, <2>4
<1>9. CASE HwStop
  <2>1. /\ ctrl' = [n \in Node |-> ctrl[n] \ {"GENSTOP"}]
        /\ phase' = "free" /\ sel' = FALSE /\ UNCHANGED <<rx, clocked>>
        /\ flags'["M"] \subseteq flags["M"] /\ flags'["S"] \subseteq flags["S"] \cup {"STOPF"}
    BY <1>1, <1>9 DEF HwStop
  <2>2. "ADDR7F" \notin flags'["S"] /\ "ACKFAIL" \notin flags'["M"]
    BY <1>1, <1>3, <2>1 DEF DeviceWire
  <2>3. pc["M"] = "done" => "GENSTOP" \notin ctrl'["M"] /\ "GENSTART" \notin ctrl'["M"]
    BY <1>1, <2>1 DEF Wire
  <2>4. QED
    BY <1>6, <2>1, <2>2, <2>3
<1>10. QED
  BY <1>5, <1>7, <1>8, <1>9

LEMMA BusMovesMem ==
  ASSUME MemFacts, PollInv', DeviceReady, BusCalm, HwReadByte \/ HwWriteByte(FALSE)
  PROVE  MasterStores' /\ Wire' /\ MemoryInv'
<1> DEFINE k == round["M"]
           t == tx["M"]
<1>1. /\ SoundFacts /\ MemoryFacts /\ Wire /\ MasterStores /\ RegisterGiven /\ Gives /\ DeviceWire
      /\ MasterInv /\ MasterCount /\ Streaming /\ "M" \in Node /\ "S" \in Node /\ "M" # "S"
      /\ tx \in [Node -> Seq(Byte)] /\ rx \in [Node -> Seq(Byte)] /\ flags \in [Node -> SUBSET Flags]
      /\ clocked \in Nat /\ ctrl["S"] = {"ACKEN"}
  BY DEF MemFacts, MemoryInv, MemoryFacts, SoundFacts, MasterFacts
<1>2. /\ UNCHANGED <<pc, left, mem, ret, store, pointer, plan, round, env>>
      /\ Ended("M", "OK")' = Ended("M", "OK") /\ Size("M")' = Size("M") /\ Reads("M")' = Reads("M")
      /\ \A j : Source(j)' = Source(j)
  BY BusKeeps
<1>3. "ADDR7F" \notin flags["S"] /\ rx["S"] = <<>>
  BY <1>1 DEF DeviceReady, RDBF, MemoryFacts
<1>4. /\ \A i, j : Place(i, j)' = Place(i, j) /\ StreamByte(i, j)' = StreamByte(i, j)
  BY <1>2 DEF Place, StreamByte
<1>5. CASE HwReadByte
  <2>1. /\ pc["M"] \in Reading /\ phase = "data" /\ dir = "read" /\ UNCHANGED <<dir, ctrl>>
        /\ rx'["S"] = rx["S"] /\ clocked' = clocked + 1
        /\ phase' \in {"data", "closing"} /\ (sel' <=> phase' = "data")
        /\ flags'["M"] = flags["M"] /\ "ADDR7F" \notin flags'["S"]
    BY <1>1, <1>2, <1>5, ReadByteSound
  <2>2. /\ Len(tx["S"]) <= 1 /\ Holds(tx["S"], k, clocked)
        /\ pointer = Place(k, clocked + 1 + Len(tx["S"]))
    BY <1>1, <2>1 DEF Gives
  <2>3. /\ MasterStores'
        /\ Holds(tx'["S"], k, clocked') /\ Len(tx'["S"]) = Len(tx["S"]) - 1
        /\ Len(tx["S"]) \in Nat \ {0}
    BY <1>1, <1>2, <1>5, <2>2, ReadByteStores
  <2>4. Wire'
    BY <1>1, <1>2, <2>1 DEF Wire, Reading
  <2>5. RegisterGiven'
    BY <1>2, <2>1 DEF RegisterGiven, Reading
  <2>6. Gives'
    <3>1. Len(tx["S"]) = 1 /\ Len(tx'["S"]) = 0
      <4> DEFINE l == Len(tx["S"])
                 m == Len(tx'["S"])
      <4>1. l \in Nat \ {0} /\ l <= 1 /\ m = l - 1
        BY <2>2, <2>3
      <4> HIDE DEF l, m
      <4>2. l = 1 /\ m = 0
        BY <4>1
      <4>3. QED
        BY <4>2 DEF l, m
    <3>2. clocked' + 1 + Len(tx'["S"]) = clocked + 1 + Len(tx["S"])
      BY <1>1, <2>1, <3>1
    <3>3. pointer' = Place(round["M"], clocked + 1 + Len(tx["S"]))'
      BY <1>2, <1>4, <2>2, <3>2
    <3>4. Holds(tx["S"], round["M"], clocked)'
      BY <1>2, <2>3 DEF Holds
    <3>5. QED
      BY <3>1, <3>3, <3>4 DEF Gives
  <2>7. DeviceWire'
    BY <1>1, <1>2, <1>3, <2>1 DEF DeviceWire, Reading
  <2>8. QED
    BY <2>3, <2>4, <2>5, <2>6, <2>7 DEF MemoryInv
<1>6. CASE HwWriteByte(FALSE)
  <2>1. /\ phase = "data" /\ dir = "write" /\ t # <<>> /\ clocked' = clocked + 1 /\ sel
        /\ UNCHANGED <<ctrl, dir, sel>>
    BY <1>1, <1>6 DEF HwWriteByte, Wire
  <2>2. /\ rx'["S"] = Append(<<>>, Head(t)) /\ tx'["M"] = Tail(t) /\ UNCHANGED <<flags, phase>>
        /\ rx'["M"] = rx["M"] /\ tx'["S"] = tx["S"]
    BY <1>1, <1>3, <1>6, <2>1 DEF HwWriteByte
  <2>3. pc["M"] \notin Reading
    BY <1>1, <2>1 DEF MasterInv, Reading, Read
  <2>4. MasterStores'
    <3>1. StoredAll("M") => StoredAll("M")'
      BY <1>2 DEF StoredAll, Holds
    <3>2. QED
      BY <1>1, <1>2, <2>3, <3>1 DEF MasterStores
  <2>5. Wire'
    BY <1>1, <1>2, <1>3, <2>1, <2>2 DEF Wire
  <2>6. Gives'
    BY <2>1 DEF Gives
  <2>7. t \in Seq(Byte) /\ Len(t) \in Nat \ {0} /\ Len(Tail(t)) = Len(t) - 1 /\ Head(t) = t[1]
    <3>1. t \in Seq(Byte)
      BY <1>1
    <3>2. Len(t) \in Nat /\ Len(t) # 0
      BY <2>1, <3>1, EmptySeq
    <3>3. Len(Tail(t)) = Len(t) - 1 /\ Head(t) = t[1]
      <4> HIDE DEF t
      <4>1. QED
        BY <2>1, <3>1, HeadTailProperties
    <3>4. QED
      BY <3>1, <3>2, <3>3
  <2>8. RegisterGiven'
    <3> SUFFICES ASSUME pc["M"] \in {"tdbe_restart", "restartf"}
                 PROVE  /\ clocked' + Len(tx'["M"]) = 1
                        /\ "ADDR7F" \notin flags'["S"] /\ rx'["S"] # <<>>
                        /\ Head(rx'["S"]) = StreamByte(k, 0) /\ pointer = 0
      BY <1>2, <1>4, <2>1, <2>2 DEF RegisterGiven
    <3>1. clocked + Len(t) = 1
      BY <1>1, <2>1 DEF RegisterGiven
    <3>2. clocked = 0 /\ Len(t) = 1
      <4> DEFINE l == Len(t)
      <4>1. l \in Nat \ {0} /\ clocked + l = 1
        BY <2>7, <3>1
      <4> HIDE DEF l
      <4>2. clocked = 0 /\ l = 1
        BY <1>1, <4>1
      <4>3. QED
        BY <4>2 DEF l
    <3>3. clocked' + Len(tx'["M"]) = 1
      BY <2>1, <2>2, <2>7, <3>2
    <3>4. MoreToCome
      BY <2>1 DEF MoreToCome
    <3>5. t[1] = StreamByte(k, clocked + 1 - 1) /\ pointer = Place(k, clocked)
      BY <1>1, <1>3, <3>2, <3>4 DEF Streaming
    <3>6. Head(t) = StreamByte(k, 0) /\ pointer = 0
      BY <2>7, <3>2, <3>5 DEF Place
    <3>7. rx'["S"] = <<Head(t)>>
      BY <2>2
    <3>8. QED
      BY <1>3, <2>2, <3>3, <3>6, <3>7
  <2>9. DeviceWire'
    BY <1>1, <1>2, <2>1, <2>2 DEF DeviceWire
  <2>10. QED
    BY <2>4, <2>5, <2>6, <2>8, <2>9 DEF MemoryInv
<1>7. QED
  BY <1>5, <1>6

(* The master's main thread, whose calls all succeed.                      *)
LEMMA MasterMem ==
  ASSUME MemFacts, Main("M")
  PROVE  MasterStores' /\ Wire' /\ MemoryInv'
<1>1. SoundFacts /\ DeviceWire
  BY DEF MemFacts, MemoryInv
<1>2. TypeOK /\ "S" \in Node \ {"M"} /\ "M" \in Node /\ "M" # "S" /\ Sound
  BY <1>1 DEF SoundFacts
<1>3. MasterStores'
  BY <1>1, MainStores
<1>4. SameThread("S") /\ SameRegisters("S") /\ UNCHANGED <<env, plan, store, pointer>>
  BY <1>2, MainLocal DEF device
<1>5. ~WaitStop("M") /\ ~WaitTimeout("M") /\ ~TryAgain("M")
  BY <1>1, <1>2 DEF WaitStop, EventCheck, WaitTimeout, TryAgain, Sound, DeviceWire
<1>6. UNCHANGED clocked /\ (sel' <=> sel)
  <2>1. CASE StartCall("M") \/ NextRound("M") \/ GiveUp("M")
    BY <2>1 DEF StartCall, NextRound, GiveUp, hwVars
  <2>2. CASE Wait("M")
    BY <1>5, <2>2 DEF Wait, LookAgain, NoEvent, WaitAckFail, CleanUp, hwVars, busVars
  <2>3. CASE Master
    BY <1>2, <2>3, MasterLocal
  <2>4. QED
    BY <1>2, <1>5, <2>1, <2>2, <2>3 DEF Main
<1>7. MasterCalm
  BY <1>4, <1>6 DEF MasterCalm
<1>8. CASE Master
  BY <1>3, <1>4, <1>7, <1>8, MasterActsMem
<1>9. CASE StartCall("M") \/ NextRound("M") \/ TryAgain("M") \/ GiveUp("M") \/ Wait("M")
  BY <1>3, <1>4, <1>7, <1>9, CommonMasterMem
<1>10. QED
  BY <1>2, <1>8, <1>9 DEF Main

LEMMA BusMem ==
  ASSUME MemFacts, PollInv', Bus \/ Fault
  PROVE  MasterStores' /\ Wire' /\ MemoryInv'
<1>1. SoundFacts /\ MemoryFacts /\ Wire
  BY DEF MemFacts, SoundFacts
<1>2. ctrl["S"] = {"ACKEN"}
  BY <1>1 DEF MemoryFacts
<1>3. ~Fault
  <2>1. faults \in Nat /\ env.faults = 0
    BY <1>1 DEF SoundFacts, Sound
  <2>2. ~(faults < env.faults)
    BY <2>1
  <2>3. QED
    BY <2>2 DEF Fault
<1>4. BusCalm /\ DeviceReady
  BY <1>3 DEF Bus, BusCalm
<1>5. ~HwOverrunByte
  BY <1>1, NoOverrun
<1>6. ~HwSlaveRelease /\ ~HwAddrNack
  BY <1>2 DEF HwSlaveRelease, HwAddrNack
<1>7. HwStart \/ HwRestart \/ HwAddrAck \/ HwReadByte \/ HwStop \/ HwWriteByte(FALSE)
  BY <1>3, <1>5, <1>6 DEF Bus
<1>8. QED
  BY <1>4, <1>7, BusOpensMem, BusMovesMem

(***************************************************************************)
(* The invariant.                                                          *)
(***************************************************************************)

LEMMA InitSound ==
  ASSUME Init
  PROVE  SoundInv
<1>1. /\ "M" \in Node /\ "S" \in Node
      /\ pc["M"] = "idle" /\ pc["S"] \in {"idle", "done"} /\ (~Memory => pc["S"] = "idle")
      /\ ctrl["M"] = {} /\ ctrl["S"] \in {{}, {"ACKEN"}} /\ flags["M"] = {} /\ flags["S"] = {}
      /\ rx["S"] = <<>> /\ round["M"] = 1 /\ round["S"] = 1
      /\ phase = "free" /\ ~sel
  BY DEF Init, Node
<1>2. MasterStores
  BY <1>1 DEF MasterStores, Reading, Ended
<1>3. Wire
  BY <1>1 DEF Wire, DmaPc
<1>4. Memory => MemoryInv
  BY <1>1 DEF MemoryInv, RegisterGiven, Gives, DeviceWire
<1>5. ~Memory => LockInv
  <2> SUFFICES ASSUME ~Memory PROVE LockInv
    OBVIOUS
  <2>1. Reported("M") = 0 /\ Reported("S") = 0 /\ Moved = 0
    BY <1>1 DEF Reported, Ended, Moved, Reading
  <2>2. SlaveGoesOn /\ MasterGoesOn
    BY <1>1 DEF SlaveGoesOn, MasterGoesOn, DmaPc, InData, Ended
  <2>3. RoundInv /\ SlaveStores /\ SlaveSends /\ MasterSends
    BY <1>1, <2>1 DEF RoundInv, SlaveStores, SlaveSends, MasterSends, InData, Ended, Init
  <2>4. QED
    BY <2>2, <2>3 DEF LockInv
<1>6. QED
  BY <1>2, <1>3, <1>4, <1>5 DEF SoundInv

LEMMA SoundStep ==
  ASSUME PollInv, EndInv, SoundInv, PollInv', [Next]_vars
  PROVE  SoundInv'
<1> SUFFICES ASSUME Sound', SizesAgree'
             PROVE  (MasterStores /\ Wire /\ IF Memory THEN MemoryInv ELSE LockInv)'
  BY DEF SoundInv
<1>1. /\ TypeOK /\ ScriptInv /\ ThreadInv /\ DeviceInv /\ NoBoard
      /\ "M" \in Node \ {"S"} /\ "S" \in Node \ {"M"} /\ "M" \in Node /\ "S" \in Node
  BY DEF PollInv, ScriptInv, ThreadInv, Node
<1>2. UNCHANGED <<plan, env>>
  BY <1>1, PlanStays
<1>3. Memory' = Memory /\ Sound /\ SizesAgree
  BY <1>2 DEF Memory, Sound, SizesAgree
<1>4. MasterStores /\ Wire /\ SoundFacts
  BY <1>3, SoundStart DEF SoundInv
<1>5. CASE UNCHANGED vars
  <2>1. UNCHANGED <<ctrl, flags, tx, rx, phase, dir, sel, clocked, acked, pc, left, mem, ret,
                    store, pointer, round>>
    BY <1>5 DEF vars, hwVars, busVars, local, app, device
  <2>2. \A k : Source(k)' = Source(k)
    BY <1>2, <2>1, SameSource
  <2>3. /\ \A n : /\ Ended(n, "OK")' = Ended(n, "OK") /\ Ended(n, "ERR")' = Ended(n, "ERR")
                  /\ Size(n)' = Size(n) /\ Reads(n)' = Reads(n)
                  /\ Reported(n)' = Reported(n) /\ Stored(n)' = Stored(n)
                  /\ StoredAll(n)' = StoredAll(n)
        /\ Moved' = Moved /\ Follows' = Follows /\ Posted' = Posted /\ FrameRound' = FrameRound
    <3>1. \A n : Ended(n, "OK")' = Ended(n, "OK") /\ Ended(n, "ERR")' = Ended(n, "ERR")
      BY <2>1 DEF Ended
    <3>2. \A n : Size(n)' = Size(n) /\ Reads(n)' = Reads(n)
      BY <1>2, <2>1 DEF Size, Reads, MyRound
    <3>3. \A n : Reported(n)' = Reported(n)
      BY <2>1, <3>1 DEF Reported
    <3>4. \A n : Stored(n)' = Stored(n) /\ StoredAll(n)' = StoredAll(n)
      BY <2>1, <2>2, <3>2 DEF Stored, StoredAll, Holds
    <3>5. Moved' = Moved
      BY <2>1, <3>3 DEF Moved
    <3>6. FrameRound' = FrameRound /\ Follows' = Follows
      BY <1>2, <2>1, <3>5 DEF FrameRound, Follows
    <3>7. Posted' = Posted
      BY <1>2, <2>1, <3>2, <3>6 DEF Posted
    <3>8. QED
      BY <3>1, <3>2, <3>3, <3>4, <3>5, <3>6, <3>7
  <2>4. MasterStores' /\ Wire'
    BY <1>2, <1>4, <2>1, <2>3 DEF MasterStores, Wire
  <2>5. Memory /\ MemoryInv => MemoryInv'
    <3>1. \A k, j : StreamByte(k, j)' = StreamByte(k, j) /\ Place(k, j)' = Place(k, j)
      BY <1>2 DEF StreamByte, Place
    <3>2. RegisterGiven => RegisterGiven'
      BY <2>1, <3>1 DEF RegisterGiven
    <3>3. Gives => Gives'
      BY <2>1, <2>2, <3>1 DEF Gives, Holds
    <3>4. DeviceWire => DeviceWire'
      BY <2>1 DEF DeviceWire
    <3>5. QED
      BY <3>2, <3>3, <3>4 DEF MemoryInv
  <2>6. LockInv => LockInv'
    <3>1. SlaveGoesOn /\ MasterGoesOn => SlaveGoesOn' /\ MasterGoesOn'
      BY <1>2, <2>1, <2>3 DEF SlaveGoesOn, MasterGoesOn
    <3>2. RoundInv /\ SlaveStores => RoundInv' /\ SlaveStores'
      BY <2>1, <2>3 DEF RoundInv, SlaveStores
    <3>3. SlaveSends /\ MasterSends => SlaveSends' /\ MasterSends'
      BY <2>1, <2>2, <2>3 DEF SlaveSends, MasterSends, Holds
    <3>4. QED
      BY <3>1, <3>2, <3>3 DEF LockInv
  <2>7. QED
    BY <1>3, <2>4, <2>5, <2>6 DEF SoundInv
<1>6. CASE Memory
  <2>1. MemFacts
    BY <1>1, <1>3, <1>4, <1>6, MemoryStart DEF MemFacts, SoundInv
  <2>2. ~Main("S")
    BY <1>1, <1>6, NotDone DEF NoBoard
  <2>3. CASE Main("M") \/ Device \/ Bus \/ Fault
    BY <1>3, <1>6, <2>1, <2>3, MasterMem, DeviceMem, BusMem
  <2>4. QED
    BY <1>5, <2>2, <2>3 DEF Next, Node
<1>7. CASE ~Memory
  <2>1. LockFacts
    BY <1>3, <1>7, LockStart
  <2>2. CASE Main("M") \/ Main("S") \/ Bus \/ Fault
    BY <1>3, <1>7, <2>1, <2>2, MasterLock, SlaveLock, BusLock
  <2>3. ~Device
    BY <1>7 DEF Device
  <2>4. QED
    BY <1>5, <2>2, <2>3 DEF Next, Node
<1>8. QED
  BY <1>6, <1>7

(* What StoredAll says of a buffer, as ReceivedIntact puts it.             *)
LEMMA StoredEqual ==
  ASSUME NEW n \in Node, mem[n] \in Seq(Byte), StoredAll(n)
  PROVE  mem[n] = [i \in 1 .. Size(n) |-> Source(round[n])[i]]
<1> DEFINE s == mem[n]
           f == Source(round[n])
<1>1. s \in Seq(Byte) /\ Len(s) = Size(n) /\ Len(s) \in Nat
  BY DEF StoredAll
<1>2. \A i \in 1 .. Len(s) : s[i] = f[0 + i]
  BY DEF StoredAll, Holds
<1> HIDE DEF s, f
<1>3. \A i \in 1 .. Len(s) : s[i] = f[i]
  <2>1. \A i \in 1 .. Len(s) : 0 + i = i
    BY <1>1
  <2>2. QED
    BY <1>2, <2>1
<1>4. s = [i \in 1 .. Len(s) |-> s[i]]
  BY <1>1
<1>5. s = [i \in 1 .. Len(s) |-> f[i]]
  BY <1>3, <1>4, Zenon
<1>6. QED
  BY <1>1, <1>5 DEF s, f

LEMMA SoundReceives ==
  ASSUME PollInv, SoundInv, SizesAgree
  PROVE  ReceivedIntact
<1> SUFFICES ASSUME Sound PROVE BoardReceived /\ MemoryRead
  BY DEF ReceivedIntact
<1>1. /\ MasterStores /\ (~Memory => LockInv) /\ "M" \in Node /\ "S" \in Node
      /\ mem \in [Node -> Seq(Byte)] /\ <<plan, env>> \in Scenarios
      /\ \A n \in Node : pc[n] # "done" => round[n] \in 1 .. Len(plan)
  <2>1. /\ MasterStores /\ Wire /\ (~Memory => LockInv)
    BY DEF SoundInv
  <2>2. SoundFacts /\ TypeOK
    BY <2>1, SoundStart DEF SoundFacts
  <2>3. QED
    BY <2>1, <2>2 DEF SoundFacts, ThreadFacts, TypeOK, SwTypeOK
<1>2. ASSUME NEW n \in Node, n = "M" \/ ~Memory, Ended(n, "OK"), Reads(n)
      PROVE  /\ mem[n] = [i \in 1 .. Size(n) |-> Source(round[n])[i]]
             /\ Size(n) \in Nat
  <2>1. StoredAll(n)
    BY <1>1, <1>2 DEF MasterStores, LockInv, SlaveStores, Node
  <2>2. Size(n) \in Nat
    BY <1>1, <1>2, RoundFacts DEF Ended
  <2>3. QED
    BY <1>1, <2>1, <2>2, StoredEqual
<1>3. BoardReceived
  <2> SUFFICES ASSUME NEW n \in Node, ~Memory, Ended(n, "OK"), Reads(n)
               PROVE  mem[n] = Sent(round[n], Size(n))
    BY DEF BoardReceived
  <2>1. \A i \in 1 .. Size(n) : Source(round[n])[i] = <<round[n], i>>
    BY <1>2 DEF Source
  <2>2. mem[n] = [i \in 1 .. Size(n) |-> Source(round[n])[i]]
    BY <1>2
  <2>3. QED
    BY <2>1, <2>2, Zenon DEF Sent
<1>4. MemoryRead
  <2> SUFFICES ASSUME Memory, Ended("M", "OK"), Reads("M")
               PROVE  mem["M"] = [i \in 1 .. Size("M") |-> store[Window(round["M"])[i]]]
    BY DEF MemoryRead
  <2>1. ASSUME NEW i \in 1 .. Size("M")
        PROVE  Source(round["M"])[i] = store[Window(round["M"])[i]]
    <3>1. i \in Nat /\ i # 0 /\ i \in 1 .. plan[round["M"]].M
      BY <1>1, <1>2, <2>1 DEF Size, MyRound
    <3>2. Window(round["M"])[i] = Place(round["M"], i)
      BY <3>1 DEF Window, Place
    <3>3. QED
      BY <3>1, <3>2 DEF Source
  <2>2. mem["M"] = [i \in 1 .. Size("M") |-> Source(round["M"])[i]]
    BY <1>1, <1>2
  <2>3. QED
    BY <2>1, <2>2, Zenon
<1>5. QED
  BY <1>3, <1>4

(* Over a sound line, a call of i2c_master_receive, i2c_slave_receive or   *)
(* i2c_memory_read that returns I2C_OK has stored the bytes that the other *)
(* side had for that very round - the other board's buffer, whichever side *)
(* called first and however often the master had to try again, or the      *)
(* registers of the device from the one asked for on, as earlier writes    *)
(* have left them and round its last register - over any number of rounds. *)
(* Two boards must agree on the sizes.                                     *)
THEOREM PollingReceives ==
  Spec /\ ScriptFits /\ Recovers /\ SizesAgree => []ReceivedIntact
<1>1. Init => EndInv /\ SoundInv
  BY InitEnd, InitSound
<1>2. PollInv /\ EndInv /\ [Next]_vars => EndInv'
  BY EndStep
<1>3. PollInv /\ EndInv /\ SoundInv /\ PollInv' /\ [Next]_vars => SoundInv'
  BY SoundStep
<1>4. PollInv /\ SizesAgree /\ [Next]_vars => SizesAgree'
  BY PlanStays DEF SizesAgree, Memory, PollInv, ScriptInv
<1>5. PollInv /\ SoundInv /\ SizesAgree => ReceivedIntact
  BY SoundReceives
<1>6. QED
  BY <1>1, <1>2, <1>3, <1>4, <1>5, PollingInvariant, PTL DEF Spec

=============================================================================
