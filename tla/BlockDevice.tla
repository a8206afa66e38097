----------------------------- MODULE BlockDevice -----------------------------
(***************************************************************************)
(* What a mass storage class promises its host: the cells of a medium      *)
(* that change by the writes of the command at hand and by nothing else,   *)
(* and answers that tell what has happened to it.                          *)
(***************************************************************************)
EXTENDS Naturals, Sequences

CONSTANTS
  NCell,  \* cells of the medium
  BlkSize \* cells of a block

VARIABLES
  script,  \* the commands, [op, in, len, lba, n]
  sound,   \* the medium works and the bus is left alone
  disk,    \* the cells, of 1 .. NCell
  answers  \* [verdict, data] of the commands answered

vars == <<script, sound, disk, answers>>

Current == Len(answers) + 1
Running == Current <= Len(script)

Cells(c) == c.lba * BlkSize + 1 .. (c.lba + c.n) * BlkSize

(* A command that moves data names cells of the medium and as many as it   *)
(* transfers, in the direction in which it transfers them.                 *)
Moves(c, op) ==
  c.op = op /\ c.in = (op = "read") /\ c.len = c.n * BlkSize /\ Cells(c) \subseteq 1 .. NCell

NewCell(i, a) == <<"out", i, a - script[i].lba * BlkSize, "">>

Contents(c) == [k \in 1 .. c.len |-> disk[c.lba * BlkSize + k]]

Init == answers = <<>> /\ disk = [a \in 1 .. NCell |-> <<"disk", a, 0, "">>]

(* Some cells of the running command's are written.                        *)
Write ==
  /\ Running /\ Moves(script[Current], "write")
  /\ DOMAIN disk' = 1 .. NCell
  /\ \A a \in 1 .. NCell :
       \/ disk'[a] = disk[a]
       \/ a \in Cells(script[Current]) /\ disk'[a] = NewCell(Current, a)
  /\ UNCHANGED <<script, sound, answers>>

(* A command passes when it has been done as a whole.                      *)
Pass(data) ==
  LET c == script[Current] IN
  /\ c.op = "write" => Moves(c, "write") /\ \A a \in Cells(c) : disk[a] = NewCell(Current, a)
  /\ c.op = "read" => Moves(c, "read") /\ data = Contents(c)

(* On a sound medium a command that does not pass has changed nothing, and *)
(* the host is told so without having to reset the device.                 *)
Fail(verdict) ==
  sound => /\ verdict = "fail"
           /\ \A a \in 1 .. NCell : disk[a][2] # Current \/ disk[a][1] # "out"

Answer ==
  /\ Running
  /\ Len(answers') = Current /\ SubSeq(answers', 1, Len(answers)) = answers
  /\ IF answers'[Current].verdict = "pass" THEN Pass(answers'[Current].data)
     ELSE Fail(answers'[Current].verdict)
  /\ UNCHANGED <<script, sound, disk>>

Next == Write \/ Answer

Spec == Init /\ [][Next]_vars
=============================================================================
