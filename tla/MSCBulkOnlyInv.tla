--------------------------- MODULE MSCBulkOnlyInv ---------------------------
(***************************************************************************)
(* Where device and host are in a command of the bulk-only transport: an   *)
(* inductive invariant of MSCBulkOnly for scripts that keep clear of the   *)
(* defects the README describes.  Between any two steps a command is at    *)
(* one of the stages below, whatever handshakes are lost and whenever the  *)
(* port is reset.                                                          *)
(***************************************************************************)
EXTENDS MSCBulkOnly

(* What a driver sends: direction and length fit the operation, a transfer *)
(* moves something, and block numbers do not wrap.  A read or write that   *)
(* asks for anything else than it names may be in a script.                *)
WellFormed(c) ==
  /\ Moves(c) \/ c.op = "verify" => c.lba + c.n < Wrap
  /\ Moves(c) => c.n > 0
  /\ c.op = "inquiry" => c.in
  /\ c.op \in {"capacity", "mode", "sense"} => c.in /\ c.len > 0
  /\ c.op \in {"verify", "start", "removal"} => c.len = 0

(* No command that needs a reset recovery: an invalid CBW, one that breaks *)
(* off between two buffers, and one whose stall hits a CBW to be repeated. *)
Recoverable(e, c) ==
  /\ c.op \notin {"invalid", "garbage"}
  /\ Legal(c) /\ Moves(c) /\ c.len > BufLen => Addresses(c) \cap e.bad = {}
  /\ Legal(c) \/ c.in \/ c.len = 0 \/ e.losses = 0

(* A host that starts with READ CAPACITY and sends no such command.        *)
Tame(e) ==
  /\ e.script # <<>> => e.script[1].op = "capacity"
  /\ \A i \in 1 .. Len(e.script) : WellFormed(e.script[i]) /\ Recoverable(e, e.script[i])

-----------------------------------------------------------------------------
DevType ==
  [tx : TxType, rx : RxType, conf : BOOLEAN, msc_state : MscStates,
   bot_status : {"idle", "recovery", "error"}, blk_addr : 0 .. Wrap - 1, blk_len : 0 .. Wrap - 1,
   nbr : {0, NBlk}, sense : {"illegal", "hardware"}, tag : Nat, residue : Nat, cbw : Nat,
   disk : [1 .. NBlk * BlkSize -> Unit]]

AnswerType == [verdict : {"pass", "fail", "unplugged"}, data : Packet, residue : Nat]

HostType ==
  [phase : Phases, cmd : Nat, got : Packet, sent : Nat, stalls : {0, 1}, lost : Nat,
   unplugs : Nat, answers : Seq(AnswerType)]

TypeInv ==
  /\ env \in Environments /\ dev \in DevType /\ host \in HostType
  /\ tog \in [{"in", "out"} -> {0, 1}]

(* Commands are answered in order; a tame script leaves bot_status alone;  *)
(* a handshake is lost where the line loses them; and cells are written by *)
(* commands that have been given.                                          *)
WrittenIn(a, i) == dev.disk[a][1] = "out" /\ dev.disk[a][2] = i

BaseInv ==
  /\ host.cmd = Len(Answers) + IF InCommand THEN 1 ELSE 0
  /\ host.cmd <= Len(Script) /\ dev.tag <= Len(Script) /\ dev.cbw <= Len(Script)
  /\ dev.bot_status = "idle"
  /\ Len(Answers) > 0 => dev.nbr = NBlk
  /\ Had => env.losses > 0
  /\ \A a \in 1 .. NBlk * BlkSize : dev.disk[a][1] = "out" => dev.disk[a][2] <= host.cmd

AnswersInv == RightAnswer /\ ResidueTells

Untouched == \A a \in 1 .. NBlk * BlkSize : ~WrittenIn(a, host.cmd)

Reason(c) == IF Legal(c) THEN "hardware" ELSE "illegal"

(* The sense data are those of the last failure, until the next.           *)
SenseKept ==
  Len(Answers) > 0 /\ Answers[Len(Answers)].verdict = "fail"
    => dev.sense = Reason(Command(Len(Answers)))

-----------------------------------------------------------------------------
(* The host has given what it had to before the phase, or has to give it   *)
(* once more because its handshake was lost.                               *)
CbwGiven(phase) == (host.phase = "cbw" /\ Had) \/ (host.phase = phase /\ ~Had)

DataOrStatus == IF Current.len = 0 THEN "status" ELSE "data"

Fresh == host.got = <<>> /\ host.sent = 0 /\ host.stalls = 0

TxQuiet == dev.tx.sts = "nak" /\ tog.in = dev.tx.tog

RxEmpty == dev.rx.room = 0 /\ dev.rx.buf = <<>> /\ dev.rx.len = 0

RxArmed == dev.rx.sts = "valid" /\ ~dev.rx.tc /\ RxEmpty

Ready ==
  /\ dev.conf /\ dev.msc_state = "idle" /\ TxQuiet /\ (dev.tx.tc => dev.tx.rest = <<>>)
  /\ RxEmpty /\ SenseKept

(* A port that was reset; between two commands; and a CBW to be given.     *)
Unplugged ==
  /\ host.phase = "unplugged" /\ ~dev.conf
  /\ dev.tx.sts = "disable" /\ ~dev.tx.tc /\ dev.tx.tog = 0 /\ tog.in = 0
  /\ dev.rx.sts = "disable" /\ ~dev.rx.tc /\ dev.rx.tog = 0 /\ tog.out = 0
  /\ SenseKept

Between == host.phase = "idle" /\ ~Had /\ Ready /\ RxArmed

Asking == host.phase = "cbw" /\ ~Had /\ Fresh /\ Ready /\ RxArmed /\ Untouched

(* The CBW waits for the interrupt.                                        *)
Waiting ==
  /\ CbwGiven(DataOrStatus) /\ Fresh /\ Ready /\ Untouched
  /\ dev.rx.sts = "nak" /\ dev.rx.tc /\ dev.rx.pkt = <<CbwUnit(host.cmd)>>

-----------------------------------------------------------------------------
(* The class has decoded the command.                                      *)
Decoded ==
  /\ dev.conf /\ dev.cbw = host.cmd /\ dev.tag = host.cmd /\ dev.nbr = NBlk

(* A refused command: IN is stalled, and OUT if the host has data for it.  *)
Refusal ==
  /\ Decoded /\ Untouched
  /\ Deserved(Current) = "fail" /\ dev.sense = Reason(Current)
  /\ dev.tx.sts = "stall" /\ ~dev.tx.tc /\ ~dev.rx.tc
  /\ host.stalls = 0

HasDataOut == Current.len # 0 /\ ~Current.in

Refused ==
  /\ CbwGiven(DataOrStatus) /\ Refusal
  /\ dev.rx.sts = IF HasDataOut THEN "stall" ELSE "nak"
  /\ host.got = <<>>
  /\ host.phase = "cbw" => ~HasDataOut

(* The host has cleared OUT and comes to IN.                               *)
Cleared == host.phase = "status" /\ ~Had /\ Refusal

-----------------------------------------------------------------------------
(* The data of a command that passes: how many units, and which.           *)
Volume(c) == IF c.op = "read" THEN c.len ELSE 1

Due(k, u) ==
  /\ Current.op = "read" => u = dev.disk[Current.lba * BlkSize + k]
  /\ Current.op = "sense" => u = <<"sense", 0, 0, dev.sense>>

AllDue(from, s) == \A k \in 1 .. Len(s) : Due(from + k, s[k])

(* Units of the command that are still on the medium.                      *)
Left == IF dev.msc_state = "data_in" THEN dev.blk_len ELSE 0

Whole(n) == \E k \in 0 .. n : n = k * MaxPacket

(* The packet offered and what follows it continue what the host has.      *)
Offered ==
  /\ dev.tx.sts = "valid" /\ ~dev.tx.tc /\ tog.in = dev.tx.tog
  /\ CbwGiven("data") /\ (host.phase = "cbw" => host.got = <<>>)
  /\ Len(host.got) + Len(dev.tx.pkt) + Len(dev.tx.rest) + Left = Volume(Current)
  /\ \/ Len(dev.tx.pkt) = MaxPacket
     \/ Len(dev.tx.pkt) \in 1 .. MaxPacket - 1 /\ dev.tx.rest = <<>> /\ Left = 0
  /\ AllDue(Len(host.got), dev.tx.pkt)
  /\ AllDue(Len(host.got) + Len(dev.tx.pkt), dev.tx.rest)

(* The host has the packet; the device may not know.                       *)
Received ==
  /\ \/ dev.tx.sts = "valid" /\ ~dev.tx.tc /\ tog.in # dev.tx.tog
     \/ dev.tx.sts = "nak" /\ dev.tx.tc /\ tog.in = dev.tx.tog
  /\ ~Had /\ host.phase = IF Len(host.got) = Volume(Current) THEN "status" ELSE "data"
  /\ Len(host.got) + Len(dev.tx.rest) + Left = Volume(Current)
  /\ AllDue(Len(host.got), dev.tx.rest)

Sending ==
  /\ Decoded /\ SenseKept
  /\ dev.rx.sts = "nak" /\ ~dev.rx.tc
  /\ Deserved(Current) = "pass" /\ Current.in /\ Current.len > 0 /\ ~(Current.op = "write")
  /\ dev.msc_state \in IF Current.op = "read" THEN {"data_in", "last_data"} ELSE {"send_data"}
  /\ dev.msc_state = "data_in" =>
       /\ dev.blk_len > 0 /\ Whole(Len(dev.tx.rest))
       /\ dev.blk_addr = Current.lba * BlkSize + (Current.len - dev.blk_len)
  /\ dev.residue + Volume(Current) = Current.len + Left
  /\ AllDue(0, host.got)
  /\ Offered \/ Received

-----------------------------------------------------------------------------
(* The first n units of a write are on the medium and nothing else of it.  *)
Off == Current.len - dev.blk_len

OnMedium(n) ==
  \A a \in 1 .. NBlk * BlkSize :
    IF a \in Current.lba * BlkSize + 1 .. Current.lba * BlkSize + n
    THEN dev.disk[a] = Written(host.cmd, a - Current.lba * BlkSize)
    ELSE ~WrittenIn(a, host.cmd)

(* The device has r units of the data, of which the host knows, or has to  *)
(* give the last packet or the CBW once more.                              *)
GivenUpTo(r) ==
  \/ host.phase = "cbw" /\ Had /\ r = 0 /\ host.sent = 0
  \/ host.phase = "data" /\ Had /\ host.sent + MaxPacket = r
  \/ ~Had /\ host.sent = r /\ host.phase = IF r = Current.len THEN "status" ELSE "data"

DataUnits(from, s) == \A k \in 1 .. Len(s) : s[k] = Written(host.cmd, from + k)

Receptive == dev.rx.sts = "valid" /\ ~dev.rx.tc /\ GivenUpTo(Off + Len(dev.rx.buf))

Holding ==
  /\ dev.rx.sts = "nak" /\ dev.rx.tc
  /\ Len(dev.rx.pkt) = MaxPacket /\ DataUnits(Off + Len(dev.rx.buf), dev.rx.pkt)
  /\ GivenUpTo(Off + Len(dev.rx.buf) + MaxPacket)

Writing ==
  /\ Decoded /\ SenseKept /\ TxQuiet /\ ~dev.tx.tc
  /\ Current.op = "write" /\ Legal(Current) /\ dev.msc_state = "data_out"
  /\ dev.blk_len \in 1 .. Current.len /\ Whole(dev.blk_len)
  /\ Works(Current) \/ (dev.blk_len = Current.len /\ dev.blk_len <= BufLen)
  /\ dev.blk_addr = Current.lba * BlkSize + Off /\ dev.residue = dev.blk_len
  /\ OnMedium(Off)
  /\ Whole(Len(dev.rx.buf)) /\ Len(dev.rx.buf) + MaxPacket + dev.rx.room = Chunk(dev)
  /\ DataUnits(Off, dev.rx.buf)
  /\ Receptive \/ Holding

-----------------------------------------------------------------------------
(* The CSW is offered, with the verdict that the command deserves.         *)
Done ==
  /\ Deserved(Current) = "pass" /\ SenseKept
  /\ dev.residue + (IF Current.in THEN Len(host.got) ELSE Current.len) = Current.len
  /\ Current.op = "write" => OnMedium(Current.len)
  /\ Current.op \in {"read", "sense"} => Len(host.got) = Volume(Current) /\ AllDue(0, host.got)

Failed == Deserved(Current) = "fail" /\ Untouched /\ dev.sense = Reason(Current)

ToldPhase ==
  \/ host.phase = "status" /\ ~Had
  \/ host.phase = "cbw" /\ Had /\ Current.len = 0 /\ host.got = <<>>
  \/ host.phase = "data" /\ Had /\ ~Current.in /\ host.sent + MaxPacket = Current.len

Told ==
  /\ ToldPhase /\ Decoded /\ dev.msc_state = "idle" /\ RxArmed
  /\ dev.tx.sts = "valid" /\ ~dev.tx.tc /\ tog.in = dev.tx.tog /\ dev.tx.rest = <<>>
  /\ \/ dev.tx.pkt = <<CswUnit(dev, "pass")>> /\ Done
     \/ dev.tx.pkt = <<CswUnit(dev, "fail")>> /\ Failed

Stage ==
  Unplugged \/ Between \/ Asking \/ Waiting \/ Refused \/ Cleared \/ Sending \/ Writing \/ Told

MSCInv == TypeInv /\ BaseInv /\ AnswersInv /\ Stage
=============================================================================
