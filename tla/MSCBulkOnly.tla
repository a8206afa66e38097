----------------------------- MODULE MSCBulkOnly -----------------------------
(***************************************************************************)
(* The mass storage class: msc_class.c and msc_bot_scsi.c on the bulk      *)
(* endpoints of USBBulk, with a host that runs a script of commands by the *)
(* bulk-only transport.                                                    *)
(*                                                                         *)
(* The operators named after functions take the device before the call to  *)
(* the device after it; the call of the endpoint interrupt is one step,    *)
(* and so is a class request.  The host and the medium are external.       *)
(***************************************************************************)
EXTENDS USBBulk

CONSTANTS
  Environments, \* [script, bad, losses, unplugs]: the commands, the addresses that
                \* cannot be read or written, the handshakes that may be lost and
                \* the port resets
  BlkSize,      \* units of a block
  BufLen,       \* MSC_MAX_DATA_BUF_LEN, in units
  NBlk,         \* blocks of the medium
  Wrap          \* 2^32: block and unit addresses are uint32_t

ASSUME MSCAssumption ==
  /\ BlkSize \in Nat \ {0} /\ BufLen \in Nat \ {0} /\ NBlk \in Nat \ {0}
  /\ BlkSize % MaxPacket = 0 /\ BufLen % BlkSize = 0
  /\ MaxPacket > 1 /\ Wrap \in Nat /\ Wrap > NBlk * BlkSize

(* What a script is made of, whatever the operation.                       *)
Commands == [op : STRING, in : BOOLEAN, len : Nat, lba : Nat, n : Nat]

ASSUME EnvironmentsAssumption ==
  Environments \subseteq [script : Seq(Commands), bad : SUBSET Nat, losses : Nat, unplugs : Nat]

VARIABLES
  env,  \* the environment chosen
  host  \* the host: phase and command, data taken and given, answers

mscVars == <<dev, tog, env, host>>

Script  == env.script
Command(i) == Script[i]

(* A CBW and a CSW are one unit, less than a packet.                       *)
CbwUnit(i)       == <<"cbw", i, 0, "">>
CswUnit(d, status) == <<"csw", d.tag, d.residue, status>>
Written(i, k)    == <<"out", i, k, "">>
Initially(a)     == <<"disk", a, 0, "">>

(* What the data buffer holds where nothing was received.                  *)
Stale == <<"stale", 0, 0, "">>

(* A CBW structure that holds no CBW.                                      *)
Garbage == [op |-> "garbage", in |-> FALSE, len |-> 1, lba |-> 0, n |-> 0]

CbwStruct(d) == IF d.cbw = 0 THEN Garbage ELSE Command(d.cbw)

-----------------------------------------------------------------------------
(* msc_bot_scsi.c                                                          *)

(* Defect: the state of an interrupted command is kept.                    *)
bot_scsi_init_no_state(d) ==
  [d EXCEPT !.bot_status = "idle", !.residue = 0, !.tag = 0, !.rx = usbd_ept_recv(@, 1)]

bot_scsi_init(d) ==
  [d EXCEPT !.msc_state = "idle", !.bot_status = "idle", !.residue = 0, !.tag = 0,
            !.rx = usbd_ept_recv(@, 1)]

bot_scsi_reset(d) ==
  [d EXCEPT !.msc_state = "idle", !.bot_status = "recovery", !.rx = usbd_ept_recv(@, 1)]

bot_scsi_send_csw(d, status) ==
  [d EXCEPT !.msc_state = "idle",
            !.tx = usbd_ept_send(@, <<CswUnit(d, status)>>),
            !.rx = usbd_ept_recv(@, 1)]

(* Defect: the residue stays what the host asked for.                      *)
bot_scsi_send_data_no_residue(d, s) ==
  [d EXCEPT !.msc_state = "send_data",
            !.tx = usbd_ept_send(@, SubSeq(s, 1, Least(Len(s), CbwStruct(d).len)))]

bot_scsi_send_data(d, s) ==
  LET n == Least(Len(s), CbwStruct(d).len)
  IN  [d EXCEPT !.residue = @ - n, !.msc_state = "send_data",
                !.tx = usbd_ept_send(@, SubSeq(s, 1, n))]

bot_scsi_stall(d) ==
  LET c == CbwStruct(d)
      r == IF c.len # 0 /\ ~c.in /\ d.bot_status = "idle" THEN usbd_set_stall(d.rx) ELSE d.rx
  IN  [d EXCEPT !.tx = usbd_set_stall(@),
                !.rx = IF d.bot_status = "error" THEN usbd_ept_recv(r, 1) ELSE r]

(* What a command comes to: the device, whether the function returned      *)
(* USB_OK, and the data it left for the host.                              *)
Reply(d, s)    == [d |-> d, ok |-> TRUE, data |-> s]
Refuse(d, key) == [d |-> [d EXCEPT !.sense = key], ok |-> FALSE, data |-> <<>>]

(* Defect: the last block is out of range.                                 *)
bot_scsi_check_address_short(d, c) == (c.lba + c.n) % Wrap < d.nbr

bot_scsi_check_address(d, c) == (c.lba + c.n) % Wrap <= d.nbr

bot_scsi_test_unit(d, c) == IF c.len # 0 THEN Refuse(d, "illegal") ELSE Reply(d, <<>>)

bot_scsi_inquiry(d, c) == Reply(d, IF c.len = 0 THEN <<>> ELSE <<<<"inquiry", 0, 0, "">>>>)

bot_scsi_capacity(d) == Reply([d EXCEPT !.nbr = NBlk], <<<<"capacity", NBlk, 0, "">>>>)

bot_scsi_request_sense(d, c) ==
  Reply(d, IF c.len = 0 THEN <<>> ELSE <<<<"sense", 0, 0, d.sense>>>>)

bot_scsi_mode_sense(d) == Reply(d, <<<<"mode", 0, 0, "">>>>)

(* The command compare is VERIFY with BYTCHK.                              *)
bot_scsi_verify(d, c) ==
  IF c.op = "compare" \/ ~bot_scsi_check_address(d, c) THEN Refuse(d, "illegal") ELSE Reply(d, <<>>)

(* What READ(10) and WRITE(10) ask of their CBW, and what they make of it; *)
(* blk_addr and blk_len of a refused command are not used again.           *)
Asked(d, c, in) ==
  /\ c.in = in
  /\ bot_scsi_check_address(d, c)
  /\ c.len = (c.n * BlkSize) % Wrap

Accept(d, c, state) ==
  [d EXCEPT !.blk_addr = (c.lba * BlkSize) % Wrap, !.blk_len = (c.n * BlkSize) % Wrap,
            !.msc_state = state]

Chunk(d) == Least(d.blk_len, BufLen)

(* msc_disk_read and msc_disk_write, external: they fail for the addresses *)
(* that the medium does not have and for the bad ones.                     *)
DiskWorks(d) ==
  \A a \in d.blk_addr + 1 .. d.blk_addr + Chunk(d) : a \in 1 .. NBlk * BlkSize /\ a \notin env.bad

(* Defect: the address stays.                                              *)
Advance_same_address(d) == [d EXCEPT !.blk_len = @ - Chunk(d), !.residue = @ - Chunk(d)]

Advance(d) ==
  [d EXCEPT !.blk_addr = @ + Chunk(d), !.blk_len = @ - Chunk(d), !.residue = @ - Chunk(d)]

(* One buffer of data from the medium to the host.                         *)
ReadChunk(d) ==
  IF ~DiskWorks(d) THEN Refuse(d, "hardware")
  ELSE Reply([Advance(d) EXCEPT
                !.tx = usbd_ept_send(@, SubSeq(d.disk, d.blk_addr + 1, d.blk_addr + Chunk(d))),
                !.msc_state = IF d.blk_len = Chunk(d) THEN "last_data" ELSE @], <<>>)

bot_scsi_read10(d, c) ==
  IF d.msc_state # "idle" THEN ReadChunk(d)
  ELSE IF ~Asked(d, c, TRUE) THEN Refuse(d, "illegal")
  ELSE ReadChunk(Accept(d, c, "data_in"))

(* Defect: all that is left is received into the buffer.                   *)
ReceiveChunk_whole(d) == [d EXCEPT !.rx = usbd_ept_recv(@, d.blk_len)]

ReceiveChunk(d) == [d EXCEPT !.rx = usbd_ept_recv(@, Chunk(d))]

(* One buffer of data from the host to the medium: the length of the chunk *)
(* decides what is written, not the length received.                       *)
WriteChunk(d) ==
  LET unit(a) == IF a - d.blk_addr <= Len(d.rx.buf) THEN d.rx.buf[a - d.blk_addr] ELSE Stale
      w == [Advance(d) EXCEPT
              !.disk = [a \in DOMAIN @ |->
                          IF a \in d.blk_addr + 1 .. d.blk_addr + Chunk(d) THEN unit(a) ELSE @[a]]]
  IN  IF ~DiskWorks(d) THEN Refuse(d, "hardware")
      ELSE Reply(IF w.blk_len = 0 THEN bot_scsi_send_csw(w, "pass") ELSE ReceiveChunk(w), <<>>)

bot_scsi_write10(d, c) ==
  IF d.msc_state # "idle" THEN WriteChunk(d)
  ELSE IF ~Asked(d, c, FALSE) THEN Refuse(d, "illegal")
  ELSE Reply(ReceiveChunk(Accept(d, c, "data_out")), <<>>)

bot_scsi_cmd_process(d) ==
  LET c == CbwStruct(d) IN
  CASE c.op = "ready"                  -> bot_scsi_test_unit(d, c)
    [] c.op = "inquiry"                -> bot_scsi_inquiry(d, c)
    [] c.op = "capacity"               -> bot_scsi_capacity(d)
    [] c.op = "sense"                  -> bot_scsi_request_sense(d, c)
    [] c.op = "mode"                   -> bot_scsi_mode_sense(d)
    [] c.op \in {"start", "removal"}   -> Reply(d, <<>>)
    [] c.op \in {"verify", "compare"}  -> bot_scsi_verify(d, c)
    [] c.op = "read"                   -> bot_scsi_read10(d, c)
    [] c.op = "write"                  -> bot_scsi_write10(d, c)
    [] OTHER                           -> Refuse(d, "illegal")

(* The command invalid is a CBW whose fields are out of range.             *)
InvalidCbw(d) == d.rx.len # 1 \/ CbwStruct(d).op \in {"invalid", "garbage"}

Unanswered(d) == d.msc_state \notin {"data_in", "data_out", "last_data"}

bot_cbw_decode(d0) ==
  LET d == [d0 EXCEPT !.tag = d0.cbw, !.residue = CbwStruct(d0).len]
      r == bot_scsi_cmd_process(d)
  IN  IF InvalidCbw(d) THEN bot_scsi_stall([d EXCEPT !.sense = "illegal", !.bot_status = "error"])
      ELSE IF ~r.ok THEN bot_scsi_stall(r.d)
      ELSE IF ~Unanswered(r.d) THEN r.d
      ELSE IF r.data = <<>> THEN bot_scsi_send_csw(r.d, "pass")
      ELSE bot_scsi_send_data(r.d, r.data)

(* A command goes on, or its failure is told.                              *)
GoOn(d) ==
  LET r == bot_scsi_cmd_process(d) IN IF r.ok THEN r.d ELSE bot_scsi_send_csw(r.d, "fail")

bot_scsi_datain_handler(d) ==
  CASE d.msc_state = "data_in"                   -> GoOn(d)
    [] d.msc_state \in {"last_data", "send_data"} -> bot_scsi_send_csw(d, "pass")
    [] OTHER                                     -> d

(* While a CBW is awaited the endpoint's buffer is cbw_struct.             *)
StoreCbw(d) ==
  [d EXCEPT !.cbw = IF d.rx.buf # <<>> /\ d.rx.buf[1][1] = "cbw" THEN d.rx.buf[1][2] ELSE 0]

bot_scsi_dataout_handler(d) ==
  CASE d.msc_state = "idle"     -> bot_cbw_decode(StoreCbw(d))
    [] d.msc_state = "data_out" -> GoOn(d)
    [] OTHER                    -> d

(* Defect: no CSW after a stall of the data. *)
bot_scsi_clear_feature_no_csw(d, in) ==
  IF d.bot_status = "error" THEN [d EXCEPT !.tx = usbd_set_stall(@), !.bot_status = "idle"]
  ELSE d

bot_scsi_clear_feature(d, in) ==
  IF d.bot_status = "error" THEN [d EXCEPT !.tx = usbd_set_stall(@), !.bot_status = "idle"]
  ELSE IF in /\ d.bot_status # "recovery" THEN bot_scsi_send_csw(d, "fail")
  ELSE d

-----------------------------------------------------------------------------
(* msc_class.c and the interrupt of the endpoints.                         *)

class_init_handler(d) ==
  bot_scsi_init([d EXCEPT !.tx = OpenTx(@), !.rx = OpenRx(@), !.conf = TRUE])

(* CLEAR_FEATURE(ENDPOINT_HALT): usbd_endpoint_request, then the class.    *)
ClearHalt(d, in) ==
  bot_scsi_clear_feature(
    IF in THEN [d EXCEPT !.tx = OpenTx(usbd_ept_close(usbd_clear_stall(@)))]
          ELSE [d EXCEPT !.rx = OpenRx(usbd_ept_close(usbd_clear_stall(@)))], in)

(* The endpoint's two completions: that of IN first.                       *)
InComplete(d) ==
  IF TxComplete(d.tx)
  THEN IF d.conf THEN bot_scsi_datain_handler(d) ELSE d
  ELSE [d EXCEPT !.tx = usbd_ept_send(@, d.tx.rest)]

OutComplete(d) ==
  IF RxComplete(d.rx)
  THEN IF d.conf THEN bot_scsi_dataout_handler(d) ELSE d
  ELSE [d EXCEPT !.rx = GoOnReceiving(@, d.rx.room)]

EptInterrupt ==
  /\ \/ /\ dev.tx.tc
        /\ \E d \in {[dev EXCEPT !.tx = TxServed(@)]} : dev' = InComplete(d)
     \/ /\ ~dev.tx.tc /\ dev.rx.tc
        /\ \E d \in {[dev EXCEPT !.rx = RxServed(@)]} : dev' = OutComplete(d)
  /\ UNCHANGED <<tog, env, host>>

-----------------------------------------------------------------------------
(* The host's driver, external: a command's CBW, its data, its CSW; a      *)
(* stall in the data or status phase is cleared, and what it cannot make   *)
(* sense of ends in a reset recovery.                                      *)

Current == Command(host.cmd)

Phases == {"idle", "cbw", "data", "status", "reset", "clear_in", "clear_out", "unplugged"}

Enter(phase) == [host EXCEPT !.phase = phase]

Answer(h, verdict, residue) ==
  [h EXCEPT !.answers = Append(@, [verdict |-> verdict, data |-> h.got, residue |-> residue])]

NextCommand ==
  /\ host.phase = "idle" /\ host.cmd < Len(Script)
  /\ host' = [host EXCEPT !.phase = "cbw", !.cmd = @ + 1, !.got = <<>>, !.sent = 0,
                          !.stalls = 0]
  /\ UNCHANGED <<dev, tog, env>>

(* A lost handshake is counted.                                            *)
MayLose(lost) == lost => host.lost < env.losses

Lose(h, lost) == IF lost THEN [h EXCEPT !.lost = @ + 1] ELSE h

GiveCbw(lost) ==
  /\ host.phase = "cbw" /\ MayLose(lost)
  /\ GivePacket(<<CbwUnit(host.cmd)>>, lost)
  /\ host' = Lose(IF lost THEN host
                  ELSE IF Current.len = 0 THEN Enter("status") ELSE Enter("data"), lost)
  /\ UNCHANGED env

(* The host has a packet when it arrives, whatever becomes of its ACK.     *)
TakeData(lost) ==
  /\ host.phase = "data" /\ Current.in /\ MayLose(lost)
  /\ TakePacket(lost)
  /\ LET got == host.got \o dev.tx.pkt
         end == Len(got) >= Current.len \/ Len(dev.tx.pkt) < MaxPacket
     IN  host' = Lose(IF Takes THEN [host EXCEPT !.got = got, !.phase = IF end THEN "status" ELSE @]
                      ELSE host, lost)
  /\ UNCHANGED env

DataOut == [k \in 1 .. Current.len |-> Written(host.cmd, k)]

GiveData(lost) ==
  /\ host.phase = "data" /\ ~Current.in /\ MayLose(lost)
  /\ LET to == Least(host.sent + MaxPacket, Current.len)
     IN  /\ GivePacket(SubSeq(DataOut, host.sent + 1, to), lost)
         /\ host' = Lose(IF lost THEN host
                         ELSE [host EXCEPT !.sent = to,
                                           !.phase = IF to = Current.len THEN "status" ELSE @], lost)
  /\ UNCHANGED env

GoodCsw(pkt) ==
  Len(pkt) = 1 /\ pkt[1][1] = "csw" /\ pkt[1][2] = host.cmd /\ pkt[1][4] \in {"pass", "fail"}

(* The handshake of a CSW arrives: what a device can do about a lost one   *)
(* is not in this code.                                                    *)
TakeCsw ==
  /\ host.phase = "status"
  /\ TakePacket(FALSE)
  /\ LET csw == dev.tx.pkt[1]
     IN  host' = IF ~Takes THEN host
                 ELSE IF ~GoodCsw(dev.tx.pkt) THEN Enter("reset")
                 ELSE Answer(Enter("idle"), csw[4], csw[3])
  /\ UNCHANGED env

StalledData == host.phase = "data" /\ (IF Current.in THEN dev.tx ELSE dev.rx).sts = "stall"

ClearData ==
  /\ StalledData
  /\ dev' = ClearHalt(dev, Current.in)
  /\ tog' = IF Current.in THEN [tog EXCEPT !.in = 0] ELSE [tog EXCEPT !.out = 0]
  /\ host' = Enter("status")
  /\ UNCHANGED env

StalledStatus == host.phase = "status" /\ dev.tx.sts = "stall"

ClearStatus ==
  /\ StalledStatus /\ host.stalls = 0
  /\ dev' = ClearHalt(dev, TRUE)
  /\ tog' = [tog EXCEPT !.in = 0]
  /\ host' = [host EXCEPT !.stalls = 1]
  /\ UNCHANGED env

(* Nothing that the host waits for can come any more.                      *)
Silent ==
  /\ ~dev.tx.tc /\ ~dev.rx.tc
  /\ \/ host.phase = "cbw" /\ ~Hears
     \/ host.phase = "data" /\ ~Current.in /\ dev.rx.sts # "stall" /\ ~Hears
     \/ host.phase = "data" /\ Current.in /\ dev.tx.sts \in {"nak", "disable"}
     \/ host.phase = "status" /\ dev.tx.sts \in {"nak", "disable"}

GiveUp ==
  /\ Silent \/ (StalledStatus /\ host.stalls = 1)
  /\ host' = Enter("reset")
  /\ UNCHANGED <<dev, tog, env>>

(* Reset recovery: MSC_REQ_BO_RESET, then both halts are cleared.          *)
BoReset ==
  /\ host.phase = "reset" /\ ~dev.tx.tc /\ ~dev.rx.tc
  /\ dev' = bot_scsi_reset(dev)
  /\ host' = Enter("clear_in")
  /\ UNCHANGED <<tog, env>>

RecoverIn ==
  /\ host.phase = "clear_in"
  /\ dev' = ClearHalt(dev, TRUE)
  /\ tog' = [tog EXCEPT !.in = 0]
  /\ host' = Enter("clear_out")
  /\ UNCHANGED env

RecoverOut ==
  /\ host.phase = "clear_out"
  /\ dev' = ClearHalt(dev, FALSE)
  /\ tog' = [tog EXCEPT !.out = 0]
  /\ host' = Answer(Enter("idle"), "reset", 0)
  /\ UNCHANGED env

(* A port reset at any time, once the host knows the capacity:             *)
(* usbd_reset_handler and what the peripheral does with its endpoint       *)
(* registers.                                                              *)
InCommand == host.phase \notin {"idle", "unplugged"}

PortReset ==
  /\ host.phase # "unplugged" /\ host.unplugs < env.unplugs /\ Len(host.answers) > 0
  /\ dev' = [dev EXCEPT !.tx = SwitchedOff(@), !.rx = SwitchedOff(@), !.conf = FALSE]
  /\ tog' = [in |-> 0, out |-> 0]
  /\ LET h == [host EXCEPT !.phase = "unplugged", !.unplugs = @ + 1]
     IN  host' = IF InCommand THEN Answer(h, "unplugged", 0) ELSE h
  /\ UNCHANGED env

(* SET_CONFIGURATION.                                                      *)
Configure ==
  /\ host.phase = "unplugged"
  /\ dev' = class_init_handler(dev)
  /\ host' = Enter("idle")
  /\ UNCHANGED <<tog, env>>

-----------------------------------------------------------------------------
DevReset ==
  [tx |-> TxReset, rx |-> RxReset, conf |-> FALSE, msc_state |-> "idle", bot_status |-> "idle",
   blk_addr |-> 0, blk_len |-> 0, nbr |-> 0, sense |-> "illegal", tag |-> 0, residue |-> 0,
   cbw |-> 0, disk |-> [a \in 1 .. NBlk * BlkSize |-> Initially(a)]]

Init ==
  /\ env \in Environments
  /\ dev = class_init_handler(DevReset)
  /\ tog = [in |-> 0, out |-> 0]
  /\ host = [phase |-> "idle", cmd |-> 0, got |-> <<>>, sent |-> 0, stalls |-> 0, lost |-> 0,
             unplugs |-> 0, answers |-> <<>>]

Wire(lost) == GiveCbw(lost) \/ TakeData(lost) \/ GiveData(lost)

Requests == ClearData \/ ClearStatus \/ BoReset \/ RecoverIn \/ RecoverOut \/ Configure

HostStep == NextCommand \/ Wire(FALSE) \/ TakeCsw \/ Requests \/ GiveUp

Next == EptInterrupt \/ HostStep \/ Wire(TRUE) \/ PortReset

Spec == Init /\ [][Next]_mscVars

(* The interrupt is served, and the host does not give up on its script.   *)
FairSpec == Spec /\ WF_mscVars(EptInterrupt) /\ WF_mscVars(HostStep)

-----------------------------------------------------------------------------
MscStates == {"idle", "data_in", "data_out", "send_data", "last_data"}

(* The device's state is of its type; the residue, a uint32_t, is not      *)
(* wrapped around.                                                         *)
TypeOK ==
  /\ dev.tx \in TxType /\ dev.rx \in RxType /\ dev.conf \in BOOLEAN
  /\ dev.msc_state \in MscStates /\ dev.bot_status \in {"idle", "recovery", "error"}
  /\ dev.blk_addr \in 0 .. Wrap - 1 /\ dev.blk_len \in 0 .. Wrap - 1
  /\ dev.nbr \in {0, NBlk} /\ dev.sense \in {"illegal", "hardware"}
  /\ dev.tag \in 0 .. Len(Script) /\ dev.residue \in Nat /\ dev.cbw \in 0 .. Len(Script)
  /\ DOMAIN dev.disk = 1 .. NBlk * BlkSize
  /\ tog \in [{"in", "out"} -> {0, 1}]
  /\ host.phase \in Phases /\ host.cmd \in 0 .. Len(Script)

(* What a command deserves, from the command itself: the part of the       *)
(* medium it names has to exist and to work.                               *)
Addresses(c) == c.lba * BlkSize + 1 .. (c.lba + c.n) * BlkSize

Moves(c) == c.op \in {"read", "write"}

InRange(c) == c.lba + c.n <= NBlk

Legal(c) ==
  CASE Moves(c)        -> InRange(c) /\ c.len = c.n * BlkSize /\ c.in = (c.op = "read")
    [] c.op = "verify" -> InRange(c)
    [] c.op = "ready"  -> c.len = 0
    [] OTHER           -> c.op \in {"inquiry", "capacity", "sense", "mode", "start", "removal"}

Works(c) == Moves(c) => Addresses(c) \cap env.bad = {}

Deserved(c) == IF Legal(c) /\ Works(c) THEN "pass" ELSE "fail"

Answers == host.answers

(* A command of several buffers that fails in between sends its CSW where  *)
(* data are due, and what is left of a WRITE(10) is received as a CBW: an  *)
(* invalid one, whose stall meets the next command and whose sense hides   *)
(* the reason.                                                             *)
BreaksOff(c) == Legal(c) /\ ~Works(c) /\ c.len > BufLen
CutShort(c)  == BreaksOff(c) /\ c.op = "write"

(* A verdict that the host gets is the one that the command deserves, and  *)
(* a REQUEST SENSE after a failure tells its reason: the two go through    *)
(* stalls, cleared halts and state that outlives the command.              *)
RightAnswer ==
  \A i \in 1 .. Len(Answers) :
    Answers[i].verdict \in {"pass", "fail"} =>
      /\ Answers[i].verdict = Deserved(Command(i))
      /\ \/ i = 1 \/ Command(i).op # "sense" \/ Answers[i - 1].verdict # "fail"
         \/ CutShort(Command(i - 1))
         \/ Answers[i].data = <<<<"sense", 0, 0,
                                IF Legal(Command(i - 1)) THEN "hardware" ELSE "illegal">>>>

(* The residue and the data that a passed command took account for what    *)
(* the host asked for.                                                     *)
ResidueTells ==
  \A i \in 1 .. Len(Answers) :
    Answers[i].verdict = "pass" =>
      Answers[i].residue + (IF Command(i).in THEN Len(Answers[i].data) ELSE Command(i).len)
        = Command(i).len

(* A packet fits the buffer that it is copied to, which is as large as the *)
(* phase says: usb_read_packet copies what was received, and cbw_struct    *)
(* lies at the end of the class's state.  Two commands break this, because *)
(* the host still sends their data when a CBW is awaited, and leave behind *)
(* a bot_status with which later ones may: a write cut short, and an       *)
(* invalid CBW with data to the device.                                    *)
RoomFor(d) == IF d.msc_state = "data_out" THEN BufLen ELSE 1

SendsOn(c) == CutShort(c) \/ (c.op = "invalid" /\ ~c.in)

PacketFits ==
  dev.rx.tc => \/ Len(dev.rx.buf) + Len(dev.rx.pkt) <= RoomFor(dev)
               \/ \E j \in 1 .. host.cmd : SendsOn(Command(j))

(* Nothing leaves its bounds: neither a counter nor a packet.              *)
NoOverrun == TypeOK /\ PacketFits

(* The host comes to the end of its script, and no command that deserves   *)
(* it fails to pass, but for a port reset: also after a command that ended *)
(* in a reset recovery, unless it was a write cut short.                   *)
GoodCommandsPass ==
  <>(/\ Len(Answers) = Len(Script)
     /\ \A i \in 1 .. Len(Script) :
          Deserved(Command(i)) = "pass" =>
            \/ Answers[i].verdict \in {"pass", "unplugged"}
            \/ i > 1 /\ CutShort(Command(i - 1)))

(* A command that fails is told so by a CSW, whatever the stall it goes    *)
(* through: the host has to reset the device only for an invalid CBW, for  *)
(* a command that breaks off and, since bot_scsi_reset leaves bot_status   *)
(* at BOT_STATE_RECOVERY and a write cut short leaves it at                *)
(* BOT_STATE_ERROR, for a failure after one of those, until the port is    *)
(* reset.                                                                  *)
LeavesStatus(j) == Answers[j].verdict = "reset" \/ CutShort(Command(j))

FailureIsTold ==
  \A i \in 1 .. Len(Answers) :
    Answers[i].verdict = "reset" =>
      \/ Command(i).op = "invalid" \/ BreaksOff(Command(i))
      \/ \E j \in 1 .. i - 1 :
           LeavesStatus(j) /\ \A k \in j + 1 .. i - 1 : Answers[k].verdict # "unplugged"
      \/ env.losses > 0 /\ ~Command(i).in /\ ~Legal(Command(i))

(* Nothing disturbs the script.  Left out of a line that loses handshakes  *)
(* are refused commands with data to the device: their stall hits the      *)
(* endpoint on which the host may still have to repeat the CBW.            *)
Sound ==
  /\ env.bad = {} /\ env.unplugs = 0
  /\ \A i \in 1 .. Len(Script) :
       Command(i).op # "invalid" /\ (env.losses > 0 => Legal(Command(i)) \/ Command(i).in)

Device == INSTANCE BlockDevice WITH
  NCell <- NBlk * BlkSize, script <- Script, sound <- Sound, disk <- dev.disk,
  answers <- Answers

(* The class is a block device: the medium changes by the writes of the    *)
(* command at hand, a passed command was done as a whole, and what fails   *)
(* on a sound medium has changed nothing (see BlockDevice).                *)
IsABlockDevice == Device!Spec
=============================================================================
