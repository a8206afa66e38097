-------------------------- MODULE MSCBulkOnlyProofs --------------------------
(***************************************************************************)
(* For every medium, buffer and packet size, every tame script, any bad    *)
(* addresses, lost handshakes and port resets: the host is told of each    *)
(* command what the command deserves, and the class is a block device.     *)
(***************************************************************************)
EXTENDS MSCBulkOnlyInv, SequenceTheorems, TLAPS

(* Sizes, and multiples of a packet.                                       *)
LEMMA Sizes ==
  /\ MaxPacket \in Nat /\ MaxPacket > 1 /\ BlkSize \in Nat /\ BlkSize > 0
  /\ BufLen \in Nat /\ BufLen > 0 /\ NBlk \in Nat /\ NBlk > 0
  /\ NBlk * BlkSize \in Nat /\ Wrap \in Nat /\ Wrap > NBlk * BlkSize
<1>1. /\ MaxPacket \in Nat /\ MaxPacket > 1 /\ BlkSize \in Nat /\ BlkSize > 0
      /\ BufLen \in Nat /\ BufLen > 0 /\ NBlk \in Nat /\ NBlk > 0
  BY MSCAssumption, MaxPacketAssumption
<1>2. NBlk * BlkSize \in Nat
  BY <1>1
<1> QED
  BY <1>1, <1>2, MSCAssumption, EnvironmentsAssumption

LEMMA Multiple ==
  ASSUME NEW a \in Nat, NEW b \in Nat \ {0}, a % b = 0
  PROVE  \E k \in Nat : a = k * b
<1>1. a = b * (a \div b) + (a % b) /\ a \div b \in Nat
  OBVIOUS
<1>2. a = (a \div b) * b
  BY <1>1
<1> QED
  BY <1>1, <1>2

LEMMA WholeIntro ==
  ASSUME NEW k \in Nat
  PROVE  k * MaxPacket \in Nat /\ Whole(k * MaxPacket)
<1>1. MaxPacket \in Nat /\ MaxPacket > 1
  BY Sizes
<1>2. k * MaxPacket \in Nat /\ k <= k * MaxPacket
  BY <1>1
<1>3. k \in 0 .. k * MaxPacket
  BY <1>2
<1> QED
  BY <1>2, <1>3 DEF Whole

LEMMA WholeSums ==
  ASSUME NEW a \in Nat, NEW b \in Nat, Whole(a), Whole(b)
  PROVE  /\ Whole(a + b)
         /\ a <= b => Whole(b - a)
         /\ a > 0 => a >= MaxPacket
         /\ a < b => a + MaxPacket <= b
<1>1. MaxPacket \in Nat /\ MaxPacket > 1
  BY Sizes
<1>2. PICK k \in Nat : a = k * MaxPacket
  BY DEF Whole
<1>3. PICK l \in Nat : b = l * MaxPacket
  BY DEF Whole
<1>4. Whole(a + b)
  <2>1. a + b = (k + l) * MaxPacket /\ k + l \in Nat
    BY <1>1, <1>2, <1>3
  <2> QED
    BY <2>1, WholeIntro
<1>5. ASSUME a <= b PROVE Whole(b - a)
  <2>1. k <= l
    BY <1>1, <1>2, <1>3, <1>5
  <2>2. l - k \in Nat /\ b - a = (l - k) * MaxPacket
    BY <1>1, <1>2, <1>3, <2>1
  <2> QED
    BY <2>2, WholeIntro
<1>6. a > 0 => a >= MaxPacket
  BY <1>1, <1>2
<1>7. ASSUME a < b PROVE a + MaxPacket <= b
  <2>1. k < l
    BY <1>1, <1>2, <1>3, <1>7
  <2>2. k + 1 <= l
    BY <2>1
  <2>3. (k + 1) * MaxPacket <= l * MaxPacket /\ (k + 1) * MaxPacket = k * MaxPacket + MaxPacket
    BY <1>1, <2>2
  <2> QED
    BY <1>2, <1>3, <2>3
<1> QED
  BY <1>4, <1>5, <1>6, <1>7

LEMMA WholeSizes ==
  /\ Whole(0) /\ Whole(MaxPacket) /\ Whole(BufLen) /\ MaxPacket <= BufLen
  /\ \A n \in Nat : n * BlkSize \in Nat /\ Whole(n * BlkSize)
<1>1. Whole(0) /\ Whole(MaxPacket)
  <2>1. 0 * MaxPacket = 0 /\ 1 * MaxPacket = MaxPacket
    BY Sizes
  <2> QED
    BY <2>1, WholeIntro
<1>2. PICK k \in Nat : BlkSize = k * MaxPacket
  BY Multiple, Sizes, MSCAssumption, SMTT(30)
<1>3. ASSUME NEW n \in Nat PROVE n * BlkSize \in Nat /\ Whole(n * BlkSize)
  <2>1. n * k \in Nat
    OBVIOUS
  <2>2. n * BlkSize = (n * k) * MaxPacket
    BY <1>2, Sizes
  <2> QED
    BY <2>1, <2>2, WholeIntro
<1>4. PICK m \in Nat : BufLen = m * BlkSize
  BY Multiple, Sizes, MSCAssumption
<1>5. Whole(BufLen)
  BY <1>3, <1>4
<1>6. MaxPacket <= BufLen
  BY <1>5, <1>1, WholeSums, Sizes
<1> QED
  BY <1>1, <1>3, <1>5, <1>6

-----------------------------------------------------------------------------
(* The script's commands.                                                  *)
LEMMA EnvFacts ==
  ASSUME env \in Environments
  PROVE  /\ Len(Script) \in Nat /\ env.losses \in Nat /\ env.unplugs \in Nat
         /\ \A i \in 1 .. Len(Script) : Command(i) \in Commands
BY EnvironmentsAssumption DEF Script, Command

LEMMA CommandFacts ==
  ASSUME env \in Environments, Tame(env), NEW i \in 1 .. Len(Script)
  PROVE  /\ Command(i).op \in STRING /\ Command(i).in \in BOOLEAN
         /\ Command(i).len \in Nat /\ Command(i).lba \in Nat /\ Command(i).n \in Nat
         /\ WellFormed(Command(i)) /\ Recoverable(env, Command(i))
         /\ i = 1 => Command(i).op = "capacity"
<1>1. Command(i) \in Commands /\ Len(Script) \in Nat
  BY EnvFacts
<1>3. WellFormed(Command(i)) /\ Recoverable(env, Command(i))
  BY DEF Tame, Script, Command
<1>4. env.script # <<>>
  <2>1. env.script \in Seq(Commands)
    BY EnvironmentsAssumption
  <2> QED
    BY <2>1, EmptySeq, <1>1 DEF Script
<1>5. i = 1 => Command(i).op = "capacity"
  BY <1>4 DEF Tame, Script, Command
<1> QED
  BY <1>1, <1>3, <1>5 DEF Commands

LEMMA ModSmall ==
  ASSUME NEW a \in Nat, NEW b \in Nat, a < b
  PROVE  a % b = a
OBVIOUS

LEMMA LegalMoves ==
  ASSUME NEW c \in Commands, WellFormed(c), Moves(c), Legal(c)
  PROVE  /\ c.lba * BlkSize \in Nat /\ c.len \in Nat /\ c.len > 0 /\ Whole(c.len)
         /\ c.lba * BlkSize + c.len <= NBlk * BlkSize
         /\ (c.lba * BlkSize) % Wrap = c.lba * BlkSize
         /\ (c.n * BlkSize) % Wrap = c.len /\ c.len < Wrap
         /\ Addresses(c) = c.lba * BlkSize + 1 .. c.lba * BlkSize + c.len
         /\ c.in = (c.op = "read")
<1> DEFINE lo == c.lba * BlkSize
           hi == NBlk * BlkSize
           sz == c.n * BlkSize
<1>1. c.lba \in Nat /\ c.n \in Nat /\ c.n > 0 /\ c.lba + c.n <= NBlk /\ c.len = sz /\ c.in = (c.op = "read")
  BY DEF Commands, WellFormed, Legal, Moves, InRange
<1>2. lo \in Nat /\ sz \in Nat /\ sz > 0 /\ (c.lba + c.n) * BlkSize = lo + sz
  BY <1>1, Sizes
<1>3. (c.lba + c.n) * BlkSize <= hi /\ hi \in Nat
  BY <1>1, Sizes
<1>4. lo + sz <= hi /\ hi < Wrap /\ Wrap \in Nat
  BY <1>2, <1>3, Sizes
<1>5. Whole(sz)
  BY <1>1, WholeSizes
<1>6. Addresses(c) = lo + 1 .. lo + sz
  BY <1>2 DEF Addresses
<1>10. lo \in Nat /\ sz \in Nat /\ sz > 0 /\ hi \in Nat
  BY <1>2, <1>3
<1> HIDE DEF lo, hi, sz
<1>7. lo < Wrap /\ sz < Wrap /\ lo \in Nat /\ sz \in Nat
  BY <1>10, <1>4
<1>8. lo % Wrap = lo /\ sz % Wrap = sz
  BY <1>7, <1>4, ModSmall
<1>9. /\ lo \in Nat /\ c.len \in Nat /\ c.len > 0 /\ Whole(c.len) /\ lo + c.len <= hi
      /\ lo % Wrap = lo /\ sz % Wrap = c.len /\ c.len < Wrap
      /\ Addresses(c) = lo + 1 .. lo + c.len /\ c.in = (c.op = "read")
  <2>1. c.len = sz
    BY <1>1
  <2> QED
    BY <1>1, <1>2, <1>4, <1>5, <1>6, <1>7, <1>8, <2>1
<1> QED
  BY <1>9 DEF lo, hi, sz

(* READ(10) and WRITE(10) accept what is legal.                            *)
LEMMA AskedIsLegal ==
  ASSUME NEW c \in Commands, WellFormed(c), Moves(c), NEW d, d.nbr = NBlk
  PROVE  Asked(d, c, c.op = "read") <=> Legal(c)
<1> DEFINE sz == c.n * BlkSize
<1>1. c.lba \in Nat /\ c.n \in Nat /\ c.n > 0 /\ c.lba + c.n < Wrap /\ c.len \in Nat
  BY DEF Commands, WellFormed
<1>2. (c.lba + c.n) % Wrap = c.lba + c.n
  BY <1>1, Sizes
<1>3. c.lba + c.n <= NBlk => sz % Wrap = sz
  <2>1. ASSUME c.lba + c.n <= NBlk PROVE sz <= NBlk * BlkSize /\ sz \in Nat
    BY <1>1, <2>1, Sizes
  <2> HIDE DEF sz
  <2> QED
    BY <2>1, Sizes
<1>4. Legal(c) <=> c.lba + c.n <= NBlk /\ c.len = sz /\ c.in = (c.op = "read")
  BY DEF Legal, InRange, Moves
<1>5. Asked(d, c, c.op = "read") <=> c.lba + c.n <= NBlk /\ c.len = sz % Wrap /\ c.in = (c.op = "read")
  BY <1>2 DEF Asked, bot_scsi_check_address
<1> HIDE DEF sz
<1> QED
  BY <1>3, <1>4, <1>5
-----------------------------------------------------------------------------
(* Endpoints and packets.                                                  *)
LEMMA PacketFacts ==
  /\ <<>> \in Packet /\ Len(<<>>) = 0
  /\ \A u \in Unit : <<u>> \in Packet /\ Len(<<u>>) = 1 /\ <<u>>[1] = u
  /\ \A s \in Packet : Len(s) \in Nat /\ (s # <<>> <=> Len(s) > 0) /\ \A k \in 1 .. Len(s) : s[k] \in Unit
<1>1. ASSUME NEW s \in Packet
      PROVE  Len(s) \in Nat /\ (s # <<>> <=> Len(s) > 0) /\ \A k \in 1 .. Len(s) : s[k] \in Unit
  <2>1. s \in Seq(Unit)
    BY DEF Packet
  <2> QED
    BY <2>1, EmptySeq, ElementOfSeq
<1>2. \A u \in Unit : <<u>> \in Packet /\ Len(<<u>>) = 1 /\ <<u>>[1] = u
  BY DEF Packet
<1>3. <<>> \in Packet /\ Len(<<>>) = 0
  BY DEF Packet
<1> QED
  BY <1>1, <1>2, <1>3

LEMMA SplitFacts ==
  ASSUME NEW s \in Packet, s # <<>>
  PROVE  /\ First(s) \in Packet /\ Rest(s) \in Packet
         /\ Len(First(s)) + Len(Rest(s)) = Len(s)
         /\ Len(First(s)) = MaxPacket \/ (Len(First(s)) \in 1 .. MaxPacket - 1 /\ Rest(s) = <<>>)
         /\ Len(First(s)) <= Len(s) /\ Len(First(s)) > 0
         /\ \A k \in 1 .. Len(First(s)) : First(s)[k] = s[k]
         /\ \A k \in 1 .. Len(Rest(s)) : Rest(s)[k] = s[Len(First(s)) + k]
<1> DEFINE l == Least(MaxPacket, Len(s))
<1>1. /\ Len(s) \in Nat /\ Len(s) > 0 /\ MaxPacket \in Nat /\ MaxPacket > 1
      /\ \A i \in 1 .. Len(s) : s[i] \in Unit
  BY Sizes, PacketFacts
<1>2. /\ l \in 1 .. Len(s) /\ l \in Nat /\ l - 1 + 1 = l
      /\ l = MaxPacket \/ (l = Len(s) /\ l \in 1 .. MaxPacket - 1)
      /\ l = MaxPacket => MaxPacket <= Len(s)
  BY <1>1 DEF Least
<1> HIDE DEF l
<1>3. /\ SubSeq(s, 1, l) \in Packet /\ Len(SubSeq(s, 1, l)) = l
      /\ \A i \in 1 .. l : SubSeq(s, 1, l)[i] = s[i]
  <2>1. \A i \in 1 .. l : s[i] \in Unit
    BY <1>1, <1>2
  <2>2. l \in Int /\ 1 \in Int /\ l - 1 + 1 = l /\ 1 <= l
    BY <1>2
  <2>3. /\ SubSeq(s, 1, l) \in Seq(Unit) /\ Len(SubSeq(s, 1, l)) = l
        /\ \A i \in 1 .. l : SubSeq(s, 1, l)[i] = s[1 + i - 1]
    BY <2>1, <2>2, SubSeqProperties
  <2>4. \A i \in 1 .. l : 1 + i - 1 = i
    BY <1>2
  <2> QED
    BY <2>3, <2>4 DEF Packet
<1>4. First(s) = SubSeq(s, 1, l)
  BY DEF First, l
<1>5. /\ Rest(s) \in Packet
      /\ Len(Rest(s)) = IF MaxPacket + 1 <= Len(s) THEN Len(s) - MaxPacket ELSE 0
      /\ \A k \in 1 .. Len(s) - MaxPacket : Rest(s)[k] = s[MaxPacket + k]
  <2>1. \A i \in MaxPacket + 1 .. Len(s) : s[i] \in Unit
    BY <1>1
  <2>2. MaxPacket + 1 \in Int /\ Len(s) \in Int
    BY <1>1
  <2>3. /\ Rest(s) \in Seq(Unit)
        /\ Len(Rest(s)) = IF MaxPacket + 1 <= Len(s) THEN Len(s) - (MaxPacket + 1) + 1 ELSE 0
        /\ \A k \in 1 .. Len(s) - (MaxPacket + 1) + 1 : Rest(s)[k] = s[MaxPacket + 1 + k - 1]
    BY <2>1, <2>2, SubSeqProperties DEF Rest
  <2>4. Len(s) - (MaxPacket + 1) + 1 = Len(s) - MaxPacket /\ \A k \in Nat : MaxPacket + 1 + k - 1 = MaxPacket + k
    BY <1>1
  <2>5. \A k \in 1 .. Len(s) - MaxPacket : k \in Nat
    BY <1>1
  <2> QED
    BY <2>3, <2>4, <2>5 DEF Packet
<1>6. Len(Rest(s)) = Len(s) - l /\ (l # MaxPacket => Rest(s) = <<>>)
  <2>1. Len(Rest(s)) = Len(s) - l
    <3>1. CASE l = MaxPacket
      BY <1>5, <1>2, <1>1, <3>1
    <3>2. CASE l = Len(s) /\ l \in 1 .. MaxPacket - 1
      <4>1. ~(MaxPacket + 1 <= Len(s))
        BY <1>1, <3>2
      <4> QED
        BY <1>5, <1>1, <3>2, <4>1
    <3> QED
      BY <1>2, <3>1, <3>2
  <2>2. l # MaxPacket => Len(Rest(s)) = 0
    BY <2>1, <1>2, <1>1
  <2> QED
    BY <2>1, <2>2, <1>5, PacketFacts
<1>7. \A k \in 1 .. Len(Rest(s)) : Rest(s)[k] = s[l + k]
  <2>1. CASE l = MaxPacket
    BY <1>5, <1>6, <2>1
  <2>2. CASE l # MaxPacket
    BY <1>6, <2>2, PacketFacts
  <2> QED
    BY <2>1, <2>2
<1>8. Len(First(s)) = l /\ First(s) \in Packet /\ \A k \in 1 .. l : First(s)[k] = s[k]
  BY <1>3, <1>4
<1>9. l + Len(Rest(s)) = Len(s) /\ l <= Len(s) /\ l > 0
  BY <1>1, <1>2, <1>6
<1> QED
  BY <1>2, <1>5, <1>6, <1>7, <1>8, <1>9

(* A packet of one unit is all there is to send.                           *)
LEMMA SplitOne ==
  ASSUME NEW u \in Unit
  PROVE  First(<<u>>) = <<u>> /\ Rest(<<u>>) = <<>>
<1> DEFINE s == <<u>>
<1>1. s \in Packet /\ Len(s) = 1 /\ s # <<>>
  BY PacketFacts
<1> HIDE DEF s
<1>2. Len(First(s)) = 1 /\ Rest(s) = <<>> /\ First(s) \in Seq(Unit) /\ s \in Seq(Unit)
  BY <1>1, SplitFacts, Sizes DEF Packet
<1>3. \A k \in 1 .. Len(First(s)) : First(s)[k] = s[k]
  BY <1>1, SplitFacts
<1>4. First(s) = s
  BY <1>1, <1>2, <1>3, SeqEqual
<1> QED
  BY <1>2, <1>4 DEF s

LEMMA UnitTypes ==
  /\ \A i, k \in Nat : Written(i, k) \in Unit
  /\ \A i \in Nat : CbwUnit(i) \in Unit
  /\ Stale \in Unit
  /\ \A d \in DevType, st \in {"pass", "fail"} : CswUnit(d, st) \in Unit
<1>1. ASSUME NEW d \in DevType, NEW st \in {"pass", "fail"} PROVE CswUnit(d, st) \in Unit
  <2>1. d.tag \in Nat /\ d.residue \in Nat
    BY DEF DevType
  <2> QED
    BY <2>1 DEF CswUnit, Unit, Kinds, Words
<1>2. \A i, k \in Nat : Written(i, k) \in Unit
  BY DEF Written, Unit, Kinds, Words
<1>3. \A i \in Nat : CbwUnit(i) \in Unit
  BY DEF CbwUnit, Unit, Kinds, Words
<1>4. Stale \in Unit
  BY DEF Stale, Unit, Kinds, Words
<1> QED
  BY <1>1, <1>2, <1>3, <1>4

LEMMA SendEffect ==
  ASSUME NEW tx \in TxType, NEW s \in Packet, s # <<>>
  PROVE  /\ usbd_ept_send(tx, s) \in TxType
         /\ usbd_ept_send(tx, s).sts = "valid" /\ usbd_ept_send(tx, s).tog = tx.tog
         /\ usbd_ept_send(tx, s).tc = tx.tc
         /\ usbd_ept_send(tx, s).pkt = First(s) /\ usbd_ept_send(tx, s).rest = Rest(s)
BY SplitFacts DEF usbd_ept_send, TxType, Statuses

LEMMA RecvEffect ==
  ASSUME NEW rx \in RxType, NEW n \in Nat
  PROVE  /\ usbd_ept_recv(rx, n) \in RxType /\ GoOnReceiving(rx, n) \in RxType
         /\ \A e \in {usbd_ept_recv(rx, n), GoOnReceiving(rx, n)} :
              /\ e.sts = "valid" /\ e.tog = rx.tog /\ e.tc = rx.tc /\ e.pkt = rx.pkt
              /\ e.room = (IF n > MaxPacket THEN n - MaxPacket ELSE 0) /\ e.len = 0
         /\ usbd_ept_recv(rx, n).buf = <<>> /\ GoOnReceiving(rx, n).buf = rx.buf
<1> DEFINE room == IF n > MaxPacket THEN n - MaxPacket ELSE 0
<1>1. room \in Nat
  BY Sizes
<1>2. <<>> \in Packet
  BY PacketFacts
<1>3. GoOnReceiving(rx, n) = [rx EXCEPT !.sts = "valid", !.room = room, !.len = 0]
  BY DEF GoOnReceiving
<1>4. usbd_ept_recv(rx, n) = [[rx EXCEPT !.sts = "valid", !.room = room, !.len = 0] EXCEPT !.buf = <<>>]
  BY <1>3 DEF usbd_ept_recv
<1> HIDE DEF room
<1>7. GoOnReceiving(rx, n) \in RxType /\ usbd_ept_recv(rx, n) \in RxType
  <2>1. GoOnReceiving(rx, n) \in RxType
    <3>1. (IF n > MaxPacket THEN n - MaxPacket ELSE 0) \in Nat
      BY <1>1 DEF room
    <3> QED
      BY <3>1 DEF GoOnReceiving, RxType, Statuses
  <2>2. \A e \in RxType : [e EXCEPT !.buf = <<>>] \in RxType
    BY <1>2 DEF RxType
  <2> QED
    BY <2>1, <2>2 DEF usbd_ept_recv
<1>5. /\ GoOnReceiving(rx, n).sts = "valid" /\ GoOnReceiving(rx, n).tog = rx.tog
      /\ GoOnReceiving(rx, n).tc = rx.tc /\ GoOnReceiving(rx, n).pkt = rx.pkt
      /\ GoOnReceiving(rx, n).room = room /\ GoOnReceiving(rx, n).len = 0
      /\ GoOnReceiving(rx, n).buf = rx.buf
  BY <1>3 DEF RxType
<1>6. /\ usbd_ept_recv(rx, n).sts = "valid" /\ usbd_ept_recv(rx, n).tog = rx.tog
      /\ usbd_ept_recv(rx, n).tc = rx.tc /\ usbd_ept_recv(rx, n).pkt = rx.pkt
      /\ usbd_ept_recv(rx, n).room = room /\ usbd_ept_recv(rx, n).len = 0
      /\ usbd_ept_recv(rx, n).buf = <<>>
  BY <1>4 DEF RxType
<1> QED
  BY <1>5, <1>6, <1>7 DEF room
-----------------------------------------------------------------------------
(* What the class's functions do to the device.                            *)
SameCommand(d, e) ==
  /\ e.conf = d.conf /\ e.bot_status = d.bot_status /\ e.nbr = d.nbr
  /\ e.tag = d.tag /\ e.cbw = d.cbw

SameData(d, e) == e.disk = d.disk /\ e.sense = d.sense /\ e.residue = d.residue

SameBlocks(d, e) == e.blk_addr = d.blk_addr /\ e.blk_len = d.blk_len

(* The OUT endpoint after usbd_ept_recv for a CBW.                         *)
Rearmed(d, e) ==
  /\ e.rx.sts = "valid" /\ e.rx.tog = d.rx.tog /\ e.rx.tc = d.rx.tc
  /\ e.rx.room = 0 /\ e.rx.buf = <<>> /\ e.rx.len = 0

LEMMA DevUpdate ==
  ASSUME NEW d \in DevType, NEW tx \in TxType, NEW st \in MscStates
  PROVE  [d EXCEPT !.tx = tx, !.msc_state = st] \in DevType
<1>1. [d EXCEPT !.tx = tx] \in DevType
  BY DEF DevType
<1>2. \A e \in DevType : [e EXCEPT !.msc_state = st] \in DevType
  BY DEF DevType
<1>3. [d EXCEPT !.tx = tx, !.msc_state = st] = [[d EXCEPT !.tx = tx] EXCEPT !.msc_state = st]
  BY DEF DevType
<1> QED
  BY <1>1, <1>2, <1>3

LEMMA SendCswEffect ==
  ASSUME NEW d \in DevType, NEW st \in {"pass", "fail"}, NEW e, e = bot_scsi_send_csw(d, st)
  PROVE  /\ e \in DevType /\ SameCommand(d, e) /\ SameData(d, e) /\ Rearmed(d, e)
         /\ e.msc_state = "idle"
         /\ e.tx.sts = "valid" /\ e.tx.tog = d.tx.tog /\ e.tx.tc = d.tx.tc
         /\ e.tx.pkt = <<CswUnit(e, st)>> /\ e.tx.rest = <<>>
<1> DEFINE u == CswUnit(d, st)
           tx == usbd_ept_send(d.tx, <<u>>)
           rx == usbd_ept_recv(d.rx, 1)
<1>1. d.tx \in TxType /\ d.rx \in RxType /\ u \in Unit
  BY UnitTypes DEF DevType
<1>2. <<u>> \in Packet /\ <<u>> # <<>> /\ First(<<u>>) = <<u>> /\ Rest(<<u>>) = <<>>
  BY <1>1, SplitOne, PacketFacts
<1>3. /\ tx \in TxType /\ tx.sts = "valid" /\ tx.tog = d.tx.tog /\ tx.tc = d.tx.tc
      /\ tx.pkt = <<u>> /\ tx.rest = <<>>
  BY <1>1, <1>2, SendEffect
<1>4. ~(1 > MaxPacket)
  BY Sizes
<1>5. /\ rx \in RxType /\ rx.sts = "valid" /\ rx.tog = d.rx.tog /\ rx.tc = d.rx.tc
      /\ rx.room = 0 /\ rx.len = 0 /\ rx.buf = <<>>
  BY <1>1, <1>4, RecvEffect
<1>6. e = [d EXCEPT !.msc_state = "idle", !.tx = tx, !.rx = rx]
  BY DEF bot_scsi_send_csw
<1>7. CswUnit(e, st) = u
  BY <1>6 DEF CswUnit, DevType
<1> HIDE DEF u, tx, rx
<1>8. e \in DevType
  <2>1. [d EXCEPT !.rx = rx] \in DevType
    BY <1>5 DEF DevType
  <2>2. e = [[d EXCEPT !.rx = rx] EXCEPT !.tx = tx, !.msc_state = "idle"]
    BY <1>6 DEF DevType
  <2>3. tx \in TxType /\ "idle" \in MscStates
    BY <1>3 DEF MscStates
  <2> QED
    BY ONLY <2>1, <2>2, <2>3, DevUpdate
<1>9. e.msc_state = "idle" /\ e.tx = tx /\ e.rx = rx
  BY <1>6 DEF DevType
<1>10. SameCommand(d, e) /\ SameData(d, e)
  BY <1>6 DEF DevType, SameCommand, SameData
<1> QED
  BY <1>3, <1>5, <1>7, <1>8, <1>9, <1>10 DEF Rearmed

LEMMA StallEffect ==
  ASSUME NEW d \in DevType, d.bot_status = "idle", NEW e, e = bot_scsi_stall(d)
  PROVE  /\ e \in DevType /\ SameCommand(d, e) /\ SameData(d, e)
         /\ e.tx.sts = "stall" /\ e.tx.tc = d.tx.tc
         /\ e.rx.tc = d.rx.tc /\ e.rx.tog = d.rx.tog
         /\ e.rx.sts = IF CbwStruct(d).len # 0 /\ ~CbwStruct(d).in THEN "stall" ELSE d.rx.sts
<1> DEFINE out == CbwStruct(d).len # 0 /\ ~CbwStruct(d).in
           tx == usbd_set_stall(d.tx)
           rx == IF out THEN usbd_set_stall(d.rx) ELSE d.rx
<1>1. d.tx \in TxType /\ d.rx \in RxType
  BY DEF DevType
<1>2. tx \in TxType /\ tx.sts = "stall" /\ tx.tc = d.tx.tc
  BY <1>1 DEF usbd_set_stall, TxType, Statuses
<1>3. /\ usbd_set_stall(d.rx) \in RxType /\ usbd_set_stall(d.rx).sts = "stall"
      /\ usbd_set_stall(d.rx).tc = d.rx.tc /\ usbd_set_stall(d.rx).tog = d.rx.tog
  BY <1>1 DEF usbd_set_stall, RxType, Statuses
<1>4. e = [d EXCEPT !.tx = tx, !.rx = rx]
  BY DEF bot_scsi_stall
<1> HIDE DEF out, tx
<1>5. /\ rx \in RxType /\ rx.sts = (IF out THEN "stall" ELSE d.rx.sts)
      /\ rx.tc = d.rx.tc /\ rx.tog = d.rx.tog
  BY <1>1, <1>3
<1> HIDE DEF rx
<1>6. e \in DevType /\ e.tx = tx /\ e.rx = rx
  BY <1>2, <1>4, <1>5 DEF DevType
<1>7. SameCommand(d, e) /\ SameData(d, e)
  BY <1>4 DEF DevType, SameCommand, SameData
<1> QED
  BY <1>2, <1>5, <1>6, <1>7 DEF out

LEMMA ReceiveChunkEffect ==
  ASSUME NEW d \in DevType, NEW e, e = ReceiveChunk(d)
  PROVE  /\ e \in DevType /\ SameCommand(d, e) /\ SameData(d, e) /\ SameBlocks(d, e)
         /\ e.msc_state = d.msc_state /\ e.tx = d.tx
         /\ e.rx.sts = "valid" /\ e.rx.tog = d.rx.tog /\ e.rx.tc = d.rx.tc /\ e.rx.buf = <<>>
         /\ e.rx.room = IF Chunk(d) > MaxPacket THEN Chunk(d) - MaxPacket ELSE 0
         /\ Chunk(e) = Chunk(d)
<1> DEFINE n == Chunk(d)
           rx == usbd_ept_recv(d.rx, n)
<1>1. d.rx \in RxType /\ n \in Nat
  BY Sizes DEF DevType, Chunk, Least
<1>2. e = [d EXCEPT !.rx = rx]
  BY DEF ReceiveChunk
<1> HIDE DEF n
<1>3. /\ rx \in RxType /\ rx.sts = "valid" /\ rx.tog = d.rx.tog /\ rx.tc = d.rx.tc /\ rx.buf = <<>>
      /\ rx.room = IF n > MaxPacket THEN n - MaxPacket ELSE 0
  BY <1>1, RecvEffect
<1> HIDE DEF rx
<1>4. e \in DevType /\ e.rx = rx /\ e.tx = d.tx /\ e.msc_state = d.msc_state
  BY <1>2, <1>3 DEF DevType
<1>5. SameCommand(d, e) /\ SameData(d, e) /\ SameBlocks(d, e)
  BY <1>2 DEF DevType, SameCommand, SameData, SameBlocks
<1>6. Chunk(e) = Chunk(d)
  BY <1>5 DEF SameBlocks, Chunk
<1> QED
  BY <1>3, <1>4, <1>5, <1>6 DEF n
(* The next chunk lies on the medium and within the residue.               *)
ChunkFits(d) ==
  /\ d.blk_len > 0 /\ d.blk_addr + d.blk_len <= NBlk * BlkSize /\ d.residue >= d.blk_len

LEMMA ChunkFacts ==
  ASSUME NEW d \in DevType, ChunkFits(d)
  PROVE  /\ Chunk(d) \in Nat /\ Chunk(d) > 0 /\ Chunk(d) <= d.blk_len /\ Chunk(d) <= BufLen
         /\ Chunk(d) = d.blk_len \/ Chunk(d) = BufLen
         /\ d.blk_addr \in Nat /\ d.blk_len \in Nat /\ d.residue \in Nat
         /\ d.blk_addr + Chunk(d) <= NBlk * BlkSize
         /\ d.blk_addr + Chunk(d) \in 0 .. Wrap - 1 /\ d.blk_len - Chunk(d) \in 0 .. Wrap - 1
         /\ d.residue - Chunk(d) \in Nat
<1> DEFINE hi == NBlk * BlkSize
<1>1. hi \in Nat /\ Wrap \in Nat /\ hi < Wrap /\ BufLen \in Nat /\ BufLen > 0
  BY Sizes
<1>2. /\ d.blk_addr \in 0 .. Wrap - 1 /\ d.blk_len \in 0 .. Wrap - 1 /\ d.residue \in Nat
      /\ d.blk_len > 0 /\ d.blk_addr + d.blk_len <= hi /\ d.residue >= d.blk_len
  BY DEF DevType, ChunkFits
<1> HIDE DEF hi
<1>3. /\ Chunk(d) \in Nat /\ Chunk(d) > 0 /\ Chunk(d) <= d.blk_len /\ Chunk(d) <= BufLen
      /\ Chunk(d) = d.blk_len \/ Chunk(d) = BufLen
  BY <1>1, <1>2 DEF Chunk, Least
<1>4. /\ d.blk_addr \in Nat /\ d.blk_len \in Nat
      /\ d.blk_addr + Chunk(d) <= hi
      /\ d.blk_addr + Chunk(d) \in 0 .. Wrap - 1 /\ d.blk_len - Chunk(d) \in 0 .. Wrap - 1
      /\ d.residue - Chunk(d) \in Nat
  BY <1>1, <1>2, <1>3
<1> QED
  BY <1>2, <1>3, <1>4 DEF hi

LEMMA AdvanceEffect ==
  ASSUME NEW d \in DevType, ChunkFits(d)
  PROVE  /\ Advance(d) \in DevType
         /\ Advance(d).blk_addr = d.blk_addr + Chunk(d) /\ Advance(d).blk_len = d.blk_len - Chunk(d)
         /\ Advance(d).residue = d.residue - Chunk(d)
         /\ SameCommand(d, Advance(d)) /\ Advance(d).disk = d.disk /\ Advance(d).sense = d.sense
         /\ Advance(d).tx = d.tx /\ Advance(d).rx = d.rx /\ Advance(d).msc_state = d.msc_state
<1>1. /\ d.blk_addr + Chunk(d) \in 0 .. Wrap - 1 /\ d.blk_len - Chunk(d) \in 0 .. Wrap - 1
      /\ d.residue - Chunk(d) \in Nat
  BY ChunkFacts
<1>2. Advance(d) = [d EXCEPT !.blk_addr = d.blk_addr + Chunk(d), !.blk_len = d.blk_len - Chunk(d),
                             !.residue = d.residue - Chunk(d)]
  BY DEF Advance
<1>3. Advance(d) \in DevType
  BY <1>1, <1>2 DEF DevType
<1> QED
  BY <1>2, <1>3 DEF DevType, SameCommand

ChunkRead(d, e) ==
  /\ e \in DevType /\ SameCommand(d, e) /\ e.disk = d.disk /\ e.sense = d.sense
  /\ e.rx = d.rx
  /\ e.blk_addr = d.blk_addr + Chunk(d) /\ e.blk_len = d.blk_len - Chunk(d)
  /\ e.residue = d.residue - Chunk(d)
  /\ e.msc_state = IF e.blk_len = 0 THEN "last_data" ELSE d.msc_state
  /\ e.tx.sts = "valid" /\ e.tx.tog = d.tx.tog /\ e.tx.tc = d.tx.tc
  /\ Len(e.tx.pkt) + Len(e.tx.rest) = Chunk(d)
  /\ Len(e.tx.pkt) = MaxPacket
       \/ (Len(e.tx.pkt) \in 1 .. MaxPacket - 1 /\ e.tx.rest = <<>>)
  /\ \A k \in 1 .. Len(e.tx.pkt) : e.tx.pkt[k] = d.disk[d.blk_addr + k]
  /\ \A k \in 1 .. Len(e.tx.rest) : e.tx.rest[k] = d.disk[d.blk_addr + Len(e.tx.pkt) + k]

LEMMA ReadChunkEffect ==
  ASSUME NEW d \in DevType, ChunkFits(d), DiskWorks(d), NEW e, e = ReadChunk(d).d
  PROVE  ReadChunk(d).ok /\ ReadChunk(d).data = <<>> /\ ChunkRead(d, e)
<1> DEFINE C == Chunk(d)
           s == SubSeq(d.disk, d.blk_addr + 1, d.blk_addr + C)
           tx == usbd_ept_send(d.tx, s)
           st == IF d.blk_len = C THEN "last_data" ELSE d.msc_state
           a == Advance(d)
<1>1. /\ C \in Nat /\ C > 0 /\ d.blk_addr \in Nat /\ d.blk_len \in Nat
      /\ d.blk_addr + C <= NBlk * BlkSize /\ C <= d.blk_len /\ NBlk * BlkSize \in Nat
  BY ChunkFacts, Sizes
<1>2. d.tx \in TxType /\ d.disk \in [1 .. NBlk * BlkSize -> Unit] /\ d.msc_state \in MscStates
  BY DEF DevType
<1>3. /\ a \in DevType /\ a.blk_addr = d.blk_addr + C /\ a.blk_len = d.blk_len - C
      /\ a.residue = d.residue - C /\ SameCommand(d, a) /\ a.disk = d.disk /\ a.sense = d.sense
      /\ a.tx = d.tx /\ a.rx = d.rx /\ a.msc_state = d.msc_state
  BY AdvanceEffect
<1>4. ReadChunk(d) = Reply([a EXCEPT !.tx = tx, !.msc_state = st], <<>>)
  BY <1>3 DEF ReadChunk
<1> HIDE DEF C, a
<1>5. /\ s \in Packet /\ Len(s) = C /\ s # <<>>
      /\ \A k \in 1 .. C : s[k] = d.disk[d.blk_addr + k]
  <2> DEFINE m == d.blk_addr + 1
             n == d.blk_addr + C
  <2>1. m \in Int /\ n \in Int /\ m <= n /\ n - m + 1 = C /\ \A i \in m .. n : i \in 1 .. NBlk * BlkSize
    BY <1>1
  <2>2. \A i \in m .. n : d.disk[i] \in Unit
    BY <1>2, <2>1
  <2>3. \A k \in 1 .. C : m + k - 1 = d.blk_addr + k
    BY <1>1
  <2> HIDE DEF m, n
  <2>4. /\ SubSeq(d.disk, m, n) \in Seq(Unit)
        /\ Len(SubSeq(d.disk, m, n)) = C
        /\ \A i \in 1 .. C : SubSeq(d.disk, m, n)[i] = d.disk[m + i - 1]
    BY <2>1, <2>2, SubSeqProperties
  <2>5. s \in Packet /\ Len(s) = C /\ \A k \in 1 .. C : s[k] = d.disk[d.blk_addr + k]
    BY <2>3, <2>4 DEF m, n, Packet
  <2> QED
    BY <1>1, <2>5, PacketFacts
<1> HIDE DEF s
<1>6. /\ tx \in TxType /\ tx.sts = "valid" /\ tx.tog = d.tx.tog /\ tx.tc = d.tx.tc
      /\ tx.pkt = First(s) /\ tx.rest = Rest(s)
  BY <1>2, <1>5, SendEffect
<1>7. /\ Len(First(s)) + Len(Rest(s)) = C
      /\ Len(First(s)) = MaxPacket \/ (Len(First(s)) \in 1 .. MaxPacket - 1 /\ Rest(s) = <<>>)
      /\ \A k \in 1 .. Len(First(s)) : First(s)[k] = d.disk[d.blk_addr + k]
      /\ \A k \in 1 .. Len(Rest(s)) : Rest(s)[k] = d.disk[d.blk_addr + Len(First(s)) + k]
  <2>1. /\ First(s) \in Packet /\ Rest(s) \in Packet
        /\ Len(First(s)) + Len(Rest(s)) = C
        /\ Len(First(s)) = MaxPacket \/ (Len(First(s)) \in 1 .. MaxPacket - 1 /\ Rest(s) = <<>>)
        /\ \A k \in 1 .. Len(First(s)) : First(s)[k] = s[k]
        /\ \A k \in 1 .. Len(Rest(s)) : Rest(s)[k] = s[Len(First(s)) + k]
    BY <1>5, SplitFacts
  <2>2. Len(First(s)) \in Nat /\ Len(Rest(s)) \in Nat
    BY <2>1, PacketFacts
  <2>3. \A k \in 1 .. Len(First(s)) : k \in 1 .. C
    BY <2>1, <2>2, <1>1
  <2>4. \A k \in 1 .. Len(Rest(s)) : /\ Len(First(s)) + k \in 1 .. C
                                     /\ d.blk_addr + (Len(First(s)) + k) = d.blk_addr + Len(First(s)) + k
    BY <2>1, <2>2, <1>1, SMTT(30)
  <2> QED
    BY <2>1, <2>3, <2>4, <1>5
<1>8. st \in MscStates
  BY <1>2 DEF MscStates
<1> HIDE DEF tx, st
<1>9. /\ e = [a EXCEPT !.tx = tx, !.msc_state = st]
      /\ ReadChunk(d).ok /\ ReadChunk(d).data = <<>>
  BY <1>4 DEF Reply
<1>10. e \in DevType /\ e.tx = tx /\ e.msc_state = st
  <2>1. a \in DevType /\ tx \in TxType
    BY <1>3, <1>6
  <2>2. e.tx = tx /\ e.msc_state = st
    BY <2>1, <1>9 DEF DevType
  <2>4. e = [a EXCEPT !.tx = tx, !.msc_state = st]
    BY <1>9
  <2>3. e \in DevType
    BY ONLY <2>1, <2>4, <1>8, DevUpdate
  <2> QED
    BY <2>2, <2>3
<1>11. /\ e.blk_addr = a.blk_addr /\ e.blk_len = a.blk_len /\ e.residue = a.residue /\ SameCommand(a, e)
       /\ e.disk = a.disk /\ e.sense = a.sense /\ e.rx = a.rx
  BY <1>3, <1>9 DEF DevType, SameCommand
<1>12. st = IF e.blk_len = 0 THEN "last_data" ELSE d.msc_state
  BY <1>1, <1>3, <1>11 DEF st
<1>13. SameCommand(d, e)
  BY <1>3, <1>11 DEF SameCommand
<1>14. /\ Len(e.tx.pkt) + Len(e.tx.rest) = C
       /\ Len(e.tx.pkt) = MaxPacket
            \/ (Len(e.tx.pkt) \in 1 .. MaxPacket - 1 /\ e.tx.rest = <<>>)
       /\ \A k \in 1 .. Len(e.tx.pkt) : e.tx.pkt[k] = d.disk[d.blk_addr + k]
       /\ \A k \in 1 .. Len(e.tx.rest) : e.tx.rest[k] = d.disk[d.blk_addr + Len(e.tx.pkt) + k]
       /\ e.tx.sts = "valid" /\ e.tx.tog = d.tx.tog /\ e.tx.tc = d.tx.tc
  BY <1>6, <1>7, <1>10
<1> QED
  BY <1>3, <1>9, <1>10, <1>11, <1>12, <1>13, <1>14 DEF C, ChunkRead

(* What WriteChunk leaves, before it goes on or comes to an end.           *)
LEMMA WriteChunkEffect ==
  ASSUME NEW d \in DevType, ChunkFits(d), DiskWorks(d), Len(d.rx.buf) = Chunk(d)
  PROVE  \E w \in DevType :
           /\ WriteChunk(d) = Reply(IF w.blk_len = 0 THEN bot_scsi_send_csw(w, "pass")
                                    ELSE ReceiveChunk(w), <<>>)
           /\ SameCommand(d, w) /\ w.sense = d.sense /\ w.tx = d.tx /\ w.rx = d.rx
           /\ w.msc_state = d.msc_state
           /\ w.blk_addr = d.blk_addr + Chunk(d) /\ w.blk_len = d.blk_len - Chunk(d)
           /\ w.residue = d.residue - Chunk(d)
           /\ \A a \in 1 .. NBlk * BlkSize :
                w.disk[a] = IF a \in d.blk_addr + 1 .. d.blk_addr + Chunk(d)
                            THEN d.rx.buf[a - d.blk_addr] ELSE d.disk[a]
<1> DEFINE C == Chunk(d)
           unit(a) == IF a - d.blk_addr <= Len(d.rx.buf) THEN d.rx.buf[a - d.blk_addr] ELSE Stale
           disk == [a \in DOMAIN d.disk |->
                      IF a \in d.blk_addr + 1 .. d.blk_addr + C THEN unit(a) ELSE d.disk[a]]
           w == [Advance(d) EXCEPT !.disk = disk]
<1>1. /\ Advance(d) \in DevType
      /\ Advance(d).blk_addr = d.blk_addr + C /\ Advance(d).blk_len = d.blk_len - C
      /\ Advance(d).residue = d.residue - C
      /\ SameCommand(d, Advance(d)) /\ Advance(d).disk = d.disk /\ Advance(d).sense = d.sense
      /\ Advance(d).tx = d.tx /\ Advance(d).rx = d.rx /\ Advance(d).msc_state = d.msc_state
  BY AdvanceEffect
<1>2. /\ d.disk \in [1 .. NBlk * BlkSize -> Unit] /\ d.rx \in RxType
      /\ C \in Nat /\ d.blk_addr \in Nat /\ NBlk * BlkSize \in Nat
  BY ChunkFacts, Sizes DEF DevType
<1>3. d.rx.buf \in Packet
  BY <1>2 DEF RxType
<1>4. WriteChunk(d) = Reply(IF w.blk_len = 0 THEN bot_scsi_send_csw(w, "pass") ELSE ReceiveChunk(w), <<>>)
  BY <1>1 DEF WriteChunk
<1> HIDE DEF C
<1>5. \A a \in d.blk_addr + 1 .. d.blk_addr + C :
        unit(a) = d.rx.buf[a - d.blk_addr] /\ unit(a) \in Unit
  <2> SUFFICES ASSUME NEW a \in d.blk_addr + 1 .. d.blk_addr + C
               PROVE  unit(a) = d.rx.buf[a - d.blk_addr] /\ unit(a) \in Unit
    OBVIOUS
  <2>1. a - d.blk_addr \in 1 .. C /\ a - d.blk_addr <= C /\ Len(d.rx.buf) = C
    BY <1>2 DEF C
  <2>2. d.rx.buf[a - d.blk_addr] \in Unit
    BY <1>3, <2>1, PacketFacts
  <2> QED
    BY <2>1, <2>2
<1> HIDE DEF unit
<1>6. disk \in [1 .. NBlk * BlkSize -> Unit]
  BY <1>2, <1>5
<1>7. \A a \in 1 .. NBlk * BlkSize :
        disk[a] = IF a \in d.blk_addr + 1 .. d.blk_addr + C THEN d.rx.buf[a - d.blk_addr] ELSE d.disk[a]
  BY <1>2, <1>5
<1> HIDE DEF disk
<1>8. /\ w \in DevType /\ w.disk = disk
      /\ w.blk_addr = Advance(d).blk_addr /\ w.blk_len = Advance(d).blk_len
      /\ w.residue = Advance(d).residue /\ w.sense = Advance(d).sense /\ w.tx = Advance(d).tx
      /\ w.rx = Advance(d).rx /\ w.msc_state = Advance(d).msc_state
  BY <1>1, <1>6 DEF DevType
<1>9. SameCommand(d, w)
  BY <1>1 DEF DevType, SameCommand
<1> HIDE DEF w
<1> QED
  BY <1>1, <1>4, <1>7, <1>8, <1>9 DEF C
UnitSent(d, u, e) ==
  /\ e \in DevType /\ SameCommand(d, e) /\ e.disk = d.disk /\ e.sense = d.sense
  /\ e.rx = d.rx /\ e.msc_state = "send_data" /\ e.residue = d.residue - 1
  /\ e.tx.sts = "valid" /\ e.tx.tog = d.tx.tog /\ e.tx.tc = d.tx.tc
  /\ e.tx.pkt = <<u>> /\ e.tx.rest = <<>>

LEMMA SendDataEffect ==
  ASSUME NEW d \in DevType, NEW u \in Unit, CbwStruct(d).len \in Nat, CbwStruct(d).len > 0,
         d.residue = CbwStruct(d).len, NEW e, e = bot_scsi_send_data(d, <<u>>)
  PROVE  UnitSent(d, u, e)
<1> DEFINE s == <<u>>
           n == Least(Len(s), CbwStruct(d).len)
           tx == usbd_ept_send(d.tx, SubSeq(s, 1, n))
<1>1. s \in Packet /\ s \in Seq(Unit) /\ Len(s) = 1 /\ s # <<>> /\ First(s) = s /\ Rest(s) = <<>>
  BY PacketFacts, SplitOne DEF Packet
<1> HIDE DEF s
<1>2. n = 1
  BY <1>1 DEF Least
<1>3. SubSeq(s, 1, n) = s
  BY <1>1, <1>2, SubSeqFull
<1>4. d.tx \in TxType /\ d.residue - 1 \in Nat
  BY DEF DevType
<1>5. /\ tx \in TxType /\ tx.sts = "valid" /\ tx.tog = d.tx.tog /\ tx.tc = d.tx.tc
      /\ tx.pkt = s /\ tx.rest = <<>>
  <2>1. d.tx \in TxType /\ s \in Packet /\ s # <<>>
    BY <1>1, <1>4
  <2>2. /\ usbd_ept_send(d.tx, s) \in TxType
        /\ usbd_ept_send(d.tx, s).sts = "valid" /\ usbd_ept_send(d.tx, s).tog = d.tx.tog
        /\ usbd_ept_send(d.tx, s).tc = d.tx.tc
        /\ usbd_ept_send(d.tx, s).pkt = First(s) /\ usbd_ept_send(d.tx, s).rest = Rest(s)
    BY ONLY <2>1, SendEffect
  <2>3. tx = usbd_ept_send(d.tx, s)
    BY <1>3
  <2> HIDE DEF tx
  <2> QED
    BY <1>1, <2>2, <2>3
<1>6. e = [d EXCEPT !.residue = d.residue - 1, !.msc_state = "send_data", !.tx = tx]
  BY <1>2 DEF bot_scsi_send_data, s
<1> HIDE DEF n, tx
<1>7. e \in DevType
  <2>1. [d EXCEPT !.residue = d.residue - 1] \in DevType
    BY <1>4 DEF DevType
  <2>2. "send_data" \in MscStates
    BY DEF MscStates
  <2>3. [[d EXCEPT !.residue = d.residue - 1] EXCEPT !.tx = tx, !.msc_state = "send_data"] \in DevType
    BY <1>5, <2>1, <2>2, DevUpdate
  <2> QED
    BY <1>6, <2>3 DEF DevType
<1>8. /\ e.rx = d.rx /\ e.msc_state = "send_data" /\ e.residue = d.residue - 1 /\ e.tx = tx
      /\ e.disk = d.disk /\ e.sense = d.sense
  BY <1>6 DEF DevType
<1>9. SameCommand(d, e)
  BY <1>6 DEF DevType, SameCommand
<1> QED
  BY <1>5, <1>7, <1>8, <1>9 DEF s, UnitSent

(* READ(10) and WRITE(10) accepted: the addresses of the data.             *)
LEMMA AcceptEffect ==
  ASSUME NEW d \in DevType, NEW c \in Commands, WellFormed(c), Moves(c), Legal(c),
         NEW st \in MscStates, NEW e, e = Accept(d, c, st)
  PROVE  /\ e \in DevType /\ SameCommand(d, e) /\ SameData(d, e) /\ e.tx = d.tx /\ e.rx = d.rx
         /\ e.msc_state = st /\ e.blk_addr = c.lba * BlkSize /\ e.blk_len = c.len
<1> DEFINE lo == c.lba * BlkSize
           hi == NBlk * BlkSize
<1>1. /\ lo \in Nat /\ c.len \in Nat /\ c.len > 0 /\ lo + c.len <= hi /\ c.len < Wrap
      /\ lo % Wrap = lo /\ (c.n * BlkSize) % Wrap = c.len /\ hi \in Nat /\ hi < Wrap /\ Wrap \in Nat
  BY LegalMoves, Sizes
<1>2. e = [d EXCEPT !.blk_addr = lo, !.blk_len = c.len, !.msc_state = st]
  BY <1>1 DEF Accept
<1> HIDE DEF lo, hi
<1>3. lo \in 0 .. Wrap - 1 /\ c.len \in 0 .. Wrap - 1
  BY <1>1
<1>4. e \in DevType
  BY <1>2, <1>3 DEF DevType
<1>5. /\ e.tx = d.tx /\ e.rx = d.rx /\ e.msc_state = st /\ e.blk_addr = lo /\ e.blk_len = c.len
      /\ SameData(d, e)
  BY <1>2 DEF DevType, SameData
<1>6. SameCommand(d, e)
  BY <1>2 DEF DevType, SameCommand
<1> QED
  BY <1>4, <1>5, <1>6 DEF lo

(* The medium works for a chunk of a command for which it works, and fails *)
(* for the only one of a command for which it does not.                    *)
LEMMA DiskAtWork ==
  ASSUME NEW d \in DevType, NEW c \in Commands, WellFormed(c), Moves(c), Legal(c),
         d.blk_len \in 1 .. c.len, d.blk_addr = c.lba * BlkSize + (c.len - d.blk_len)
  PROVE  /\ Works(c) => DiskWorks(d)
         /\ DiskWorks(d) /\ d.blk_len = c.len /\ d.blk_len <= BufLen => Works(c)
<1> DEFINE lo == c.lba * BlkSize
           hi == NBlk * BlkSize
<1>1. /\ lo \in Nat /\ c.len \in Nat /\ lo + c.len <= hi /\ hi \in Nat
      /\ Addresses(c) = lo + 1 .. lo + c.len
  BY LegalMoves, Sizes
<1>2. /\ Chunk(d) \in Nat /\ Chunk(d) <= d.blk_len
      /\ d.blk_len <= BufLen => Chunk(d) = d.blk_len
  BY <1>1, Sizes DEF Chunk, Least
<1>3. DiskWorks(d) <=> \A a \in d.blk_addr + 1 .. d.blk_addr + Chunk(d) : a \in 1 .. hi /\ a \notin env.bad
  BY DEF DiskWorks
<1>4. d.blk_addr = lo + (c.len - d.blk_len)
  OBVIOUS
<1>5. Works(c) <=> \A a \in lo + 1 .. lo + c.len : a \notin env.bad
  BY <1>1 DEF Works
<1> HIDE DEF lo, hi
<1>6. d.blk_addr \in Nat /\ d.blk_addr + d.blk_len = lo + c.len /\ lo <= d.blk_addr
  BY <1>1, <1>4
<1>7. ASSUME Works(c) PROVE DiskWorks(d)
  <2>1. \A a \in d.blk_addr + 1 .. d.blk_addr + Chunk(d) : a \in lo + 1 .. lo + c.len /\ a \in 1 .. hi
    BY <1>1, <1>2, <1>6
  <2> QED
    BY <1>3, <1>5, <1>7, <2>1
<1>8. ASSUME DiskWorks(d), d.blk_len = c.len, d.blk_len <= BufLen PROVE Works(c)
  <2>1. d.blk_addr = lo /\ Chunk(d) = c.len
    BY <1>1, <1>2, <1>4, <1>8
  <2> QED
    BY <1>3, <1>5, <1>8, <2>1
<1> QED
  BY <1>7, <1>8
-----------------------------------------------------------------------------
(* What bot_scsi_cmd_process can make of a new command c.                  *)
OutRefused(d, c, r) ==
  /\ ~r.ok /\ r.d \in DevType /\ SameCommand(d, r.d) /\ r.d.disk = d.disk
  /\ r.d.tx = d.tx /\ r.d.rx = d.rx
  /\ d.nbr = NBlk /\ Deserved(c) = "fail" /\ r.d.sense = Reason(c) /\ (Legal(c) => c.in)

OutNothing(d, c, r) ==
  /\ r = Reply(d, <<>>) /\ d.nbr = NBlk
  /\ Deserved(c) = "pass" /\ c.len = 0 /\ c.op \notin {"read", "write", "sense"}

OutUnit(d, c, r) ==
  \E u \in Unit :
    /\ r = Reply([d EXCEPT !.nbr = NBlk], <<u>>)
    /\ Deserved(c) = "pass" /\ c.in /\ c.len > 0 /\ c.op \notin {"read", "write"}
    /\ c.op = "sense" => u = <<"sense", 0, 0, d.sense>>

OutRead(d, c, r) ==
  /\ r = ReadChunk(Accept(d, c, "data_in")) /\ DiskWorks(Accept(d, c, "data_in"))
  /\ d.nbr = NBlk /\ c.op = "read" /\ Legal(c) /\ Works(c)

OutWrite(d, c, r) ==
  /\ r = Reply(ReceiveChunk(Accept(d, c, "data_out")), <<>>)
  /\ d.nbr = NBlk /\ c.op = "write" /\ Legal(c)

LEMMA RefuseIllegal ==
  ASSUME NEW d \in DevType, NEW c, ~Legal(c), d.nbr = NBlk, NEW r, r = Refuse(d, "illegal")
  PROVE  OutRefused(d, c, r)
<1>1. ~r.ok /\ r.d = [d EXCEPT !.sense = "illegal"]
  BY DEF Refuse
<1>2. r.d \in DevType /\ r.d.disk = d.disk /\ r.d.tx = d.tx /\ r.d.rx = d.rx /\ r.d.sense = "illegal"
  BY <1>1 DEF DevType
<1>3. SameCommand(d, r.d)
  BY <1>1 DEF DevType, SameCommand
<1>4. Deserved(c) = "fail" /\ Reason(c) = "illegal"
  BY DEF Deserved, Reason
<1> QED
  BY <1>1, <1>2, <1>3, <1>4 DEF OutRefused

LEMMA TransferOutcome ==
  ASSUME NEW d \in DevType, NEW c \in Commands, WellFormed(c), Recoverable(env, c), Moves(c),
         d.nbr = NBlk, d.msc_state = "idle", d.residue = c.len, d.cbw # 0, c = CbwStruct(d),
         NEW r, r = bot_scsi_cmd_process(d)
  PROVE  OutRefused(d, c, r) \/ OutRead(d, c, r) \/ OutWrite(d, c, r)
<1>1. c.op \in {"read", "write"} /\ c.len \in Nat
  BY DEF Moves, Commands
<1>2. Asked(d, c, c.op = "read") <=> Legal(c)
  BY AskedIsLegal
<1>3. ASSUME ~Legal(c) PROVE OutRefused(d, c, r)
  <2>1. r = Refuse(d, "illegal")
    <3>1. CASE c.op = "read"
      <4>1. ~Asked(d, c, TRUE)
        BY <1>2, <1>3, <3>1
      <4> QED
        BY <3>1, <4>1 DEF bot_scsi_cmd_process, bot_scsi_read10
    <3>2. CASE c.op = "write"
      <4>1. ~Asked(d, c, FALSE)
        BY <1>2, <1>3, <3>2
      <4> QED
        BY <3>2, <4>1 DEF bot_scsi_cmd_process, bot_scsi_write10
    <3> QED
      BY <1>1, <3>1, <3>2
  <2> QED
    BY <1>3, <2>1, RefuseIllegal
<1>4. ASSUME Legal(c), c.op = "write" PROVE OutWrite(d, c, r)
  <2>1. Asked(d, c, FALSE)
    BY <1>2, <1>4
  <2>2. r = Reply(ReceiveChunk(Accept(d, c, "data_out")), <<>>)
    BY <1>4, <2>1 DEF bot_scsi_cmd_process, bot_scsi_write10
  <2> QED
    BY <1>4, <2>2 DEF OutWrite
<1>5. ASSUME Legal(c), c.op = "read" PROVE OutRefused(d, c, r) \/ OutRead(d, c, r)
  <2> DEFINE e == Accept(d, c, "data_in")
  <2>1. Asked(d, c, TRUE)
    BY <1>2, <1>5
  <2>2. r = ReadChunk(e)
    BY <1>5, <2>1 DEF bot_scsi_cmd_process, bot_scsi_read10
  <2>3. "data_in" \in MscStates
    BY DEF MscStates
  <2>4. /\ e \in DevType /\ SameCommand(d, e) /\ SameData(d, e) /\ e.tx = d.tx /\ e.rx = d.rx
        /\ e.blk_addr = c.lba * BlkSize /\ e.blk_len = c.len
    BY <1>5, <2>3, AcceptEffect
  <2> HIDE DEF e
  <2>5. /\ c.len > 0 /\ c.lba * BlkSize \in Nat
    BY <1>5, LegalMoves
  <2>6. e.blk_len \in 1 .. c.len /\ e.blk_addr = c.lba * BlkSize + (c.len - e.blk_len)
    <3>1. c.len - e.blk_len = 0 /\ c.len \in 1 .. c.len
      BY <1>1, <2>4, <2>5
    <3> QED
      BY <2>4, <2>5, <3>1
  <2>7. /\ Works(c) => DiskWorks(e)
        /\ DiskWorks(e) /\ e.blk_len = c.len /\ e.blk_len <= BufLen => Works(c)
    BY <1>5, <2>4, <2>6, DiskAtWork
  <2>8. DiskWorks(e) <=> Works(c)
    <3>1. c.len > BufLen => Works(c)
      BY <1>5 DEF Recoverable, Works
    <3>2. c.len > BufLen \/ c.len <= BufLen
      BY <1>1, Sizes
    <3> QED
      BY <2>4, <2>7, <3>1, <3>2
  <2>9. CASE Works(c)
    BY <1>5, <2>2, <2>8, <2>9 DEF OutRead, e
  <2>10. CASE ~Works(c)
    <3>1. r = Refuse(e, "hardware")
      BY <2>2, <2>8, <2>10 DEF ReadChunk
    <3>2. ~r.ok /\ r.d = [e EXCEPT !.sense = "hardware"]
      BY <3>1 DEF Refuse
    <3>3. r.d \in DevType /\ r.d.disk = e.disk /\ r.d.tx = e.tx /\ r.d.rx = e.rx /\ r.d.sense = "hardware"
      BY <2>4, <3>2, SMTT(30) DEF DevType
    <3>4. SameCommand(e, r.d)
      BY <2>4, <3>2 DEF DevType, SameCommand
    <3>5. Deserved(c) = "fail" /\ Reason(c) = "hardware" /\ c.in
      BY <1>5, <2>10, LegalMoves DEF Deserved, Reason
    <3> QED
      BY <2>4, <3>2, <3>3, <3>4, <3>5 DEF OutRefused, SameCommand, SameData
  <2> QED
    BY <2>9, <2>10
<1> QED
  BY <1>1, <1>3, <1>4, <1>5

LEMMA OtherOutcome ==
  ASSUME NEW d \in DevType, NEW c \in Commands, WellFormed(c), ~Moves(c),
         d.nbr = NBlk \/ c.op = "capacity", c = CbwStruct(d),
         NEW r, r = bot_scsi_cmd_process(d)
  PROVE  OutRefused(d, c, r) \/ OutNothing(d, c, r) \/ OutUnit(d, c, r)
<1> DEFINE Unheard == c.op \notin {"read", "write", "ready", "inquiry", "capacity", "sense", "mode",
                                   "start", "removal", "verify"}
<1>1. c.op \notin {"read", "write"} /\ c.len \in Nat /\ c.in \in BOOLEAN
  BY DEF Moves, Commands
<1>2. Legal(c) => Deserved(c) = "pass"
  BY DEF Deserved, Works
<1>3. d.nbr = NBlk => d = [d EXCEPT !.nbr = NBlk]
  BY DEF DevType
<1>4. CASE c.op = "ready"
  <2>1. Legal(c) <=> c.len = 0
    BY <1>4 DEF Legal, Moves
  <2>2. r = IF c.len # 0 THEN Refuse(d, "illegal") ELSE Reply(d, <<>>)
    BY <1>4 DEF bot_scsi_cmd_process, bot_scsi_test_unit
  <2>3. c.len # 0 => OutRefused(d, c, r)
    BY <1>4, <2>1, <2>2, RefuseIllegal
  <2>4. c.len = 0 => OutNothing(d, c, r)
    BY <1>4, <1>2, <2>1, <2>2 DEF OutNothing
  <2> QED
    BY <2>3, <2>4
<1>5. CASE c.op = "inquiry"
  <2>1. Legal(c) /\ c.in /\ d.nbr = NBlk
    BY <1>5 DEF Legal, Moves, WellFormed
  <2>2. r = Reply(d, IF c.len = 0 THEN <<>> ELSE <<<<"inquiry", 0, 0, "">>>>)
    BY <1>5 DEF bot_scsi_cmd_process, bot_scsi_inquiry
  <2>3. <<"inquiry", 0, 0, "">> \in Unit
    BY DEF Unit, Kinds, Words
  <2>4. CASE c.len = 0
    BY <1>2, <1>5, <2>1, <2>2, <2>4 DEF OutNothing
  <2>5. CASE c.len # 0
    <3>1. c.len > 0 /\ Deserved(c) = "pass"
      BY <1>1, <1>2, <2>1, <2>5
    <3> QED
      BY <1>3, <1>5, <2>1, <2>2, <2>3, <2>5, <3>1 DEF OutUnit
  <2> QED
    BY <2>4, <2>5
<1>6. CASE c.op = "capacity"
  <2>1. Legal(c) /\ c.in /\ c.len > 0
    BY <1>6 DEF Legal, Moves, WellFormed
  <2>2. r = Reply([d EXCEPT !.nbr = NBlk], <<<<"capacity", NBlk, 0, "">>>>)
    BY <1>6 DEF bot_scsi_cmd_process, bot_scsi_capacity
  <2>3. <<"capacity", NBlk, 0, "">> \in Unit
    BY Sizes DEF Unit, Kinds, Words
  <2> QED
    BY <1>2, <1>6, <2>1, <2>2, <2>3 DEF OutUnit
<1>7. CASE c.op = "sense"
  <2>1. Legal(c) /\ c.in /\ c.len > 0 /\ c.len # 0 /\ d.nbr = NBlk
    BY <1>1, <1>7 DEF Legal, Moves, WellFormed
  <2>2. r = Reply(d, <<<<"sense", 0, 0, d.sense>>>>)
    BY <1>7, <2>1 DEF bot_scsi_cmd_process, bot_scsi_request_sense
  <2>3. <<"sense", 0, 0, d.sense>> \in Unit
    BY DEF DevType, Unit, Kinds, Words
  <2> QED
    BY <1>2, <1>3, <1>7, <2>1, <2>2, <2>3 DEF OutUnit
<1>8. CASE c.op = "mode"
  <2>1. Legal(c) /\ c.in /\ c.len > 0 /\ d.nbr = NBlk
    BY <1>8 DEF Legal, Moves, WellFormed
  <2>2. r = Reply(d, <<<<"mode", 0, 0, "">>>>)
    BY <1>8 DEF bot_scsi_cmd_process, bot_scsi_mode_sense
  <2>3. <<"mode", 0, 0, "">> \in Unit
    BY DEF Unit, Kinds, Words
  <2> QED
    BY <1>2, <1>3, <1>8, <2>1, <2>2, <2>3 DEF OutUnit
<1>9. CASE c.op \in {"start", "removal"}
  <2>1. Legal(c) /\ c.len = 0 /\ d.nbr = NBlk
    BY <1>9 DEF Legal, Moves, WellFormed
  <2>2. r = Reply(d, <<>>)
    BY <1>9 DEF bot_scsi_cmd_process
  <2> QED
    BY <1>2, <1>9, <2>1, <2>2 DEF OutNothing
<1>10. CASE c.op = "verify"
  <2>1. c.lba \in Nat /\ c.n \in Nat /\ c.lba + c.n < Wrap /\ c.len = 0 /\ d.nbr = NBlk
    BY <1>10 DEF Commands, WellFormed
  <2>2. (c.lba + c.n) % Wrap = c.lba + c.n
    <3>1. c.lba + c.n \in Nat /\ Wrap \in Nat
      BY <2>1, Sizes
    <3> QED
      BY <2>1, <3>1, ModSmall
  <2>3. Legal(c) <=> bot_scsi_check_address(d, c)
    BY <1>10, <2>1, <2>2 DEF Legal, Moves, InRange, bot_scsi_check_address
  <2>4. r = IF ~bot_scsi_check_address(d, c) THEN Refuse(d, "illegal") ELSE Reply(d, <<>>)
    BY <1>10 DEF bot_scsi_cmd_process, bot_scsi_verify
  <2>5. ~Legal(c) => OutRefused(d, c, r)
    BY <2>1, <2>3, <2>4, RefuseIllegal
  <2>6. Legal(c) => OutNothing(d, c, r)
    BY <1>2, <1>10, <2>1, <2>3, <2>4 DEF OutNothing
  <2> QED
    BY <2>5, <2>6
<1>11. CASE Unheard
  <2>1. ~Legal(c) /\ d.nbr = NBlk
    BY <1>11 DEF Legal, Moves
  <2>2. r = Refuse(d, "illegal")
    <3>1. CASE c.op = "compare"
      BY <3>1 DEF bot_scsi_cmd_process, bot_scsi_verify
    <3>2. CASE c.op # "compare"
      BY <1>11, <3>2 DEF bot_scsi_cmd_process
    <3> QED
      BY <3>1, <3>2
  <2> QED
    BY <2>1, <2>2, RefuseIllegal
<1> QED
  BY <1>1, <1>4, <1>5, <1>6, <1>7, <1>8, <1>9, <1>10, <1>11
-----------------------------------------------------------------------------
(* The interrupt of the endpoints.                                         *)
LEMMA ServedEffects ==
  /\ \A tx \in TxType : /\ TxServed(tx) \in TxType /\ TxServed(tx).sts = tx.sts
                        /\ TxServed(tx).tog = tx.tog /\ TxServed(tx).tc = FALSE
                        /\ TxServed(tx).pkt = tx.pkt /\ TxServed(tx).rest = tx.rest
  /\ \A rx \in RxType : /\ RxServed(rx) \in RxType /\ RxServed(rx).sts = rx.sts
                        /\ RxServed(rx).tog = rx.tog /\ RxServed(rx).tc = FALSE
                        /\ RxServed(rx).pkt = rx.pkt /\ RxServed(rx).buf = rx.buf \o rx.pkt
                        /\ RxServed(rx).room = rx.room /\ RxServed(rx).len = rx.len + Len(rx.pkt)
<1>1. ASSUME NEW tx \in TxType
      PROVE  /\ TxServed(tx) \in TxType /\ TxServed(tx).sts = tx.sts
             /\ TxServed(tx).tog = tx.tog /\ TxServed(tx).tc = FALSE
             /\ TxServed(tx).pkt = tx.pkt /\ TxServed(tx).rest = tx.rest
  BY DEF TxServed, TxType
<1>2. ASSUME NEW rx \in RxType
      PROVE  /\ RxServed(rx) \in RxType /\ RxServed(rx).sts = rx.sts
             /\ RxServed(rx).tog = rx.tog /\ RxServed(rx).tc = FALSE
             /\ RxServed(rx).pkt = rx.pkt /\ RxServed(rx).buf = rx.buf \o rx.pkt
             /\ RxServed(rx).room = rx.room /\ RxServed(rx).len = rx.len + Len(rx.pkt)
  <2>1. rx.buf \in Packet /\ rx.pkt \in Packet /\ rx.len \in Nat
    BY DEF RxType
  <2>2. rx.buf \o rx.pkt \in Packet /\ rx.len + Len(rx.pkt) \in Nat
    BY <2>1 DEF Packet
  <2>3. RxServed(rx) \in RxType
    BY <2>2 DEF RxServed, RxType
  <2> QED
    BY <2>3 DEF RxServed, RxType
<1> QED
  BY <1>1, <1>2

(* dev with another endpoint record.                                       *)
LEMMA DevEndpoint ==
  ASSUME NEW d \in DevType
  PROVE  /\ \A tx \in TxType :
              /\ [d EXCEPT !.tx = tx] \in DevType /\ [d EXCEPT !.tx = tx].tx = tx
              /\ [d EXCEPT !.tx = tx].rx = d.rx
              /\ [d EXCEPT !.tx = tx].msc_state = d.msc_state
              /\ SameCommand(d, [d EXCEPT !.tx = tx]) /\ SameData(d, [d EXCEPT !.tx = tx])
              /\ SameBlocks(d, [d EXCEPT !.tx = tx])
         /\ \A rx \in RxType :
              /\ [d EXCEPT !.rx = rx] \in DevType /\ [d EXCEPT !.rx = rx].rx = rx
              /\ [d EXCEPT !.rx = rx].tx = d.tx
              /\ [d EXCEPT !.rx = rx].msc_state = d.msc_state
              /\ SameCommand(d, [d EXCEPT !.rx = rx]) /\ SameData(d, [d EXCEPT !.rx = rx])
              /\ SameBlocks(d, [d EXCEPT !.rx = rx])
<1>1. ASSUME NEW tx \in TxType
      PROVE  /\ [d EXCEPT !.tx = tx] \in DevType /\ [d EXCEPT !.tx = tx].tx = tx
             /\ [d EXCEPT !.tx = tx].rx = d.rx
             /\ [d EXCEPT !.tx = tx].msc_state = d.msc_state
             /\ SameCommand(d, [d EXCEPT !.tx = tx]) /\ SameData(d, [d EXCEPT !.tx = tx])
             /\ SameBlocks(d, [d EXCEPT !.tx = tx])
  <2>1. [d EXCEPT !.tx = tx] \in DevType
    BY DEF DevType
  <2> QED
    BY <2>1 DEF DevType, SameCommand, SameData, SameBlocks
<1>2. ASSUME NEW rx \in RxType
      PROVE  /\ [d EXCEPT !.rx = rx] \in DevType /\ [d EXCEPT !.rx = rx].rx = rx
             /\ [d EXCEPT !.rx = rx].tx = d.tx
             /\ [d EXCEPT !.rx = rx].msc_state = d.msc_state
             /\ SameCommand(d, [d EXCEPT !.rx = rx]) /\ SameData(d, [d EXCEPT !.rx = rx])
             /\ SameBlocks(d, [d EXCEPT !.rx = rx])
  <2>1. [d EXCEPT !.rx = rx] \in DevType
    BY DEF DevType
  <2> QED
    BY <2>1 DEF DevType, SameCommand, SameData, SameBlocks
<1> QED
  BY <1>1, <1>2

(* A completion of IN that meets no transfer is a step of the core only.   *)
LEMMA IdleInterrupt ==
  ASSUME dev \in DevType, dev.msc_state = "idle", dev.tx.tc, dev.tx.rest = <<>>, EptInterrupt
  PROVE  dev' = [dev EXCEPT !.tx = TxServed(dev.tx)] /\ UNCHANGED <<tog, env, host>>
<1> DEFINE d == [dev EXCEPT !.tx = TxServed(dev.tx)]
<1>1. dev.tx \in TxType
  BY DEF DevType
<1>2. TxServed(dev.tx) \in TxType /\ TxServed(dev.tx).rest = <<>>
  BY <1>1, ServedEffects
<1>3. d.tx = TxServed(dev.tx) /\ d.msc_state = "idle"
  BY <1>2, DevEndpoint
<1>4. dev' = InComplete(d) /\ UNCHANGED <<tog, env, host>>
  BY DEF EptInterrupt
<1> HIDE DEF d
<1>5. TxComplete(d.tx) /\ bot_scsi_datain_handler(d) = d
  BY <1>2, <1>3 DEF TxComplete, bot_scsi_datain_handler
<1>6. InComplete(d) = d
  BY <1>5 DEF InComplete
<1> QED
  BY <1>4, <1>6 DEF d

(* The device that has the command, and what becomes of it.                *)
Prepared(d) ==
  /\ d \in DevType /\ d.conf /\ d.cbw = host.cmd /\ d.tag = host.cmd
  /\ d.residue = Current.len /\ d.msc_state = "idle" /\ d.bot_status = "idle"
  /\ d.nbr = dev.nbr /\ d.sense = dev.sense /\ d.disk = dev.disk /\ d.tx = dev.tx
  /\ d.rx.sts = "nak" /\ ~d.rx.tc /\ d.rx.tog = dev.rx.tog

Decided(r) ==
  IF ~r.ok THEN bot_scsi_stall(r.d)
  ELSE IF ~Unanswered(r.d) THEN r.d
  ELSE IF r.data = <<>> THEN bot_scsi_send_csw(r.d, "pass")
  ELSE bot_scsi_send_data(r.d, r.data)

LEMMA DecodeInterrupt ==
  ASSUME TypeInv, BaseInv, Tame(env), Waiting, ~dev.tx.tc, EptInterrupt
  PROVE  /\ \E d : Prepared(d) /\ CbwStruct(d) = Current /\ dev' = Decided(bot_scsi_cmd_process(d))
         /\ UNCHANGED <<tog, env, host>>
<1> DEFINE rx == RxServed(dev.rx)
           d0 == [dev EXCEPT !.rx = rx]
           u  == CbwUnit(host.cmd)
           d1 == [d0 EXCEPT !.cbw = host.cmd]
           d  == [d1 EXCEPT !.tag = host.cmd, !.residue = Current.len]
<1>1. dev \in DevType /\ dev.rx \in RxType /\ host.cmd \in Nat /\ env \in Environments
  BY DEF TypeInv, DevType, HostType
<1>2. /\ dev.conf /\ dev.msc_state = "idle" /\ dev.bot_status = "idle"
      /\ dev.rx.sts = "nak" /\ dev.rx.tc /\ dev.rx.pkt = <<u>>
      /\ dev.rx.buf = <<>> /\ dev.rx.len = 0 /\ dev.rx.room = 0
  BY DEF Waiting, Ready, RxEmpty, BaseInv
<1>3. host.cmd \in 1 .. Len(Script)
  <2>1. InCommand /\ Len(Answers) \in Nat
    BY DEF Waiting, CbwGiven, InCommand, DataOrStatus, TypeInv, HostType, Answers
  <2> QED
    BY <1>1, <2>1, EnvFacts DEF BaseInv
<1>4. /\ Current.op \notin {"invalid", "garbage"} /\ Current.len \in Nat
  BY <1>1, <1>3, CommandFacts DEF Current, Recoverable
<1>5. u \in Unit /\ u[1] = "cbw" /\ u[2] = host.cmd
  BY <1>1, UnitTypes DEF CbwUnit
<1>6. <<u>> \in Packet /\ Len(<<u>>) = 1 /\ <<u>>[1] = u /\ <<u>> # <<>>
  BY <1>5, PacketFacts
<1> HIDE DEF u
<1>7. <<>> \o <<u>> = <<u>>
  BY <1>6, ConcatEmptySeq DEF Packet
<1>8. /\ rx \in RxType /\ rx.sts = "nak" /\ rx.tog = dev.rx.tog /\ ~rx.tc
      /\ rx.buf = <<u>> /\ rx.room = 0 /\ rx.len = 1
  <2>1. dev.rx.buf \o dev.rx.pkt = <<u>> /\ dev.rx.len + Len(dev.rx.pkt) = 1
    BY <1>2, <1>6, <1>7
  <2> QED
    BY <1>1, <1>2, <2>1, ServedEffects
<1>9. dev' = OutComplete(d0) /\ UNCHANGED <<tog, env, host>>
  BY DEF EptInterrupt
<1> HIDE DEF rx
<1>10. /\ d0 \in DevType /\ d0.rx = rx /\ d0.tx = dev.tx /\ d0.msc_state = "idle"
       /\ SameCommand(dev, d0) /\ SameData(dev, d0)
  BY <1>1, <1>2, <1>8, DevEndpoint
<1>11. d0.conf /\ d0.bot_status = "idle" /\ d0.nbr = dev.nbr /\ d0.disk = dev.disk /\ d0.sense = dev.sense
  BY <1>2, <1>10 DEF SameCommand, SameData
<1> HIDE DEF d0
<1>12. dev' = bot_scsi_dataout_handler(d0)
  <2>1. RxComplete(d0.rx)
    BY <1>8, <1>10 DEF RxComplete
  <2> QED
    BY <1>9, <1>11, <2>1 DEF OutComplete
<1>13. StoreCbw(d0) = d1
  <2>1. d0.rx.buf # <<>> /\ d0.rx.buf[1][1] = "cbw" /\ d0.rx.buf[1][2] = host.cmd
    BY <1>5, <1>6, <1>8, <1>10
  <2> QED
    BY <2>1 DEF StoreCbw
<1>14. dev' = bot_cbw_decode(d1)
  BY <1>10, <1>12, <1>13 DEF bot_scsi_dataout_handler
<1>15. /\ d1 \in DevType /\ d1.cbw = host.cmd /\ d1.rx = rx /\ d1.tx = dev.tx
       /\ d1.msc_state = "idle" /\ d1.conf /\ d1.bot_status = "idle" /\ d1.nbr = dev.nbr
       /\ d1.disk = dev.disk /\ d1.sense = dev.sense
  <2>1. d1 \in DevType
    BY <1>1, <1>10 DEF DevType
  <2> QED
    BY <2>1, <1>10, <1>11 DEF DevType
<1> HIDE DEF d1
<1>16. CbwStruct(d1) = Current
  BY <1>3, <1>15 DEF CbwStruct, Current
<1>17. /\ d \in DevType /\ d.cbw = host.cmd /\ d.rx = rx /\ d.tx = dev.tx
       /\ d.msc_state = "idle" /\ d.conf /\ d.bot_status = "idle" /\ d.nbr = dev.nbr
       /\ d.disk = dev.disk /\ d.sense = dev.sense /\ d.tag = host.cmd /\ d.residue = Current.len
  <2>1. d \in DevType
    BY <1>1, <1>4, <1>15 DEF DevType
  <2> QED
    BY <2>1, <1>15 DEF DevType
<1>18. d = [d1 EXCEPT !.tag = d1.cbw, !.residue = CbwStruct(d1).len]
  BY <1>15, <1>16
<1> HIDE DEF d
<1>19. CbwStruct(d) = Current
  BY <1>3, <1>17 DEF CbwStruct, Current
<1>20. ~InvalidCbw(d)
  BY <1>4, <1>8, <1>17, <1>19 DEF InvalidCbw
<1>21. dev' = Decided(bot_scsi_cmd_process(d))
  BY <1>14, <1>18, <1>20 DEF bot_cbw_decode, Decided
<1>22. Prepared(d)
  BY <1>8, <1>17 DEF Prepared
<1> QED
  BY <1>9, <1>19, <1>21, <1>22
-----------------------------------------------------------------------------
(* A command is decoded: the CBW's interrupt leads to one of four stages.  *)
LEMMA SameHost ==
  ASSUME UNCHANGED <<env, host>>
  PROVE  /\ Current' = Current /\ Answers' = Answers /\ Len(Script)' = Len(Script)
         /\ \A i : Command(i)' = Command(i)
         /\ Deserved(Current)' = Deserved(Current) /\ Works(Current)' = Works(Current)
         /\ (InCommand' <=> InCommand) /\ DataOrStatus' = DataOrStatus
         /\ (dev'.sense = dev.sense /\ SenseKept => SenseKept')
<1>1. /\ Current' = Current /\ Answers' = Answers /\ Len(Script)' = Len(Script)
      /\ \A i : Command(i)' = Command(i)
  BY DEF Current, Command, Script, Answers
<1>2. Deserved(Current)' = Deserved(Current) /\ Works(Current)' = Works(Current)
  BY <1>1 DEF Deserved, Works
<1>3. (InCommand' <=> InCommand) /\ DataOrStatus' = DataOrStatus
  BY <1>1 DEF InCommand, DataOrStatus
<1>4. dev'.sense = dev.sense /\ SenseKept => SenseKept'
  BY <1>1 DEF SenseKept
<1> QED
  BY <1>1, <1>2, <1>3, <1>4

LEMMA SameGiven ==
  ASSUME UNCHANGED <<host, tog>>, dev'.rx.tog = dev.rx.tog
  PROVE  (Had' <=> Had) /\ \A p : CbwGiven(p) => CbwGiven(p)'
BY DEF Had, CbwGiven

LEMMA SameDisk ==
  ASSUME dev'.disk = dev.disk, host'.cmd = host.cmd
  PROVE  Untouched => Untouched'
BY DEF Untouched, WrittenIn

(* What is known of the command that waits.                                *)
LEMMA WaitingFacts ==
  ASSUME TypeInv, BaseInv, Tame(env), Waiting
  PROVE  /\ host.cmd \in 1 .. Len(Script) /\ Current \in Commands /\ env \in Environments
         /\ WellFormed(Current) /\ Recoverable(env, Current)
         /\ Current.len \in Nat /\ Current.in \in BOOLEAN
         /\ host.cmd > 1 => dev.nbr = NBlk
         /\ host.cmd = 1 => Current.op = "capacity"
         /\ host.got = <<>> /\ host.sent = 0 /\ host.stalls = 0
         /\ tog.in = dev.tx.tog /\ SenseKept /\ Untouched /\ dev.tx.sts = "nak"
<1>1. host.cmd \in Nat /\ env \in Environments /\ InCommand /\ Len(Answers) \in Nat
  BY DEF Waiting, CbwGiven, InCommand, DataOrStatus, TypeInv, HostType, Answers
<1>2. host.cmd \in 1 .. Len(Script) /\ host.cmd = Len(Answers) + 1
  BY <1>1, EnvFacts DEF BaseInv
<1>3. host.cmd > 1 => dev.nbr = NBlk
  BY <1>1, <1>2 DEF BaseInv
<1>4. /\ Current \in Commands /\ WellFormed(Current) /\ Recoverable(env, Current)
      /\ Current.len \in Nat /\ Current.in \in BOOLEAN
      /\ host.cmd = 1 => Current.op = "capacity"
  BY <1>1, <1>2, CommandFacts, EnvFacts DEF Current
<1> QED
  BY <1>1, <1>2, <1>3, <1>4 DEF Waiting, Fresh, Ready, TxQuiet

(* The device is of its type, and the medium as it was.                    *)
Kept ==
  /\ dev' \in DevType /\ dev'.bot_status = "idle" /\ dev'.disk = dev.disk
  /\ dev'.rx.tog = dev.rx.tog

LEMMA ToRefused ==
  ASSUME TypeInv, BaseInv, Tame(env), Waiting, ~dev.tx.tc, UNCHANGED <<tog, env, host>>,
         NEW d, Prepared(d), CbwStruct(d) = Current, NEW r, OutRefused(d, Current, r),
         dev' = bot_scsi_stall(r.d)
  PROVE  Refused' /\ Kept
<1>1. /\ d \in DevType /\ d.conf /\ d.cbw = host.cmd /\ d.tag = host.cmd /\ d.bot_status = "idle"
      /\ d.disk = dev.disk /\ d.tx = dev.tx
      /\ d.rx.sts = "nak" /\ ~d.rx.tc /\ d.rx.tog = dev.rx.tog
  BY DEF Prepared
<1>2. /\ r.d \in DevType /\ SameCommand(d, r.d) /\ r.d.disk = d.disk /\ r.d.tx = d.tx /\ r.d.rx = d.rx
      /\ d.nbr = NBlk /\ Deserved(Current) = "fail" /\ r.d.sense = Reason(Current)
      /\ Legal(Current) => Current.in
  BY DEF OutRefused
<1>3. r.d.bot_status = "idle" /\ CbwStruct(r.d) = Current
  BY <1>1, <1>2 DEF SameCommand, CbwStruct
<1>4. /\ dev' \in DevType /\ SameCommand(r.d, dev') /\ SameData(r.d, dev')
      /\ dev'.tx.sts = "stall" /\ dev'.tx.tc = r.d.tx.tc
      /\ dev'.rx.tc = r.d.rx.tc /\ dev'.rx.tog = r.d.rx.tog
      /\ dev'.rx.sts = IF HasDataOut THEN "stall" ELSE r.d.rx.sts
  BY <1>2, <1>3, StallEffect DEF HasDataOut
<1>5. dev'.rx.tog = dev.rx.tog /\ dev'.disk = dev.disk
  BY <1>1, <1>2, <1>4 DEF SameData
<1>6. /\ Current' = Current /\ Deserved(Current)' = Deserved(Current) /\ DataOrStatus' = DataOrStatus
  BY SameHost
<1>7. (Had' <=> Had) /\ CbwGiven(DataOrStatus)'
  <2>1. CbwGiven(DataOrStatus)
    BY DEF Waiting
  <2> QED
    BY <1>5, <1>6, <2>1 DEF Had, CbwGiven
<1>8. Untouched'
  BY <1>5, WaitingFacts, SameDisk
<1>9. Decoded'
  BY <1>1, <1>2, <1>4 DEF Decoded, SameCommand
<1>10. /\ dev'.sense = Reason(Current) /\ dev'.tx.sts = "stall" /\ ~dev'.tx.tc /\ ~dev'.rx.tc
       /\ host'.stalls = 0 /\ host'.got = <<>>
  BY <1>1, <1>2, <1>4, WaitingFacts DEF SameData
<1>11. Refusal'
  BY <1>2, <1>6, <1>8, <1>9, <1>10 DEF Refusal
<1>12. HasDataOut' <=> HasDataOut
  BY <1>6 DEF HasDataOut
<1>13. ASSUME host'.phase = "cbw" PROVE ~HasDataOut'
  <2>1. Had
    BY <1>13 DEF Waiting, CbwGiven, DataOrStatus
  <2>2. env.losses > 0 /\ env.losses # 0
    BY <2>1, WaitingFacts, EnvFacts DEF BaseInv
  <2>3. Recoverable(env, Current)
    BY WaitingFacts
  <2>4. Legal(Current) \/ Current.in \/ Current.len = 0
    BY <2>2, <2>3 DEF Recoverable
  <2> QED
    BY <1>2, <1>12, <2>4 DEF HasDataOut
<1>14. dev'.rx.sts = IF HasDataOut' THEN "stall" ELSE "nak"
  BY <1>1, <1>2, <1>4, <1>12
<1>15. Kept
  BY <1>1, <1>2, <1>4, <1>5 DEF Kept, SameCommand
<1> QED
  BY <1>7, <1>10, <1>11, <1>13, <1>14, <1>15 DEF Refused

LEMMA ToTold ==
  ASSUME TypeInv, BaseInv, Tame(env), Waiting, ~dev.tx.tc, UNCHANGED <<tog, env, host>>,
         NEW d, Prepared(d), NEW r, OutNothing(d, Current, r), dev' = bot_scsi_send_csw(d, "pass")
  PROVE  Told' /\ Kept
<1>1. /\ d \in DevType /\ d.bot_status = "idle" /\ d.conf /\ d.cbw = host.cmd /\ d.tag = host.cmd /\ d.residue = Current.len
      /\ d.disk = dev.disk /\ d.tx = dev.tx /\ d.sense = dev.sense
      /\ ~d.rx.tc /\ d.rx.tog = dev.rx.tog
  BY DEF Prepared
<1>2. /\ d.nbr = NBlk /\ Deserved(Current) = "pass" /\ Current.len = 0
      /\ Current.op \notin {"read", "write", "sense"}
  BY DEF OutNothing
<1>3. /\ dev' \in DevType /\ SameCommand(d, dev') /\ SameData(d, dev') /\ Rearmed(d, dev')
      /\ dev'.msc_state = "idle"
      /\ dev'.tx.sts = "valid" /\ dev'.tx.tog = d.tx.tog /\ dev'.tx.tc = d.tx.tc
      /\ dev'.tx.pkt = <<CswUnit(dev', "pass")>> /\ dev'.tx.rest = <<>>
  BY <1>1, SendCswEffect
<1>4. /\ Current' = Current /\ Deserved(Current)' = Deserved(Current) /\ DataOrStatus' = DataOrStatus
      /\ SenseKept'
  BY <1>1, <1>3, SameHost, WaitingFacts DEF SameData
<1>5. dev'.rx.tog = dev.rx.tog /\ RxArmed'
  BY <1>1, <1>3 DEF Rearmed, RxArmed, RxEmpty
<1>6. (Had' <=> Had) /\ CbwGiven("status")'
  <2>1. CbwGiven("status")
    BY <1>2 DEF Waiting, DataOrStatus
  <2> QED
    BY <1>5, <2>1 DEF Had, CbwGiven
<1>7. ToldPhase'
  BY <1>2, <1>4, <1>6, WaitingFacts DEF ToldPhase, CbwGiven
<1>8. Decoded'
  BY <1>1, <1>2, <1>3 DEF Decoded, SameCommand
<1>9. Done'
  <2>1. dev'.residue = 0 /\ Len(host'.got) = 0
    BY <1>1, <1>2, <1>3, WaitingFacts, PacketFacts DEF SameData
  <2> QED
    BY <1>2, <1>4, <2>1 DEF Done
<1>10. tog'.in = dev'.tx.tog /\ ~dev'.tx.tc
  BY <1>1, <1>3, WaitingFacts
<1>11. Kept
  BY <1>1, <1>3, <1>5 DEF Kept, SameCommand, SameData
<1> QED
  BY <1>3, <1>5, <1>7, <1>8, <1>9, <1>10, <1>11 DEF Told
LEMMA DueSame ==
  ASSUME UNCHANGED <<env, host>>, dev'.disk = dev.disk, dev'.sense = dev.sense
  PROVE  \A f, s : AllDue(f, s) => AllDue(f, s)'
BY SameHost DEF AllDue, Due

LEMMA ToSendingUnit ==
  ASSUME TypeInv, BaseInv, Tame(env), Waiting, ~dev.tx.tc, UNCHANGED <<tog, env, host>>,
         NEW d, Prepared(d), CbwStruct(d) = Current, NEW u \in Unit, NEW m, m = [d EXCEPT !.nbr = NBlk],
         Deserved(Current) = "pass", Current.in, Current.len > 0, Current.op \notin {"read", "write"},
         Current.op = "sense" => u = <<"sense", 0, 0, d.sense>>,
         dev' = bot_scsi_send_data(m, <<u>>)
  PROVE  Sending' /\ Kept
<1>1. /\ d \in DevType /\ d.bot_status = "idle" /\ d.conf /\ d.cbw = host.cmd /\ d.tag = host.cmd /\ d.residue = Current.len
      /\ d.disk = dev.disk /\ d.tx = dev.tx /\ d.sense = dev.sense
      /\ d.rx.sts = "nak" /\ ~d.rx.tc /\ d.rx.tog = dev.rx.tog
  BY DEF Prepared
<1>2. /\ m \in DevType /\ m.bot_status = "idle" /\ m.nbr = NBlk /\ m.conf /\ m.cbw = host.cmd /\ m.tag = host.cmd
      /\ m.residue = Current.len /\ m.disk = dev.disk /\ m.tx = dev.tx /\ m.sense = dev.sense
      /\ m.rx = d.rx
  <2>1. m \in DevType
    BY <1>1 DEF DevType
  <2> QED
    BY <1>1, <2>1 DEF DevType
<1>3. CbwStruct(m) = Current /\ Current.len \in Nat
  BY <1>1, <1>2, WaitingFacts DEF CbwStruct
<1>4. /\ dev' \in DevType /\ SameCommand(m, dev') /\ dev'.disk = m.disk /\ dev'.sense = m.sense
      /\ dev'.rx = m.rx /\ dev'.msc_state = "send_data" /\ dev'.residue = m.residue - 1
      /\ dev'.tx.sts = "valid" /\ dev'.tx.tog = m.tx.tog /\ dev'.tx.tc = m.tx.tc
      /\ dev'.tx.pkt = <<u>> /\ dev'.tx.rest = <<>>
  <2>1. /\ CbwStruct(m).len \in Nat /\ CbwStruct(m).len > 0 /\ m.residue = CbwStruct(m).len
        /\ m \in DevType
    BY <1>2, <1>3
  <2>2. UnitSent(m, u, dev')
    BY <2>1, SendDataEffect
  <2> QED
    BY <2>2 DEF UnitSent
<1>5. /\ Current' = Current /\ Deserved(Current)' = Deserved(Current) /\ SenseKept'
  BY <1>2, <1>4, SameHost, WaitingFacts
<1>6. Decoded'
  BY <1>2, <1>4 DEF Decoded, SameCommand
<1>7. Volume(Current') = 1 /\ Left' = 0
  BY <1>4, <1>5 DEF Volume, Left
<1>8. /\ host'.got = <<>> /\ Len(host'.got) = 0 /\ Len(dev'.tx.pkt) = 1 /\ Len(dev'.tx.rest) = 0
      /\ dev'.tx.pkt[1] = u
  BY <1>4, WaitingFacts, PacketFacts, SMTT(30)
<1>9. CbwGiven("data")'
  <2>1. DataOrStatus = "data" /\ CbwGiven(DataOrStatus)
    BY <1>3 DEF DataOrStatus, Waiting
  <2>2. Had' <=> Had
    BY <1>1, <1>2, <1>4 DEF Had
  <2> QED
    BY <2>1, <2>2 DEF CbwGiven
<1>10. AllDue(Len(host.got), dev.tx.pkt)'
  <2>1. Due(0 + 1, u)'
    BY <1>1, <1>4, <1>2, <1>5 DEF Due
  <2> QED
    BY <1>8, <2>1 DEF AllDue
<1>11. AllDue(0, host.got)' /\ AllDue(Len(host.got) + Len(dev.tx.pkt), dev.tx.rest)'
  BY <1>8 DEF AllDue
<1>12. Offered'
  <2> DEFINE g == Len(host'.got)
             p == Len(dev'.tx.pkt)
             q == Len(dev'.tx.rest)
  <2>4. g = 0 /\ p = 1 /\ q = 0
    BY <1>8
  <2> HIDE DEF g, p, q
  <2>5. g + p + q + 0 = 1 /\ p \in 1 .. MaxPacket - 1
    BY <2>4, Sizes
  <2>1. Len(host'.got) + Len(dev'.tx.pkt) + Len(dev'.tx.rest) + Left' = Volume(Current')
    BY <1>7, <2>5 DEF g, p, q
  <2>2. Len(dev'.tx.pkt) \in 1 .. MaxPacket - 1
    BY <2>5 DEF p
  <2>3. tog'.in = dev'.tx.tog /\ ~dev'.tx.tc
    BY <1>2, <1>4, WaitingFacts
  <2> QED
    BY <1>4, <1>7, <1>8, <1>9, <1>10, <1>11, <2>1, <2>2, <2>3 DEF Offered
<1>13. dev'.residue + Volume(Current') = Current'.len + Left'
  BY <1>2, <1>3, <1>4, <1>5, <1>7
<1>14. /\ dev'.msc_state \in (IF Current'.op = "read" THEN {"data_in", "last_data"} ELSE {"send_data"})
       /\ dev'.msc_state # "data_in" /\ dev'.rx.sts = "nak" /\ ~dev'.rx.tc
  BY <1>1, <1>2, <1>4, <1>5
<1>15. Kept
  BY <1>1, <1>2, <1>4 DEF Kept, SameCommand
<1> QED
  BY <1>5, <1>6, <1>11, <1>12, <1>13, <1>14, <1>15 DEF Sending

(* A chunk that is read continues what the host has.                       *)
LEMMA ChunkSent ==
  ASSUME TypeInv, UNCHANGED <<tog, env, host>>,
         Current \in Commands, WellFormed(Current), Legal(Current), Works(Current),
         Current.op = "read", SenseKept,
         NEW a \in DevType, a.bot_status = "idle", a.conf, a.cbw = host.cmd, a.tag = host.cmd, a.nbr = NBlk,
         a.blk_len \in 1 .. Current.len, a.residue = a.blk_len,
         a.blk_addr = Current.lba * BlkSize + (Current.len - a.blk_len),
         DiskWorks(a), a.msc_state = "data_in", a.disk = dev.disk, a.sense = dev.sense,
         ~a.tx.tc, a.tx.tog = tog.in, a.rx.sts = "nak", ~a.rx.tc, a.rx.tog = dev.rx.tog,
         CbwGiven("data"), host.phase = "cbw" => host.got = <<>>,
         Len(host.got) = Current.len - a.blk_len, AllDue(0, host.got),
         dev' = ReadChunk(a).d
  PROVE  Sending' /\ Kept
<1> DEFINE lo == Current.lba * BlkSize
           n  == Len(host.got)
           C  == Chunk(a)
<1>1. /\ Moves(Current) /\ lo \in Nat /\ Current.len \in Nat /\ Current.len > 0
      /\ Whole(Current.len) /\ lo + Current.len <= NBlk * BlkSize /\ Current.in
  <2>1. Moves(Current)
    BY DEF Moves
  <2> QED
    BY <2>1, LegalMoves
<1>2. ChunkFits(a)
  <2> DEFINE hi == NBlk * BlkSize
  <2>1. lo + Current.len <= hi /\ hi \in Nat /\ lo \in Nat
    BY <1>1, Sizes
  <2>2. a.blk_addr = lo + (Current.len - a.blk_len) /\ a.blk_len \in 1 .. Current.len
    OBVIOUS
  <2> HIDE DEF lo, hi
  <2>3. a.blk_len > 0 /\ a.blk_addr + a.blk_len <= hi /\ a.residue >= a.blk_len
    BY <1>1, <2>1, <2>2
  <2> QED
    BY <2>3 DEF ChunkFits, hi
<1>3. /\ C \in Nat /\ C > 0 /\ C <= a.blk_len /\ (C = a.blk_len \/ C = BufLen)
      /\ a.blk_len \in Nat /\ a.blk_addr \in Nat
  BY <1>2, ChunkFacts
<1>4. /\ dev' \in DevType /\ SameCommand(a, dev') /\ dev'.disk = a.disk /\ dev'.sense = a.sense
      /\ dev'.rx = a.rx
      /\ dev'.blk_addr = a.blk_addr + C /\ dev'.blk_len = a.blk_len - C
      /\ dev'.residue = a.residue - C
      /\ dev'.msc_state = (IF dev'.blk_len = 0 THEN "last_data" ELSE a.msc_state)
      /\ dev'.tx.sts = "valid" /\ dev'.tx.tog = a.tx.tog /\ dev'.tx.tc = a.tx.tc
      /\ Len(dev'.tx.pkt) + Len(dev'.tx.rest) = C
      /\ Len(dev'.tx.pkt) = MaxPacket
           \/ (Len(dev'.tx.pkt) \in 1 .. MaxPacket - 1 /\ dev'.tx.rest = <<>>)
      /\ \A k \in 1 .. Len(dev'.tx.pkt) : dev'.tx.pkt[k] = a.disk[a.blk_addr + k]
      /\ \A k \in 1 .. Len(dev'.tx.rest) : dev'.tx.rest[k] = a.disk[a.blk_addr + Len(dev'.tx.pkt) + k]
  <2>1. ChunkRead(a, dev')
    BY <1>2, ReadChunkEffect
  <2> QED
    BY <2>1 DEF ChunkRead
<1> HIDE DEF C
<1>5. /\ Current' = Current /\ Deserved(Current)' = Deserved(Current) /\ SenseKept'
      /\ Deserved(Current) = "pass"
  BY <1>4, SameHost DEF Deserved
<1>6. Decoded'
  BY <1>4 DEF Decoded, SameCommand
<1>7. /\ Len(dev'.tx.pkt) \in Nat /\ Len(dev'.tx.rest) \in Nat /\ n \in Nat
      /\ dev'.tx.rest = <<>> => Len(dev'.tx.rest) = 0
  <2>1. dev'.tx.pkt \in Packet /\ dev'.tx.rest \in Packet /\ host.got \in Packet
    BY <1>4 DEF DevType, TxType, TypeInv, HostType
  <2> QED
    BY <2>1, PacketFacts
<1>8. Volume(Current') = Current.len /\ Left' = dev'.blk_len
  <2>1. dev'.msc_state = IF dev'.blk_len = 0 THEN "last_data" ELSE "data_in"
    BY <1>4
  <2> QED
    BY <1>5, <2>1 DEF Volume, Left
<1>9. a.blk_addr = lo + n
  <2>1. n = Current.len - a.blk_len
    OBVIOUS
  <2> QED
    BY <2>1
<1>10. Left' > 0 => C = BufLen
  BY <1>3, <1>4, <1>8
<1>11. Left' > 0 => Whole(Len(dev'.tx.rest)) /\ Len(dev'.tx.pkt) = MaxPacket
  <2>1. ASSUME Left' > 0 PROVE Whole(Len(dev'.tx.rest)) /\ Len(dev'.tx.pkt) = MaxPacket
    <3>1. C = BufLen /\ MaxPacket <= BufLen /\ Whole(BufLen) /\ Whole(MaxPacket)
      BY <1>10, <2>1, WholeSizes
    <3>2. Len(dev'.tx.pkt) = MaxPacket
      <4> DEFINE p == Len(dev'.tx.pkt)
                 q == Len(dev'.tx.rest)
      <4>1. /\ p + q = C /\ (p = MaxPacket \/ (p \in 1 .. MaxPacket - 1 /\ q = 0))
            /\ p \in Nat /\ q \in Nat /\ MaxPacket \in Nat
        BY <1>4, <1>7, Sizes
      <4> HIDE DEF p, q
      <4>2. p = MaxPacket
        BY <3>1, <4>1
      <4> QED
        BY <4>2 DEF p
    <3>3. Len(dev'.tx.rest) = BufLen - MaxPacket
      BY <1>4, <1>7, <3>1, <3>2, Sizes
    <3>4. Whole(BufLen - MaxPacket)
      BY <3>1, WholeSums, Sizes
    <3> QED
      BY <3>2, <3>3, <3>4
  <2> QED
    BY <2>1
<1>12. AllDue(Len(host.got), dev.tx.pkt)'
  <2> SUFFICES ASSUME NEW k \in 1 .. Len(dev'.tx.pkt) PROVE Due(n + k, dev.tx.pkt[k])'
    BY DEF AllDue
  <2>1. k \in Nat
    BY <1>7
  <2>2. a.blk_addr + k = lo + (n + k)
    BY <1>1, <1>7, <1>9, <2>1
  <2>3. dev'.tx.pkt[k] = dev'.disk[Current.lba * BlkSize + (n + k)]
    BY <1>4, <2>2
  <2> QED
    BY <1>5, <2>3 DEF Due
<1>13. AllDue(Len(host.got) + Len(dev.tx.pkt), dev.tx.rest)'
  <2> DEFINE m == Len(dev.tx.pkt)
  <2> SUFFICES ASSUME NEW k \in 1 .. Len(dev'.tx.rest) PROVE Due(n + m + k, dev.tx.rest[k])'
    BY DEF AllDue
  <2>1. k \in Nat /\ m' \in Nat
    BY <1>7
  <2>2. a.blk_addr + m' + k = lo + (n + m' + k)
    <3> HIDE DEF lo, n, m
    <3> QED
      BY <1>1, <1>7, <1>9, <2>1
  <2>3. dev'.tx.rest[k] = dev'.disk[Current.lba * BlkSize + (n + m' + k)]
    BY <1>4, <2>2
  <2> QED
    BY <1>5, <2>3 DEF Due
<1>14. AllDue(0, host.got)'
  BY <1>4, DueSame
<1>15. CbwGiven("data")' /\ (host'.phase = "cbw" => host'.got = <<>>)
  BY <1>4, SameGiven
<1>16. Offered'
  <2>1. Len(host'.got) + Len(dev'.tx.pkt) + Len(dev'.tx.rest) + Left' = Volume(Current')
    <3> DEFINE p == Len(dev'.tx.pkt)
               q == Len(dev'.tx.rest)
               b == a.blk_len
               l == Current.len
    <3>1. /\ p + q = C /\ p \in Nat /\ q \in Nat /\ dev'.blk_len = b - C
          /\ n = l - b /\ n \in Nat /\ b \in Nat /\ l \in Nat /\ C \in Nat
      BY <1>1, <1>3, <1>4, <1>7
    <3> HIDE DEF p, q, n, b, l
    <3>2. n + p + q + (b - C) = l
      BY ONLY <3>1
    <3> QED
      BY <1>8, <3>1, <3>2 DEF p, q, n, l
  <2>2. \/ Len(dev'.tx.pkt) = MaxPacket
        \/ Len(dev'.tx.pkt) \in 1 .. MaxPacket - 1 /\ dev'.tx.rest = <<>> /\ Left' = 0
    <3>1. Left' = 0 \/ Left' > 0
      BY <1>3, <1>4, <1>8
    <3> QED
      BY <1>4, <1>11, <3>1
  <2> QED
    BY <1>4, <1>12, <1>13, <1>15, <2>1, <2>2 DEF Offered
<1>17. dev'.residue + Volume(Current') = Current'.len + Left'
  BY <1>1, <1>3, <1>4, <1>5, <1>8
<1>18. dev'.msc_state = "data_in" =>
         /\ dev'.blk_len > 0 /\ Whole(Len(dev'.tx.rest))
         /\ dev'.blk_addr = Current'.lba * BlkSize + (Current'.len - dev'.blk_len)
  <2> SUFFICES ASSUME dev'.msc_state = "data_in"
               PROVE  /\ dev'.blk_len > 0 /\ Whole(Len(dev'.tx.rest))
                      /\ dev'.blk_addr = lo + (Current.len - dev'.blk_len)
    BY <1>5
  <2>1. dev'.blk_len > 0
    BY <1>3, <1>4
  <2>2. a.blk_addr = lo + (Current.len - a.blk_len)
    OBVIOUS
  <2> HIDE DEF lo
  <2>3. dev'.blk_addr = lo + (Current.len - dev'.blk_len)
    <3> DEFINE l == Current.len
               b == a.blk_len
    <3>1. /\ l \in Nat /\ b \in Nat /\ lo \in Nat /\ C \in Nat
          /\ dev'.blk_addr = lo + (l - b) + C /\ dev'.blk_len = b - C
      BY <1>1, <1>3, <1>4, <2>2
    <3> HIDE DEF l, b
    <3>2. lo + (l - b) + C = lo + (l - (b - C))
      BY ONLY <3>1
    <3> QED
      BY <3>1, <3>2 DEF l
  <2> QED
    BY <1>8, <1>11, <2>1, <2>3
<1>19. /\ dev'.msc_state \in IF Current'.op = "read" THEN {"data_in", "last_data"} ELSE {"send_data"}
       /\ dev'.rx.sts = "nak" /\ ~dev'.rx.tc /\ Current'.in /\ Current'.len > 0 /\ ~(Current'.op = "write")
  BY <1>1, <1>4, <1>5
<1>20. Kept
  BY <1>4 DEF Kept, SameCommand
<1> QED
  BY <1>5, <1>6, <1>14, <1>16, <1>17, <1>18, <1>19, <1>20 DEF Sending
-----------------------------------------------------------------------------
(* Data from the host: the device waits for the next chunk.                *)
HasWritten(disk, n) ==
  \A a \in 1 .. NBlk * BlkSize :
    IF a \in Current.lba * BlkSize + 1 .. Current.lba * BlkSize + n
    THEN disk[a] = Written(host.cmd, a - Current.lba * BlkSize)
    ELSE ~(disk[a][1] = "out" /\ disk[a][2] = host.cmd)

LEMMA MediumSame ==
  /\ \A n : OnMedium(n) <=> HasWritten(dev.disk, n)
  /\ UNCHANGED <<env, host>> => \A n : OnMedium(n)' <=> HasWritten(dev'.disk, n)
<1>1. \A n : OnMedium(n) <=> HasWritten(dev.disk, n)
  BY DEF OnMedium, HasWritten, WrittenIn
<1>2. ASSUME UNCHANGED <<env, host>> PROVE \A n : OnMedium(n)' <=> HasWritten(dev'.disk, n)
  BY <1>2, SameHost DEF OnMedium, HasWritten, WrittenIn
<1> QED
  BY <1>1, <1>2

LEMMA ChunkWhole ==
  ASSUME NEW d, d.blk_len \in Nat, d.blk_len > 0, Whole(d.blk_len)
  PROVE  /\ Chunk(d) \in Nat /\ Whole(Chunk(d)) /\ Chunk(d) >= MaxPacket /\ Chunk(d) <= d.blk_len
         /\ Chunk(d) <= BufLen
         /\ Chunk(d) < d.blk_len => Chunk(d) = BufLen
<1>1. BufLen \in Nat /\ BufLen > 0 /\ Whole(BufLen)
  BY Sizes, WholeSizes
<1>2. Chunk(d) \in {d.blk_len, BufLen} /\ Chunk(d) <= d.blk_len /\ Chunk(d) <= BufLen
  BY <1>1 DEF Chunk, Least
<1>3. Chunk(d) \in Nat /\ Chunk(d) > 0 /\ Whole(Chunk(d))
  BY <1>1, <1>2
<1>4. Chunk(d) >= MaxPacket
  BY <1>3, WholeSums
<1> QED
  BY <1>2, <1>3, <1>4

LEMMA ToReceptive ==
  ASSUME TypeInv, UNCHANGED <<tog, env, host>>,
         Current \in Commands, WellFormed(Current), Legal(Current), Current.op = "write", SenseKept,
         NEW w \in DevType, w.bot_status = "idle", w.conf, w.cbw = host.cmd, w.tag = host.cmd, w.nbr = NBlk,
         w.blk_len \in 1 .. Current.len, Whole(w.blk_len), w.residue = w.blk_len,
         w.blk_addr = Current.lba * BlkSize + (Current.len - w.blk_len),
         Works(Current) \/ (w.blk_len = Current.len /\ w.blk_len <= BufLen),
         w.msc_state = "data_out", w.sense = dev.sense,
         HasWritten(w.disk, Current.len - w.blk_len),
         w.tx.sts = "nak", ~w.tx.tc, w.tx.tog = tog.in, ~w.rx.tc, w.rx.tog = dev.rx.tog,
         GivenUpTo(Current.len - w.blk_len),
         dev' = ReceiveChunk(w)
  PROVE  /\ Writing' /\ dev' \in DevType /\ dev'.bot_status = "idle"
         /\ dev'.disk = w.disk /\ dev'.rx.tog = dev.rx.tog
<1> DEFINE C == Chunk(w)
<1>1. /\ dev' \in DevType /\ SameCommand(w, dev') /\ SameData(w, dev') /\ SameBlocks(w, dev')
      /\ dev'.msc_state = w.msc_state /\ dev'.tx = w.tx
      /\ dev'.rx.sts = "valid" /\ dev'.rx.tog = w.rx.tog /\ dev'.rx.tc = w.rx.tc /\ dev'.rx.buf = <<>>
      /\ dev'.rx.room = (IF C > MaxPacket THEN C - MaxPacket ELSE 0)
      /\ Chunk(dev') = C
  BY ReceiveChunkEffect
<1>2. C \in Nat /\ C >= MaxPacket /\ MaxPacket \in Nat
  BY ChunkWhole, Sizes
<1> HIDE DEF C
<1>3. MaxPacket + dev'.rx.room = C
  BY <1>1, <1>2
<1>4. dev'.blk_len = w.blk_len /\ dev'.blk_addr = w.blk_addr /\ dev'.residue = w.residue
      /\ dev'.disk = w.disk /\ dev'.sense = dev.sense
  BY <1>1 DEF SameData, SameBlocks
<1>5. /\ Current' = Current /\ Works(Current)' = Works(Current) /\ SenseKept'
  BY <1>4, SameHost
<1>6. Decoded'
  BY <1>1 DEF Decoded, SameCommand
<1>7. Off' = Current.len - w.blk_len
  BY <1>4, <1>5 DEF Off
<1>8. OnMedium(Off)'
  BY <1>4, <1>7, MediumSame
<1>9. Len(dev'.rx.buf) = 0 /\ Whole(0) /\ 0 + MaxPacket + dev'.rx.room = Chunk(dev')
  BY <1>1, <1>2, <1>3, WholeSizes, PacketFacts
<1>10. DataUnits(Off, dev.rx.buf)'
  BY <1>9 DEF DataUnits
<1>11. Off' + Len(dev'.rx.buf) = Current.len - w.blk_len
  <2>1. Current.len \in Nat
    BY DEF Commands
  <2>2. Current.len - w.blk_len \in Int
    BY <2>1
  <2> QED
    BY <1>7, <1>9, <2>2
<1>12. GivenUpTo(Off + Len(dev.rx.buf))'
  <2>1. Had' <=> Had
    BY <1>1 DEF Had
  <2> QED
    BY <1>5, <1>11, <2>1 DEF GivenUpTo
<1>13. Receptive'
  BY <1>1, <1>12 DEF Receptive
<1>14. TxQuiet' /\ ~dev'.tx.tc
  BY <1>1 DEF TxQuiet
<1>15. Chunk(dev)' = Chunk(dev')
  BY DEF Chunk
<1>16. Writing'
  BY <1>1, <1>4, <1>5, <1>6, <1>7, <1>8, <1>9, <1>10, <1>13, <1>14, <1>15 DEF Writing
<1> QED
  BY <1>1, <1>4, <1>16 DEF SameCommand

LEMMA ToWriting ==
  ASSUME TypeInv, BaseInv, Tame(env), Waiting, ~dev.tx.tc, UNCHANGED <<tog, env, host>>,
         NEW d, Prepared(d), NEW r, OutWrite(d, Current, r), dev' = r.d
  PROVE  Writing' /\ Kept
<1> DEFINE w == Accept(d, Current, "data_out")
           lo == Current.lba * BlkSize
<1>1. /\ d \in DevType /\ d.bot_status = "idle" /\ d.conf /\ d.cbw = host.cmd /\ d.tag = host.cmd /\ d.residue = Current.len
      /\ d.disk = dev.disk /\ d.tx = dev.tx /\ d.sense = dev.sense
      /\ ~d.rx.tc /\ d.rx.tog = dev.rx.tog
  BY DEF Prepared
<1>2. d.nbr = NBlk /\ Current.op = "write" /\ Legal(Current) /\ dev' = ReceiveChunk(w)
  BY DEF OutWrite, Reply
<1>3. Current \in Commands /\ WellFormed(Current) /\ Moves(Current) /\ Recoverable(env, Current)
  BY <1>2, WaitingFacts DEF Moves
<1>4. /\ lo \in Nat /\ Current.len \in Nat /\ Current.len > 0 /\ Whole(Current.len)
  BY <1>2, <1>3, LegalMoves
<1>5. /\ w \in DevType /\ SameCommand(d, w) /\ SameData(d, w) /\ w.tx = d.tx /\ w.rx = d.rx
      /\ w.msc_state = "data_out" /\ w.blk_addr = lo /\ w.blk_len = Current.len
  BY <1>1, <1>2, <1>3, AcceptEffect DEF MscStates
<1> HIDE DEF w
<1>6. Works(Current) \/ Current.len <= BufLen
  <2>1. Current.len > BufLen \/ Current.len <= BufLen
    BY <1>4, Sizes
  <2> QED
    BY <1>2, <1>3, <2>1 DEF Recoverable, Works
<1>7. /\ w.bot_status = "idle" /\ w.conf /\ w.cbw = host.cmd /\ w.tag = host.cmd /\ w.nbr = NBlk
      /\ w.residue = Current.len /\ w.disk = dev.disk /\ w.sense = dev.sense
  BY <1>1, <1>2, <1>5 DEF SameCommand, SameData
<1>8. Current.len - w.blk_len = 0 /\ w.blk_len \in 1 .. Current.len
  BY <1>4, <1>5
<1>9. w.blk_addr = lo + (Current.len - w.blk_len)
  BY <1>4, <1>5, <1>8
<1>10. HasWritten(w.disk, 0)
  <2>1. lo + 0 = lo /\ \A a \in 1 .. NBlk * BlkSize : a \notin lo + 1 .. lo + 0
    <3> HIDE DEF lo
    <3> QED
      BY <1>4, Sizes
  <2>2. Untouched
    BY WaitingFacts
  <2> QED
    BY <1>7, <2>1, <2>2 DEF HasWritten, Untouched, WrittenIn
<1>11. GivenUpTo(0)
  <2>1. CbwGiven("data") /\ host.sent = 0 /\ Current.len # 0
    BY <1>4, WaitingFacts DEF Waiting, DataOrStatus
  <2> QED
    BY <2>1 DEF CbwGiven, GivenUpTo
<1>12. w.tx.sts = "nak" /\ ~w.tx.tc /\ w.tx.tog = tog.in /\ ~w.rx.tc /\ w.rx.tog = dev.rx.tog
  BY <1>1, <1>5, WaitingFacts
<1>13. HasWritten(w.disk, Current.len - w.blk_len) /\ GivenUpTo(Current.len - w.blk_len)
  BY <1>8, <1>10, <1>11
<1>14. w.residue = w.blk_len /\ Whole(w.blk_len)
       /\ (Works(Current) \/ (w.blk_len = Current.len /\ w.blk_len <= BufLen))
  BY <1>4, <1>5, <1>6, <1>7
<1> HIDE DEF lo
<1>15. /\ Writing' /\ dev' \in DevType /\ dev'.bot_status = "idle" /\ dev'.disk = w.disk
       /\ dev'.rx.tog = dev.rx.tog
  BY <1>2, <1>3, <1>5, <1>7, <1>8, <1>9, <1>12, <1>13, <1>14, WaitingFacts, ToReceptive DEF lo
<1> QED
  BY <1>7, <1>15 DEF Kept

LEMMA ToSendingBlocks ==
  ASSUME TypeInv, BaseInv, Tame(env), Waiting, ~dev.tx.tc, UNCHANGED <<tog, env, host>>,
         NEW d, Prepared(d), NEW r, OutRead(d, Current, r), dev' = r.d
  PROVE  Sending' /\ Kept
<1> DEFINE a == Accept(d, Current, "data_in")
           lo == Current.lba * BlkSize
<1>1. /\ d \in DevType /\ d.bot_status = "idle" /\ d.conf /\ d.cbw = host.cmd /\ d.tag = host.cmd /\ d.residue = Current.len
      /\ d.disk = dev.disk /\ d.tx = dev.tx /\ d.sense = dev.sense
      /\ d.rx.sts = "nak" /\ ~d.rx.tc /\ d.rx.tog = dev.rx.tog
  BY DEF Prepared
<1>2. /\ d.nbr = NBlk /\ Current.op = "read" /\ Legal(Current) /\ Works(Current)
      /\ DiskWorks(a) /\ dev' = ReadChunk(a).d
  BY DEF OutRead
<1>3. Current \in Commands /\ WellFormed(Current) /\ Moves(Current)
  BY <1>2, WaitingFacts DEF Moves
<1>4. /\ lo \in Nat /\ Current.len \in Nat /\ Current.len > 0
  BY <1>2, <1>3, LegalMoves
<1>5. /\ a \in DevType /\ SameCommand(d, a) /\ SameData(d, a) /\ a.tx = d.tx /\ a.rx = d.rx
      /\ a.msc_state = "data_in" /\ a.blk_addr = lo /\ a.blk_len = Current.len
  BY <1>1, <1>2, <1>3, AcceptEffect DEF MscStates
<1> HIDE DEF a
<1>6. /\ a.bot_status = "idle" /\ a.conf /\ a.cbw = host.cmd /\ a.tag = host.cmd /\ a.nbr = NBlk
      /\ a.residue = Current.len /\ a.disk = dev.disk /\ a.sense = dev.sense
  BY <1>1, <1>2, <1>5 DEF SameCommand, SameData
<1>7. Current.len - a.blk_len = 0 /\ a.blk_len \in 1 .. Current.len
  BY <1>4, <1>5
<1>8. a.blk_addr = lo + (Current.len - a.blk_len)
  BY <1>4, <1>5, <1>7
<1>9. /\ ~a.tx.tc /\ a.tx.tog = tog.in /\ a.rx.sts = "nak" /\ ~a.rx.tc /\ a.rx.tog = dev.rx.tog
      /\ a.residue = a.blk_len
  BY <1>1, <1>5, <1>6, WaitingFacts
<1>10. /\ CbwGiven("data") /\ host.got = <<>>
  BY <1>4, WaitingFacts DEF Waiting, DataOrStatus
<1>11. Len(host.got) = Current.len - a.blk_len /\ AllDue(0, host.got)
  BY <1>7, <1>10, PacketFacts DEF AllDue
<1> HIDE DEF lo
<1> QED
  BY <1>2, <1>3, <1>5, <1>6, <1>7, <1>8, <1>9, <1>10, <1>11, WaitingFacts, ChunkSent DEF lo

LEMMA DecodeStage ==
  ASSUME TypeInv, BaseInv, Tame(env), Waiting, ~dev.tx.tc, EptInterrupt
  PROVE  (Refused' \/ Told' \/ Sending' \/ Writing') /\ Kept
<1>1. PICK d : Prepared(d) /\ CbwStruct(d) = Current /\ dev' = Decided(bot_scsi_cmd_process(d))
  BY DecodeInterrupt
<1>2. UNCHANGED <<tog, env, host>>
  BY DecodeInterrupt
<1> DEFINE r == bot_scsi_cmd_process(d)
<1>3. /\ host.cmd \in 1 .. Len(Script) /\ Current \in Commands
      /\ WellFormed(Current) /\ Recoverable(env, Current)
      /\ host.cmd > 1 => dev.nbr = NBlk
      /\ host.cmd = 1 => Current.op = "capacity"
  BY WaitingFacts
<1>4. /\ d \in DevType /\ d.nbr = dev.nbr /\ d.msc_state = "idle" /\ d.residue = Current.len
      /\ d.cbw = host.cmd /\ d.cbw # 0
  BY <1>1, <1>3 DEF Prepared
<1>5. d.nbr = NBlk \/ Current.op = "capacity"
  BY <1>3, <1>4
<1>6. OutRefused(d, Current, r) \/ OutNothing(d, Current, r) \/ OutUnit(d, Current, r)
        \/ OutRead(d, Current, r) \/ OutWrite(d, Current, r)
  <2>1. CASE Moves(Current)
    <3>1. d.nbr = NBlk
      BY <1>5, <2>1 DEF Moves
    <3> QED
      BY <1>1, <1>3, <1>4, <2>1, <3>1, TransferOutcome
  <2>2. CASE ~Moves(Current)
    BY <1>1, <1>3, <1>4, <1>5, <2>2, OtherOutcome
  <2> QED
    BY <2>1, <2>2
<1>7. dev' = Decided(r)
  BY <1>1
<1> HIDE DEF r
<1>8. CASE OutRefused(d, Current, r)
  <2>1. dev' = bot_scsi_stall(r.d)
    BY <1>7, <1>8 DEF OutRefused, Decided
  <2> QED
    BY <1>1, <1>2, <1>8, <2>1, ToRefused
<1>9. CASE OutNothing(d, Current, r)
  <2>1. r = Reply(d, <<>>)
    BY <1>9 DEF OutNothing
  <2>2. dev' = bot_scsi_send_csw(d, "pass")
    BY <1>4, <1>7, <2>1 DEF Decided, Reply, Unanswered
  <2> QED
    BY <1>1, <1>2, <1>9, <2>2, ToTold
<1>10. CASE OutUnit(d, Current, r)
  <2> DEFINE m == [d EXCEPT !.nbr = NBlk]
  <2>1. PICK u \in Unit :
          /\ r = Reply(m, <<u>>)
          /\ Deserved(Current) = "pass" /\ Current.in /\ Current.len > 0
          /\ Current.op \notin {"read", "write"}
          /\ Current.op = "sense" => u = <<"sense", 0, 0, d.sense>>
    BY <1>10 DEF OutUnit
  <2>2. m.msc_state = "idle" /\ <<u>> # <<>>
    BY <1>4 DEF DevType
  <2> HIDE DEF m
  <2>3. dev' = bot_scsi_send_data(m, <<u>>)
    BY <1>7, <2>1, <2>2 DEF Decided, Reply, Unanswered
  <2> QED
    BY <1>1, <1>2, <2>1, <2>3, ToSendingUnit DEF m
<1>11. CASE OutRead(d, Current, r)
  <2> DEFINE a == Accept(d, Current, "data_in")
  <2>1. r.ok /\ r.d.msc_state \in {"data_in", "last_data"}
    <3>1. /\ Current.op = "read" /\ Legal(Current) /\ Works(Current) /\ DiskWorks(a)
          /\ r = ReadChunk(a) /\ Moves(Current)
      BY <1>11 DEF OutRead, Moves
    <3>2. /\ a \in DevType /\ a.msc_state = "data_in" /\ a.blk_addr = Current.lba * BlkSize
          /\ a.blk_len = Current.len /\ SameData(d, a)
      BY <1>3, <1>4, <3>1, AcceptEffect DEF MscStates
    <3> HIDE DEF a
    <3>3. ChunkFits(a)
      <4> DEFINE lo == Current.lba * BlkSize
                 hi == NBlk * BlkSize
      <4>1. lo + Current.len <= hi /\ Current.len > 0 /\ a.residue = Current.len /\ Current.len \in Nat
        BY <1>3, <1>4, <3>1, <3>2, LegalMoves DEF SameData
      <4> HIDE DEF lo, hi
      <4> QED
        BY <3>2, <4>1 DEF ChunkFits, lo, hi
    <3>4. r.ok /\ ChunkRead(a, r.d)
      BY <3>1, <3>2, <3>3, ReadChunkEffect
    <3> QED
      BY <3>2, <3>4 DEF ChunkRead
  <2>2. dev' = r.d
    BY <1>7, <2>1 DEF Decided, Unanswered
  <2> QED
    BY <1>1, <1>2, <1>11, <2>2, ToSendingBlocks
<1>12. CASE OutWrite(d, Current, r)
  <2> DEFINE w == Accept(d, Current, "data_out")
  <2>1. Moves(Current) /\ Legal(Current) /\ r = Reply(ReceiveChunk(w), <<>>)
    BY <1>12 DEF OutWrite, Moves
  <2>2. w \in DevType /\ w.msc_state = "data_out"
    BY <1>3, <1>4, <2>1, AcceptEffect DEF MscStates
  <2> HIDE DEF w
  <2>3. r.ok /\ r.d.msc_state = "data_out"
    BY <2>1, <2>2, ReceiveChunkEffect DEF Reply
  <2>4. dev' = r.d
    BY <1>7, <2>3 DEF Decided, Unanswered
  <2> QED
    BY <1>1, <1>2, <1>12, <2>4, ToWriting
<1> QED
  BY <1>6, <1>8, <1>9, <1>10, <1>11, <1>12

(* Before the CBW's interrupt, that of IN ends the status of the command   *)
(* before it and changes nothing else.                                     *)
LEMMA IdleStages ==
  ASSUME TypeInv, Between \/ Asking \/ Waiting, dev.tx.tc, EptInterrupt
  PROVE  /\ (Between => Between') /\ (Asking => Asking') /\ (Waiting => Waiting')
         /\ SameCommand(dev, dev') /\ dev' \in DevType /\ dev'.disk = dev.disk
         /\ dev'.rx.tog = dev.rx.tog
<1>1. /\ dev \in DevType /\ dev.tx \in TxType /\ Ready
  BY DEF TypeInv, DevType, Between, Asking, Waiting
<1>2. /\ dev' = [dev EXCEPT !.tx = TxServed(dev.tx)] /\ UNCHANGED <<tog, env, host>>
  BY <1>1, IdleInterrupt DEF Ready
<1>3. /\ TxServed(dev.tx) \in TxType /\ TxServed(dev.tx).sts = dev.tx.sts
      /\ TxServed(dev.tx).tog = dev.tx.tog /\ TxServed(dev.tx).tc = FALSE
  BY <1>1, ServedEffects
<1>4. /\ dev' \in DevType /\ dev'.tx = TxServed(dev.tx) /\ dev'.rx = dev.rx /\ dev'.msc_state = dev.msc_state
      /\ SameCommand(dev, dev') /\ SameData(dev, dev')
  BY <1>1, <1>2, <1>3, DevEndpoint
<1>5. dev'.conf = dev.conf /\ dev'.sense = dev.sense /\ dev'.disk = dev.disk
  BY <1>4 DEF SameCommand, SameData
<1>6. /\ Current' = Current /\ DataOrStatus' = DataOrStatus /\ SenseKept'
  BY <1>1, <1>2, <1>5, SameHost DEF Ready
<1>7. Ready'
  <2>1. ~dev'.tx.tc
    BY <1>3, <1>4
  <2>2. TxQuiet' /\ RxEmpty' /\ dev'.conf /\ dev'.msc_state = "idle"
    BY <1>1, <1>2, <1>3, <1>4, <1>5 DEF Ready, TxQuiet, RxEmpty
  <2> QED
    BY <1>6, <2>1, <2>2 DEF Ready
<1>8. /\ (Had' <=> Had) /\ (Untouched => Untouched') /\ (RxArmed => RxArmed') /\ (Fresh => Fresh')
      /\ \A p : CbwGiven(p) => CbwGiven(p)'
  BY <1>2, <1>4, <1>5, SameGiven, SameDisk DEF RxArmed, RxEmpty, Fresh
<1>9. Between => Between'
  BY <1>2, <1>7, <1>8 DEF Between
<1>10. Asking => Asking'
  BY <1>2, <1>7, <1>8 DEF Asking
<1>11. Waiting => Waiting'
  <2> SUFFICES ASSUME Waiting PROVE Waiting'
    OBVIOUS
  <2>1. CbwGiven(DataOrStatus)'
    BY <1>6, <1>8 DEF Waiting, CbwGiven
  <2>2. CbwUnit(host.cmd)' = CbwUnit(host.cmd)
    BY <1>2 DEF CbwUnit
  <2> QED
    BY <1>2, <1>4, <1>7, <1>8, <2>1, <2>2 DEF Waiting
<1> QED
  BY <1>4, <1>5, <1>9, <1>10, <1>11
-----------------------------------------------------------------------------
(* Data to the host: the next packet, the next chunk or the status.        *)
LEMMA AtHand ==
  ASSUME TypeInv, BaseInv, Tame(env), InCommand
  PROVE  /\ host.cmd \in 1 .. Len(Script) /\ Current \in Commands /\ env \in Environments
         /\ WellFormed(Current) /\ Recoverable(env, Current)
         /\ Current.len \in Nat /\ Current.in \in BOOLEAN
         /\ Len(Answers) \in Nat /\ host.cmd = Len(Answers) + 1
         /\ host.cmd = 1 => Current.op = "capacity"
<1>1. host.cmd \in Nat /\ env \in Environments /\ Len(Answers) \in Nat
  BY DEF TypeInv, HostType, Answers
<1>2. host.cmd \in 1 .. Len(Script) /\ host.cmd = Len(Answers) + 1
  BY <1>1, EnvFacts DEF BaseInv
<1>3. /\ Current \in Commands /\ WellFormed(Current) /\ Recoverable(env, Current)
      /\ Current.len \in Nat /\ Current.in \in BOOLEAN
      /\ host.cmd = 1 => Current.op = "capacity"
  BY <1>1, <1>2, CommandFacts, EnvFacts DEF Current
<1> QED
  BY <1>1, <1>2, <1>3

LEMMA SendingFacts ==
  ASSUME TypeInv, BaseInv, Tame(env), Sending
  PROVE  /\ InCommand /\ Volume(Current) \in Nat /\ Volume(Current) <= Current.len /\ Left \in Nat
         /\ Len(host.got) \in Nat /\ Len(dev.tx.pkt) \in Nat /\ Len(dev.tx.rest) \in Nat
         /\ host.got \in Packet /\ dev.tx.pkt \in Packet /\ dev.tx.rest \in Packet
         /\ dev.tx \in TxType /\ dev.rx \in RxType /\ dev.tx.tog = dev.tx.tog
         /\ Left > 0 => dev.msc_state = "data_in"
         /\ dev.msc_state = "data_in" =>
              /\ Current.op = "read" /\ Left = dev.blk_len /\ Volume(Current) = Current.len
         /\ Current.op = "read" => Legal(Current) /\ Works(Current)
<1>1. dev \in DevType /\ host \in HostType
  BY DEF TypeInv
<1>2. /\ dev.tx \in TxType /\ dev.rx \in RxType /\ host.got \in Packet
      /\ dev.tx.pkt \in Packet /\ dev.tx.rest \in Packet /\ dev.blk_len \in Nat
  <2>1. dev.blk_len \in 0 .. Wrap - 1 /\ Wrap \in Nat
    BY <1>1, Sizes DEF DevType
  <2> QED
    BY <1>1, <2>1 DEF DevType, HostType, TxType
<1>3. InCommand
  BY DEF Sending, Offered, Received, CbwGiven, InCommand
<1>4. Current.len \in Nat /\ Current.len > 0
  BY <1>3, AtHand DEF Sending
<1>5. Volume(Current) \in Nat /\ Volume(Current) <= Current.len
  BY <1>4 DEF Volume
<1>6. Left \in Nat /\ (Left > 0 => dev.msc_state = "data_in")
  BY <1>2 DEF Left
<1>7. dev.msc_state = "data_in" => Current.op = "read"
  BY DEF Sending
<1>8. Deserved(Current) = "pass" => Legal(Current) /\ Works(Current)
  BY DEF Deserved
<1> QED
  BY <1>2, <1>3, <1>5, <1>6, <1>7, <1>8, PacketFacts DEF Sending, Left, Volume

LEMMA NextPacket ==
  ASSUME TypeInv, BaseInv, Tame(env), Sending, Received, dev.tx.tc, dev.tx.rest # <<>>,
         EptInterrupt
  PROVE  Sending' /\ Kept
<1> DEFINE s  == dev.tx.rest
           tx == TxServed(dev.tx)
           d  == [dev EXCEPT !.tx = tx]
           g  == Len(host.got)
           p  == Len(First(s))
           q  == Len(Rest(s))
<1>1. /\ dev \in DevType /\ dev.tx \in TxType /\ s \in Packet /\ g \in Nat /\ Left \in Nat
      /\ Volume(Current) \in Nat /\ Len(s) \in Nat
  BY SendingFacts DEF TypeInv
<1>2. tx \in TxType /\ ~tx.tc /\ tx.tog = dev.tx.tog /\ tx.rest = s
  BY <1>1, ServedEffects
<1> HIDE DEF tx
<1>3. /\ d \in DevType /\ d.tx = tx /\ d.rx = dev.rx /\ d.msc_state = dev.msc_state
      /\ SameCommand(dev, d) /\ SameData(dev, d) /\ SameBlocks(dev, d)
  BY <1>1, <1>2, DevEndpoint
<1>4. dev' = InComplete(d) /\ UNCHANGED <<tog, env, host>>
  BY DEF EptInterrupt, tx
<1> HIDE DEF d
<1>5. dev' = [d EXCEPT !.tx = usbd_ept_send(tx, s)]
  BY <1>2, <1>3, <1>4 DEF InComplete, TxComplete
<1>6. /\ usbd_ept_send(tx, s) \in TxType
      /\ usbd_ept_send(tx, s).sts = "valid" /\ usbd_ept_send(tx, s).tog = dev.tx.tog
      /\ ~usbd_ept_send(tx, s).tc
      /\ usbd_ept_send(tx, s).pkt = First(s) /\ usbd_ept_send(tx, s).rest = Rest(s)
  BY <1>1, <1>2, SendEffect
<1>7. /\ dev' \in DevType /\ dev'.tx = usbd_ept_send(tx, s) /\ dev'.rx = d.rx /\ dev'.msc_state = d.msc_state
      /\ SameCommand(d, dev') /\ SameData(d, dev') /\ SameBlocks(d, dev')
  BY <1>3, <1>5, <1>6, DevEndpoint
<1>8. /\ dev'.rx = dev.rx /\ dev'.msc_state = dev.msc_state
      /\ SameCommand(dev, dev') /\ SameData(dev, dev') /\ SameBlocks(dev, dev')
  BY <1>3, <1>7 DEF SameCommand, SameData, SameBlocks
<1>9. /\ First(s) \in Packet /\ Rest(s) \in Packet /\ p \in Nat /\ q \in Nat /\ p + q = Len(s)
      /\ p = MaxPacket \/ (p \in 1 .. MaxPacket - 1 /\ Rest(s) = <<>>)
      /\ Rest(s) = <<>> => q = 0
      /\ \A k \in 1 .. p : First(s)[k] = s[k]
      /\ \A k \in 1 .. q : Rest(s)[k] = s[p + k]
  BY <1>1, SplitFacts, PacketFacts
<1>10. /\ Current' = Current /\ Deserved(Current)' = Deserved(Current) /\ SenseKept'
  BY <1>4, <1>8, SameHost DEF SameData, Sending
<1>11. Decoded'
  BY <1>4, <1>8 DEF Decoded, SameCommand, Sending
<1>12. /\ ~Had /\ host.phase = IF g = Volume(Current) THEN "status" ELSE "data"
       /\ g + Len(s) + Left = Volume(Current) /\ tog.in = dev.tx.tog
  BY DEF Received
<1>13. AllDue(g, s) /\ AllDue(0, host.got)
  BY DEF Received, Sending
<1>14. Left' = Left
  BY <1>8 DEF Left, SameBlocks
<1>15. dev.msc_state = "data_in" => Whole(Len(s))
  BY DEF Sending
<1>16. Left > 0 => dev.msc_state = "data_in"
  BY SendingFacts
<1>17. Len(s) > 0 /\ MaxPacket \in Nat /\ MaxPacket > 1
  BY <1>1, PacketFacts, Sizes
<1>18. dev'.tx.pkt = First(s) /\ dev'.tx.rest = Rest(s)
  BY <1>6, <1>7
<1> HIDE DEF s, g, p, q
<1>19. CbwGiven("data")' /\ host'.phase # "cbw"
  <2>1. g # Volume(Current)
    BY <1>1, <1>12, <1>17
  <2>2. Had' <=> Had
    BY <1>4, <1>8 DEF Had
  <2> QED
    BY <1>4, <1>12, <2>1, <2>2 DEF CbwGiven
<1>20. g + p + q + Left = Volume(Current)
  <2>1. g \in Nat /\ p \in Nat /\ q \in Nat /\ Len(s) = p + q
    BY <1>1, <1>9
  <2>2. g + Len(s) = g + p + q
    BY ONLY <2>1
  <2> QED
    BY <1>12, <2>2
<1>21. Whole(Len(s)) => p = MaxPacket /\ Whole(q)
  <2>1. ASSUME Whole(Len(s)) PROVE p = MaxPacket /\ Whole(q)
    <3>1. Len(s) >= MaxPacket
      BY <1>1, <1>17, <2>1, WholeSums
    <3>2. p = MaxPacket
      BY <1>9, <1>17, <3>1
    <3>3. q = Len(s) - MaxPacket
      BY <1>1, <1>9, <1>17, <3>2
    <3> QED
      BY <1>1, <1>17, <2>1, <3>1, <3>2, <3>3, WholeSums, WholeSizes
  <2> QED
    BY <2>1
<1>22. p = MaxPacket \/ (p \in 1 .. MaxPacket - 1 /\ Rest(s) = <<>> /\ Left = 0)
  <2>1. Left = 0 \/ Left > 0
    BY <1>1
  <2> QED
    BY <1>9, <1>15, <1>16, <1>21, <2>1
<1>23. /\ \A k \in 1 .. p : Due(g + k, First(s)[k])
       /\ \A k \in 1 .. q : Due(g + p + k, Rest(s)[k])
  <2>1. ASSUME NEW k \in 1 .. p PROVE Due(g + k, First(s)[k])
    BY <1>9, <1>13, <2>1 DEF AllDue
  <2>2. ASSUME NEW k \in 1 .. q PROVE Due(g + p + k, Rest(s)[k])
    <3>1. p + k \in 1 .. Len(s) /\ g + (p + k) = g + p + k
      BY <1>1, <1>9
    <3> QED
      BY <1>9, <1>13, <3>1 DEF AllDue
  <2> QED
    BY <2>1, <2>2
<1>24. AllDue(Len(host.got), dev.tx.pkt)'
  <2> SUFFICES ASSUME NEW k \in 1 .. Len(dev'.tx.pkt) PROVE Due(Len(host.got) + k, dev.tx.pkt[k])'
    BY DEF AllDue
  <2>1. Due(g + k, First(s)[k])
    BY <1>18, <1>23 DEF p
  <2>2. g + k = Len(host'.got) + k /\ First(s)[k] = dev'.tx.pkt[k]
    BY <1>4, <1>18 DEF g
  <2> QED
    BY <1>8, <1>10, <2>1, <2>2 DEF Due, SameData
<1>25. AllDue(Len(host.got) + Len(dev.tx.pkt), dev.tx.rest)'
  <2> SUFFICES ASSUME NEW k \in 1 .. Len(dev'.tx.rest)
               PROVE  Due(Len(host.got) + Len(dev.tx.pkt) + k, dev.tx.rest[k])'
    BY DEF AllDue
  <2>1. Due(g + p + k, Rest(s)[k])
    BY <1>18, <1>23 DEF q
  <2>2. g + p + k = Len(host'.got) + Len(dev'.tx.pkt) + k /\ Rest(s)[k] = dev'.tx.rest[k]
    BY <1>4, <1>18 DEF g, p
  <2> QED
    BY <1>8, <1>10, <2>1, <2>2 DEF Due, SameData
<1>26. AllDue(0, host.got)'
  BY <1>4, <1>8, <1>13, DueSame DEF SameData
<1>27. Volume(Current)' = Volume(Current)
  BY <1>10 DEF Volume
<1>28. Offered'
  <2>1. Len(host'.got) = g /\ Len(dev'.tx.pkt) = p /\ Len(dev'.tx.rest) = q
    BY <1>4, <1>18 DEF g, p, q
  <2>2. Len(host'.got) + Len(dev'.tx.pkt) + Len(dev'.tx.rest) + Left' = Volume(Current)'
    BY <1>14, <1>20, <1>27, <2>1
  <2>3. \/ Len(dev'.tx.pkt) = MaxPacket
        \/ Len(dev'.tx.pkt) \in 1 .. MaxPacket - 1 /\ dev'.tx.rest = <<>> /\ Left' = 0
    BY <1>14, <1>18, <1>22, <2>1
  <2>4. dev'.tx.sts = "valid" /\ ~dev'.tx.tc /\ tog'.in = dev'.tx.tog
    BY <1>4, <1>6, <1>7, <1>12
  <2> QED
    BY <1>19, <1>24, <1>25, <2>2, <2>3, <2>4 DEF Offered
<1>29. dev'.msc_state = "data_in" =>
         /\ dev'.blk_len > 0 /\ Whole(Len(dev'.tx.rest))
         /\ dev'.blk_addr = Current'.lba * BlkSize + (Current'.len - dev'.blk_len)
  <2>1. dev.msc_state = "data_in" =>
          /\ dev.blk_len > 0
          /\ dev.blk_addr = Current.lba * BlkSize + (Current.len - dev.blk_len)
    BY DEF Sending
  <2> QED
    BY <1>8, <1>10, <1>15, <1>18, <1>21, <2>1 DEF SameBlocks, q
<1>30. dev'.residue + Volume(Current)' = Current'.len + Left'
  BY <1>8, <1>10, <1>14, <1>27 DEF SameData, Sending
<1>31. /\ dev'.msc_state \in IF Current'.op = "read" THEN {"data_in", "last_data"} ELSE {"send_data"}
       /\ dev'.rx.sts = "nak" /\ ~dev'.rx.tc /\ Current'.in /\ Current'.len > 0
       /\ ~(Current'.op = "write") /\ Deserved(Current)' = "pass"
  BY <1>8, <1>10 DEF Sending
<1>32. Kept
  BY <1>7, <1>8 DEF Kept, SameCommand, SameData, BaseInv
<1> QED
  BY <1>10, <1>11, <1>26, <1>28, <1>29, <1>30, <1>31, <1>32 DEF Sending

(* The call of the class's handler when all of a transfer is sent.         *)
LEMMA SentInterrupt ==
  ASSUME TypeInv, Sending, Received, dev.tx.tc, dev.tx.rest = <<>>, EptInterrupt
  PROVE  /\ \E d \in DevType :
              /\ dev' = bot_scsi_datain_handler(d)
              /\ d.rx = dev.rx /\ d.msc_state = dev.msc_state
              /\ SameCommand(dev, d) /\ SameData(dev, d) /\ SameBlocks(dev, d)
              /\ ~d.tx.tc /\ d.tx.tog = dev.tx.tog
         /\ UNCHANGED <<tog, env, host>>
<1> DEFINE tx == TxServed(dev.tx)
           d  == [dev EXCEPT !.tx = tx]
<1>1. dev \in DevType /\ dev.tx \in TxType
  BY DEF TypeInv, DevType
<1>2. tx \in TxType /\ ~tx.tc /\ tx.tog = dev.tx.tog /\ tx.rest = <<>>
  BY <1>1, ServedEffects
<1> HIDE DEF tx
<1>3. /\ d \in DevType /\ d.tx = tx /\ d.rx = dev.rx /\ d.msc_state = dev.msc_state
      /\ SameCommand(dev, d) /\ SameData(dev, d) /\ SameBlocks(dev, d)
  BY <1>1, <1>2, DevEndpoint
<1>4. dev' = InComplete(d) /\ UNCHANGED <<tog, env, host>>
  BY DEF EptInterrupt, tx
<1> HIDE DEF d
<1>5. d.conf /\ TxComplete(d.tx)
  BY <1>2, <1>3 DEF Sending, Decoded, SameCommand, TxComplete
<1>6. dev' = bot_scsi_datain_handler(d)
  BY <1>4, <1>5 DEF InComplete
<1> QED
  BY <1>2, <1>3, <1>4, <1>6

LEMMA NextChunk ==
  ASSUME TypeInv, BaseInv, Tame(env), Sending, Received, dev.tx.tc, dev.tx.rest = <<>>,
         dev.msc_state = "data_in", EptInterrupt
  PROVE  Sending' /\ Kept
<1>1. PICK d \in DevType :
        /\ dev' = bot_scsi_datain_handler(d)
        /\ d.rx = dev.rx /\ d.msc_state = dev.msc_state
        /\ SameCommand(dev, d) /\ SameData(dev, d) /\ SameBlocks(dev, d)
        /\ ~d.tx.tc /\ d.tx.tog = dev.tx.tog
  BY SentInterrupt
<1>2. UNCHANGED <<tog, env, host>>
  BY SentInterrupt
<1>3. /\ InCommand /\ Volume(Current) = Current.len /\ Left = dev.blk_len /\ Len(host.got) \in Nat
      /\ Current.op = "read" /\ Legal(Current) /\ Works(Current) /\ Len(dev.tx.rest) = 0
  BY SendingFacts, PacketFacts
<1>4. /\ host.cmd \in 1 .. Len(Script) /\ Current \in Commands /\ WellFormed(Current)
      /\ Current.len \in Nat /\ Moves(Current)
  BY <1>3, AtHand DEF Moves
<1>5. /\ dev.conf /\ dev.cbw = host.cmd /\ dev.tag = host.cmd /\ dev.nbr = NBlk /\ SenseKept
      /\ dev.rx.sts = "nak" /\ ~dev.rx.tc /\ dev.blk_len > 0
      /\ dev.blk_addr = Current.lba * BlkSize + (Current.len - dev.blk_len)
      /\ dev.residue + Volume(Current) = Current.len + Left /\ AllDue(0, host.got)
  BY DEF Sending, Decoded
<1>6. /\ ~Had /\ host.phase = (IF Len(host.got) = Volume(Current) THEN "status" ELSE "data")
      /\ Len(host.got) + Len(dev.tx.rest) + Left = Volume(Current) /\ tog.in = dev.tx.tog
  BY DEF Received
<1>7. /\ d.bot_status = "idle" /\ d.conf /\ d.cbw = host.cmd /\ d.tag = host.cmd /\ d.nbr = NBlk
      /\ d.disk = dev.disk /\ d.sense = dev.sense
      /\ d.residue = dev.residue /\ d.blk_len = dev.blk_len /\ d.blk_addr = dev.blk_addr
  BY <1>1, <1>5 DEF SameCommand, SameData, SameBlocks, BaseInv
<1>8. dev.blk_len \in Nat /\ dev.residue \in Nat
  BY <1>3, SendingFacts DEF TypeInv, DevType
<1>9. /\ Len(host.got) = Current.len - d.blk_len /\ d.blk_len \in 1 .. Current.len
      /\ d.residue = d.blk_len /\ Len(host.got) # Current.len
  <2> DEFINE n == Len(host.got)
             b == dev.blk_len
             l == Current.len
             m == dev.residue
  <2>1. n + 0 + b = l /\ m + l = l + b /\ b > 0 /\ n \in Nat /\ b \in Nat /\ l \in Nat /\ m \in Nat
    BY <1>3, <1>4, <1>5, <1>6, <1>8
  <2> HIDE DEF n, b, l, m
  <2>2. n = l - b /\ b \in 1 .. l /\ m = b /\ n # l
    BY ONLY <2>1
  <2> QED
    BY <1>7, <2>2 DEF n, b, l, m
<1>10. d.blk_addr = Current.lba * BlkSize + (Current.len - d.blk_len)
  BY <1>5, <1>7
<1>11. DiskWorks(d)
  BY <1>3, <1>4, <1>9, <1>10, DiskAtWork
<1>12. dev' = ReadChunk(d).d
  <2>1. CbwStruct(d) = Current
    BY <1>4, <1>7 DEF CbwStruct, Current
  <2>2. bot_scsi_cmd_process(d) = ReadChunk(d)
    BY <1>1, <1>3, <2>1 DEF bot_scsi_cmd_process, bot_scsi_read10
  <2>3. ReadChunk(d).ok
    BY <1>11 DEF ReadChunk, Reply
  <2>4. dev' = GoOn(d)
    BY <1>1 DEF bot_scsi_datain_handler
  <2> QED
    BY <2>2, <2>3, <2>4 DEF GoOn
<1>13. CbwGiven("data") /\ host.phase # "cbw"
  BY <1>3, <1>6, <1>9 DEF CbwGiven
<1>14. /\ ~d.tx.tc /\ d.tx.tog = tog.in /\ d.rx.sts = "nak" /\ ~d.rx.tc /\ d.rx.tog = dev.rx.tog
       /\ d.msc_state = "data_in"
  BY <1>1, <1>5, <1>6
<1> QED
  BY <1>2, <1>3, <1>4, <1>5, <1>7, <1>9, <1>10, <1>11, <1>12, <1>13, <1>14, ChunkSent

LEMMA LastSent ==
  ASSUME TypeInv, BaseInv, Tame(env), Sending, Received, dev.tx.tc, dev.tx.rest = <<>>,
         dev.msc_state # "data_in", EptInterrupt
  PROVE  Told' /\ Kept
<1>1. PICK d \in DevType :
        /\ dev' = bot_scsi_datain_handler(d)
        /\ d.rx = dev.rx /\ d.msc_state = dev.msc_state
        /\ SameCommand(dev, d) /\ SameData(dev, d) /\ SameBlocks(dev, d)
        /\ ~d.tx.tc /\ d.tx.tog = dev.tx.tog
  BY SentInterrupt
<1>2. UNCHANGED <<tog, env, host>>
  BY SentInterrupt
<1>3. /\ InCommand /\ Left = 0 /\ Len(host.got) \in Nat /\ Len(dev.tx.rest) = 0
      /\ Volume(Current) \in Nat
  BY SendingFacts, PacketFacts DEF Left
<1>4. /\ Current.len \in Nat /\ Current.in
      /\ dev.msc_state \in {"last_data", "send_data"}
      /\ ~(Current.op = "write") /\ Deserved(Current) = "pass" /\ SenseKept /\ Decoded
      /\ ~dev.rx.tc /\ dev.residue + Volume(Current) = Current.len + Left /\ AllDue(0, host.got)
  BY <1>3, AtHand DEF Sending
<1>5. /\ ~Had /\ host.phase = (IF Len(host.got) = Volume(Current) THEN "status" ELSE "data")
      /\ Len(host.got) + Len(dev.tx.rest) + Left = Volume(Current) /\ tog.in = dev.tx.tog
  BY DEF Received
<1>6. /\ Len(host.got) = Volume(Current) /\ dev.residue + Len(host.got) = Current.len
  BY <1>3, <1>4, <1>5
<1>7. dev' = bot_scsi_send_csw(d, "pass")
  BY <1>1, <1>4 DEF bot_scsi_datain_handler
<1>8. /\ dev' \in DevType /\ SameCommand(d, dev') /\ SameData(d, dev') /\ Rearmed(d, dev')
      /\ dev'.msc_state = "idle"
      /\ dev'.tx.sts = "valid" /\ dev'.tx.tog = d.tx.tog /\ dev'.tx.tc = d.tx.tc
      /\ dev'.tx.pkt = <<CswUnit(dev', "pass")>> /\ dev'.tx.rest = <<>>
  BY <1>7, SendCswEffect
<1>9. /\ dev'.disk = dev.disk /\ dev'.sense = dev.sense /\ dev'.residue = dev.residue
      /\ SameCommand(dev, dev')
  BY <1>1, <1>8 DEF SameData, SameCommand
<1>10. /\ Current' = Current /\ Deserved(Current)' = Deserved(Current) /\ SenseKept'
  BY <1>2, <1>4, <1>9, SameHost
<1>11. Decoded'
  BY <1>2, <1>4, <1>9 DEF Decoded, SameCommand
<1>12. dev'.rx.tog = dev.rx.tog /\ RxArmed'
  BY <1>1, <1>4, <1>8 DEF Rearmed, RxArmed, RxEmpty
<1>13. ToldPhase'
  BY <1>2, <1>5, <1>6, <1>12 DEF ToldPhase, Had
<1>14. AllDue(0, host.got)'
  BY <1>2, <1>4, <1>9, DueSame
<1>15. Done'
  BY <1>2, <1>4, <1>6, <1>9, <1>10, <1>14 DEF Done, Volume
<1>16. tog'.in = dev'.tx.tog /\ ~dev'.tx.tc
  BY <1>1, <1>2, <1>5, <1>8
<1>17. Kept
  BY <1>8, <1>9, <1>12 DEF Kept, SameCommand, BaseInv
<1> QED
  BY <1>8, <1>11, <1>12, <1>13, <1>15, <1>16, <1>17 DEF Told

LEMMA SendingInterrupt ==
  ASSUME TypeInv, BaseInv, Tame(env), Sending, EptInterrupt
  PROVE  (Sending' \/ Told') /\ Kept
<1>1. ~dev.rx.tc /\ (Offered \/ Received)
  BY DEF Sending
<1>2. dev.tx.tc
  BY <1>1 DEF EptInterrupt
<1>3. Received
  BY <1>1, <1>2 DEF Offered
<1> QED
  BY <1>2, <1>3, NextPacket, NextChunk, LastSent
-----------------------------------------------------------------------------
(* Data from the host: the next packet, the next chunk or the status.      *)
LEMMA DataConcat ==
  ASSUME NEW f \in Nat, NEW s \in Packet, NEW t \in Packet, DataUnits(f, s), DataUnits(f + Len(s), t)
  PROVE  s \o t \in Packet /\ Len(s \o t) = Len(s) + Len(t) /\ DataUnits(f, s \o t)
<1>1. s \in Seq(Unit) /\ t \in Seq(Unit) /\ Len(s) \in Nat /\ Len(t) \in Nat
  BY PacketFacts DEF Packet
<1>2. /\ s \o t \in Seq(Unit) /\ Len(s \o t) = Len(s) + Len(t)
      /\ \A i \in 1 .. Len(s) + Len(t) : (s \o t)[i] = IF i <= Len(s) THEN s[i] ELSE t[i - Len(s)]
  BY <1>1, ConcatProperties
<1>3. ASSUME NEW k \in 1 .. Len(s) + Len(t) PROVE (s \o t)[k] = Written(host.cmd, f + k)
  <2>1. CASE k <= Len(s)
    <3>1. k \in 1 .. Len(s)
      BY <1>1, <2>1
    <3> QED
      BY <1>2, <2>1, <3>1 DEF DataUnits
  <2>2. CASE ~(k <= Len(s))
    <3>1. k - Len(s) \in 1 .. Len(t) /\ f + Len(s) + (k - Len(s)) = f + k
      BY <1>1, <2>2
    <3>2. (s \o t)[k] = t[k - Len(s)]
      BY <1>2, <2>2
    <3>3. t[k - Len(s)] = Written(host.cmd, f + Len(s) + (k - Len(s)))
      BY <3>1 DEF DataUnits
    <3> QED
      BY <3>1, <3>2, <3>3
  <2> QED
    BY <2>1, <2>2
<1> QED
  BY <1>2, <1>3 DEF DataUnits, Packet

LEMMA WritingFacts ==
  ASSUME TypeInv, BaseInv, Tame(env), Writing
  PROVE  /\ InCommand /\ Current \in Commands /\ WellFormed(Current) /\ Moves(Current)
         /\ Current.len \in Nat /\ Current.len > 0 /\ Whole(Current.len)
         /\ Current.lba * BlkSize \in Nat /\ Current.lba * BlkSize + Current.len <= NBlk * BlkSize
         /\ ~Current.in /\ host.cmd \in 1 .. Len(Script)
         /\ dev \in DevType /\ dev.tx \in TxType /\ dev.rx \in RxType
         /\ dev.rx.buf \in Packet /\ dev.rx.pkt \in Packet
         /\ Len(dev.rx.buf) \in Nat /\ Len(dev.rx.pkt) \in Nat /\ dev.rx.room \in Nat
         /\ dev.blk_len \in Nat /\ dev.blk_len > 0 /\ dev.blk_len <= Current.len
         /\ Off \in Nat /\ Off + dev.blk_len = Current.len
         /\ Chunk(dev) \in Nat /\ Whole(Chunk(dev)) /\ Chunk(dev) <= dev.blk_len
         /\ ChunkFits(dev)
<1>1. InCommand
  BY DEF Writing, Receptive, Holding, GivenUpTo, InCommand
<1>2. /\ host.cmd \in 1 .. Len(Script) /\ Current \in Commands /\ WellFormed(Current)
      /\ Current.op = "write" /\ Legal(Current) /\ Moves(Current)
  BY <1>1, AtHand DEF Writing, Moves
<1>3. /\ Current.len \in Nat /\ Current.len > 0 /\ Whole(Current.len)
      /\ Current.lba * BlkSize \in Nat /\ Current.lba * BlkSize + Current.len <= NBlk * BlkSize
      /\ ~Current.in
  BY <1>2, LegalMoves
<1>4. /\ dev \in DevType /\ dev.tx \in TxType /\ dev.rx \in RxType
      /\ dev.rx.buf \in Packet /\ dev.rx.pkt \in Packet /\ dev.rx.room \in Nat
  BY DEF TypeInv, DevType, RxType
<1>5. /\ dev.blk_len \in 1 .. Current.len /\ Whole(dev.blk_len)
      /\ dev.blk_addr = Current.lba * BlkSize + Off /\ dev.residue = dev.blk_len
  BY DEF Writing
<1>6. /\ dev.blk_len \in Nat /\ dev.blk_len > 0 /\ dev.blk_len <= Current.len
      /\ Off \in Nat /\ Off + dev.blk_len = Current.len
  BY <1>3, <1>5 DEF Off
<1>7. Chunk(dev) \in Nat /\ Whole(Chunk(dev)) /\ Chunk(dev) <= dev.blk_len
  BY <1>5, <1>6, ChunkWhole
<1>8. ChunkFits(dev)
  <2> DEFINE lo == Current.lba * BlkSize
             hi == NBlk * BlkSize
             o  == Off
             b  == dev.blk_len
  <2>1. /\ lo \in Nat /\ hi \in Nat /\ o \in Nat /\ b \in Nat /\ o + b = Current.len
        /\ lo + Current.len <= hi /\ dev.blk_addr = lo + o
    BY <1>3, <1>5, <1>6, Sizes
  <2> HIDE DEF lo, hi, o, b
  <2>2. dev.blk_addr + b <= hi
    BY <2>1
  <2> QED
    BY <1>5, <1>6, <2>2 DEF ChunkFits, b, hi
<1> QED
  BY <1>1, <1>2, <1>3, <1>4, <1>6, <1>7, <1>8, PacketFacts

(* The device has the packet at the end of what it has received.           *)
LEMMA HeldPacket ==
  ASSUME TypeInv, BaseInv, Tame(env), Writing, EptInterrupt
  PROVE  /\ Holding /\ UNCHANGED <<tog, env, host>>
         /\ \E d \in DevType :
              /\ dev' = OutComplete(d) /\ d.conf
              /\ d.tx = dev.tx /\ d.msc_state = dev.msc_state
              /\ SameCommand(dev, d) /\ SameData(dev, d) /\ SameBlocks(dev, d)
              /\ ~d.rx.tc /\ d.rx.tog = dev.rx.tog /\ d.rx.room = dev.rx.room
              /\ Len(d.rx.pkt) = MaxPacket
              /\ d.rx.buf \in Packet /\ Len(d.rx.buf) = Len(dev.rx.buf) + MaxPacket
              /\ DataUnits(Off, d.rx.buf)
<1> DEFINE rx == RxServed(dev.rx)
           d  == [dev EXCEPT !.rx = rx]
           s  == dev.rx.buf
           t  == dev.rx.pkt
<1>1. Holding /\ ~dev.tx.tc
  BY DEF Writing, Receptive, EptInterrupt
<1>2. dev' = OutComplete(d) /\ UNCHANGED <<tog, env, host>>
  BY <1>1 DEF EptInterrupt
<1>3. /\ dev \in DevType /\ dev.rx \in RxType /\ s \in Packet /\ t \in Packet /\ Off \in Nat
  BY WritingFacts
<1>4. /\ rx \in RxType /\ ~rx.tc /\ rx.tog = dev.rx.tog /\ rx.pkt = t /\ rx.buf = s \o t
      /\ rx.room = dev.rx.room
  BY <1>3, ServedEffects
<1>5. /\ d \in DevType /\ d.rx = rx /\ d.tx = dev.tx /\ d.msc_state = dev.msc_state
      /\ SameCommand(dev, d) /\ SameData(dev, d) /\ SameBlocks(dev, d)
  BY <1>3, <1>4, DevEndpoint
<1>6. Len(t) = MaxPacket /\ DataUnits(Off + Len(s), t) /\ DataUnits(Off, s)
  BY <1>1 DEF Holding, Writing
<1>7. s \o t \in Packet /\ Len(s \o t) = Len(s) + MaxPacket /\ DataUnits(Off, s \o t)
  BY <1>3, <1>6, DataConcat
<1> HIDE DEF d, rx
<1>8. d.conf
  BY <1>5 DEF Writing, Decoded, SameCommand
<1> QED
  BY <1>1, <1>2, <1>4, <1>5, <1>6, <1>7, <1>8

LEMMA MoreOfChunk ==
  ASSUME TypeInv, BaseInv, Tame(env), Writing, EptInterrupt, dev.rx.room > 0
  PROVE  Writing' /\ Kept
<1> DEFINE n == Len(dev.rx.buf)
<1>1. PICK d \in DevType :
        /\ dev' = OutComplete(d) /\ d.conf
        /\ d.tx = dev.tx /\ d.msc_state = dev.msc_state
        /\ SameCommand(dev, d) /\ SameData(dev, d) /\ SameBlocks(dev, d)
        /\ ~d.rx.tc /\ d.rx.tog = dev.rx.tog /\ d.rx.room = dev.rx.room
        /\ Len(d.rx.pkt) = MaxPacket
        /\ d.rx.buf \in Packet /\ Len(d.rx.buf) = n + MaxPacket
        /\ DataUnits(Off, d.rx.buf)
  BY HeldPacket
<1>2. Holding /\ UNCHANGED <<tog, env, host>>
  BY HeldPacket
<1>3. /\ Off \in Nat /\ n \in Nat /\ dev.rx.room \in Nat /\ Chunk(dev) \in Nat /\ Whole(Chunk(dev))
      /\ n + MaxPacket + dev.rx.room = Chunk(dev) /\ Whole(n)
      /\ MaxPacket \in Nat /\ MaxPacket > 1 /\ d.rx \in RxType /\ Whole(MaxPacket)
  BY WritingFacts, Sizes, WholeSizes DEF Writing, DevType
<1> DEFINE rx == GoOnReceiving(d.rx, d.rx.room)
<1>4. dev' = [d EXCEPT !.rx = rx]
  <2>1. ~RxComplete(d.rx)
    BY <1>1, <1>3 DEF RxComplete
  <2> QED
    BY <1>1, <2>1 DEF OutComplete
<1>5. /\ rx \in RxType /\ rx.sts = "valid" /\ rx.tog = dev.rx.tog /\ ~rx.tc
      /\ rx.room = (IF dev.rx.room > MaxPacket THEN dev.rx.room - MaxPacket ELSE 0)
      /\ rx.buf = d.rx.buf
  <2>1. d.rx \in RxType /\ d.rx.room \in Nat
    BY <1>1, <1>3
  <2>2. /\ rx \in RxType /\ rx.buf = d.rx.buf
        /\ \A e \in {usbd_ept_recv(d.rx, d.rx.room), rx} :
             /\ e.sts = "valid" /\ e.tog = d.rx.tog /\ e.tc = d.rx.tc
             /\ e.room = IF d.rx.room > MaxPacket THEN d.rx.room - MaxPacket ELSE 0
    BY <2>1, RecvEffect
  <2> HIDE DEF rx
  <2> QED
    BY <1>1, <2>2
<1> HIDE DEF rx
<1>6. /\ dev' \in DevType /\ dev'.rx = rx /\ dev'.tx = d.tx /\ dev'.msc_state = d.msc_state
      /\ SameCommand(d, dev') /\ SameData(d, dev') /\ SameBlocks(d, dev')
  BY <1>4, <1>5, DevEndpoint
<1>7. /\ dev'.tx = dev.tx /\ dev'.msc_state = dev.msc_state
      /\ SameCommand(dev, dev') /\ SameData(dev, dev') /\ SameBlocks(dev, dev')
  BY <1>1, <1>6 DEF SameCommand, SameData, SameBlocks
<1>8. /\ Current' = Current /\ Works(Current)' = Works(Current) /\ SenseKept'
  BY <1>2, <1>7, SameHost DEF SameData, Writing
<1>9. Decoded'
  BY <1>2, <1>7 DEF Decoded, SameCommand, Writing
<1>10. Off' = Off /\ Chunk(dev)' = Chunk(dev)
  BY <1>7, <1>8 DEF Off, SameBlocks, Chunk
<1>11. OnMedium(Off)'
  <2>1. HasWritten(dev.disk, Off)
    BY MediumSame DEF Writing
  <2>2. HasWritten(dev'.disk, Off')
    BY <1>7, <1>10, <2>1 DEF SameData
  <2> QED
    BY <1>2, <2>2, MediumSame
<1> HIDE DEF n
<1>12. Whole(n + MaxPacket) /\ dev.rx.room >= MaxPacket
  <2>1. Whole(n + MaxPacket)
    BY <1>3, WholeSums
  <2>2. n + MaxPacket \in Nat /\ n + MaxPacket <= Chunk(dev) /\ Chunk(dev) - (n + MaxPacket) = dev.rx.room
    BY <1>3
  <2>3. Whole(dev.rx.room)
    BY <1>3, <2>1, <2>2, WholeSums
  <2> QED
    BY <1>3, <2>1, <2>3, WholeSums
<1>13. (n + MaxPacket) + MaxPacket + dev'.rx.room = Chunk(dev)
  BY <1>3, <1>5, <1>6, <1>12
<1>14. Len(dev'.rx.buf) = n + MaxPacket
  BY <1>1, <1>5, <1>6
<1>15. DataUnits(Off, dev.rx.buf)'
  BY <1>1, <1>2, <1>5, <1>6, <1>10 DEF DataUnits
<1>16. GivenUpTo(Off + Len(dev.rx.buf))'
  <2>1. GivenUpTo(Off + n + MaxPacket)
    BY <1>2 DEF Holding, n
  <2>2. Off + n + MaxPacket = Off' + Len(dev'.rx.buf)
    BY <1>3, <1>10, <1>14
  <2>3. Had' <=> Had
    BY <1>2, <1>5, <1>6 DEF Had
  <2> QED
    BY <1>2, <1>8, <2>1, <2>2, <2>3 DEF GivenUpTo
<1>17. Receptive'
  BY <1>5, <1>6, <1>16 DEF Receptive
<1>18. TxQuiet' /\ ~dev'.tx.tc
  BY <1>2, <1>7 DEF TxQuiet, Writing
<1>19. /\ Current'.op = "write" /\ Legal(Current') /\ dev'.msc_state = "data_out"
       /\ dev'.blk_len \in 1 .. Current'.len /\ Whole(dev'.blk_len)
       /\ Works(Current)' \/ (dev'.blk_len = Current'.len /\ dev'.blk_len <= BufLen)
       /\ dev'.blk_addr = Current'.lba * BlkSize + Off' /\ dev'.residue = dev'.blk_len
  BY <1>7, <1>8, <1>10 DEF Writing, SameBlocks, SameData
<1>20. Writing'
  BY <1>8, <1>9, <1>10, <1>11, <1>12, <1>13, <1>14, <1>15, <1>17, <1>18, <1>19 DEF Writing
<1> QED
  BY <1>5, <1>6, <1>7, <1>20 DEF Kept, SameCommand, SameData, BaseInv

(* A chunk is complete: it goes to the medium.                             *)
LEMMA ChunkHeld ==
  ASSUME TypeInv, BaseInv, Tame(env), Writing, EptInterrupt, dev.rx.room = 0
  PROVE  \E d \in DevType :
           /\ dev' = (IF WriteChunk(d).ok THEN WriteChunk(d).d
                      ELSE bot_scsi_send_csw(WriteChunk(d).d, "fail"))
           /\ d.tx = dev.tx /\ d.msc_state = dev.msc_state
           /\ SameCommand(dev, d) /\ SameData(dev, d) /\ SameBlocks(dev, d)
           /\ ~d.rx.tc /\ d.rx.tog = dev.rx.tog
           /\ Len(d.rx.buf) = Chunk(d) /\ Chunk(d) = Chunk(dev)
           /\ DataUnits(Off, d.rx.buf) /\ ChunkFits(d)
<1>1. PICK d \in DevType :
        /\ dev' = OutComplete(d) /\ d.conf
        /\ d.tx = dev.tx /\ d.msc_state = dev.msc_state
        /\ SameCommand(dev, d) /\ SameData(dev, d) /\ SameBlocks(dev, d)
        /\ ~d.rx.tc /\ d.rx.tog = dev.rx.tog /\ d.rx.room = dev.rx.room
        /\ Len(d.rx.pkt) = MaxPacket
        /\ d.rx.buf \in Packet /\ Len(d.rx.buf) = Len(dev.rx.buf) + MaxPacket
        /\ DataUnits(Off, d.rx.buf)
  BY HeldPacket
<1>2. /\ host.cmd \in 1 .. Len(Script) /\ ChunkFits(dev) /\ Current.op = "write"
      /\ dev.cbw = host.cmd /\ dev.msc_state = "data_out" /\ Len(dev.rx.buf) \in Nat
      /\ Len(dev.rx.buf) + MaxPacket + dev.rx.room = Chunk(dev)
  BY WritingFacts DEF Writing, Decoded
<1>3. CbwStruct(d) = Current
  BY <1>1, <1>2 DEF CbwStruct, Current, SameCommand
<1>4. bot_scsi_cmd_process(d) = WriteChunk(d)
  BY <1>1, <1>2, <1>3 DEF bot_scsi_cmd_process, bot_scsi_write10
<1>5. dev' = GoOn(d)
  <2>1. RxComplete(d.rx)
    BY <1>1 DEF RxComplete
  <2> QED
    BY <1>1, <1>2, <2>1 DEF OutComplete, bot_scsi_dataout_handler
<1>6. dev' = (IF WriteChunk(d).ok THEN WriteChunk(d).d
              ELSE bot_scsi_send_csw(WriteChunk(d).d, "fail"))
  BY <1>4, <1>5 DEF GoOn
<1>7. Chunk(d) = Chunk(dev) /\ ChunkFits(d)
  BY <1>1, <1>2 DEF SameBlocks, SameData, Chunk, ChunkFits
<1>8. Len(d.rx.buf) = Chunk(d)
  BY <1>1, <1>2, <1>7, Sizes
<1> QED
  BY <1>1, <1>6, <1>7, <1>8

(* What is on the medium when the chunk is.                                *)
LEMMA MediumAfter ==
  ASSUME TypeInv, BaseInv, Tame(env), Writing,
         NEW d \in DevType, SameData(dev, d), SameBlocks(dev, d), ChunkFits(d),
         Chunk(d) = Chunk(dev), Len(d.rx.buf) = Chunk(d), DataUnits(Off, d.rx.buf),
         NEW w \in DevType,
         \A a \in 1 .. NBlk * BlkSize :
           w.disk[a] = IF a \in d.blk_addr + 1 .. d.blk_addr + Chunk(d)
                       THEN d.rx.buf[a - d.blk_addr] ELSE d.disk[a]
  PROVE  HasWritten(w.disk, Off + Chunk(dev))
<1> DEFINE lo == Current.lba * BlkSize
           o  == Off
           C  == Chunk(dev)
           b  == d.rx.buf
<1>1. lo \in Nat /\ o \in Nat /\ C \in Nat
  BY WritingFacts
<1>2. d.blk_addr = lo + o /\ d.disk = dev.disk /\ HasWritten(dev.disk, o)
  BY MediumSame DEF Writing, SameBlocks, SameData
<1>3. ASSUME NEW k \in 1 .. C PROVE b[k] = Written(host.cmd, o + k)
  BY <1>3 DEF DataUnits
<1>4. ASSUME NEW a \in 1 .. NBlk * BlkSize
      PROVE  w.disk[a] = IF a \in lo + o + 1 .. lo + o + C THEN b[a - (lo + o)] ELSE dev.disk[a]
  BY <1>2
<1>5. ASSUME NEW a \in 1 .. NBlk * BlkSize
      PROVE  /\ a \in lo + 1 .. lo + o => dev.disk[a] = Written(host.cmd, a - lo)
             /\ a \notin lo + 1 .. lo + o => ~(dev.disk[a][1] = "out" /\ dev.disk[a][2] = host.cmd)
  BY <1>2 DEF HasWritten
<1>6. NBlk * BlkSize \in Nat
  BY Sizes
<1> SUFFICES ASSUME NEW a \in 1 .. NBlk * BlkSize
             PROVE  /\ a \in lo + 1 .. lo + (o + C) => w.disk[a] = Written(host.cmd, a - lo)
                    /\ a \notin lo + 1 .. lo + (o + C)
                         => ~(w.disk[a][1] = "out" /\ w.disk[a][2] = host.cmd)
  BY DEF HasWritten
<1> HIDE DEF lo, o, C, b
<1>7. a \in Nat
  BY <1>6
<1>8. CASE a \in lo + o + 1 .. lo + o + C
  <2>1. a - (lo + o) \in 1 .. C /\ o + (a - (lo + o)) = a - lo /\ a \in lo + 1 .. lo + (o + C)
    BY <1>1, <1>7, <1>8
  <2>2. w.disk[a] = b[a - (lo + o)]
    BY <1>4, <1>8
  <2>3. b[a - (lo + o)] = Written(host.cmd, o + (a - (lo + o)))
    BY <1>3, <2>1
  <2> QED
    BY <2>1, <2>2, <2>3
<1>9. CASE a \notin lo + o + 1 .. lo + o + C
  <2>1. a \in lo + 1 .. lo + (o + C) <=> a \in lo + 1 .. lo + o
    BY <1>1, <1>7, <1>9
  <2>2. w.disk[a] = dev.disk[a]
    BY <1>4, <1>9
  <2> QED
    BY <1>5, <2>1, <2>2
<1> QED
  BY <1>8, <1>9

(* What the host has given is the chunk, also when it does not know yet.   *)
LEMMA ChunkGiven ==
  ASSUME TypeInv, BaseInv, Tame(env), Writing, Holding, dev.rx.room = 0
  PROVE  GivenUpTo(Off + Chunk(dev))
<1> DEFINE n == Len(dev.rx.buf)
<1>1. n + MaxPacket + 0 = Chunk(dev) /\ n \in Nat /\ Off \in Nat /\ MaxPacket \in Nat
  BY WritingFacts, Sizes DEF Writing
<1>2. GivenUpTo(Off + n + MaxPacket)
  BY DEF Holding
<1> HIDE DEF n
<1>3. Off + n + MaxPacket = Off + Chunk(dev)
  BY <1>1
<1> QED
  BY <1>2, <1>3

(* A write changes cells that the command names, and to its data.          *)
Wrote ==
  /\ dev' \in DevType /\ dev'.bot_status = "idle" /\ dev'.rx.tog = dev.rx.tog
  /\ \A a \in 1 .. NBlk * BlkSize :
       \/ dev'.disk[a] = dev.disk[a]
       \/ /\ a \in Current.lba * BlkSize + 1 .. Current.lba * BlkSize + Current.len
          /\ dev'.disk[a] = Written(host.cmd, a - Current.lba * BlkSize)

LEMMA ChunkTaken ==
  ASSUME TypeInv, BaseInv, Tame(env), Writing, EptInterrupt, dev.rx.room = 0,
         NEW d \in DevType, dev' = WriteChunk(d).d, DiskWorks(d), WriteChunk(d).ok,
         d.tx = dev.tx, d.msc_state = dev.msc_state,
         SameCommand(dev, d), SameData(dev, d), SameBlocks(dev, d),
         ~d.rx.tc, d.rx.tog = dev.rx.tog,
         Len(d.rx.buf) = Chunk(d), Chunk(d) = Chunk(dev), DataUnits(Off, d.rx.buf), ChunkFits(d)
  PROVE  (Writing' \/ Told') /\ Wrote
<1> DEFINE C == Chunk(dev)
           lo == Current.lba * BlkSize
<1>1. Holding /\ UNCHANGED <<tog, env, host>>
  BY HeldPacket
<1>2. PICK w \in DevType :
        /\ WriteChunk(d) = Reply(IF w.blk_len = 0 THEN bot_scsi_send_csw(w, "pass")
                                 ELSE ReceiveChunk(w), <<>>)
        /\ SameCommand(d, w) /\ w.sense = d.sense /\ w.tx = d.tx /\ w.rx = d.rx
        /\ w.msc_state = d.msc_state
        /\ w.blk_addr = d.blk_addr + C /\ w.blk_len = d.blk_len - C
        /\ w.residue = d.residue - C
        /\ \A a \in 1 .. NBlk * BlkSize :
             w.disk[a] = IF a \in d.blk_addr + 1 .. d.blk_addr + Chunk(d)
                         THEN d.rx.buf[a - d.blk_addr] ELSE d.disk[a]
  BY WriteChunkEffect
<1>3. /\ Current \in Commands /\ WellFormed(Current) /\ Legal(Current) /\ Current.op = "write"
      /\ Moves(Current) /\ SenseKept /\ Decoded /\ ~Current.in
      /\ lo \in Nat /\ Current.len \in Nat /\ Current.len > 0
      /\ Off \in Nat /\ Off + dev.blk_len = Current.len
      /\ C \in Nat /\ Whole(C) /\ C <= dev.blk_len /\ dev.blk_len \in Nat
      /\ dev.blk_addr = lo + Off /\ dev.residue = dev.blk_len /\ Whole(dev.blk_len)
      /\ dev.msc_state = "data_out" /\ TxQuiet /\ ~dev.tx.tc
      /\ Works(Current) \/ (dev.blk_len = Current.len /\ dev.blk_len <= BufLen)
  BY WritingFacts DEF Writing
<1>4. /\ d.blk_addr = dev.blk_addr /\ d.blk_len = dev.blk_len /\ d.residue = dev.residue
      /\ d.sense = dev.sense /\ SameCommand(dev, w)
  BY <1>2 DEF SameBlocks, SameData, SameCommand
<1>5. /\ w.bot_status = "idle" /\ w.conf /\ w.cbw = host.cmd /\ w.tag = host.cmd /\ w.nbr = NBlk /\ w.sense = dev.sense
      /\ w.msc_state = "data_out" /\ w.tx = dev.tx
      /\ ~w.rx.tc /\ w.rx.tog = dev.rx.tog
  BY <1>2, <1>3, <1>4 DEF SameCommand, Decoded, BaseInv
<1>6. HasWritten(w.disk, Off + C)
  BY <1>2, MediumAfter
<1>7. GivenUpTo(Off + C)
  BY <1>1, ChunkGiven
<1>8. Works(Current)
  <2>1. /\ d.blk_len \in 1 .. Current.len /\ d.blk_addr = lo + (Current.len - d.blk_len)
    BY <1>3, <1>4 DEF Writing, Off
  <2> QED
    BY <1>3, <1>4, <2>1, DiskAtWork
<1>9. dev' = IF w.blk_len = 0 THEN bot_scsi_send_csw(w, "pass") ELSE ReceiveChunk(w)
  BY <1>2 DEF Reply
<1>10. /\ w.blk_len \in Nat /\ w.blk_len = dev.blk_len - C /\ w.residue = w.blk_len
       /\ Off + C = Current.len - w.blk_len /\ w.blk_len <= Current.len
       /\ w.blk_addr = lo + (Current.len - w.blk_len) /\ Whole(w.blk_len)
  <2>1. Whole(dev.blk_len - C)
    BY <1>3, WholeSums
  <2> DEFINE o == Off
             x == dev.blk_len
             l == Current.len
  <2>2. /\ o \in Nat /\ x \in Nat /\ l \in Nat /\ C \in Nat /\ lo \in Nat /\ o + x = l /\ C <= x
        /\ w.blk_len = x - C /\ w.residue = x - C /\ w.blk_addr = lo + o + C
    BY <1>2, <1>3, <1>4
  <2> HIDE DEF o, x, l, C, lo
  <2>3. /\ x - C \in Nat /\ o + C = l - (x - C) /\ x - C <= l /\ lo + o + C = lo + (l - (x - C))
    BY ONLY <2>2
  <2> QED
    BY <2>1, <2>2, <2>3 DEF o, x, l
<1>14. \A a \in 1 .. NBlk * BlkSize :
         \/ w.disk[a] = dev.disk[a]
         \/ /\ a \in lo + 1 .. lo + Current.len
            /\ w.disk[a] = Written(host.cmd, a - lo)
  <2> SUFFICES ASSUME NEW a \in 1 .. NBlk * BlkSize, w.disk[a] # dev.disk[a]
               PROVE  /\ a \in lo + 1 .. lo + Current.len
                      /\ w.disk[a] = Written(host.cmd, a - lo)
    OBVIOUS
  <2>1. a \in d.blk_addr + 1 .. d.blk_addr + C
    BY <1>2 DEF SameData
  <2>2. a \in lo + 1 .. lo + (Off + C) /\ a \in lo + 1 .. lo + Current.len
    <3> DEFINE o == Off
               x == dev.blk_len
               l == Current.len
    <3>1. /\ o \in Nat /\ x \in Nat /\ l \in Nat /\ C \in Nat /\ lo \in Nat /\ o + x = l /\ C <= x
          /\ a \in lo + o + 1 .. lo + o + C
      BY <1>3, <1>4, <2>1
    <3> HIDE DEF o, x, l, C, lo
    <3>2. a \in lo + 1 .. lo + (o + C) /\ a \in lo + 1 .. lo + l
      BY ONLY <3>1
    <3> QED
      BY <3>2 DEF o, l
  <2> QED
    BY <1>6, <2>2 DEF HasWritten
<1>11. w.tx.sts = "nak" /\ ~w.tx.tc /\ w.tx.tog = tog.in
  BY <1>3, <1>5 DEF TxQuiet
<1> HIDE DEF C, lo
<1>12. CASE w.blk_len # 0
  <2>1. dev' = ReceiveChunk(w) /\ w.blk_len \in 1 .. Current.len
    BY <1>9, <1>10, <1>12
  <2>2. HasWritten(w.disk, Current.len - w.blk_len) /\ GivenUpTo(Current.len - w.blk_len)
    BY <1>6, <1>7, <1>10
  <2>3. w.blk_addr = Current.lba * BlkSize + (Current.len - w.blk_len)
    BY <1>10 DEF lo
  <2>4. /\ Writing' /\ dev' \in DevType /\ dev'.bot_status = "idle" /\ dev'.disk = w.disk
        /\ dev'.rx.tog = dev.rx.tog
    BY <1>1, <1>3, <1>5, <1>8, <1>10, <1>11, <2>1, <2>2, <2>3, ToReceptive
  <2> QED
    BY <1>14, <2>4 DEF Wrote, lo
<1>13. CASE w.blk_len = 0
  <2>1. dev' = bot_scsi_send_csw(w, "pass") /\ Off + C = Current.len
    BY <1>3, <1>9, <1>10, <1>13
  <2>2. /\ dev' \in DevType /\ SameCommand(w, dev') /\ SameData(w, dev') /\ Rearmed(w, dev')
        /\ dev'.msc_state = "idle"
        /\ dev'.tx.sts = "valid" /\ dev'.tx.tog = w.tx.tog /\ dev'.tx.tc = w.tx.tc
        /\ dev'.tx.pkt = <<CswUnit(dev', "pass")>> /\ dev'.tx.rest = <<>>
    BY <2>1, SendCswEffect
  <2>3. /\ dev'.disk = w.disk /\ dev'.sense = dev.sense /\ dev'.residue = 0
    BY <1>5, <1>10, <1>13, <2>2 DEF SameData
  <2>4. /\ Current' = Current /\ Deserved(Current)' = Deserved(Current) /\ SenseKept'
        /\ Deserved(Current) = "pass"
    BY <1>1, <1>3, <1>8, <2>3, SameHost DEF Deserved
  <2>5. Decoded'
    BY <1>1, <1>5, <2>2 DEF Decoded, SameCommand
  <2>6. dev'.rx.tog = dev.rx.tog /\ RxArmed'
    BY <1>5, <2>2 DEF Rearmed, RxArmed, RxEmpty
  <2>7. ToldPhase'
    <3>1. GivenUpTo(Current.len)
      BY <1>7, <2>1
    <3>2. Had' <=> Had
      BY <1>1, <2>6 DEF Had
    <3> QED
      BY <1>1, <1>3, <2>4, <3>1, <3>2 DEF GivenUpTo, ToldPhase
  <2>8. OnMedium(Current.len)'
    BY <1>1, <1>6, <2>1, <2>3, <2>4, MediumSame
  <2>9. Done'
    BY <1>3, <2>3, <2>4, <2>8 DEF Done
  <2>10. tog'.in = dev'.tx.tog /\ ~dev'.tx.tc
    BY <1>1, <1>11, <2>2
  <2>11. Told'
    BY <2>2, <2>5, <2>6, <2>7, <2>9, <2>10 DEF Told
  <2>12. dev'.bot_status = "idle"
    BY <1>5, <2>2 DEF SameCommand
  <2> QED
    BY <1>14, <2>2, <2>3, <2>6, <2>11, <2>12 DEF Wrote, lo
<1> QED
  BY <1>12, <1>13

LEMMA ChunkRefused ==
  ASSUME TypeInv, BaseInv, Tame(env), Writing, EptInterrupt, dev.rx.room = 0,
         NEW d \in DevType, dev' = bot_scsi_send_csw(WriteChunk(d).d, "fail"), ~DiskWorks(d),
         d.tx = dev.tx, d.msc_state = dev.msc_state,
         SameCommand(dev, d), SameData(dev, d), SameBlocks(dev, d),
         ~d.rx.tc, d.rx.tog = dev.rx.tog, ChunkFits(d)
  PROVE  Told' /\ Kept
<1> DEFINE w == [d EXCEPT !.sense = "hardware"]
           lo == Current.lba * BlkSize
<1>1. Holding /\ UNCHANGED <<tog, env, host>>
  BY HeldPacket
<1>2. /\ Current \in Commands /\ WellFormed(Current) /\ Legal(Current) /\ Current.op = "write"
      /\ Moves(Current) /\ Decoded /\ ~Current.in
      /\ lo \in Nat /\ Current.len \in Nat /\ Current.len > 0
      /\ Off \in Nat /\ Off + dev.blk_len = Current.len /\ dev.blk_len \in Nat
      /\ dev.blk_addr = lo + Off /\ TxQuiet /\ ~dev.tx.tc /\ dev.blk_len \in 1 .. Current.len
      /\ Works(Current) \/ (dev.blk_len = Current.len /\ dev.blk_len <= BufLen)
      /\ OnMedium(Off) /\ NBlk * BlkSize \in Nat
  BY WritingFacts, Sizes DEF Writing
<1>3. d.blk_len = dev.blk_len /\ d.blk_addr = dev.blk_addr /\ d.disk = dev.disk
  BY DEF SameBlocks, SameData
<1>4. WriteChunk(d).d = w
  BY DEF WriteChunk, Refuse
<1>5. w \in DevType
  BY DEF DevType
<1>6. /\ w.sense = "hardware" /\ w.disk = dev.disk /\ w.tx = dev.tx /\ w.rx = d.rx
      /\ SameCommand(dev, w)
  BY <1>3 DEF DevType, SameCommand
<1> HIDE DEF w
<1>7. /\ dev' \in DevType /\ SameCommand(w, dev') /\ SameData(w, dev') /\ Rearmed(w, dev')
      /\ dev'.msc_state = "idle"
      /\ dev'.tx.sts = "valid" /\ dev'.tx.tog = w.tx.tog /\ dev'.tx.tc = w.tx.tc
      /\ dev'.tx.pkt = <<CswUnit(dev', "fail")>> /\ dev'.tx.rest = <<>>
  BY <1>4, <1>5, SendCswEffect
<1>8. ~Works(Current)
  <2>1. d.blk_addr = lo + (Current.len - d.blk_len) /\ d.blk_len \in 1 .. Current.len
    BY <1>2, <1>3 DEF Off
  <2> QED
    BY <1>2, <2>1, DiskAtWork
<1>9. dev.blk_len = Current.len /\ dev.blk_len <= BufLen /\ Off = 0
  <2>1. dev.blk_len = Current.len /\ dev.blk_len <= BufLen
    BY <1>2, <1>8
  <2> QED
    BY <1>2, <2>1
<1>10. Untouched
  <2>1. lo + 0 = lo /\ \A a \in 1 .. NBlk * BlkSize : a \notin lo + 1 .. lo + 0
    <3> HIDE DEF lo
    <3> QED
      BY <1>2
  <2> QED
    BY <1>2, <1>9, <2>1 DEF OnMedium, Untouched
<1>11. /\ dev'.disk = dev.disk /\ dev'.sense = "hardware" /\ SameCommand(dev, dev')
  BY <1>6, <1>7 DEF SameData, SameCommand
<1>12. /\ Current' = Current /\ Deserved(Current)' = Deserved(Current)
       /\ Deserved(Current) = "fail" /\ Reason(Current) = "hardware"
  BY <1>1, <1>2, <1>8, SameHost DEF Deserved, Reason
<1>13. Untouched'
  BY <1>1, <1>10, <1>11, SameDisk
<1>14. Failed'
  BY <1>11, <1>12, <1>13 DEF Failed
<1>15. Decoded'
  BY <1>1, <1>2, <1>11 DEF Decoded, SameCommand
<1>16. dev'.rx.tog = dev.rx.tog /\ RxArmed'
  BY <1>6, <1>7 DEF Rearmed, RxArmed, RxEmpty
<1>17. ToldPhase'
  <2>1. Chunk(dev) = Current.len
    <3>1. dev.blk_len \in Nat /\ BufLen \in Nat
      BY <1>2, Sizes
    <3> QED
      BY <1>9, <3>1 DEF Chunk, Least
  <2>2. GivenUpTo(Current.len)
    <3>1. Off + Chunk(dev) = Current.len
      BY <1>2, <1>9, <2>1
    <3> QED
      BY <1>1, <3>1, ChunkGiven
  <2>3. Had' <=> Had
    BY <1>1, <1>16 DEF Had
  <2> QED
    BY <1>1, <1>2, <1>12, <2>2, <2>3 DEF GivenUpTo, ToldPhase
<1>18. tog'.in = dev'.tx.tog /\ ~dev'.tx.tc
  BY <1>1, <1>2, <1>6, <1>7 DEF TxQuiet
<1>19. Kept
  BY <1>7, <1>11, <1>16 DEF Kept, SameCommand, BaseInv
<1> QED
  BY <1>7, <1>14, <1>15, <1>16, <1>17, <1>18, <1>19 DEF Told

LEMMA WritingInterrupt ==
  ASSUME TypeInv, BaseInv, Tame(env), Writing, EptInterrupt
  PROVE  (Writing' \/ Told') /\ (Kept \/ Wrote)
<1>1. dev.rx.room \in Nat
  BY WritingFacts
<1>2. CASE dev.rx.room > 0
  BY <1>2, MoreOfChunk
<1>3. CASE dev.rx.room = 0
  <2>1. PICK d \in DevType :
          /\ dev' = (IF WriteChunk(d).ok THEN WriteChunk(d).d
                     ELSE bot_scsi_send_csw(WriteChunk(d).d, "fail"))
          /\ d.tx = dev.tx /\ d.msc_state = dev.msc_state
          /\ SameCommand(dev, d) /\ SameData(dev, d) /\ SameBlocks(dev, d)
          /\ ~d.rx.tc /\ d.rx.tog = dev.rx.tog
          /\ Len(d.rx.buf) = Chunk(d) /\ Chunk(d) = Chunk(dev)
          /\ DataUnits(Off, d.rx.buf) /\ ChunkFits(d)
    BY <1>3, ChunkHeld
  <2>2. WriteChunk(d).ok <=> DiskWorks(d)
    BY DEF WriteChunk, Reply, Refuse
  <2>3. CASE DiskWorks(d)
    BY <1>3, <2>1, <2>2, <2>3, ChunkTaken
  <2>4. CASE ~DiskWorks(d)
    BY <1>3, <2>1, <2>2, <2>4, ChunkRefused
  <2> QED
    BY <2>3, <2>4
<1> QED
  BY <1>1, <1>2, <1>3

(* The interrupt leads from stage to stage.                                *)
LEMMA InterruptStage ==
  ASSUME TypeInv, BaseInv, Tame(env), Stage, EptInterrupt
  PROVE  /\ Stage' /\ (Decoded' \/ SameCommand(dev, dev'))
         /\ Kept \/ (Writing /\ Wrote)
<1> DEFINE After == Sending' \/ Told' \/ Writing' \/ Refused'
<1>1. CASE Unplugged
  BY <1>1 DEF Unplugged, EptInterrupt
<1>2. ASSUME Between \/ Asking \/ Waiting, dev.tx.tc PROVE Stage' /\ SameCommand(dev, dev') /\ Kept
  <2>1. dev.bot_status = "idle"
    BY DEF BaseInv
  <2> QED
    BY <1>2, <2>1, IdleStages DEF Stage, Kept, SameCommand
<1>3. Between \/ Asking => dev.tx.tc
  BY DEF Between, Asking, RxArmed, EptInterrupt
<1>4. CASE Between \/ Asking
  BY <1>2, <1>3, <1>4
<1>5. ASSUME Waiting, ~dev.tx.tc PROVE After /\ Kept
  BY <1>5, DecodeStage
<1>6. ~Refused /\ ~Cleared /\ ~Told
  BY DEF Refused, Cleared, Refusal, Told, RxArmed, EptInterrupt
<1>7. ASSUME Sending PROVE After /\ Kept
  BY <1>7, SendingInterrupt
<1>8. ASSUME Writing PROVE After /\ (Kept \/ Wrote)
  BY <1>8, WritingInterrupt
<1>9. ASSUME After PROVE Stage' /\ Decoded'
  BY <1>9 DEF Stage, Sending, Told, Writing, Refused, Refusal
<1> HIDE DEF After
<1> QED
  BY <1>1, <1>2, <1>4, <1>5, <1>6, <1>7, <1>8, <1>9 DEF Stage

-----------------------------------------------------------------------------
(* What passes on the wire, and what the host makes of it.                 *)
LEMMA EndpointEffects ==
  /\ \A rx \in RxType, pkt \in Packet :
       /\ Filled(rx, pkt) \in RxType /\ Filled(rx, pkt).sts = "nak" /\ Filled(rx, pkt).tc = TRUE
       /\ Filled(rx, pkt).tog = 1 - rx.tog /\ Filled(rx, pkt).pkt = pkt
       /\ Filled(rx, pkt).buf = rx.buf /\ Filled(rx, pkt).room = rx.room /\ Filled(rx, pkt).len = rx.len
  /\ \A tx \in TxType :
       /\ Taken(tx) \in TxType /\ Taken(tx).sts = "nak" /\ Taken(tx).tc = TRUE
       /\ Taken(tx).tog = 1 - tx.tog /\ Taken(tx).pkt = tx.pkt /\ Taken(tx).rest = tx.rest
  /\ \A tx \in TxType :
       /\ SwitchedOff(tx) \in TxType /\ SwitchedOff(tx).sts = "disable" /\ SwitchedOff(tx).tc = FALSE
       /\ SwitchedOff(tx).tog = 0
  /\ \A rx \in RxType :
       /\ SwitchedOff(rx) \in RxType /\ SwitchedOff(rx).sts = "disable" /\ SwitchedOff(rx).tc = FALSE
       /\ SwitchedOff(rx).tog = 0
<1>1. ASSUME NEW rx \in RxType, NEW pkt \in Packet
      PROVE  /\ Filled(rx, pkt) \in RxType /\ Filled(rx, pkt).sts = "nak" /\ Filled(rx, pkt).tc = TRUE
             /\ Filled(rx, pkt).tog = 1 - rx.tog /\ Filled(rx, pkt).pkt = pkt
             /\ Filled(rx, pkt).buf = rx.buf /\ Filled(rx, pkt).room = rx.room
             /\ Filled(rx, pkt).len = rx.len
  <2>1. 1 - rx.tog \in {0, 1}
    BY DEF RxType
  <2>2. Filled(rx, pkt) \in RxType
    BY <2>1 DEF Filled, RxType, Statuses
  <2> QED
    BY <2>2 DEF Filled, RxType
<1>2. ASSUME NEW tx \in TxType
      PROVE  /\ Taken(tx) \in TxType /\ Taken(tx).sts = "nak" /\ Taken(tx).tc = TRUE
             /\ Taken(tx).tog = 1 - tx.tog /\ Taken(tx).pkt = tx.pkt /\ Taken(tx).rest = tx.rest
  <2>1. 1 - tx.tog \in {0, 1}
    BY DEF TxType
  <2>2. Taken(tx) \in TxType
    BY <2>1 DEF Taken, TxType, Statuses
  <2> QED
    BY <2>2 DEF Taken, TxType
<1>3. ASSUME NEW tx \in TxType
      PROVE  /\ SwitchedOff(tx) \in TxType /\ SwitchedOff(tx).sts = "disable"
             /\ SwitchedOff(tx).tc = FALSE /\ SwitchedOff(tx).tog = 0
  BY DEF SwitchedOff, TxType, Statuses
<1>4. ASSUME NEW rx \in RxType
      PROVE  /\ SwitchedOff(rx) \in RxType /\ SwitchedOff(rx).sts = "disable"
             /\ SwitchedOff(rx).tc = FALSE /\ SwitchedOff(rx).tog = 0
  BY DEF SwitchedOff, RxType, Statuses
<1> QED
  BY <1>1, <1>2, <1>3, <1>4

SameDevice == SameCommand(dev, dev') /\ SameData(dev, dev') /\ SameBlocks(dev, dev')
                /\ dev'.msc_state = dev.msc_state

(* The device takes a packet.                                              *)
LEMMA GiveEffect ==
  ASSUME TypeInv, NEW pkt \in Packet, NEW lost \in BOOLEAN, ~Had, GivePacket(pkt, lost)
  PROVE  /\ dev' \in DevType /\ SameDevice /\ dev'.tx = dev.tx
         /\ dev.rx.sts = "valid" /\ dev'.rx.sts = "nak" /\ dev'.rx.tc /\ dev'.rx.pkt = pkt
         /\ dev'.rx.buf = dev.rx.buf /\ dev'.rx.room = dev.rx.room /\ dev'.rx.len = dev.rx.len
         /\ tog' \in [{"in", "out"} -> {0, 1}] /\ tog'.in = tog.in /\ (Had' <=> lost)
<1>1. /\ dev \in DevType /\ dev.rx \in RxType /\ tog \in [{"in", "out"} -> {0, 1}]
  BY DEF TypeInv, DevType
<1>2. dev' = [dev EXCEPT !.rx = Filled(dev.rx, pkt)] /\ dev.rx.sts = "valid"
  BY DEF GivePacket, Hears
<1>3. /\ Filled(dev.rx, pkt) \in RxType /\ Filled(dev.rx, pkt).sts = "nak" /\ Filled(dev.rx, pkt).tc = TRUE
      /\ Filled(dev.rx, pkt).tog = 1 - dev.rx.tog /\ Filled(dev.rx, pkt).pkt = pkt
      /\ Filled(dev.rx, pkt).buf = dev.rx.buf /\ Filled(dev.rx, pkt).room = dev.rx.room
      /\ Filled(dev.rx, pkt).len = dev.rx.len
  BY <1>1, EndpointEffects
<1>4. /\ dev' \in DevType /\ dev'.rx = Filled(dev.rx, pkt) /\ dev'.tx = dev.tx /\ SameDevice
  BY <1>1, <1>2, <1>3, DevEndpoint DEF SameDevice
<1>5. dev.rx.tog \in {0, 1} /\ tog.out \in {0, 1} /\ tog.out = dev.rx.tog
  BY <1>1 DEF RxType, Had
<1>6. /\ tog' \in [{"in", "out"} -> {0, 1}] /\ tog'.in = tog.in
      /\ tog'.out = IF lost THEN tog.out ELSE 1 - tog.out
  BY <1>1, <1>5 DEF GivePacket
<1>7. Had' <=> lost
  BY <1>3, <1>4, <1>5, <1>6 DEF Had
<1> QED
  BY <1>2, <1>3, <1>4, <1>6, <1>7

(* The device has had the packet: it is acknowledged and dropped.          *)
LEMMA AgainEffect ==
  ASSUME TypeInv, NEW pkt, NEW lost \in BOOLEAN, Had, GivePacket(pkt, lost)
  PROVE  /\ dev' = dev /\ tog' \in [{"in", "out"} -> {0, 1}] /\ tog'.in = tog.in /\ (Had' <=> lost)
<1>1. /\ dev \in DevType /\ dev.rx \in RxType /\ tog \in [{"in", "out"} -> {0, 1}]
  BY DEF TypeInv, DevType
<1>2. dev.rx.tog \in {0, 1} /\ tog.out \in {0, 1} /\ tog.out # dev.rx.tog
  BY <1>1 DEF RxType, Had
<1>3. /\ tog' \in [{"in", "out"} -> {0, 1}] /\ tog'.in = tog.in
      /\ tog'.out = IF lost THEN tog.out ELSE 1 - tog.out
  BY <1>1, <1>2 DEF GivePacket
<1>4. dev' = dev
  BY DEF GivePacket
<1> QED
  BY <1>2, <1>3, <1>4 DEF Had

(* The host polls the IN endpoint.                                         *)
LEMMA TakeEffect ==
  ASSUME TypeInv, NEW lost \in BOOLEAN, TakePacket(lost)
  PROVE  /\ dev' \in DevType /\ SameDevice /\ dev'.rx = dev.rx
         /\ dev.tx.sts = "valid" /\ dev'.tx.pkt = dev.tx.pkt /\ dev'.tx.rest = dev.tx.rest
         /\ lost => dev' = dev
         /\ ~lost => dev'.tx.sts = "nak" /\ dev'.tx.tc /\ tog'.in = dev'.tx.tog
         /\ tog' \in [{"in", "out"} -> {0, 1}] /\ tog'.out = tog.out
         /\ tog'.in # dev.tx.tog
<1>1. /\ dev \in DevType /\ dev.tx \in TxType /\ tog \in [{"in", "out"} -> {0, 1}]
  BY DEF TypeInv, DevType
<1>2. dev.tx.sts = "valid" /\ dev' = IF lost THEN dev ELSE [dev EXCEPT !.tx = Taken(dev.tx)]
  BY DEF TakePacket
<1>3. /\ Taken(dev.tx) \in TxType /\ Taken(dev.tx).sts = "nak" /\ Taken(dev.tx).tc = TRUE
      /\ Taken(dev.tx).tog = 1 - dev.tx.tog
      /\ Taken(dev.tx).pkt = dev.tx.pkt /\ Taken(dev.tx).rest = dev.tx.rest
  BY <1>1, EndpointEffects
<1>4. dev.tx.tog \in {0, 1} /\ tog.in \in {0, 1}
  BY <1>1 DEF TxType
<1>5. /\ tog' \in [{"in", "out"} -> {0, 1}] /\ tog'.out = tog.out
      /\ tog'.in = IF tog.in = dev.tx.tog THEN 1 - tog.in ELSE tog.in
  BY <1>1, <1>2, <1>4 DEF TakePacket, Takes
<1>6. tog'.in # dev.tx.tog /\ tog'.in = 1 - dev.tx.tog
  BY <1>4, <1>5
<1>7. CASE lost
  BY <1>1, <1>2, <1>5, <1>6, <1>7 DEF SameDevice, SameCommand, SameData, SameBlocks
<1>8. CASE ~lost
  <2>1. /\ dev' \in DevType /\ dev'.tx = Taken(dev.tx) /\ dev'.rx = dev.rx /\ SameDevice
    BY <1>1, <1>2, <1>3, <1>8, DevEndpoint DEF SameDevice
  <2> QED
    BY <1>2, <1>3, <1>5, <1>6, <1>8, <2>1
<1> QED
  BY <1>7, <1>8

(* What does not change as long as the host is in the command.             *)
LEMMA SameScript ==
  ASSUME env' = env, host'.cmd = host.cmd
  PROVE  /\ Current' = Current /\ Len(Script)' = Len(Script) /\ DataOrStatus' = DataOrStatus
         /\ \A i : Command(i)' = Command(i)
         /\ Deserved(Current)' = Deserved(Current) /\ Works(Current)' = Works(Current)
         /\ Volume(Current)' = Volume(Current) /\ (HasDataOut' <=> HasDataOut)
         /\ Reason(Current)' = Reason(Current) /\ CbwUnit(host.cmd)' = CbwUnit(host.cmd)
         /\ (host'.answers = host.answers /\ dev'.sense = dev.sense /\ SenseKept => SenseKept')
<1>1. /\ Current' = Current /\ Len(Script)' = Len(Script) /\ \A i : Command(i)' = Command(i)
  BY DEF Current, Command, Script
<1>2. Deserved(Current)' = Deserved(Current) /\ Works(Current)' = Works(Current)
  BY <1>1 DEF Deserved, Works
<1>3. /\ DataOrStatus' = DataOrStatus /\ (HasDataOut' <=> HasDataOut)
      /\ Volume(Current)' = Volume(Current)
      /\ Reason(Current)' = Reason(Current) /\ CbwUnit(host.cmd)' = CbwUnit(host.cmd)
  BY <1>1 DEF DataOrStatus, HasDataOut, Volume, Reason, CbwUnit
<1>4. host'.answers = host.answers /\ dev'.sense = dev.sense /\ SenseKept => SenseKept'
  BY <1>1 DEF SenseKept, Answers
<1> QED
  BY <1>1, <1>2, <1>3, <1>4

LEMMA SameInCommand ==
  ASSUME env' = env, host'.cmd = host.cmd, host'.answers = host.answers, SameDevice
  PROVE  /\ Decoded => Decoded'
         /\ SenseKept => SenseKept'
         /\ Untouched => Untouched'
         /\ Failed => Failed'
         /\ Left' = Left /\ Off' = Off /\ Chunk(dev)' = Chunk(dev)
         /\ \A n : OnMedium(n) => OnMedium(n)'
         /\ \A f, s : DataUnits(f, s) => DataUnits(f, s)'
         /\ \A f, s : AllDue(f, s) => AllDue(f, s)'
<1>1. /\ Current' = Current /\ \A i : Command(i)' = Command(i)
      /\ Deserved(Current)' = Deserved(Current) /\ Reason(Current)' = Reason(Current)
      /\ dev'.sense = dev.sense /\ dev'.disk = dev.disk
  BY SameScript DEF SameDevice, SameData
<1>2. Decoded => Decoded'
  BY DEF Decoded, SameDevice, SameCommand
<1>3. SenseKept => SenseKept'
  BY <1>1, SameScript
<1>4. Untouched => Untouched'
  BY <1>1, SameDisk
<1>5. Failed => Failed'
  BY <1>1, <1>4 DEF Failed
<1>6. Left' = Left /\ Off' = Off /\ Chunk(dev)' = Chunk(dev)
  BY <1>1 DEF Left, Off, Chunk, SameDevice, SameBlocks
<1>7. \A n : OnMedium(n) => OnMedium(n)'
  BY <1>1 DEF OnMedium, WrittenIn
<1>8. \A f, s : DataUnits(f, s) => DataUnits(f, s)'
  BY DEF DataUnits
<1>9. \A f, s : AllDue(f, s) => AllDue(f, s)'
  BY <1>1 DEF AllDue, Due
<1> QED
  BY <1>2, <1>3, <1>4, <1>5, <1>6, <1>7, <1>8, <1>9

(* A step within a command: it answers nothing and writes nothing.         *)
InStep ==
  /\ dev' \in DevType /\ SameCommand(dev, dev') /\ dev'.disk = dev.disk
  /\ tog' \in [{"in", "out"} -> {0, 1}] /\ env' = env
  /\ host' \in HostType /\ host'.cmd = host.cmd /\ host'.answers = host.answers
  /\ InCommand /\ InCommand'
  /\ Had' => Had \/ env.losses > 0

(* The CBW is given, or given again.                                       *)
LEMMA GiveCbwHost ==
  ASSUME TypeInv, NEW lost \in BOOLEAN, GiveCbw(lost)
  PROVE  /\ host.phase = "cbw" /\ GivePacket(<<CbwUnit(host.cmd)>>, lost) /\ env' = env
         /\ <<CbwUnit(host.cmd)>> \in Packet
         /\ lost => env.losses > 0
         /\ host' \in HostType /\ host'.phase = IF lost THEN "cbw" ELSE DataOrStatus
         /\ host'.cmd = host.cmd /\ host'.got = host.got /\ host'.sent = host.sent
         /\ host'.stalls = host.stalls /\ host'.answers = host.answers
         /\ InCommand /\ InCommand'
<1>1. host \in HostType /\ host.cmd \in Nat /\ host.lost \in Nat /\ env.losses \in Nat
  BY EnvFacts DEF TypeInv, HostType
<1>2. /\ host.phase = "cbw" /\ GivePacket(<<CbwUnit(host.cmd)>>, lost) /\ env' = env /\ MayLose(lost)
      /\ host' = Lose(IF lost THEN host ELSE [host EXCEPT !.phase = DataOrStatus], lost)
  BY DEF GiveCbw, Enter, DataOrStatus
<1>3. DataOrStatus \in {"data", "status"}
  BY DEF DataOrStatus
<1>4. lost => env.losses > 0
  BY <1>1, <1>2 DEF MayLose
<1>5. <<CbwUnit(host.cmd)>> \in Packet
  BY <1>1, UnitTypes, PacketFacts
<1>6. /\ host' \in HostType /\ host'.phase = (IF lost THEN "cbw" ELSE DataOrStatus)
      /\ host'.cmd = host.cmd /\ host'.got = host.got /\ host'.sent = host.sent
      /\ host'.stalls = host.stalls /\ host'.answers = host.answers
  <2>1. CASE lost
    <3>1. host' = [host EXCEPT !.lost = host.lost + 1]
      BY <1>2, <2>1 DEF Lose
    <3>2. host' \in HostType
      BY <1>1, <3>1 DEF HostType
    <3> QED
      BY <1>2, <2>1, <3>1, <3>2 DEF HostType
  <2>2. CASE ~lost
    <3>1. host' = [host EXCEPT !.phase = DataOrStatus]
      BY <1>2, <2>2 DEF Lose
    <3>2. host' \in HostType
      BY <1>1, <1>3, <3>1 DEF HostType, Phases
    <3> QED
      BY <1>1, <2>2, <3>1, <3>2 DEF HostType
  <2> QED
    BY <2>1, <2>2
<1>7. InCommand /\ InCommand'
  BY <1>2, <1>3, <1>6 DEF InCommand
<1> QED
  BY <1>2, <1>4, <1>5, <1>6, <1>7

LEMMA FirstCbw ==
  ASSUME TypeInv, BaseInv, Tame(env), Asking, NEW lost \in BOOLEAN, GiveCbw(lost)
  PROVE  Waiting' /\ InStep
<1> DEFINE pkt == <<CbwUnit(host.cmd)>>
<1>1. /\ host.phase = "cbw" /\ GivePacket(pkt, lost) /\ env' = env
      /\ pkt \in Packet /\ (lost => env.losses > 0)
      /\ host' \in HostType /\ host'.phase = (IF lost THEN "cbw" ELSE DataOrStatus)
      /\ host'.cmd = host.cmd /\ host'.got = host.got /\ host'.sent = host.sent
      /\ host'.stalls = host.stalls /\ host'.answers = host.answers
      /\ InCommand /\ InCommand'
  BY GiveCbwHost
<1>2. ~Had /\ Fresh /\ Ready /\ RxArmed /\ Untouched
  BY DEF Asking
<1>3. /\ dev' \in DevType /\ SameDevice /\ dev'.tx = dev.tx
      /\ dev'.rx.sts = "nak" /\ dev'.rx.tc /\ dev'.rx.pkt = pkt
      /\ dev'.rx.buf = dev.rx.buf /\ dev'.rx.room = dev.rx.room /\ dev'.rx.len = dev.rx.len
      /\ tog' \in [{"in", "out"} -> {0, 1}] /\ tog'.in = tog.in /\ (Had' <=> lost)
  BY <1>1, <1>2, GiveEffect
<1>4. SenseKept' /\ Untouched'
  BY <1>1, <1>2, <1>3, SameInCommand DEF Ready
<1>5. DataOrStatus' = DataOrStatus /\ CbwUnit(host.cmd)' = CbwUnit(host.cmd)
  BY <1>1, SameScript
<1>6. CbwGiven(DataOrStatus)'
  BY <1>1, <1>3, <1>5 DEF CbwGiven
<1>7. dev'.conf /\ dev'.msc_state = "idle" /\ TxQuiet' /\ RxEmpty' /\ Fresh'
  BY <1>1, <1>2, <1>3 DEF Ready, SameDevice, SameCommand, TxQuiet, RxEmpty, Fresh
<1>8. dev'.tx.tc => dev'.tx.rest = <<>>
  BY <1>2, <1>3 DEF Ready
<1>9. Ready'
  BY <1>4, <1>7, <1>8 DEF Ready
<1>10. Waiting'
  BY <1>3, <1>4, <1>5, <1>6, <1>7, <1>9 DEF Waiting
<1> QED
  BY <1>1, <1>3, <1>10 DEF InStep, SameDevice, SameData

LEMMA CbwAgain ==
  ASSUME TypeInv, BaseInv, Tame(env), Stage, Had, NEW lost \in BOOLEAN, GiveCbw(lost)
  PROVE  Stage' /\ InStep
<1> DEFINE pkt == <<CbwUnit(host.cmd)>>
<1>1. /\ host.phase = "cbw" /\ GivePacket(pkt, lost) /\ env' = env
      /\ host' \in HostType /\ host'.phase = (IF lost THEN "cbw" ELSE DataOrStatus)
      /\ host'.cmd = host.cmd /\ host'.got = host.got /\ host'.sent = host.sent
      /\ host'.stalls = host.stalls /\ host'.answers = host.answers
      /\ InCommand /\ InCommand'
  BY GiveCbwHost
<1>2. /\ dev' = dev /\ tog' \in [{"in", "out"} -> {0, 1}] /\ tog'.in = tog.in /\ (Had' <=> lost)
  BY <1>1, AgainEffect
<1>3. SameDevice
  BY <1>2 DEF SameDevice, SameCommand, SameData, SameBlocks
<1>4. InStep
  BY <1>1, <1>2, <1>3 DEF InStep, TypeInv, SameDevice, SameData
<1>5. /\ Decoded => Decoded'
      /\ SenseKept => SenseKept'
      /\ Untouched => Untouched'
      /\ Failed => Failed'
      /\ Left' = Left /\ Off' = Off /\ Chunk(dev)' = Chunk(dev)
      /\ \A n : OnMedium(n) => OnMedium(n)'
      /\ \A f, s : DataUnits(f, s) => DataUnits(f, s)'
      /\ \A f, s : AllDue(f, s) => AllDue(f, s)'
  BY <1>1, <1>3, SameInCommand
<1>6. /\ Current' = Current /\ DataOrStatus' = DataOrStatus
      /\ Deserved(Current)' = Deserved(Current) /\ Works(Current)' = Works(Current)
      /\ Volume(Current)' = Volume(Current) /\ (HasDataOut' <=> HasDataOut)
      /\ Reason(Current)' = Reason(Current) /\ CbwUnit(host.cmd)' = CbwUnit(host.cmd)
  BY <1>1, SameScript
<1>7. CbwGiven(DataOrStatus)'
  BY <1>1, <1>2, <1>6 DEF CbwGiven
<1>8. TxQuiet => TxQuiet'
  BY <1>2 DEF TxQuiet
<1>9. RxArmed => RxArmed'
  BY <1>2 DEF RxArmed, RxEmpty
<1>10. Current.len \in Nat
  BY <1>1, AtHand
<1>11. ASSUME Waiting PROVE Waiting'
  <2>1. Fresh' /\ Ready'
    BY <1>1, <1>2, <1>5, <1>8, <1>11 DEF Waiting, Fresh, Ready, RxEmpty
  <2> QED
    BY <1>2, <1>5, <1>6, <1>7, <1>11, <2>1 DEF Waiting
<1>12. Refusal => Refusal'
  BY <1>1, <1>2, <1>5, <1>6 DEF Refusal
<1>13. ASSUME Refused PROVE Refused'
  BY <1>1, <1>2, <1>6, <1>7, <1>12, <1>13 DEF Refused
<1>14. ASSUME Sending PROVE Sending'
  <2>1. DataOrStatus = "data"
    BY <1>14 DEF Sending, DataOrStatus
  <2>2. Offered
    BY <1>1, <1>14 DEF Sending, Received
  <2>3. CbwGiven("data")'
    BY <1>6, <1>7, <2>1 DEF CbwGiven
  <2>4. /\ AllDue(Len(host.got), dev.tx.pkt)' /\ AllDue(Len(host.got) + Len(dev.tx.pkt), dev.tx.rest)'
        /\ AllDue(0, host.got)'
    BY <1>1, <1>2, <1>5, <1>14, <2>2 DEF Offered, Sending
  <2>5. Offered'
    BY <1>1, <1>2, <1>5, <1>6, <2>2, <2>3, <2>4 DEF Offered
  <2> QED
    BY <1>2, <1>5, <1>6, <1>14, <2>4, <2>5 DEF Sending
<1>15. ASSUME Writing PROVE Writing'
  <2>1. Current.len > 0 /\ DataOrStatus = "data"
    BY <1>10, <1>15, WritingFacts DEF DataOrStatus
  <2>2. \A r : GivenUpTo(r) => GivenUpTo(r)'
    <3> SUFFICES ASSUME NEW r, GivenUpTo(r) PROVE GivenUpTo(r)'
      OBVIOUS
    <3>1. r = 0 /\ host.sent = 0
      BY <1>1 DEF GivenUpTo
    <3> QED
      BY <1>1, <1>2, <1>6, <2>1, <3>1 DEF GivenUpTo
  <2>3. Receptive => Receptive'
    BY <1>2, <1>5, <2>2 DEF Receptive
  <2>4. Holding => Holding'
    BY <1>2, <1>5, <2>2 DEF Holding
  <2>5. DataUnits(Off, dev.rx.buf)' /\ OnMedium(Off)'
    BY <1>2, <1>5, <1>15 DEF Writing
  <2> QED
    BY <1>2, <1>5, <1>6, <1>8, <1>15, <2>3, <2>4, <2>5 DEF Writing
<1>16. ASSUME Told PROVE Told'
  <2>1. ToldPhase'
    BY <1>1, <1>2, <1>6, <1>16 DEF Told, ToldPhase, DataOrStatus
  <2>2. AllDue(0, host.got) => AllDue(0, host.got)'
    BY <1>1, <1>5
  <2>3. OnMedium(Current.len) => OnMedium(Current.len)'
    BY <1>5, <1>6
  <2>4. Done => Done'
    BY <1>1, <1>2, <1>5, <1>6, <2>2, <2>3 DEF Done
  <2> QED
    BY <1>2, <1>5, <1>9, <1>16, <2>1, <2>4 DEF Told
<1>17. ~Unplugged /\ ~Between /\ ~Asking /\ ~Cleared
  BY <1>1 DEF Unplugged, Between, Asking, Cleared
<1> QED
  BY <1>4, <1>11, <1>13, <1>14, <1>15, <1>16, <1>17 DEF Stage

LEMMA GiveCbwStage ==
  ASSUME TypeInv, BaseInv, Tame(env), Stage, NEW lost \in BOOLEAN, GiveCbw(lost)
  PROVE  Stage' /\ InStep
<1>1. host.phase = "cbw"
  BY DEF GiveCbw
<1>2. CASE Had
  BY <1>2, CbwAgain
<1>3. CASE ~Had
  <2>1. Asking
    BY <1>1, <1>3 DEF Stage, Unplugged, Between, Asking, Waiting, Refused, Cleared, Sending, Offered,
                      Received, Writing, Receptive, Holding, GivenUpTo, Told, ToldPhase, CbwGiven,
                      DataOrStatus
  <2> QED
    BY <2>1, FirstCbw DEF Stage
<1> QED
  BY <1>2, <1>3

(* The host takes a packet, or takes it again.                             *)
LEMMA DueConcat ==
  ASSUME NEW s \in Packet, NEW t \in Packet, AllDue(0, s), AllDue(Len(s), t)
  PROVE  s \o t \in Packet /\ Len(s \o t) = Len(s) + Len(t) /\ AllDue(0, s \o t)
<1>1. s \in Seq(Unit) /\ t \in Seq(Unit) /\ Len(s) \in Nat /\ Len(t) \in Nat
  BY PacketFacts DEF Packet
<1>2. /\ s \o t \in Seq(Unit) /\ Len(s \o t) = Len(s) + Len(t)
      /\ \A i \in 1 .. Len(s) + Len(t) : (s \o t)[i] = IF i <= Len(s) THEN s[i] ELSE t[i - Len(s)]
  BY <1>1, ConcatProperties
<1>3. ASSUME NEW k \in 1 .. Len(s) + Len(t) PROVE Due(0 + k, (s \o t)[k])
  <2>1. CASE k <= Len(s)
    <3>1. k \in 1 .. Len(s)
      BY <1>1, <2>1
    <3> QED
      BY <1>2, <2>1, <3>1 DEF AllDue
  <2>2. CASE ~(k <= Len(s))
    <3>1. k - Len(s) \in 1 .. Len(t) /\ Len(s) + (k - Len(s)) = 0 + k
      BY <1>1, <2>2
    <3>2. (s \o t)[k] = t[k - Len(s)]
      BY <1>2, <2>2
    <3>3. Due(Len(s) + (k - Len(s)), t[k - Len(s)])
      BY <3>1 DEF AllDue
    <3> QED
      BY <3>1, <3>2, <3>3
  <2> QED
    BY <2>1, <2>2
<1> QED
  BY <1>2, <1>3 DEF AllDue, Packet

LEMMA TakeDataHost ==
  ASSUME TypeInv, NEW lost \in BOOLEAN, TakeData(lost)
  PROVE  /\ host.phase = "data" /\ Current.in /\ TakePacket(lost) /\ env' = env
         /\ lost => env.losses > 0
         /\ host' \in HostType
         /\ host'.cmd = host.cmd /\ host'.sent = host.sent
         /\ host'.stalls = host.stalls /\ host'.answers = host.answers
         /\ host'.got = IF Takes THEN host.got \o dev.tx.pkt ELSE host.got
         /\ host'.phase = IF Takes /\ (Len(host'.got) >= Current.len \/ Len(dev.tx.pkt) < MaxPacket)
                          THEN "status" ELSE "data"
         /\ InCommand /\ InCommand'
<1> DEFINE got == host.got \o dev.tx.pkt
           end == Len(got) >= Current.len \/ Len(dev.tx.pkt) < MaxPacket
           h   == IF Takes THEN [host EXCEPT !.got = got, !.phase = IF end THEN "status" ELSE @] ELSE host
<1>1. /\ host \in HostType /\ host.lost \in Nat /\ env.losses \in Nat
      /\ host.got \in Packet /\ dev.tx.pkt \in Packet
  BY EnvFacts DEF TypeInv, HostType, DevType, TxType
<1>2. /\ host.phase = "data" /\ Current.in /\ TakePacket(lost) /\ env' = env /\ MayLose(lost)
      /\ host' = Lose(h, lost)
  BY DEF TakeData
<1>3. lost => env.losses > 0
  BY <1>1, <1>2 DEF MayLose
<1>4. got \in Packet
  BY <1>1 DEF Packet
<1> HIDE DEF end
<1>5. /\ h \in HostType /\ h.cmd = host.cmd /\ h.sent = host.sent /\ h.stalls = host.stalls
      /\ h.answers = host.answers /\ h.lost = host.lost
      /\ h.got = (IF Takes THEN got ELSE host.got)
      /\ h.phase = (IF Takes /\ end THEN "status" ELSE "data")
  <2> HIDE DEF got
  <2>1. CASE Takes
    <3> DEFINE p == IF end THEN "status" ELSE host.phase
    <3>1. p \in Phases
      BY <1>2 DEF Phases
    <3>2. h = [host EXCEPT !.got = got, !.phase = p]
      BY <2>1
    <3>3. p = IF end THEN "status" ELSE "data"
      BY <1>2
    <3> HIDE DEF p, h
    <3>4. [host EXCEPT !.got = got] \in HostType
      BY <1>1, <1>4 DEF HostType
    <3>5. \A e \in HostType : [e EXCEPT !.phase = p] \in HostType
      BY <3>1 DEF HostType
    <3>6. h = [[host EXCEPT !.got = got] EXCEPT !.phase = p]
      BY <1>1, <3>2 DEF HostType
    <3>7. h \in HostType
      BY <3>4, <3>5, <3>6
    <3> QED
      BY <1>1, <2>1, <3>2, <3>3, <3>7 DEF HostType
  <2>2. CASE ~Takes
    BY <1>1, <1>2, <2>2
  <2> QED
    BY <2>1, <2>2
<1> HIDE DEF h
<1>6. /\ host' \in HostType /\ host'.cmd = h.cmd /\ host'.sent = h.sent /\ host'.stalls = h.stalls
      /\ host'.answers = h.answers /\ host'.got = h.got /\ host'.phase = h.phase
  <2>1. h.lost + 1 \in Nat
    BY <1>1, <1>5
  <2>2. host' = IF lost THEN [h EXCEPT !.lost = h.lost + 1] ELSE h
    BY <1>2 DEF Lose
  <2>3. [h EXCEPT !.lost = h.lost + 1] \in HostType
    BY <1>5, <2>1 DEF HostType
  <2>4. host' \in HostType
    BY <1>5, <2>2, <2>3
  <2> QED
    BY <1>5, <2>2, <2>4 DEF HostType
<1>7. InCommand /\ InCommand'
  BY <1>2, <1>5, <1>6 DEF InCommand
<1>8. Takes => (end <=> Len(host'.got) >= Current.len \/ Len(dev.tx.pkt) < MaxPacket)
  BY <1>5, <1>6 DEF end
<1> QED
  BY <1>2, <1>3, <1>5, <1>6, <1>7, <1>8

LEMMA TakeDataStage ==
  ASSUME TypeInv, BaseInv, Tame(env), Stage, NEW lost \in BOOLEAN, TakeData(lost)
  PROVE  Sending' /\ InStep
<1> DEFINE s == host.got
           t == dev.tx.pkt
           v == Volume(Current)
<1>1. /\ host.phase = "data" /\ Current.in /\ TakePacket(lost) /\ env' = env
      /\ host' \in HostType
      /\ host'.cmd = host.cmd /\ host'.answers = host.answers
      /\ host'.got = (IF Takes THEN s \o t ELSE s)
      /\ host'.phase = (IF Takes /\ (Len(host'.got) >= Current.len \/ Len(t) < MaxPacket)
                        THEN "status" ELSE "data")
      /\ InCommand /\ InCommand'
  BY TakeDataHost
<1>2. /\ dev' \in DevType /\ SameDevice /\ dev'.rx = dev.rx
      /\ dev.tx.sts = "valid" /\ dev'.tx.pkt = t /\ dev'.tx.rest = dev.tx.rest
      /\ lost => dev' = dev
      /\ ~lost => dev'.tx.sts = "nak" /\ dev'.tx.tc /\ tog'.in = dev'.tx.tog
      /\ tog' \in [{"in", "out"} -> {0, 1}] /\ tog'.out = tog.out
      /\ tog'.in # dev.tx.tog
  BY <1>1, TakeEffect
<1>3. Sending
  <2>1. ~Writing
    BY <1>1, WritingFacts
  <2>2. ~Told
    BY <1>1 DEF Told, ToldPhase
  <2> QED
    BY <1>1, <1>2, <2>1, <2>2 DEF Stage, Unplugged, Between, Asking, Waiting, Ready, TxQuiet, Refused,
                                  Refusal, Cleared
<1>4. /\ v \in Nat /\ v <= Current.len /\ Current.len \in Nat /\ Left \in Nat
      /\ s \in Packet /\ t \in Packet /\ dev.tx.rest \in Packet
      /\ Len(s) \in Nat /\ Len(t) \in Nat /\ Len(dev.tx.rest) \in Nat
      /\ MaxPacket \in Nat /\ MaxPacket > 1
  BY <1>1, <1>3, SendingFacts, AtHand, Sizes
<1>5. /\ Decoded' /\ SenseKept' /\ Left' = Left
      /\ \A f, q : AllDue(f, q) => AllDue(f, q)'
  BY <1>1, <1>2, <1>3, SameInCommand DEF Sending
<1>6. /\ Current' = Current /\ Deserved(Current)' = Deserved(Current)
      /\ Volume(Current)' = v
  BY <1>1, SameScript
<1>7. InStep
  BY <1>1, <1>2 DEF InStep, SameDevice, SameData, Had
<1>8. Had' <=> Had
  BY <1>2 DEF Had
<1>9. \/ dev'.tx.sts = "valid" /\ ~dev'.tx.tc /\ tog'.in # dev'.tx.tog
      \/ dev'.tx.sts = "nak" /\ dev'.tx.tc /\ tog'.in = dev'.tx.tog
  <2>1. ~dev.tx.tc
    BY <1>2, <1>3 DEF Sending, Offered, Received
  <2> QED
    BY <1>2, <2>1
<1>10. /\ dev'.msc_state = dev.msc_state /\ dev'.blk_len = dev.blk_len /\ dev'.blk_addr = dev.blk_addr
       /\ dev'.residue = dev.residue
  BY <1>2 DEF SameDevice, SameBlocks, SameData
<1>11. ASSUME Received' , AllDue(0, host.got)' PROVE Sending'
  <2>1. dev'.msc_state = "data_in" =>
          /\ dev'.blk_len > 0 /\ Whole(Len(dev'.tx.rest))
          /\ dev'.blk_addr = Current'.lba * BlkSize + (Current'.len - dev'.blk_len)
    BY <1>2, <1>3, <1>6, <1>10 DEF Sending
  <2>2. dev'.residue + Volume(Current)' = Current'.len + Left'
    BY <1>3, <1>5, <1>6, <1>10 DEF Sending
  <2>3. /\ dev'.rx.sts = "nak" /\ ~dev'.rx.tc
        /\ Deserved(Current)' = "pass" /\ Current'.in /\ Current'.len > 0 /\ ~(Current'.op = "write")
        /\ dev'.msc_state \in IF Current'.op = "read" THEN {"data_in", "last_data"} ELSE {"send_data"}
    BY <1>2, <1>3, <1>6, <1>10 DEF Sending
  <2> QED
    BY <1>5, <1>11, <2>1, <2>2, <2>3 DEF Sending
<1>12. CASE Takes
  <2>1. Offered
    BY <1>2, <1>3, <1>12 DEF Sending, Received, Takes
  <2>2. /\ ~Had /\ Len(s) + Len(t) + Len(dev.tx.rest) + Left = v
        /\ AllDue(Len(s), t) /\ AllDue(Len(s) + Len(t), dev.tx.rest) /\ AllDue(0, s)
        /\ \/ Len(t) = MaxPacket
           \/ Len(t) \in 1 .. MaxPacket - 1 /\ dev.tx.rest = <<>> /\ Left = 0
    BY <1>1, <1>3, <2>1 DEF Offered, CbwGiven, Sending
  <2>3. host'.got = s \o t /\ Len(host'.got) = Len(s) + Len(t) /\ AllDue(0, s \o t)
    <3>1. s \in Packet /\ t \in Packet /\ AllDue(0, s) /\ AllDue(Len(s), t) /\ host'.got = s \o t
      BY <1>1, <1>4, <1>12, <2>2
    <3>2. s \o t \in Packet /\ Len(s \o t) = Len(s) + Len(t) /\ AllDue(0, s \o t)
      BY ONLY <3>1, DueConcat
    <3> QED
      BY <3>1, <3>2
  <2>4. dev.tx.rest = <<>> => Len(dev.tx.rest) = 0
    BY PacketFacts
  <2>5. Current.op = "read" => v = Current.len
    BY DEF Volume
  <2>6. Current.op # "read" => v = 1
    BY DEF Volume
  <2>7. host'.phase = IF Len(host'.got) = v THEN "status" ELSE "data"
    <3> DEFINE a == Len(s)
               b == Len(t)
               c == Len(dev.tx.rest)
               l == Current.len
               f == Left
               read == Current.op = "read"
    <3>1. /\ a \in Nat /\ b \in Nat /\ c \in Nat /\ l \in Nat /\ f \in Nat /\ v \in Nat /\ v <= l
          /\ MaxPacket \in Nat /\ MaxPacket > 1 /\ a + b + c + f = v
          /\ b = MaxPacket \/ (b \in 1 .. MaxPacket - 1 /\ c = 0 /\ f = 0)
          /\ v = l \/ v = 1
      BY <1>4, <2>2, <2>4, <2>5, <2>6
    <3>2. host'.phase = IF a + b >= l \/ b < MaxPacket THEN "status" ELSE "data"
      BY <1>1, <1>12, <2>3
    <3> HIDE DEF a, b, c, l, f, v
    <3>3. (a + b >= l \/ b < MaxPacket) <=> a + b = v
      BY ONLY <3>1
    <3> QED
      BY <2>3, <3>2, <3>3 DEF a, b
  <2>8. AllDue(0, host.got)'
    <3>1. \A k \in 1 .. Len(s \o t) : Due(0 + k, (s \o t)[k])
      BY <2>3 DEF AllDue
    <3>2. \A k \in 1 .. Len(host'.got) : Due(0 + k, host.got[k])'
      <4>1. dev'.disk = dev.disk /\ dev'.sense = dev.sense
        BY <1>2 DEF SameDevice, SameData
      <4>2. ASSUME NEW k \in 1 .. Len(host'.got) PROVE Due(0 + k, host.got[k])'
        <5>1. Due(0 + k, (s \o t)[k]) /\ host'.got[k] = (s \o t)[k]
          BY <2>3, <3>1
        <5> QED
          BY <1>6, <4>1, <5>1 DEF Due
      <4> QED
        BY <4>2
    <3> QED
      BY <3>2 DEF AllDue
  <2>9. AllDue(Len(host.got), dev.tx.rest)'
    <3> SUFFICES ASSUME NEW k \in 1 .. Len(dev'.tx.rest) PROVE Due(Len(host.got) + k, dev.tx.rest[k])'
      BY DEF AllDue
    <3>1. Due(Len(s) + Len(t) + k, dev.tx.rest[k])
      BY <1>2, <2>2 DEF AllDue
    <3> QED
      BY <1>2, <1>6, <2>3, <3>1 DEF Due, SameDevice, SameData
  <2>10. Len(host'.got) + Len(dev'.tx.rest) + Left' = v
    BY <1>2, <1>5, <2>2, <2>3
  <2>11. Received'
    BY <1>6, <1>8, <1>9, <2>2, <2>7, <2>9, <2>10 DEF Received
  <2> QED
    BY <1>7, <1>11, <2>8, <2>11
<1>13. CASE ~Takes
  <2>1. Received
    BY <1>2, <1>3, <1>13 DEF Sending, Offered, Takes
  <2>2. host'.got = s /\ host'.phase = "data"
    BY <1>1, <1>13
  <2>3. AllDue(0, host.got)' /\ AllDue(Len(host.got), dev.tx.rest)'
    BY <1>2, <1>3, <1>5, <2>1, <2>2 DEF Received, Sending
  <2>4. Received'
    BY <1>1, <1>2, <1>5, <1>6, <1>8, <1>9, <2>1, <2>2, <2>3 DEF Received
  <2> QED
    BY <1>7, <1>11, <2>3, <2>4
<1> QED
  BY <1>12, <1>13

(* The host gives a packet of data, or gives it again.                     *)
LEMMA DataPacket ==
  ASSUME Current.len \in Nat, host.cmd \in Nat, NEW n \in Nat, n + MaxPacket <= Current.len
  PROVE  /\ SubSeq(DataOut, n + 1, n + MaxPacket) \in Packet
         /\ Len(SubSeq(DataOut, n + 1, n + MaxPacket)) = MaxPacket
         /\ DataUnits(n, SubSeq(DataOut, n + 1, n + MaxPacket))
<1> DEFINE p == SubSeq(DataOut, n + 1, n + MaxPacket)
           l == Current.len
<1>1. /\ l \in Nat /\ MaxPacket \in Nat /\ MaxPacket > 1 /\ n + MaxPacket <= l
      /\ \A k \in 1 .. l : DataOut[k] = Written(host.cmd, k)
  BY Sizes DEF DataOut
<1>2. \A k \in 1 .. l : DataOut[k] \in Unit
  BY <1>1, UnitTypes
<1> HIDE DEF l
<1>3. /\ n + 1 \in Int /\ n + MaxPacket \in Int /\ n + 1 <= n + MaxPacket
      /\ n + MaxPacket - (n + 1) + 1 = MaxPacket
      /\ \A i \in n + 1 .. n + MaxPacket : i \in 1 .. l
      /\ \A k \in 1 .. MaxPacket : n + 1 + k - 1 = n + k /\ n + k \in 1 .. l
  BY <1>1
<1>4. \A i \in n + 1 .. n + MaxPacket : DataOut[i] \in Unit
  BY <1>2, <1>3
<1>5. /\ p \in Seq(Unit) /\ Len(p) = MaxPacket
      /\ \A k \in 1 .. MaxPacket : p[k] = DataOut[n + 1 + k - 1]
  <2> DEFINE lo == n + 1
             hi == n + MaxPacket
  <2>1. lo \in Int /\ hi \in Int /\ lo <= hi /\ hi - lo + 1 = MaxPacket
    BY <1>1
  <2>2. \A i \in lo .. hi : DataOut[i] \in Unit
    BY <1>4
  <2> HIDE DEF lo, hi
  <2>3. /\ SubSeq(DataOut, lo, hi) \in Seq(Unit)
        /\ Len(SubSeq(DataOut, lo, hi)) = IF lo <= hi THEN hi - lo + 1 ELSE 0
        /\ \A i \in 1 .. hi - lo + 1 : SubSeq(DataOut, lo, hi)[i] = DataOut[lo + i - 1]
    BY <2>1, <2>2, SubSeqProperties
  <2>4. /\ SubSeq(DataOut, lo, hi) \in Seq(Unit) /\ Len(SubSeq(DataOut, lo, hi)) = MaxPacket
        /\ \A i \in 1 .. MaxPacket : SubSeq(DataOut, lo, hi)[i] = DataOut[lo + i - 1]
    BY <2>1, <2>3
  <2> QED
    BY <2>4 DEF lo, hi
<1>6. \A k \in 1 .. MaxPacket : p[k] = Written(host.cmd, n + k)
  BY <1>1, <1>3, <1>5
<1> QED
  BY <1>5, <1>6 DEF DataUnits, Packet

LEMMA GiveDataHost ==
  ASSUME TypeInv, Current.len \in Nat, host.sent + MaxPacket <= Current.len,
         NEW lost \in BOOLEAN, GiveData(lost)
  PROVE  /\ host.phase = "data" /\ ~Current.in /\ env' = env
         /\ GivePacket(SubSeq(DataOut, host.sent + 1, host.sent + MaxPacket), lost)
         /\ lost => env.losses > 0
         /\ host' \in HostType
         /\ host'.phase = IF ~lost /\ host.sent + MaxPacket = Current.len THEN "status" ELSE "data"
         /\ host'.sent = IF lost THEN host.sent ELSE host.sent + MaxPacket
         /\ host'.cmd = host.cmd /\ host'.got = host.got
         /\ host'.stalls = host.stalls /\ host'.answers = host.answers
         /\ InCommand /\ InCommand'
<1> DEFINE to == host.sent + MaxPacket
           ph == IF to = Current.len THEN "status" ELSE host.phase
<1>1. /\ host \in HostType /\ host.sent \in Nat /\ host.lost \in Nat /\ env.losses \in Nat
      /\ MaxPacket \in Nat
  BY EnvFacts, Sizes DEF TypeInv, HostType
<1>2. Least(host.sent + MaxPacket, Current.len) = to
  BY <1>1 DEF Least
<1>3. /\ host.phase = "data" /\ ~Current.in /\ env' = env /\ MayLose(lost)
      /\ GivePacket(SubSeq(DataOut, host.sent + 1, to), lost)
      /\ host' = Lose(IF lost THEN host ELSE [host EXCEPT !.sent = to, !.phase = ph], lost)
  BY <1>2 DEF GiveData
<1>4. lost => env.losses > 0
  BY <1>1, <1>3 DEF MayLose
<1>5. /\ to \in Nat /\ ph \in Phases
      /\ ph = IF host.sent + MaxPacket = Current.len THEN "status" ELSE "data"
  BY <1>1, <1>3 DEF Phases
<1> HIDE DEF ph
<1>6. /\ host' \in HostType
      /\ host'.phase = (IF ~lost /\ host.sent + MaxPacket = Current.len THEN "status" ELSE "data")
      /\ host'.sent = (IF lost THEN host.sent ELSE host.sent + MaxPacket)
      /\ host'.cmd = host.cmd /\ host'.got = host.got
      /\ host'.stalls = host.stalls /\ host'.answers = host.answers
  <2>1. CASE lost
    <3>1. host' = [host EXCEPT !.lost = host.lost + 1]
      BY <1>3, <2>1 DEF Lose
    <3>2. host' \in HostType
      BY <1>1, <3>1, SMTT(30) DEF HostType
    <3> QED
      BY <1>3, <2>1, <3>1, <3>2 DEF HostType
  <2>2. CASE ~lost
    <3> HIDE DEF to
    <3>1. host' = [host EXCEPT !.sent = to, !.phase = ph]
      BY <1>3, <2>2 DEF Lose
    <3>2. \A e \in HostType : [e EXCEPT !.phase = ph] \in HostType
      BY <1>5 DEF HostType
    <3>3. [host EXCEPT !.sent = to] \in HostType
      BY <1>1, <1>5 DEF HostType
    <3>4. host' = [[host EXCEPT !.sent = to] EXCEPT !.phase = ph]
      BY <1>1, <3>1 DEF HostType
    <3>5. host' \in HostType
      BY <3>2, <3>3, <3>4
    <3>6. host'.sent = to /\ host'.phase = ph
      BY <1>1, <3>1 DEF HostType
    <3> QED
      BY <1>1, <1>5, <2>2, <3>1, <3>5, <3>6 DEF HostType, to
  <2> QED
    BY <2>1, <2>2
<1>7. InCommand /\ InCommand'
  BY <1>3, <1>6 DEF InCommand
<1> QED
  BY <1>3, <1>4, <1>6, <1>7

LEMMA GiveDataWriting ==
  ASSUME TypeInv, BaseInv, Tame(env), Writing, NEW lost \in BOOLEAN, GiveData(lost)
  PROVE  Writing' /\ InStep
<1> DEFINE b == Len(dev.rx.buf)
           s == host.sent
           l == Current.len
           p == SubSeq(DataOut, s + 1, s + MaxPacket)
<1>1. /\ Current.len \in Nat /\ Off \in Nat /\ b \in Nat /\ dev.rx.room \in Nat
      /\ dev.blk_len \in Nat /\ Off + dev.blk_len = l
      /\ Chunk(dev) \in Nat /\ Chunk(dev) <= dev.blk_len
      /\ host.sent \in Nat /\ host.cmd \in Nat /\ MaxPacket \in Nat /\ MaxPacket > 1
      /\ b + MaxPacket + dev.rx.room = Chunk(dev)
  BY WritingFacts, Sizes DEF Writing, TypeInv, HostType
<1>2. Off + b + MaxPacket <= l /\ Off + b < l
  <2> DEFINE o == Off
             r == dev.rx.room
             c == Chunk(dev)
             n == dev.blk_len
  <2>1. /\ o \in Nat /\ b \in Nat /\ r \in Nat /\ c \in Nat /\ n \in Nat /\ l \in Nat
        /\ o + n = l /\ c <= n /\ b + MaxPacket + r = c /\ MaxPacket \in Nat /\ MaxPacket > 1
    BY <1>1
  <2> HIDE DEF o, b, r, c, n, l
  <2>2. o + b + MaxPacket <= l /\ o + b < l
    BY ONLY <2>1
  <2> QED
    BY <2>2 DEF o
<1>3. host.phase = "data" /\ Hears
  BY DEF GiveData, GivePacket
<1>4. ~Had => Receptive /\ s = Off + b
  BY <1>3 DEF Writing, Holding, Receptive, GivenUpTo, Hears
<1>5. Had => /\ Receptive => s + MaxPacket = Off + b
             /\ Holding => s + MaxPacket = Off + b + MaxPacket
  BY <1>3 DEF Holding, Receptive, GivenUpTo
<1>6. s + MaxPacket <= l
  <2>1. CASE ~Had
    BY <1>2, <1>4, <2>1
  <2>2. CASE Had
    <3>1. s + MaxPacket = Off + b \/ s + MaxPacket = Off + b + MaxPacket
      BY <1>5, <2>2 DEF Writing
    <3> QED
      BY <1>1, <1>2, <3>1
  <2> QED
    BY <2>1, <2>2
<1>7. /\ GivePacket(p, lost) /\ (lost => env.losses > 0) /\ env' = env
      /\ host' \in HostType
      /\ host'.phase = (IF ~lost /\ s + MaxPacket = l THEN "status" ELSE "data")
      /\ host'.sent = (IF lost THEN s ELSE s + MaxPacket)
      /\ host'.cmd = host.cmd /\ host'.answers = host.answers
      /\ InCommand /\ InCommand'
  BY <1>1, <1>6, GiveDataHost
<1>8. p \in Packet /\ Len(p) = MaxPacket /\ DataUnits(s, p)
  BY <1>1, <1>6, DataPacket
<1>9. /\ Current' = Current /\ Deserved(Current)' = Deserved(Current)
      /\ Works(Current)' = Works(Current)
  BY <1>7, SameScript
<1> HIDE DEF p
<1>10. ASSUME NEW r \in Nat, host'.sent = IF lost THEN s ELSE r, s + MaxPacket = r, Had' <=> lost
       PROVE  GivenUpTo(r)'
  <2>1. CASE lost
    BY <1>7, <1>10, <2>1 DEF GivenUpTo
  <2>2. CASE ~lost
    BY <1>7, <1>9, <1>10, <2>2 DEF GivenUpTo
  <2> QED
    BY <2>1, <2>2
<1>11. ASSUME SameDevice, dev'.tx = dev.tx, tog'.in = tog.in,
              dev'.rx.buf = dev.rx.buf, dev'.rx.room = dev.rx.room,
              Receptive' \/ Holding'
       PROVE  Writing'
  <2>1. /\ Decoded => Decoded'
        /\ SenseKept => SenseKept'
        /\ Off' = Off /\ Chunk(dev)' = Chunk(dev)
        /\ \A n : OnMedium(n) => OnMedium(n)'
        /\ \A f, q : DataUnits(f, q) => DataUnits(f, q)'
    BY <1>7, <1>11, SameInCommand
  <2>2. OnMedium(Off)' /\ DataUnits(Off, dev.rx.buf)'
    BY <1>11, <2>1 DEF Writing
  <2>3. TxQuiet' /\ ~dev'.tx.tc
    BY <1>11 DEF Writing, TxQuiet
  <2>4. Legal(Current)' /\ Current'.op = "write" /\ dev'.msc_state = "data_out"
    BY <1>9, <1>11 DEF Writing, SameDevice
  <2>5. /\ dev'.blk_len \in 1 .. Current'.len /\ Whole(dev'.blk_len)
        /\ Works(Current)' \/ (dev'.blk_len = Current'.len /\ dev'.blk_len <= BufLen)
        /\ dev'.blk_addr = Current'.lba * BlkSize + Off' /\ dev'.residue = dev'.blk_len
        /\ Whole(Len(dev'.rx.buf)) /\ Len(dev'.rx.buf) + MaxPacket + dev'.rx.room = Chunk(dev)'
    BY <1>9, <1>11, <2>1 DEF Writing, SameDevice, SameBlocks, SameData
  <2> QED
    BY <1>11, <2>1, <2>2, <2>3, <2>4, <2>5 DEF Writing
<1>12. CASE ~Had
  <2>1. /\ dev' \in DevType /\ SameDevice /\ dev'.tx = dev.tx
        /\ dev'.rx.sts = "nak" /\ dev'.rx.tc /\ dev'.rx.pkt = p
        /\ dev'.rx.buf = dev.rx.buf /\ dev'.rx.room = dev.rx.room
        /\ tog' \in [{"in", "out"} -> {0, 1}] /\ tog'.in = tog.in /\ (Had' <=> lost)
    BY <1>7, <1>8, <1>12, GiveEffect
  <2>2. Off' = Off
    BY <1>7, <2>1, SameInCommand
  <2>3. GivenUpTo(Off + Len(dev.rx.buf) + MaxPacket)'
    <3>1. s + MaxPacket = Off + b + MaxPacket /\ Off + b + MaxPacket \in Nat
      BY <1>1, <1>4, <1>12
    <3>2. GivenUpTo(Off + b + MaxPacket)'
      BY <1>7, <1>10, <2>1, <2>2, <3>1
    <3> QED
      BY <2>1, <2>2, <3>2 DEF GivenUpTo
  <2>4. DataUnits(Off + Len(dev.rx.buf), dev.rx.pkt)'
    BY <1>4, <1>7, <1>8, <1>12, <2>1, <2>2 DEF DataUnits
  <2>5. Holding'
    BY <1>8, <2>1, <2>3, <2>4 DEF Holding
  <2>6. Writing'
    BY <1>11, <2>1, <2>5
  <2> QED
    BY <1>7, <2>1, <2>6 DEF InStep, SameDevice, SameData
<1>13. CASE Had
  <2>1. dev' = dev /\ tog' \in [{"in", "out"} -> {0, 1}] /\ tog'.in = tog.in /\ (Had' <=> lost)
    BY <1>7, <1>13, AgainEffect
  <2>2. SameDevice
    BY <2>1 DEF SameDevice, SameCommand, SameData, SameBlocks
  <2>3. Off' = Off
    BY <1>7, <2>2, SameInCommand
  <2>7. Had' <=> lost
    BY <2>1
  <2>4. ASSUME Receptive PROVE Writing'
    <3>1. s + MaxPacket = Off + b /\ Off + b \in Nat
      BY <1>1, <1>5, <1>13, <2>4, SMTT(30)
    <3>2. GivenUpTo(Off + b)'
      BY <1>7, <1>10, <2>1, <2>3, <2>7, <3>1
    <3>3. Receptive'
      BY <2>1, <2>3, <2>4, <3>2 DEF Receptive, GivenUpTo
    <3> QED
      BY <1>11, <2>1, <2>2, <3>3
  <2>5. ASSUME Holding PROVE Writing'
    <3>1. s + MaxPacket = Off + b + MaxPacket /\ Off + b + MaxPacket \in Nat
      BY <1>1, <1>5, <1>13, <2>5
    <3>2. GivenUpTo(Off + b + MaxPacket)'
      BY <1>7, <1>10, <2>1, <2>3, <2>7, <3>1
    <3>3. GivenUpTo(Off + Len(dev.rx.buf) + MaxPacket)'
      BY <2>1, <2>3, <3>2 DEF GivenUpTo
    <3>4. DataUnits(Off + Len(dev.rx.buf), dev.rx.pkt)'
      BY <1>7, <2>1, <2>3, <2>5 DEF Holding, DataUnits
    <3>5. Holding'
      BY <2>1, <2>5, <3>3, <3>4 DEF Holding
    <3> QED
      BY <1>11, <2>1, <2>2, <3>5
  <2>6. Writing'
    BY <2>4, <2>5 DEF Writing
  <2> QED
    BY <1>7, <2>1, <2>2, <2>6 DEF InStep, SameDevice, SameData, TypeInv
<1> QED
  BY <1>12, <1>13

LEMMA GiveDataTold ==
  ASSUME TypeInv, BaseInv, Tame(env), Told, NEW lost \in BOOLEAN, GiveData(lost)
  PROVE  Told' /\ InStep
<1>1. InCommand /\ host.phase = "data" /\ Had /\ host.sent + MaxPacket = Current.len
  BY DEF GiveData, Told, ToldPhase, InCommand
<1>2. Current.len \in Nat /\ MaxPacket \in Nat
  BY <1>1, AtHand, Sizes
<1>3. /\ GivePacket(SubSeq(DataOut, host.sent + 1, host.sent + MaxPacket), lost)
      /\ ~Current.in /\ (lost => env.losses > 0) /\ env' = env
      /\ host' \in HostType
      /\ host'.phase = (IF ~lost THEN "status" ELSE "data")
      /\ host'.sent = (IF lost THEN host.sent ELSE host.sent + MaxPacket)
      /\ host'.cmd = host.cmd /\ host'.got = host.got /\ host'.answers = host.answers
      /\ InCommand /\ InCommand'
  BY <1>1, <1>2, GiveDataHost
<1>4. dev' = dev /\ tog' \in [{"in", "out"} -> {0, 1}] /\ tog'.in = tog.in /\ (Had' <=> lost)
  BY <1>1, <1>3, AgainEffect
<1>5. SameDevice
  BY <1>4 DEF SameDevice, SameCommand, SameData, SameBlocks
<1>6. /\ Decoded => Decoded'
      /\ SenseKept => SenseKept'
      /\ Failed => Failed'
      /\ \A n : OnMedium(n) => OnMedium(n)'
      /\ \A f, s : AllDue(f, s) => AllDue(f, s)'
  BY <1>3, <1>5, SameInCommand
<1>7. /\ Current' = Current /\ Deserved(Current)' = Deserved(Current)
      /\ Volume(Current)' = Volume(Current)
  BY <1>3, SameScript
<1>8. ToldPhase'
  BY <1>1, <1>3, <1>4, <1>7 DEF ToldPhase
<1>9. AllDue(0, host.got) => AllDue(0, host.got)'
  BY <1>3, <1>6
<1>10. OnMedium(Current.len) => OnMedium(Current.len)'
  BY <1>6, <1>7
<1>11. Done => Done'
  BY <1>3, <1>4, <1>6, <1>7, <1>9, <1>10 DEF Done
<1>12. RxArmed'
  BY <1>4 DEF Told, RxArmed, RxEmpty
<1>13. Told'
  BY <1>4, <1>6, <1>8, <1>11, <1>12 DEF Told
<1> QED
  BY <1>3, <1>4, <1>5, <1>13 DEF InStep, SameDevice, SameData, TypeInv

LEMMA GiveDataStage ==
  ASSUME TypeInv, BaseInv, Tame(env), Stage, NEW lost \in BOOLEAN, GiveData(lost)
  PROVE  Stage' /\ InStep
<1>1. host.phase = "data" /\ ~Current.in /\ Hears
  BY DEF GiveData, GivePacket
<1>2. Writing \/ Told
  BY <1>1 DEF Stage, Unplugged, Between, Asking, Waiting, Refused, Cleared, Sending, CbwGiven, Hears
<1> QED
  BY <1>2, GiveDataWriting, GiveDataTold DEF Stage

-----------------------------------------------------------------------------
(* The host takes the CSW, or the last packet of data again.               *)
LEMMA TakeAgain ==
  ASSUME TypeInv, BaseInv, Tame(env), Sending, TakePacket(FALSE), ~Takes, UNCHANGED <<env, host>>
  PROVE  Sending' /\ InStep
<1>1. /\ dev' \in DevType /\ SameDevice /\ dev'.rx = dev.rx
      /\ dev.tx.sts = "valid" /\ dev'.tx.rest = dev.tx.rest
      /\ dev'.tx.sts = "nak" /\ dev'.tx.tc /\ tog'.in = dev'.tx.tog
      /\ tog' \in [{"in", "out"} -> {0, 1}] /\ tog'.out = tog.out
  BY TakeEffect
<1>2. Received
  BY <1>1 DEF Sending, Offered, Takes
<1>3. /\ Decoded' /\ SenseKept' /\ Left' = Left
      /\ \A f, q : AllDue(f, q) => AllDue(f, q)'
  BY <1>1, SameInCommand DEF Sending
<1>4. /\ Current' = Current /\ Deserved(Current)' = Deserved(Current)
      /\ Volume(Current)' = Volume(Current)
  BY SameScript
<1>5. Had' <=> Had
  BY <1>1 DEF Had
<1>6. AllDue(0, host.got)' /\ AllDue(Len(host.got), dev.tx.rest)'
  BY <1>1, <1>2, <1>3 DEF Received, Sending
<1>7. Received'
  BY <1>1, <1>2, <1>3, <1>4, <1>5, <1>6 DEF Received
<1>8. /\ dev'.msc_state = dev.msc_state /\ dev'.blk_len = dev.blk_len /\ dev'.blk_addr = dev.blk_addr
      /\ dev'.residue = dev.residue
  BY <1>1 DEF SameDevice, SameBlocks, SameData
<1>9. dev'.msc_state = "data_in" =>
        /\ dev'.blk_len > 0 /\ Whole(Len(dev'.tx.rest))
        /\ dev'.blk_addr = Current'.lba * BlkSize + (Current'.len - dev'.blk_len)
  BY <1>1, <1>4, <1>8 DEF Sending
<1>10. dev'.residue + Volume(Current)' = Current'.len + Left'
  BY <1>3, <1>4, <1>8 DEF Sending
<1>11. /\ dev'.rx.sts = "nak" /\ ~dev'.rx.tc
       /\ Deserved(Current)' = "pass" /\ Current'.in /\ Current'.len > 0 /\ ~(Current'.op = "write")
       /\ dev'.msc_state \in IF Current'.op = "read" THEN {"data_in", "last_data"} ELSE {"send_data"}
  BY <1>1, <1>4, <1>8 DEF Sending
<1>12. Sending'
  BY <1>3, <1>6, <1>7, <1>9, <1>10, <1>11 DEF Sending
<1>13. InCommand /\ InCommand'
  BY <1>2 DEF InCommand, Received
<1> QED
  BY <1>1, <1>5, <1>12, <1>13 DEF InStep, SameDevice, SameData, TypeInv

(* A step that ends the command with the answer a.                         *)
Ended(a) ==
  /\ dev' \in DevType /\ dev'.disk = dev.disk /\ dev'.bot_status = dev.bot_status
  /\ dev'.nbr = dev.nbr /\ dev'.tag = dev.tag /\ dev'.cbw = dev.cbw
  /\ tog' \in [{"in", "out"} -> {0, 1}] /\ env' = env
  /\ a \in AnswerType /\ host' \in HostType /\ host'.cmd = host.cmd
  /\ host'.answers = Append(host.answers, a)
  /\ InCommand /\ ~InCommand' /\ ~Had'

LEMMA AnswerEffect ==
  ASSUME NEW h \in HostType, NEW v \in {"pass", "fail", "unplugged"}, NEW r \in Nat
  PROVE  /\ [verdict |-> v, data |-> h.got, residue |-> r] \in AnswerType
         /\ Answer(h, v, r) \in HostType
         /\ Answer(h, v, r).answers = Append(h.answers, [verdict |-> v, data |-> h.got, residue |-> r])
         /\ Answer(h, v, r).phase = h.phase /\ Answer(h, v, r).cmd = h.cmd
<1> DEFINE a == [verdict |-> v, data |-> h.got, residue |-> r]
<1>1. h.answers \in Seq(AnswerType) /\ a \in AnswerType
  BY DEF HostType, AnswerType
<1>2. Append(h.answers, a) \in Seq(AnswerType)
  BY <1>1, AppendProperties
<1>3. Answer(h, v, r) = [h EXCEPT !.answers = Append(h.answers, a)]
  BY DEF Answer
<1> HIDE DEF a
<1>4. Answer(h, v, r) \in HostType
  BY <1>2, <1>3 DEF HostType
<1>5. /\ Answer(h, v, r).answers = Append(h.answers, a)
      /\ Answer(h, v, r).phase = h.phase /\ Answer(h, v, r).cmd = h.cmd
  BY <1>3 DEF HostType
<1> QED
  BY <1>1, <1>4, <1>5 DEF a

LEMMA LastAnswer ==
  ASSUME TypeInv, NEW a \in AnswerType, host'.answers = Append(host.answers, a)
  PROVE  /\ Len(Answers) \in Nat /\ Len(Answers') = Len(Answers) + 1
         /\ Answers'[Len(Answers) + 1] = a
         /\ \A i \in 1 .. Len(Answers) : Answers'[i] = Answers[i]
<1>1. host.answers \in Seq(AnswerType)
  BY DEF TypeInv, HostType
<1> QED
  BY <1>1, AppendProperties, LenProperties DEF Answers

LEMMA TakeCswTold ==
  ASSUME TypeInv, BaseInv, Tame(env), Told, TakeCsw
  PROVE  /\ Between'
         /\ \E a : /\ Ended(a) /\ a.data = host.got /\ a.residue = dev.residue
                   /\ (a.verdict = "pass" /\ Done) \/ (a.verdict = "fail" /\ Failed)
<1>1. /\ dev' \in DevType /\ SameDevice /\ dev'.rx = dev.rx
      /\ dev'.tx.pkt = dev.tx.pkt /\ dev'.tx.rest = dev.tx.rest
      /\ dev'.tx.sts = "nak" /\ dev'.tx.tc /\ tog'.in = dev'.tx.tog
      /\ tog' \in [{"in", "out"} -> {0, 1}] /\ tog'.out = tog.out
  BY TakeEffect DEF TakeCsw
<1>2. Takes /\ host.phase = "status" /\ env' = env /\ ~Had
  BY DEF TakeCsw, Told, Takes, ToldPhase
<1>3. InCommand
  BY <1>2 DEF InCommand
<1>4. host.cmd \in 1 .. Len(Script) /\ Len(Answers) \in Nat /\ host.cmd = Len(Answers) + 1
  BY <1>3, AtHand
<1>5. PICK v \in {"pass", "fail"} :
        /\ dev.tx.pkt = <<CswUnit(dev, v)>>
        /\ (v = "pass" /\ Done) \/ (v = "fail" /\ Failed)
  BY DEF Told
<1> DEFINE h == [host EXCEPT !.phase = "idle"]
           a == [verdict |-> v, data |-> h.got, residue |-> dev.residue]
<1>6. dev.tag = host.cmd
  BY DEF Told, Decoded
<1>7. /\ Len(dev.tx.pkt) = 1 /\ dev.tx.pkt[1][1] = "csw" /\ dev.tx.pkt[1][2] = host.cmd
      /\ dev.tx.pkt[1][3] = dev.residue /\ dev.tx.pkt[1][4] = v
  BY <1>5, <1>6 DEF CswUnit
<1>8. GoodCsw(dev.tx.pkt)
  BY <1>7 DEF GoodCsw
<1>9. host' = Answer(h, v, dev.residue)
  BY <1>2, <1>7, <1>8 DEF TakeCsw, Enter
<1>10. host \in HostType /\ dev.residue \in Nat
  BY DEF TypeInv, DevType
<1>11. h \in HostType /\ h.phase = "idle" /\ h.cmd = host.cmd /\ h.answers = host.answers /\ h.got = host.got
  BY <1>10 DEF HostType, Phases
<1> HIDE DEF h
<1>12. /\ a \in AnswerType /\ host' \in HostType /\ host'.answers = Append(host.answers, a)
       /\ host'.phase = "idle" /\ host'.cmd = host.cmd
  BY <1>9, <1>10, <1>11, AnswerEffect, SMTT(30)
<1>13. a.verdict = v /\ a.data = host.got /\ a.residue = dev.residue
  BY <1>11
<1> HIDE DEF a
<1>14. ~Had' /\ ~InCommand'
  BY <1>1, <1>2, <1>12 DEF Had, InCommand
<1>15. Ended(a)
  BY <1>1, <1>2, <1>3, <1>12, <1>14 DEF Ended, SameDevice, SameCommand, SameData
<1>16. SenseKept'
  <2>1. /\ Len(Answers') = Len(Answers) + 1 /\ Answers'[Len(Answers) + 1] = a
    BY <1>12, LastAnswer
  <2>2. Answers'[Len(Answers')].verdict = v
    BY <1>13, <2>1
  <2>3. Command(Len(Answers))' = Current
    BY <1>2, <1>4, <2>1 DEF Current, Command, Script
  <2>4. v = "fail" => dev'.sense = Reason(Current)
    BY <1>1, <1>5 DEF Failed, SameDevice, SameData
  <2>5. Reason(Command(Len(Answers)))' = Reason(Current)
    BY <2>3 DEF Reason
  <2> QED
    BY <2>2, <2>4, <2>5 DEF SenseKept
<1>17. RxArmed' /\ RxEmpty'
  BY <1>1 DEF Told, RxArmed, RxEmpty
<1>18. /\ dev'.conf /\ dev'.msc_state = "idle" /\ TxQuiet' /\ dev'.tx.rest = <<>>
  BY <1>1 DEF Told, Decoded, SameDevice, SameCommand, TxQuiet
<1>19. Between'
  BY <1>12, <1>14, <1>16, <1>17, <1>18 DEF Between, Ready
<1> QED
  BY <1>5, <1>13, <1>15, <1>19

LEMMA TakeCswStage ==
  ASSUME TypeInv, BaseInv, Tame(env), Stage, TakeCsw
  PROVE  (Sending' /\ InStep) \/ Told
<1>1. host.phase = "status" /\ TakePacket(FALSE) /\ dev.tx.sts = "valid"
  BY DEF TakeCsw, TakePacket
<1>2. Sending \/ Told
  BY <1>1 DEF Stage, Unplugged, Between, Asking, Waiting, Ready, TxQuiet, Refused, Refusal, Cleared, Writing
<1>3. CASE Sending
  <2>1. ~Takes
    BY <1>1, <1>3 DEF Sending, Offered, Received, CbwGiven, Takes
  <2>2. UNCHANGED <<env, host>>
    BY <2>1 DEF TakeCsw
  <2> QED
    BY <1>1, <1>3, <2>1, <2>2, TakeAgain
<1> QED
  BY <1>2, <1>3

-----------------------------------------------------------------------------
(* The host clears a stall.                                                *)
LEMMA ReopenEffects ==
  /\ \A tx \in TxType : LET e == OpenTx(usbd_ept_close(usbd_clear_stall(tx))) IN
       e \in TxType /\ e.sts = "nak" /\ e.tog = 0 /\ e.tc = tx.tc /\ e.pkt = tx.pkt /\ e.rest = tx.rest
  /\ \A rx \in RxType : LET e == OpenRx(usbd_ept_close(usbd_clear_stall(rx))) IN
       e \in RxType /\ e.sts = "valid" /\ e.tog = 0 /\ e.tc = rx.tc
<1>1. ASSUME NEW tx \in TxType, NEW e, e = OpenTx(usbd_ept_close(usbd_clear_stall(tx)))
      PROVE  /\ e \in TxType /\ e.sts = "nak" /\ e.tog = 0 /\ e.tc = tx.tc
             /\ e.pkt = tx.pkt /\ e.rest = tx.rest
  BY <1>1 DEF OpenTx, usbd_ept_close, usbd_clear_stall, TxType, Statuses
<1>2. ASSUME NEW rx \in RxType, NEW e, e = OpenRx(usbd_ept_close(usbd_clear_stall(rx)))
      PROVE  e \in RxType /\ e.sts = "valid" /\ e.tog = 0 /\ e.tc = rx.tc
  BY <1>2 DEF OpenRx, usbd_ept_close, usbd_clear_stall, RxType, Statuses
<1> QED
  BY <1>1, <1>2

LEMMA ClearIn ==
  ASSUME TypeInv, BaseInv, Refusal, ~Had, dev' = ClearHalt(dev, TRUE),
         tog' = [tog EXCEPT !.in = 0], env' = env, host' \in HostType, host'.phase = "status",
         host'.cmd = host.cmd, host'.answers = host.answers, InCommand
  PROVE  Told' /\ InStep
<1> DEFINE tx == OpenTx(usbd_ept_close(usbd_clear_stall(dev.tx)))
           d  == [dev EXCEPT !.tx = tx]
<1>1. /\ dev \in DevType /\ dev.tx \in TxType /\ dev.rx \in RxType /\ dev.bot_status = "idle"
      /\ tog \in [{"in", "out"} -> {0, 1}]
  BY DEF TypeInv, DevType, BaseInv
<1>2. tx \in TxType /\ tx.sts = "nak" /\ tx.tog = 0 /\ tx.tc = dev.tx.tc
  BY <1>1, ReopenEffects
<1>3. d = [dev EXCEPT !.tx = OpenTx(usbd_ept_close(usbd_clear_stall(dev.tx)))]
  OBVIOUS
<1> HIDE DEF tx
<1>4. /\ d \in DevType /\ d.tx = tx /\ d.rx = dev.rx /\ SameCommand(dev, d) /\ SameData(dev, d)
  BY <1>1, <1>2, DevEndpoint
<1>5. d.bot_status = "idle"
  BY <1>1, <1>4 DEF SameCommand
<1>6. dev' = bot_scsi_send_csw(d, "fail")
  BY <1>3, <1>5 DEF ClearHalt, bot_scsi_clear_feature
<1> HIDE DEF d
<1>7. /\ dev' \in DevType /\ SameCommand(d, dev') /\ SameData(d, dev') /\ Rearmed(d, dev')
      /\ dev'.msc_state = "idle"
      /\ dev'.tx.sts = "valid" /\ dev'.tx.tog = d.tx.tog /\ dev'.tx.tc = d.tx.tc
      /\ dev'.tx.pkt = <<CswUnit(dev', "fail")>> /\ dev'.tx.rest = <<>>
  BY <1>4, <1>6, SendCswEffect
<1>8. SameCommand(dev, dev') /\ dev'.disk = dev.disk /\ dev'.sense = dev.sense
  BY <1>4, <1>7 DEF SameCommand, SameData
<1>9. /\ tog' \in [{"in", "out"} -> {0, 1}] /\ tog'.out = tog.out /\ tog'.in = 0
  BY <1>1
<1>10. ~Had'
  BY <1>4, <1>7, <1>9 DEF Rearmed, Had
<1>11. RxArmed'
  BY <1>4, <1>7 DEF Rearmed, RxArmed, RxEmpty, Refusal
<1>12. Failed'
  <2>1. Untouched'
    BY <1>8, SameDisk DEF Refusal
  <2> QED
    BY <1>8, <2>1, SameScript DEF Failed, Refusal
<1>13. Decoded'
  BY <1>8 DEF Refusal, Decoded, SameCommand
<1>14. tog'.in = dev'.tx.tog /\ ~dev'.tx.tc
  BY <1>2, <1>4, <1>7, <1>9 DEF Refusal
<1>15. Told'
  BY <1>7, <1>10, <1>11, <1>12, <1>13, <1>14 DEF Told, ToldPhase
<1>16. InCommand'
  BY DEF InCommand
<1> QED
  BY <1>7, <1>8, <1>9, <1>10, <1>15, <1>16 DEF InStep

LEMMA ClearOut ==
  ASSUME TypeInv, BaseInv, Refusal, dev' = ClearHalt(dev, FALSE),
         tog' = [tog EXCEPT !.out = 0], env' = env, host' = Enter("status"), InCommand
  PROVE  Cleared' /\ InStep
<1> DEFINE rx == OpenRx(usbd_ept_close(usbd_clear_stall(dev.rx)))
           d  == [dev EXCEPT !.rx = rx]
<1>1. /\ dev \in DevType /\ dev.rx \in RxType /\ dev.bot_status = "idle"
      /\ tog \in [{"in", "out"} -> {0, 1}] /\ host \in HostType
  BY DEF TypeInv, DevType, BaseInv
<1>2. rx \in RxType /\ rx.sts = "valid" /\ rx.tog = 0 /\ rx.tc = dev.rx.tc
  BY <1>1, ReopenEffects
<1>3. d = [dev EXCEPT !.rx = OpenRx(usbd_ept_close(usbd_clear_stall(dev.rx)))]
  OBVIOUS
<1> HIDE DEF rx
<1>4. /\ d \in DevType /\ d.rx = rx /\ d.tx = dev.tx /\ SameCommand(dev, d) /\ SameData(dev, d)
  BY <1>1, <1>2, DevEndpoint
<1>5. d.bot_status = "idle"
  BY <1>1, <1>4 DEF SameCommand
<1>6. dev' = d
  BY <1>3, <1>5 DEF ClearHalt, bot_scsi_clear_feature
<1> HIDE DEF d
<1>7. /\ tog' \in [{"in", "out"} -> {0, 1}] /\ tog'.out = 0
  BY <1>1
<1>8. /\ host' \in HostType /\ host'.phase = "status" /\ host'.cmd = host.cmd
      /\ host'.answers = host.answers /\ host'.stalls = host.stalls
  BY <1>1 DEF Enter, HostType, Phases
<1>9. ~Had' /\ InCommand'
  BY <1>2, <1>4, <1>6, <1>7, <1>8 DEF Had, InCommand
<1>10. Untouched'
  BY <1>4, <1>6, <1>8, SameDisk DEF SameData, Refusal
<1>11. /\ Current' = Current /\ Deserved(Current)' = Deserved(Current) /\ Reason(Current)' = Reason(Current)
  BY <1>8, SameScript
<1>12. Decoded'
  BY <1>4, <1>6, <1>8 DEF Refusal, Decoded, SameCommand
<1>13. dev'.sense = Reason(Current)'
  BY <1>4, <1>6, <1>11 DEF SameData, Refusal
<1>14. dev'.tx.sts = "stall" /\ ~dev'.tx.tc /\ ~dev'.rx.tc /\ host'.stalls = 0
  BY <1>2, <1>4, <1>6, <1>8 DEF Refusal
<1>15. Refusal'
  BY <1>10, <1>11, <1>12, <1>13, <1>14 DEF Refusal
<1> QED
  BY <1>4, <1>6, <1>7, <1>8, <1>9, <1>15 DEF Cleared, InStep, SameCommand, SameData

LEMMA ClearDataStage ==
  ASSUME TypeInv, BaseInv, Tame(env), Stage, ClearData
  PROVE  Stage' /\ InStep
<1>1. StalledData /\ host.phase = "data" /\ InCommand
  BY DEF ClearData, StalledData, InCommand
<1>2. Refused
  <2>1. ~Unplugged /\ ~Between /\ ~Asking /\ ~Cleared /\ ~Told
    BY <1>1 DEF Unplugged, Between, Asking, Cleared, Told, RxArmed, StalledData
  <2>2. ~Waiting
    BY <1>1 DEF Waiting, Ready, TxQuiet, StalledData
  <2>3. ~Sending
    BY <1>1 DEF Sending, Offered, Received, StalledData
  <2>4. ~Writing
    BY <1>1 DEF Writing, TxQuiet, Receptive, Holding, StalledData
  <2> QED
    BY <2>1, <2>2, <2>3, <2>4 DEF Stage
<1>3. Refusal /\ ~Had
  BY <1>1, <1>2 DEF Refused, CbwGiven
<1>4. /\ dev' = ClearHalt(dev, Current.in) /\ host' = Enter("status") /\ env' = env
      /\ tog' = IF Current.in THEN [tog EXCEPT !.in = 0] ELSE [tog EXCEPT !.out = 0]
  BY DEF ClearData
<1>5. Current.in \in BOOLEAN
  BY <1>1, AtHand
<1>6. CASE Current.in
  <2>1. Current.in = TRUE
    BY <1>5, <1>6
  <2>2. dev' = ClearHalt(dev, TRUE) /\ tog' = [tog EXCEPT !.in = 0]
    BY <1>4, <2>1
  <2>3. /\ host' \in HostType /\ host'.phase = "status" /\ host'.cmd = host.cmd
        /\ host'.answers = host.answers
    BY <1>4 DEF Enter, TypeInv, HostType, Phases
  <2> QED
    BY <1>1, <1>3, <1>4, <2>2, <2>3, ClearIn DEF Stage
<1>7. CASE ~Current.in
  <2>1. Current.in = FALSE
    BY <1>5, <1>7
  <2>2. dev' = ClearHalt(dev, FALSE) /\ tog' = [tog EXCEPT !.out = 0]
    BY <1>4, <2>1
  <2> QED
    BY <1>1, <1>3, <1>4, <2>2, ClearOut DEF Stage
<1> QED
  BY <1>6, <1>7

LEMMA ClearStatusStage ==
  ASSUME TypeInv, BaseInv, Tame(env), Stage, ClearStatus
  PROVE  Stage' /\ InStep
<1>1. host.phase = "status" /\ dev.tx.sts = "stall" /\ InCommand
  BY DEF ClearStatus, StalledStatus, InCommand
<1>2. Refused \/ Cleared
  BY <1>1 DEF Stage, Unplugged, Between, Asking, Waiting, Ready, TxQuiet, Sending, Offered, Received,
              Writing, Told
<1>3. Refusal /\ ~Had
  BY <1>1, <1>2 DEF Refused, Cleared, CbwGiven
<1>4. /\ dev' = ClearHalt(dev, TRUE) /\ env' = env /\ tog' = [tog EXCEPT !.in = 0]
      /\ host' = [host EXCEPT !.stalls = 1]
  BY DEF ClearStatus
<1>5. /\ host' \in HostType /\ host'.phase = "status" /\ host'.cmd = host.cmd
      /\ host'.answers = host.answers
  BY <1>1, <1>4 DEF TypeInv, HostType
<1> QED
  BY <1>1, <1>3, <1>4, <1>5, ClearIn DEF Stage

-----------------------------------------------------------------------------
(* Between the commands, and what the host never comes to.                 *)
Begun ==
  /\ dev' = dev /\ tog' = tog /\ env' = env /\ host' \in HostType
  /\ host'.cmd = host.cmd + 1 /\ host'.cmd <= Len(Script) /\ host'.answers = host.answers
  /\ ~InCommand /\ InCommand'

LEMMA NextCommandStage ==
  ASSUME TypeInv, BaseInv, Stage, NextCommand
  PROVE  Asking' /\ Begun
<1>1. host.phase = "idle" /\ host.cmd < Len(Script) /\ UNCHANGED <<dev, tog, env>>
  BY DEF NextCommand
<1>2. Between
  BY <1>1 DEF Stage, Unplugged, Between, Asking, Waiting, Refused, Cleared, Sending, Offered, Received,
              Writing, Receptive, Holding, GivenUpTo, Told, ToldPhase, CbwGiven, DataOrStatus
<1>3. host \in HostType /\ host.cmd \in Nat /\ env \in Environments /\ Len(Script) \in Nat
  BY EnvFacts DEF TypeInv, HostType
<1>4. /\ host' \in HostType /\ host'.phase = "cbw" /\ host'.cmd = host.cmd + 1
      /\ host'.got = <<>> /\ host'.sent = 0 /\ host'.stalls = 0 /\ host'.answers = host.answers
  <2> DEFINE h == [host EXCEPT !.phase = "cbw", !.cmd = host.cmd + 1]
             g == [h EXCEPT !.got = <<>>, !.sent = 0, !.stalls = 0]
  <2>1. host.cmd + 1 \in Nat /\ <<>> \in Packet
    BY <1>3, PacketFacts
  <2>2. /\ h \in HostType /\ h.phase = "cbw" /\ h.cmd = host.cmd + 1 /\ h.answers = host.answers
    BY <1>3, <2>1 DEF HostType, Phases
  <2>3. host' = g
    BY <1>3 DEF NextCommand, HostType
  <2> HIDE DEF h
  <2>4. g \in HostType
    BY <2>1, <2>2 DEF HostType
  <2>5. /\ g.phase = "cbw" /\ g.cmd = host.cmd + 1 /\ g.answers = host.answers
        /\ g.got = <<>> /\ g.sent = 0 /\ g.stalls = 0
    BY <2>2 DEF HostType
  <2> QED
    BY <2>3, <2>4, <2>5
<1>5. Fresh' /\ ~Had'
  BY <1>1, <1>2, <1>4 DEF Fresh, Between, Had
<1>6. SenseKept'
  BY <1>1, <1>2, <1>4 DEF Between, Ready, SenseKept, Answers, Command, Script, Reason, Legal, Moves, InRange
<1>7. Ready' /\ RxArmed'
  BY <1>1, <1>2, <1>6 DEF Between, Ready, TxQuiet, RxEmpty, RxArmed
<1>8. Untouched'
  <2>1. ASSUME NEW a \in 1 .. NBlk * BlkSize, dev.disk[a][1] = "out" PROVE dev.disk[a][2] # host.cmd + 1
    <3>1. dev.disk[a][2] <= host.cmd
      BY <2>1 DEF BaseInv
    <3> QED
      BY <1>3, <3>1
  <2> QED
    BY <1>1, <1>4, <2>1 DEF Untouched, WrittenIn
<1>9. ~InCommand /\ InCommand'
  BY <1>1, <1>4 DEF InCommand
<1>10. host.cmd + 1 <= Len(Script)
  BY <1>1, <1>3
<1> QED
  BY <1>1, <1>4, <1>5, <1>7, <1>8, <1>9, <1>10 DEF Asking, Begun

(* The host is never left without an answer.                               *)
LEMMA NeverSilent ==
  ASSUME TypeInv, BaseInv, Tame(env), Stage
  PROVE  ~GiveUp /\ host.phase \notin {"reset", "clear_in", "clear_out"}
<1>1. Writing => ~Current.in
  BY WritingFacts
<1>2. Writing /\ Receptive => host.phase # "status"
  <2> SUFFICES ASSUME Writing, Receptive PROVE host.phase # "status"
    OBVIOUS
  <2> DEFINE b == Len(dev.rx.buf)
             c == Chunk(dev)
             l == Current.len
  <2>1. /\ Off \in Nat /\ b \in Nat /\ c \in Nat /\ dev.blk_len \in Nat /\ dev.rx.room \in Nat
        /\ Off + dev.blk_len = l /\ c <= dev.blk_len /\ MaxPacket \in Nat /\ MaxPacket > 1
        /\ b + MaxPacket + dev.rx.room = c
    BY WritingFacts, Sizes DEF Writing
  <2>2. Off + b # l
    BY <2>1, SMTT(30)
  <2> QED
    BY <2>2 DEF Receptive, GivenUpTo
<1>3. Silent => ~dev.tx.tc /\ ~dev.rx.tc
  BY DEF Silent
<1>4. Silent => ~Waiting /\ ~Holding
  BY <1>3 DEF Waiting, Holding
<1>5. ~(Silent /\ (Unplugged \/ Between \/ Asking))
  BY DEF Silent, Unplugged, Between, Asking, RxArmed, Hears
<1>6. ~(Silent /\ Refused)
  BY DEF Silent, Refused, Refusal, CbwGiven, DataOrStatus, HasDataOut, Hears
<1>7. ~(Silent /\ Cleared)
  BY DEF Silent, Cleared, Refusal
<1>8. ~(Silent /\ Sending)
  BY DEF Silent, Sending, Offered, Received, CbwGiven, Hears
<1>9. ~(Silent /\ Writing)
  BY <1>1, <1>2, <1>4 DEF Silent, Writing, Receptive, GivenUpTo, Hears
<1>10. ~(Silent /\ Told)
  BY DEF Silent, Told, RxArmed, Hears
<1>11. ~Silent
  BY <1>4, <1>5, <1>6, <1>7, <1>8, <1>9, <1>10 DEF Stage
<1>12. ~(StalledStatus /\ host.stalls = 1)
  <2>1. Refused \/ Cleared => host.stalls # 1
    BY DEF Refused, Cleared, Refusal
  <2>2. Unplugged \/ Between \/ Asking => ~StalledStatus
    BY DEF Unplugged, Between, Asking, StalledStatus
  <2>3. Waiting \/ Writing => dev.tx.sts = "nak"
    BY DEF Waiting, Writing, Ready, TxQuiet
  <2>4. Sending \/ Told => dev.tx.sts \in {"nak", "valid"}
    BY DEF Sending, Offered, Received, Told
  <2>5. StalledStatus => dev.tx.sts = "stall"
    BY DEF StalledStatus
  <2> QED
    BY <2>1, <2>2, <2>3, <2>4, <2>5 DEF Stage
<1>13. host.phase \notin {"reset", "clear_in", "clear_out"}
  BY DEF Stage, Unplugged, Between, Asking, Waiting, Refused, Cleared, Sending, Offered, Received,
         Writing, Receptive, Holding, GivenUpTo, Told, ToldPhase, CbwGiven, DataOrStatus
<1> QED
  BY <1>11, <1>12, <1>13 DEF GiveUp

LEMMA ConfigureEffect ==
  ASSUME NEW d \in DevType, NEW e, e = class_init_handler(d)
  PROVE  /\ e \in DevType /\ e.conf /\ e.msc_state = "idle" /\ e.bot_status = "idle" /\ e.tag = 0
         /\ e.cbw = d.cbw /\ e.nbr = d.nbr /\ e.disk = d.disk /\ e.sense = d.sense
         /\ e.tx.sts = "nak" /\ e.tx.tog = 0 /\ e.tx.tc = d.tx.tc /\ e.tx.rest = d.tx.rest
         /\ e.rx.sts = "valid" /\ e.rx.tog = 0 /\ e.rx.tc = d.rx.tc
         /\ e.rx.room = 0 /\ e.rx.buf = <<>> /\ e.rx.len = 0
<1> DEFINE tx == OpenTx(d.tx)
           rx == OpenRx(d.rx)
           ry == usbd_ept_recv(rx, 1)
           f == [d EXCEPT !.tx = tx, !.rx = rx, !.conf = TRUE]
           g == [f EXCEPT !.msc_state = "idle", !.bot_status = "idle", !.residue = 0]
<1>1. d.tx \in TxType /\ d.rx \in RxType
  BY DEF DevType
<1>2. /\ tx \in TxType /\ tx.sts = "nak" /\ tx.tog = 0 /\ tx.tc = d.tx.tc /\ tx.rest = d.tx.rest
  BY <1>1 DEF OpenTx, TxType, Statuses
<1>3. rx \in RxType /\ rx.tog = 0 /\ rx.tc = d.rx.tc
  BY <1>1 DEF OpenRx, RxType, Statuses
<1> HIDE DEF tx, rx
<1>4. ~(1 > MaxPacket)
  BY Sizes
<1>5. /\ ry \in RxType /\ ry.sts = "valid" /\ ry.tog = 0 /\ ry.tc = d.rx.tc
      /\ ry.room = 0 /\ ry.len = 0 /\ ry.buf = <<>>
  <2>1. rx \in RxType /\ 1 \in Nat
    BY <1>3
  <2>2. /\ usbd_ept_recv(rx, 1) \in RxType
        /\ usbd_ept_recv(rx, 1).sts = "valid" /\ usbd_ept_recv(rx, 1).tog = rx.tog
        /\ usbd_ept_recv(rx, 1).tc = rx.tc
        /\ usbd_ept_recv(rx, 1).room = (IF 1 > MaxPacket THEN 1 - MaxPacket ELSE 0)
        /\ usbd_ept_recv(rx, 1).len = 0 /\ usbd_ept_recv(rx, 1).buf = <<>>
    BY ONLY <2>1, RecvEffect
  <2> QED
    BY <1>3, <1>4, <2>2
<1>6. e = [g EXCEPT !.tag = 0, !.rx = ry]
  <2>1. e = bot_scsi_init(f)
    BY DEF class_init_handler, tx, rx
  <2>2. f.rx = rx
    BY DEF DevType
  <2> QED
    BY <2>1, <2>2 DEF bot_scsi_init, DevType
<1> HIDE DEF ry
<1>7. /\ f \in DevType /\ f.tx = tx /\ f.conf = TRUE /\ f.cbw = d.cbw /\ f.nbr = d.nbr
      /\ f.disk = d.disk /\ f.sense = d.sense
  <2>1. f \in DevType
    BY <1>2, <1>3 DEF DevType
  <2> QED
    BY <2>1 DEF DevType
<1> HIDE DEF f
<1>8. /\ g \in DevType /\ g.tx = tx /\ g.conf = TRUE /\ g.cbw = d.cbw /\ g.nbr = d.nbr
      /\ g.disk = d.disk /\ g.sense = d.sense /\ g.msc_state = "idle" /\ g.bot_status = "idle"
  <2>1. g \in DevType
    BY <1>7 DEF DevType, MscStates
  <2> QED
    BY <1>7, <2>1 DEF DevType
<1> HIDE DEF g
<1>9. e \in DevType
  <2>1. [g EXCEPT !.tag = 0] \in DevType
    BY <1>8 DEF DevType
  <2>2. \A h \in DevType : [h EXCEPT !.rx = ry] \in DevType
    BY <1>5 DEF DevType
  <2>3. e = [[g EXCEPT !.tag = 0] EXCEPT !.rx = ry]
    BY <1>6, <1>8 DEF DevType
  <2> QED
    BY <2>1, <2>2, <2>3
<1>10. /\ e.tx = tx /\ e.rx = ry /\ e.conf = TRUE /\ e.cbw = d.cbw /\ e.nbr = d.nbr /\ e.tag = 0
       /\ e.disk = d.disk /\ e.sense = d.sense /\ e.msc_state = "idle" /\ e.bot_status = "idle"
  BY <1>6, <1>8 DEF DevType
<1> QED
  BY <1>2, <1>5, <1>9, <1>10

(* A step while no command runs.                                           *)
Rested ==
  /\ dev' \in DevType /\ dev'.disk = dev.disk /\ dev'.bot_status = "idle"
  /\ dev'.nbr = dev.nbr /\ dev'.tag \in {0, dev.tag} /\ dev'.cbw = dev.cbw
  /\ tog' \in [{"in", "out"} -> {0, 1}] /\ env' = env
  /\ host' \in HostType /\ host'.cmd = host.cmd /\ host'.answers = host.answers
  /\ ~InCommand /\ ~InCommand' /\ ~Had'

LEMMA SenseStays ==
  ASSUME env' = env, host'.answers = host.answers, dev'.sense = dev.sense, SenseKept
  PROVE  SenseKept'
BY DEF SenseKept, Answers, Command, Script, Reason, Legal, Moves, InRange

LEMMA ConfigureStage ==
  ASSUME TypeInv, BaseInv, Stage, Configure
  PROVE  Between' /\ Rested
<1>1. host.phase = "unplugged" /\ UNCHANGED <<tog, env>> /\ host' = Enter("idle")
  BY DEF Configure
<1>2. Unplugged
  BY <1>1 DEF Stage, Unplugged, Between, Asking, Waiting, Refused, Cleared, Sending, Offered, Received,
              Writing, Receptive, Holding, GivenUpTo, Told, ToldPhase, CbwGiven, DataOrStatus
<1>3. dev \in DevType /\ host \in HostType /\ tog \in [{"in", "out"} -> {0, 1}]
  BY DEF TypeInv
<1>4. dev' = class_init_handler(dev)
  BY DEF Configure
<1>5. /\ dev' \in DevType /\ dev'.conf /\ dev'.msc_state = "idle" /\ dev'.bot_status = "idle"
      /\ dev'.tag = 0
      /\ dev'.cbw = dev.cbw /\ dev'.nbr = dev.nbr /\ dev'.disk = dev.disk /\ dev'.sense = dev.sense
      /\ dev'.tx.sts = "nak" /\ dev'.tx.tog = 0 /\ dev'.tx.tc = dev.tx.tc /\ dev'.tx.rest = dev.tx.rest
      /\ dev'.rx.sts = "valid" /\ dev'.rx.tog = 0 /\ dev'.rx.tc = dev.rx.tc
      /\ dev'.rx.room = 0 /\ dev'.rx.buf = <<>> /\ dev'.rx.len = 0
  BY <1>3, <1>4, ConfigureEffect
<1>6. /\ host' \in HostType /\ host'.phase = "idle" /\ host'.cmd = host.cmd
      /\ host'.answers = host.answers
  BY <1>1, <1>3 DEF Enter, HostType, Phases
<1>7. ~Had' /\ TxQuiet' /\ RxArmed'
  BY <1>1, <1>2, <1>5 DEF Unplugged, Had, TxQuiet, RxArmed, RxEmpty
<1>8. SenseKept'
  BY <1>1, <1>2, <1>5, <1>6, SenseStays DEF Unplugged
<1>9. Ready'
  BY <1>2, <1>5, <1>7, <1>8 DEF Ready, RxArmed, Unplugged
<1>10. ~InCommand /\ ~InCommand'
  BY <1>1, <1>6 DEF InCommand
<1> QED
  BY <1>1, <1>3, <1>5, <1>6, <1>7, <1>9, <1>10 DEF Between, Rested

LEMMA PortResetStage ==
  ASSUME TypeInv, BaseInv, Stage, PortReset
  PROVE  /\ Unplugged'
         /\ InCommand => Ended([verdict |-> "unplugged", data |-> host.got, residue |-> 0])
         /\ ~InCommand => Rested
<1> DEFINE tx == SwitchedOff(dev.tx)
           rx == SwitchedOff(dev.rx)
           h  == [host EXCEPT !.phase = "unplugged", !.unplugs = @ + 1]
           a  == [verdict |-> "unplugged", data |-> host.got, residue |-> 0]
<1>1. /\ host.phase # "unplugged" /\ env' = env /\ tog' = [in |-> 0, out |-> 0]
      /\ host' = IF InCommand THEN Answer(h, "unplugged", 0) ELSE h
  BY DEF PortReset
<1>2. /\ dev \in DevType /\ dev.tx \in TxType /\ dev.rx \in RxType /\ host \in HostType
      /\ host.unplugs \in Nat /\ dev.bot_status = "idle"
  BY DEF TypeInv, DevType, HostType, BaseInv
<1>3. /\ tx \in TxType /\ tx.sts = "disable" /\ tx.tc = FALSE /\ tx.tog = 0
      /\ rx \in RxType /\ rx.sts = "disable" /\ rx.tc = FALSE /\ rx.tog = 0
  BY <1>2, EndpointEffects
<1>4. dev' = [dev EXCEPT !.tx = tx, !.rx = rx, !.conf = FALSE]
  BY DEF PortReset
<1> HIDE DEF tx, rx
<1>5. /\ dev' \in DevType /\ dev'.tx = tx /\ dev'.rx = rx /\ ~dev'.conf /\ dev'.disk = dev.disk
      /\ dev'.bot_status = "idle" /\ dev'.nbr = dev.nbr /\ dev'.tag = dev.tag /\ dev'.cbw = dev.cbw
      /\ dev'.sense = dev.sense
  <2>1. dev' \in DevType
    BY <1>2, <1>3, <1>4 DEF DevType
  <2> QED
    BY <1>2, <1>4, <2>1 DEF DevType
<1>6. tog' \in [{"in", "out"} -> {0, 1}] /\ tog'.in = 0 /\ tog'.out = 0
  BY <1>1
<1>7. ~Had'
  BY <1>3, <1>5, <1>6 DEF Had
<1>8. /\ h \in HostType /\ h.phase = "unplugged" /\ h.cmd = host.cmd /\ h.answers = host.answers
      /\ h.got = host.got
  <2>1. host.unplugs + 1 \in Nat
    BY <1>2
  <2>2. h \in HostType
    BY <1>2, <2>1 DEF HostType, Phases
  <2> QED
    BY <1>2, <2>2 DEF HostType
<1> HIDE DEF h
<1>9. ASSUME host'.phase = "unplugged", SenseKept' PROVE Unplugged'
  BY <1>3, <1>5, <1>6, <1>9 DEF Unplugged
<1>10. CASE InCommand
  <2>1. /\ a \in AnswerType /\ host' \in HostType /\ host'.answers = Append(host.answers, a)
        /\ host'.phase = "unplugged" /\ host'.cmd = host.cmd
    BY <1>1, <1>8, <1>10, AnswerEffect
  <2>2. ~InCommand'
    BY <2>1 DEF InCommand
  <2>3. Ended(a)
    BY <1>1, <1>2, <1>5, <1>6, <1>7, <1>10, <2>1, <2>2 DEF Ended
  <2>4. SenseKept'
    <3>1. Len(Answers') = Len(Answers) + 1 /\ Answers'[Len(Answers) + 1] = a
      BY <2>1, LastAnswer
    <3>2. a.verdict # "fail"
      OBVIOUS
    <3> HIDE DEF a
    <3> QED
      BY <3>1, <3>2 DEF SenseKept
  <2> QED
    BY <1>9, <1>10, <2>1, <2>3, <2>4
<1>11. CASE ~InCommand
  <2>1. host' = h
    BY <1>1, <1>11
  <2>2. host.phase = "idle"
    BY <1>1, <1>11 DEF InCommand
  <2>3. SenseKept
    BY <2>2 DEF Stage, Unplugged, Between, Asking, Waiting, Ready, Refused, Cleared, Sending, Writing,
                Told, ToldPhase, CbwGiven, DataOrStatus
  <2>4. SenseKept'
    BY <1>1, <1>5, <1>8, <2>1, <2>3, SenseStays
  <2>5. ~InCommand'
    BY <1>8, <2>1 DEF InCommand
  <2>6. Rested
    BY <1>1, <1>5, <1>6, <1>7, <1>8, <1>11, <2>1, <2>5 DEF Rested
  <2> QED
    BY <1>8, <1>9, <1>11, <2>1, <2>4, <2>6
<1> QED
  BY <1>10, <1>11

-----------------------------------------------------------------------------
(* Every step leads from stage to stage, and is of one of five kinds.      *)
Earned(a) ==
  \/ a.verdict = "unplugged" /\ env.unplugs > 0 /\ Len(Answers) > 0
  \/ /\ Told /\ a.data = host.got /\ a.residue = dev.residue
     /\ (a.verdict = "pass" /\ Done) \/ (a.verdict = "fail" /\ Failed)

Interrupted ==
  /\ UNCHANGED <<tog, env, host>>
  /\ Decoded' \/ SameCommand(dev, dev')
  /\ Kept \/ (Writing /\ Wrote)

LEMMA NextStage ==
  ASSUME TypeInv, BaseInv, Tame(env), Stage, Next
  PROVE  /\ Stage'
         /\ Interrupted \/ InStep \/ Begun \/ Rested \/ \E a : Ended(a) /\ Earned(a)
<1>1. CASE EptInterrupt
  <2>1. UNCHANGED <<tog, env, host>>
    BY <1>1 DEF EptInterrupt
  <2> QED
    BY <1>1, <2>1, InterruptStage DEF Interrupted
<1>2. ASSUME NEW lost \in BOOLEAN, Wire(lost) PROVE Stage' /\ InStep
  <2>1. CASE GiveCbw(lost)
    BY <2>1, GiveCbwStage
  <2>2. CASE TakeData(lost)
    BY <2>2, TakeDataStage DEF Stage
  <2>3. CASE GiveData(lost)
    BY <2>3, GiveDataStage
  <2> QED
    BY <1>2, <2>1, <2>2, <2>3 DEF Wire
<1>3. CASE Wire(TRUE) \/ Wire(FALSE)
  BY <1>2, <1>3
<1>4. CASE NextCommand
  BY <1>4, NextCommandStage DEF Stage
<1>5. CASE TakeCsw
  <2>1. CASE Told
    BY <1>5, <2>1, TakeCswTold DEF Stage, Earned
  <2>2. CASE ~Told
    BY <1>5, <2>2, TakeCswStage DEF Stage
  <2> QED
    BY <2>1, <2>2
<1>6. CASE ClearData
  BY <1>6, ClearDataStage
<1>7. CASE ClearStatus
  BY <1>7, ClearStatusStage
<1>8. CASE Configure
  BY <1>8, ConfigureStage DEF Stage
<1>9. ~GiveUp /\ ~BoReset /\ ~RecoverIn /\ ~RecoverOut
  BY NeverSilent DEF BoReset, RecoverIn, RecoverOut
<1>10. CASE PortReset
  <2> DEFINE a == [verdict |-> "unplugged", data |-> host.got, residue |-> 0]
  <2>1. /\ Unplugged' /\ (InCommand => Ended(a)) /\ (~InCommand => Rested)
    BY <1>10, PortResetStage
  <2>2. env.unplugs > 0 /\ Len(Answers) > 0
    <3>1. host.unplugs \in Nat /\ env.unplugs \in Nat /\ host.unplugs < env.unplugs
      BY <1>10, EnvFacts DEF PortReset, TypeInv, HostType
    <3> QED
      BY <1>10, <3>1 DEF PortReset, Answers
  <2>3. Earned(a)
    BY <2>2 DEF Earned
  <2> HIDE DEF a
  <2> QED
    BY <2>1, <2>3 DEF Stage
<1> QED
  BY <1>1, <1>3, <1>4, <1>5, <1>6, <1>7, <1>8, <1>9, <1>10 DEF Next, HostStep, Requests

LEMMA TypeKept ==
  ASSUME TypeInv, Interrupted \/ InStep \/ Begun \/ Rested \/ \E a : Ended(a)
  PROVE  TypeInv'
<1>1. CASE Interrupted
  BY <1>1 DEF TypeInv, Interrupted, Kept, Wrote
<1>2. CASE InStep
  BY <1>2 DEF TypeInv, InStep
<1>3. CASE Begun
  BY <1>3 DEF TypeInv, Begun
<1>4. CASE Rested
  BY <1>4 DEF TypeInv, Rested
<1>5. CASE \E a : Ended(a)
  BY <1>5 DEF TypeInv, Ended
<1> QED
  BY <1>1, <1>2, <1>3, <1>4, <1>5

LEMMA CellsStay ==
  ASSUME BaseInv, dev'.disk = dev.disk, host'.cmd \in Int, host.cmd \in Int, host.cmd <= host'.cmd,
         \A a \in 1 .. NBlk * BlkSize : dev.disk[a][2] \in Int
  PROVE  \A a \in 1 .. NBlk * BlkSize : dev'.disk[a][1] = "out" => dev'.disk[a][2] <= host'.cmd
<1> SUFFICES ASSUME NEW a \in 1 .. NBlk * BlkSize, dev.disk[a][1] = "out"
             PROVE  dev.disk[a][2] <= host'.cmd
  OBVIOUS
<1>1. dev.disk[a][2] <= host.cmd /\ dev.disk[a][2] \in Int
  BY DEF BaseInv
<1> QED
  BY <1>1

LEMMA BaseKept ==
  ASSUME TypeInv, BaseInv, Tame(env), Stage,
         Interrupted \/ InStep \/ Begun \/ Rested \/ \E a : Ended(a) /\ Earned(a)
  PROVE  BaseInv'
<1>1. /\ env \in Environments /\ Len(Script) \in Nat /\ env.losses \in Nat
      /\ host.cmd \in Nat /\ Len(Answers) \in Nat /\ dev.tag \in Nat /\ dev.cbw \in Nat
  BY EnvFacts DEF TypeInv, HostType, DevType, Answers
<1>2. \A a \in 1 .. NBlk * BlkSize : dev.disk[a][2] \in Int
  <2>1. \A u \in Unit : u[2] \in Int
    BY DEF Unit
  <2> QED
    BY <2>1 DEF TypeInv, DevType
<1>3. /\ host.cmd = Len(Answers) + (IF InCommand THEN 1 ELSE 0)
      /\ host.cmd <= Len(Script) /\ dev.tag <= Len(Script) /\ dev.cbw <= Len(Script)
      /\ dev.bot_status = "idle"
      /\ Len(Answers) > 0 => dev.nbr = NBlk
      /\ Had => env.losses > 0
  BY DEF BaseInv
<1>4. CASE Interrupted
  <2>1. UNCHANGED <<tog, env, host>> /\ (Decoded' \/ SameCommand(dev, dev')) /\ dev'.rx.tog = dev.rx.tog
        /\ dev'.bot_status = "idle"
    BY <1>4 DEF Interrupted, Kept, Wrote
  <2>2. /\ Len(Answers') = Len(Answers) /\ Len(Script)' = Len(Script) /\ (InCommand' <=> InCommand)
        /\ (Had' <=> Had)
    BY <2>1, SameHost DEF Had
  <2>3. dev'.tag <= Len(Script) /\ dev'.cbw <= Len(Script) /\ (Len(Answers) > 0 => dev'.nbr = NBlk)
    BY <1>3, <2>1 DEF Decoded, SameCommand
  <2>4. \A a \in 1 .. NBlk * BlkSize : dev'.disk[a][1] = "out" => dev'.disk[a][2] <= host'.cmd
    <3>1. CASE Kept
      BY <1>1, <1>2, <2>1, <3>1, CellsStay DEF Kept
    <3>2. CASE Wrote
      <4> SUFFICES ASSUME NEW a \in 1 .. NBlk * BlkSize, dev'.disk[a][1] = "out"
                   PROVE  dev'.disk[a][2] <= host.cmd
        BY <2>1
      <4>1. CASE dev'.disk[a] = dev.disk[a]
        BY <4>1 DEF BaseInv
      <4>2. CASE dev'.disk[a] # dev.disk[a]
        <5>1. dev'.disk[a] = Written(host.cmd, a - Current.lba * BlkSize)
          BY <3>2, <4>2 DEF Wrote
        <5>2. \A i, k : Written(i, k)[2] = i
          BY DEF Written
        <5>3. dev'.disk[a][2] = host.cmd
          BY <5>1, <5>2
        <5> QED
          BY <1>1, <5>3
      <4> QED
        BY <4>1, <4>2
    <3> QED
      BY <1>4, <3>1, <3>2 DEF Interrupted
  <2>5. host'.cmd = Len(Answers') + IF InCommand' THEN 1 ELSE 0
    BY <1>3, <2>1, <2>2
  <2> QED
    BY <1>3, <2>1, <2>2, <2>3, <2>4, <2>5 DEF BaseInv
<1>5. CASE InStep
  <2>1. /\ SameCommand(dev, dev') /\ dev'.disk = dev.disk /\ env' = env /\ host'.cmd = host.cmd
        /\ host'.answers = host.answers /\ InCommand /\ InCommand' /\ (Had' => Had \/ env.losses > 0)
    BY <1>5 DEF InStep
  <2>2. /\ Len(Answers') = Len(Answers) /\ Len(Script)' = Len(Script)
    BY <2>1 DEF Answers, Script
  <2>3. \A a \in 1 .. NBlk * BlkSize : dev'.disk[a][1] = "out" => dev'.disk[a][2] <= host'.cmd
    BY <1>1, <1>2, <2>1, CellsStay
  <2>4. /\ dev'.tag <= Len(Script) /\ dev'.cbw <= Len(Script) /\ dev'.bot_status = "idle"
        /\ (Len(Answers) > 0 => dev'.nbr = NBlk)
    BY <1>3, <2>1 DEF SameCommand
  <2>5. host'.cmd = Len(Answers') + IF InCommand' THEN 1 ELSE 0
    BY <1>3, <2>1, <2>2
  <2> QED
    BY <1>3, <2>1, <2>2, <2>3, <2>4, <2>5 DEF BaseInv
<1>6. CASE Begun
  <2>1. /\ dev' = dev /\ tog' = tog /\ env' = env /\ host'.cmd = host.cmd + 1
        /\ host'.cmd <= Len(Script) /\ host'.answers = host.answers /\ ~InCommand /\ InCommand'
    BY <1>6 DEF Begun
  <2>2. /\ Len(Answers') = Len(Answers) /\ Len(Script)' = Len(Script) /\ (Had' <=> Had)
    BY <2>1 DEF Answers, Script, Had
  <2>3. \A a \in 1 .. NBlk * BlkSize : dev'.disk[a][1] = "out" => dev'.disk[a][2] <= host'.cmd
    BY <1>1, <1>2, <2>1, CellsStay
  <2>4. host'.cmd = Len(Answers') + IF InCommand' THEN 1 ELSE 0
    BY <1>1, <1>3, <2>1, <2>2
  <2> QED
    BY <1>3, <2>1, <2>2, <2>3, <2>4 DEF BaseInv
<1>7. CASE Rested
  <2>1. /\ dev'.disk = dev.disk /\ dev'.bot_status = "idle" /\ dev'.nbr = dev.nbr
        /\ dev'.tag \in {0, dev.tag} /\ dev'.cbw = dev.cbw /\ env' = env /\ host'.cmd = host.cmd
        /\ host'.answers = host.answers /\ ~InCommand /\ ~InCommand' /\ ~Had'
    BY <1>7 DEF Rested
  <2>2. /\ Len(Answers') = Len(Answers) /\ Len(Script)' = Len(Script)
    BY <2>1 DEF Answers, Script
  <2>3. \A a \in 1 .. NBlk * BlkSize : dev'.disk[a][1] = "out" => dev'.disk[a][2] <= host'.cmd
    BY <1>1, <1>2, <2>1, CellsStay
  <2>4. /\ dev'.tag <= Len(Script) /\ dev'.cbw <= Len(Script)
    BY <1>1, <1>3, <2>1
  <2>5. host'.cmd = Len(Answers') + IF InCommand' THEN 1 ELSE 0
    BY <1>3, <2>1, <2>2
  <2> QED
    BY <1>3, <2>1, <2>2, <2>3, <2>4, <2>5 DEF BaseInv
<1>8. CASE \E a : Ended(a) /\ Earned(a)
  <2>1. PICK a : Ended(a) /\ Earned(a)
    BY <1>8
  <2>2. /\ dev'.disk = dev.disk /\ dev'.bot_status = dev.bot_status /\ dev'.nbr = dev.nbr
        /\ dev'.tag = dev.tag /\ dev'.cbw = dev.cbw /\ env' = env /\ host'.cmd = host.cmd
        /\ a \in AnswerType /\ host'.answers = Append(host.answers, a) /\ InCommand /\ ~InCommand' /\ ~Had'
    BY <2>1 DEF Ended
  <2>3. Len(Answers') = Len(Answers) + 1 /\ Len(Script)' = Len(Script)
    BY <2>2, LastAnswer DEF Script
  <2>4. \A c \in 1 .. NBlk * BlkSize : dev'.disk[c][1] = "out" => dev'.disk[c][2] <= host'.cmd
    BY <1>1, <1>2, <2>2, CellsStay
  <2>5. dev.nbr = NBlk
    <3>1. CASE Len(Answers) > 0
      BY <1>3, <3>1
    <3>2. CASE Told
      BY <3>2 DEF Told, Decoded
    <3> QED
      BY <2>1, <3>1, <3>2 DEF Earned
  <2>6. host'.cmd = Len(Answers') + IF InCommand' THEN 1 ELSE 0
    BY <1>1, <1>3, <2>2, <2>3
  <2> QED
    BY <1>3, <2>2, <2>3, <2>4, <2>5, <2>6 DEF BaseInv
<1> QED
  BY <1>4, <1>5, <1>6, <1>7, <1>8

-----------------------------------------------------------------------------
(* What the answers have to tell, and that they do.                        *)
LEMMA AnswersStay ==
  ASSUME env' = env, host'.answers = host.answers, AnswersInv
  PROVE  AnswersInv'
<1>1. Answers' = Answers /\ \A i : Command(i)' = Command(i)
  BY DEF Answers, Command, Script
<1>2. \A i : /\ Deserved(Command(i))' = Deserved(Command(i))
             /\ CutShort(Command(i))' = CutShort(Command(i)) /\ Legal(Command(i))' = Legal(Command(i))
  BY <1>1 DEF Deserved, Works, CutShort, BreaksOff
<1>3. RightAnswer'
  BY <1>1, <1>2 DEF AnswersInv, RightAnswer
<1>4. ResidueTells'
  BY <1>1 DEF AnswersInv, ResidueTells
<1> QED
  BY <1>3, <1>4 DEF AnswersInv

(* What is due of a command that reads or asks for the sense data.         *)
LEMMA DoneSense ==
  ASSUME TypeInv, Done, Current.op = "sense"
  PROVE  host.got = <<<<"sense", 0, 0, dev.sense>>>>
<1>1. Len(host.got) = 1 /\ AllDue(0, host.got)
  BY DEF Done, Volume
<1>2. host.got \in Seq(Unit)
  BY DEF TypeInv, HostType, Packet
<1>3. Due(0 + 1, host.got[1])
  BY <1>1 DEF AllDue
<1>4. host.got[1] = <<"sense", 0, 0, dev.sense>>
  BY <1>3 DEF Due
<1> DEFINE u == <<"sense", 0, 0, dev.sense>>
<1>5. u \in Unit
  BY <1>1, <1>2, <1>4, ElementOfSeq
<1> HIDE DEF u
<1>6. <<u>> \in Seq(Unit) /\ Len(<<u>>) = 1 /\ <<u>>[1] = u
  BY <1>5
<1>7. \A i \in 1 .. Len(host.got) : host.got[i] = <<u>>[i]
  BY <1>1, <1>4, <1>6 DEF u
<1>8. host.got = <<u>>
  BY <1>1, <1>2, <1>6, <1>7, SeqEqual
<1> QED
  BY <1>8 DEF u

LEMMA AnswersGrow ==
  ASSUME TypeInv, BaseInv, AnswersInv, Tame(env), NEW a, Ended(a), Earned(a)
  PROVE  AnswersInv'
<1> DEFINE n == Len(Answers) + 1
<1>1. /\ env' = env /\ a \in AnswerType /\ host'.answers = Append(host.answers, a) /\ InCommand
  BY DEF Ended
<1>2. /\ Len(Answers) \in Nat /\ Len(Answers') = n /\ Answers'[n] = a
      /\ \A i \in 1 .. Len(Answers) : Answers'[i] = Answers[i]
  BY <1>1, LastAnswer
<1>3. /\ n = host.cmd /\ Command(n) = Current
  BY <1>1, AtHand DEF Current
<1>4. \A i : Command(i)' = Command(i) /\ Deserved(Command(i))' = Deserved(Command(i))
  BY <1>1 DEF Command, Script, Deserved, Works
<1>5. \A i : CutShort(Command(i))' = CutShort(Command(i)) /\ Legal(Command(i))' = Legal(Command(i))
  BY <1>1, <1>4 DEF CutShort, BreaksOff, Works
<1>6. \A i \in 1 .. n : i # n => i \in 1 .. Len(Answers) /\ (i = 1 \/ i - 1 \in 1 .. Len(Answers))
  BY <1>2
<1>7. n = 1 \/ n - 1 \in 1 .. Len(Answers)
  BY <1>2
<1>8. n - 1 = Len(Answers)
  BY <1>2
<1>9. a.verdict \in {"pass", "fail"} => a.verdict = Deserved(Current)
  BY DEF Earned, Done, Failed
<1>10. a.verdict = "pass" => a.residue + (IF Current.in THEN Len(a.data) ELSE Current.len) = Current.len
  BY DEF Earned, Done
<1>11. ASSUME a.verdict \in {"pass", "fail"}, Current.op = "sense", n # 1,
              Answers[n - 1].verdict = "fail"
       PROVE  a.data = <<<<"sense", 0, 0, Reason(Command(n - 1))>>>>
  <2>1. Deserved(Current) = "pass"
    BY <1>11 DEF Deserved, Legal, Works, Moves
  <2>2. Done /\ a.data = host.got
    BY <1>11, <2>1 DEF Earned, Failed
  <2>3. SenseKept
    BY <2>2 DEF Done
  <2>4. Len(Answers) > 0
    BY <1>2, <1>11
  <2>5. dev.sense = Reason(Command(n - 1))
    BY <1>8, <1>11, <2>3, <2>4 DEF SenseKept
  <2> QED
    BY <1>11, <2>2, <2>5, DoneSense
<1> HIDE DEF n
<1>12. RightAnswer'
  <2> SUFFICES ASSUME NEW i \in 1 .. n, Answers'[i].verdict \in {"pass", "fail"}
               PROVE  /\ Answers'[i].verdict = Deserved(Command(i))
                      /\ \/ i = 1 \/ Command(i).op # "sense" \/ Answers'[i - 1].verdict # "fail"
                         \/ CutShort(Command(i - 1))
                         \/ Answers'[i].data = <<<<"sense", 0, 0, Reason(Command(i - 1))>>>>
    BY <1>2, <1>4, <1>5 DEF RightAnswer, Reason
  <2>1. CASE i = n
    <3>1. n = 1 \/ Answers'[n - 1] = Answers[n - 1]
      BY <1>2, <1>7
    <3> QED
      BY <1>2, <1>3, <1>9, <1>11, <2>1, <3>1
  <2>2. CASE i # n
    <3>1. i \in 1 .. Len(Answers) /\ (i = 1 \/ i - 1 \in 1 .. Len(Answers))
      BY <1>6, <2>2
    <3>2. Answers'[i] = Answers[i] /\ (i = 1 \/ Answers'[i - 1] = Answers[i - 1])
      BY <1>2, <3>1
    <3> QED
      BY <3>1, <3>2 DEF AnswersInv, RightAnswer, Reason
  <2> QED
    BY <2>1, <2>2
<1>13. ResidueTells'
  <2> SUFFICES ASSUME NEW i \in 1 .. n, Answers'[i].verdict = "pass"
               PROVE  Answers'[i].residue
                        + (IF Command(i).in THEN Len(Answers'[i].data) ELSE Command(i).len)
                        = Command(i).len
    BY <1>2, <1>4 DEF ResidueTells
  <2>1. CASE i = n
    BY <1>2, <1>3, <1>10, <2>1
  <2>2. CASE i # n
    BY <1>2, <1>6, <2>2 DEF AnswersInv, ResidueTells
  <2> QED
    BY <2>1, <2>2
<1> QED
  BY <1>12, <1>13 DEF AnswersInv

LEMMA AnswersKept ==
  ASSUME TypeInv, BaseInv, AnswersInv, Tame(env),
         Interrupted \/ InStep \/ Begun \/ Rested \/ \E a : Ended(a) /\ Earned(a)
  PROVE  AnswersInv'
<1>1. CASE Interrupted
  BY <1>1, AnswersStay DEF Interrupted
<1>2. CASE InStep
  BY <1>2, AnswersStay DEF InStep
<1>3. CASE Begun
  BY <1>3, AnswersStay DEF Begun
<1>4. CASE Rested
  BY <1>4, AnswersStay DEF Rested
<1>5. CASE \E a : Ended(a) /\ Earned(a)
  BY <1>5, AnswersGrow
<1> QED
  BY <1>1, <1>2, <1>3, <1>4, <1>5

-----------------------------------------------------------------------------
(* The invariant holds of the first state and is kept.                     *)
LEMMA ResetDevice == DevReset \in DevType
<1> DEFINE disk == [a \in 1 .. NBlk * BlkSize |-> Initially(a)]
<1>1. TxReset \in TxType /\ RxReset \in RxType
  <2>1. <<>> \in Packet
    BY PacketFacts
  <2> QED
    BY <2>1 DEF TxReset, RxReset, TxType, RxType, Statuses
<1>2. disk \in [1 .. NBlk * BlkSize -> Unit]
  <2>1. ASSUME NEW a \in Nat PROVE Initially(a) \in Unit
    BY DEF Initially, Unit, Kinds, Words
  <2>2. NBlk * BlkSize \in Nat
    BY Sizes
  <2> DEFINE top == NBlk * BlkSize
  <2> HIDE DEF top
  <2>3. \A a \in 1 .. top : a \in Nat
    BY <2>2 DEF top
  <2> QED
    BY <2>1, <2>3 DEF top
<1> HIDE DEF disk
<1>3. 0 \in 0 .. Wrap - 1
  BY Sizes
<1>4. DevReset = [tx |-> TxReset, rx |-> RxReset, conf |-> FALSE, msc_state |-> "idle",
                  bot_status |-> "idle", blk_addr |-> 0, blk_len |-> 0, nbr |-> 0,
                  sense |-> "illegal", tag |-> 0, residue |-> 0, cbw |-> 0, disk |-> disk]
  BY DEF DevReset, disk
<1> QED
  BY <1>1, <1>2, <1>3, <1>4 DEF DevType, MscStates

LEMMA InitHolds ==
  ASSUME Init
  PROVE  MSCInv
<1>1. /\ DevReset.cbw = 0 /\ DevReset.nbr = 0 /\ DevReset.tx.tc = FALSE /\ DevReset.tx.rest = <<>>
      /\ DevReset.rx.tc = FALSE
      /\ \A a \in 1 .. NBlk * BlkSize : DevReset.disk[a] = Initially(a)
  BY DEF DevReset, TxReset, RxReset
<1>2. dev = class_init_handler(DevReset) /\ env \in Environments
  BY DEF Init
<1>3. /\ dev \in DevType /\ dev.conf /\ dev.msc_state = "idle" /\ dev.bot_status = "idle"
      /\ dev.tag = 0 /\ dev.cbw = 0 /\ dev.nbr = 0 /\ dev.disk = DevReset.disk
      /\ dev.tx.sts = "nak" /\ dev.tx.tog = 0 /\ dev.tx.tc = FALSE /\ dev.tx.rest = <<>>
      /\ dev.rx.sts = "valid" /\ dev.rx.tog = 0 /\ dev.rx.tc = FALSE
      /\ dev.rx.room = 0 /\ dev.rx.buf = <<>> /\ dev.rx.len = 0
  BY <1>1, <1>2, ResetDevice, ConfigureEffect
<1>4. /\ host.phase = "idle" /\ host.cmd = 0 /\ host.answers = <<>> /\ tog = [in |-> 0, out |-> 0]
  BY DEF Init
<1>5. host \in HostType /\ tog \in [{"in", "out"} -> {0, 1}]
  <2>1. <<>> \in Packet /\ <<>> \in Seq(AnswerType)
    BY PacketFacts
  <2> QED
    BY <2>1 DEF Init, HostType, Phases
<1>6. TypeInv
  BY <1>2, <1>3, <1>5 DEF TypeInv
<1>7. Len(Answers) = 0 /\ Len(Script) \in Nat /\ ~InCommand /\ ~Had
  BY <1>2, <1>3, <1>4, EnvFacts DEF Answers, InCommand, Had
<1>8. \A a \in 1 .. NBlk * BlkSize : dev.disk[a][1] # "out"
  <2>1. \A a : Initially(a)[1] = "disk"
    BY DEF Initially
  <2> QED
    BY <1>1, <1>3, <2>1
<1>9. BaseInv
  BY <1>3, <1>4, <1>7, <1>8 DEF BaseInv
<1>10. AnswersInv
  BY <1>7 DEF AnswersInv, RightAnswer, ResidueTells
<1>11. SenseKept
  BY <1>7 DEF SenseKept
<1>12. Between
  BY <1>3, <1>4, <1>7, <1>11 DEF Between, Ready, TxQuiet, RxEmpty, RxArmed
<1> QED
  BY <1>6, <1>9, <1>10, <1>12 DEF MSCInv, Stage

LEMMA StageStays ==
  ASSUME Stage, UNCHANGED <<dev, tog, env, host>>
  PROVE  Stage'
<1>4. ASSUME Sending PROVE Sending'
  <2>1. SameDevice
    BY DEF SameDevice, SameCommand, SameData, SameBlocks
  <2>2. /\ Decoded' /\ SenseKept' /\ Left' = Left
        /\ \A f, s : AllDue(f, s) => AllDue(f, s)'
    BY <1>4, <2>1, SameInCommand DEF Sending
  <2>3. /\ Current' = Current /\ Deserved(Current)' = Deserved(Current)
        /\ Volume(Current)' = Volume(Current)
    BY SameScript
  <2>4. AllDue(0, host.got)'
    BY <1>4, <2>2 DEF Sending
  <2>5. ASSUME Offered PROVE Offered'
    <3>1. AllDue(Len(host.got), dev.tx.pkt)' /\ AllDue(Len(host.got) + Len(dev.tx.pkt), dev.tx.rest)'
      BY <2>2, <2>5 DEF Offered
    <3>2. CbwGiven("data")'
      BY <2>5 DEF Offered, CbwGiven, Had
    <3> QED
      BY <2>2, <2>3, <2>5, <3>1, <3>2 DEF Offered
  <2>6. ASSUME Received PROVE Received'
    <3>1. AllDue(Len(host.got), dev.tx.rest)'
      BY <2>2, <2>6 DEF Received
    <3> QED
      BY <2>2, <2>3, <2>6, <3>1 DEF Received, Had
  <2> QED
    BY <1>4, <2>2, <2>3, <2>4, <2>5, <2>6 DEF Sending
<1> USE DEF Current, Command, Script, Answers, SenseKept, Reason, Legal, Moves, InRange,
            Had, CbwGiven, DataOrStatus, Untouched, WrittenIn
<1>1. Unplugged => Unplugged'
  BY DEF Unplugged
<1>2. Between \/ Asking \/ Waiting => Between' \/ Asking' \/ Waiting'
  BY DEF Between, Asking, Waiting, Ready, TxQuiet, RxEmpty, RxArmed, Fresh, CbwUnit
<1>3. Refused \/ Cleared => Refused' \/ Cleared'
  BY DEF Refused, Cleared, Refusal, Decoded, HasDataOut, Deserved, Works
<1>5. Writing => Writing'
  BY DEF Writing, Decoded, Works, TxQuiet, Off, OnMedium, Chunk, DataUnits, Receptive, Holding,
         GivenUpTo, Written, Whole
<1>6. Told => Told'
  BY DEF Told, ToldPhase, Decoded, RxArmed, RxEmpty, CswUnit, Done, Failed, Deserved, Works, OnMedium,
         Written, Volume, AllDue, Due
<1> QED
  BY <1>1, <1>2, <1>3, <1>4, <1>5, <1>6 DEF Stage

LEMMA NextKeeps ==
  ASSUME MSCInv, Tame(env), [Next]_mscVars
  PROVE  MSCInv' /\ env' = env
<1>1. TypeInv /\ BaseInv /\ AnswersInv /\ Stage
  BY DEF MSCInv
<1>2. CASE Next
  <2>1. /\ Stage'
        /\ Interrupted \/ InStep \/ Begun \/ Rested \/ \E a : Ended(a) /\ Earned(a)
    BY <1>1, <1>2, NextStage
  <2>2. TypeInv'
    BY <1>1, <2>1, TypeKept
  <2>3. BaseInv'
    BY <1>1, <2>1, BaseKept
  <2>4. AnswersInv'
    BY <1>1, <2>1, AnswersKept
  <2>5. env' = env
    BY <2>1 DEF Interrupted, InStep, Begun, Rested, Ended
  <2> QED
    BY <2>1, <2>2, <2>3, <2>4, <2>5 DEF MSCInv
<1>3. CASE UNCHANGED mscVars
  <2>1. UNCHANGED <<tog, env, host>> /\ dev' = dev
    BY <1>3 DEF mscVars
  <2>2. TypeInv' /\ AnswersInv'
    BY <1>1, <2>1, AnswersStay DEF TypeInv
  <2>3. BaseInv'
    BY <1>1, <2>1 DEF BaseInv, Answers, InCommand, Had, Script
  <2>4. Stage'
    BY <1>1, <2>1, StageStays
  <2> QED
    BY <2>1, <2>2, <2>3, <2>4 DEF MSCInv
<1> QED
  BY <1>2, <1>3

-----------------------------------------------------------------------------
(* The invariant at every state, and what it says of a tame script.        *)

(* With scripts that keep clear of the defects of the README, device and   *)
(* host are always at one of the stages of a command.                      *)
THEOREM MSCInvariant ==
  Spec /\ Tame(env) => []MSCInv
<1>1. Init => MSCInv
  BY InitHolds
<1>2. MSCInv /\ Tame(env) /\ [Next]_mscVars => (MSCInv /\ Tame(env))'
  BY NextKeeps
<1> QED
  BY <1>1, <1>2, PTL DEF Spec

(* A verdict is the one that the command deserves, and the sense data tell *)
(* the reason of the failure before them (bot_cbw_decode, bot_scsi_stall,  *)
(* bot_scsi_clear_feature).                                                *)
THEOREM AlwaysRightAnswer ==
  Spec /\ Tame(env) => []RightAnswer
<1>1. MSCInv => RightAnswer
  BY DEF MSCInv, AnswersInv
<1> QED
  BY <1>1, MSCInvariant, PTL

(* The residue of a passed command accounts for what the host asked for.   *)
THEOREM ResidueAlwaysTells ==
  Spec /\ Tame(env) => []ResidueTells
<1>1. MSCInv => ResidueTells
  BY DEF MSCInv, AnswersInv
<1> QED
  BY <1>1, MSCInvariant, PTL

(* No counter leaves its bounds, and no packet the buffer it is copied to. *)
THEOREM NothingOverruns ==
  Spec /\ Tame(env) => []NoOverrun
<1>1. ASSUME MSCInv PROVE NoOverrun
  <2>1. TypeInv /\ BaseInv /\ Stage
    BY <1>1 DEF MSCInv
  <2>2. /\ dev \in DevType /\ host \in HostType /\ host.cmd \in Nat /\ Len(Script) \in Nat
        /\ dev.tag \in Nat /\ dev.cbw \in Nat
        /\ dev.rx.buf \in Packet /\ dev.rx.pkt \in Packet
        /\ Len(dev.rx.buf) \in Nat /\ Len(dev.rx.pkt) \in Nat /\ dev.rx.room \in Nat
    BY <2>1, EnvFacts, PacketFacts DEF TypeInv, DevType, HostType, RxType
  <2>3. host.cmd <= Len(Script) /\ dev.tag <= Len(Script) /\ dev.cbw <= Len(Script)
    BY <2>1 DEF BaseInv
  <2>4. TypeOK
    <3>1. host.cmd \in 0 .. Len(Script) /\ dev.tag \in 0 .. Len(Script) /\ dev.cbw \in 0 .. Len(Script)
      BY <2>2, <2>3
    <3>2. DOMAIN dev.disk = 1 .. NBlk * BlkSize
      BY <2>2 DEF DevType
    <3> QED
      BY <2>1, <2>2, <3>1, <3>2 DEF TypeOK, DevType, HostType, TypeInv
  <2>5. dev.rx.tc => Waiting \/ (Writing /\ Holding)
    BY <2>1 DEF Stage, Unplugged, Between, Asking, RxArmed, Refused, Refusal, Cleared, Sending, Told,
                Writing, Receptive
  <2>6. ASSUME Waiting PROVE Len(dev.rx.buf) + Len(dev.rx.pkt) <= RoomFor(dev)
    <3>1. dev.rx.buf = <<>> /\ dev.msc_state = "idle" /\ dev.rx.pkt = <<CbwUnit(host.cmd)>>
      BY <2>6 DEF Waiting, Ready, RxEmpty
    <3>2. Len(dev.rx.buf) = 0 /\ Len(dev.rx.pkt) = 1
      BY <2>2, <3>1, UnitTypes, PacketFacts
    <3> QED
      BY <3>1, <3>2 DEF RoomFor
  <2>7. ASSUME Writing, Holding PROVE Len(dev.rx.buf) + Len(dev.rx.pkt) <= RoomFor(dev)
    <3>1. /\ Len(dev.rx.pkt) = MaxPacket /\ Len(dev.rx.buf) + MaxPacket + dev.rx.room = Chunk(dev)
          /\ dev.msc_state = "data_out" /\ MaxPacket \in Nat /\ BufLen \in Nat
      BY <2>7, Sizes DEF Writing, Holding
    <3>2. dev.blk_len \in Nat /\ Chunk(dev) <= BufLen /\ Chunk(dev) \in Nat
      <4>1. dev.blk_len \in Nat
        <5>1. dev.blk_len \in 0 .. Wrap - 1
          BY <2>2 DEF DevType
        <5> QED
          BY <5>1, Sizes
      <4> QED
        BY <3>1, <4>1 DEF Chunk, Least
    <3> QED
      BY <2>2, <3>1, <3>2 DEF RoomFor
  <2> QED
    BY <2>4, <2>5, <2>6, <2>7 DEF NoOverrun, PacketFits
<1> QED
  BY <1>1, MSCInvariant, PTL

(* The host never has to reset the device: every failure is told.          *)
THEOREM FailureIsAlwaysTold ==
  Spec /\ Tame(env) => []FailureIsTold
<1>1. ASSUME MSCInv PROVE FailureIsTold
  <2> SUFFICES ASSUME NEW i \in 1 .. Len(Answers) PROVE Answers[i].verdict # "reset"
    BY DEF FailureIsTold
  <2>1. host.answers \in Seq(AnswerType)
    BY <1>1 DEF MSCInv, TypeInv, HostType
  <2>2. Answers[i] \in AnswerType
    BY <2>1, ElementOfSeq DEF Answers
  <2> QED
    BY <2>2 DEF AnswerType
<1> QED
  BY <1>1, MSCInvariant, PTL

-----------------------------------------------------------------------------
(* The class implements BlockDevice: the command at hand, as it is seen    *)
(* there.                                                                  *)
LEMMA DeviceStays ==
  ASSUME env' = env, dev'.disk = dev.disk, host'.answers = host.answers
  PROVE  UNCHANGED Device!vars
<1>1. Script' = Script /\ Answers' = Answers
  BY DEF Script, Answers
<1>2. Sound' = Sound
  BY <1>1 DEF Sound, Command, Legal, Moves, InRange
<1> QED
  BY <1>1, <1>2 DEF Device!vars

LEMMA DeviceCommand ==
  ASSUME TypeInv, BaseInv, Tame(env), InCommand
  PROVE  Device!Current = host.cmd /\ Device!Running /\ Script[host.cmd] = Current
<1>1. host.cmd \in 1 .. Len(Script) /\ Len(Answers) \in Nat /\ host.cmd = Len(Answers) + 1
  BY AtHand
<1>2. Device!Current = host.cmd
  BY <1>1 DEF Device!Current
<1> QED
  BY <1>1, <1>2 DEF Device!Running, Current, Command

LEMMA DeviceMoves ==
  ASSUME TypeInv, BaseInv, Tame(env), InCommand, Moves(Current), Legal(Current)
  PROVE  /\ Device!Moves(Current, Current.op)
         /\ Device!Cells(Current)
              = Current.lba * BlkSize + 1 .. Current.lba * BlkSize + Current.len
         /\ Device!Cells(Current) \subseteq 1 .. NBlk * BlkSize
<1> DEFINE lo == Current.lba * BlkSize
           hi == NBlk * BlkSize
<1>1. Current \in Commands /\ WellFormed(Current)
  BY AtHand
<1>2. /\ lo \in Nat /\ Current.len \in Nat /\ lo + Current.len <= hi
      /\ Addresses(Current) = lo + 1 .. lo + Current.len /\ Current.in = (Current.op = "read")
  BY <1>1, LegalMoves
<1>3. Current.len = Current.n * BlkSize
  BY DEF Legal, Moves
<1>4. Device!Cells(Current) = lo + 1 .. lo + Current.len
  BY <1>2 DEF Device!Cells, Addresses
<1>5. hi \in Nat
  BY Sizes
<1> HIDE DEF lo, hi
<1>6. lo + 1 .. lo + Current.len \subseteq 1 .. hi
  BY <1>2, <1>5
<1> QED
  BY <1>2, <1>3, <1>4, <1>6 DEF Device!Moves, lo, hi

(* A chunk that reaches the medium is a Write.                             *)
LEMMA WritesCells ==
  ASSUME TypeInv, BaseInv, Tame(env), Writing, Wrote, UNCHANGED <<tog, env, host>>
  PROVE  Device!Write
<1> DEFINE lo == Current.lba * BlkSize
<1>1. InCommand /\ Moves(Current) /\ Legal(Current) /\ Current.op = "write"
  BY DEF Writing, InCommand, Moves, Receptive, Holding, GivenUpTo
<1>2. Device!Current = host.cmd /\ Device!Running /\ Script[host.cmd] = Current
  BY <1>1, DeviceCommand
<1>3. /\ Device!Moves(Current, "write")
      /\ Device!Cells(Current) = lo + 1 .. lo + Current.len
  BY <1>1, DeviceMoves
<1>4. DOMAIN dev'.disk = 1 .. NBlk * BlkSize
  BY DEF Wrote, DevType
<1>5. \A a : Device!NewCell(host.cmd, a) = Written(host.cmd, a - lo)
  BY <1>2 DEF Device!NewCell, Written
<1>6. \A a \in 1 .. NBlk * BlkSize :
         \/ dev'.disk[a] = dev.disk[a]
         \/ a \in Device!Cells(Current) /\ dev'.disk[a] = Device!NewCell(host.cmd, a)
  BY <1>3, <1>5 DEF Wrote
<1>7. Script' = Script /\ Answers' = Answers
  BY DEF Script, Answers
<1>8. Sound' = Sound
  BY <1>7 DEF Sound, Command, Legal, Moves, InRange
<1> QED
  BY <1>2, <1>3, <1>4, <1>6, <1>7, <1>8 DEF Device!Write

(* A command that the device calls done has been done as a whole.          *)
LEMMA DoneAsAWhole ==
  ASSUME TypeInv, BaseInv, Tame(env), InCommand, Done
  PROVE  Device!Pass(host.got)
<1> DEFINE lo == Current.lba * BlkSize
<1>1. Device!Current = host.cmd /\ Script[host.cmd] = Current
  BY DeviceCommand
<1>2. Legal(Current) /\ Deserved(Current) = "pass"
  BY DEF Done, Deserved
<1>3. ASSUME Current.op = "write"
      PROVE  /\ Device!Moves(Current, "write")
             /\ \A a \in Device!Cells(Current) : dev.disk[a] = Device!NewCell(host.cmd, a)
  <2>1. /\ Device!Moves(Current, Current.op)
        /\ Device!Cells(Current) = lo + 1 .. lo + Current.len
        /\ Device!Cells(Current) \subseteq 1 .. NBlk * BlkSize
    BY <1>2, <1>3, DeviceMoves DEF Moves
  <2>2. OnMedium(Current.len)
    BY <1>3 DEF Done
  <2>3. \A a : Device!NewCell(host.cmd, a) = Written(host.cmd, a - lo)
    BY <1>1 DEF Device!NewCell, Written
  <2> QED
    BY <1>3, <2>1, <2>2, <2>3 DEF OnMedium
<1>4. ASSUME Current.op = "read"
      PROVE  Device!Moves(Current, "read") /\ host.got = Device!Contents(Current)
  <2>1. Device!Moves(Current, Current.op)
    BY <1>2, <1>4, DeviceMoves DEF Moves
  <2>2. Len(host.got) = Current.len /\ AllDue(0, host.got)
    BY <1>4 DEF Done, Volume
  <2>3. host.got \in Seq(Unit)
    BY DEF TypeInv, HostType, Packet
  <2>4. host.got = [k \in 1 .. Current.len |-> host.got[k]]
    BY <2>2, <2>3, LenProperties
  <2>5. ASSUME NEW k \in 1 .. Current.len PROVE host.got[k] = dev.disk[lo + k]
    <3>1. Due(0 + k, host.got[k]) /\ 0 + k = k
      BY <2>2, <2>5 DEF AllDue
    <3> QED
      BY <1>4, <3>1 DEF Due
  <2>6. host.got = [k \in 1 .. Current.len |-> dev.disk[lo + k]]
    BY <2>4, <2>5
  <2> QED
    BY <1>4, <2>1, <2>6 DEF Device!Contents
<1> QED
  BY <1>1, <1>3, <1>4 DEF Device!Pass

(* An answer that the host gets is an Answer.                              *)
LEMMA AnswersCommand ==
  ASSUME TypeInv, BaseInv, Tame(env), NEW a, Ended(a), Earned(a)
  PROVE  Device!Answer
<1> DEFINE n == Len(Answers)
<1>1. /\ env' = env /\ dev'.disk = dev.disk /\ a \in AnswerType /\ InCommand
      /\ host'.answers = Append(host.answers, a)
  BY DEF Ended
<1>2. n \in Nat /\ Len(Answers') = n + 1 /\ Answers'[n + 1] = a
  BY <1>1, LastAnswer
<1>3. Device!Current = host.cmd /\ Device!Running /\ Script[host.cmd] = Current /\ host.cmd = n + 1
  BY <1>1, DeviceCommand, AtHand
<1>4. SubSeq(Answers', 1, n) = Answers
  <2>1. Answers \in Seq(AnswerType) /\ Answers' = Append(Answers, a)
    BY <1>1 DEF TypeInv, HostType, Answers
  <2>2. \A i \in 1 .. n : Append(Answers, a)[i] = Answers[i] /\ Answers[i] \in AnswerType
    BY <1>1, <2>1, AppendProperties, ElementOfSeq
  <2> DEFINE t == SubSeq(Append(Answers, a), 1, n)
  <2>3. /\ t \in Seq(AnswerType) /\ Len(t) = n
        /\ \A i \in 1 .. n : t[i] = Answers[i]
    <3>1. n \in Int /\ 1 \in Int /\ n - 1 + 1 = n /\ (1 <= n \/ n = 0)
      BY <1>2
    <3>2. \A i \in 1 .. n : 1 + i - 1 = i
      OBVIOUS
    <3>3. \A i \in 1 .. n : Append(Answers, a)[i] \in AnswerType
      BY <2>2
    <3> DEFINE v == Append(Answers, a)
    <3>5. 1 \in Int /\ n \in Int /\ \A i \in 1 .. n : v[i] \in AnswerType
      BY <3>1, <3>3
    <3> HIDE DEF n, v
    <3>4. /\ SubSeq(v, 1, n) \in Seq(AnswerType)
          /\ Len(SubSeq(v, 1, n)) = IF 1 <= n THEN n - 1 + 1 ELSE 0
          /\ \A i \in 1 .. n - 1 + 1 : SubSeq(v, 1, n)[i] = v[1 + i - 1]
      BY ONLY <3>5, SubSeqProperties
    <3> QED
      BY <3>1, <3>2, <3>4, <2>2 DEF v
  <2> HIDE DEF t
  <2>4. t = Answers
    BY <2>1, <2>3, SeqEqual
  <2> QED
    BY <2>1, <2>4 DEF t
<1>5. IF a.verdict = "pass" THEN Device!Pass(a.data) ELSE Device!Fail(a.verdict)
  <2>1. CASE a.verdict = "unplugged" /\ env.unplugs > 0
    <3>1. ~Sound
      BY <2>1 DEF Sound
    <3> QED
      BY <2>1, <3>1 DEF Device!Fail
  <2>2. CASE a.verdict = "pass" /\ Done /\ a.data = host.got
    BY <1>1, <2>2, DoneAsAWhole
  <2>3. CASE a.verdict = "fail" /\ Failed
    <3>1. \A c \in 1 .. NBlk * BlkSize : dev.disk[c][2] # host.cmd \/ dev.disk[c][1] # "out"
      BY <2>3 DEF Failed, Untouched, WrittenIn
    <3> QED
      BY <1>3, <2>3, <3>1 DEF Device!Fail
  <2> QED
    BY <2>1, <2>2, <2>3 DEF Earned
<1>6. Script' = Script
  BY <1>1 DEF Script
<1>7. Sound' = Sound
  BY <1>1, <1>6 DEF Sound, Command, Legal, Moves, InRange
<1> QED
  BY <1>1, <1>2, <1>3, <1>4, <1>5, <1>6, <1>7 DEF Device!Answer

LEMMA DeviceStep ==
  ASSUME MSCInv, Tame(env), [Next]_mscVars
  PROVE  [Device!Next]_Device!vars
<1>1. TypeInv /\ BaseInv /\ Stage
  BY DEF MSCInv
<1>2. CASE Next
  <2>1. Interrupted \/ InStep \/ Begun \/ Rested \/ \E a : Ended(a) /\ Earned(a)
    BY <1>1, <1>2, NextStage
  <2>2. CASE Interrupted /\ Kept
    BY <2>2, DeviceStays DEF Interrupted, Kept
  <2>3. CASE Interrupted /\ Writing /\ Wrote
    BY <1>1, <2>3, WritesCells DEF Interrupted, Device!Next
  <2>4. CASE InStep
    BY <2>4, DeviceStays DEF InStep
  <2>5. CASE Begun
    BY <2>5, DeviceStays DEF Begun
  <2>6. CASE Rested
    BY <2>6, DeviceStays DEF Rested
  <2>7. CASE \E a : Ended(a) /\ Earned(a)
    BY <1>1, <2>7, AnswersCommand DEF Device!Next
  <2> QED
    BY <2>1, <2>2, <2>3, <2>4, <2>5, <2>6, <2>7 DEF Interrupted
<1>3. CASE UNCHANGED mscVars
  BY <1>3, DeviceStays DEF mscVars
<1> QED
  BY <1>2, <1>3

LEMMA DeviceInit ==
  ASSUME Init
  PROVE  Device!Init
<1>1. dev = class_init_handler(DevReset) /\ host.answers = <<>>
  BY DEF Init
<1>2. dev.disk = DevReset.disk
  BY <1>1, ResetDevice, ConfigureEffect
<1> QED
  BY <1>1, <1>2 DEF Device!Init, Answers, DevReset, Initially

(* The class is a block device for a host that keeps clear of the defects: *)
(* the medium changes by the writes of the command at hand and by nothing  *)
(* else, and an answer tells what has happened to it.                      *)
THEOREM AlwaysABlockDevice ==
  Spec /\ Tame(env) => IsABlockDevice
<1>1. MSCInv /\ Tame(env) /\ [Next]_mscVars => (MSCInv /\ Tame(env))'
  BY NextKeeps
<1>2. MSCInv /\ Tame(env) /\ [Next]_mscVars => [Device!Next]_Device!vars
  BY DeviceStep
<1>3. Init => MSCInv /\ Device!Init
  BY InitHolds, DeviceInit
<1> QED
  BY <1>1, <1>2, <1>3, PTL DEF Spec, IsABlockDevice, Device!Spec
=============================================================================
