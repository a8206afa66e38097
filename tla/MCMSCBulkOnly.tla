--------------------------- MODULE MCMSCBulkOnly ---------------------------
(* Scripts for the model checker: READ CAPACITY, as hosts do first, and    *)
(* two commands more.                                                      *)
EXTENDS MSCBulkOnly

Cmd(op, in, len, lba, n) == [op |-> op, in |-> in, len |-> len, lba |-> lba, n |-> n]

Capacity == Cmd("capacity", TRUE, 1, 0, 0)

(* Every way through READ(10) and WRITE(10): one buffer, more than one,    *)
(* the medium's last block and one too many, a length that does not match. *)
Transfers ==
  {Cmd("read", TRUE, n * BlkSize, lba, n) : lba \in 0 .. 1, n \in 1 .. 3}
    \cup {Cmd("write", FALSE, n * BlkSize, lba, n) : lba \in 0 .. 1, n \in 1 .. 3}
    \cup {Cmd("read", TRUE, BlkSize, 0, 2), Cmd("write", FALSE, BlkSize, 0, 2),
          Cmd("read", FALSE, BlkSize, 0, 1), Cmd("write", TRUE, BlkSize, 0, 1)}

Sense == Cmd("sense", TRUE, 1, 0, 0)

Others ==
  {Capacity, Sense, Cmd("ready", FALSE, 0, 0, 0), Cmd("ready", TRUE, 1, 0, 0),
   Cmd("inquiry", TRUE, 2, 0, 0), Cmd("inquiry", TRUE, 0, 0, 0), Cmd("mode", TRUE, 2, 0, 0),
   Cmd("start", FALSE, 0, 0, 0), Cmd("removal", FALSE, 0, 0, 0),
   Cmd("verify", FALSE, 0, 2, 1), Cmd("verify", FALSE, 0, 2, 2), Cmd("compare", FALSE, 0, 0, 1),
   Cmd("unknown", TRUE, 1, 0, 0), Cmd("unknown", FALSE, 3, 0, 0), Cmd("unknown", FALSE, 0, 0, 0)}

Invalid == {Cmd("invalid", TRUE, 1, 0, 0), Cmd("invalid", FALSE, 2, 0, 0)}

Env(script, bad, losses, unplugs) ==
  [script |-> script, bad |-> bad, losses |-> losses, unplugs |-> unplugs]

Thrice(A, B) == {<<Capacity, a, b>> : a \in A, b \in B}

(* A sound medium and one that fails, with a lost handshake or none, and a *)
(* bus that is reset.                                                      *)
SomeEnvironments ==
  {Env(s, {}, 1, 0) : s \in Thrice(Transfers \cup Others, Transfers \cup Others)}
    \cup {Env(s, bad, l, 0) : l \in 0 .. 1, s \in Thrice(Transfers \cup Invalid, Transfers \cup {Sense}),
                              bad \in {{2}, {5}}}
    \cup {Env(s, {}, 0, 1) : s \in Thrice(Transfers \cup Others, Transfers)}
=============================================================================
