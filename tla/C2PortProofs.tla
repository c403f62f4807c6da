---------------------------- MODULE C2PortProofs ----------------------------
(***************************************************************************)
(* Proofs about C2Port, for any set of threads, any flash, any chunk and   *)
(* any accesses of the attributes.                                         *)
(***************************************************************************)
EXTENDS C2Port, TLAPS

\* Most leaves take no arithmetic: Zenon is tried unless a leaf names another prover.
USE ZenonT(30)

\* What is written to the microcontroller's registers, and the items of a
\* script.
Words == Bytes \cup Nat \cup
         {"none", "BLOCK_READ", "BLOCK_WRITE", "DEVICE_ERASE", "de", "ad", "a5",
          "FPCTL", "FPDAT", "dev_id", "rev_id"}
Items == {"ar", "wr", "wr!", "in_busy", "out_ready", "status", "data", "id"} \X Words

Phases == {"idle", "ack", "args", "ack2", "data"}
Regs == [ar : Words, key : 0 .. 2, ph : Phases, cmd : Words, args : Seq(Words),
         pos : Nat, lost : BOOLEAN]
Cell == Bytes \cup {"erased"}
Flashes == [Addresses -> Cell]
Buf == Cell \cup {"noise", "status"}
Mcus == [regs : Regs, flash : Flashes]

Types ==
    /\ phase \in {"none", "visible", "live", "exiting", "gone", "errptr", "errexit"}
    /\ access \in BOOLEAN /\ flash_access \in BOOLEAN
    /\ mutex \in Threads \cup {NoThread}
    /\ pc \in [Threads -> {"idle", "lock", "run"}]
    /\ call \in [Threads -> Calls \cup {NoCall}]
    /\ script \in Seq(Items) /\ buffer \in Seq(Buf)
    /\ mcu \in Mcus /\ before \in Flashes
    /\ ck_out \in BOOLEAN /\ halted \in BOOLEAN /\ dark \in BOOLEAN

\* The owner of the mutex is the thread that runs, on behalf of a call; only a
\* registered port is used.
OwnerInv ==
    /\ \A t \in Threads : pc[t] = "run" <=> mutex = t
    /\ \A t \in Threads : pc[t] # "idle" => call[t] \in Calls
    /\ mutex = NoThread => script = <<>> /\ buffer = <<>>
    /\ phase \notin {"live", "exiting"} /\ ~halted => \A t \in Threads : pc[t] = "idle"
    /\ phase = "live" => (ck_out <=> access)

\* The script of a call, and how much of it is done.
Full(c) ==
    IF c.op \in {"access", "reset"} THEN <<>>
    ELSE IF c.op = "flash_access" THEN IF c.on THEN EnableFlash ELSE <<>>
    ELSE ScriptOf(c)

Suffix(s, f) ==
    /\ Len(s) <= Len(f)
    /\ \A j \in 1 .. Len(s) : s[j] = f[j + (Len(f) - Len(s))]

Done(c, s) == Len(Full(c)) - Len(s)

Moves(c) == c.op \in {"flash_read", "flash_write"} /\ c.off < Size

\* Every second item behind the command adds a byte to the buffer of a read.
Taken(c, s, b) ==
    IF c.op = "flash_read" /\ Done(c, s) > 13
    THEN Done(c, s) \in {13 + 2 * Len(b), 14 + 2 * Len(b)}
    ELSE b = <<>>

\* The registers after the first k <= 9 items of command w with argument
\* bytes x, y.  Without the keycodes nothing is heard, and the poll behind the
\* command does not succeed.
Header(r, w, x, y, k) ==
    /\ k <= 1 => r.ph = "idle"
    /\ k >= 1 => r.ar = "FPDAT"
    /\ k \in {2, 3} /\ r.key # 2 => r.ph = "idle"
    /\ k >= 4 => r.key = 2
    /\ k >= 2 /\ r.key = 2 =>
          /\ r.cmd = w /\ r.pos = 0
          /\ r.ph = IF k <= 4 THEN "ack" ELSE "args"
          /\ r.args = IF k <= 5 THEN <<>> ELSE IF k <= 7 THEN <<x>> ELSE <<x, y>>

\* The command w has been accepted and its status read.
Open(r, w) == r.ar = "FPDAT" /\ r.key = 2 /\ r.cmd = w

EraseAt(m, bf, k) ==
    IF k <= 9 THEN Header(m.regs, "DEVICE_ERASE", "de", "ad", k) /\ m.flash = bf
    ELSE /\ Open(m.regs, "DEVICE_ERASE") /\ m.regs.ph = "idle"
         /\ \A a \in Addresses : m.flash[a] = "erased"

\* A block of n bytes from off, of which pos have been moved.
BlockAt(m, w, off, n, k) ==
    LET r == m.regs
    IN  IF k <= 9 THEN Header(r, w, off \div Base, off % Base, k)
        ELSE /\ Open(r, w) /\ r.args = <<off \div Base, off % Base, n>> /\ r.pos <= n
             /\ k <= 12 => r.ph = "ack2" /\ r.pos = 0
             /\ k > 12 => r.ph = IF r.pos = n THEN "idle" ELSE "data"

ReadAt(m, b, bf, c, k) ==
    /\ BlockAt(m, "BLOCK_READ", c.off, Transfer(c), k) /\ m.flash = bf
    /\ k >= 13 => /\ Len(b) = m.regs.pos
                  /\ k \in {13 + 2 * Len(b), 14 + 2 * Len(b)}
                  /\ \A j \in 1 .. Len(b) : b[j] = m.flash[c.off + (j - 1)]

WriteAt(m, bf, c, k) ==
    LET n == Transfer(c)
        pos == m.regs.pos
    IN  /\ BlockAt(m, "BLOCK_WRITE", c.off, n, k)
        /\ k <= 12 => m.flash = bf
        /\ k > 12 => /\ \/ k = 13 + 2 * pos \/ (k = 12 + 2 * pos /\ pos > 0)
                        \/ k = 14 + 2 * n /\ pos = n
                     /\ \A j \in 1 .. pos : m.flash[c.off + (j - 1)] = c.data[j]

\* What the microcontroller has been told after k items of c's script.
Progress(m, b, bf, c, k) ==
    CASE c.op = "flash_erase" -> EraseAt(m, bf, k)
      [] c.op = "flash_read" /\ c.off < Size -> ReadAt(m, b, bf, c, k)
      [] c.op = "flash_write" -> WriteAt(m, bf, c, k)
      [] OTHER -> /\ m.regs.ph = "idle" /\ m.flash = bf
                  /\ c.op = "flash_access" /\ k >= 1 => m.regs.ar = "FPCTL"

\* Between two calls the microcontroller waits for a command, also where it has
\* lost the frames.  The clock is not driven again while the mutex is held.
CalmInv ==
    /\ dark => ~ck_out
    /\ mutex = NoThread /\ ~mcu.regs.lost => mcu.regs.ph = "idle"
    /\ mcu.regs.lost => mcu.regs.ph = "idle"

\* The run of call c, with script s left, bytes b read, d and ck as dark and
\* ck_out, from flash bf: a microcontroller that hears it has been told the
\* script so far, one that does not is as it was; the cells that differ are
\* those of the call.
RunOK(c, s, b, m, bf, d, ck) ==
    /\ Suffix(s, Full(c)) /\ Taken(c, s, b)
    /\ c.op = "flash_write" => c.off < Size
    /\ ~m.regs.lost =>
          IF d \/ (s # <<>> /\ ~ck) THEN m.regs.ph = "idle" /\ m.flash = bf
          ELSE Progress(m, b, bf, c, Done(c, s))
    /\ c.op # "flash_erase" =>
          \A a \in Addresses : m.flash[a] # bf[a] => c.op = "flash_write" /\ a \in Cells(c)

RunInv ==
    \A t \in Threads : mutex = t =>
        RunOK(call[t], script, buffer, mcu, before, dark, ck_out)

PortInv == Types /\ OwnerInv /\ CalmInv /\ RunInv

-----------------------------------------------------------------------------
(* Sequences.                                                              *)

LEMMA ConcatFacts ==
    ASSUME NEW S, NEW s \in Seq(S), NEW u \in Seq(S)
    PROVE  /\ s \o u \in Seq(S) /\ Len(s \o u) = Len(s) + Len(u)
           /\ \A i \in 1 .. Len(s) + Len(u) :
                 (s \o u)[i] = IF i <= Len(s) THEN s[i] ELSE u[i - Len(s)]
  BY SMTT(30)

LEMMA SeqIs ==
    ASSUME NEW S, NEW s \in Seq(S)
    PROVE  s = [i \in 1 .. Len(s) |-> s[i]]
  BY SMTT(30)

LEMMA SameSeq ==
    ASSUME NEW S, NEW s \in Seq(S), NEW u \in Seq(S), Len(s) = Len(u),
           \A i \in 1 .. Len(s) : s[i] = u[i]
    PROVE  s = u
  <1>1. s = [i \in 1 .. Len(s) |-> s[i]] /\ u = [i \in 1 .. Len(u) |-> u[i]]
    BY SMTT(30)
  <1> QED BY <1>1

LEMMA HeadTail ==
    ASSUME NEW S, NEW s \in Seq(S), s # <<>>
    PROVE  /\ Head(s) = s[1] /\ Head(s) \in S /\ Tail(s) \in Seq(S)
           /\ Len(s) \in Nat /\ Len(s) >= 1 /\ Len(Tail(s)) = Len(s) - 1
           /\ \A i \in 1 .. Len(Tail(s)) : Tail(s)[i] = s[i + 1]
  BY SMTT(30)

LEMMA ElementIn ==
    ASSUME NEW S, NEW s \in Seq(S), NEW i \in 1 .. Len(s)
    PROVE  s[i] \in S
  BY SMTT(30)

-----------------------------------------------------------------------------
(* The scripts, item by item.                                              *)

LEMMA Constants ==
    /\ Size \in Nat /\ Chunk \in Nat /\ Base \in Nat /\ Chunk # 0 /\ Base # 0
    /\ NoThread \notin Threads
    /\ \A c \in Calls :
          /\ c \in [op : Unchecked \cup AccessOps \cup FlashOps, on : BOOLEAN,
                    off : Nat, data : Seq(Bytes)]
          /\ c.op \in {"flash_read", "flash_write"} => c.data # <<>>
  BY C2PortAssumption

\* The thirteen items of a block command.
BlockIs(B, w, x, y, n) ==
    /\ B[1] = <<"ar", "FPDAT">> /\ B[2] = <<"wr", w>> /\ B[3] = <<"in_busy", 0>>
    /\ B[4] = <<"out_ready", 0>> /\ B[5] = <<"status", 0>> /\ B[6] = <<"wr", x>>
    /\ B[7] = <<"in_busy", 0>> /\ B[8] = <<"wr", y>> /\ B[9] = <<"in_busy", 0>>
    /\ B[10] = <<"wr", n>> /\ B[11] = <<"in_busy", 0>> /\ B[12] = <<"out_ready", 0>>
    /\ B[13] = <<"status", 0>>

LEMMA BlockItems ==
    ASSUME NEW c \in Words, NEW off \in Nat, NEW n \in Nat
    PROVE  /\ Block(c, off, n) \in Seq(Items) /\ Len(Block(c, off, n)) = 13
           /\ BlockIs(Block(c, off, n), c, off \div Base, off % Base, n)
  <1> DEFINE hi == off \div Base
             lo == off % Base
  <1>1. hi \in Words /\ lo \in Words /\ n \in Words /\ 0 \in Words /\ "FPDAT" \in Words
    BY SMTT(30), Constants DEF Words
  <1> HIDE DEF hi, lo
  <1>2. Block(c, off, n) \in Seq(Items)
    BY SMTT(30), <1>1 DEF Block, Command, Acked, Items, hi, lo
  <1> QED BY SMTT(30), <1>2 DEF Block, Command, Acked, BlockIs

LEMMA BlockNoData ==
    ASSUME NEW w \in Words, NEW off \in Nat, NEW n \in Nat, NEW l \in 0 .. 12
    PROVE  Block(w, off, n)[l + 1][1] # "data"
  <1> DEFINE x == off \div Base
             y == off % Base
             B == Block(w, off, n)
  <1>1. BlockIs(B, w, x, y, n)
    BY BlockItems
  <1> HIDE DEF B, x, y
  <1>2. B[l + 1][1] # "data"
    BY SMTT(30), <1>1 DEF BlockIs
  <1> QED BY <1>2 DEF B

LEMMA TransferFacts ==
    ASSUME NEW c \in Calls, c.op \in {"flash_read", "flash_write"}, c.off < Size
    PROVE  /\ Transfer(c) \in Nat /\ Transfer(c) >= 1 /\ Transfer(c) <= Chunk
           /\ Transfer(c) <= Len(c.data) /\ c.off + Transfer(c) <= Size
           /\ c.off \in Nat /\ c.data \in Seq(Bytes)
  <1>1. /\ c.off \in Nat /\ c.data \in Seq(Bytes) /\ c.data # <<>>
    BY Constants
  <1>2. Len(c.data) \in Nat /\ Len(c.data) >= 1
    BY SMTT(30), <1>1
  <1>3. Size - c.off \in Nat /\ Size - c.off >= 1
    BY SMTT(30), <1>1, Constants
  <1> QED BY SMTT(30), <1>1, <1>2, <1>3, Constants DEF Transfer, Least

LEMMA EraseItems ==
    /\ Erase \in Seq(Items) /\ Len(Erase) = 12
    /\ Erase[1] = <<"ar", "FPDAT">> /\ Erase[2] = <<"wr", "DEVICE_ERASE">>
    /\ Erase[3] = <<"in_busy", 0>> /\ Erase[4] = <<"out_ready", 0>>
    /\ Erase[5] = <<"status", 0>> /\ Erase[6] = <<"wr", "de">>
    /\ Erase[7] = <<"in_busy", 0>> /\ Erase[8] = <<"wr", "ad">>
    /\ Erase[9] = <<"in_busy", 0>> /\ Erase[10] = <<"wr", "a5">>
    /\ Erase[11] = <<"in_busy", 0>> /\ Erase[12] = <<"out_ready", 0>>
  <1>1. {"FPDAT", "DEVICE_ERASE", "de", "ad", "a5", 0} \subseteq Words
    BY SMTT(30) DEF Words
  <1>2. Erase \in Seq(Items)
    BY SMTT(30), <1>1 DEF Erase, Command, Acked, Items
  <1> QED BY SMTT(30), <1>2 DEF Erase, Command, Acked

\* The places of the two items of the pair behind j others.
LEMMA PairPlaces ==
    ASSUME NEW n \in Nat
    PROVE  /\ \A k \in 1 .. 2 * n : /\ ((k - 1) % 2) + 1 \in {1, 2}
                                    /\ (k + 1) \div 2 \in 1 .. n
           /\ \A j \in 0 .. n - 1 :
                 /\ 2 * j + 1 \in 1 .. 2 * n /\ 2 * j + 2 \in 1 .. 2 * n
                 /\ ((2 * j + 1 + 1) \div 2) = j + 1 /\ ((2 * j + 1 - 1) % 2) + 1 = 1
                 /\ ((2 * j + 2 + 1) \div 2) = j + 1 /\ ((2 * j + 2 - 1) % 2) + 1 = 2
  BY SMTT(30)

\* A script made of a block command and a tail.
LEMMA Behind ==
    ASSUME NEW B \in Seq(Items), Len(B) = 13, NEW P \in Seq(Items)
    PROVE  /\ B \o P \in Seq(Items) /\ Len(B \o P) = 13 + Len(P)
           /\ \A k \in 1 .. 13 : (B \o P)[k] = B[k]
           /\ \A k \in 1 .. Len(P) : (B \o P)[13 + k] = P[k]
  <1>1. /\ B \o P \in Seq(Items) /\ Len(B \o P) = Len(B) + Len(P)
        /\ \A k \in 1 .. Len(B) + Len(P) :
              (B \o P)[k] = IF k <= Len(B) THEN B[k] ELSE P[k - Len(B)]
    BY ConcatFacts
  <1>2. Len(P) \in Nat
    BY SMTT(30)
  <1>3. ASSUME NEW k \in 1 .. Len(P) PROVE (B \o P)[13 + k] = P[k]
    <2>1. /\ 13 + k \in 1 .. Len(B) + Len(P) /\ ~(13 + k <= Len(B))
          /\ (13 + k) - Len(B) = k
      BY SMTT(30), <1>2
    <2> QED BY <1>1, <2>1
  <1>4. ASSUME NEW k \in 1 .. 13 PROVE (B \o P)[k] = B[k]
    <2>1. k \in 1 .. Len(B) + Len(P) /\ k <= Len(B)
      BY SMTT(30), <1>2
    <2> QED BY <1>1, <2>1
  <1> QED BY <1>1, <1>3, <1>4

LEMMA ReadItems ==
    ASSUME NEW off \in Nat, NEW n \in Nat
    PROVE  /\ ReadBlock(off, n) \in Seq(Items) /\ Len(ReadBlock(off, n)) = 13 + 2 * n
           /\ \A k \in 1 .. 13 : ReadBlock(off, n)[k] = Block("BLOCK_READ", off, n)[k]
           /\ \A j \in 0 .. n - 1 :
                 /\ ReadBlock(off, n)[13 + (2 * j + 1)] = <<"out_ready", 0>>
                 /\ ReadBlock(off, n)[13 + (2 * j + 2)] = <<"data", 0>>
  <1> DEFINE two == <<<<"out_ready", 0>>, <<"data", 0>>>>
             P == [k \in 1 .. 2 * n |-> two[((k - 1) % 2) + 1]]
             B == Block("BLOCK_READ", off, n)
  <1>1. ReadBlock(off, n) = B \o P
    BY DEF ReadBlock, Pairs
  <1>2. two[1] = <<"out_ready", 0>> /\ two[2] = <<"data", 0>>
    OBVIOUS
  <1>3. two[1] \in Items /\ two[2] \in Items
    BY <1>2 DEF Items, Words
  <1> HIDE DEF two
  <1>4. P \in Seq(Items) /\ Len(P) = 2 * n
    <2>1. \A k \in 1 .. 2 * n : two[((k - 1) % 2) + 1] \in Items
      BY <1>3, PairPlaces
    <2> QED BY SMTT(30), <2>1
  <1>5. ASSUME NEW j \in 0 .. n - 1
        PROVE  /\ P[2 * j + 1] = two[1] /\ P[2 * j + 2] = two[2]
               /\ 2 * j + 1 \in 1 .. 2 * n /\ 2 * j + 2 \in 1 .. 2 * n
    <2>1. /\ 2 * j + 1 \in 1 .. 2 * n /\ ((2 * j + 1 - 1) % 2) + 1 = 1
          /\ 2 * j + 2 \in 1 .. 2 * n /\ ((2 * j + 2 - 1) % 2) + 1 = 2
      BY PairPlaces
    <2> QED BY SMTT(30), <2>1
  <1>6. B \in Seq(Items) /\ Len(B) = 13
    <2>1. "BLOCK_READ" \in Words
      BY DEF Words
    <2> QED BY <2>1, BlockItems
  <1> HIDE DEF B, P
  <1>7. /\ B \o P \in Seq(Items) /\ Len(B \o P) = 13 + Len(P)
        /\ \A k \in 1 .. 13 : (B \o P)[k] = B[k]
        /\ \A k \in 1 .. Len(P) : (B \o P)[13 + k] = P[k]
    BY <1>4, <1>6, Behind
  <1>8. ASSUME NEW j \in 0 .. n - 1
        PROVE  /\ (B \o P)[13 + (2 * j + 1)] = two[1]
               /\ (B \o P)[13 + (2 * j + 2)] = two[2]
    BY <1>4, <1>5, <1>7
  <1> QED BY <1>1, <1>2, <1>4, <1>7, <1>8 DEF B

LEMMA WriteItems ==
    ASSUME NEW off \in Nat, NEW n \in Nat, NEW data \in Seq(Bytes), n <= Len(data)
    PROVE  /\ WriteBlock(off, data, n) \in Seq(Items)
           /\ Len(WriteBlock(off, data, n)) = 14 + 2 * n
           /\ \A k \in 1 .. 13 : WriteBlock(off, data, n)[k] =
                                    Block("BLOCK_WRITE", off, n)[k]
           /\ \A j \in 0 .. n - 1 :
                 /\ WriteBlock(off, data, n)[13 + (2 * j + 1)] = <<"wr!", data[j + 1]>>
                 /\ WriteBlock(off, data, n)[13 + (2 * j + 2)] = <<"in_busy", 0>>
           /\ WriteBlock(off, data, n)[14 + 2 * n] = <<"out_ready", 0>>
  <1> DEFINE two(k) == <<<<"wr!", data[k]>>, <<"in_busy", 0>>>>
             P == [k \in 1 .. 2 * n |-> two((k + 1) \div 2)[((k - 1) % 2) + 1]]
             B == Block("BLOCK_WRITE", off, n)
             R == <<<<"out_ready", 0>>>>
  <1>1. WriteBlock(off, data, n) = (B \o P) \o R
    BY DEF WriteBlock, Pairs
  <1>2. \A k : two(k)[1] = <<"wr!", data[k]>> /\ two(k)[2] = <<"in_busy", 0>>
    OBVIOUS
  <1>3. \A k \in 1 .. n : two(k)[1] \in Items /\ two(k)[2] \in Items
    <2>1. \A k \in 1 .. n : data[k] \in Bytes
      BY SMTT(30)
    <2> QED BY <1>2, <2>1 DEF Items, Words
  <1> HIDE DEF two
  <1>4. P \in Seq(Items) /\ Len(P) = 2 * n
    <2>1. \A k \in 1 .. 2 * n : two((k + 1) \div 2)[((k - 1) % 2) + 1] \in Items
      <3>1. TAKE k \in 1 .. 2 * n
      <3>2. (k + 1) \div 2 \in 1 .. n /\ ((k - 1) % 2) + 1 \in {1, 2}
        BY PairPlaces
      <3> DEFINE a == (k + 1) \div 2
                 b == ((k - 1) % 2) + 1
      <3> HIDE DEF a, b
      <3>3. two(a)[b] \in Items
        BY <1>3, <3>2 DEF a, b
      <3> QED BY <3>3 DEF a, b
    <2> QED BY SMTT(30), <2>1
  <1>5. ASSUME NEW j \in 0 .. n - 1
        PROVE  /\ P[2 * j + 1] = two(j + 1)[1] /\ P[2 * j + 2] = two(j + 1)[2]
               /\ 2 * j + 1 \in 1 .. 2 * n /\ 2 * j + 2 \in 1 .. 2 * n
    <2>1. /\ 2 * j + 1 \in 1 .. 2 * n /\ ((2 * j + 1 - 1) % 2) + 1 = 1
          /\ 2 * j + 2 \in 1 .. 2 * n /\ ((2 * j + 2 - 1) % 2) + 1 = 2
          /\ ((2 * j + 1 + 1) \div 2) = j + 1 /\ ((2 * j + 2 + 1) \div 2) = j + 1
      BY PairPlaces
    <2> QED BY SMTT(30), <2>1
  <1>6. B \in Seq(Items) /\ Len(B) = 13
    <2>1. "BLOCK_WRITE" \in Words
      BY DEF Words
    <2> QED BY <2>1, BlockItems
  <1>7. R \in Seq(Items) /\ Len(R) = 1 /\ R[1] = <<"out_ready", 0>>
    BY SMTT(30) DEF Items, Words
  <1> HIDE DEF B, P, R
  <1> DEFINE C == B \o P
  <1>8. /\ C \in Seq(Items) /\ Len(C) = 13 + Len(P)
        /\ \A k \in 1 .. 13 : C[k] = B[k]
        /\ \A k \in 1 .. Len(P) : C[13 + k] = P[k]
    BY <1>4, <1>6, Behind
  <1> HIDE DEF C
  <1>9. /\ C \o R \in Seq(Items) /\ Len(C \o R) = 14 + 2 * n
        /\ \A k \in 1 .. 13 + 2 * n : (C \o R)[k] = C[k]
        /\ (C \o R)[14 + 2 * n] = <<"out_ready", 0>>
    <2>1. /\ C \o R \in Seq(Items) /\ Len(C \o R) = Len(C) + Len(R)
          /\ \A k \in 1 .. Len(C) + Len(R) :
                (C \o R)[k] = IF k <= Len(C) THEN C[k] ELSE R[k - Len(C)]
      <3>1. C \in Seq(Items) /\ R \in Seq(Items)
        BY <1>7, <1>8
      <3> QED BY <3>1, ConcatFacts
    <2>2. Len(C) = 13 + 2 * n /\ Len(C) + Len(R) = 14 + 2 * n
      BY SMTT(30), <1>4, <1>7, <1>8
    <2>3. \A k \in 1 .. 13 + 2 * n : (C \o R)[k] = C[k]
      BY SMTT(30), <2>1, <2>2
    <2>4. /\ 14 + 2 * n \in 1 .. Len(C) + Len(R) /\ ~(14 + 2 * n <= Len(C))
          /\ (14 + 2 * n) - Len(C) = 1
      BY SMTT(30), <2>2
    <2> QED BY <1>7, <2>1, <2>2, <2>3, <2>4
  <1>10. ASSUME NEW j \in 0 .. n - 1
         PROVE  /\ (C \o R)[13 + (2 * j + 1)] = <<"wr!", data[j + 1]>>
                /\ (C \o R)[13 + (2 * j + 2)] = <<"in_busy", 0>>
    <2>1. /\ 13 + (2 * j + 1) \in 1 .. 13 + 2 * n /\ 13 + (2 * j + 2) \in 1 .. 13 + 2 * n
      BY SMTT(30)
    <2>2. C[13 + (2 * j + 1)] = two(j + 1)[1] /\ C[13 + (2 * j + 2)] = two(j + 1)[2]
      BY <1>4, <1>5, <1>8
    <2> QED BY <1>2, <1>9, <2>1, <2>2
  <1>11. \A k \in 1 .. 13 : (C \o R)[k] = B[k]
    <2>1. \A k \in 1 .. 13 : k \in 1 .. 13 + 2 * n
      BY SMTT(30)
    <2> QED BY <1>8, <1>9, <2>1
  <1> QED BY <1>1, <1>9, <1>10, <1>11 DEF B, C

-----------------------------------------------------------------------------
(* The microcontroller.                                                    *)

\* m with other registers, and with another flash.
With(m, r) == [m EXCEPT !.regs = r]
WithFlash(m, r, f) == [m EXCEPT !.regs = r, !.flash = f]

LEMMA WithFacts ==
    ASSUME NEW m \in Mcus, NEW r \in Regs, NEW f \in Flashes
    PROVE  /\ With(m, r) \in Mcus /\ With(m, r).regs = r /\ With(m, r).flash = m.flash
           /\ WithFlash(m, r, f) \in Mcus
           /\ WithFlash(m, r, f).regs = r /\ WithFlash(m, r, f).flash = f
           /\ m.regs \in Regs /\ m.flash \in Flashes
  BY DEF With, WithFlash, Mcus

LEMMA WithRegs ==
    ASSUME NEW m \in Mcus, NEW r \in Regs
    PROVE  With(m, r) \in Mcus /\ With(m, r).regs = r /\ With(m, r).flash = m.flash
  BY DEF With, Mcus

LEMMA WriteCommand ==
    ASSUME NEW m \in Mcus, NEW v, ~m.regs.lost, m.regs.ar = "FPDAT"
    PROVE  /\ m.regs.key # 2 => McuWrite(m, v) = m
           /\ m.regs.key = 2 /\ m.regs.ph = "idle" =>
                 McuWrite(m, v) = With(m, [m.regs EXCEPT !.cmd = v, !.ph = "ack",
                                                         !.args = <<>>, !.pos = 0])
  BY DEF McuWrite, With

LEMMA WriteArgument ==
    ASSUME NEW m \in Mcus, NEW v, ~m.regs.lost, m.regs.ar = "FPDAT", m.regs.key = 2,
           m.regs.ph = "args", NEW t, Append(m.regs.args, v) = t
    PROVE  /\ Len(t) < 3 => McuWrite(m, v) = With(m, [m.regs EXCEPT !.args = t])
           /\ Len(t) = 3 /\ m.regs.cmd # "DEVICE_ERASE" =>
                 McuWrite(m, v) = With(m, [m.regs EXCEPT !.args = t, !.ph = "ack2"])
           /\ Len(t) = 3 /\ m.regs.cmd = "DEVICE_ERASE" /\ t = <<"de", "ad", "a5">> =>
                 McuWrite(m, v) =
                   WithFlash(m, [m.regs EXCEPT !.args = t, !.ph = "idle"],
                             [a \in Addresses |-> "erased"])
  <1> DEFINE r == m.regs
             args == Append(r.args, v)
             More(ph) == [m EXCEPT !.regs.args = args, !.regs.ph = ph]
  <1>1. r \in Regs
    BY DEF Mcus
  <1>2. \A ph : More(ph) = With(m, [r EXCEPT !.args = args, !.ph = ph])
    BY DEF Mcus, With, Regs
  <1>3. Len(args) < 3 => McuWrite(m, v) = More("args")
    BY SMTT(30) DEF McuWrite
  <1>4. Len(args) = 3 /\ r.cmd # "DEVICE_ERASE" => McuWrite(m, v) = More("ack2")
    BY SMTT(30) DEF McuWrite
  <1>5. Len(args) = 3 /\ r.cmd = "DEVICE_ERASE" /\ args = <<"de", "ad", "a5">> =>
           McuWrite(m, v) = [More("idle") EXCEPT !.flash = [a \in Addresses |-> "erased"]]
    BY SMTT(30) DEF McuWrite
  <1> HIDE DEF args, More
  <1>6. [r EXCEPT !.args = args, !.ph = "args"] = [r EXCEPT !.args = args]
    BY <1>1 DEF Regs
  <1>7. \A R : [With(m, R) EXCEPT !.flash = [a \in Addresses |-> "erased"]] =
               WithFlash(m, R, [a \in Addresses |-> "erased"])
    BY DEF With, WithFlash, Mcus
  <1> QED BY <1>2, <1>3, <1>4, <1>5, <1>6, <1>7 DEF args

LEMMA WriteByte ==
    ASSUME NEW m \in Mcus, NEW v, ~m.regs.lost, m.regs.ar = "FPDAT", m.regs.key = 2,
           m.regs.ph = "data", m.regs.cmd = "BLOCK_WRITE"
    PROVE  McuWrite(m, v) =
             WithFlash(m, NextByte(m.regs),
                       [m.flash EXCEPT ![Target(m.regs) + m.regs.pos] = v])
  BY DEF McuWrite, WithFlash

LEMMA WriteKey ==
    ASSUME NEW m \in Mcus, NEW v, ~m.regs.lost, m.regs.ar = "FPCTL"
    PROVE  McuWrite(m, v) =
             With(m, [m.regs EXCEPT !.key =
                        IF v = 2 THEN 1 ELSE IF v = 1 /\ m.regs.key = 1 THEN 2 ELSE 0])
  BY DEF McuWrite, With, Mcus

LEMMA ReadPhase ==
    ASSUME NEW m \in Mcus
    PROVE  /\ m.regs.ph = "ack" => McuRead(m) = With(m, [m.regs EXCEPT !.ph = "args"])
           /\ m.regs.ph = "ack2" => McuRead(m) = With(m, [m.regs EXCEPT !.ph = "data"])
           /\ m.regs.ph = "data" => McuRead(m) = With(m, NextByte(m.regs))
  BY DEF McuRead, With, Mcus

LEMMA NextByteFacts ==
    ASSUME NEW r \in Regs
    PROVE  /\ NextByte(r) = [r EXCEPT !.pos = r.pos + 1,
                                      !.ph = IF r.pos + 1 = Count(r) THEN "idle" ELSE r.ph]
           /\ NextByte(r) \in Regs
  <1> DEFINE q == r.pos + 1
             ph == IF q = Count(r) THEN "idle" ELSE r.ph
  <1>1. q \in Nat /\ ph \in Phases
    BY SMTT(30) DEF Regs, Phases
  <1>2. NextByte(r) = [r EXCEPT !.pos = q, !.ph = ph]
    BY DEF NextByte, Regs
  <1> HIDE DEF q, ph
  <1>3. [r EXCEPT !.pos = q, !.ph = ph] \in Regs
    BY <1>1 DEF Regs
  <1> QED BY <1>2, <1>3 DEF q, ph

-----------------------------------------------------------------------------
(* A script that is heard, item by item.                                   *)

\* What item p does to a microcontroller that hears it, and to the buffer.
Tell(m, p) ==
    IF p[1] = "ar" THEN [m EXCEPT !.regs.ar = p[2]]
    ELSE IF p[1] \in {"wr", "wr!"} THEN McuWrite(m, p[2])
    ELSE IF p[1] \in {"status", "data"} THEN McuRead(m)
    ELSE m

Take(m, b, p) == IF p[1] = "data" THEN Append(b, McuByte(m)) ELSE b

\* Item p comes behind the first k of the nine that begin command w.
HeaderItem(p, w, x, y, k) ==
    /\ k = 0 => p = <<"ar", "FPDAT">>
    /\ k = 1 => p = <<"wr", w>>
    /\ k \in {2, 6, 8} => p = <<"in_busy", 0>>
    /\ k = 3 => p = <<"out_ready", 0>>
    /\ k = 4 => p = <<"status", 0>>
    /\ k = 5 => p = <<"wr", x>>
    /\ k = 7 => p = <<"wr", y>>

LEMMA TupleFacts ==
    ASSUME NEW a, NEW b
    PROVE  <<a, b>>[1] = a /\ <<a, b>>[2] = b
  OBVIOUS

LEMMA AppendFacts ==
    ASSUME NEW x \in Words, NEW y \in Words, NEW z \in Words
    PROVE  /\ Append(<<>>, x) = <<x>> /\ Append(<<x>>, y) = <<x, y>>
           /\ Append(<<x, y>>, z) = <<x, y, z>>
           /\ <<>> \in Seq(Words) /\ <<x>> \in Seq(Words) /\ <<x, y>> \in Seq(Words)
           /\ <<x, y, z>> \in Seq(Words)
           /\ Len(<<x>>) = 1 /\ Len(<<x, y>>) = 2 /\ Len(<<x, y, z>>) = 3
  <1>1. /\ <<>> \in Seq(Words) /\ <<x>> \in Seq(Words) /\ <<x, y>> \in Seq(Words)
        /\ <<x, y, z>> \in Seq(Words)
        /\ Len(<<x>>) = 1 /\ Len(<<x, y>>) = 2 /\ Len(<<x, y, z>>) = 3
    BY SMTT(30)
  <1>2. Append(<<>>, x) = <<x>>
    BY SMTT(30)
  <1>3. Append(<<x>>, y) = <<x, y>>
    <2> DEFINE s == Append(<<x>>, y)
               t == <<x, y>>
    <2>1. s \in Seq(Words) /\ t \in Seq(Words) /\ Len(s) = 2 /\ Len(t) = 2
      BY SMTT(30)
    <2>2. \A i \in 1 .. Len(s) : s[i] = t[i]
      BY SMTT(30)
    <2> HIDE DEF s, t
    <2>3. s = t
      BY <2>1, <2>2, SameSeq
    <2> QED BY <2>3 DEF s, t
  <1>4. Append(<<x, y>>, z) = <<x, y, z>>
    <2> DEFINE s == Append(<<x, y>>, z)
               t == <<x, y, z>>
    <2>1. s \in Seq(Words) /\ t \in Seq(Words) /\ Len(s) = 3 /\ Len(t) = 3
      BY SMTT(30)
    <2>2. \A i \in 1 .. Len(s) : s[i] = t[i]
      BY SMTT(30)
    <2> HIDE DEF s, t
    <2>3. s = t
      BY <2>1, <2>2, SameSeq
    <2> QED BY <2>3 DEF s, t
  <1> QED BY <1>1, <1>2, <1>3, <1>4

HeaderNext(m, w, x, y, k, p) ==
    /\ m \in Mcus /\ ~m.regs.lost /\ {w, x, y} \subseteq Words /\ k \in 0 .. 8
    /\ HeaderItem(p, w, x, y, k) /\ Header(m.regs, w, x, y, k)
    /\ p[1] = "out_ready" => OutReady(m.regs)

HeaderDone(m, w, x, y, k, p) ==
    /\ Tell(m, p) \in Mcus /\ ~Tell(m, p).regs.lost
    /\ Header(Tell(m, p).regs, w, x, y, k + 1)
    /\ Tell(m, p).flash = m.flash

LEMMA HeaderOn ==
    ASSUME NEW m, NEW w, NEW x, NEW y, NEW k, NEW p, HeaderNext(m, w, x, y, k, p)
    PROVE  HeaderDone(m, w, x, y, k, p)
  <1> SUFFICES ASSUME m \in Mcus, w \in Words, x \in Words, y \in Words,
                      k \in 0 .. 8, HeaderItem(p, w, x, y, k), ~m.regs.lost,
                      Header(m.regs, w, x, y, k), p[1] = "out_ready" => OutReady(m.regs)
               PROVE  /\ Tell(m, p) \in Mcus /\ ~Tell(m, p).regs.lost
                      /\ Header(Tell(m, p).regs, w, x, y, k + 1)
                      /\ Tell(m, p).flash = m.flash
    BY DEF HeaderNext, HeaderDone
  <1> DEFINE r == m.regs
  <1>1. r \in Regs /\ m.flash \in Flashes
    BY DEF Mcus
  <1> HIDE DEF r
  <1>2. ASSUME k = 0 PROVE Tell(m, p) = With(m, [r EXCEPT !.ar = "FPDAT"])
    <2>1. p[1] = "ar" /\ p[2] = "FPDAT"
      BY SMTT(30), <1>2 DEF HeaderItem
    <2> QED BY <2>1 DEF Tell, With, Mcus, r
  <1>3. ASSUME NEW q \in Regs, Tell(m, p) = With(m, q), ~q.lost, Header(q, w, x, y, k + 1)
        PROVE  /\ Tell(m, p) \in Mcus /\ ~Tell(m, p).regs.lost
               /\ Header(Tell(m, p).regs, w, x, y, k + 1)
               /\ Tell(m, p).flash = m.flash
    <2>1. With(m, q) \in Mcus /\ With(m, q).regs = q /\ With(m, q).flash = m.flash
      BY <1>1, WithFacts
    <2> QED BY <1>3, <2>1
  <1>4. ASSUME Tell(m, p) = m, Header(r, w, x, y, k + 1)
        PROVE  /\ Tell(m, p) \in Mcus /\ ~Tell(m, p).regs.lost
               /\ Header(Tell(m, p).regs, w, x, y, k + 1)
               /\ Tell(m, p).flash = m.flash
    BY <1>4 DEF r
  <1>5. CASE k = 0
    <2> DEFINE q == [r EXCEPT !.ar = "FPDAT"]
    <2>1. "FPDAT" \in Words
      BY DEF Words
    <2>2. q \in Regs /\ q.ar = "FPDAT" /\ q.ph = r.ph /\ ~q.lost
      BY <1>1, <2>1 DEF Regs, r
    <2>3. r.ph = "idle"
      BY SMTT(30), <1>5 DEF Header, r
    <2>4. Tell(m, p) = With(m, q)
      BY <1>2, <1>5
    <2> HIDE DEF q
    <2>5. Header(q, w, x, y, k + 1)
      BY SMTT(30), <1>5, <2>2, <2>3 DEF Header
    <2> QED BY <1>3, <2>2, <2>4, <2>5
  <1>6. CASE k = 1
    <2>1. p[1] = "wr" /\ p[2] = w
      BY SMTT(30), <1>6 DEF HeaderItem
    <2>2. Tell(m, p) = McuWrite(m, w)
      BY <2>1 DEF Tell
    <2>3. r.ar = "FPDAT" /\ r.ph = "idle"
      BY SMTT(30), <1>6 DEF Header, r
    <2>4. CASE r.key # 2
      <3>1. Tell(m, p) = m
        BY <2>2, <2>3, <2>4, WriteCommand DEF r
      <3>2. Header(r, w, x, y, k + 1)
        BY SMTT(30), <1>6, <2>3, <2>4 DEF Header
      <3> QED BY <1>4, <3>1, <3>2
    <2>5. CASE r.key = 2
      <3> DEFINE q == [r EXCEPT !.cmd = w, !.ph = "ack", !.args = <<>>, !.pos = 0]
      <3>1. Tell(m, p) = With(m, q)
        BY <2>2, <2>3, <2>5, WriteCommand DEF r
      <3>2. "ack" \in Phases /\ <<>> \in Seq(Words) /\ 0 \in Nat
        BY SMTT(30) DEF Phases
      <3>3. /\ q \in Regs /\ q.ar = "FPDAT" /\ q.ph = "ack" /\ ~q.lost /\ q.key = 2
            /\ q.cmd = w /\ q.args = <<>> /\ q.pos = 0
        BY <1>1, <2>3, <2>5, <3>2 DEF Regs, r
      <3> HIDE DEF q
      <3>4. Header(q, w, x, y, k + 1)
        BY SMTT(30), <1>6, <3>3 DEF Header
      <3> QED BY <1>3, <3>1, <3>3, <3>4
    <2> QED BY <2>4, <2>5
  <1>7. CASE k \in {2, 6, 8}
    <2>1. p[1] = "in_busy"
      BY SMTT(30), <1>7 DEF HeaderItem
    <2>2. Tell(m, p) = m
      BY <2>1 DEF Tell
    <2>3. Header(r, w, x, y, k + 1)
      BY SMTT(30), <1>7 DEF Header, r
    <2> QED BY <1>4, <2>2, <2>3
  <1>8. CASE k = 3
    <2>1. p[1] = "out_ready"
      BY SMTT(30), <1>8 DEF HeaderItem
    <2>2. Tell(m, p) = m
      BY <2>1 DEF Tell
    <2>3. r.key = 2
      BY <2>1 DEF OutReady, r
    <2>4. Header(r, w, x, y, k + 1)
      BY SMTT(30), <1>8, <2>3 DEF Header, r
    <2> QED BY <1>4, <2>2, <2>4
  <1>9. CASE k = 4
    <2>1. p[1] = "status"
      BY SMTT(30), <1>9 DEF HeaderItem
    <2>2. r.ar = "FPDAT" /\ r.key = 2 /\ r.cmd = w /\ r.pos = 0 /\ r.ph = "ack" /\ r.args = <<>>
      BY SMTT(30), <1>9 DEF Header, r
    <2> DEFINE q == [r EXCEPT !.ph = "args"]
    <2>3. Tell(m, p) = With(m, q)
      BY <2>1, <2>2, ReadPhase DEF Tell, r
    <2>4. "args" \in Phases
      BY DEF Phases
    <2>5. /\ q \in Regs /\ q.ar = "FPDAT" /\ q.ph = "args" /\ ~q.lost /\ q.key = 2
          /\ q.cmd = w /\ q.args = <<>> /\ q.pos = 0
      BY <1>1, <2>2, <2>4 DEF Regs, r
    <2> HIDE DEF q
    <2>6. Header(q, w, x, y, k + 1)
      BY SMTT(30), <1>9, <2>5 DEF Header
    <2> QED BY <1>3, <2>3, <2>5, <2>6
  <1>10. CASE k = 5
    <2>1. p[1] = "wr" /\ p[2] = x
      BY SMTT(30), <1>10 DEF HeaderItem
    <2>2. r.ar = "FPDAT" /\ r.key = 2 /\ r.cmd = w /\ r.pos = 0 /\ r.ph = "args" /\ r.args = <<>>
      BY SMTT(30), <1>10 DEF Header, r
    <2>3. Append(<<>>, x) = <<x>> /\ Len(<<x>>) = 1 /\ <<x>> \in Seq(Words)
      BY AppendFacts
    <2> DEFINE q == [r EXCEPT !.args = <<x>>]
    <2>7. /\ m.regs.ar = "FPDAT" /\ m.regs.key = 2 /\ m.regs.ph = "args"
          /\ Append(m.regs.args, x) = <<x>> /\ Len(<<x>>) < 3
      BY SMTT(30), <2>2, <2>3 DEF r
    <2>8. McuWrite(m, x) = With(m, [m.regs EXCEPT !.args = <<x>>])
      BY <2>7, WriteArgument
    <2>4. Tell(m, p) = With(m, q)
      BY <2>1, <2>8 DEF Tell, r
    <2>5. /\ q \in Regs /\ q.ar = "FPDAT" /\ q.ph = "args" /\ ~q.lost /\ q.key = 2
          /\ q.cmd = w /\ q.args = <<x>> /\ q.pos = 0
      BY <1>1, <2>2, <2>3 DEF Regs, r
    <2> HIDE DEF q
    <2>6. Header(q, w, x, y, k + 1)
      BY SMTT(30), <1>10, <2>5 DEF Header
    <2> QED BY <1>3, <2>4, <2>5, <2>6
  <1>11. CASE k = 7
    <2>1. p[1] = "wr" /\ p[2] = y
      BY SMTT(30), <1>11 DEF HeaderItem
    <2>2. r.ar = "FPDAT" /\ r.key = 2 /\ r.cmd = w /\ r.pos = 0 /\ r.ph = "args" /\ r.args = <<x>>
      BY SMTT(30), <1>11 DEF Header, r
    <2>3. Append(<<x>>, y) = <<x, y>> /\ Len(<<x, y>>) = 2 /\ <<x, y>> \in Seq(Words)
      BY AppendFacts
    <2> DEFINE q == [r EXCEPT !.args = <<x, y>>]
    <2>7. /\ m.regs.ar = "FPDAT" /\ m.regs.key = 2 /\ m.regs.ph = "args"
          /\ Append(m.regs.args, y) = <<x, y>> /\ Len(<<x, y>>) < 3
      BY SMTT(30), <2>2, <2>3 DEF r
    <2>8. McuWrite(m, y) = With(m, [m.regs EXCEPT !.args = <<x, y>>])
      BY <2>7, WriteArgument
    <2>4. Tell(m, p) = With(m, q)
      BY <2>1, <2>8 DEF Tell, r
    <2>5. /\ q \in Regs /\ q.ar = "FPDAT" /\ q.ph = "args" /\ ~q.lost /\ q.key = 2
          /\ q.cmd = w /\ q.args = <<x, y>> /\ q.pos = 0
      BY <1>1, <2>2, <2>3 DEF Regs, r
    <2> HIDE DEF q
    <2>6. Header(q, w, x, y, k + 1)
      BY SMTT(30), <1>11, <2>5 DEF Header
    <2> QED BY <1>3, <2>4, <2>5, <2>6
  <1> QED BY SMTT(30), <1>5, <1>6, <1>7, <1>8, <1>9, <1>10, <1>11

LEMMA HeaderEnd ==
    ASSUME NEW r, NEW w, NEW x, NEW y, Header(r, w, x, y, 9)
    PROVE  /\ r.ar = "FPDAT" /\ r.key = 2 /\ r.cmd = w /\ r.pos = 0 /\ r.ph = "args"
           /\ r.args = <<x, y>>
  BY SMTT(30) DEF Header

LEMMA EraseOn ==
    ASSUME NEW m \in Mcus, NEW bf, NEW k \in 0 .. 11, ~m.regs.lost,
           NEW p, p = Erase[k + 1], EraseAt(m, bf, k),
           p[1] = "out_ready" => OutReady(m.regs)
    PROVE  Tell(m, p) \in Mcus /\ ~Tell(m, p).regs.lost /\ EraseAt(Tell(m, p), bf, k + 1)
  <1>1. CASE k <= 8
    <2>1. k \in 0 .. 8
      BY SMTT(30), <1>1
    <2>2. HeaderItem(p, "DEVICE_ERASE", "de", "ad", k)
      BY SMTT(30), <2>1, EraseItems DEF HeaderItem
    <2>3. Header(m.regs, "DEVICE_ERASE", "de", "ad", k) /\ m.flash = bf
      BY SMTT(30), <2>1 DEF EraseAt
    <2>4. "DEVICE_ERASE" \in Words /\ "de" \in Words /\ "ad" \in Words
      BY DEF Words
    <2>5. /\ Tell(m, p) \in Mcus /\ ~Tell(m, p).regs.lost
          /\ Header(Tell(m, p).regs, "DEVICE_ERASE", "de", "ad", k + 1)
          /\ Tell(m, p).flash = m.flash
      <3>1. HeaderNext(m, "DEVICE_ERASE", "de", "ad", k, p)
        BY <2>1, <2>2, <2>3, <2>4 DEF HeaderNext
      <3>2. HeaderDone(m, "DEVICE_ERASE", "de", "ad", k, p)
        BY <3>1, HeaderOn
      <3> QED BY <3>2 DEF HeaderDone
    <2> QED BY SMTT(30), <2>1, <2>3, <2>5 DEF EraseAt
  <1>2. CASE k = 9
    <2>1. p[1] = "wr" /\ p[2] = "a5"
      BY SMTT(30), <1>2, EraseItems
    <2>2. Header(m.regs, "DEVICE_ERASE", "de", "ad", 9)
      BY SMTT(30), <1>2 DEF EraseAt
    <2>3. /\ m.regs.ar = "FPDAT" /\ m.regs.key = 2 /\ m.regs.cmd = "DEVICE_ERASE"
          /\ m.regs.ph = "args" /\ m.regs.args = <<"de", "ad">>
      BY SMTT(30), <2>2, HeaderEnd
    <2> DEFINE t == <<"de", "ad", "a5">>
               q == [m.regs EXCEPT !.args = t, !.ph = "idle"]
               f == [a \in Addresses |-> "erased"]
    <2>4. Append(m.regs.args, "a5") = t /\ Len(t) = 3 /\ t \in Seq(Words)
      <3>1. "de" \in Words /\ "ad" \in Words /\ "a5" \in Words
        BY DEF Words
      <3>2. Append(<<"de", "ad">>, "a5") = t /\ Len(t) = 3 /\ t \in Seq(Words)
        BY <3>1, AppendFacts
      <3>3. m.regs.args = <<"de", "ad">>
        BY <2>3
      <3> QED BY <3>2, <3>3
    <2>5. McuWrite(m, "a5") = WithFlash(m, q, f)
      BY <2>3, <2>4, WriteArgument
    <2>6. q \in Regs /\ q.ar = "FPDAT" /\ q.key = 2 /\ q.cmd = "DEVICE_ERASE"
          /\ q.ph = "idle" /\ ~q.lost
      <3>1. m.regs \in Regs /\ "idle" \in Phases
        BY DEF Mcus, Phases
      <3> HIDE DEF t
      <3> QED BY <2>3, <2>4, <3>1 DEF Regs
    <2>7. f \in Flashes /\ \A a \in Addresses : f[a] = "erased"
      BY DEF Flashes, Cell
    <2> HIDE DEF q, f
    <2>8. Tell(m, p) = WithFlash(m, q, f)
      BY <2>1, <2>5 DEF Tell
    <2>9. Tell(m, p) \in Mcus /\ Tell(m, p).regs = q /\ Tell(m, p).flash = f
      BY SMTT(30), <2>6, <2>7, <2>8, WithFacts
    <2> QED BY SMTT(30), <1>2, <2>6, <2>7, <2>9 DEF EraseAt, Open
  <1>3. CASE k \in {10, 11}
    <2>1. p[1] \in {"in_busy", "out_ready"}
      BY SMTT(30), <1>3, EraseItems
    <2>2. Tell(m, p) = m
      BY <2>1 DEF Tell
    <2> QED BY SMTT(30), <1>3, <2>2 DEF EraseAt
  <1> QED BY SMTT(30), <1>1, <1>2, <1>3

\* Item p of a block command is next, and what it does.
BlockNext(m, w, off, n, k, p) ==
    /\ m \in Mcus /\ ~m.regs.lost /\ w \in {"BLOCK_READ", "BLOCK_WRITE"}
    /\ off \in Nat /\ n \in Nat /\ n >= 1 /\ k \in 0 .. 12
    /\ p = Block(w, off, n)[k + 1] /\ BlockAt(m, w, off, n, k)
    /\ p[1] = "out_ready" => OutReady(m.regs)

BlockDone(m, w, off, n, k, p) ==
    /\ Tell(m, p) \in Mcus /\ ~Tell(m, p).regs.lost
    /\ BlockAt(Tell(m, p), w, off, n, k + 1)
    /\ Tell(m, p).flash = m.flash /\ p[1] # "data"
    /\ k = 12 => Tell(m, p).regs.pos = 0

LEMMA BlockOn ==
    ASSUME NEW m, NEW w, NEW off, NEW n, NEW k, NEW p, BlockNext(m, w, off, n, k, p)
    PROVE  BlockDone(m, w, off, n, k, p)
  <1> DEFINE x == off \div Base
             y == off % Base
             r == m.regs
             B == Block(w, off, n)
  <1>m. m \in Mcus /\ ~m.regs.lost /\ (p[1] = "out_ready" => OutReady(m.regs))
    BY DEF BlockNext
  <1>k. k \in 0 .. 12 /\ off \in Nat /\ n \in Nat /\ n >= 1 /\ p = B[k + 1]
    BY DEF BlockNext
  <1>b. BlockAt(m, w, off, n, k)
    BY DEF BlockNext
  <1>w. w \in Words /\ w # "DEVICE_ERASE"
    <2>1. w = "BLOCK_READ" \/ w = "BLOCK_WRITE"
      BY DEF BlockNext
    <2>2. "BLOCK_READ" \in Words /\ "BLOCK_WRITE" \in Words
      BY DEF Words
    <2> QED BY <2>1, <2>2
  <1>7. BlockIs(B, w, x, y, n)
    BY <1>w, <1>k, BlockItems
  <1> HIDE DEF B
  <1>1. x \in Words /\ y \in Words /\ n \in Words
    BY SMTT(30), <1>k, Constants DEF Words
  <1>2. r \in Regs /\ m.flash \in Flashes
    BY <1>m DEF Mcus
  <1>3. CASE k <= 8
    <2>1. k \in 0 .. 8 /\ k <= 9 /\ k + 1 <= 9 /\ k # 12
      BY SMTT(30), <1>k, <1>3
    <2> HIDE DEF x, y
    <2>2. HeaderItem(p, w, x, y, k) /\ p[1] # "data"
      BY SMTT(30), <1>k, <1>7, <2>1 DEF HeaderItem, BlockIs
    <2>3. Header(m.regs, w, x, y, k)
      BY <1>b, <2>1 DEF BlockAt, x, y
    <2>5. /\ Tell(m, p) \in Mcus /\ ~Tell(m, p).regs.lost
          /\ Header(Tell(m, p).regs, w, x, y, k + 1)
          /\ Tell(m, p).flash = m.flash
      <3>1. HeaderNext(m, w, x, y, k, p)
        BY <1>m, <1>w, <1>1, <2>1, <2>2, <2>3 DEF HeaderNext
      <3>2. HeaderDone(m, w, x, y, k, p)
        BY <3>1, HeaderOn
      <3> QED BY <3>2 DEF HeaderDone
    <2>6. BlockAt(Tell(m, p), w, off, n, k + 1)
      BY <2>1, <2>5 DEF BlockAt, x, y
    <2> QED BY <2>1, <2>2, <2>5, <2>6 DEF BlockDone
  <1>4. CASE k = 9
    <2>1. p[1] = "wr" /\ p[2] = n
      BY SMTT(30), <1>k, <1>7, <1>4 DEF BlockIs
    <2>2. Header(m.regs, w, x, y, 9)
      BY SMTT(30), <1>b, <1>4 DEF BlockAt
    <2> DEFINE t == <<x, y, n>>
               q == [m.regs EXCEPT !.args = t, !.ph = "ack2"]
    <2> HIDE DEF x, y, r
    <2>3. /\ m.regs.ar = "FPDAT" /\ m.regs.key = 2 /\ m.regs.cmd = w /\ m.regs.pos = 0
          /\ m.regs.ph = "args" /\ m.regs.args = <<x, y>>
      BY SMTT(30), <2>2, HeaderEnd
    <2>4. Append(m.regs.args, n) = t /\ Len(t) = 3 /\ t \in Seq(Words)
      <3>1. Append(<<x, y>>, n) = t /\ Len(t) = 3 /\ t \in Seq(Words)
        BY <1>1, AppendFacts
      <3> QED BY <2>3, <3>1
    <2>5. McuWrite(m, n) = With(m, q)
      <3>1. m.regs.cmd # "DEVICE_ERASE"
        BY <1>w, <2>3
      <3> QED BY <1>m, <2>3, <2>4, <3>1, WriteArgument
    <2>6. q \in Regs /\ q.ar = "FPDAT" /\ q.key = 2 /\ q.cmd = w
          /\ q.ph = "ack2" /\ ~q.lost /\ q.args = t /\ q.pos = 0
      <3>1. m.regs \in Regs /\ "ack2" \in Phases
        BY <1>m DEF Mcus, Phases
      <3> HIDE DEF t
      <3> QED BY <1>m, <2>3, <2>4, <3>1 DEF Regs
    <2> HIDE DEF q
    <2>8. Tell(m, p) = With(m, q)
      BY <2>1, <2>5 DEF Tell
    <2>9. Tell(m, p) \in Mcus /\ Tell(m, p).regs = q /\ Tell(m, p).flash = m.flash
      <3>1. q \in Regs
        BY <2>6
      <3> QED BY SMTT(30), <1>m, <2>8, <3>1, WithRegs
    <2>7. Open(q, w)
      BY <2>6 DEF Open
    <2>10. BlockAt(Tell(m, p), w, off, n, k + 1)
      <3>1. ~(k + 1 <= 9) /\ k + 1 <= 12 /\ ~(k + 1 > 12) /\ 0 <= n
        BY SMTT(30), <1>k, <1>4
      <3> QED BY <2>6, <2>7, <2>9, <3>1 DEF BlockAt, x, y
    <2> QED BY <1>4, <2>1, <2>6, <2>9, <2>10 DEF BlockDone
  <1>5. CASE k \in {10, 11}
    <2>1. p[1] \in {"in_busy", "out_ready"}
      BY SMTT(30), <1>k, <1>7, <1>5 DEF BlockIs
    <2>2. Tell(m, p) = m
      BY <2>1 DEF Tell
    <2>3. BlockAt(m, w, off, n, k + 1)
      BY SMTT(30), <1>b, <1>5 DEF BlockAt
    <2> QED BY SMTT(30), <1>m, <1>5, <2>1, <2>2, <2>3 DEF BlockDone
  <1>6. CASE k = 12
    <2>1. p[1] = "status"
      BY SMTT(30), <1>k, <1>7, <1>6 DEF BlockIs
    <2>2. Open(r, w) /\ r.args = <<x, y, n>> /\ r.ph = "ack2" /\ r.pos = 0
      BY SMTT(30), <1>b, <1>6 DEF BlockAt
    <2> DEFINE q == [r EXCEPT !.ph = "data"]
    <2>3. Tell(m, p) = With(m, q)
      BY <1>m, <2>1, <2>2, ReadPhase DEF Tell
    <2> HIDE DEF x, y
    <2>4. q \in Regs /\ Open(q, w) /\ q.args = <<x, y, n>> /\ q.ph = "data" /\ q.pos = 0
          /\ ~q.lost
      <3>1. "data" \in Phases
        BY DEF Phases
      <3> QED BY <1>m, <1>2, <2>2, <3>1 DEF Regs, Open
    <2> HIDE DEF q
    <2>5. Tell(m, p) \in Mcus /\ Tell(m, p).regs = q /\ Tell(m, p).flash = m.flash
      <3>1. q \in Regs
        BY <2>4
      <3> QED BY SMTT(30), <1>m, <2>3, <3>1, WithRegs
    <2>6. BlockAt(Tell(m, p), w, off, n, k + 1)
      <3>1. ~(k + 1 <= 9) /\ ~(k + 1 <= 12) /\ 0 <= n /\ 0 # n
        BY SMTT(30), <1>k, <1>6
      <3> QED BY <2>4, <2>5, <3>1 DEF BlockAt, x, y
    <2> QED BY <1>6, <2>1, <2>4, <2>5, <2>6 DEF BlockDone
  <1>8. k <= 8 \/ k = 9 \/ k \in {10, 11} \/ k = 12
    BY SMTT(30), <1>k
  <1> QED BY <1>3, <1>4, <1>5, <1>6, <1>8

LEMMA TargetIs ==
    ASSUME NEW r, NEW off \in Nat, NEW n, r.args = <<off \div Base, off % Base, n>>
    PROVE  Target(r) = off /\ Count(r) = n
  <1> DEFINE x == off \div Base
             y == off % Base
  <1>1. x * Base + y = off
    BY SMTT(30), Constants
  <1> HIDE DEF x, y
  <1>2. r.args[1] = x /\ r.args[2] = y /\ r.args[3] = n
    BY SMTT(30) DEF x, y
  <1> QED BY <1>1, <1>2 DEF Target, Count

LEMMA ReadScript ==
    ASSUME NEW c \in Calls, c.op = "flash_read", c.off < Size
    PROVE  Full(c) = ReadBlock(c.off, Transfer(c))
  <1>1. c.off \in Nat /\ Size \in Nat /\ ~(c.off >= Size)
    BY SMTT(30), Constants
  <1> QED BY <1>1 DEF Full, ScriptOf

LEMMA WriteScript ==
    ASSUME NEW c \in Calls, c.op = "flash_write"
    PROVE  Full(c) = WriteBlock(c.off, c.data, Transfer(c))
  BY DEF Full, ScriptOf

LEMMA EraseScript ==
    ASSUME NEW c, c.op = "flash_erase"
    PROVE  Full(c) = Erase
  BY DEF Full, ScriptOf

LEMMA OtherScript ==
    ASSUME NEW c \in Calls, ~(c.op = "flash_erase"), ~(c.op = "flash_read" /\ c.off < Size),
           ~(c.op = "flash_write")
    PROVE  \/ Full(c) = <<>>
           \/ c.op = "flash_access" /\ Full(c) = EnableFlash
           \/ c.op \in {"dev_id", "rev_id"} /\ Full(c) = <<<<"ar", c.op>>, <<"id", 0>>>>
  <1>1. c.off \in Nat /\ Size \in Nat
    BY Constants
  <1>2. c.op \in Unchecked \cup AccessOps \cup FlashOps
    BY Constants
  <1>3. CASE c.op \in {"access", "reset"}
    BY <1>3 DEF Full
  <1>4. CASE c.op = "flash_access"
    BY <1>4 DEF Full
  <1>5. CASE c.op \in {"dev_id", "rev_id"}
    BY <1>5 DEF Full, ScriptOf
  <1>6. CASE c.op = "flash_read"
    BY SMTT(30), <1>1, <1>6 DEF Full, ScriptOf
  <1> QED BY <1>2, <1>3, <1>4, <1>5, <1>6 DEF Unchecked, AccessOps, FlashOps

LEMMA FullItems ==
    ASSUME NEW c \in Calls, c.op = "flash_write" => c.off < Size
    PROVE  /\ Full(c) \in Seq(Items)
           /\ c.op = "flash_read" /\ c.off < Size => Len(Full(c)) = 13 + 2 * Transfer(c)
           /\ c.op = "flash_read" /\ ~(c.off < Size) => Full(c) = <<>>
  <1>1. CASE c.op = "flash_erase"
    BY <1>1, EraseScript, EraseItems
  <1>2. CASE c.op = "flash_read" /\ c.off < Size
    <2> DEFINE n == Transfer(c)
    <2>1. n \in Nat /\ c.off \in Nat
      BY <1>2, TransferFacts
    <2> HIDE DEF n
    <2>2. ReadBlock(c.off, n) \in Seq(Items) /\ Len(ReadBlock(c.off, n)) = 13 + 2 * n
      BY <2>1, ReadItems
    <2>3. Full(c) = ReadBlock(c.off, n)
      BY <1>2, ReadScript DEF n
    <2> QED BY <1>2, <2>2, <2>3 DEF n
  <1>3. CASE c.op = "flash_write"
    <2>1. WriteBlock(c.off, c.data, Transfer(c)) \in Seq(Items)
      BY <1>3, TransferFacts, WriteItems
    <2> QED BY <1>3, <2>1, WriteScript
  <1>4. CASE /\ ~(c.op = "flash_erase") /\ ~(c.op = "flash_read" /\ c.off < Size)
             /\ ~(c.op = "flash_write")
    <2>1. EnableFlash \in Seq(Items)
      <3>1. "FPCTL" \in Words /\ 2 \in Words /\ 1 \in Words
        BY DEF Words
      <3> QED BY SMTT(30), <3>1 DEF EnableFlash, Items
    <2>2. ASSUME c.op \in {"dev_id", "rev_id"}
          PROVE  <<<<"ar", c.op>>, <<"id", 0>>>> \in Seq(Items)
      <3>1. c.op \in Words /\ 0 \in Words
        BY <2>2 DEF Words
      <3>2. \A v \in Words : <<<<"ar", v>>, <<"id", 0>>>> \in Seq(Items)
        BY SMTT(30), <3>1 DEF Items
      <3> QED BY <3>1, <3>2
    <2>3. \/ Full(c) = <<>>
          \/ c.op = "flash_access" /\ Full(c) = EnableFlash
          \/ c.op \in {"dev_id", "rev_id"} /\ Full(c) = <<<<"ar", c.op>>, <<"id", 0>>>>
      BY <1>4, OtherScript
    <2>4. CASE Full(c) = <<>>
      BY SMTT(30), <1>4, <2>4
    <2>5. CASE c.op = "flash_access" /\ Full(c) = EnableFlash
      BY <2>1, <2>5
    <2>6. CASE /\ c.op \in {"dev_id", "rev_id"}
               /\ Full(c) = <<<<"ar", c.op>>, <<"id", 0>>>>
      <3>1. Full(c) \in Seq(Items)
        BY <2>2, <2>6
      <3> QED BY <2>6, <3>1
    <2> QED BY <2>3, <2>4, <2>5, <2>6
  <1> QED BY <1>1, <1>2, <1>3, <1>4

\* A command that moves a byte in its data phase.
LEMMA ByteMoved ==
    ASSUME NEW m \in Mcus, NEW w, NEW off \in Nat, NEW n \in Nat, NEW k \in Nat, k > 12,
           BlockAt(m, w, off, n, k), m.regs.pos < n, ~m.regs.lost
    PROVE  /\ m.regs.ph = "data" /\ m.regs.ar = "FPDAT" /\ m.regs.key = 2 /\ m.regs.cmd = w
           /\ Target(m.regs) = off /\ NextByte(m.regs) \in Regs
           /\ NextByte(m.regs).pos = m.regs.pos + 1 /\ ~NextByte(m.regs).lost
           /\ \A g, j : g.regs = NextByte(m.regs) /\ j \in Nat /\ j > 12 =>
                        BlockAt(g, w, off, n, j)
  <1> DEFINE r == m.regs
             q == NextByte(r)
             t == <<off \div Base, off % Base, n>>
  <1>1. r \in Regs /\ r.pos \in Nat
    BY DEF Mcus, Regs
  <1>2. Open(r, w) /\ r.args = t /\ r.ph = "data"
    BY SMTT(30) DEF BlockAt
  <1>3. Target(r) = off /\ Count(r) = n
    BY <1>2, TargetIs
  <1> HIDE DEF r, t
  <1>4. q = [r EXCEPT !.pos = r.pos + 1, !.ph = IF r.pos + 1 = n THEN "idle" ELSE "data"]
    BY <1>1, <1>2, <1>3, NextByteFacts
  <1>5. /\ q.pos = r.pos + 1 /\ q.ph = (IF r.pos + 1 = n THEN "idle" ELSE "data")
        /\ q.args = t /\ q.ar = r.ar /\ q.key = r.key /\ q.cmd = r.cmd /\ q.lost = r.lost
    BY <1>1, <1>2, <1>4 DEF Regs
  <1>6. q \in Regs
    BY <1>1, NextByteFacts
  <1> HIDE DEF q
  <1>7. r.pos + 1 <= n
    BY SMTT(30), <1>1 DEF r
  <1>8. Open(q, w)
    BY <1>2, <1>5 DEF Open
  <1>9. ASSUME NEW g, NEW j \in Nat, g.regs = q, j > 12 PROVE BlockAt(g, w, off, n, j)
    <2>1. g.regs = q /\ ~(j <= 9) /\ ~(j <= 12)
      BY SMTT(30), <1>9
    <2> QED BY <1>5, <1>7, <1>8, <2>1 DEF BlockAt, t
  <1> QED BY <1>2, <1>3, <1>5, <1>6, <1>9 DEF Open, q, r

\* Item p of c's read is next, and what it does.
ReadNext(m, b, bf, c, k, p) ==
    /\ m \in Mcus /\ ~m.regs.lost /\ c \in Calls /\ c.op = "flash_read" /\ c.off < Size
    /\ b \in Seq(Buf) /\ k \in Nat /\ k < 13 + 2 * Transfer(c)
    /\ p = ReadBlock(c.off, Transfer(c))[k + 1]
    /\ ReadAt(m, b, bf, c, k)
    /\ k <= 13 => b = <<>>
    /\ p[1] = "out_ready" => OutReady(m.regs)

ReadDone(m, b, bf, c, k, p) ==
    /\ Tell(m, p) \in Mcus /\ ~Tell(m, p).regs.lost
    /\ ReadAt(Tell(m, p), Take(m, b, p), bf, c, k + 1)
    /\ Tell(m, p).flash = m.flash /\ Take(m, b, p) \in Seq(Buf)

LEMMA ReadOn ==
    ASSUME NEW m, NEW b, NEW bf, NEW c, NEW k, NEW p, ReadNext(m, b, bf, c, k, p)
    PROVE  ReadDone(m, b, bf, c, k, p)
  <1> DEFINE n == Transfer(c)
             off == c.off
             g == Tell(m, p)
             t == Take(m, b, p)
  <1>m. m \in Mcus /\ ~m.regs.lost /\ (p[1] = "out_ready" => OutReady(m.regs))
    BY DEF ReadNext
  <1>k. k \in Nat /\ b \in Seq(Buf) /\ (k <= 13 => b = <<>>)
    BY DEF ReadNext
  <1>1. n \in Nat /\ n >= 1 /\ off + n <= Size /\ off \in Nat
    BY TransferFacts DEF ReadNext
  <1>r. ReadAt(m, b, bf, c, k)
    BY DEF ReadNext
  <1>2. BlockAt(m, "BLOCK_READ", off, n, k) /\ m.flash = bf
    BY <1>r DEF ReadAt
  <1>3. /\ \A l \in 1 .. 13 : ReadBlock(off, n)[l] = Block("BLOCK_READ", off, n)[l]
        /\ \A j \in 0 .. n - 1 :
              /\ ReadBlock(off, n)[13 + (2 * j + 1)] = <<"out_ready", 0>>
              /\ ReadBlock(off, n)[13 + (2 * j + 2)] = <<"data", 0>>
    BY <1>1, ReadItems
  <1>4. k < 13 + 2 * n /\ p = ReadBlock(off, n)[k + 1]
    BY DEF ReadNext
  <1>5. CASE k <= 12
    <2>1. k \in 0 .. 12 /\ k + 1 \in 1 .. 13
      BY SMTT(30), <1>k, <1>5
    <2>2. p = Block("BLOCK_READ", off, n)[k + 1]
      BY <1>3, <1>4, <2>1
    <2> HIDE DEF n, off
    <2>3. /\ g \in Mcus /\ ~g.regs.lost /\ BlockAt(g, "BLOCK_READ", off, n, k + 1)
          /\ g.flash = m.flash /\ p[1] # "data" /\ (k = 12 => g.regs.pos = 0)
      <3>1. BlockNext(m, "BLOCK_READ", off, n, k, p)
        BY <1>m, <1>1, <1>2, <2>1, <2>2 DEF BlockNext
      <3>2. BlockDone(m, "BLOCK_READ", off, n, k, p)
        BY <3>1, BlockOn
      <3> QED BY <3>2 DEF BlockDone
    <2>4. t = b /\ b = <<>>
      <3>1. k <= 13
        BY SMTT(30), <1>k, <1>5
      <3> QED BY <1>k, <2>3, <3>1 DEF Take
    <2> HIDE DEF g, t
    <2>5. k + 1 >= 13 => k = 12 /\ k + 1 = 13
      BY SMTT(30), <1>k, <1>5
    <2>6. ReadAt(g, t, bf, c, k + 1)
      <3>1. CASE k = 12
        BY SMTT(30), <1>2, <2>3, <2>4, <3>1 DEF ReadAt, n, off
      <3>2. CASE k # 12
        <4>1. ~(k + 1 >= 13)
          BY <2>5, <3>2
        <4> QED BY <1>2, <2>3, <4>1 DEF ReadAt, n, off
      <3> QED BY <3>1, <3>2
    <2>7. t \in Seq(Buf)
      BY <1>k, <2>4
    <2> QED BY <2>3, <2>6, <2>7 DEF ReadDone, g, t
  <1>6. CASE k > 12
    <2> DEFINE pos == m.regs.pos
    <2>1. /\ Len(b) = pos /\ k \in {13 + 2 * Len(b), 14 + 2 * Len(b)} /\ pos \in Nat
          /\ \A j \in 1 .. Len(b) : b[j] = m.flash[off + (j - 1)]
      <3>1. k >= 13
        BY SMTT(30), <1>k, <1>6
      <3>2. pos \in Nat
        BY <1>m DEF Mcus, Regs
      <3> QED BY <1>r, <3>1, <3>2 DEF ReadAt
    <2>0. ~(k <= 9) /\ ~(k <= 12) /\ ~(k + 1 <= 9) /\ ~(k + 1 <= 12) /\ k + 1 > 12
      BY SMTT(30), <1>k, <1>6
    <2> HIDE DEF n, off, g, t, pos
    <2>2. pos < n /\ pos \in 0 .. n - 1
      BY SMTT(30), <1>k, <1>1, <1>4, <2>1
    <2>3. CASE k = 13 + 2 * pos
      <3>1. k + 1 = 13 + (2 * pos + 1) /\ k + 1 = 14 + 2 * pos
        BY SMTT(30), <2>1, <2>3
      <3>2. p[1] = "out_ready"
        <4>1. ReadBlock(off, n)[13 + (2 * pos + 1)] = <<"out_ready", 0>>
          BY <1>3, <2>2
        <4> QED BY SMTT(30), <1>4, <3>1, <4>1
      <3>3. g = m /\ t = b
        BY <3>2 DEF Tell, Take, g, t
      <3>4. BlockAt(m, "BLOCK_READ", off, n, k + 1)
        BY <1>2, <1>6, <2>0 DEF BlockAt
      <3>5. ReadAt(m, b, bf, c, k + 1)
        BY <1>2, <2>1, <3>1, <3>4 DEF ReadAt, n, off, pos
      <3> QED BY <1>m, <1>k, <3>3, <3>5 DEF ReadDone, g, t
    <2>4. CASE k = 14 + 2 * pos
      <3>1. /\ k + 1 = 13 + (2 * pos + 2) /\ k + 1 = 13 + 2 * (pos + 1)
            /\ k + 1 > 12 /\ k + 1 \in Nat
        BY SMTT(30), <2>1, <2>4
      <3>2. p[1] = "data"
        <4>1. ReadBlock(off, n)[13 + (2 * pos + 2)] = <<"data", 0>>
          BY <1>3, <2>2
        <4> QED BY SMTT(30), <1>4, <3>1, <4>1
      <3>3. m.regs.ph = "data" /\ Target(m.regs) = off /\ NextByte(m.regs) \in Regs
        BY <1>m, <1>k, <1>1, <1>2, <1>6, <2>2, ByteMoved DEF pos
      <3>4. g = With(m, NextByte(m.regs))
        BY <1>m, <3>2, <3>3, ReadPhase DEF Tell, g
      <3>5. m.flash \in Flashes
        BY <1>m DEF Mcus
      <3>6. g \in Mcus /\ g.regs = NextByte(m.regs) /\ g.flash = m.flash
        BY <1>m, <3>3, <3>4, <3>5, WithFacts
      <3>7. /\ NextByte(m.regs).pos = pos + 1 /\ ~NextByte(m.regs).lost
            /\ BlockAt(g, "BLOCK_READ", off, n, k + 1)
        BY <1>m, <1>k, <1>1, <1>2, <1>6, <2>2, <3>1, <3>6, ByteMoved DEF pos
      <3>8. t = Append(b, m.flash[off + pos])
        BY <3>2, <3>3 DEF Take, McuByte, t, pos
      <3>9. off + pos \in Addresses /\ m.flash[off + pos] \in Cell
        <4>1. off + pos \in Addresses
          BY SMTT(30), <1>1, <2>2, Constants DEF Addresses
        <4> QED BY <3>5, <4>1 DEF Flashes
      <3>10. m.flash[off + pos] \in Buf
        BY <3>9 DEF Buf
      <3> DEFINE v == m.flash[off + pos]
      <3>11. /\ t \in Seq(Buf) /\ Len(t) = pos + 1 /\ t[pos + 1] = v
             /\ \A j \in 1 .. pos : t[j] = b[j]
        <4> HIDE DEF v
        <4>1. t = Append(b, v) /\ v \in Buf
          BY <3>8, <3>10 DEF v
        <4> QED BY SMTT(30), <1>k, <2>1, <4>1
      <3>12. \A j \in 1 .. Len(t) : t[j] = g.flash[off + (j - 1)]
        <4>1. TAKE j \in 1 .. Len(t)
        <4>2. j \in 1 .. pos \/ (j = pos + 1 /\ j - 1 = pos)
          BY SMTT(30), <2>1, <3>11
        <4> QED BY <2>1, <3>6, <3>11, <4>2
      <3>13. ReadAt(g, t, bf, c, k + 1)
        <4>1. g.regs.pos = pos + 1 /\ g.flash = bf
          BY <1>2, <3>6, <3>7
        <4>2. Len(t) = g.regs.pos /\ k + 1 = 13 + 2 * Len(t)
          BY <3>1, <3>11, <4>1
        <4> QED BY <3>7, <3>12, <4>1, <4>2 DEF ReadAt, n, off
      <3> QED BY <3>6, <3>7, <3>11, <3>13 DEF ReadDone, g, t
    <2> QED BY <2>1, <2>3, <2>4
  <1> QED BY SMTT(30), <1>k, <1>5, <1>6

\* Item p of c's write is next, and what it does.
WriteNext(m, bf, c, k, p) ==
    /\ m \in Mcus /\ ~m.regs.lost /\ c \in Calls /\ c.op = "flash_write" /\ c.off < Size
    /\ k \in Nat /\ k < 14 + 2 * Transfer(c)
    /\ p = WriteBlock(c.off, c.data, Transfer(c))[k + 1]
    /\ WriteAt(m, bf, c, k)
    /\ p[1] = "out_ready" => OutReady(m.regs)

WriteDone(m, bf, c, k, p) ==
    /\ Tell(m, p) \in Mcus /\ ~Tell(m, p).regs.lost
    /\ WriteAt(Tell(m, p), bf, c, k + 1)
    /\ \A a \in Addresses : Tell(m, p).flash[a] # m.flash[a] => a \in Cells(c)

LEMMA WriteOn ==
    ASSUME NEW m, NEW bf, NEW c, NEW k, NEW p, WriteNext(m, bf, c, k, p)
    PROVE  WriteDone(m, bf, c, k, p)
  <1> DEFINE n == Transfer(c)
             off == c.off
             data == c.data
             g == Tell(m, p)
             pos == m.regs.pos
             W == WriteBlock(off, data, n)
  <1>m. m \in Mcus /\ ~m.regs.lost /\ (p[1] = "out_ready" => OutReady(m.regs))
    BY DEF WriteNext
  <1>k. k \in Nat
    BY DEF WriteNext
  <1>1. /\ n \in Nat /\ n >= 1 /\ off + n <= Size /\ off \in Nat /\ n <= Len(data)
        /\ data \in Seq(Bytes)
    BY TransferFacts DEF WriteNext
  <1>w. WriteAt(m, bf, c, k)
    BY DEF WriteNext
  <1>2. BlockAt(m, "BLOCK_WRITE", off, n, k) /\ pos \in Nat
    BY <1>m, <1>w DEF WriteAt, Mcus, Regs
  <1>3. /\ k <= 12 => m.flash = bf
        /\ k > 12 => /\ k = 13 + 2 * pos \/ (k = 12 + 2 * pos /\ pos > 0)
                        \/ (k = 14 + 2 * n /\ pos = n)
                     /\ \A j \in 1 .. pos : m.flash[off + (j - 1)] = data[j]
    BY <1>w DEF WriteAt
  <1>4. k < 14 + 2 * n /\ p = W[k + 1]
    BY DEF WriteNext
  <1>5. \A h, l : /\ BlockAt(h, "BLOCK_WRITE", off, n, l)
                  /\ l <= 12 => h.flash = bf
                  /\ l > 12 => /\ l = 13 + 2 * h.regs.pos
                                  \/ (l = 12 + 2 * h.regs.pos /\ h.regs.pos > 0)
                                  \/ (l = 14 + 2 * n /\ h.regs.pos = n)
                               /\ \A j \in 1 .. h.regs.pos : h.flash[off + (j - 1)] = data[j]
                  => WriteAt(h, bf, c, l)
    BY DEF WriteAt
  <1> HIDE DEF n, off, data, W, g, pos
  <1>6. /\ \A l \in 1 .. 13 : W[l] = Block("BLOCK_WRITE", off, n)[l]
        /\ \A j \in 0 .. n - 1 : /\ W[13 + (2 * j + 1)] = <<"wr!", data[j + 1]>>
                                 /\ W[13 + (2 * j + 2)] = <<"in_busy", 0>>
        /\ W[14 + 2 * n] = <<"out_ready", 0>>
    BY <1>1, WriteItems DEF W
  <1>7. CASE k <= 12
    <2>1. k \in 0 .. 12 /\ k + 1 \in 1 .. 13
      BY SMTT(30), <1>k, <1>7
    <2>2. p = Block("BLOCK_WRITE", off, n)[k + 1]
      BY <1>4, <1>6, <2>1
    <2>3. /\ g \in Mcus /\ ~g.regs.lost /\ BlockAt(g, "BLOCK_WRITE", off, n, k + 1)
          /\ g.flash = m.flash /\ (k = 12 => g.regs.pos = 0)
      <3>1. BlockNext(m, "BLOCK_WRITE", off, n, k, p)
        BY <1>m, <1>1, <1>2, <2>1, <2>2 DEF BlockNext
      <3>2. BlockDone(m, "BLOCK_WRITE", off, n, k, p)
        BY <3>1, BlockOn
      <3> QED BY <3>2 DEF BlockDone, g
    <2>4. WriteAt(g, bf, c, k + 1)
      <3>1. CASE k = 12
        <4>1. k + 1 = 13 + 2 * g.regs.pos /\ k + 1 > 12 /\ ~(k + 1 <= 12)
              /\ 1 .. g.regs.pos = {}
          BY SMTT(30), <2>3, <3>1
        <4> QED BY <1>5, <2>3, <4>1
      <3>2. CASE k # 12
        <4>1. ~(k + 1 > 12)
          BY SMTT(30), <2>1, <3>2
        <4> QED BY <1>3, <1>5, <1>7, <2>3, <4>1
      <3> QED BY <3>1, <3>2
    <2> QED BY <2>3, <2>4 DEF WriteDone, g
  <1>8. CASE k > 12
    <2>0. ~(k <= 9) /\ ~(k <= 12)
      BY SMTT(30), <1>k, <1>8
    <2>1. pos <= n /\ \A j \in 1 .. pos : m.flash[off + (j - 1)] = data[j]
      <3>1. pos <= n
        BY <1>2, <2>0 DEF BlockAt, pos
      <3> QED BY <1>3, <1>8, <3>1
    <2>2. k + 1 > 12 /\ k + 1 \in Nat /\ ~(k + 1 <= 12) /\ ~(k + 1 <= 9)
      BY SMTT(30), <1>k, <1>8
    <2>3. ASSUME g = m, \/ k + 1 = 13 + 2 * pos \/ (k + 1 = 14 + 2 * n /\ pos = n)
          PROVE  WriteDone(m, bf, c, k, p)
      <3>1. BlockAt(m, "BLOCK_WRITE", off, n, k + 1)
        BY <1>2, <1>8, <2>0, <2>2 DEF BlockAt
      <3>2. WriteAt(m, bf, c, k + 1)
        BY <1>5, <2>1, <2>2, <2>3, <3>1 DEF pos
      <3> QED BY <1>m, <2>3, <3>2 DEF WriteDone, g
    <2>4. CASE k = 13 + 2 * pos /\ pos # n
      <3>1. /\ pos < n /\ pos \in 0 .. n - 1 /\ k + 1 = 13 + (2 * pos + 1)
            /\ k + 1 = 12 + 2 * (pos + 1) /\ pos + 1 > 0 /\ pos + 1 \in Nat
        BY SMTT(30), <1>1, <1>2, <2>1, <2>4
      <3> DEFINE v == data[pos + 1]
                 f == [m.flash EXCEPT ![off + pos] = v]
      <3>2. p[1] = "wr!" /\ p[2] = v
        <4>1. W[13 + (2 * pos + 1)] = <<"wr!", data[pos + 1]>>
          BY <1>6, <3>1
        <4> QED BY SMTT(30), <1>4, <3>1, <4>1
      <3>3. v \in Bytes
        <4>1. pos + 1 \in 1 .. Len(data)
          BY SMTT(30), <1>1, <3>1
        <4> QED BY <1>1, <4>1, ElementIn
      <3>4. /\ m.regs.ph = "data" /\ m.regs.ar = "FPDAT" /\ m.regs.key = 2
            /\ m.regs.cmd = "BLOCK_WRITE" /\ Target(m.regs) = off
            /\ NextByte(m.regs) \in Regs /\ NextByte(m.regs).pos = pos + 1
            /\ ~NextByte(m.regs).lost
            /\ \A h : h.regs = NextByte(m.regs) => BlockAt(h, "BLOCK_WRITE", off, n, k + 1)
        BY <1>m, <1>k, <1>1, <1>2, <1>8, <2>2, <3>1, ByteMoved DEF pos
      <3>5. off + pos \in Addresses /\ m.flash \in Flashes /\ f \in Flashes
        <4>1. off + pos \in Addresses
          BY SMTT(30), <1>1, <3>1, Constants DEF Addresses
        <4>2. m.flash \in Flashes /\ v \in Cell
          BY <1>m, <3>3 DEF Mcus, Cell
        <4> QED BY <4>1, <4>2 DEF Flashes
      <3>6. g = WithFlash(m, NextByte(m.regs), f)
        BY <1>m, <3>2, <3>4, WriteByte DEF Tell, g, pos
      <3>8. /\ f[off + pos] = v
            /\ \A a \in Addresses : a # off + pos => f[a] = m.flash[a]
        BY <3>5 DEF Flashes
      <3> HIDE DEF f, v
      <3>7. g \in Mcus /\ g.regs = NextByte(m.regs) /\ g.flash = f
        <4>1. NextByte(m.regs) \in Regs /\ f \in Flashes
          BY <3>4, <3>5
        <4> DEFINE q == NextByte(m.regs)
        <4> HIDE DEF q
        <4>2. q \in Regs /\ f \in Flashes /\ g = WithFlash(m, q, f)
          BY <3>6, <4>1 DEF q
        <4>3. g \in Mcus /\ g.regs = q /\ g.flash = f
          BY SMTT(30), <1>m, <4>2, WithFacts
        <4> QED BY <4>3 DEF q
      <3>9. \A j \in 1 .. pos + 1 : f[off + (j - 1)] = data[j]
        <4>1. TAKE j \in 1 .. pos + 1
        <4>2. CASE j = pos + 1
          <5>1. j - 1 = pos
            BY SMTT(30), <1>2, <4>2
          <5> QED BY <3>8, <4>2, <5>1 DEF v
        <4>3. CASE j # pos + 1
          <5>2. j \in 1 .. pos /\ j - 1 \in Nat /\ j - 1 < pos
            BY SMTT(30), <1>2, <4>1, <4>3
          <5>1. off + (j - 1) # off + pos
            BY SMTT(30), <1>1, <1>2, <5>2
          <5>3. off + (j - 1) \in Addresses
            BY SMTT(30), <1>1, <3>1, <5>2, Constants DEF Addresses
          <5> QED BY <2>1, <3>8, <5>1, <5>2, <5>3
        <4> QED BY <4>2, <4>3
      <3>10. WriteAt(g, bf, c, k + 1)
        <4>1. g.regs.pos = pos + 1 /\ BlockAt(g, "BLOCK_WRITE", off, n, k + 1)
          BY <3>4, <3>7
        <4>2. \A j \in 1 .. g.regs.pos : g.flash[off + (j - 1)] = data[j]
          BY <3>7, <3>9, <4>1
        <4> QED BY <1>5, <2>2, <3>1, <4>1, <4>2
      <3>11. off + pos \in Cells(c)
        BY SMTT(30), <1>1, <3>1 DEF Cells, off, n
      <3>12. \A a \in Addresses : g.flash[a] # m.flash[a] => a \in Cells(c)
        BY <3>7, <3>8, <3>11
      <3> QED BY <3>4, <3>7, <3>10, <3>12 DEF WriteDone, g
    <2>5. CASE k = 13 + 2 * pos /\ pos = n
      <3>1. k + 1 = 14 + 2 * n
        BY SMTT(30), <1>1, <2>5
      <3>2. p[1] = "out_ready"
        <4>1. W[14 + 2 * n] = <<"out_ready", 0>>
          BY <1>6
        <4> QED BY SMTT(30), <1>4, <3>1, <4>1
      <3>3. g = m
        BY <3>2 DEF Tell, g
      <3> QED BY <2>3, <2>5, <3>1, <3>3
    <2>6. CASE k = 12 + 2 * pos /\ pos > 0
      <3>1. /\ k + 1 = 13 + 2 * pos /\ pos - 1 \in 0 .. n - 1
            /\ k + 1 = 13 + (2 * (pos - 1) + 2)
        BY SMTT(30), <1>1, <1>2, <2>1, <2>6
      <3>2. p[1] = "in_busy"
        <4>1. W[13 + (2 * (pos - 1) + 2)] = <<"in_busy", 0>>
          BY <1>6, <3>1
        <4> QED BY SMTT(30), <1>4, <3>1, <4>1
      <3>3. g = m
        BY <3>2 DEF Tell, g
      <3> QED BY <2>3, <3>1, <3>3
    <2>7. ~(k = 14 + 2 * n)
      BY SMTT(30), <1>k, <1>1, <1>4
    <2> QED BY <1>3, <1>8, <2>4, <2>5, <2>6, <2>7
  <1> QED BY SMTT(30), <1>k, <1>7, <1>8

\* The calls whose scripts move no data: their progress.
Other(c) ==
    /\ ~(c.op = "flash_erase") /\ ~(c.op = "flash_read" /\ c.off < Size)
    /\ ~(c.op = "flash_write")
OtherAt(m, bf, c, k) ==
    /\ m.regs.ph = "idle" /\ m.flash = bf
    /\ c.op = "flash_access" /\ k >= 1 => m.regs.ar = "FPCTL"

LEMMA ProgressIs ==
    ASSUME NEW m, NEW b, NEW bf, NEW c, NEW k
    PROVE  /\ c.op = "flash_erase" => (Progress(m, b, bf, c, k) <=> EraseAt(m, bf, k))
           /\ c.op = "flash_read" /\ c.off < Size =>
                 (Progress(m, b, bf, c, k) <=> ReadAt(m, b, bf, c, k))
           /\ c.op = "flash_write" => (Progress(m, b, bf, c, k) <=> WriteAt(m, bf, c, k))
           /\ Other(c) => (Progress(m, b, bf, c, k) <=> OtherAt(m, bf, c, k))
  <1>1. CASE c.op = "flash_erase"
    BY <1>1 DEF Progress, Other
  <1>2. CASE c.op = "flash_read" /\ c.off < Size
    BY <1>2 DEF Progress, Other
  <1>3. CASE c.op = "flash_write"
    BY <1>3 DEF Progress, Other
  <1>4. CASE Other(c)
    BY <1>4 DEF Progress, Other, OtherAt
  <1> QED BY <1>1, <1>2, <1>3, <1>4

\* Item p of such a script is next, and what it does.
OtherNext(m, bf, c, k, p) ==
    /\ m \in Mcus /\ ~m.regs.lost /\ c \in Calls /\ Other(c)
    /\ k \in Nat /\ k < Len(Full(c)) /\ p = Full(c)[k + 1]
    /\ OtherAt(m, bf, c, k)

OtherDone(m, bf, c, k, p) ==
    /\ Tell(m, p) \in Mcus /\ ~Tell(m, p).regs.lost
    /\ OtherAt(Tell(m, p), bf, c, k + 1)
    /\ Tell(m, p).flash = m.flash /\ p[1] # "data"

LEMMA OtherOn ==
    ASSUME NEW m, NEW bf, NEW c, NEW k, NEW p, OtherNext(m, bf, c, k, p)
    PROVE  OtherDone(m, bf, c, k, p)
  <1> DEFINE r == m.regs
             g == Tell(m, p)
  <1>m. m \in Mcus /\ ~m.regs.lost /\ OtherAt(m, bf, c, k)
    BY DEF OtherNext
  <1>k. k \in Nat /\ k < Len(Full(c)) /\ p = Full(c)[k + 1]
    BY DEF OtherNext
  <1>1. r \in Regs /\ m.flash \in Flashes
    BY <1>m DEF Mcus
  <1>2. r.ph = "idle" /\ m.flash = bf /\ ~r.lost
    BY <1>m DEF OtherAt
  <1>3. \/ Full(c) = <<>>
        \/ c.op = "flash_access" /\ Full(c) = EnableFlash
        \/ c.op \in {"dev_id", "rev_id"} /\ Full(c) = <<<<"ar", c.op>>, <<"id", 0>>>>
    BY OtherScript DEF OtherNext, Other
  <1>4. ASSUME NEW q \in Regs, g = With(m, q), q.ph = "idle", ~q.lost,
               c.op = "flash_access" => q.ar = "FPCTL"
        PROVE  p[1] # "data" => OtherDone(m, bf, c, k, p)
    <2> HIDE DEF g
    <2>1. g \in Mcus /\ g.regs = q /\ g.flash = m.flash
      BY <1>m, <1>4, WithRegs
    <2>2. OtherAt(g, bf, c, k + 1)
      BY <1>2, <1>4, <2>1 DEF OtherAt
    <2> QED BY <1>4, <2>1, <2>2 DEF OtherDone, g
  <1>5. ASSUME NEW v \in Words, p[1] = "ar", p[2] = v, c.op = "flash_access" => v = "FPCTL"
        PROVE  OtherDone(m, bf, c, k, p)
    <2> DEFINE q == [r EXCEPT !.ar = v]
    <2>1. g = With(m, q)
      BY <1>m, <1>5 DEF Tell, With, Mcus
    <2>2. q \in Regs /\ q.ph = "idle" /\ ~q.lost /\ q.ar = v
      BY <1>1, <1>2 DEF Regs
    <2> HIDE DEF q
    <2> QED BY <1>4, <1>5, <2>1, <2>2
  <1>6. CASE Full(c) = <<>>
    BY SMTT(30), <1>k, <1>6
  <1>7. CASE c.op = "flash_access" /\ Full(c) = EnableFlash
    <2>1. /\ Len(EnableFlash) = 3 /\ EnableFlash[1] = <<"ar", "FPCTL">>
          /\ EnableFlash[2] = <<"wr!", 2>> /\ EnableFlash[3] = <<"wr!", 1>>
      BY DEF EnableFlash
    <2>2. k \in {0, 1, 2}
      BY SMTT(30), <1>k, <1>7, <2>1
    <2>3. CASE k = 0
      <3>1. p[1] = "ar" /\ p[2] = "FPCTL" /\ "FPCTL" \in Words
        BY SMTT(30), <1>k, <1>7, <2>1, <2>3 DEF Words
      <3> QED BY <1>5, <3>1
    <2>4. CASE k \in {1, 2}
      <3>1. p[1] = "wr!" /\ p[2] \in {1, 2} /\ r.ar = "FPCTL"
        BY SMTT(30), <1>m, <1>k, <1>7, <2>1, <2>4 DEF OtherAt
      <3> DEFINE key == IF p[2] = 2 THEN 1 ELSE IF p[2] = 1 /\ r.key = 1 THEN 2 ELSE 0
                 q == [r EXCEPT !.key = key]
      <3>2. g = With(m, q)
        BY <1>m, <1>2, <3>1, WriteKey DEF Tell
      <3>3. key \in 0 .. 2
        BY SMTT(30)
      <3> HIDE DEF key
      <3>4. q \in Regs /\ q.ph = "idle" /\ ~q.lost /\ q.ar = "FPCTL"
        BY <1>1, <1>2, <3>1, <3>3 DEF Regs
      <3> HIDE DEF q
      <3> QED BY <1>4, <3>1, <3>2, <3>4
    <2> QED BY <2>2, <2>3, <2>4
  <1>8. CASE c.op \in {"dev_id", "rev_id"} /\ Full(c) = <<<<"ar", c.op>>, <<"id", 0>>>>
    <2>1. k \in {0, 1}
      BY SMTT(30), <1>k, <1>8
    <2>2. CASE k = 0
      <3>1. p[1] = "ar" /\ p[2] = c.op /\ c.op \in Words
        BY SMTT(30), <1>k, <1>8, <2>2 DEF Words
      <3> QED BY <1>5, <1>8, <3>1
    <2>3. CASE k = 1
      <3>1. p[1] = "id"
        BY SMTT(30), <1>k, <1>8, <2>3
      <3>2. g = m
        BY <3>1 DEF Tell
      <3> QED BY <1>m, <1>2, <1>8, <3>1, <3>2 DEF OtherAt, OtherDone
    <2> QED BY <2>1, <2>2, <2>3
  <1> QED BY <1>3, <1>6, <1>7, <1>8

\* Which items of a script bring a byte: every second one behind the command
\* of a read.
DataAt(c, k, p) ==
    /\ p \in Items
    /\ c.op # "flash_read" \/ k <= 12 => p[1] # "data"
    /\ c.op = "flash_read" => c.off < Size
    /\ c.op = "flash_read" => \A j \in Nat : /\ k = 13 + 2 * j => p[1] # "data"
                                             /\ k = 14 + 2 * j => p[1] = "data"

LEMMA DataItems ==
    ASSUME NEW c \in Calls, c.op = "flash_write" => c.off < Size, NEW k \in Nat,
           k < Len(Full(c)), NEW p, p = Full(c)[k + 1]
    PROVE  DataAt(c, k, p)
  <1> SUFFICES /\ p \in Items
               /\ c.op # "flash_read" \/ k <= 12 => p[1] # "data"
               /\ c.op = "flash_read" => c.off < Size
               /\ c.op = "flash_read" =>
                    \A j \in Nat : /\ k = 13 + 2 * j => p[1] # "data"
                                   /\ k = 14 + 2 * j => p[1] = "data"
    BY DEF DataAt
  <1>1. Full(c) \in Seq(Items)
    BY FullItems
  <1>2. p \in Items
    BY SMTT(30), <1>1
  <1>3. \A w \in {"BLOCK_READ", "BLOCK_WRITE"} : \A off \in Nat, n \in Nat :
          \A l \in 0 .. 12 : Block(w, off, n)[l + 1][1] # "data"
    <2>1. "BLOCK_READ" \in Words /\ "BLOCK_WRITE" \in Words
      BY DEF Words
    <2> QED BY <2>1, BlockNoData
  <1>4. CASE c.op = "flash_erase"
    <2>1. p = Erase[k + 1] /\ k \in 0 .. 11
      <3>1. Full(c) = Erase
        BY <1>4, EraseScript
      <3>2. Len(Erase) = 12
        BY EraseItems
      <3> QED BY SMTT(30), <3>1, <3>2
    <2>2. p[1] # "data"
      BY SMTT(30), <2>1, EraseItems
    <2> QED BY <1>2, <1>4, <2>2
  <1>5. CASE c.op = "flash_read" /\ c.off < Size
    <2> DEFINE n == Transfer(c)
               off == c.off
               R == ReadBlock(off, n)
    <2>1. n \in Nat /\ off \in Nat
      BY <1>5, TransferFacts
    <2>2. Full(c) = R
      BY <1>5, ReadScript
    <2> HIDE DEF n, off, R
    <2>3. /\ Len(R) = 13 + 2 * n
          /\ \A l \in 1 .. 13 : R[l] = Block("BLOCK_READ", off, n)[l]
          /\ \A j \in 0 .. n - 1 : /\ R[13 + (2 * j + 1)] = <<"out_ready", 0>>
                                   /\ R[13 + (2 * j + 2)] = <<"data", 0>>
      BY <2>1, ReadItems DEF R
    <2>4. k < 13 + 2 * n /\ p = R[k + 1]
      BY <2>2, <2>3
    <2>5. ASSUME k <= 12 PROVE p[1] # "data"
      <3>1. k \in 0 .. 12 /\ k + 1 \in 1 .. 13
        BY SMTT(30), <2>5
      <3>2. p = Block("BLOCK_READ", off, n)[k + 1]
        BY <2>3, <2>4, <3>1
      <3>3. "BLOCK_READ" \in {"BLOCK_READ", "BLOCK_WRITE"}
        OBVIOUS
      <3> QED BY <1>3, <2>1, <3>1, <3>2, <3>3
    <2>6. ASSUME NEW j \in Nat, k = 13 + 2 * j PROVE p[1] # "data"
      <3>1. j \in 0 .. n - 1 /\ k + 1 = 13 + (2 * j + 1)
        BY SMTT(30), <2>1, <2>4, <2>6
      <3>2. R[13 + (2 * j + 1)] = <<"out_ready", 0>>
        BY <2>3, <3>1
      <3> QED BY SMTT(30), <2>4, <3>1, <3>2
    <2>7. ASSUME NEW j \in Nat, k = 14 + 2 * j PROVE p[1] = "data"
      <3>1. j \in 0 .. n - 1 /\ k + 1 = 13 + (2 * j + 2)
        BY SMTT(30), <2>1, <2>4, <2>7
      <3>2. R[13 + (2 * j + 2)] = <<"data", 0>>
        BY <2>3, <3>1
      <3> QED BY SMTT(30), <2>4, <3>1, <3>2
    <2> QED BY <1>2, <1>5, <2>5, <2>6, <2>7
  <1>6. CASE c.op = "flash_write"
    <2> DEFINE n == Transfer(c)
               off == c.off
               data == c.data
               R == WriteBlock(off, data, n)
    <2>1. n \in Nat /\ off \in Nat /\ data \in Seq(Bytes) /\ n <= Len(data)
      BY <1>6, TransferFacts
    <2>2. Full(c) = R
      BY <1>6, WriteScript
    <2> HIDE DEF n, off, R, data
    <2>3. /\ Len(R) = 14 + 2 * n
          /\ \A l \in 1 .. 13 : R[l] = Block("BLOCK_WRITE", off, n)[l]
          /\ \A j \in 0 .. n - 1 : /\ R[13 + (2 * j + 1)] = <<"wr!", data[j + 1]>>
                                   /\ R[13 + (2 * j + 2)] = <<"in_busy", 0>>
          /\ R[14 + 2 * n] = <<"out_ready", 0>>
      <3>1. /\ Len(R) = 14 + 2 * n
            /\ R[14 + 2 * n] = <<"out_ready", 0>>
        BY <2>1, WriteItems DEF R
      <3>2. \A l \in 1 .. 13 : R[l] = Block("BLOCK_WRITE", off, n)[l]
        BY <2>1, WriteItems DEF R
      <3>3. \A j \in 0 .. n - 1 : /\ R[13 + (2 * j + 1)] = <<"wr!", data[j + 1]>>
                                  /\ R[13 + (2 * j + 2)] = <<"in_busy", 0>>
        BY <2>1, WriteItems DEF R
      <3> QED BY <3>1, <3>2, <3>3
    <2>4. k < 14 + 2 * n /\ p = R[k + 1]
      BY <2>2, <2>3
    <2>5. CASE k <= 12
      <3>1. k \in 0 .. 12 /\ k + 1 \in 1 .. 13
        BY SMTT(30), <2>5
      <3>2. p = Block("BLOCK_WRITE", off, n)[k + 1]
        BY <2>3, <2>4, <3>1
      <3>3. "BLOCK_WRITE" \in {"BLOCK_READ", "BLOCK_WRITE"}
        OBVIOUS
      <3>4. p[1] # "data"
        BY <1>3, <2>1, <3>1, <3>2, <3>3
      <3> QED BY <1>2, <1>6, <3>4
    <2>6. CASE k > 12
      <3>1. PICK j \in Nat : k = 13 + 2 * j \/ k = 14 + 2 * j
        <4>1. /\ (k - 13) \div 2 \in Nat
              /\ k = 13 + 2 * ((k - 13) \div 2) \/ k = 14 + 2 * ((k - 13) \div 2)
          BY SMTT(30), <2>6
        <4> QED BY <4>1
      <3>2. CASE j < n
        <4>1. j \in 0 .. n - 1 /\ (k + 1 = 13 + (2 * j + 1) \/ k + 1 = 13 + (2 * j + 2))
          BY SMTT(30), <2>1, <3>1, <3>2
        <4>3. /\ R[13 + (2 * j + 1)] = <<"wr!", data[j + 1]>>
              /\ R[13 + (2 * j + 2)] = <<"in_busy", 0>>
          BY <2>3, <4>1
        <4>2. p[1] # "data"
          BY SMTT(30), <2>4, <4>1, <4>3
        <4> QED BY <1>2, <1>6, <4>2
      <3>3. CASE ~(j < n)
        <4>1. k + 1 = 14 + 2 * n
          BY SMTT(30), <2>1, <2>4, <3>1, <3>3
        <4>2. p[1] # "data"
          BY SMTT(30), <2>3, <2>4, <4>1
        <4> QED BY <1>2, <1>6, <4>2
      <3> QED BY <3>2, <3>3
    <2> QED BY SMTT(30), <2>5, <2>6
  <1>7. CASE Other(c)
    <2>1. \/ Full(c) = <<>>
          \/ c.op = "flash_access" /\ Full(c) = EnableFlash
          \/ c.op \in {"dev_id", "rev_id"} /\ Full(c) = <<<<"ar", c.op>>, <<"id", 0>>>>
      BY <1>7, OtherScript DEF Other
    <2>2. CASE Full(c) = <<>>
      BY SMTT(30), <2>2
    <2>3. CASE c.op = "flash_access" /\ Full(c) = EnableFlash
      <3>1. p[1] # "data"
        BY SMTT(30), <2>3 DEF EnableFlash
      <3> QED BY <1>2, <2>3, <3>1
    <2>4. CASE c.op \in {"dev_id", "rev_id"} /\ Full(c) = <<<<"ar", c.op>>, <<"id", 0>>>>
      <3>1. p[1] # "data"
        BY SMTT(30), <2>4
      <3> QED BY <1>2, <2>4, <3>1
    <2> QED BY <2>1, <2>2, <2>3, <2>4
  <1> QED BY <1>4, <1>5, <1>6, <1>7 DEF Other

\* The microcontroller hears item p behind the first k of c's script; and what
\* holds then.
Telling(m, b, bf, c, k, p) ==
    /\ m \in Mcus /\ ~m.regs.lost /\ b \in Seq(Buf) /\ bf \in Flashes /\ c \in Calls
    /\ k \in Nat /\ k < Len(Full(c)) /\ p = Full(c)[k + 1]
    /\ Progress(m, b, bf, c, k)
    /\ p[1] = "out_ready" => OutReady(m.regs)
    /\ c.op = "flash_write" => c.off < Size
    /\ c.op = "flash_read" /\ k <= 13 => b = <<>>

Told(m, b, bf, c, k, p) ==
    /\ Tell(m, p) \in Mcus /\ ~Tell(m, p).regs.lost
    /\ Progress(Tell(m, p), Take(m, b, p), bf, c, k + 1)
    /\ Take(m, b, p) \in Seq(Buf)
    /\ \A a \in Addresses : Tell(m, p).flash[a] # m.flash[a] =>
          c.op = "flash_erase" \/ (c.op = "flash_write" /\ a \in Cells(c))

LEMMA ToldOn ==
    ASSUME NEW m, NEW b, NEW bf, NEW c, NEW k, NEW p, Telling(m, b, bf, c, k, p)
    PROVE  Told(m, b, bf, c, k, p)
  <1> DEFINE g == Tell(m, p)
             t == Take(m, b, p)
  <1>m. m \in Mcus /\ ~m.regs.lost /\ (p[1] = "out_ready" => OutReady(m.regs))
    BY DEF Telling
  <1>b. b \in Seq(Buf) /\ (c.op = "flash_read" /\ k <= 13 => b = <<>>)
    BY DEF Telling
  <1>c. c \in Calls /\ (c.op = "flash_write" => c.off < Size)
    BY DEF Telling
  <1>k. k \in Nat /\ k < Len(Full(c)) /\ p = Full(c)[k + 1]
    BY DEF Telling
  <1>p. Progress(m, b, bf, c, k)
    BY DEF Telling
  <1>1. p[1] # "data" => t = b
    BY DEF Take
  <1>2. c.op # "flash_read" => p[1] # "data"
    BY <1>c, <1>k, DataItems DEF DataAt
  <1> HIDE DEF g, t
  <1>3. CASE c.op = "flash_erase"
    <2>1. Full(c) = Erase
      BY <1>3, EraseScript
    <2>2. Len(Erase) = 12
      BY EraseItems
    <2>3. k \in 0 .. 11 /\ p = Erase[k + 1]
      BY SMTT(30), <1>k, <2>1, <2>2
    <2>4. EraseAt(m, bf, k)
      BY <1>p, <1>3, ProgressIs
    <2>5. g \in Mcus /\ ~g.regs.lost /\ EraseAt(g, bf, k + 1)
      BY <1>m, <2>3, <2>4, EraseOn DEF g
    <2>6. Progress(g, t, bf, c, k + 1)
      BY <1>3, <2>5, ProgressIs
    <2> QED BY <1>b, <1>1, <1>2, <1>3, <2>5, <2>6 DEF Told, g, t
  <1>4. CASE c.op = "flash_read" /\ c.off < Size
    <2>1. Full(c) = ReadBlock(c.off, Transfer(c))
      BY <1>c, <1>4, ReadScript
    <2>2. Len(Full(c)) = 13 + 2 * Transfer(c)
      BY <1>c, <1>4, FullItems
    <2>3. k < 13 + 2 * Transfer(c) /\ p = ReadBlock(c.off, Transfer(c))[k + 1]
      BY <1>k, <2>1, <2>2
    <2>4. ReadAt(m, b, bf, c, k)
      BY <1>p, <1>4, ProgressIs
    <2>5. ReadNext(m, b, bf, c, k, p)
      BY <1>m, <1>b, <1>c, <1>k, <1>4, <2>3, <2>4 DEF ReadNext
    <2>6. /\ g \in Mcus /\ ~g.regs.lost /\ ReadAt(g, t, bf, c, k + 1)
          /\ g.flash = m.flash /\ t \in Seq(Buf)
      BY <2>5, ReadOn DEF ReadDone, g, t
    <2>7. Progress(g, t, bf, c, k + 1)
      BY <1>4, <2>6, ProgressIs
    <2> QED BY <2>6, <2>7 DEF Told, g, t
  <1>5. CASE c.op = "flash_write"
    <2> DEFINE n == Transfer(c)
               off == c.off
               data == c.data
    <2>1. n \in Nat /\ off \in Nat /\ data \in Seq(Bytes) /\ n <= Len(data)
      BY <1>c, <1>5, TransferFacts
    <2>2. Full(c) = WriteBlock(off, data, n)
      BY <1>c, <1>5, WriteScript
    <2> HIDE DEF n, off, data
    <2>3. Len(WriteBlock(off, data, n)) = 14 + 2 * n
      BY <2>1, WriteItems
    <2>4. k < 14 + 2 * n /\ p = WriteBlock(off, data, n)[k + 1]
      BY <1>k, <2>2, <2>3
    <2>5. WriteAt(m, bf, c, k)
      BY <1>p, <1>5, ProgressIs
    <2>6. WriteNext(m, bf, c, k, p)
      BY <1>m, <1>c, <1>k, <1>5, <2>4, <2>5 DEF WriteNext, n, off, data
    <2>7. /\ g \in Mcus /\ ~g.regs.lost /\ WriteAt(g, bf, c, k + 1)
          /\ \A a \in Addresses : g.flash[a] # m.flash[a] => a \in Cells(c)
      BY <2>6, WriteOn DEF WriteDone, g
    <2>8. Progress(g, t, bf, c, k + 1)
      BY <1>5, <2>7, ProgressIs
    <2> QED BY <1>b, <1>1, <1>2, <1>5, <2>7, <2>8 DEF Told, g, t
  <1>6. CASE Other(c)
    <2>1. OtherAt(m, bf, c, k)
      BY <1>p, <1>6, ProgressIs
    <2>2. OtherNext(m, bf, c, k, p)
      BY <1>m, <1>c, <1>k, <1>6, <2>1 DEF OtherNext
    <2>3. /\ g \in Mcus /\ ~g.regs.lost /\ OtherAt(g, bf, c, k + 1)
          /\ g.flash = m.flash /\ p[1] # "data"
      BY <2>2, OtherOn DEF OtherDone, g
    <2>4. Progress(g, t, bf, c, k + 1)
      BY <1>6, <2>3, ProgressIs
    <2> QED BY <1>b, <1>1, <2>3, <2>4 DEF Told, g, t
  <1> QED BY <1>3, <1>4, <1>5, <1>6 DEF Other

-----------------------------------------------------------------------------
(* A run from its start to its end.                                        *)

LEMMA SuffixTail ==
    ASSUME NEW f \in Seq(Items), NEW s \in Seq(Items), s # <<>>, Suffix(s, f)
    PROVE  /\ Tail(s) \in Seq(Items) /\ Suffix(Tail(s), f)
           /\ Len(f) - Len(s) \in Nat /\ Len(f) - Len(s) < Len(f)
           /\ Head(s) = f[(Len(f) - Len(s)) + 1]
           /\ Len(f) - Len(Tail(s)) = (Len(f) - Len(s)) + 1
  <1> DEFINE u == Tail(s)
             d == Len(f) - Len(s)
  <1>1. /\ Len(s) \in Nat /\ Len(s) >= 1 /\ Len(f) \in Nat /\ u \in Seq(Items)
        /\ Len(u) = Len(s) - 1 /\ Head(s) = s[1]
        /\ \A j \in 1 .. Len(u) : u[j] = s[j + 1]
    BY SMTT(30), HeadTail
  <1>2. Len(s) <= Len(f) /\ \A j \in 1 .. Len(s) : s[j] = f[j + d]
    BY DEF Suffix
  <1>3. d \in Nat /\ d < Len(f) /\ 1 \in 1 .. Len(s) /\ 1 + d = d + 1
    BY SMTT(30), <1>1, <1>2
  <1>4. Head(s) = f[d + 1]
    BY <1>1, <1>2, <1>3
  <1> HIDE DEF u, d
  <1>5. ASSUME NEW j \in 1 .. Len(u) PROVE u[j] = f[j + (Len(f) - Len(u))]
    <2>1. j + 1 \in 1 .. Len(s) /\ (j + 1) + d = j + (Len(f) - Len(u))
      BY SMTT(30), <1>1, <1>3 DEF d
    <2>2. u[j] = s[j + 1] /\ s[j + 1] = f[(j + 1) + d]
      BY <1>1, <1>2, <2>1
    <2> QED BY <2>1, <2>2
  <1>6. Len(u) <= Len(f) /\ Len(f) - Len(u) = d + 1
    BY SMTT(30), <1>1, <1>2 DEF d
  <1>7. Suffix(u, f)
    BY <1>5, <1>6 DEF Suffix
  <1> QED BY <1>1, <1>3, <1>4, <1>6, <1>7 DEF u, d

LEMMA TakenTail ==
    ASSUME NEW c \in Calls, c.op = "flash_write" => c.off < Size, NEW s \in Seq(Items),
           s # <<>>, Suffix(s, Full(c)), NEW b \in Seq(Buf), Taken(c, s, b)
    PROVE  /\ Head(s)[1] = "data" => \A v \in Buf : Taken(c, Tail(s), Append(b, v))
           /\ Head(s)[1] # "data" => Taken(c, Tail(s), b)
           /\ c.op = "flash_read" /\ Done(c, s) <= 13 => b = <<>>
  <1> DEFINE f == Full(c)
             k == Len(f) - Len(s)
             p == Head(s)
  <1>1. f \in Seq(Items)
    BY FullItems
  <1>2. /\ k \in Nat /\ k < Len(f) /\ p = f[k + 1] /\ Len(f) - Len(Tail(s)) = k + 1
    BY <1>1, SuffixTail
  <1>3. Done(c, s) = k /\ Done(c, Tail(s)) = k + 1
    BY <1>2 DEF Done
  <1> HIDE DEF k, p
  <1>4. /\ c.op # "flash_read" \/ k <= 12 => p[1] # "data"
        /\ c.op = "flash_read" => \A j \in Nat : /\ k = 13 + 2 * j => p[1] # "data"
                                                 /\ k = 14 + 2 * j => p[1] = "data"
    <2>1. k \in Nat /\ k < Len(Full(c)) /\ p = Full(c)[k + 1]
      BY <1>2
    <2>2. DataAt(c, k, p)
      BY <2>1, DataItems
    <2> QED BY <2>2 DEF DataAt
  <1> DEFINE L == Len(b)
  <1>5. L \in Nat
    BY SMTT(30)
  <1>6. CASE ~(c.op = "flash_read" /\ k > 13)
    <2>1. b = <<>> /\ L = 0
      BY SMTT(30), <1>3, <1>6 DEF Taken
    <2>2. p[1] # "data"
      <3>1. CASE c.op = "flash_read" /\ k = 13
        <4>1. 0 \in Nat /\ k = 13 + 2 * 0
          BY SMTT(30), <3>1
        <4> QED BY <1>4, <3>1, <4>1
      <3>2. CASE ~(c.op = "flash_read" /\ k = 13)
        BY SMTT(30), <1>2, <1>4, <1>6, <3>2
      <3> QED BY <3>1, <3>2
    <2>3. c.op = "flash_read" /\ k + 1 > 13 => k + 1 = 14 + 2 * L
      BY SMTT(30), <1>2, <1>6, <2>1
    <2>4. Taken(c, Tail(s), b)
      BY <1>3, <2>1, <2>3 DEF Taken
    <2> QED BY <1>3, <2>1, <2>2, <2>4 DEF p
  <1>7. CASE c.op = "flash_read" /\ k > 13
    <2>1. k \in {13 + 2 * L, 14 + 2 * L}
      BY <1>3, <1>7 DEF Taken
    <2>2. k + 1 > 13 /\ ~(k <= 13)
      BY SMTT(30), <1>2, <1>7
    <2>3. CASE k = 13 + 2 * L
      <3>1. p[1] # "data"
        BY <1>4, <1>5, <1>7, <2>3
      <3>2. k + 1 = 14 + 2 * L
        BY SMTT(30), <1>5, <2>3
      <3>3. Taken(c, Tail(s), b)
        BY <1>3, <1>7, <2>2, <3>2 DEF Taken
      <3> QED BY <1>3, <2>2, <3>1, <3>3 DEF p
    <2>4. CASE k = 14 + 2 * L
      <3>1. p[1] = "data"
        BY <1>4, <1>5, <1>7, <2>4
      <3>2. ASSUME NEW v \in Buf PROVE Taken(c, Tail(s), Append(b, v))
        <4>1. Len(Append(b, v)) = L + 1
          BY SMTT(30)
        <4>2. k + 1 = 13 + 2 * (L + 1)
          BY SMTT(30), <1>5, <2>4
        <4> QED BY <1>3, <1>7, <2>2, <4>1, <4>2 DEF Taken
      <3> QED BY <1>3, <2>2, <3>1, <3>2 DEF p
    <2> QED BY <2>1, <2>3, <2>4
  <1> QED BY <1>6, <1>7

\* Where every case of Progress follows, it does.
LEMMA ProgressCases ==
    ASSUME NEW m, NEW b, NEW bf, NEW c \in Calls, NEW k,
           c.op = "flash_erase" => EraseAt(m, bf, k),
           c.op = "flash_read" /\ c.off < Size => ReadAt(m, b, bf, c, k),
           c.op = "flash_write" => WriteAt(m, bf, c, k),
           Other(c) => OtherAt(m, bf, c, k)
    PROVE  Progress(m, b, bf, c, k)
  <1>1. CASE c.op = "flash_erase"
    BY <1>1, ProgressIs
  <1>2. CASE c.op = "flash_read" /\ c.off < Size
    BY <1>2, ProgressIs
  <1>3. CASE c.op = "flash_write"
    BY <1>3, ProgressIs
  <1>4. CASE Other(c)
    BY <1>4, ProgressIs
  <1> QED BY <1>1, <1>2, <1>3, <1>4 DEF Other

\* A microcontroller that waits for a command is where every script begins.
LEMMA ProgressStart ==
    ASSUME NEW m, NEW c \in Calls, m.regs.ph = "idle"
    PROVE  Progress(m, <<>>, m.flash, c, 0)
  <1>1. \A w, x, y : Header(m.regs, w, x, y, 0)
    BY SMTT(30) DEF Header
  <1>2. EraseAt(m, m.flash, 0)
    BY SMTT(30), <1>1 DEF EraseAt
  <1>3. \A w, o, n : BlockAt(m, w, o, n, 0)
    BY SMTT(30), <1>1 DEF BlockAt
  <1>4. ReadAt(m, <<>>, m.flash, c, 0)
    BY SMTT(30), <1>3 DEF ReadAt
  <1>5. WriteAt(m, m.flash, c, 0)
    BY SMTT(30), <1>3 DEF WriteAt
  <1>6. OtherAt(m, m.flash, c, 0)
    BY SMTT(30) DEF OtherAt
  <1> QED BY <1>2, <1>4, <1>5, <1>6, ProgressCases

\* What a call has done when its script is finished.
Finished(m, b, bf, c) ==
    /\ m.regs.ph = "idle"
    /\ c.op = "flash_erase" => \A a \in Addresses : m.flash[a] = "erased"
    /\ c.op = "flash_write" => \A a \in Cells(c) : m.flash[a] = c.data[a - c.off + 1]
    /\ c.op = "flash_read" /\ c.off < Size =>
          b = [j \in 1 .. Transfer(c) |-> m.flash[c.off + j - 1]]
    /\ Other(c) => m.flash = bf

LEMMA ReadEnd ==
    ASSUME NEW m \in Mcus, NEW b \in Seq(Buf), NEW bf, NEW c \in Calls,
           c.op = "flash_read", c.off < Size,
           ReadAt(m, b, bf, c, Len(Full(c)))
    PROVE  Finished(m, b, bf, c)
  <1> DEFINE n == Transfer(c)
             k == Len(Full(c))
             L == Len(b)
  <1>1. /\ n \in Nat /\ n >= 1 /\ c.off \in Nat
    BY TransferFacts
  <1>2. k = 13 + 2 * n
    BY FullItems
  <1>3. L \in Nat
    BY SMTT(30)
  <1>4. k > 12 /\ k >= 13 /\ ~(k <= 9) /\ ~(k <= 12)
    BY SMTT(30), <1>1, <1>2
  <1>5. /\ L = m.regs.pos /\ k \in {13 + 2 * L, 14 + 2 * L}
        /\ \A j \in 1 .. L : b[j] = m.flash[c.off + (j - 1)]
        /\ BlockAt(m, "BLOCK_READ", c.off, n, k)
    BY <1>4 DEF ReadAt
  <1>6. m.regs.ph = IF m.regs.pos = n THEN "idle" ELSE "data"
    BY <1>4, <1>5 DEF BlockAt
  <1> HIDE DEF n, k
  <1>7. L = n
    BY SMTT(30), <1>1, <1>2, <1>3, <1>5
  <1>8. m.regs.ph = "idle"
    BY <1>5, <1>6, <1>7
  <1> DEFINE f == [j \in 1 .. n |-> m.flash[c.off + j - 1]]
  <1>9. b = f
    <2>1. b = [j \in 1 .. L |-> b[j]]
      BY SeqIs
    <2>2. \A j \in 1 .. n : b[j] = m.flash[c.off + j - 1]
      <3> TAKE j \in 1 .. n
      <3>1. c.off + (j - 1) = c.off + j - 1
        BY <1>1
      <3> QED BY <1>5, <1>7, <3>1
    <2> QED BY <1>7, <2>1, <2>2
  <1>10. ~Other(c)
    BY DEF Other
  <1> QED BY <1>8, <1>9, <1>10 DEF Finished, n

LEMMA WriteEnd ==
    ASSUME NEW m \in Mcus, NEW b, NEW bf, NEW c \in Calls,
           c.op = "flash_write", c.off < Size,
           WriteAt(m, bf, c, Len(Full(c)))
    PROVE  Finished(m, b, bf, c)
  <1> DEFINE n == Transfer(c)
             k == Len(Full(c))
             pos == m.regs.pos
  <1>1. /\ n \in Nat /\ n >= 1 /\ c.off \in Nat /\ n <= Len(c.data)
        /\ c.data \in Seq(Bytes)
    BY TransferFacts
  <1> HIDE DEF n
  <1>2. k = 14 + 2 * n
    <2>1. Len(WriteBlock(c.off, c.data, n)) = 14 + 2 * n
      BY <1>1, WriteItems
    <2>2. Full(c) = WriteBlock(c.off, c.data, n)
      BY WriteScript DEF n
    <2> QED BY <2>1, <2>2
  <1>3. pos \in Nat
    BY DEF Mcus, Regs
  <1>4. k > 12 /\ ~(k <= 9)
    BY SMTT(30), <1>1, <1>2
  <1>5. /\ BlockAt(m, "BLOCK_WRITE", c.off, n, k)
        /\ \/ k = 13 + 2 * pos \/ (k = 12 + 2 * pos /\ pos > 0)
           \/ k = 14 + 2 * n /\ pos = n
        /\ \A j \in 1 .. pos : m.flash[c.off + (j - 1)] = c.data[j]
    BY <1>4 DEF WriteAt, n
  <1>6. pos <= n /\ m.regs.ph = IF pos = n THEN "idle" ELSE "data"
    BY <1>4, <1>5 DEF BlockAt
  <1> HIDE DEF k, pos
  <1>7. pos = n
    <2>1. CASE k = 13 + 2 * pos
      BY SMTT(30), <1>1, <1>2, <1>3, <2>1
    <2>2. CASE k = 12 + 2 * pos
      BY SMTT(30), <1>1, <1>2, <1>3, <1>6, <2>2
    <2> QED BY <1>5, <2>1, <2>2
  <1>8. m.regs.ph = "idle"
    BY <1>6, <1>7
  <1>9. ASSUME NEW a \in Cells(c) PROVE m.flash[a] = c.data[a - c.off + 1]
    <2> DEFINE j == a - c.off + 1
    <2>1. a \in c.off .. c.off + n - 1
      BY DEF Cells, n
    <2>2. j \in 1 .. n /\ c.off + (j - 1) = a
      BY SMTT(30), <1>1, <2>1
    <2> HIDE DEF j
    <2>3. m.flash[c.off + (j - 1)] = c.data[j]
      BY <1>5, <1>7, <2>2
    <2> QED BY <2>2, <2>3 DEF j
  <1>10. ~Other(c)
    BY DEF Other
  <1> QED BY <1>8, <1>9, <1>10 DEF Finished

LEMMA ProgressEnd ==
    ASSUME NEW m \in Mcus, NEW b \in Seq(Buf), NEW bf, NEW c \in Calls,
           c.op = "flash_write" => c.off < Size,
           Progress(m, b, bf, c, Len(Full(c)))
    PROVE  Finished(m, b, bf, c)
  <1>1. CASE c.op = "flash_erase"
    <2>1. EraseAt(m, bf, 12)
      <3>1. Len(Full(c)) = 12
        BY <1>1, EraseScript, EraseItems
      <3>2. EraseAt(m, bf, Len(Full(c)))
        BY <1>1, ProgressIs
      <3> QED BY <3>1, <3>2
    <2> QED BY SMTT(30), <1>1, <2>1 DEF Finished, EraseAt, Other
  <1>2. CASE c.op = "flash_read" /\ c.off < Size
    <2>1. ReadAt(m, b, bf, c, Len(Full(c)))
      BY <1>2, ProgressIs
    <2> QED BY <1>2, <2>1, ReadEnd
  <1>3. CASE c.op = "flash_write"
    <2>1. WriteAt(m, bf, c, Len(Full(c)))
      BY <1>3, ProgressIs
    <2> QED BY <1>3, <2>1, WriteEnd
  <1>4. CASE Other(c)
    <2>1. OtherAt(m, bf, c, Len(Full(c)))
      BY <1>4, ProgressIs
    <2> QED BY <1>4, <2>1 DEF Finished, OtherAt, Other
  <1> QED BY <1>1, <1>2, <1>3, <1>4 DEF Other

-----------------------------------------------------------------------------
(* What an item does to a run.                                             *)

LEMMA IdleFacts == Idle \in Regs /\ Idle.ph = "idle" /\ ~Idle.lost
  <1>1. <<>> \in Seq(Words) /\ "none" \in Words /\ "idle" \in Phases
    BY SMTT(30) DEF Words, Phases
  <1>2. Idle \in Regs
    BY SMTT(30), <1>1 DEF Idle, Regs
  <1>3. Idle.ph = "idle" /\ ~Idle.lost
    BY DEF Idle
  <1> QED BY <1>2, <1>3

LEMMA LoseFacts ==
    ASSUME NEW m \in Mcus
    PROVE  /\ Lose(m) \in Mcus /\ Lose(m).flash = m.flash
           /\ Lose(m).regs.lost /\ Lose(m).regs.ph = "idle"
  <1> DEFINE r == [Idle EXCEPT !.key = m.regs.key, !.lost = TRUE]
  <1>1. m.regs \in Regs /\ m.flash \in Flashes
    BY DEF Mcus
  <1>2. m.regs.key \in 0 .. 2
    BY <1>1 DEF Regs
  <1>4. Idle \in Regs
    BY IdleFacts
  <1>5. r \in Regs /\ r.lost /\ r.ph = "idle"
    BY <1>2, <1>4, IdleFacts DEF Regs
  <1> HIDE DEF r
  <1>6. Lose(m) = With(m, r)
    BY DEF Lose, With, r
  <1> QED BY SMTT(30), <1>5, <1>6, WithRegs

\* The values of a run.
Typed(c, s, b, m, bf) ==
    /\ c \in Calls /\ s \in Seq(Items) /\ b \in Seq(Buf) /\ m \in Mcus
    /\ bf \in Flashes

\* The changed cells are those of the call.
Changed(c, m, bf) ==
    c.op # "flash_erase" =>
        \A a \in Addresses : m.flash[a] # bf[a] => c.op = "flash_write" /\ a \in Cells(c)

LEMMA RunStart ==
    ASSUME NEW c \in Calls, NEW m \in Mcus, NEW d, NEW ck,
           c.op = "flash_write" => c.off < Size,
           ~m.regs.lost => m.regs.ph = "idle"
    PROVE  RunOK(c, Full(c), <<>>, m, m.flash, d, ck)
  <1>1. Full(c) \in Seq(Items)
    BY FullItems
  <1>2. Len(Full(c)) \in Nat
    BY SMTT(30), <1>1
  <1>3. Done(c, Full(c)) = 0
    BY SMTT(30), <1>2 DEF Done
  <1>4. Suffix(Full(c), Full(c))
    <2>1. \A j \in 1 .. Len(Full(c)) : j + (Len(Full(c)) - Len(Full(c))) = j
      BY SMTT(30), <1>2
    <2> QED BY SMTT(30), <1>2, <2>1 DEF Suffix
  <1>5. Taken(c, Full(c), <<>>)
    BY SMTT(30), <1>3 DEF Taken
  <1>6. ~m.regs.lost => Progress(m, <<>>, m.flash, c, Done(c, Full(c)))
    BY <1>3, ProgressStart
  <1> QED BY <1>4, <1>5, <1>6 DEF RunOK

LEMMA RunTold ==
    ASSUME NEW c, NEW s, NEW b, NEW m, NEW bf, Typed(c, s, b, m, bf), s # <<>>,
           RunOK(c, s, b, m, bf, FALSE, TRUE), ~m.regs.lost,
           Head(s)[1] = "out_ready" => OutReady(m.regs)
    PROVE  /\ Tell(m, Head(s)) \in Mcus /\ Take(m, b, Head(s)) \in Seq(Buf)
           /\ Changed(c, Tell(m, Head(s)), bf) /\ ~Tell(m, Head(s)).regs.lost
           /\ RunOK(c, Tail(s), Take(m, b, Head(s)), Tell(m, Head(s)), bf, FALSE, TRUE)
  <1> DEFINE p == Head(s)
             k == Done(c, s)
             g == Tell(m, p)
             t == Take(m, b, p)
  <1>1. /\ c \in Calls /\ s \in Seq(Items) /\ b \in Seq(Buf) /\ m \in Mcus
        /\ bf \in Flashes
    BY DEF Typed
  <1>2. /\ Suffix(s, Full(c)) /\ Taken(c, s, b) /\ Changed(c, m, bf)
        /\ c.op = "flash_write" => c.off < Size
        /\ Progress(m, b, bf, c, k)
    BY DEF RunOK, Changed
  <1>3. Full(c) \in Seq(Items)
    BY <1>1, <1>2, FullItems
  <1>4. /\ Suffix(Tail(s), Full(c)) /\ k \in Nat /\ k < Len(Full(c))
        /\ p = Full(c)[k + 1] /\ Done(c, Tail(s)) = k + 1
    BY <1>1, <1>2, <1>3, SuffixTail DEF Done
  <1>5. /\ p[1] = "data" => \A v \in Buf : Taken(c, Tail(s), Append(b, v))
        /\ p[1] # "data" => Taken(c, Tail(s), b)
        /\ c.op = "flash_read" /\ k <= 13 => b = <<>>
    BY <1>1, <1>2, TakenTail
  <1> HIDE DEF p, k, g, t
  <1>6. p[1] = "out_ready" => OutReady(m.regs)
    BY DEF p
  <1>7. Telling(m, b, bf, c, k, p)
    BY <1>1, <1>2, <1>4, <1>5, <1>6 DEF Telling
  <1>8. Told(m, b, bf, c, k, p)
    BY <1>7, ToldOn
  <1>9. /\ g \in Mcus /\ ~g.regs.lost /\ Progress(g, t, bf, c, k + 1) /\ t \in Seq(Buf)
        /\ \A a \in Addresses : g.flash[a] # m.flash[a] =>
              c.op = "flash_erase" \/ (c.op = "flash_write" /\ a \in Cells(c))
    BY <1>8 DEF Told, g, t
  <1>10. Taken(c, Tail(s), t)
    <2>1. CASE p[1] = "data"
      <3>1. t = Append(b, McuByte(m)) /\ t \in Seq(Buf)
        BY <1>9, <2>1 DEF t, Take
      <3> DEFINE v == McuByte(m)
      <3> HIDE DEF v
      <3>2. t = Append(b, v)
        BY <3>1 DEF v
      <3>3. Len(b) \in Nat /\ Len(t) = Len(b) + 1 /\ t[Len(b) + 1] = v
        BY SMTT(30), <1>1, <3>2
      <3>4. v \in Buf
        BY SMTT(30), <3>1, <3>3, ElementIn
      <3> QED BY <1>5, <2>1, <3>2, <3>4
    <2>2. CASE p[1] # "data"
      BY <1>5, <2>2 DEF t, Take
    <2> QED BY <2>1, <2>2
  <1>11. Changed(c, g, bf)
    <2> SUFFICES ASSUME c.op # "flash_erase", NEW a \in Addresses, g.flash[a] # bf[a]
                 PROVE  c.op = "flash_write" /\ a \in Cells(c)
      BY DEF Changed
    <2>1. CASE g.flash[a] # m.flash[a]
      BY <1>9, <2>1
    <2>2. CASE g.flash[a] = m.flash[a]
      BY <1>2, <2>2 DEF Changed
    <2> QED BY <2>1, <2>2
  <1>12. RunOK(c, Tail(s), t, g, bf, FALSE, TRUE)
    BY <1>2, <1>4, <1>9, <1>10, <1>11 DEF RunOK, Changed
  <1> QED BY <1>9, <1>11, <1>12 DEF g, t, p

LEMMA RunDeaf ==
    ASSUME NEW c, NEW s, NEW b, NEW m, NEW bf, NEW d \in BOOLEAN, NEW ck \in BOOLEAN,
           Typed(c, s, b, m, bf), s # <<>>, RunOK(c, s, b, m, bf, d, ck),
           m.regs.lost \/ ~ck, NEW e, e <=> (d \/ ~ck)
    PROVE  /\ Head(s)[1] = "data" => \A v \in Buf :
                 RunOK(c, Tail(s), Append(b, v), m, bf, e, ck)
           /\ Head(s)[1] # "data" => RunOK(c, Tail(s), b, m, bf, e, ck)
  <1>1. /\ c \in Calls /\ s \in Seq(Items) /\ b \in Seq(Buf) /\ m \in Mcus
        /\ bf \in Flashes
    BY DEF Typed
  <1>2. /\ Suffix(s, Full(c)) /\ Taken(c, s, b) /\ Changed(c, m, bf)
        /\ c.op = "flash_write" => c.off < Size
        /\ ~m.regs.lost => ~ck /\ m.regs.ph = "idle" /\ m.flash = bf
    BY DEF RunOK, Changed
  <1>3. Full(c) \in Seq(Items)
    BY <1>1, <1>2, FullItems
  <1>4. Suffix(Tail(s), Full(c))
    BY <1>1, <1>2, <1>3, SuffixTail
  <1>5. /\ Head(s)[1] = "data" => \A v \in Buf : Taken(c, Tail(s), Append(b, v))
        /\ Head(s)[1] # "data" => Taken(c, Tail(s), b)
    BY <1>1, <1>2, TakenTail
  <1>6. \A x : Taken(c, Tail(s), x) => RunOK(c, Tail(s), x, m, bf, e, ck)
    BY <1>2, <1>4 DEF RunOK, Changed
  <1> QED BY <1>5, <1>6

\* A microcontroller that has lost the frames, with only the call's cells
\* changed, is in step with any rest of the script.
LEMMA RunLost ==
    ASSUME NEW c, NEW s, NEW b, NEW m \in Mcus, NEW bf, NEW d, NEW ck, m.regs.lost,
           Suffix(s, Full(c)), Taken(c, s, b), c.op = "flash_write" => c.off < Size,
           Changed(c, m, bf)
    PROVE  RunOK(c, s, b, m, bf, d, ck)
  BY DEF RunOK, Changed

-----------------------------------------------------------------------------
(* The invariant.                                                          *)

LEMMA InitPort == Init => PortInv
  <1> SUFFICES ASSUME Init PROVE PortInv
    OBVIOUS
  <1>1. NoThread \notin Threads
    BY Constants
  <1>2. [a \in Addresses |-> "erased"] \in Flashes
    BY DEF Flashes, Cell
  <1>3. mcu \in Mcus /\ mcu.regs.ph = "idle" /\ before \in Flashes
    BY <1>2, IdleFacts DEF Init, Mcus
  <1>4. Types
    <2>1. /\ pc \in [Threads -> {"idle", "lock", "run"}]
          /\ call \in [Threads -> Calls \cup {NoCall}]
      BY DEF Init
    <2>2. script \in Seq(Items) /\ buffer \in Seq(Buf)
      BY SMTT(30) DEF Init
    <2>3. /\ phase = "none" /\ access = FALSE /\ flash_access = FALSE /\ mutex = NoThread
          /\ ck_out = FALSE /\ halted = FALSE /\ dark = FALSE
      BY DEF Init
    <2> QED BY <1>3, <2>1, <2>2, <2>3 DEF Types
  <1>5. OwnerInv
    BY <1>1 DEF Init, OwnerInv
  <1>6. CalmInv
    BY <1>3 DEF Init, CalmInv
  <1>7. RunInv
    BY <1>1 DEF Init, RunInv
  <1> QED BY <1>4, <1>5, <1>6, <1>7 DEF PortInv

\* A step that leaves the run and the microcontroller alone keeps what is said
\* of them.
LEMMA RunFrame ==
    ASSUME CalmInv, RunInv,
           UNCHANGED <<script, buffer, before, dark, mutex, call, mcu, ck_out>>
    PROVE  CalmInv' /\ RunInv'
  <1>1. CalmInv'
    BY DEF CalmInv
  <1>2. RunInv'
    BY DEF RunInv
  <1> QED BY <1>1, <1>2

LEMMA RegisterStep ==
    ASSUME PortInv, ~halted, CreateDevice \/ RegisterFails \/ ExitUnregister
    PROVE  PortInv'
  <1>1. Types /\ OwnerInv /\ CalmInv /\ RunInv
    BY DEF PortInv
  <1>2. UNCHANGED <<script, buffer, before, dark, mutex, pc, call, mcu, ck_out>>
    BY DEF CreateDevice, RegisterFails, ExitUnregister, runVars, portVars
  <1>3. CalmInv' /\ RunInv'
    BY <1>1, <1>2, RunFrame
  <1>4. Types'
    BY <1>1, <1>2 DEF Types, CreateDevice, RegisterFails, ExitUnregister, portVars
  <1>5. OwnerInv'
    <2>1. CASE CreateDevice \/ RegisterFails
      <3>1. /\ phase = "none" /\ phase' \in {"visible", "errptr"} /\ halted' = halted
        BY <2>1 DEF CreateDevice, RegisterFails
      <3> QED BY <1>1, <1>2, <3>1 DEF OwnerInv
    <2>2. CASE ExitUnregister
      <3>1. \/ phase' = "gone" /\ \A t \in Threads : pc[t] = "idle"
            \/ phase = "errexit" /\ phase' = "errexit" /\ halted'
        BY <2>2 DEF ExitUnregister
      <3> QED BY <1>1, <1>2, <3>1 DEF OwnerInv
    <2> QED BY <2>1, <2>2
  <1> QED BY <1>3, <1>4, <1>5 DEF PortInv

LEMMA InitDeviceStep ==
    ASSUME PortInv, ~halted, InitDevice
    PROVE  PortInv'
  <1>1. Types /\ OwnerInv /\ CalmInv /\ RunInv
    BY DEF PortInv
  <1>2. UNCHANGED <<script, buffer, before, dark, mutex, pc, call, mcu, halted>>
    BY DEF InitDevice, runVars
  <1>3. /\ phase = "visible" /\ phase' = "live" /\ access' = FALSE
        /\ flash_access' = FALSE /\ ck_out' = FALSE
    BY DEF InitDevice
  <1>4. \A t \in Threads : mutex # t
    BY <1>1, <1>3 DEF OwnerInv
  <1>5. Types'
    BY <1>1, <1>2, <1>3 DEF Types
  <1>6. OwnerInv'
    BY <1>1, <1>2, <1>3 DEF OwnerInv
  <1>7. CalmInv'
    BY <1>1, <1>2, <1>3 DEF CalmInv
  <1>8. RunInv'
    BY <1>2, <1>4 DEF RunInv
  <1> QED BY <1>5, <1>6, <1>7, <1>8 DEF PortInv

\* The run of the owner of the mutex, in one piece.
LEMMA OwnerRun ==
    ASSUME PortInv, NEW t \in Threads, mutex = t
    PROVE  /\ Typed(call[t], script, buffer, mcu, before)
           /\ RunOK(call[t], script, buffer, mcu, before, dark, ck_out)
           /\ call[t] \in Calls /\ script \in Seq(Items) /\ buffer \in Seq(Buf)
           /\ mcu \in Mcus /\ before \in Flashes
           /\ dark \in BOOLEAN /\ ck_out \in BOOLEAN /\ (dark => ~ck_out)
  <1>1. Types /\ OwnerInv /\ CalmInv /\ RunInv
    BY DEF PortInv
  <1>2. call[t] \in Calls
    BY <1>1 DEF OwnerInv
  <1>3. /\ script \in Seq(Items) /\ buffer \in Seq(Buf) /\ mcu \in Mcus
        /\ before \in Flashes /\ dark \in BOOLEAN /\ ck_out \in BOOLEAN
    BY <1>1 DEF Types
  <1>4. RunOK(call[t], script, buffer, mcu, before, dark, ck_out)
    BY <1>1 DEF RunInv
  <1>5. dark => ~ck_out
    BY <1>1 DEF CalmInv
  <1> QED BY <1>2, <1>3, <1>4, <1>5 DEF Typed

LEMMA ExitStep ==
    ASSUME PortInv, ~halted, ExitAccess
    PROVE  PortInv'
  <1>1. Types /\ OwnerInv /\ CalmInv /\ RunInv
    BY DEF PortInv
  <1>2. UNCHANGED <<access, flash_access, script, buffer, before, dark, mutex, pc, call,
                    halted>>
    BY DEF ExitAccess, runVars
  <1>3. /\ phase \in {"live", "errptr"} /\ ck_out' = FALSE
        /\ phase' = IF phase = "live" THEN "exiting" ELSE "errexit"
        /\ mcu' = IF script # <<>> THEN Lose(mcu) ELSE mcu
    BY DEF ExitAccess
  <1>4. mcu \in Mcus
    BY <1>1 DEF Types
  <1>5. /\ mcu' \in Mcus /\ mcu'.flash = mcu.flash
        /\ \/ mcu'.regs.lost /\ mcu'.regs.ph = "idle"
           \/ script = <<>> /\ mcu' = mcu
    <2>1. CASE script # <<>>
      <3>1. mcu' = Lose(mcu)
        BY <1>3, <2>1
      <3> QED BY <1>4, <3>1, LoseFacts
    <2>2. CASE script = <<>>
      BY <1>3, <1>4, <2>2
    <2> QED BY <2>1, <2>2
  <1>6. Types'
    BY <1>1, <1>2, <1>3, <1>5 DEF Types
  <1>7. OwnerInv'
    BY <1>1, <1>2, <1>3 DEF OwnerInv
  <1>8. CalmInv'
    BY <1>1, <1>2, <1>3, <1>5 DEF CalmInv
  <1>9. RunInv'
    <2> SUFFICES ASSUME NEW t \in Threads, mutex' = t
                 PROVE  RunOK(call[t], script, buffer, mcu', before, dark, FALSE)
      BY <1>2, <1>3 DEF RunInv
    <2>1. RunOK(call[t], script, buffer, mcu, before, dark, ck_out)
      BY <1>1, <1>2 DEF RunInv
    <2> QED BY <1>5, <2>1 DEF RunOK
  <1> QED BY <1>6, <1>7, <1>8, <1>9 DEF PortInv

LEMMA EnterStep ==
    ASSUME PortInv, ~halted, NEW t \in Threads, NEW c \in Calls, Enter(t, c)
    PROVE  PortInv'
  <1>1. Types /\ OwnerInv /\ CalmInv /\ RunInv
    BY DEF PortInv
  <1>2. UNCHANGED <<phase, access, flash_access, ck_out, script, buffer, before, dark,
                    mutex, mcu>>
    BY DEF Enter, runVars, portVars
  <1>3. /\ phase \in {"visible", "live", "exiting"} /\ pc[t] = "idle"
        /\ halted' = (phase = "visible") /\ pc' = [pc EXCEPT ![t] = "lock"]
        /\ call' = [call EXCEPT ![t] = c]
    BY DEF Enter
  <1>4. /\ pc \in [Threads -> {"idle", "lock", "run"}]
        /\ call \in [Threads -> Calls \cup {NoCall}]
    BY <1>1 DEF Types
  <1>5. /\ pc'[t] = "lock" /\ call'[t] = c
        /\ \A u \in Threads : u # t => pc'[u] = pc[u] /\ call'[u] = call[u]
    BY <1>3, <1>4
  <1>6. /\ pc' \in [Threads -> {"idle", "lock", "run"}]
        /\ call' \in [Threads -> Calls \cup {NoCall}] /\ halted' \in BOOLEAN
    BY <1>3, <1>4
  <1>7. Types'
    BY <1>1, <1>2, <1>6 DEF Types
  <1>8. mutex # t
    BY <1>1, <1>3 DEF OwnerInv
  <1>9. OwnerInv'
    <2>1. \A u \in Threads : pc'[u] = "run" <=> mutex' = u
      BY <1>1, <1>2, <1>5, <1>8 DEF OwnerInv
    <2>2. \A u \in Threads : pc'[u] # "idle" => call'[u] \in Calls
      BY <1>1, <1>5 DEF OwnerInv
    <2>3. phase' \notin {"live", "exiting"} => halted'
      BY <1>2, <1>3
    <2>4. /\ mutex' = NoThread => script' = <<>> /\ buffer' = <<>>
          /\ phase' = "live" => (ck_out' <=> access')
      BY <1>1, <1>2 DEF OwnerInv
    <2> QED BY <2>1, <2>2, <2>3, <2>4 DEF OwnerInv
  <1>10. CalmInv'
    BY <1>1, <1>2 DEF CalmInv
  <1>11. RunInv'
    <2> SUFFICES ASSUME NEW u \in Threads, mutex' = u
                 PROVE  RunOK(call'[u], script, buffer, mcu, before, dark, ck_out)
      BY <1>2 DEF RunInv
    <2>1. mutex = u /\ call'[u] = call[u]
      BY <1>2, <1>5, <1>8
    <2> QED BY <1>1, <2>1 DEF RunInv
  <1> QED BY <1>7, <1>9, <1>10, <1>11 DEF PortInv

LEMMA RefuseStep ==
    ASSUME PortInv, ~halted, NEW t \in Threads, Refuse(t)
    PROVE  PortInv'
  <1>1. Types /\ OwnerInv /\ CalmInv /\ RunInv
    BY DEF PortInv
  <1>2. UNCHANGED <<phase, access, flash_access, ck_out, script, buffer, before, dark,
                    mutex, mcu, halted>>
    BY DEF Refuse, runVars, portVars
  <1>3. /\ pc[t] = "lock" /\ mutex = NoThread /\ pc' = [pc EXCEPT ![t] = "idle"]
        /\ call' = [call EXCEPT ![t] = NoCall]
    BY DEF Refuse
  <1>4. /\ pc \in [Threads -> {"idle", "lock", "run"}]
        /\ call \in [Threads -> Calls \cup {NoCall}]
    BY <1>1 DEF Types
  <1>5. /\ pc'[t] = "idle"
        /\ \A u \in Threads : u # t => pc'[u] = pc[u] /\ call'[u] = call[u]
    BY <1>3, <1>4
  <1>6. /\ pc' \in [Threads -> {"idle", "lock", "run"}]
        /\ call' \in [Threads -> Calls \cup {NoCall}]
    BY <1>3, <1>4
  <1>7. Types'
    BY <1>1, <1>2, <1>6 DEF Types
  <1>8. \A u \in Threads : mutex # u
    BY <1>3, Constants
  <1>9. OwnerInv'
    <2>1. \A u \in Threads : pc'[u] = "run" <=> mutex' = u
      BY <1>1, <1>2, <1>5, <1>8 DEF OwnerInv
    <2>2. \A u \in Threads : pc'[u] # "idle" => call'[u] \in Calls
      BY <1>1, <1>5 DEF OwnerInv
    <2>3. phase' \notin {"live", "exiting"} /\ ~halted' =>
            \A u \in Threads : pc'[u] = "idle"
      BY <1>1, <1>2, <1>5 DEF OwnerInv
    <2>4. /\ mutex' = NoThread => script' = <<>> /\ buffer' = <<>>
          /\ phase' = "live" => (ck_out' <=> access')
      BY <1>1, <1>2 DEF OwnerInv
    <2> QED BY <2>1, <2>2, <2>3, <2>4 DEF OwnerInv
  <1>10. CalmInv'
    BY <1>1, <1>2 DEF CalmInv
  <1>11. RunInv'
    BY <1>2, <1>8 DEF RunInv
  <1> QED BY <1>7, <1>9, <1>10, <1>11 DEF PortInv

\* A call that takes the mutex: the microcontroller is calm, or has lost the
\* frames, and keeps its flash.
LEMMA StartStep ==
    ASSUME PortInv, ~halted, NEW t \in Threads, Start(t, Full(call[t])),
           call[t].op = "flash_write" => call[t].off < Size,
           access' \in BOOLEAN, flash_access' \in BOOLEAN, ck_out' \in BOOLEAN,
           phase = "live" => (ck_out' <=> access'),
           mcu' \in Mcus, mcu'.flash = mcu.flash,
           mcu' = mcu \/ (~mcu'.regs.lost /\ mcu'.regs.ph = "idle")
    PROVE  PortInv'
  <1>1. Types /\ OwnerInv /\ CalmInv /\ RunInv
    BY DEF PortInv
  <1>2. /\ pc[t] = "lock" /\ mutex = NoThread /\ mutex' = t
        /\ pc' = [pc EXCEPT ![t] = "run"] /\ script' = Full(call[t])
        /\ buffer' = <<>> /\ before' = mcu.flash /\ dark' = FALSE
        /\ phase' = phase /\ call' = call /\ halted' = halted
    BY DEF Start
  <1>3. /\ pc \in [Threads -> {"idle", "lock", "run"}] /\ mcu \in Mcus
    BY <1>1 DEF Types
  <1>4. /\ pc'[t] = "run" /\ \A u \in Threads : u # t => pc'[u] = pc[u]
        /\ pc' \in [Threads -> {"idle", "lock", "run"}]
    BY <1>2, <1>3
  <1>5. call[t] \in Calls
    BY <1>1, <1>2 DEF OwnerInv
  <1>6. Full(call[t]) \in Seq(Items)
    BY <1>5, FullItems
  <1>7. mcu.flash \in Flashes
    BY <1>3 DEF Mcus
  <1>8. Types'
    <2>1. script' \in Seq(Items) /\ before' \in Flashes
      BY <1>2, <1>6, <1>7
    <2>2. buffer' \in Seq(Buf)
      <3>1. buffer' = <<>>
        BY <1>2
      <3> QED BY SMTT(30), <3>1
    <2>3. /\ phase' = phase /\ call' = call /\ halted' = halted
          /\ dark' = FALSE /\ mutex' = t
      BY <1>2
    <2> QED BY <1>1, <1>4, <2>1, <2>2, <2>3 DEF Types
  <1>9. t # NoThread /\ \A u \in Threads : mutex # u
    BY <1>2, Constants
  <1>10. OwnerInv'
    <2>1. \A u \in Threads : pc'[u] = "run" <=> mutex' = u
      BY <1>1, <1>2, <1>4, <1>9 DEF OwnerInv
    <2>2. \A u \in Threads : pc'[u] # "idle" => call'[u] \in Calls
      BY <1>1, <1>2, <1>4, <1>5 DEF OwnerInv
    <2>3. phase' \in {"live", "exiting"}
      BY <1>1, <1>2 DEF OwnerInv
    <2>4. mutex' # NoThread /\ (phase' = "live" => (ck_out' <=> access'))
      BY <1>2, <1>9
    <2> QED BY <2>1, <2>2, <2>3, <2>4 DEF OwnerInv
  <1>11. /\ ~mcu'.regs.lost => mcu'.regs.ph = "idle"
         /\ mcu'.regs.lost => mcu'.regs.ph = "idle"
    BY <1>1, <1>2 DEF CalmInv
  <1>12. CalmInv'
    BY <1>2, <1>9, <1>11 DEF CalmInv
  <1>13. RunOK(call[t], Full(call[t]), <<>>, mcu', mcu'.flash, dark', ck_out')
    BY <1>5, <1>11, RunStart
  <1>14. RunInv'
    BY <1>2, <1>13 DEF RunInv
  <1> QED BY <1>8, <1>10, <1>12, <1>14 DEF PortInv

LEMMA StoreStep ==
    ASSUME PortInv, ~halted, NEW t \in Threads,
           AccessStore(t) \/ ResetStore(t) \/ FlashAccessStore(t) \/ Scripted(t)
    PROVE  PortInv'
  <1>1. /\ access \in BOOLEAN /\ flash_access \in BOOLEAN /\ ck_out \in BOOLEAN
        /\ mcu \in Mcus
    BY DEF PortInv, Types
  <1>2. phase = "live" => (ck_out <=> access)
    BY DEF PortInv, OwnerInv
  <1>3. ASSUME NEW s, Start(t, s) PROVE call[t] \in Calls
    BY <1>3 DEF PortInv, OwnerInv, Start
  <1>4. CASE AccessStore(t)
    <2>1. /\ call[t].op = "access" /\ Start(t, <<>>) /\ access' = call[t].on
          /\ ck_out' = call[t].on /\ flash_access' = flash_access /\ mcu' = mcu
      BY <1>4 DEF AccessStore
    <2>2. call[t].on \in BOOLEAN
      BY <1>3, <2>1, Constants
    <2>3. Full(call[t]) = <<>>
      BY <2>1 DEF Full
    <2>4. Start(t, Full(call[t]))
      BY <2>1, <2>3
    <2> QED BY <1>1, <2>1, <2>2, <2>4, StartStep
  <1>5. CASE ResetStore(t)
    <2>1. /\ call[t].op = "reset" /\ Start(t, <<>>) /\ flash_access' = FALSE
          /\ access' = access /\ ck_out' = ck_out
          /\ mcu' = IF ck_out THEN [mcu EXCEPT !.regs = Idle] ELSE mcu
      BY <1>5 DEF ResetStore
    <2>2. Full(call[t]) = <<>>
      BY <2>1 DEF Full
    <2>3. Start(t, Full(call[t]))
      BY <2>1, <2>2
    <2>4. /\ mcu' \in Mcus /\ mcu'.flash = mcu.flash
          /\ mcu' = mcu \/ (~mcu'.regs.lost /\ mcu'.regs.ph = "idle")
      <3>1. CASE ck_out
        <4>1. mcu' = With(mcu, Idle)
          BY <2>1, <3>1 DEF With
        <4>2. Idle \in Regs
          BY IdleFacts
        <4>3. mcu' \in Mcus /\ mcu'.flash = mcu.flash /\ mcu'.regs = Idle
          BY <1>1, <4>1, <4>2, WithRegs
        <4> QED BY <4>3, IdleFacts
      <3>2. CASE ~ck_out
        BY <1>1, <2>1, <3>2
      <3> QED BY <3>1, <3>2
    <2> QED BY <1>1, <1>2, <2>1, <2>3, <2>4, StartStep
  <1>6. CASE FlashAccessStore(t)
    <2>1. /\ call[t].op = "flash_access"
          /\ Start(t, IF call[t].on THEN EnableFlash ELSE <<>>)
          /\ flash_access' = call[t].on /\ access' = access /\ ck_out' = ck_out
          /\ mcu' = mcu
      BY <1>6 DEF FlashAccessStore
    <2>2. call[t].on \in BOOLEAN
      BY <1>3, <2>1, Constants
    <2>3. Full(call[t]) = IF call[t].on THEN EnableFlash ELSE <<>>
      BY <2>1 DEF Full
    <2>4. Start(t, Full(call[t]))
      BY <2>1, <2>3
    <2> QED BY <1>1, <1>2, <2>1, <2>2, <2>4, StartStep
  <1>7. CASE Scripted(t)
    <2>1. /\ call[t].op \in FlashOps \cup {"dev_id", "rev_id"}
          /\ ~(call[t].op = "flash_write" /\ call[t].off >= Size)
          /\ Start(t, ScriptOf(call[t])) /\ mcu' = mcu
          /\ flash_access' = flash_access /\ access' = access /\ ck_out' = ck_out
      BY <1>7 DEF Scripted, portVars
    <2>2. call[t].off \in Nat /\ Size \in Nat
      BY <1>3, <2>1, Constants
    <2>3. call[t].op = "flash_write" => call[t].off < Size
      <3>1. ~(call[t].op = "flash_write" /\ call[t].off >= Size)
        BY <2>1
      <3> QED BY SMTT(30), <2>2, <3>1
    <2>4. Full(call[t]) = ScriptOf(call[t])
      BY <2>1 DEF Full, FlashOps
    <2>5. Start(t, Full(call[t]))
      BY <2>1, <2>4
    <2> QED BY <1>1, <1>2, <2>1, <2>3, <2>5, StartStep
  <1> QED BY <1>4, <1>5, <1>6, <1>7

\* A call that gives up the mutex leaves a microcontroller that is calm or has
\* lost the frames.
LEMMA ReleaseStep ==
    ASSUME PortInv, NEW t \in Threads, mutex = t, Release(t), mcu' \in Mcus,
           mcu'.regs.ph = "idle"
    PROVE  PortInv'
  <1>1. Types /\ OwnerInv /\ CalmInv /\ RunInv
    BY DEF PortInv
  <1>2. /\ mutex' = NoThread /\ pc' = [pc EXCEPT ![t] = "idle"]
        /\ call' = [call EXCEPT ![t] = NoCall] /\ script' = <<>> /\ buffer' = <<>>
        /\ before' = mcu'.flash /\ dark' = FALSE
        /\ UNCHANGED <<phase, access, flash_access, ck_out, halted>>
    BY DEF Release, portVars
  <1>3. /\ pc \in [Threads -> {"idle", "lock", "run"}]
        /\ call \in [Threads -> Calls \cup {NoCall}]
    BY <1>1 DEF Types
  <1>4. /\ pc'[t] = "idle"
        /\ \A u \in Threads : u # t => pc'[u] = pc[u] /\ call'[u] = call[u]
    BY <1>2, <1>3
  <1>5. /\ pc' \in [Threads -> {"idle", "lock", "run"}]
        /\ call' \in [Threads -> Calls \cup {NoCall}]
    BY <1>2, <1>3
  <1>6. \A u \in Threads : mutex' # u
    BY <1>2, Constants
  <1>7. Types'
    <2>1. mcu'.flash \in Flashes
      BY DEF Mcus
    <2>2. script' \in Seq(Items) /\ buffer' \in Seq(Buf) /\ before' \in Flashes
      BY SMTT(30), <1>2, <2>1
    <2>3. /\ UNCHANGED <<phase, access, flash_access, ck_out, halted>>
          /\ dark' = FALSE /\ mutex' = NoThread
      BY <1>2
    <2> QED BY <1>1, <1>5, <2>2, <2>3 DEF Types
  <1>8. OwnerInv'
    <2>1. \A u \in Threads : pc'[u] # "run"
      BY <1>1, <1>4 DEF OwnerInv
    <2>2. \A u \in Threads : pc'[u] # "idle" => call'[u] \in Calls
      BY <1>1, <1>4 DEF OwnerInv
    <2>3. phase' \notin {"live", "exiting"} /\ ~halted' =>
            \A u \in Threads : pc'[u] = "idle"
      BY <1>1, <1>2, <1>4 DEF OwnerInv
    <2>4. phase' = "live" => (ck_out' <=> access')
      BY <1>1, <1>2 DEF OwnerInv
    <2> QED BY <1>2, <1>6, <2>1, <2>2, <2>3, <2>4 DEF OwnerInv
  <1>9. CalmInv'
    BY <1>2 DEF CalmInv
  <1>10. RunInv'
    BY <1>6 DEF RunInv
  <1> QED BY <1>7, <1>8, <1>9, <1>10 DEF PortInv

\* What the item at the head of the script does: heard, or not.
LEMMA PrimitiveIs ==
    ASSUME PortInv, NEW t \in Threads, Primitive(t)
    PROVE  LET p == Head(script)
           IN  /\ Heard => /\ mcu' = Tell(mcu, p) /\ buffer' = Take(mcu, buffer, p)
                           /\ p[1] = "out_ready" => OutReady(mcu.regs)
               /\ ~Heard => /\ mcu' = mcu
                            /\ p[1] = "data" => buffer' = Append(buffer, "noise")
                            /\ p[1] # "data" => buffer' = buffer
  <1> DEFINE p == Head(script)
  <1>1. script \in Seq(Items) /\ script # <<>>
    BY DEF PortInv, Types, Primitive, Running
  <1>2. p \in Items
    BY SMTT(30), <1>1
  <1>3. p[1] \in {"ar", "wr", "wr!", "in_busy", "out_ready", "status", "data", "id"}
    BY <1>2 DEF Items
  <1>4. CASE p[1] = "ar"
    BY <1>4 DEF Primitive, Tell, Take
  <1>5. CASE p[1] \in {"wr", "wr!"}
    BY <1>5 DEF Primitive, Tell, Take
  <1>6. CASE p[1] \in {"in_busy", "id"}
    BY <1>6 DEF Primitive, Tell, Take
  <1>7. CASE p[1] = "out_ready"
    BY <1>7 DEF Primitive, Tell, Take
  <1>8. CASE p[1] = "status"
    BY <1>8 DEF Primitive, Tell, Take
  <1>9. CASE p[1] = "data"
    BY <1>9 DEF Primitive, Tell, Take
  <1> QED BY <1>3, <1>4, <1>5, <1>6, <1>7, <1>8, <1>9

\* The owner goes on with its script.
GoesOn(t) ==
    /\ PortInv /\ t \in Threads /\ mutex = t /\ script # <<>> /\ script' = Tail(script)
    /\ UNCHANGED <<phase, portVars, mutex, pc, call, halted, before>>
    /\ dark' = (dark \/ ~ck_out) /\ mcu' \in Mcus /\ buffer' \in Seq(Buf)
    /\ mcu'.regs.lost => mcu'.regs.ph = "idle"
    /\ RunOK(call[t], Tail(script), buffer', mcu', before, dark', ck_out)

LEMMA OnStep == ASSUME NEW t, GoesOn(t) PROVE PortInv'
  <1>1. Types /\ OwnerInv /\ CalmInv /\ RunInv
    BY DEF GoesOn, PortInv
  <1>t. t \in Threads /\ mutex = t /\ t # NoThread
    BY Constants DEF GoesOn
  <1>s. script # <<>> /\ script' = Tail(script)
    BY DEF GoesOn
  <1>u. UNCHANGED <<phase, portVars, mutex, pc, call, halted, before>>
    BY DEF GoesOn
  <1>v. dark' = (dark \/ ~ck_out) /\ mcu' \in Mcus /\ buffer' \in Seq(Buf)
    BY DEF GoesOn
  <1>l. mcu'.regs.lost => mcu'.regs.ph = "idle"
    BY DEF GoesOn
  <1>2. /\ phase' = phase /\ access' = access /\ flash_access' = flash_access
        /\ ck_out' = ck_out /\ mutex' = mutex /\ pc' = pc /\ call' = call
        /\ halted' = halted /\ before' = before
    BY <1>u DEF portVars
  <1>3. RunOK(call'[t], script', buffer', mcu', before', dark', ck_out')
    BY <1>s, <1>2 DEF GoesOn
  <1>4. script \in Seq(Items)
    BY <1>1 DEF Types
  <1>5. script' \in Seq(Items)
    BY <1>4, <1>s, HeadTail
  <1>6. dark' \in BOOLEAN
    BY <1>v
  <1>7. Types'
    BY <1>1, <1>2, <1>5, <1>6, <1>v DEF Types
  <1>8. OwnerInv'
    <2>1. \A u \in Threads : pc'[u] = "run" <=> mutex' = u
      BY <1>1, <1>2 DEF OwnerInv
    <2>2. \A u \in Threads : pc'[u] # "idle" => call'[u] \in Calls
      BY <1>1, <1>2 DEF OwnerInv
    <2>3. phase' \notin {"live", "exiting"} /\ ~halted' =>
            \A u \in Threads : pc'[u] = "idle"
      BY <1>1, <1>2 DEF OwnerInv
    <2>4. mutex' # NoThread /\ (phase' = "live" => (ck_out' <=> access'))
      BY <1>1, <1>2, <1>t DEF OwnerInv
    <2> QED BY <2>1, <2>2, <2>3, <2>4 DEF OwnerInv
  <1>9. CalmInv'
    <2>1. dark' => ~ck_out'
      BY <1>1, <1>2, <1>v DEF CalmInv
    <2> QED BY <1>2, <1>t, <1>l, <2>1 DEF CalmInv
  <1>10. RunInv'
    BY <1>2, <1>3, <1>t DEF RunInv
  <1> QED BY <1>7, <1>8, <1>9, <1>10 DEF PortInv

LEMMA PrimitiveStep ==
    ASSUME PortInv, ~halted, NEW t \in Threads, Primitive(t)
    PROVE  PortInv'
  <1> DEFINE p == Head(script)
             c == call[t]
  <1>1. /\ mutex = t /\ script # <<>> /\ script' = Tail(script)
        /\ dark' = (dark \/ ~ck_out)
        /\ UNCHANGED <<phase, portVars, mutex, pc, call, halted, before>>
    BY DEF Primitive, Running
  <1>2. /\ Typed(c, script, buffer, mcu, before)
        /\ RunOK(c, script, buffer, mcu, before, dark, ck_out)
        /\ buffer \in Seq(Buf) /\ mcu \in Mcus
        /\ dark \in BOOLEAN /\ ck_out \in BOOLEAN /\ (dark => ~ck_out)
    BY <1>1, OwnerRun
  <1>3. mcu.regs.lost => mcu.regs.ph = "idle"
    BY DEF PortInv, CalmInv
  <1>4. CASE Heard
    <2>1. /\ mcu' = Tell(mcu, p) /\ buffer' = Take(mcu, buffer, p)
          /\ p[1] = "out_ready" => OutReady(mcu.regs)
      BY <1>4, PrimitiveIs
    <2>2. ck_out = TRUE /\ dark = FALSE /\ dark' = FALSE /\ ~mcu.regs.lost
      <3>1. ck_out /\ ~mcu.regs.lost
        BY <1>4 DEF Heard
      <3>2. ~dark
        BY <1>2, <3>1
      <3>3. ~dark'
        BY <1>1, <3>1, <3>2
      <3>4. dark' \in BOOLEAN
        BY <1>1
      <3> QED BY <1>2, <3>1, <3>2, <3>3, <3>4
    <2>3. RunOK(c, script, buffer, mcu, before, FALSE, TRUE)
      BY <1>2, <2>2
    <2> HIDE DEF c
    <2>4. /\ mcu' \in Mcus /\ buffer' \in Seq(Buf) /\ ~mcu'.regs.lost
          /\ RunOK(c, Tail(script), buffer', mcu', before, FALSE, TRUE)
      BY <1>1, <1>2, <2>1, <2>2, <2>3, RunTold
    <2>5. RunOK(c, Tail(script), buffer', mcu', before, dark', ck_out)
      BY <2>2, <2>4
    <2>6. mcu'.regs.lost => mcu'.regs.ph = "idle"
      BY <2>4
    <2>7. GoesOn(t)
      BY <1>1, <2>4, <2>5, <2>6 DEF c, GoesOn
    <2> QED BY <2>7, OnStep
  <1>5. CASE ~Heard
    <2>1. /\ mcu' = mcu
          /\ p[1] = "data" => buffer' = Append(buffer, "noise")
          /\ p[1] # "data" => buffer' = buffer
      BY <1>5, PrimitiveIs
    <2>2. mcu.regs.lost \/ ~ck_out
      BY <1>5 DEF Heard
    <2>3. "noise" \in Buf
      BY DEF Buf
    <2> HIDE DEF c
    <2>4. /\ p[1] = "data" => \A v \in Buf :
               RunOK(c, Tail(script), Append(buffer, v), mcu, before, dark', ck_out)
          /\ p[1] # "data" =>
               RunOK(c, Tail(script), buffer, mcu, before, dark', ck_out)
      <3>1. dark' <=> (dark \/ ~ck_out)
        BY <1>1
      <3> QED BY <1>1, <1>2, <2>2, <3>1, RunDeaf
    <2>5. RunOK(c, Tail(script), buffer', mcu', before, dark', ck_out)
      BY <2>1, <2>3, <2>4
    <2>6. buffer' \in Seq(Buf)
      BY SMTT(30), <1>2, <2>1, <2>3
    <2>7. mcu' \in Mcus /\ (mcu'.regs.lost => mcu'.regs.ph = "idle")
      BY <1>2, <1>3, <2>1
    <2>8. GoesOn(t)
      BY <1>1, <2>5, <2>6, <2>7 DEF c, GoesOn
    <2> QED BY <2>8, OnStep
  <1> QED BY <1>4, <1>5

\* A frame that is left open: what was sent may have changed the call's cells.
SentMcu ==
    IF Heard /\ Head(script)[1] \in {"wr", "wr!"}
    THEN McuWrite(mcu, Head(script)[2]) ELSE mcu

LEMMA SentFacts ==
    ASSUME PortInv, NEW t \in Threads, Running(t)
    PROVE  SentMcu \in Mcus /\ Changed(call[t], SentMcu, before)
  <1> DEFINE p == Head(script)
             c == call[t]
  <1>1. mutex = t /\ script # <<>>
    BY DEF Running
  <1>2. /\ Typed(c, script, buffer, mcu, before)
        /\ RunOK(c, script, buffer, mcu, before, dark, ck_out)
        /\ mcu \in Mcus
        /\ dark \in BOOLEAN /\ ck_out \in BOOLEAN /\ (dark => ~ck_out)
    BY <1>1, OwnerRun
  <1>3. CASE Heard /\ p[1] \in {"wr", "wr!"}
    <2>1. ck_out = TRUE /\ dark = FALSE /\ ~mcu.regs.lost
      <3>1. ck_out /\ ~mcu.regs.lost
        BY <1>3 DEF Heard
      <3>2. ~dark
        BY <1>2, <3>1
      <3> QED BY <1>2, <3>1, <3>2
    <2>2. RunOK(c, script, buffer, mcu, before, FALSE, TRUE)
      BY <1>2, <2>1
    <2>3. p[1] = "out_ready" => OutReady(mcu.regs)
      BY <1>3
    <2>4. SentMcu = Tell(mcu, p)
      BY <1>3 DEF Tell, SentMcu
    <2> HIDE DEF c
    <2>5. Tell(mcu, p) \in Mcus /\ Changed(c, Tell(mcu, p), before)
      BY <1>1, <1>2, <2>1, <2>2, <2>3, RunTold
    <2> QED BY <2>4, <2>5 DEF c
  <1>4. CASE ~(Heard /\ p[1] \in {"wr", "wr!"})
    <2>1. SentMcu = mcu
      BY <1>4 DEF SentMcu
    <2>2. Changed(c, mcu, before)
      BY <1>2 DEF RunOK, Changed
    <2> QED BY <1>2, <2>1, <2>2
  <1> QED BY <1>3, <1>4

\* A clock that is not driven leaves the microcontroller calm.
LEMMA DeafCalm ==
    ASSUME PortInv, NEW t \in Threads, mutex = t, script # <<>>, ~ck_out
    PROVE  mcu.regs.ph = "idle"
  <1>1. RunOK(call[t], script, buffer, mcu, before, dark, ck_out)
    BY OwnerRun
  <1>2. mcu.regs.lost => mcu.regs.ph = "idle"
    BY DEF PortInv, CalmInv
  <1> QED BY <1>1, <1>2 DEF RunOK

LEMMA TimeoutStep ==
    ASSUME PortInv, ~halted, NEW t \in Threads, WaitTimeout(t)
    PROVE  PortInv'
  <1> DEFINE p == Head(script)
             c == call[t]
             sent == IF Heard /\ p[1] \in {"wr", "wr!"} THEN McuWrite(mcu, p[2]) ELSE mcu
  <1>1. /\ Running(t) /\ p[1] \in {"wr", "wr!", "status", "data", "id"}
        /\ mcu' = IF ck_out THEN Lose(sent) ELSE mcu
        /\ p[1] # "wr" => Release(t)
        /\ p[1] = "wr" =>
             /\ script' = Tail(script) /\ dark' = (dark \/ ~ck_out)
             /\ UNCHANGED <<phase, portVars, mutex, pc, call, halted, before>>
             /\ buffer' = buffer
    BY DEF WaitTimeout
  <1>2. mutex = t /\ script # <<>>
    BY <1>1 DEF Running
  <1>3. /\ Typed(c, script, buffer, mcu, before)
        /\ RunOK(c, script, buffer, mcu, before, dark, ck_out)
        /\ c \in Calls /\ script \in Seq(Items) /\ buffer \in Seq(Buf) /\ mcu \in Mcus
        /\ dark \in BOOLEAN /\ ck_out \in BOOLEAN /\ (dark => ~ck_out)
    BY <1>2, OwnerRun
  <1>4. sent \in Mcus /\ Changed(c, sent, before)
    <2>1. sent = SentMcu
      BY DEF SentMcu
    <2>2. SentMcu \in Mcus /\ Changed(call[t], SentMcu, before)
      BY <1>1, SentFacts
    <2> QED BY <2>1, <2>2
  <1> HIDE DEF sent, c
  <1>5. /\ mcu' \in Mcus /\ mcu'.regs.ph = "idle"
        /\ ck_out => mcu'.regs.lost /\ Changed(c, mcu', before)
        /\ ~ck_out => mcu' = mcu
    <2>1. CASE ck_out
      <3>1. mcu' = Lose(sent)
        BY <1>1, <2>1
      <3>2. mcu' \in Mcus /\ mcu'.flash = sent.flash /\ mcu'.regs.lost /\ mcu'.regs.ph = "idle"
        BY <1>4, <3>1, LoseFacts
      <3>3. Changed(c, mcu', before)
        BY <1>4, <3>2 DEF Changed
      <3> QED BY <2>1, <3>2, <3>3
    <2>2. CASE ~ck_out
      <3>1. mcu.regs.ph = "idle"
        BY <1>2, <2>2, DeafCalm
      <3> QED BY <1>1, <1>3, <2>2, <3>1
    <2> QED BY <2>1, <2>2
  <1>6. CASE p[1] # "wr"
    BY <1>1, <1>2, <1>5, <1>6, ReleaseStep
  <1>7. CASE p[1] = "wr"
    <2>1. p[1] # "data" /\ buffer' = buffer
      BY <1>1, <1>7
    <2>2. RunOK(c, Tail(script), buffer', mcu', before, dark', ck_out)
      <3>1. CASE ck_out
        <4>1. /\ Suffix(script, Full(c)) /\ Taken(c, script, buffer)
              /\ c.op = "flash_write" => c.off < Size
          BY <1>3 DEF RunOK
        <4>2. Full(c) \in Seq(Items)
          BY <1>3, <4>1, FullItems
        <4>3. Suffix(Tail(script), Full(c))
          BY <1>2, <1>3, <4>1, <4>2, SuffixTail
        <4>4. Taken(c, Tail(script), buffer)
          BY <1>2, <1>3, <2>1, <4>1, TakenTail
        <4>5. RunOK(c, Tail(script), buffer, mcu', before, dark', ck_out)
          BY <1>5, <3>1, <4>1, <4>3, <4>4, RunLost
        <4> QED BY <2>1, <4>5
      <3>2. CASE ~ck_out
        <4>1. dark' <=> (dark \/ ~ck_out)
          BY <1>1, <1>7
        <4>2. RunOK(c, Tail(script), buffer, mcu, before, dark', ck_out)
          BY <1>2, <1>3, <2>1, <3>2, <4>1, RunDeaf
        <4> QED BY <1>5, <2>1, <3>2, <4>2
      <3> QED BY <3>1, <3>2
    <2>3. buffer' \in Seq(Buf)
      BY <1>3, <2>1
    <2>4. /\ script' = Tail(script) /\ dark' = (dark \/ ~ck_out)
          /\ UNCHANGED <<phase, portVars, mutex, pc, call, halted, before>>
      BY <1>1, <1>7
    <2>5. GoesOn(t)
      BY <1>2, <1>5, <2>2, <2>3, <2>4 DEF c, GoesOn
    <2> QED BY <2>5, OnStep
  <1> QED BY <1>6, <1>7

LEMMA FailStep ==
    ASSUME PortInv, ~halted, NEW t \in Threads, PrimitiveFails(t)
    PROVE  PortInv'
  <1>1. /\ mutex = t /\ script # <<>> /\ Release(t)
        /\ mcu' = IF ck_out THEN Lose(mcu) ELSE mcu
    BY DEF PrimitiveFails, Running
  <1>2. mcu \in Mcus
    BY <1>1, OwnerRun
  <1>3. mcu' \in Mcus /\ mcu'.regs.ph = "idle"
    <2>1. CASE ck_out
      <3>1. mcu' = Lose(mcu)
        BY <1>1, <2>1
      <3> QED BY <1>2, <3>1, LoseFacts
    <2>2. CASE ~ck_out
      <3>1. mcu.regs.ph = "idle"
        BY <1>1, <2>2, DeafCalm
      <3> QED BY <1>1, <1>2, <2>2, <3>1
    <2> QED BY <2>1, <2>2
  <1> QED BY <1>1, <1>3, ReleaseStep

\* What an attribute that is about to report success has done.
LEMMA OwnerFinished ==
    ASSUME PortInv, NEW t \in Threads, mutex = t, script = <<>>, ~mcu.regs.lost, ~dark
    PROVE  Finished(mcu, buffer, before, call[t])
  <1> DEFINE c == call[t]
  <1>1. /\ RunOK(c, script, buffer, mcu, before, dark, ck_out)
        /\ c \in Calls /\ buffer \in Seq(Buf) /\ mcu \in Mcus
    BY OwnerRun
  <1>2. /\ c.op = "flash_write" => c.off < Size
        /\ Progress(mcu, buffer, before, c, Done(c, script))
    BY <1>1 DEF RunOK
  <1>3. Full(c) \in Seq(Items)
    BY <1>1, <1>2, FullItems
  <1>4. Len(Full(c)) \in Nat /\ Len(script) = 0
    BY SMTT(30), <1>3
  <1>5. Done(c, script) = Len(Full(c))
    BY SMTT(30), <1>4 DEF Done
  <1> HIDE DEF c
  <1>6. Progress(mcu, buffer, before, c, Len(Full(c)))
    BY <1>2, <1>5
  <1>7. Finished(mcu, buffer, before, c)
    BY <1>1, <1>2, <1>6, ProgressEnd
  <1> QED BY <1>7 DEF c

LEMMA UnlockStep ==
    ASSUME PortInv, ~halted, NEW t \in Threads, Unlock(t)
    PROVE  PortInv'
  <1>1. mutex = t /\ script = <<>> /\ mcu' = mcu /\ Release(t)
    BY DEF Unlock
  <1>2. mcu \in Mcus /\ RunOK(call[t], script, buffer, mcu, before, dark, ck_out)
    BY <1>1, OwnerRun
  <1>3. mcu.regs.ph = "idle"
    <2>1. CASE mcu.regs.lost
      BY <2>1 DEF PortInv, CalmInv
    <2>2. CASE ~mcu.regs.lost /\ dark
      BY <1>2, <2>2 DEF RunOK
    <2>3. CASE ~mcu.regs.lost /\ ~dark
      BY <1>1, <2>3, OwnerFinished DEF Finished
    <2> QED BY <2>1, <2>2, <2>3
  <1> QED BY <1>1, <1>2, <1>3, ReleaseStep

-----------------------------------------------------------------------------
(* The theorems.                                                           *)

\* What every attribute relies on, for any threads and accesses: the owner of
\* the mutex works through the script of its call; a microcontroller that hears
\* it has been told exactly the items that are done; the mutex is given up only
\* with the microcontroller waiting for a command; only the cells of the call
\* have changed since the mutex was taken.
THEOREM PortInvariance == Spec => []PortInv
  <1>1. Init => PortInv
    BY InitPort
  <1>2. PortInv /\ [Next]_vars => PortInv'
    <2> SUFFICES ASSUME PortInv, [Next]_vars PROVE PortInv'
      OBVIOUS
    <2>1. CASE UNCHANGED vars
      <3>1. UNCHANGED <<phase, access, flash_access, ck_out, script, buffer, before, dark,
                        mutex, pc, call, mcu, halted>>
        BY <2>1 DEF vars, portVars, runVars
      <3>2. Types /\ OwnerInv /\ CalmInv /\ RunInv
        BY DEF PortInv
      <3>3. CalmInv' /\ RunInv'
        BY <3>1, <3>2, RunFrame
      <3>4. Types' /\ OwnerInv'
        BY <3>1, <3>2 DEF Types, OwnerInv
      <3> QED BY <3>3, <3>4 DEF PortInv
    <2>2. CASE Next
      <3>1. ~halted
        BY <2>2 DEF Next
      <3>2. CASE CreateDevice \/ RegisterFails \/ ExitUnregister
        BY <3>1, <3>2, RegisterStep
      <3>3. CASE InitDevice
        BY <3>1, <3>3, InitDeviceStep
      <3>4. CASE ExitAccess
        BY <3>1, <3>4, ExitStep
      <3>5. ASSUME NEW t \in Threads, NEW c \in Calls, Enter(t, c) PROVE PortInv'
        BY <3>1, <3>5, EnterStep
      <3>6. ASSUME NEW t \in Threads,
                   AccessStore(t) \/ ResetStore(t) \/ FlashAccessStore(t) \/ Scripted(t)
            PROVE  PortInv'
        BY <3>1, <3>6, StoreStep
      <3>7. ASSUME NEW t \in Threads, Refuse(t) PROVE PortInv'
        BY <3>1, <3>7, RefuseStep
      <3>8. ASSUME NEW t \in Threads, Primitive(t) PROVE PortInv'
        BY <3>1, <3>8, PrimitiveStep
      <3>9. ASSUME NEW t \in Threads, WaitTimeout(t) PROVE PortInv'
        BY <3>1, <3>9, TimeoutStep
      <3>10. ASSUME NEW t \in Threads, PrimitiveFails(t) PROVE PortInv'
        BY <3>1, <3>10, FailStep
      <3>11. ASSUME NEW t \in Threads, Unlock(t) PROVE PortInv'
        BY <3>1, <3>11, UnlockStep
      <3> QED BY <2>2, <3>2, <3>3, <3>4, <3>5, <3>6, <3>7, <3>8, <3>9, <3>10, <3>11 DEF Next
    <2> QED BY <2>1, <2>2
  <1> QED BY <1>1, <1>2, PTL DEF Spec

\* An attribute that reports success has done its work on the microcontroller,
\* for any flash, any chunk and any number of threads: c2port_store_flash_erase
\* erased every cell, __c2port_write_flash_data left its bytes in its cells,
\* __c2port_read_flash_data returned the cells.
THEOREM SuccessReal == Spec => []SuccessIsReal
  <1>1. PortInv => SuccessIsReal
    <2> SUFFICES ASSUME PortInv, NEW t \in Threads, mutex = t, script = <<>>, ck_out, ~dark,
                        ~mcu.regs.lost
                 PROVE  LET c == call[t]
                        IN  CASE c.op = "flash_erase" ->
                                   \A a \in Addresses : mcu.flash[a] = "erased"
                              [] c.op = "flash_write" ->
                                   \A a \in Cells(c) : mcu.flash[a] = c.data[a - c.off + 1]
                              [] c.op = "flash_read" ->
                                   c.off < Size =>
                                     buffer = [k \in 1 .. Transfer(c) |->
                                                 mcu.flash[c.off + k - 1]]
                              [] OTHER -> mcu.flash = before
      BY DEF SuccessIsReal
    <2> DEFINE c == call[t]
    <2>1. Finished(mcu, buffer, before, c)
      BY OwnerFinished
    <2> HIDE DEF c
    <2>2. CASE c.op = "flash_erase"
      BY <2>1, <2>2 DEF Finished, c
    <2>3. CASE c.op = "flash_write"
      BY <2>1, <2>3 DEF Finished, c
    <2>4. CASE c.op = "flash_read"
      BY <2>1, <2>4 DEF Finished, c
    <2>5. CASE c.op \notin {"flash_erase", "flash_write", "flash_read"}
      <3>1. Other(c)
        BY <2>5 DEF Other
      <3>2. mcu.flash = before
        BY <2>1, <3>1 DEF Finished
      <3> QED BY <2>5, <3>2 DEF c
    <2> QED BY <2>2, <2>3, <2>4, <2>5
  <1> QED BY <1>1, PortInvariance, PTL

\* Whether an operation succeeds, times out or is abandoned, only the cells it
\* is for have changed: those of its transfer for a write, none for a read and
\* the registers.  A transfer never holds more bytes than its chunk.
THEOREM OnlyTarget == Spec => []OnlyTargetChanges
  <1>1. PortInv => OnlyTargetChanges
    <2> SUFFICES ASSUME PortInv PROVE OnlyTargetChanges
      OBVIOUS
    <2>1. Types /\ OwnerInv /\ RunInv
      BY DEF PortInv
    <2>2. Len(buffer) <= Chunk
      <3>1. CASE mutex = NoThread
        <4>1. buffer = <<>>
          BY <2>1, <3>1 DEF OwnerInv
        <4> QED BY SMTT(30), <4>1, Constants
      <3>2. ASSUME NEW t \in Threads, mutex = t PROVE Len(buffer) <= Chunk
        <4> DEFINE c == call[t]
                   d == Done(c, script)
        <4>1. /\ RunOK(c, script, buffer, mcu, before, dark, ck_out)
              /\ c \in Calls /\ buffer \in Seq(Buf) /\ script \in Seq(Items)
          BY <3>2, OwnerRun
        <4>2. /\ Taken(c, script, buffer) /\ (c.op = "flash_write" => c.off < Size)
          BY <4>1 DEF RunOK
        <4>3. CASE ~(c.op = "flash_read" /\ d > 13)
          <5>1. buffer = <<>>
            BY <4>2, <4>3 DEF Taken
          <5> QED BY SMTT(30), <5>1, Constants
        <4>4. CASE c.op = "flash_read" /\ d > 13
          <5>1. /\ Full(c) \in Seq(Items)
                /\ c.off < Size => Len(Full(c)) = 13 + 2 * Transfer(c)
                /\ ~(c.off < Size) => Full(c) = <<>>
            BY <4>1, <4>2, <4>4, FullItems
          <5>2. Len(Full(c)) \in Nat /\ Len(script) \in Nat /\ Len(buffer) \in Nat
            <6>1. buffer \in Seq(Buf) /\ script \in Seq(Items) /\ Full(c) \in Seq(Items)
              BY <4>1, <5>1
            <6> QED BY SMTT(30), <6>1
          <5>3. d = Len(Full(c)) - Len(script)
            BY DEF Done
          <5>4. d \in {13 + 2 * Len(buffer), 14 + 2 * Len(buffer)}
            BY <4>2, <4>4 DEF Taken
          <5> HIDE DEF d
          <5>5. Len(Full(c)) > 13 /\ 13 + 2 * Len(buffer) <= Len(Full(c))
            BY SMTT(30), <4>4, <5>2, <5>3, <5>4
          <5>6. c.off < Size
            <6> SUFFICES ASSUME ~(c.off < Size) PROVE FALSE
              OBVIOUS
            <6>1. Len(Full(c)) = 0
              BY SMTT(30), <5>1
            <6> QED BY SMTT(30), <5>5, <6>1
          <5> DEFINE n == Transfer(c)
          <5>7. n \in Nat /\ n <= Chunk /\ Len(Full(c)) = 13 + 2 * n
            BY <4>1, <4>4, <5>1, <5>6, TransferFacts
          <5> HIDE DEF n
          <5> QED BY SMTT(30), <5>2, <5>5, <5>7, Constants
        <4> QED BY <4>3, <4>4
      <3>3. mutex \in Threads \cup {NoThread}
        BY <2>1 DEF Types
      <3> QED BY <3>1, <3>2, <3>3
    <2>3. DOMAIN mcu.flash = Addresses
      BY <2>1 DEF Types, Mcus, Flashes
    <2>4. TypeOK
      BY <2>1, <2>2, <2>3 DEF Types, TypeOK
    <2>5. ASSUME NEW t \in Threads, mutex = t, call[t].op # "flash_erase",
                 NEW a \in Addresses, mcu.flash[a] # before[a]
          PROVE  call[t].op = "flash_write" /\ a \in Cells(call[t])
      BY <2>1, <2>5 DEF RunInv, RunOK
    <2> QED BY <2>4, <2>5 DEF OnlyTargetChanges
  <1> QED BY <1>1, PortInvariance, PTL

\* c2port_store_access drives C2CK exactly while it leaves access on, in every
\* registered port.
THEOREM LinesOfAccess == Spec => []LinesReleased
  <1>1. PortInv => LinesReleased
    BY DEF PortInv, OwnerInv, LinesReleased
  <1> QED BY <1>1, PortInvariance, PTL

=============================================================================
