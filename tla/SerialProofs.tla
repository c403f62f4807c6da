---------------------------- MODULE SerialProofs ----------------------------
(***************************************************************************)
(* Two serial buses.                                                       *)
(*                                                                         *)
(* SpiApb, for transfers and pieces of any length: success is real, and a  *)
(* failed write has stored a first part.  C2Wire, for registers of any     *)
(* width, any timeout and any answer time of the microcontroller: frames,  *)
(* values and the time to give up.                                         *)
(***************************************************************************)
EXTENDS SpiApb, C2Wire, TLAPS

\* Most leaves take no arithmetic: Zenon is tried unless a leaf names another prover.
USE ZenonT(30)

SpiCallSet ==
    [at : {"idle", "send", "query", "done"}, op : {"none", "write", "read"},
     len : 0 .. MaxLen, pos : 0 .. MaxLen, try : 0 .. Tries,
     lost : SUBSET (0 .. MaxLen), state : Codes,
     buf : [SpiWords -> {Unset, NoState} \cup SpiWords], ret : {0, 1}]

Memory == [SpiWords -> {Unset} \cup SpiWords]

\* A call between its pieces: the state a piece starts with, or that of a
\* failed attempt, is not the good one.
Progress(k) ==
    /\ k.pos <= k.len /\ k.lost \subseteq 0 .. k.pos
    /\ k.at = "idle" => k.op = "none"
    /\ k.at # "idle" => k.op # "none" /\ k.len \in SpiWords
    /\ k.at \in {"send", "query"} => k.pos < k.len /\ k.ret = 0 /\ k.state # 0
    /\ k.at = "done" /\ k.ret = 0 => k.pos = k.len

\* What a write has stored: the pieces before this one; this one too if its
\* last message was sent and the slave's state is good.
Stored(k, m, o) ==
    /\ k.op # "write" => \A w \in SpiWords : m[w] = Unset
    /\ k.op = "write" =>
         \A w \in SpiWords : /\ w <= k.pos /\ k.lost \subseteq {k.pos} => m[w] = w
                             /\ w > k.pos + OpWords => m[w] = Unset
    /\ k.op = "write" /\ k.at = "query" /\ k.pos \notin k.lost /\ o = 0 =>
         \A w \in Piece(k) : m[w] = w

\* What a read, which is one piece, has brought.
Brought(k, m, o) ==
    /\ k.op = "read" => k.len <= OpWords
    /\ k.op = "read" /\ k.at \in {"send", "query"} => k.pos = 0
    /\ k.op = "read" /\ k.at = "query" /\ k.pos \notin k.lost /\ o = 0 =>
         \A w \in 1 .. k.len : k.buf[w] = m[w]
    /\ k.op = "read" /\ k.at = "done" /\ k.ret = 0 /\ k.lost = {} =>
         \A w \in 1 .. k.len : k.buf[w] = m[w]

CallOK(k, m, o) ==
    /\ k \in SpiCallSet /\ m \in Memory /\ o \in {0, Error}
    /\ Progress(k) /\ Stored(k, m, o) /\ Brought(k, m, o)

\* The piece and where it ends.
LEMMA PieceEnds ==
    ASSUME SpiAssumption, NEW k, k.pos \in Nat, k.len \in Nat, k.pos < k.len
    PROVE  LET next == k.pos + Least(k.len - k.pos, OpWords)
           IN  /\ next \in Nat /\ k.pos < next /\ next <= k.len
               /\ next <= k.pos + OpWords
               /\ k.len <= k.pos + OpWords => next = k.len
               /\ Piece(k) = (k.pos + 1) .. next
  BY SMTT(30) DEF Least, Piece, SpiAssumption

LEMMA NoCallType == ASSUME SpiAssumption PROVE NoSpiCall \in SpiCallSet
  <1>1. [w \in SpiWords |-> NoState]
           \in [SpiWords -> {Unset, NoState} \cup SpiWords]
    OBVIOUS
  <1>2. NoState \in Codes /\ 0 \in 0 .. Tries /\ {} \in SUBSET (0 .. MaxLen)
    BY SMTT(30) DEF Codes, Tries
  <1>3. 0 \in 0 .. MaxLen
    BY SMTT(30) DEF SpiAssumption
  <1> QED BY <1>1, <1>2, <1>3 DEF NoSpiCall, SpiCallSet

\* No call: before the first and after each.
LEMMA IdleOK ==
    ASSUME SpiAssumption, NEW o \in {0, Error}
    PROVE  CallOK(NoSpiCall, [w \in SpiWords |-> Unset], o)
  <1>1. /\ NoSpiCall.at = "idle" /\ NoSpiCall.op = "none" /\ NoSpiCall.len = 0
        /\ NoSpiCall.pos = 0 /\ NoSpiCall.lost = {}
    BY DEF NoSpiCall
  <1>2. [w \in SpiWords |-> Unset] \in Memory
    BY DEF Memory
  <1>3. Progress(NoSpiCall)
    BY SMTT(30), <1>1 DEF Progress
  <1>4. Stored(NoSpiCall, [w \in SpiWords |-> Unset], o)
    BY <1>1 DEF Stored
  <1>5. Brought(NoSpiCall, [w \in SpiWords |-> Unset], o)
    BY <1>1 DEF Brought
  <1> QED BY <1>2, <1>3, <1>4, <1>5, NoCallType DEF CallOK

\* A call that starts.
LEMMA StartOK ==
    ASSUME SpiAssumption, NEW m \in Memory, NEW o \in {0, Error},
           \A w \in SpiWords : m[w] = Unset,
           NEW n \in SpiWords, NEW a \in {"write", "read"},
           a = "read" => n <= OpWords
    PROVE  CallOK([NoSpiCall EXCEPT !.at = "send", !.op = a, !.len = n], m, o)
  <1> DEFINE k == [NoSpiCall EXCEPT !.at = "send", !.op = a, !.len = n]
  <1>1. /\ k.at = "send" /\ k.op = a /\ k.len = n /\ k.pos = 0 /\ k.try = 0
        /\ k.lost = {} /\ k.state = NoState /\ k.ret = 0
        /\ k.buf = [w \in SpiWords |-> NoState]
    BY DEF NoSpiCall
  <1>2. n \in 0 .. MaxLen /\ 0 < n /\ MaxLen \in Nat
    BY SMTT(30) DEF SpiWords, SpiAssumption
  <1>3. k \in SpiCallSet
    BY <1>2, NoCallType DEF SpiCallSet
  <1> HIDE DEF k
  <1>5. Progress(k)
    BY SMTT(30), <1>1, <1>2 DEF Progress, NoState
  <1>6. Stored(k, m, o)
    <2>1. \A w \in SpiWords : ~(w <= 0)
      BY SMTT(30) DEF SpiWords
    <2> QED BY <1>1, <2>1 DEF Stored
  <1>7. Brought(k, m, o)
    BY <1>1 DEF Brought
  <1>8. CallOK(k, m, o)
    BY <1>3, <1>5, <1>6, <1>7 DEF CallOK
  <1> QED BY <1>8 DEF k

\* The call after a message, sent or not: l are the pieces whose last message
\* was not sent, b what the call has read.
Asking(k, l, b) ==
    [at |-> "query", op |-> k.op, len |-> k.len, pos |-> k.pos, state |-> k.state,
     try |-> k.try, ret |-> k.ret, lost |-> l, buf |-> b]

LEMMA AfterIs ==
    ASSUME NEW k \in SpiCallSet, NEW b
    PROVE  /\ Sent(k) = Asking(k, k.lost \ {k.pos}, k.buf)
           /\ NotSent(k) = Asking(k, k.lost \cup {k.pos}, k.buf)
           /\ [Sent(k) EXCEPT !.buf = b] = Asking(k, k.lost \ {k.pos}, b)
  <1>1. /\ k = [at |-> k.at, op |-> k.op, len |-> k.len, pos |-> k.pos,
                try |-> k.try, lost |-> k.lost, state |-> k.state,
                buf |-> k.buf, ret |-> k.ret]
        /\ DOMAIN k = {"at", "op", "len", "pos", "try", "lost", "state", "buf", "ret"}
    BY DEF SpiCallSet
  <1>2. ASSUME NEW l
        PROVE  [k EXCEPT !.at = "query", !.lost = l] = Asking(k, l, k.buf)
    <2> DEFINE e == [k EXCEPT !.at = "query", !.lost = l]
    <2>1. /\ e = [f \in DOMAIN k |-> e[f]]
          /\ DOMAIN e = DOMAIN k
          /\ e["at"] = "query" /\ e["lost"] = l
          /\ \A f \in DOMAIN k \ {"at", "lost"} : e[f] = k[f]
      BY <1>1
    <2> HIDE DEF e
    <2>2. e = Asking(k, l, k.buf)
      BY <1>1, <2>1 DEF Asking
    <2> QED BY <2>2 DEF e
  <1>3. /\ Sent(k) = [k EXCEPT !.at = "query", !.lost = k.lost \ {k.pos}]
        /\ NotSent(k) = [k EXCEPT !.at = "query", !.lost = k.lost \cup {k.pos}]
    BY <1>1 DEF Sent, NotSent
  <1>4. /\ Sent(k) = Asking(k, k.lost \ {k.pos}, k.buf)
        /\ NotSent(k) = Asking(k, k.lost \cup {k.pos}, k.buf)
    BY <1>2, <1>3
  <1>5. [Sent(k) EXCEPT !.buf = b] = Asking(k, k.lost \ {k.pos}, b)
    BY SMTT(30), <1>4 DEF Asking
  <1> QED BY <1>4, <1>5

\* What a message may do to the words m and to the words the call has read:
\* the piece is done if the message was sent and the state o is good.
Effect(k, m, l, b, m2, o) ==
    /\ l \in {k.lost \cup {k.pos}, k.lost \ {k.pos}}
    /\ b \in [SpiWords -> {Unset, NoState} \cup SpiWords]
    /\ m2 \in Memory /\ o \in {0, Error}
    /\ \A w \in SpiWords \ Piece(k) : m2[w] = m[w]
    /\ k.op # "write" => m2 = m
    /\ k.pos \notin l /\ o = 0 =>
          \A w \in Piece(k) : /\ k.op = "write" => m2[w] = w
                              /\ k.op = "read" => b[w] = m[w]

LEMMA MessageOK ==
    ASSUME SpiAssumption, NEW k, NEW m, NEW o, CallOK(k, m, o), k.at = "send",
           NEW l, NEW b, NEW m2, NEW o2, Effect(k, m, l, b, m2, o2)
    PROVE  CallOK(Asking(k, l, b), m2, o2)
  <1> USE DEF Effect
  <1> DEFINE q == Asking(k, l, b)
  <1>1. k \in SpiCallSet /\ Progress(k) /\ Stored(k, m, o) /\ Brought(k, m, o)
    BY DEF CallOK
  <1>2. /\ k.pos \in 0 .. MaxLen /\ k.len \in SpiWords /\ k.pos < k.len
        /\ k.lost \subseteq 0 .. MaxLen
    BY <1>1 DEF SpiCallSet, Progress
  <1>3. k.pos \in Nat /\ k.len \in Nat /\ OpWords \in Nat
    BY SMTT(30), <1>2 DEF SpiWords, SpiAssumption
  <1>4. l \in SUBSET (0 .. MaxLen)
    BY <1>2
  <1>5. /\ q \in SpiCallSet
        /\ q.at = "query" /\ q.op = k.op /\ q.len = k.len
        /\ q.pos = k.pos /\ q.state = k.state /\ q.ret = k.ret
        /\ q.lost = l /\ q.buf = b
    <2> HIDE DEF Effect
    <2>1. b \in [SpiWords -> {Unset, NoState} \cup SpiWords]
      BY DEF Effect
    <2> QED BY <1>1, <1>4, <2>1 DEF SpiCallSet, Asking
  <1> HIDE DEF q
  <1>6. Piece(q) = Piece(k)
    BY <1>5 DEF Piece
  <1>7. \A w \in Piece(k) : k.pos < w /\ w <= k.pos + OpWords
    BY SMTT(30), <1>2, <1>3, PieceEnds
  <1>9. Progress(q)
    <2>1. l \subseteq 0 .. k.pos
      BY SMTT(30), <1>1, <1>3 DEF Progress
    <2> QED BY <1>1, <1>5, <2>1 DEF Progress
  <1>10. Stored(q, m2, o2)
    <2>1. CASE k.op # "write"
      BY <1>1, <1>5, <2>1 DEF Stored
    <2>2. CASE k.op = "write"
      <3>1. ASSUME NEW w \in SpiWords, w <= k.pos, l \subseteq {k.pos}
            PROVE  m2[w] = w
        <4>1. w \notin Piece(k)
          BY SMTT(30), <1>2, <1>3, <1>7, <3>1 DEF SpiWords
        <4>2. k.lost \subseteq {k.pos}
          BY <3>1
        <4>3. m[w] = w
          BY <1>1, <2>2, <3>1, <4>2 DEF Stored
        <4> QED BY <4>1, <4>3
      <3>2. ASSUME NEW w \in SpiWords, w > k.pos + OpWords
            PROVE  m2[w] = Unset
        <4>1. w \notin Piece(k)
          BY SMTT(30), <1>2, <1>3, <1>7, <3>2 DEF SpiWords
        <4>2. m[w] = Unset
          BY <1>1, <2>2, <3>2 DEF Stored
        <4> QED BY <4>1, <4>2
      <3>3. k.pos \notin l /\ o2 = 0 => \A w \in Piece(k) : m2[w] = w
        BY <2>2
      <3> QED BY <1>5, <1>6, <2>2, <3>1, <3>2, <3>3 DEF Stored
    <2> QED BY <2>1, <2>2
  <1>11. Brought(q, m2, o2)
    <2>1. CASE k.op # "read"
      BY <1>5, <2>1 DEF Brought
    <2>2. CASE k.op = "read"
      <3>1. k.len <= OpWords /\ k.pos = 0
        BY <1>1, <2>2 DEF Brought
      <3>2. Piece(k) = 1 .. k.len
        BY SMTT(30), <1>2, <1>3, <3>1, PieceEnds
      <3>3. k.pos \notin l /\ o2 = 0 => \A w \in 1 .. k.len : b[w] = m2[w]
        BY <2>2, <3>2
      <3> QED BY <1>5, <3>1, <3>3, <2>2 DEF Brought
    <2> QED BY <2>1, <2>2
  <1>12. CallOK(q, m2, o2)
    BY <1>5, <1>9, <1>10, <1>11 DEF CallOK
  <1> QED BY <1>12 DEF q

\* The state the query left and the test of it: one piece more is done only
\* when the state is good, and it is good only if the slave gave it.
LEMMA JudgeOK ==
    ASSUME SpiAssumption, NEW k, NEW m, NEW o, CallOK(k, m, o), k.at = "query",
           NEW s \in {o, k.state, NoState}
    PROVE  CallOK(Judge([k EXCEPT !.state = s]), m, o)
  <1> DEFINE q == [k EXCEPT !.state = s]
             next == k.pos + Least(k.len - k.pos, OpWords)
  <1>1. /\ k \in SpiCallSet /\ Progress(k) /\ Stored(k, m, o) /\ Brought(k, m, o)
        /\ m \in Memory /\ o \in {0, Error}
    BY DEF CallOK
  <1>2. /\ k.pos \in 0 .. MaxLen /\ k.len \in SpiWords /\ k.pos < k.len
        /\ k.lost \subseteq 0 .. k.pos /\ k.ret = 0 /\ k.state # 0
        /\ k.op \in {"write", "read"} /\ k.try \in 0 .. Tries /\ k.state \in Codes
    BY <1>1 DEF SpiCallSet, Progress
  <1>3. k.pos \in Nat /\ k.len \in Nat /\ OpWords \in Nat /\ MaxLen \in Nat
        /\ k.len \in 0 .. MaxLen
    BY SMTT(30), <1>2 DEF SpiWords, SpiAssumption
  <1>4. s \in Codes /\ (s = 0 => o = 0)
    BY SMTT(30), <1>1, <1>2 DEF Codes, NoState
  <1>5. /\ next \in Nat /\ k.pos < next /\ next <= k.len
        /\ next <= k.pos + OpWords
        /\ k.len <= k.pos + OpWords => next = k.len
        /\ Piece(k) = (k.pos + 1) .. next
    BY <1>2, <1>3, PieceEnds
  <1>6. /\ q \in SpiCallSet /\ q.state = s /\ q.try = k.try /\ q.pos = k.pos
        /\ q.len = k.len
    BY <1>1, <1>4 DEF SpiCallSet
  <1> HIDE DEF next
  <1>7. CASE s # 0 /\ (s = NoState \/ k.try = Tries)
    <2> DEFINE j == [k EXCEPT !.state = s, !.at = "done", !.ret = 1]
    <2>1. Judge(q) = j
      BY <1>6, <1>7 DEF Judge, EndPiece
    <2>2. /\ j \in SpiCallSet /\ j.at = "done" /\ j.ret = 1 /\ j.op = k.op
          /\ j.len = k.len /\ j.pos = k.pos /\ j.lost = k.lost /\ j.buf = k.buf
      BY <1>1, <1>4 DEF SpiCallSet
    <2> HIDE DEF j
    <2>3. Progress(j)
      BY SMTT(30), <1>2, <1>1, <2>2 DEF Progress
    <2>4. Stored(j, m, o)
      BY <1>1, <2>2 DEF Stored
    <2>5. Brought(j, m, o)
      BY SMTT(30), <1>1, <2>2 DEF Brought
    <2> QED BY <1>1, <2>1, <2>2, <2>3, <2>4, <2>5 DEF CallOK
  <1>8. CASE s # 0 /\ s # NoState /\ k.try # Tries
    <2> DEFINE j == [k EXCEPT !.state = s, !.at = "send", !.try = k.try + 1]
    <2>1. Judge(q) = j
      BY <1>6, <1>8 DEF Judge
    <2>2. k.try + 1 \in 0 .. Tries
      BY SMTT(30), <1>2, <1>8 DEF Tries
    <2>3. /\ j \in SpiCallSet /\ j.at = "send" /\ j.ret = k.ret /\ j.op = k.op
          /\ j.len = k.len /\ j.pos = k.pos /\ j.lost = k.lost /\ j.buf = k.buf
          /\ j.state = s
      BY <1>1, <1>4, <2>2 DEF SpiCallSet
    <2> HIDE DEF j
    <2>4. Progress(j)
      BY <1>1, <1>2, <1>8, <2>3 DEF Progress
    <2>5. Stored(j, m, o)
      BY <1>1, <2>3 DEF Stored
    <2>6. Brought(j, m, o)
      BY <1>1, <2>3 DEF Brought
    <2> QED BY <1>1, <2>1, <2>3, <2>4, <2>5, <2>6 DEF CallOK
  <1>9. CASE s = 0
    <2>1. o = 0
      BY <1>4, <1>9
    \* What the pieces up to `next' have become.
    <2>2. ASSUME k.op = "write", NEW w \in SpiWords
          PROVE  /\ w <= next /\ k.lost \subseteq {next} => m[w] = w
                 /\ w > next + OpWords => m[w] = Unset
      <3>1. k.lost \subseteq {next} => k.lost = {}
        BY SMTT(30), <1>2, <1>3, <1>5
      <3>2. w <= k.pos /\ k.lost = {} => m[w] = w
        BY <1>1, <2>2 DEF Stored
      <3>3. k.lost = {} /\ w \in Piece(k) => m[w] = w
        BY <1>1, <2>1, <2>2 DEF Stored
      <3>4. w > k.pos + OpWords => m[w] = Unset
        BY <1>1, <2>2 DEF Stored
      <3>5. w \in Nat
        BY SMTT(30) DEF SpiWords
      <3> QED BY SMTT(30), <1>3, <1>5, <3>1, <3>2, <3>3, <3>4, <3>5
    <2>3. k.lost \subseteq 0 .. next
      BY SMTT(30), <1>2, <1>3, <1>5
    <2>4. next \in 0 .. MaxLen
      BY SMTT(30), <1>3, <1>5
    <2>5. CASE next < k.len
      <3> DEFINE j == [k EXCEPT !.at = "send", !.pos = next, !.try = 0,
                                !.state = NoState]
      <3>1. Judge(q) = j
        <4>1. Judge(q) = [q EXCEPT !.at = "send", !.pos = next, !.try = 0,
                                   !.state = NoState]
          BY <1>6, <1>9, <2>5 DEF Judge, EndPiece, next
        <4> QED BY <1>1, <4>1 DEF SpiCallSet
      <3>2. /\ j \in SpiCallSet /\ j.at = "send" /\ j.ret = k.ret
            /\ j.op = k.op /\ j.len = k.len /\ j.pos = next
            /\ j.lost = k.lost /\ j.buf = k.buf /\ j.state = NoState
        <4>1. NoState \in Codes /\ 0 \in 0 .. Tries
          BY SMTT(30) DEF Codes, Tries
        <4> QED BY <1>1, <2>4, <4>1 DEF SpiCallSet
      <3> HIDE DEF j
      <3>3. Progress(j)
        <4>1. NoState # 0 /\ next <= k.len
          BY SMTT(30), <1>5 DEF NoState
        <4>2. k.len \in SpiWords /\ k.ret = 0 /\ k.op \in {"write", "read"}
          BY <1>2
        <4> QED BY <2>3, <2>5, <3>2, <4>1, <4>2 DEF Progress
      <3>4. Stored(j, m, o)
        BY <1>1, <2>2, <3>2 DEF Stored
      <3>5. Brought(j, m, o)
        <4>1. k.op = "read" => ~(next < k.len)
          BY SMTT(30), <1>1, <1>3, <1>5 DEF Brought
        <4> QED BY <2>5, <3>2, <4>1 DEF Brought
      <3> QED BY <1>1, <3>1, <3>2, <3>3, <3>4, <3>5 DEF CallOK
    <2>6. CASE ~(next < k.len)
      <3> DEFINE j == [k EXCEPT !.state = s, !.at = "done", !.pos = next]
      <3>1. Judge(q) = j
        BY <1>6, <1>9, <2>6 DEF Judge, EndPiece, next
      <3>2. /\ j \in SpiCallSet /\ j.at = "done" /\ j.ret = k.ret
            /\ j.op = k.op /\ j.len = k.len /\ j.pos = next
            /\ j.lost = k.lost /\ j.buf = k.buf
        BY <1>1, <1>4, <2>4 DEF SpiCallSet
      <3>3. next = k.len
        BY SMTT(30), <1>3, <1>5, <2>6
      <3> HIDE DEF j
      <3>4. Progress(j)
        <4>1. k.len \in SpiWords /\ k.ret = 0 /\ k.op \in {"write", "read"}
          BY <1>2
        <4>2. next <= k.len
          BY <1>5
        <4> QED BY <2>3, <3>2, <3>3, <4>1, <4>2 DEF Progress
      <3>5. Stored(j, m, o)
        BY <1>1, <2>2, <3>2 DEF Stored
      <3>6. Brought(j, m, o)
        <4>1. k.op = "read" /\ k.lost = {} =>
                \A w \in 1 .. k.len : k.buf[w] = m[w]
          BY <1>1, <2>1 DEF Brought
        <4>2. k.op = "read" => k.len <= OpWords
          BY <1>1 DEF Brought
        <4> QED BY <3>2, <4>1, <4>2 DEF Brought
      <3> QED BY <1>1, <3>1, <3>2, <3>4, <3>5, <3>6 DEF CallOK
    <2> QED BY <2>5, <2>6
  <1> QED BY <1>7, <1>8, <1>9 DEF q

\* One thread in the library at a time, which test_spi's use of it shows.
OneCaller == \A c, d \in SpiCallers : c = d

SpiInv ==
    /\ opState \in {0, Error}
    /\ calls \in [SpiCallers -> SpiCallSet] /\ mem \in [SpiCallers -> Memory]
    /\ \A c \in SpiCallers : CallOK(calls[c], mem[c], opState)

\* A step of the one caller, by what it makes of its call.
LEMMA CallerStep ==
    ASSUME OneCaller, SpiInv, NEW c \in SpiCallers, NEW k, NEW m,
           calls' = [calls EXCEPT ![c] = k], mem' = [mem EXCEPT ![c] = m],
           opState' \in {0, Error}, CallOK(k, m, opState')
    PROVE  SpiInv'
  <1>1. k \in SpiCallSet /\ m \in Memory
    BY DEF CallOK
  <1>2. calls' \in [SpiCallers -> SpiCallSet] /\ mem' \in [SpiCallers -> Memory]
    BY <1>1 DEF SpiInv
  <1>3. calls'[c] = k /\ mem'[c] = m
    BY DEF SpiInv
  <1>4. \A d \in SpiCallers : d = c
    BY DEF OneCaller
  <1>5. \A d \in SpiCallers : CallOK(calls'[d], mem'[d], opState')
    BY <1>3, <1>4
  <1> QED BY <1>2, <1>5 DEF SpiInv, CallOK, Progress, Stored, Brought, Piece

LEMMA SpiInvariance ==
    ASSUME SpiAssumption, OneCaller, SpiInv, [SpiNext]_spiVars
    PROVE  SpiInv'
  <1>1. CASE UNCHANGED spiVars
    <2>1. calls' = calls /\ mem' = mem /\ opState' = opState
      BY <1>1 DEF spiVars
    <2>2. \A c \in SpiCallers : CallOK(calls'[c], mem'[c], opState')
      BY <2>1 DEF SpiInv
    <2> QED BY <2>1, <2>2
            DEF SpiInv, CallOK, Progress, Stored, Brought, Piece
  <1>2. CASE SpiNext
    <2>1. PICK c \in SpiCallers :
            safe_write(c) \/ safe_read(c) \/ SpiStep(c) \/ SpiReturn(c)
      BY <1>2 DEF SpiNext
    <2> DEFINE k == calls[c]
               m == mem[c]
    <2>2. /\ CallOK(k, m, opState) /\ k \in SpiCallSet /\ m \in Memory
          /\ Progress(k) /\ Stored(k, m, opState) /\ opState \in {0, Error}
      BY DEF SpiInv, CallOK
    <2>3. mem = [mem EXCEPT ![c] = m]
      BY DEF SpiInv
    <2>4. CASE safe_write(c) \/ safe_read(c)
      <3>1. \A w \in SpiWords : m[w] = Unset
        BY <2>2, <2>4 DEF Progress, Stored, safe_write, safe_read
      <3>2. PICK a \in {"write", "read"}, n \in SpiWords :
              /\ a = "read" => n <= OpWords
              /\ calls' = [calls EXCEPT ![c] =
                    [NoSpiCall EXCEPT !.at = "send", !.op = a, !.len = n]]
        <4>1. CASE safe_write(c)
          BY <4>1 DEF safe_write
        <4>2. CASE safe_read(c)
          <5>1. PICK n \in 1 .. Least(MaxLen, OpWords) :
                  calls' = [calls EXCEPT ![c] =
                    [NoSpiCall EXCEPT !.at = "send", !.op = "read", !.len = n]]
            BY <4>2 DEF safe_read
          <5>2. n \in SpiWords /\ n <= OpWords
            BY SMTT(30) DEF Least, SpiWords, SpiAssumption
          <5> QED BY <5>1, <5>2
        <4> QED BY <2>4, <4>1, <4>2
      <3>3. opState' = opState /\ mem' = [mem EXCEPT ![c] = m]
        BY <2>3, <2>4 DEF safe_write, safe_read
      <3>4. CallOK([NoSpiCall EXCEPT !.at = "send", !.op = a, !.len = n],
                   m, opState)
        BY <2>2, <3>1, <3>2, StartOK
      <3> QED BY <2>2, <3>2, <3>3, <3>4, CallerStep
    <2>5. CASE SpiReturn(c)
      <3>1. CallOK(NoSpiCall, [w \in SpiWords |-> Unset], opState')
        BY <2>2, <2>5, IdleOK DEF SpiReturn
      <3> QED BY <2>2, <2>5, <3>1, CallerStep DEF SpiReturn
    <2>6. CASE operation_query(c)
      <3>1. PICK s \in {opState, k.state, NoState} :
              calls' = [calls EXCEPT ![c] = Judge([k EXCEPT !.state = s])]
        BY <2>6 DEF operation_query
      <3>2. opState' = opState /\ mem' = [mem EXCEPT ![c] = m]
        BY <2>3, <2>6 DEF operation_query
      <3>3. k.at = "query"
        BY <2>6 DEF operation_query
      <3>4. CallOK(Judge([k EXCEPT !.state = s]), m, opState)
        BY <2>2, <3>3, JudgeOK
      <3> QED BY <2>2, <3>1, <3>2, <3>4, CallerStep
    \* The outcomes of a message: done, done with an error, not sent.
    <2>7. k.buf \in [SpiWords -> {Unset, NoState} \cup SpiWords]
      BY <2>2 DEF SpiCallSet
    <2>8. /\ Sent(k) = Asking(k, k.lost \ {k.pos}, k.buf)
          /\ NotSent(k) = Asking(k, k.lost \cup {k.pos}, k.buf)
      <3> HIDE DEF k
      <3> QED BY <2>2, AfterIs
    <2>9. ASSUME NEW l, NEW b, NEW m2, k.at = "send",
                 Effect(k, m, l, b, m2, opState'),
                 calls' = [calls EXCEPT ![c] = Asking(k, l, b)],
                 mem' = [mem EXCEPT ![c] = m2]
          PROVE  SpiInv'
      <3>1. CallOK(Asking(k, l, b), m2, opState')
        <4> HIDE DEF k, m
        <4> QED BY <2>2, <2>9, MessageOK
      <3>2. opState' \in {0, Error}
        BY <2>9 DEF Effect
      <3> QED BY <2>9, <3>1, <3>2, CallerStep
    <2>10. k.at = "send" => Piece(k) \subseteq SpiWords
      <3>1. ASSUME k.at = "send"
            PROVE  /\ k.pos \in Nat /\ k.len \in Nat /\ k.pos < k.len
                   /\ k.len <= MaxLen /\ MaxLen \in Nat
        BY SMTT(30), <2>2, <3>1 DEF SpiCallSet, Progress, SpiWords, SpiAssumption
      <3>2. k.at = "send" => LET next == k.pos + Least(k.len - k.pos, OpWords)
               IN next \in Nat /\ next <= k.len /\ Piece(k) = (k.pos + 1) .. next
        BY <3>1, PieceEnds
      <3> QED BY SMTT(30), <3>1, <3>2 DEF SpiWords
    <2>11. CASE write(c)
      <3>1. k.at = "send" /\ k.op = "write"
        BY <2>11 DEF write
      <3>2. CASE /\ calls' = [calls EXCEPT ![c] = NotSent(@)]
                 /\ UNCHANGED <<opState, mem>>
        <4>1. Effect(k, m, k.lost \cup {k.pos}, k.buf, m, opState')
          BY <2>2, <2>7, <3>2 DEF Effect
        <4>2. calls' = [calls EXCEPT ![c] = Asking(k, k.lost \cup {k.pos}, k.buf)]
          BY <2>8, <3>2
        <4> QED BY <2>3, <2>9, <3>1, <3>2, <4>1, <4>2
      <3>3. CASE calls' = [calls EXCEPT ![c] = Sent(@)]
        <4>1. calls' = [calls EXCEPT ![c] = Asking(k, k.lost \ {k.pos}, k.buf)]
          BY <2>8, <3>3
        <4>2. CASE /\ opState' = 0
                   /\ mem' = [mem EXCEPT ![c] = [w \in SpiWords |->
                                IF w \in Piece(k) THEN w ELSE @[w]]]
          <5> DEFINE m2 == [w \in SpiWords |-> IF w \in Piece(k) THEN w ELSE m[w]]
          <5>1. m2 \in Memory
            BY <2>2 DEF Memory
          <5>2. /\ \A w \in SpiWords \ Piece(k) : m2[w] = m[w]
                /\ \A w \in Piece(k) : m2[w] = w
            BY <2>10, <3>1
          <5>3. mem' = [mem EXCEPT ![c] = m2]
            BY <4>2
          <5> HIDE DEF m2
          <5>4. Effect(k, m, k.lost \ {k.pos}, k.buf, m2, opState')
            BY <2>7, <3>1, <4>2, <5>1, <5>2 DEF Effect
          <5> QED BY <2>9, <3>1, <4>1, <5>3, <5>4
        <4>3. ASSUME NEW n, opState' = Error,
                     mem' = [mem EXCEPT ![c] = [w \in SpiWords |->
                       IF w \in Piece(k) /\ w <= k.pos + n THEN w ELSE @[w]]]
              PROVE  SpiInv'
          <5> DEFINE m2 == [w \in SpiWords |->
                       IF w \in Piece(k) /\ w <= k.pos + n THEN w ELSE m[w]]
          <5>1. m2 \in Memory
            BY <2>2 DEF Memory
          <5>2. \A w \in SpiWords \ Piece(k) : m2[w] = m[w]
            OBVIOUS
          <5>3. mem' = [mem EXCEPT ![c] = m2]
            BY <4>3
          <5> HIDE DEF m2
          <5>4. Effect(k, m, k.lost \ {k.pos}, k.buf, m2, opState')
            BY SMTT(30), <2>7, <3>1, <4>3, <5>1, <5>2 DEF Effect, Error
          <5> QED BY <2>9, <3>1, <4>1, <5>3, <5>4
        <4> QED BY <2>11, <3>2, <4>2, <4>3 DEF write
      <3> QED BY <2>11, <3>2, <3>3 DEF write
    <2>12. CASE read(c)
      <3>1. k.at = "send" /\ k.op = "read" /\ mem' = [mem EXCEPT ![c] = m]
        BY <2>3, <2>12 DEF read
      <3>2. CASE /\ calls' = [calls EXCEPT ![c] = NotSent(@)]
                 /\ UNCHANGED opState
        <4>1. Effect(k, m, k.lost \cup {k.pos}, k.buf, m, opState')
          BY <2>2, <2>7, <3>2 DEF Effect
        <4>2. calls' = [calls EXCEPT ![c] = Asking(k, k.lost \cup {k.pos}, k.buf)]
          BY <2>8, <3>2
        <4> QED BY <2>9, <3>1, <4>1, <4>2
      <3>3. ASSUME NEW b \in [SpiWords -> {Unset, NoState} \cup SpiWords],
                   opState' \in {0, Error},
                   opState' = 0 => \A w \in Piece(k) : b[w] = m[w],
                   calls' = [calls EXCEPT ![c] = [Sent(k) EXCEPT !.buf = b]]
            PROVE  SpiInv'
        <4>1. [Sent(k) EXCEPT !.buf = b] = Asking(k, k.lost \ {k.pos}, b)
          <5> HIDE DEF k
          <5> QED BY <2>2, AfterIs
        <4>2. Effect(k, m, k.lost \ {k.pos}, b, m, opState')
          BY <2>2, <3>1, <3>3 DEF Effect
        <4> QED BY <2>9, <3>1, <3>3, <4>1, <4>2
      <3>4. CASE /\ opState' = Error
                 /\ calls' = [calls EXCEPT ![c] = [Sent(calls[c]) EXCEPT !.buf =
                                [w \in SpiWords |-> NoState]]]
        <4> DEFINE b == [w \in SpiWords |-> NoState]
        <4>1. b \in [SpiWords -> {Unset, NoState} \cup SpiWords]
          OBVIOUS
        <4>2. calls' = [calls EXCEPT ![c] = [Sent(k) EXCEPT !.buf = b]]
          BY <3>4
        <4>3. opState' \in {0, Error} /\ opState' # 0
          BY SMTT(30), <3>4 DEF Error
        <4> HIDE DEF b
        <4> QED BY <3>3, <4>1, <4>2, <4>3
      <3>5. CASE /\ opState' = 0
                 /\ calls' = [calls EXCEPT ![c] = [Sent(calls[c]) EXCEPT !.buf =
                          [w \in SpiWords |-> IF w \in Piece(calls[c])
                                THEN mem[c][w] ELSE calls[c].buf[w]]]]
        <4> DEFINE b == [w \in SpiWords |->
                           IF w \in Piece(k) THEN m[w] ELSE k.buf[w]]
        <4>1. b \in [SpiWords -> {Unset, NoState} \cup SpiWords]
          BY <2>2, <2>7 DEF Memory
        <4>2. \A w \in Piece(k) : b[w] = m[w]
          BY <2>10, <3>1
        <4>3. calls' = [calls EXCEPT ![c] = [Sent(k) EXCEPT !.buf = b]]
          BY <3>5
        <4> HIDE DEF b
        <4> QED BY <3>3, <3>5, <4>1, <4>2, <4>3
      <3> QED BY <2>12, <3>2, <3>4, <3>5 DEF read
    <2> QED BY <2>1, <2>4, <2>5, <2>6, <2>11, <2>12 DEF SpiStep
  <1> QED BY <1>1, <1>2

\* A safe write or read of the one thread that uses the library returns zero
\* only when its work is done, and a write stores a first part of its data
\* (spi2apb_safe_write, spi2apb_safe_read), whatever the lengths.
THEOREM SpiIsSafe ==
    ASSUME SpiAssumption, OneCaller
    PROVE  SpiSpec => []SpiSafe
  <1>1. SpiInit => SpiInv
    <2> SUFFICES ASSUME SpiInit PROVE SpiInv
      OBVIOUS
    <2>1. opState = 0
      BY DEF SpiInit
    <2>2. \A c \in SpiCallers : CallOK(calls[c], mem[c], opState)
      BY <2>1, IdleOK DEF SpiInit
    <2>3. calls \in [SpiCallers -> SpiCallSet] /\ mem \in [SpiCallers -> Memory]
      BY NoCallType DEF SpiInit, Memory
    <2> QED BY <2>1, <2>2, <2>3 DEF SpiInv
  <1>2. SpiInv /\ [SpiNext]_spiVars => SpiInv'
    BY SpiInvariance
  <1>3. SpiInv => SpiSafe
    <2> SUFFICES ASSUME SpiInv PROVE SpiSafe
      OBVIOUS
    <2>1. \A c \in SpiCallers : CallOK(calls[c], mem[c], opState)
      BY DEF SpiInv
    <2>2. SpiTypeOK
      <3>1. mem \in [SpiCallers -> [SpiWords -> {Unset} \cup SpiWords]]
        BY DEF SpiInv, Memory
      <3>2. ASSUME NEW c \in SpiCallers
            PROVE  /\ calls[c] \in SpiCallSet
                   /\ calls[c].pos \in 0 .. calls[c].len
        <4>1. calls[c] \in SpiCallSet /\ calls[c].pos <= calls[c].len
          BY <2>1 DEF CallOK, Progress
        <4> QED BY SMTT(30), <4>1 DEF SpiCallSet
      <3> QED BY <3>1, <3>2 DEF SpiTypeOK, SpiInv, SpiCallSet
    <2>3. SpiSuccess
      <3> SUFFICES ASSUME NEW c \in SpiCallers, calls[c].at = "done",
                          calls[c].ret = 0, calls[c].lost = {},
                          NEW w \in 1 .. calls[c].len
                   PROVE  /\ calls[c].op = "write" => mem[c][w] = w
                          /\ calls[c].op = "read" => calls[c].buf[w] = mem[c][w]
        BY DEF SpiSuccess
      <3>1. /\ Progress(calls[c]) /\ Stored(calls[c], mem[c], opState)
            /\ Brought(calls[c], mem[c], opState) /\ calls[c] \in SpiCallSet
        BY <2>1 DEF CallOK
      <3>2. calls[c].pos = calls[c].len
        BY <3>1 DEF Progress
      <3>3. w \in SpiWords /\ w <= calls[c].pos
        BY SMTT(30), <3>1, <3>2 DEF SpiCallSet, SpiWords, SpiAssumption
      <3>4. calls[c].op = "write" => mem[c][w] = w
        BY <3>1, <3>3 DEF Stored
      <3>5. calls[c].op = "read" => calls[c].buf[w] = mem[c][w]
        BY <3>1 DEF Brought
      <3> QED BY <3>4, <3>5
    <2>4. FirstPartStored
      BY <2>1 DEF FirstPartStored, CallOK, Stored
    <2> QED BY <2>2, <2>3, <2>4 DEF SpiSafe
  <1> QED BY <1>1, <1>2, <1>3, PTL DEF SpiSpec

-----------------------------------------------------------------------------
Writes == {"write_ar", "write_dr"}
Reads == {"read_ar", "read_dr"}

\* Where the driver is, whatever the microcontroller does: the fields an
\* operation has, and the strobes done in each.
HostInv ==
    /\ op = "none" => field \in {"start", "wait", "stop"}
    /\ field = "start" => i = 0
    /\ field = "ins" => i \in {0, 1}
    /\ field = "length" => i \in {0, 1} /\ op \in WaitOps
    /\ field = "send" => i \in Bits /\ op \in Writes
    /\ field = "recv" => i \in Bits /\ op \in Reads
    /\ field = "wait" /\ op # "none" => i < Timeout /\ op \in WaitOps

\* Where the microcontroller is, whatever the driver does.
DevInv ==
    /\ dev.st \in {"ins", "length"} => dev.n \in {0, 1}
    /\ dev.st = "ins" /\ dev.n = 1 => dev.ins \in {0, 1}
    /\ dev.st \in {"addr_in", "addr_out", "data_in", "data_out"} => dev.n \in Bits

\* The microcontroller is in the field the driver is in, at the same strobe.
Places ==
    /\ op = "none" \/ field = "start" => dev.st = "idle"
    /\ op # "none" =>
          /\ field = "ins" => /\ dev.st = "ins" /\ dev.n = i
                              /\ i = 1 => dev.ins = Ins[op][1]
          /\ field = "length" => /\ dev.st = "length" /\ dev.n = i
                                 /\ dev.ins = IF op = "write_dr" THEN 1 ELSE 0
          /\ field = "send" =>
                /\ dev.st = IF op = "write_ar" THEN "addr_in" ELSE "data_in"
                /\ dev.n = i
          /\ field = "recv" =>
                /\ dev.st = IF op = "read_ar" THEN "addr_out" ELSE "data_out"
                /\ dev.n = i
          /\ field = "wait" =>
                dev.st = IF op = "write_dr" THEN "wait_w" ELSE "wait_r"
          /\ field = "stop" => dev.st = "stop"

\* The register an operation is about.
Reg == IF op \in {"write_ar", "read_ar"} THEN dev.ar ELSE dev.dr

\* n bits of z have been sent: they are the top bits of y, and x has the rest.
Driven(x, y, z, n) ==
    /\ \A k \in Bits : k + n < W => x[k] = z[k + n]
    /\ \A k \in Bits : k < n => y[k + (W - n)] = z[k]

\* n bits of r have been received: they are the top bits of x.
Got(x, r, n) == \A k \in Bits : k < n => x[k + (W - n)] = r[k]

\* What of the register has arrived after i strobes of its field.
Moved ==
    /\ field \in {"start", "ins", "length"} => data = arg
    /\ field = "send" => Driven(data, dev.sh, arg, i)
    /\ field = "recv" => Got(data, Reg, i)
    /\ field \in {"wait", "stop"} /\ op \in Writes => Reg = arg
    /\ field = "stop" /\ op \in Reads => data = Reg

WireInv ==
    /\ TypeOK /\ HostInv /\ DevInv
    /\ ~late => Places
    /\ ~late /\ op # "none" => Moved

-----------------------------------------------------------------------------
(* Shift registers.                                                        *)

LEMMA BitsFacts ==
    /\ 0 \in Bits /\ W - 1 \in Bits
    /\ \A k \in Bits : k \in Nat /\ k < W
    /\ \A k \in Nat : k < W => k \in Bits
    /\ \A k \in Bits : k # W - 1 => k + 1 \in Bits
  BY SMTT(30), C2WireAssumption DEF Bits

LEMMA ShiftType ==
    ASSUME NEW x \in Registers, NEW b \in {0, 1} PROVE Shift(x, b) \in Registers
  BY BitsFacts DEF Shift, Registers

LEMMA ShiftBits ==
    ASSUME NEW x \in Registers, NEW b
    PROVE  /\ Shift(x, b)[W - 1] = b
           /\ \A k \in Bits : k # W - 1 => Shift(x, b)[k] = x[k + 1]
  BY BitsFacts DEF Shift

LEMMA ZeroType == Zero \in Registers
  BY DEF Zero, Registers

LEMMA SameBits ==
    ASSUME NEW x \in Registers, NEW y \in Registers, \A k \in Bits : x[k] = y[k]
    PROVE  x = y
  BY SMTT(30) DEF Registers

\* One bit sent.  After the last one the receiver holds the whole register.
LEMMA SendOn ==
    ASSUME NEW x \in Registers, NEW y \in Registers, NEW z \in Registers,
           NEW n \in Bits, Driven(x, y, z, n)
    PROVE  /\ n # W - 1 => Driven(Shift(x, 0), Shift(y, x[0]), z, n + 1)
           /\ n = W - 1 => Shift(y, x[0]) = z
  <1> DEFINE u == Shift(x, 0)
             v == Shift(y, x[0])
  <1>1. W \in Nat /\ n \in Nat /\ n < W
    BY BitsFacts, C2WireAssumption
  <1>2. x[0] = z[n]
    <2>1. 0 \in Bits /\ 0 + n < W /\ 0 + n = n
      BY SMTT(30), <1>1, BitsFacts
    <2> QED BY <2>1 DEF Driven
  <1>3. /\ v[W - 1] = z[n]
        /\ \A k \in Bits : k # W - 1 => u[k] = x[k + 1] /\ v[k] = y[k + 1]
    BY SMTT(30), <1>2, ShiftBits
  <1>4. u \in Registers /\ v \in Registers
    <2>1. x[0] \in {0, 1}
      BY BitsFacts DEF Registers
    <2> QED BY <2>1, ShiftType
  <1> HIDE DEF u, v
  <1>5. ASSUME n # W - 1 PROVE Driven(u, v, z, n + 1)
    <2>1. ASSUME NEW k \in Bits, k + (n + 1) < W PROVE u[k] = z[k + (n + 1)]
      <3>1. /\ k \in Nat /\ k # W - 1 /\ k + 1 \in Bits
            /\ (k + 1) + n < W /\ (k + 1) + n = k + (n + 1)
        BY SMTT(30), <1>1, <2>1, BitsFacts
      <3>2. x[k + 1] = z[(k + 1) + n]
        BY <3>1 DEF Driven
      <3> QED BY <1>3, <3>1, <3>2
    <2>2. ASSUME NEW k \in Bits, k < n + 1 PROVE v[k + (W - (n + 1))] = z[k]
      <3>1. CASE k = n
        <4>1. k + (W - (n + 1)) = W - 1
          BY SMTT(30), <1>1, <3>1
        <4> QED BY <1>3, <3>1, <4>1
      <3>2. CASE k # n
        <4> DEFINE m == k + (W - (n + 1))
        <4>1. k \in Nat
          BY BitsFacts
        <4>2. k < n /\ m \in Nat /\ m < W - 1 /\ m + 1 = k + (W - n)
          BY SMTT(30), <1>1, <1>5, <2>2, <3>2, <4>1
        <4>3. m \in Bits /\ m # W - 1
          BY SMTT(30), <1>1, <4>2, BitsFacts
        <4> HIDE DEF m
        <4>4. v[m] = y[k + (W - n)]
          BY <1>3, <4>2, <4>3
        <4>5. v[m] = z[k]
          BY <4>2, <4>4 DEF Driven
        <4> QED BY <4>5 DEF m
      <3> QED BY <3>1, <3>2
    <2> QED BY <2>1, <2>2 DEF Driven
  <1>6. ASSUME n = W - 1 PROVE v = z
    <2>1. ASSUME NEW k \in Bits PROVE v[k] = z[k]
      <3>1. CASE k = W - 1
        BY <1>3, <1>6, <3>1
      <3>2. CASE k # W - 1
        <4>1. k < n /\ k + (W - n) = k + 1
          BY SMTT(30), <1>1, <1>6, <3>2, BitsFacts
        <4>2. y[k + (W - n)] = z[k]
          BY <4>1 DEF Driven
        <4> QED BY <1>3, <3>2, <4>1, <4>2
      <3> QED BY <3>1, <3>2
    <2> QED BY <1>4, <2>1, SameBits
  <1> QED BY <1>5, <1>6 DEF u, v

\* One bit received.
LEMMA RecvOn ==
    ASSUME NEW x \in Registers, NEW r \in Registers, NEW n \in Bits, Got(x, r, n)
    PROVE  /\ n # W - 1 => Got(Shift(x, r[n]), r, n + 1)
           /\ n = W - 1 => Shift(x, r[n]) = r
  <1> DEFINE u == Shift(x, r[n])
  <1>1. W \in Nat /\ n \in Nat /\ n < W
    BY BitsFacts, C2WireAssumption
  <1>2. /\ u[W - 1] = r[n]
        /\ \A k \in Bits : k # W - 1 => u[k] = x[k + 1]
    BY SMTT(30), ShiftBits
  <1>3. u \in Registers
    <2>1. r[n] \in {0, 1}
      BY DEF Registers
    <2> QED BY <2>1, ShiftType
  <1> HIDE DEF u
  <1>4. ASSUME n # W - 1 PROVE Got(u, r, n + 1)
    <2>1. ASSUME NEW k \in Bits, k < n + 1 PROVE u[k + (W - (n + 1))] = r[k]
      <3>1. CASE k = n
        <4>1. k + (W - (n + 1)) = W - 1
          BY SMTT(30), <1>1, <3>1
        <4> QED BY <1>2, <3>1, <4>1
      <3>2. CASE k # n
        <4> DEFINE m == k + (W - (n + 1))
        <4>1. k \in Nat
          BY BitsFacts
        <4>2. k < n /\ m \in Nat /\ m < W - 1 /\ m + 1 = k + (W - n)
          BY SMTT(30), <1>1, <1>4, <2>1, <3>2, <4>1
        <4>3. m \in Bits /\ m # W - 1
          BY SMTT(30), <1>1, <4>2, BitsFacts
        <4> HIDE DEF m
        <4>4. u[m] = x[k + (W - n)]
          BY <1>2, <4>2, <4>3
        <4>5. u[m] = r[k]
          BY <4>2, <4>4 DEF Got
        <4> QED BY <4>5 DEF m
      <3> QED BY <3>1, <3>2
    <2> QED BY <2>1 DEF Got
  <1>5. ASSUME n = W - 1 PROVE u = r
    <2>1. ASSUME NEW k \in Bits PROVE u[k] = r[k]
      <3>1. CASE k = W - 1
        BY <1>2, <1>5, <3>1
      <3>2. CASE k # W - 1
        <4>1. k < n /\ k + (W - n) = k + 1
          BY SMTT(30), <1>1, <1>5, <3>2, BitsFacts
        <4>2. x[k + (W - n)] = r[k]
          BY <4>1 DEF Got
        <4> QED BY <1>2, <3>2, <4>1, <4>2
      <3> QED BY <3>1, <3>2
    <2> QED BY <1>3, <2>1, SameBits
  <1> QED BY <1>4, <1>5 DEF u

-----------------------------------------------------------------------------
(* One strobe, as the microcontroller sees it.                             *)

LEMMA FromIdle ==
    ASSUME dev \in Receivers, NEW b, DevStrobe(b), dev.st = "idle"
    PROVE  /\ dev' = [dev EXCEPT !.st = "ins", !.n = 0, !.ins = 0]
           /\ line' = b
  BY DEF DevStrobe, Receivers

\* The state behind the instruction.
Decode(ins) == IF ins = 3 THEN "addr_in" ELSE IF ins = 2 THEN "addr_out" ELSE "length"

LEMMA FromIns ==
    ASSUME dev \in Receivers, NEW b, DevStrobe(b), dev.st = "ins", dev.n \in {0, 1}
    PROVE  /\ line' = b
           /\ dev.n = 0 => dev' = [dev EXCEPT !.ins = b, !.n = 1]
           /\ dev.n = 1 => dev' = [dev EXCEPT !.ins = dev.ins + 2 * b, !.n = 0,
                                              !.st = Decode(dev.ins + 2 * b)]
  <1>1. line' = b
    BY DEF DevStrobe
  <1>2. ASSUME dev.n = 0 PROVE dev' = [dev EXCEPT !.ins = b, !.n = 1]
    <2>1. dev' = [[dev EXCEPT !.ins = b] EXCEPT !.n = dev.n + 1]
      BY SMTT(30), <1>2 DEF DevStrobe
    <2>2. dev.n + 1 = 1
      BY SMTT(30), <1>2
    <2> QED BY <2>1, <2>2 DEF Receivers
  <1>3. ASSUME dev.n = 1
        PROVE  dev' = [dev EXCEPT !.ins = dev.ins + 2 * b, !.n = 0,
                                  !.st = Decode(dev.ins + 2 * b)]
    <2> DEFINE ins == dev.ins + 2 * b
    <2>1. dev' = [[dev EXCEPT !.ins = ins] EXCEPT !.st = Decode(ins), !.n = 0]
      BY SMTT(30), <1>3 DEF DevStrobe, Decode
    <2> HIDE DEF ins
    <2>2. dev' = [dev EXCEPT !.ins = ins, !.n = 0, !.st = Decode(ins)]
      BY <2>1 DEF Receivers
    <2> QED BY <2>2 DEF ins
  <1> QED BY <1>1, <1>2, <1>3

LEMMA FromLength ==
    ASSUME dev \in Receivers, NEW b, DevStrobe(b), dev.st = "length"
    PROVE  /\ line' = b
           /\ dev.n = 0 => dev' = [dev EXCEPT !.n = dev.n + 1]
           /\ dev.n # 0 =>
                 dev' = [dev EXCEPT !.st = IF dev.ins = 1 THEN "data_in" ELSE "wait_r",
                                    !.n = 0]
  BY DEF DevStrobe, Receivers

LEMMA FromIn ==
    ASSUME dev \in Receivers, NEW b, DevStrobe(b), dev.st \in {"addr_in", "data_in"}
    PROVE  /\ line' = b
           /\ dev.n # W - 1 => dev' = [dev EXCEPT !.sh = Shift(dev.sh, b), !.n = dev.n + 1]
           /\ dev.n = W - 1 /\ dev.st = "addr_in" =>
                 dev' = [dev EXCEPT !.sh = Shift(dev.sh, b), !.ar = Shift(dev.sh, b),
                                    !.st = "stop", !.n = 0]
           /\ dev.n = W - 1 /\ dev.st = "data_in" =>
                 dev' = [dev EXCEPT !.sh = Shift(dev.sh, b), !.dr = Shift(dev.sh, b),
                                    !.st = "wait_w", !.n = 0]
  BY DEF DevStrobe, Receivers

LEMMA FromWait ==
    ASSUME dev \in Receivers, NEW b, DevStrobe(b), dev.st \in {"wait_w", "wait_r"}
    PROVE  /\ dev.wait > 0 => /\ dev' = [dev EXCEPT !.wait = dev.wait - 1]
                              /\ line' = 0
           /\ ~(dev.wait > 0) =>
                 /\ dev' = [dev EXCEPT !.st = IF dev.st = "wait_w" THEN "stop"
                                              ELSE "data_out", !.n = 0]
                 /\ line' = 1
  BY DEF DevStrobe, Receivers

LEMMA FromOut ==
    ASSUME dev \in Receivers, NEW b, DevStrobe(b), dev.st \in {"addr_out", "data_out"}
    PROVE  /\ line' = (IF dev.st = "addr_out" THEN dev.ar ELSE dev.dr)[dev.n]
           /\ dev.n # W - 1 => dev' = [dev EXCEPT !.n = dev.n + 1]
           /\ dev.n = W - 1 => dev' = [dev EXCEPT !.st = "stop", !.n = 0]
  BY DEF DevStrobe, Receivers

LEMMA FromStop ==
    ASSUME dev \in Receivers, NEW b, DevStrobe(b), dev.st = "stop"
    PROVE  dev' = [dev EXCEPT !.st = "idle", !.n = 0] /\ line' = b
  BY DEF DevStrobe, Receivers

\* The microcontroller keeps its types, and the line has a level.
LEMMA DevKeeps ==
    ASSUME dev \in Receivers, DevInv, NEW b \in {0, 1}, DevStrobe(b)
    PROVE  dev' \in Receivers /\ DevInv' /\ line' \in {0, 1}
  <1> USE DEF DevInv
  <1>1. CASE dev.st = "idle"
    <2>1. dev' = [dev EXCEPT !.st = "ins", !.n = 0, !.ins = 0] /\ line' = b
      BY <1>1, FromIdle
    <2>2. 0 \in Nat /\ 0 \in 0 .. 3 /\ "ins" \in DevStates
      BY SMTT(30) DEF DevStates
    <2>3. dev' \in Receivers /\ dev'.st = "ins" /\ dev'.n = 0
      BY <2>1, <2>2 DEF Receivers
    <2> QED BY SMTT(30), <2>1, <2>3
  <1>2. CASE dev.st = "ins"
    <2>1. CASE dev.n = 0
      <3>1. dev' = [dev EXCEPT !.ins = b, !.n = 1] /\ line' = b
        BY <1>2, <2>1, FromIns
      <3>2. b \in 0 .. 3 /\ 1 \in Nat
        BY SMTT(30)
      <3>3. /\ dev' \in Receivers
            /\ dev'.st = "ins" /\ dev'.n = 1 /\ dev'.ins = b
        BY <1>2, <3>1, <3>2 DEF Receivers
      <3> QED BY <3>1, <3>3
    <2>2. CASE dev.n = 1
      <3> DEFINE ins == dev.ins + 2 * b
      <3>1. dev' = [dev EXCEPT !.ins = ins, !.n = 0, !.st = Decode(ins)] /\ line' = b
        BY <1>2, <2>2, FromIns
      <3>2. ins \in 0 .. 3
        BY SMTT(30), <1>2, <2>2
      <3>3. Decode(ins) \in {"addr_in", "addr_out", "length"}
        BY DEF Decode
      <3> HIDE DEF ins
      <3> QED BY <3>1, <3>2, <3>3, BitsFacts DEF Receivers, DevStates
    <2> QED BY <1>2, <2>1, <2>2
  <1>3. CASE dev.st = "length"
    <2>1. CASE dev.n = 0
      <3>1. dev' = [dev EXCEPT !.n = 1] /\ line' = b
        <4>1. dev.n + 1 = 1
          BY SMTT(30), <2>1
        <4> QED BY <1>3, <2>1, <4>1, FromLength
      <3> QED BY <1>3, <3>1 DEF Receivers, DevStates
    <2>2. CASE dev.n # 0
      <3> DEFINE st == IF dev.ins = 1 THEN "data_in" ELSE "wait_r"
      <3>1. dev' = [dev EXCEPT !.st = st, !.n = 0] /\ line' = b
        BY <1>3, <2>2, FromLength
      <3>2. st \in {"data_in", "wait_r"}
        OBVIOUS
      <3> HIDE DEF st
      <3> QED BY <3>1, <3>2, BitsFacts DEF Receivers, DevStates
    <2> QED BY <2>1, <2>2
  <1>4. CASE dev.st \in {"addr_in", "data_in"}
    <2> DEFINE x == Shift(dev.sh, b)
    <2>1. x \in Registers /\ line' = b
      <3>1. dev.sh \in Registers
        BY DEF Receivers
      <3> QED BY <1>4, <3>1, ShiftType, FromIn
    <2>2. CASE dev.n # W - 1
      <3>1. dev' = [dev EXCEPT !.sh = x, !.n = dev.n + 1]
        BY <1>4, <2>2, FromIn
      <3>2. dev.n + 1 \in Bits /\ dev.n + 1 \in Nat
        BY <1>4, <2>2, BitsFacts
      <3> HIDE DEF x
      <3> QED BY <1>4, <2>1, <3>1, <3>2 DEF Receivers, DevStates
    <2>3. CASE dev.n = W - 1 /\ dev.st = "addr_in"
      <3>1. dev' = [dev EXCEPT !.sh = x, !.ar = x, !.st = "stop", !.n = 0]
        BY <1>4, <2>3, FromIn
      <3> HIDE DEF x
      <3> QED BY <2>1, <3>1 DEF Receivers, DevStates
    <2>4. CASE dev.n = W - 1 /\ dev.st = "data_in"
      <3>1. dev' = [dev EXCEPT !.sh = x, !.dr = x, !.st = "wait_w", !.n = 0]
        BY <1>4, <2>4, FromIn
      <3> HIDE DEF x
      <3> QED BY <2>1, <3>1 DEF Receivers, DevStates
    <2> QED BY <1>4, <2>2, <2>3, <2>4
  <1>5. CASE dev.st \in {"wait_w", "wait_r"}
    <2>1. CASE dev.wait > 0
      <3>1. dev' = [dev EXCEPT !.wait = dev.wait - 1] /\ line' = 0
        BY <1>5, <2>1, FromWait
      <3>2. dev.wait - 1 \in Nat
        BY SMTT(30), <2>1 DEF Receivers
      <3> QED BY <1>5, <3>1, <3>2 DEF Receivers, DevStates
    <2>2. CASE ~(dev.wait > 0)
      <3> DEFINE st == IF dev.st = "wait_w" THEN "stop" ELSE "data_out"
      <3>1. dev' = [dev EXCEPT !.st = st, !.n = 0] /\ line' = 1
        BY <1>5, <2>2, FromWait
      <3>2. st \in {"stop", "data_out"}
        OBVIOUS
      <3> HIDE DEF st
      <3> QED BY <3>1, <3>2, BitsFacts DEF Receivers, DevStates
    <2> QED BY <2>1, <2>2
  <1>6. CASE dev.st \in {"addr_out", "data_out"}
    <2>1. line' \in {0, 1}
      <3> DEFINE r == IF dev.st = "addr_out" THEN dev.ar ELSE dev.dr
      <3>1. r \in Registers /\ dev.n \in Bits
        BY <1>6 DEF Receivers
      <3>2. line' = r[dev.n]
        BY <1>6, FromOut
      <3> HIDE DEF r
      <3> QED BY <3>1, <3>2 DEF Registers
    <2>2. CASE dev.n # W - 1
      <3>1. dev' = [dev EXCEPT !.n = dev.n + 1]
        BY <1>6, <2>2, FromOut
      <3>2. dev.n + 1 \in Bits /\ dev.n + 1 \in Nat
        BY <1>6, <2>2, BitsFacts
      <3> QED BY <1>6, <2>1, <3>1, <3>2 DEF Receivers, DevStates
    <2>3. CASE dev.n = W - 1
      <3>1. dev' = [dev EXCEPT !.st = "stop", !.n = 0]
        BY <1>6, <2>3, FromOut
      <3> QED BY <2>1, <3>1 DEF Receivers, DevStates
    <2> QED BY <2>2, <2>3
  <1>7. CASE dev.st = "stop"
    <2>1. dev' = [dev EXCEPT !.st = "idle", !.n = 0] /\ line' = b
      BY <1>7, FromStop
    <2> QED BY <2>1 DEF Receivers, DevStates
  <1> QED BY <1>1, <1>2, <1>3, <1>4, <1>5, <1>6, <1>7 DEF Receivers, DevStates

-----------------------------------------------------------------------------
(* The driver's steps.                                                     *)

\* A strobe with a level on C2D keeps what is the microcontroller's alone.
LEMMA StrobeKeeps ==
    ASSUME TypeOK, DevInv, NEW d \in {0, 1}, NEW o \in {0, 1}, Strobe(d, o)
    PROVE  /\ dev' \in Receivers /\ DevInv' /\ line' \in {0, 1}
           /\ dir' = d /\ out' = o
  <1>1. Level(d, o) \in {0, 1} /\ DevStrobe(Level(d, o)) /\ dev \in Receivers
    BY DEF Strobe, Level, TypeOK
  <1>2. dev' \in Receivers /\ DevInv' /\ line' \in {0, 1}
    BY <1>1, DevKeeps
  <1> QED BY <1>2 DEF Strobe

LEMMA StartStep == ASSUME WireInv, StartField PROVE WireInv'
  <1>1. TypeOK /\ HostInv /\ DevInv
    BY DEF WireInv
  <1>2. op \in Ops /\ i = 0 /\ dir \in {0, 1} /\ out \in {0, 1} /\ dev \in Receivers
    BY <1>1 DEF StartField, TypeOK, HostInv
  <1>3. /\ dev' \in Receivers /\ DevInv' /\ line' \in {0, 1}
        /\ dir' = dir /\ out' = out
    BY <1>1, <1>2, StrobeKeeps DEF StartField
  <1>4. i' = 0 /\ field' = "ins"
    BY SMTT(30), <1>2 DEF StartField, Advance, After
  <1>5. UNCHANGED <<op, arg, data, ret, late>>
    BY DEF StartField
  <1>6. TypeOK' /\ HostInv'
    <2>1. TypeOK'
      BY <1>1, <1>3, <1>4, <1>5 DEF TypeOK
    <2>2. HostInv'
      BY <1>2, <1>4, <1>5 DEF HostInv, Ops
    <2> QED BY <2>1, <2>2
  <1>7. ASSUME ~late PROVE Places' /\ Moved'
    <2>1. dev.st = "idle" /\ data = arg
      BY <1>2, <1>7 DEF WireInv, Places, Moved, StartField, Ops
    <2>2. dev' = [dev EXCEPT !.st = "ins", !.n = 0, !.ins = 0]
      BY <1>2, <2>1, FromIdle DEF StartField, Strobe
    <2>3. dev'.st = "ins" /\ dev'.n = 0
      BY <1>2, <2>2 DEF Receivers
    <2>4. Places'
      BY SMTT(30), <1>2, <1>4, <1>5, <2>3 DEF Places, Ops
    <2> QED BY <1>4, <1>5, <2>1, <2>4 DEF Moved
  <1> QED BY <1>3, <1>5, <1>6, <1>7 DEF WireInv

\* The two bits of an instruction, as a number.
LEMMA InsCode ==
    ASSUME op \in Ops
    PROVE  /\ Ins[op][1] \in {0, 1} /\ Ins[op][2] \in {0, 1}
           /\ op = "write_ar" => Ins[op][1] + 2 * Ins[op][2] = 3
           /\ op = "read_ar" => Ins[op][1] + 2 * Ins[op][2] = 2
           /\ op = "write_dr" => Ins[op][1] + 2 * Ins[op][2] = 1
           /\ op = "read_dr" => Ins[op][1] + 2 * Ins[op][2] = 0
  BY SMTT(30) DEF Ins, Ops

\* A field that carries the register starts with nothing moved.
LEMMA NothingSent ==
    ASSUME NEW x \in Registers, NEW y PROVE Driven(x, y, x, 0)
  <1>1. \A k \in Bits : k \in Nat /\ k + 0 = k /\ ~(k < 0)
    BY SMTT(30), BitsFacts
  <1> QED BY <1>1 DEF Driven

LEMMA NothingGot == \A x, r : Got(x, r, 0)
  <1>1. \A k \in Bits : ~(k < 0)
    BY SMTT(30), BitsFacts
  <1> QED BY <1>1 DEF Got

LEMMA InsStep == ASSUME WireInv, InsField PROVE WireInv'
  <1> DEFINE b == Ins[op][i + 1]
  <1>1. TypeOK /\ HostInv /\ DevInv
    BY DEF WireInv
  <1>2. op \in Ops /\ i \in {0, 1} /\ dev \in Receivers /\ field = "ins"
    BY <1>1 DEF InsField, TypeOK, HostInv
  <1>3. b \in {0, 1} /\ (i = 0 => b = Ins[op][1]) /\ (i = 1 => b = Ins[op][2])
    <2>1. CASE i = 0
      <3>1. i + 1 = 1
        BY SMTT(30), <2>1
      <3> QED BY <1>2, <2>1, <3>1, InsCode
    <2>2. CASE i = 1
      <3>1. i + 1 = 2
        BY SMTT(30), <2>2
      <3> QED BY <1>2, <2>2, <3>1, InsCode
    <2> QED BY <1>2, <2>1, <2>2
  <1>4. Strobe(0, b) /\ DevStrobe(b)
    BY DEF InsField, Strobe, Level
  <1>5. UNCHANGED <<op, arg, data, ret, late>>
    BY DEF InsField
  <1>6. i = 0 => i' = 1 /\ field' = "ins"
    BY SMTT(30), <1>2 DEF InsField, Advance
  <1>7. i = 1 => i' = 0 /\ field' = IF op \in WaitOps THEN "length"
                                    ELSE IF op = "write_ar" THEN "send" ELSE "recv"
    BY SMTT(30), <1>2 DEF InsField, Advance, After
  <1> HIDE DEF b
  <1>8. dev' \in Receivers /\ DevInv' /\ line' \in {0, 1} /\ dir' = 0 /\ out' = b
    BY <1>1, <1>3, <1>4, StrobeKeeps
  <1>9. TypeOK' /\ HostInv'
    <2>1. field' \in {"ins", "length", "send", "recv"} /\ i' \in Nat
      BY SMTT(30), <1>2, <1>6, <1>7
    <2>2. TypeOK'
      BY <1>1, <1>3, <1>5, <1>8, <2>1 DEF TypeOK
    <2>3. HostInv'
      BY <1>2, <1>5, <1>6, <1>7, BitsFacts DEF HostInv, Ops, WaitOps, Writes, Reads
    <2> QED BY <2>2, <2>3
  <1>10. ASSUME ~late PROVE Places' /\ Moved'
    <2>1. /\ dev.st = "ins" /\ dev.n = i /\ data = arg
          /\ i = 1 => dev.ins = Ins[op][1]
      BY <1>2, <1>10 DEF WireInv, Places, Moved, Ops
    <2>2. CASE i = 0
      <3>1. dev' = [dev EXCEPT !.ins = b, !.n = 1]
        BY <1>2, <1>4, <2>1, <2>2, FromIns
      <3>2. dev'.st = "ins" /\ dev'.n = 1 /\ dev'.ins = Ins[op][1]
        BY <1>2, <1>3, <2>1, <2>2, <3>1 DEF Receivers
      <3>3. Places'
        BY <1>2, <1>5, <1>6, <2>2, <3>2 DEF Places, Ops
      <3> QED BY <1>5, <1>6, <2>1, <2>2, <3>3 DEF Moved
    <2>3. CASE i = 1
      <3> DEFINE ins == dev.ins + 2 * b
      <3>1. dev' = [dev EXCEPT !.ins = ins, !.n = 0, !.st = Decode(ins)]
        BY <1>2, <1>4, <2>1, <2>3, FromIns
      <3>2. ins = Ins[op][1] + 2 * Ins[op][2]
        BY <1>3, <2>1, <2>3
      <3> HIDE DEF ins
      <3>3. dev'.st = Decode(ins) /\ dev'.n = 0 /\ dev'.ins = ins
        BY <1>2, <3>1 DEF Receivers
      <3>4. data' \in Registers /\ data' = arg'
        BY <1>1, <1>5, <2>1 DEF TypeOK
      <3>5. Driven(data', dev'.sh, arg', 0) /\ Got(data', Reg', 0)
        BY <3>4, NothingSent, NothingGot
      <3>6. CASE op = "write_ar"
        <4>1. dev'.st = "addr_in" /\ field' = "send" /\ i' = 0
          BY <1>2, <1>7, <2>3, <3>2, <3>3, <3>6, InsCode DEF Decode, WaitOps
        <4>2. Places'
          BY <1>5, <3>3, <3>6, <4>1 DEF Places
        <4> QED BY <3>5, <4>1, <4>2 DEF Moved
      <3>7. CASE op = "read_ar"
        <4>1. dev'.st = "addr_out" /\ field' = "recv" /\ i' = 0
          BY SMTT(30), <1>2, <1>7, <2>3, <3>2, <3>3, <3>7, InsCode DEF Decode, WaitOps
        <4>2. Places'
          BY <1>5, <3>3, <3>7, <4>1 DEF Places
        <4> QED BY <3>5, <4>1, <4>2 DEF Moved
      <3>8. CASE op \in WaitOps
        <4>1. /\ dev'.st = "length" /\ field' = "length" /\ i' = 0
              /\ dev'.ins = IF op = "write_dr" THEN 1 ELSE 0
          BY SMTT(30), <1>2, <1>7, <2>3, <3>2, <3>3, <3>8, InsCode DEF Decode, WaitOps
        <4>2. Places'
          BY <1>5, <3>3, <3>8, <4>1 DEF Places, WaitOps
        <4> QED BY <3>4, <4>1, <4>2 DEF Moved
      <3> QED BY <1>2, <3>6, <3>7, <3>8 DEF Ops, WaitOps
    <2> QED BY <1>2, <2>2, <2>3
  <1> QED BY <1>5, <1>8, <1>9, <1>10 DEF WireInv

LEMMA LengthStep == ASSUME WireInv, LengthField PROVE WireInv'
  <1>1. TypeOK /\ HostInv /\ DevInv
    BY DEF WireInv
  <1>2. op \in WaitOps /\ i \in {0, 1} /\ dev \in Receivers /\ field = "length"
    BY <1>1 DEF LengthField, TypeOK, HostInv
  <1>3. Strobe(0, 0) /\ DevStrobe(0)
    BY DEF LengthField, Strobe, Level
  <1>4. UNCHANGED <<op, arg, data, ret, late>>
    BY DEF LengthField
  <1>5. i = 0 => i' = 1 /\ field' = "length"
    BY SMTT(30), <1>2 DEF LengthField, Advance
  <1>6. i = 1 => i' = 0 /\ field' = IF op = "write_dr" THEN "send" ELSE "wait"
    BY SMTT(30), <1>2 DEF LengthField, Advance, After
  <1>7. dev' \in Receivers /\ DevInv' /\ line' \in {0, 1} /\ dir' = 0 /\ out' = 0
    BY <1>1, <1>3, StrobeKeeps
  <1>8. TypeOK' /\ HostInv'
    <2>1. field' \in {"length", "send", "wait"} /\ i' \in Nat
      BY SMTT(30), <1>2, <1>5, <1>6
    <2>2. TypeOK'
      BY <1>1, <1>4, <1>7, <2>1 DEF TypeOK
    <2>3. 0 < Timeout
      BY SMTT(30), C2WireAssumption
    <2>4. HostInv'
      BY <1>2, <1>4, <1>5, <1>6, <2>3, BitsFacts DEF HostInv, WaitOps, Writes
    <2> QED BY <2>2, <2>4
  <1>9. ASSUME ~late PROVE Places' /\ Moved'
    <2>1. /\ dev.st = "length" /\ dev.n = i /\ data = arg
          /\ dev.ins = IF op = "write_dr" THEN 1 ELSE 0
      BY <1>2, <1>9 DEF WireInv, Places, Moved, WaitOps
    <2>2. CASE i = 0
      <3>1. dev' = [dev EXCEPT !.n = 1]
        <4>1. dev.n + 1 = 1
          BY SMTT(30), <2>1, <2>2
        <4> QED BY <1>2, <1>3, <2>1, <2>2, <4>1, FromLength
      <3>2. dev'.st = "length" /\ dev'.n = 1 /\ dev'.ins = dev.ins
        BY <1>2, <2>1, <3>1 DEF Receivers
      <3>3. Places'
        BY <1>2, <1>4, <1>5, <2>1, <2>2, <3>2 DEF Places, WaitOps
      <3> QED BY <1>4, <1>5, <2>1, <2>2, <3>3 DEF Moved
    <2>3. CASE i = 1
      <3> DEFINE st == IF dev.ins = 1 THEN "data_in" ELSE "wait_r"
      <3>1. dev' = [dev EXCEPT !.st = st, !.n = 0]
        BY SMTT(30), <1>2, <1>3, <2>1, <2>3, FromLength
      <3>2. st = IF op = "write_dr" THEN "data_in" ELSE "wait_r"
        BY SMTT(30), <2>1
      <3> HIDE DEF st
      <3>3. dev'.st = st /\ dev'.n = 0
        BY <1>2, <3>1 DEF Receivers
      <3>4. data' \in Registers /\ data' = arg'
        BY <1>1, <1>4, <2>1 DEF TypeOK
      <3>5. Driven(data', dev'.sh, arg', 0)
        BY <3>4, NothingSent
      <3>6. Places'
        BY <1>2, <1>4, <1>6, <2>3, <3>2, <3>3 DEF Places, WaitOps
      <3>7. Moved'
        BY <1>2, <1>4, <1>6, <2>3, <3>5 DEF Moved, WaitOps, Writes
      <3> QED BY <3>6, <3>7
    <2> QED BY <1>2, <2>2, <2>3
  <1> QED BY <1>4, <1>7, <1>8, <1>9 DEF WireInv

LEMMA SendStep == ASSUME WireInv, SendBit PROVE WireInv'
  <1>1. TypeOK /\ HostInv /\ DevInv
    BY DEF WireInv
  <1>2. /\ op \in Writes /\ i \in Bits /\ i \in Nat /\ field = "send"
        /\ dev \in Receivers /\ dev.sh \in Registers
        /\ data \in Registers /\ arg \in Registers
    BY <1>1 DEF SendBit, TypeOK, HostInv, Receivers
  <1>3. data[0] \in {0, 1}
    BY <1>2, BitsFacts DEF Registers
  <1>4. Strobe(0, data[0]) /\ DevStrobe(data[0])
    BY DEF SendBit, Strobe, Level
  <1>5. UNCHANGED <<op, arg, ret, late>> /\ data' = Shift(data, 0)
    BY DEF SendBit
  <1>6. i # W - 1 => i' = i + 1 /\ field' = "send" /\ i + 1 \in Bits
    <2>1. i # W - 1 => i + 1 < W /\ i + 1 \in Bits
      BY SMTT(30), <1>2, C2WireAssumption DEF Bits
    <2>2. i + 1 < W => i' = i + 1 /\ field' = "send"
      BY <1>2 DEF SendBit, Advance
    <2> QED BY <2>1, <2>2
  <1>7. i = W - 1 => i' = 0 /\ field' = IF op = "write_dr" THEN "wait" ELSE "stop"
    BY SMTT(30), <1>2, C2WireAssumption DEF SendBit, Advance, After
  <1>8. /\ dev' \in Receivers /\ DevInv' /\ line' \in {0, 1}
        /\ dir' = 0 /\ out' = data[0]
    BY <1>1, <1>3, <1>4, StrobeKeeps
  <1>9. TypeOK' /\ HostInv'
    <2>1. field' \in {"send", "wait", "stop"} /\ i' \in Nat
      BY SMTT(30), <1>2, <1>6, <1>7
    <2>2. data' \in Registers
      BY <1>2, <1>5, ShiftType
    <2>3. TypeOK'
      BY <1>1, <1>3, <1>5, <1>8, <2>1, <2>2 DEF TypeOK
    <2>4. 0 < Timeout
      BY SMTT(30), C2WireAssumption
    <2>5. HostInv'
      BY <1>2, <1>5, <1>6, <1>7, <2>4 DEF HostInv, WaitOps, Writes
    <2> QED BY <2>3, <2>5
  <1>10. ASSUME ~late PROVE Places' /\ Moved'
    <2> DEFINE y == Shift(dev.sh, data[0])
    <2>1. /\ dev.st = IF op = "write_ar" THEN "addr_in" ELSE "data_in"
          /\ dev.n = i /\ Driven(data, dev.sh, arg, i)
      BY <1>2, <1>10 DEF WireInv, Places, Moved, Writes
    <2>2. /\ i # W - 1 => Driven(data', y, arg, i + 1)
          /\ i = W - 1 => y = arg
      BY <1>2, <1>5, <2>1, SendOn
    <2>3. dev.st \in {"addr_in", "data_in"}
      BY <2>1
    <2>4. CASE i # W - 1
      <3>1. dev' = [dev EXCEPT !.sh = y, !.n = dev.n + 1]
        BY <1>2, <1>4, <2>1, <2>3, <2>4, FromIn
      <3> HIDE DEF y
      <3>2. dev'.st = dev.st /\ dev'.n = i + 1 /\ dev'.sh = y
        BY <1>2, <2>1, <3>1 DEF Receivers
      <3>3. Places'
        BY <1>2, <1>5, <1>6, <2>1, <2>4, <3>2 DEF Places, Writes
      <3>4. Moved'
        BY <1>5, <1>6, <2>2, <2>4, <3>2 DEF Moved
      <3> QED BY <3>3, <3>4
    <2>5. CASE i = W - 1 /\ op = "write_ar"
      <3>1. dev' = [dev EXCEPT !.sh = y, !.ar = y, !.st = "stop", !.n = 0]
        BY <1>2, <1>4, <2>1, <2>5, FromIn
      <3> HIDE DEF y
      <3>2. dev'.st = "stop" /\ dev'.ar = arg
        BY <1>2, <2>2, <2>5, <3>1 DEF Receivers
      <3>3. Places'
        BY <1>5, <1>7, <2>5, <3>2 DEF Places
      <3>4. Moved'
        BY <1>5, <1>7, <2>5, <3>2 DEF Moved, Reg, Reads
      <3> QED BY <3>3, <3>4
    <2>6. CASE i = W - 1 /\ op = "write_dr"
      <3>1. dev' = [dev EXCEPT !.sh = y, !.dr = y, !.st = "wait_w", !.n = 0]
        BY <1>2, <1>4, <2>1, <2>6, FromIn
      <3> HIDE DEF y
      <3>2. dev'.st = "wait_w" /\ dev'.dr = arg
        BY <1>2, <2>2, <2>6, <3>1 DEF Receivers
      <3>3. Places'
        BY <1>5, <1>7, <2>6, <3>2 DEF Places
      <3>4. Moved'
        BY <1>5, <1>7, <2>6, <3>2 DEF Moved, Reg, Reads
      <3> QED BY <3>3, <3>4
    <2> QED BY <1>2, <2>4, <2>5, <2>6 DEF Writes
  <1> QED BY <1>5, <1>8, <1>9, <1>10 DEF WireInv

LEMMA RecvStep == ASSUME WireInv, RecvBit PROVE WireInv'
  <1> DEFINE x == IF i = 0 THEN Zero ELSE data
  <1>1. TypeOK /\ HostInv /\ DevInv
    BY DEF WireInv
  <1>2. /\ op \in Reads /\ i \in Bits /\ i \in Nat /\ field = "recv"
        /\ dev \in Receivers /\ out \in {0, 1}
    BY <1>1 DEF RecvBit, TypeOK, HostInv
  <1>3. x \in Registers
    BY <1>1, ZeroType DEF TypeOK
  <1>4. Strobe(1, out) /\ DevStrobe(1)
    BY SMTT(30) DEF RecvBit, Strobe, Level
  <1>5. UNCHANGED <<op, arg, ret, late>> /\ data' = Shift(x, line')
    BY DEF RecvBit
  <1>6. i # W - 1 => i' = i + 1 /\ field' = "recv" /\ i + 1 \in Bits
    BY SMTT(30), <1>2, C2WireAssumption DEF RecvBit, Advance, Bits
  <1>7. i = W - 1 => i' = 0 /\ field' = "stop"
    BY SMTT(30), <1>2, C2WireAssumption DEF RecvBit, Advance, After
  <1>8. dev' \in Receivers /\ DevInv' /\ line' \in {0, 1} /\ dir' = 1 /\ out' = out
    BY <1>1, <1>2, <1>4, StrobeKeeps
  <1>9. TypeOK' /\ HostInv'
    <2>1. field' \in {"recv", "stop"} /\ i' \in Nat
      BY SMTT(30), <1>2, <1>6, <1>7
    <2>2. data' \in Registers
      BY <1>3, <1>5, <1>8, ShiftType
    <2>3. TypeOK'
      BY <1>1, <1>5, <1>8, <2>1, <2>2 DEF TypeOK
    <2>4. HostInv'
      BY <1>2, <1>5, <1>6, <1>7 DEF HostInv, Reads
    <2> QED BY <2>3, <2>4
  <1>10. ASSUME ~late PROVE Places' /\ Moved'
    <2>1. /\ dev.st = IF op = "read_ar" THEN "addr_out" ELSE "data_out"
          /\ dev.n = i /\ Got(data, Reg, i)
      BY <1>2, <1>10 DEF WireInv, Places, Moved, Reads
    <2>2. Reg \in Registers
      BY <1>2 DEF Reg, Receivers
    <2>3. Got(x, Reg, i)
      BY <2>1, NothingGot
    <2> HIDE DEF x
    <2>4. line' = Reg[i]
      BY <1>2, <1>4, <2>1, FromOut DEF Reg, Reads
    <2>5. /\ i # W - 1 => Got(data', Reg, i + 1)
          /\ i = W - 1 => data' = Reg
      BY <1>2, <1>3, <1>5, <2>2, <2>3, <2>4, RecvOn
    <2>6. CASE i # W - 1
      <3>1. dev' = [dev EXCEPT !.n = dev.n + 1]
        BY <1>2, <1>4, <2>1, <2>6, FromOut
      <3>2. dev'.st = dev.st /\ dev'.n = i + 1 /\ dev'.ar = dev.ar /\ dev'.dr = dev.dr
        BY <1>2, <2>1, <3>1 DEF Receivers
      <3>3. Places'
        BY <1>2, <1>5, <1>6, <2>1, <2>6, <3>2 DEF Places, Reads
      <3>4. Reg' = Reg
        BY <1>5, <3>2 DEF Reg
      <3>5. Moved'
        BY <1>6, <2>5, <2>6, <3>4 DEF Moved
      <3> QED BY <3>3, <3>5
    <2>7. CASE i = W - 1
      <3>1. dev' = [dev EXCEPT !.st = "stop", !.n = 0]
        BY <1>2, <1>4, <2>1, <2>7, FromOut
      <3>2. dev'.st = "stop" /\ dev'.ar = dev.ar /\ dev'.dr = dev.dr
        BY <1>2, <3>1 DEF Receivers
      <3>3. Places'
        BY <1>2, <1>5, <1>7, <2>7, <3>2 DEF Places, Reads
      <3>4. Reg' = Reg
        BY <1>5, <3>2 DEF Reg
      <3>5. Moved'
        BY <1>2, <1>5, <1>7, <2>5, <2>7, <3>4 DEF Moved, Reads, Writes
      <3> QED BY <3>3, <3>5
    <2> QED BY <2>6, <2>7
  <1> QED BY <1>5, <1>8, <1>9, <1>10 DEF WireInv

LEMMA WaitStep == ASSUME WireInv, WaitField PROVE WireInv'
  <1>1. TypeOK /\ HostInv /\ DevInv
    BY DEF WireInv
  <1>2. /\ op \in WaitOps /\ i \in Nat /\ i < Timeout /\ field = "wait"
        /\ dev \in Receivers /\ out \in {0, 1}
    BY <1>1 DEF WaitField, WaitAtMost, TypeOK, HostInv
  <1>3. Strobe(1, out) /\ DevStrobe(1)
    BY SMTT(30) DEF WaitField, WaitAtMost, Strobe, Level
  <1>4. dev' \in Receivers /\ DevInv' /\ line' \in {0, 1} /\ dir' = 1 /\ out' = out
    BY <1>1, <1>2, <1>3, StrobeKeeps
  <1>5. UNCHANGED <<arg, data>>
    BY DEF WaitField, WaitAtMost
  <1>6. ASSUME ~late
        PROVE  /\ dev.st = IF op = "write_dr" THEN "wait_w" ELSE "wait_r"
               /\ op = "write_dr" => dev.dr = arg
               /\ dev.wait > 0 => line' = 0 /\ dev' = [dev EXCEPT !.wait = dev.wait - 1]
               /\ ~(dev.wait > 0) =>
                     /\ line' = 1
                     /\ dev' = [dev EXCEPT !.st = IF op = "write_dr" THEN "stop"
                                                  ELSE "data_out", !.n = 0]
    <2>1. /\ dev.st = IF op = "write_dr" THEN "wait_w" ELSE "wait_r"
          /\ op = "write_dr" => dev.dr = arg
      BY <1>2, <1>6 DEF WireInv, Places, Moved, Reg, Writes, WaitOps
    <2>2. (dev.st = "wait_w") <=> (op = "write_dr")
      BY <2>1
    <2> QED BY <1>2, <1>3, <2>1, <2>2, FromWait
  <1>7. CASE line' = 1 /\ field' = After("wait") /\ i' = 0 /\ UNCHANGED <<op, ret, late>>
    <2>1. field' = IF op = "write_dr" THEN "stop" ELSE "recv"
      BY <1>7 DEF After
    <2>2. TypeOK' /\ HostInv'
      <3>1. TypeOK'
        BY <1>1, <1>4, <1>5, <1>7, <2>1 DEF TypeOK
      <3>2. HostInv'
        BY <1>2, <1>7, <2>1, BitsFacts DEF HostInv, WaitOps, Reads
      <3> QED BY <3>1, <3>2
    <2>3. ASSUME ~late PROVE Places' /\ Moved'
      <3>1. dev' = [dev EXCEPT !.st = IF op = "write_dr" THEN "stop" ELSE "data_out",
                               !.n = 0]
        BY SMTT(30), <1>6, <1>7, <2>3
      <3>2. /\ dev'.st = IF op = "write_dr" THEN "stop" ELSE "data_out"
            /\ dev'.n = 0 /\ dev'.dr = dev.dr
        BY <1>2, <3>1 DEF Receivers
      <3>3. Places'
        BY <1>2, <1>7, <2>1, <3>2 DEF Places, WaitOps
      <3>4. Got(data', Reg', 0)
        BY NothingGot
      <3>5. op = "write_dr" => Reg' = arg'
        BY <1>5, <1>6, <1>7, <2>3, <3>2 DEF Reg
      <3>6. Moved'
        BY <1>2, <1>7, <2>1, <3>4, <3>5 DEF Moved, WaitOps, Writes, Reads
      <3> QED BY <3>3, <3>6
    <2> QED BY <1>4, <1>7, <2>2, <2>3 DEF WireInv
  <1>8. CASE line' = 0 /\ i + 1 < Timeout /\ i' = i + 1 /\ UNCHANGED <<op, field, ret, late>>
    <2>1. TypeOK' /\ HostInv'
      <3>1. i' \in Nat
        BY SMTT(30), <1>2, <1>8
      <3>2. TypeOK'
        BY <1>1, <1>4, <1>5, <1>8, <3>1 DEF TypeOK
      <3>3. HostInv'
        BY <1>2, <1>8 DEF HostInv
      <3> QED BY <3>2, <3>3
    <2>2. ASSUME ~late PROVE Places' /\ Moved'
      <3>1. dev' = [dev EXCEPT !.wait = dev.wait - 1]
        BY SMTT(30), <1>6, <1>8, <2>2
      <3>2. dev'.st = dev.st /\ dev'.dr = dev.dr
        BY <1>2, <3>1 DEF Receivers
      <3>3. Places'
        BY <1>2, <1>6, <1>8, <2>2, <3>2 DEF Places, WaitOps
      <3>4. Moved'
        BY <1>2, <1>5, <1>6, <1>8, <2>2, <3>2 DEF Moved, Reg, WaitOps, Writes, Reads
      <3> QED BY <3>3, <3>4
    <2> QED BY <1>4, <1>8, <2>1, <2>2 DEF WireInv
  <1>9. CASE op' = "none" /\ ret' = "EIO" /\ late' = TRUE /\ UNCHANGED <<field, i>>
    <2>1. TypeOK'
      BY <1>1, <1>4, <1>5, <1>9 DEF TypeOK
    <2>2. HostInv'
      BY <1>2, <1>9 DEF HostInv
    <2> QED BY <1>4, <1>9, <2>1, <2>2 DEF WireInv
  <1> QED BY <1>7, <1>8, <1>9 DEF WaitField, WaitAtMost

LEMMA StopStep == ASSUME WireInv, StopField PROVE WireInv'
  <1>1. TypeOK /\ HostInv /\ DevInv
    BY DEF WireInv
  <1>2. op \in Ops /\ field = "stop" /\ dev \in Receivers /\ out \in {0, 1}
    BY <1>1 DEF StopField, TypeOK
  <1>3. Strobe(1, out) /\ DevStrobe(1)
    BY SMTT(30) DEF StopField, Strobe, Level
  <1>4. dev' \in Receivers /\ DevInv' /\ line' \in {0, 1} /\ dir' = 1 /\ out' = out
    BY <1>1, <1>2, <1>3, StrobeKeeps
  <1>5. op' = "none" /\ ret' = "ok" /\ UNCHANGED <<field, i, arg, data, late>>
    BY DEF StopField
  <1>6. TypeOK'
    BY <1>1, <1>4, <1>5 DEF TypeOK
  <1>7. HostInv'
    BY <1>2, <1>5 DEF HostInv
  <1>8. ASSUME ~late PROVE Places'
    <2>1. dev.st = "stop"
      BY <1>2, <1>8 DEF WireInv, Places, Ops
    <2>2. dev' = [dev EXCEPT !.st = "idle", !.n = 0]
      BY <1>2, <1>3, <2>1, FromStop
    <2>3. dev'.st = "idle"
      BY <1>2, <2>2 DEF Receivers
    <2> QED BY <1>5, <2>3 DEF Places
  <1> QED BY <1>4, <1>5, <1>6, <1>7, <1>8 DEF WireInv

-----------------------------------------------------------------------------
(* The steps between operations.                                           *)

LEMMA BeginStep ==
    ASSUME WireInv, NEW o \in Ops, NEW b \in Registers, Begin(o, b) PROVE WireInv'
  <1>1. TypeOK /\ HostInv /\ DevInv
    BY DEF WireInv
  <1>2. /\ op' = o /\ field' = "start" /\ i' = 0 /\ arg' = b /\ data' = b
        /\ UNCHANGED <<ret, dir, out, line, dev, late>>
    BY DEF Begin
  <1>3. TypeOK'
    BY <1>1, <1>2 DEF TypeOK
  <1>4. HostInv' /\ DevInv'
    BY <1>1, <1>2 DEF HostInv, DevInv, Ops
  <1>5. ASSUME ~late PROVE Places' /\ Moved'
    <2>1. dev.st = "idle"
      BY <1>5 DEF WireInv, Places, Begin
    <2> QED BY <1>2, <2>1 DEF Places, Moved
  <1> QED BY <1>2, <1>3, <1>4, <1>5 DEF WireInv

LEMMA ResetStep == ASSUME WireInv, Reset PROVE WireInv'
  <1>1. TypeOK /\ HostInv /\ DevInv /\ op = "none" /\ dev \in Receivers
    BY DEF WireInv, Reset, TypeOK
  <1>2. /\ dev' = [dev EXCEPT !.st = "idle", !.n = 0] /\ late' = FALSE
        /\ UNCHANGED <<op, field, i, arg, data, ret, dir, out, line>>
    BY DEF Reset, hostVars
  <1>3. dev' \in Receivers /\ dev'.st = "idle"
    BY <1>1, <1>2 DEF Receivers, DevStates
  <1>4. TypeOK'
    BY <1>1, <1>2, <1>3 DEF TypeOK
  <1>5. HostInv' /\ DevInv'
    BY <1>1, <1>2, <1>3 DEF HostInv, DevInv
  <1>6. Places'
    BY <1>1, <1>2, <1>3 DEF Places
  <1> QED BY <1>1, <1>2, <1>4, <1>5, <1>6 DEF WireInv

LEMMA BusyStep ==
    ASSUME WireInv, NEW n \in 0 .. MaxWait, DevBusy(n) PROVE WireInv'
  <1>1. TypeOK /\ HostInv /\ DevInv /\ op = "none" /\ dev \in Receivers
    BY DEF WireInv, DevBusy, TypeOK
  <1>2. /\ dev' = [dev EXCEPT !.wait = n] /\ dev.st = "idle"
        /\ UNCHANGED <<op, field, i, arg, data, ret, dir, out, line, late>>
    BY DEF DevBusy, hostVars
  <1>3. n \in Nat
    BY SMTT(30), C2WireAssumption
  <1>4. dev' \in Receivers /\ dev'.st = "idle"
    BY <1>1, <1>2, <1>3 DEF Receivers
  <1>5. TypeOK'
    BY <1>1, <1>2, <1>4 DEF TypeOK
  <1>6. HostInv' /\ DevInv'
    BY <1>1, <1>2, <1>4 DEF HostInv, DevInv
  <1>7. Places'
    BY <1>1, <1>2, <1>4 DEF Places
  <1> QED BY <1>1, <1>2, <1>5, <1>6, <1>7 DEF WireInv

-----------------------------------------------------------------------------
(* The theorems.                                                           *)

LEMMA InitWire == ASSUME Init PROVE WireInv
  <1>1. PICK ar \in Registers, dr \in Registers :
           dev = [st |-> "idle", n |-> 0, ins |-> 0, sh |-> Zero, ar |-> ar,
                  dr |-> dr, wait |-> 0]
    BY DEF Init
  <1>2. dev \in Receivers /\ dev.st = "idle"
    BY SMTT(30), <1>1, ZeroType DEF Receivers, DevStates
  <1>3. TypeOK
    BY <1>2, ZeroType DEF Init, TypeOK
  <1>4. HostInv /\ DevInv /\ Places
    BY <1>2 DEF Init, HostInv, DevInv, Places
  <1> QED BY <1>3, <1>4 DEF Init, WireInv

LEMMA WireStep == ASSUME WireInv, [Next]_vars PROVE WireInv'
  <1>1. CASE StartField \/ InsField \/ LengthField
    BY <1>1, StartStep, InsStep, LengthStep
  <1>2. CASE SendBit \/ RecvBit
    BY <1>2, SendStep, RecvStep
  <1>3. CASE WaitField \/ StopField
    BY <1>3, WaitStep, StopStep
  <1>4. CASE \E o \in Ops, b \in Registers : Begin(o, b)
    BY <1>4, BeginStep
  <1>5. CASE Reset \/ \E n \in 0 .. MaxWait : DevBusy(n)
    BY <1>5, ResetStep, BusyStep
  <1>6. CASE UNCHANGED vars
    <2>1. UNCHANGED <<op, field, i, arg, data, ret, dir, out, line, dev, late>>
      BY <1>6 DEF vars, hostVars
    <2>2. TypeOK' /\ HostInv' /\ DevInv'
      BY SMTT(30), <2>1 DEF WireInv, TypeOK, HostInv, DevInv
    <2>3. (Places' <=> Places) /\ (Moved' <=> Moved)
      BY <2>1 DEF Places, Moved, Reg
    <2> QED BY <2>1, <2>2, <2>3 DEF WireInv
  <1> QED BY <1>1, <1>2, <1>3, <1>4, <1>5, <1>6 DEF Next

\* The inductive invariant of the wire: unless an operation has timed out
\* since the last reset, the microcontroller is at the same strobe of the same
\* field as the driver (core.c 102-258), with the same bits moved.
THEOREM WireInvariance == Spec => []WireInv
  <1>1. Init => WireInv
    BY InitWire
  <1>2. WireInv /\ [Next]_vars => WireInv'
    BY WireStep
  <1> QED BY <1>1, <1>2, PTL DEF Spec

\* No frame is open between operations, unless one timed out since the last
\* reset, for registers of any width and any timeout (core.c 102-258).
THEOREM FramesStayAligned == Spec => []FramesAligned
  <1>1. WireInv => FramesAligned
    BY DEF WireInv, Places, FramesAligned
  <1> QED BY <1>1, WireInvariance, PTL

\* What c2port_write_ar and c2port_write_dr send arrives, and what
\* c2port_read_ar and c2port_read_dr return is the register (core.c 102-258):
\* bit by bit, for registers of any width.
THEOREM RegistersArrive == Spec => RoundTrip
  <1> DEFINE Arrives ==
        op # "none" /\ op' = "none" /\ ret' = "ok" /\ ~late =>
          CASE op = "write_ar" -> dev'.ar = arg
            [] op = "write_dr" -> dev'.dr = arg
            [] op = "read_ar" -> data' = dev.ar /\ dev'.ar = dev.ar
            [] op = "read_dr" -> data' = dev.dr /\ dev'.dr = dev.dr
  <1>1. ASSUME WireInv, [Next]_vars PROVE [Arrives]_vars
    <2>1. SUFFICES ASSUME op # "none", op' = "none", ret' = "ok", ~late, Next
                   PROVE  Arrives
      BY <1>1 DEF vars, hostVars
    <2>2. CASE StopField
      <3>1. /\ dev \in Receivers /\ op \in Ops /\ field = "stop" /\ dev.st = "stop"
            /\ Moved /\ DevStrobe(1) /\ data' = data
        BY <1>1, <2>1, <2>2 DEF WireInv, TypeOK, Places, StopField, Strobe, Level
      <3>2. dev' = [dev EXCEPT !.st = "idle", !.n = 0]
        BY <3>1, FromStop
      <3>3. dev'.ar = dev.ar /\ dev'.dr = dev.dr
        BY <3>1, <3>2 DEF Receivers
      <3>4. (op \in Writes => Reg = arg) /\ (op \in Reads => data = Reg)
        BY <3>1 DEF Moved
      <3>5. (op = "write_ar" => dev'.ar = arg) /\ (op = "write_dr" => dev'.dr = arg)
        BY <3>3, <3>4 DEF Reg, Writes
      <3>6. (op = "read_ar" => data' = dev.ar) /\ (op = "read_dr" => data' = dev.dr)
        BY <3>1, <3>4 DEF Reg, Reads
      <3> QED BY <3>1, <3>3, <3>5, <3>6 DEF Ops
    <2>3. CASE StartField \/ InsField \/ LengthField \/ SendBit \/ RecvBit \/ WaitField
      <3>1. op' = op \/ ret' = "EIO"
        BY <2>3 DEF StartField, InsField, LengthField, SendBit, RecvBit, WaitField,
                    WaitAtMost
      <3> QED BY <2>1, <3>1
    <2>4. CASE \/ \E o \in Ops, b \in Registers : Begin(o, b)
               \/ Reset
               \/ \E n \in 0 .. MaxWait : DevBusy(n)
      BY <2>1, <2>4 DEF Begin, Reset, DevBusy
    <2> QED BY <2>1, <2>2, <2>3, <2>4 DEF Next
  <1>2. WireInv /\ [Next]_vars => [Arrives]_vars
    BY <1>1
  <1> QED BY <1>2, WireInvariance, PTL DEF Spec, RoundTrip

\* The driver gives up only when the microcontroller has kept the line low
\* for Timeout strobes, the last one included (core.c 191-202, 228-239).
THEOREM WaitsForTheAnswer == Spec => GivesUpInTime
  <1> DEFINE GivesUp == ~late /\ late' => dev.wait > 0 /\ i + 1 = Timeout
  <1>1. ASSUME WireInv, [Next]_vars PROVE [GivesUp]_vars
    <2>1. SUFFICES ASSUME ~late, late', Next PROVE dev.wait > 0 /\ i + 1 = Timeout
      BY <1>1 DEF vars
    <2>2. WaitField
      BY <2>1 DEF Next, StartField, InsField, LengthField, SendBit, RecvBit, StopField,
                  Begin, Reset, DevBusy
    <2>3. line' = 0 /\ i + 1 = Timeout /\ DevStrobe(1) /\ field = "wait" /\ op # "none"
      <3>1. late' # late
        BY <2>1
      <3>2. line' = 0 /\ i + 1 = Timeout /\ field = "wait" /\ op # "none"
        BY <2>2, <3>1 DEF WaitField, WaitAtMost
      <3>3. DevStrobe(1)
        BY SMTT(30), <2>2 DEF WaitField, WaitAtMost, Strobe, Level
      <3> QED BY <3>2, <3>3
    <2>4. dev \in Receivers /\ dev.st \in {"wait_w", "wait_r"}
      BY <1>1, <2>1, <2>3 DEF WireInv, TypeOK, Places
    <2> QED BY SMTT(30), <2>3, <2>4, FromWait
  <1>2. WireInv /\ [Next]_vars => [GivesUp]_vars
    BY <1>1
  <1> QED BY <1>2, WireInvariance, PTL DEF Spec, GivesUpInTime

\* At every strobe that the microcontroller answers the driver has turned the
\* line around (c2d_dir(1), core.c 142, 191, 228).
THEOREM NeverBothDrive == Spec => NoContention
  <1> DEFINE Turned == ~late /\ DevDrives /\ dev' # dev => dir' = 1
  <1>1. ASSUME WireInv, [Next]_vars PROVE [Turned]_vars
    <2>1. SUFFICES ASSUME ~late, DevDrives, dev' # dev, Next PROVE dir' = 1
      BY <1>1 DEF vars
    <2>2. /\ Places /\ HostInv /\ TypeOK
          /\ dev.st \in {"addr_out", "wait_w", "wait_r", "data_out"}
      BY <1>1, <2>1 DEF WireInv, DevDrives
    <2>3. op # "none" /\ field \in {"wait", "recv"}
      BY <2>2 DEF Places, TypeOK
    <2>4. RecvBit \/ WaitField
      BY <2>1, <2>3 DEF Next, StartField, InsField, LengthField, SendBit, StopField,
                        Begin, Reset, DevBusy
    <2> QED BY <2>4 DEF RecvBit, WaitField, WaitAtMost, Strobe
  <1>2. WireInv /\ [Next]_vars => [Turned]_vars
    BY <1>1
  <1> QED BY <1>2, WireInvariance, PTL DEF Spec, NoContention

=============================================================================
