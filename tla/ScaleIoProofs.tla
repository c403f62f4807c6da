--------------------------- MODULE ScaleIoProofs ---------------------------
(***************************************************************************)
(* ScaleIo on one processor, for any finite pools of requests, any threads *)
(* and any lengths: no request is lost, the lists agree with the           *)
(* controller, and the bytes of the host reach read once and in order.     *)
(* First sequences, then the pools and the stream as functions of their    *)
(* contents, then the invariant and one lemma per action.                  *)
(***************************************************************************)
EXTENDS ScaleIo, FiniteSetTheorems, SequenceTheorems, TLAPS

\* Most leaves take no arithmetic: Zenon is tried unless a leaf names another prover.
USE ZenonT(30)

\* What Append and Tail do to the elements of a sequence without repetition.
Distinct(s) == \A i, j \in DOMAIN s : s[i] = s[j] => i = j

LEMMA AppendFacts ==
    ASSUME NEW S, NEW s \in Seq(S), NEW x \in S
    PROVE  /\ Append(s, x) \in Seq(S) /\ Len(s) \in Nat
           /\ DOMAIN s = 1 .. Len(s)
           /\ DOMAIN Append(s, x) = 1 .. Len(s) + 1
           /\ \A i \in 1 .. Len(s) : Append(s, x)[i] = s[i]
           /\ Append(s, x)[Len(s) + 1] = x
  <1>1. Len(Append(s, x)) = Len(s) + 1 /\ Len(s) \in Nat
    BY SMTT(30)
  <1>2. Append(s, x) \in Seq(S) /\ DOMAIN s = 1 .. Len(s)
    BY SMTT(30)
  <1>3. DOMAIN Append(s, x) = 1 .. Len(s) + 1
    BY SMTT(30), <1>1
  <1> QED BY SMTT(30), <1>1, <1>2, <1>3

LEMMA TailFacts ==
    ASSUME NEW S, NEW s \in Seq(S), s # <<>>
    PROVE  /\ Tail(s) \in Seq(S) /\ Len(s) \in Nat /\ Len(s) >= 1
           /\ DOMAIN s = 1 .. Len(s) /\ Head(s) = s[1] /\ s[1] \in S
           /\ DOMAIN Tail(s) = 1 .. Len(s) - 1
           /\ \A i \in 1 .. Len(s) - 1 : Tail(s)[i] = s[i + 1]
  <1>1. Len(s) \in Nat /\ Len(s) >= 1 /\ DOMAIN s = 1 .. Len(s)
    BY SMTT(30), EmptySeq
  <1>2. Tail(s) \in Seq(S) /\ Len(Tail(s)) = Len(s) - 1 /\ Head(s) = s[1]
    BY SMTT(30), HeadTailProperties
  <1>3. DOMAIN Tail(s) = 1 .. Len(s) - 1
    BY SMTT(30), <1>2
  <1>4. s[1] \in S
    BY SMTT(30), <1>1
  <1>5. \A i \in 1 .. Len(s) - 1 : Tail(s)[i] = s[i + 1]
    BY SMTT(30), <1>1
  <1> QED BY <1>1, <1>2, <1>3, <1>4, <1>5

LEMMA ElemsAppend ==
    ASSUME NEW S, NEW s \in Seq(S), NEW x \in S
    PROVE  /\ Elems(Append(s, x)) = Elems(s) \cup {x}
           /\ Distinct(s) /\ x \notin Elems(s) => Distinct(Append(s, x))
  <1> DEFINE n == Len(s)
             a == Append(s, x)
  <1>1. /\ n \in Nat /\ DOMAIN s = 1 .. n /\ DOMAIN a = 1 .. n + 1
        /\ \A i \in 1 .. n : a[i] = s[i]
        /\ a[n + 1] = x
    BY SMTT(30), AppendFacts
  <1> HIDE DEF n, a
  <1>2. \A i \in 1 .. n + 1 : i \in 1 .. n \/ i = n + 1
    BY SMTT(30), <1>1
  <1>3. 1 .. n \subseteq 1 .. n + 1 /\ n + 1 \in 1 .. n + 1 /\ n + 1 \notin 1 .. n
    BY SMTT(30), <1>1
  <1>4. Elems(a) = Elems(s) \cup {x}
    BY <1>1, <1>2, <1>3 DEF Elems
  <1>5. Distinct(s) /\ x \notin Elems(s) => Distinct(a)
    BY <1>1, <1>2, <1>3 DEF Elems, Distinct
  <1> QED BY <1>4, <1>5 DEF a

LEMMA ElemsTail ==
    ASSUME NEW S, NEW s \in Seq(S), s # <<>>, Distinct(s)
    PROVE  /\ Elems(Tail(s)) = Elems(s) \ {Head(s)}
           /\ Head(s) \in Elems(s) /\ Distinct(Tail(s))
  <1> DEFINE n == Len(s)
             a == Tail(s)
  <1>1. /\ n \in Nat /\ n >= 1 /\ DOMAIN s = 1 .. n /\ DOMAIN a = 1 .. n - 1
        /\ \A i \in 1 .. n - 1 : a[i] = s[i + 1]
        /\ Head(s) = s[1]
    BY TailFacts
  <1> HIDE DEF n, a
  <1>2. \A i \in 1 .. n - 1 : i + 1 \in 1 .. n /\ i + 1 # 1
    BY SMTT(30), <1>1
  <1>3. \A i \in 1 .. n : i = 1 \/ (i - 1 \in 1 .. n - 1 /\ i = (i - 1) + 1)
    BY SMTT(30), <1>1
  <1>4. 1 \in 1 .. n
    BY SMTT(30), <1>1
  <1>5. Elems(a) \subseteq Elems(s) \ {s[1]}
    BY SMTT(30), <1>1, <1>2, <1>4 DEF Elems, Distinct
  <1>6. ASSUME NEW x \in Elems(s), x # s[1] PROVE x \in Elems(a)
    <2>1. PICK i \in 1 .. n : s[i] = x
      BY <1>1 DEF Elems
    <2>2. i - 1 \in 1 .. n - 1 /\ i = (i - 1) + 1
      BY <1>3, <1>6, <2>1
    <2>3. a[i - 1] = x
      BY <1>1, <2>1, <2>2
    <2> QED BY <1>1, <2>2, <2>3 DEF Elems
  <1>7. Head(s) \in Elems(s)
    BY <1>1, <1>4 DEF Elems
  <1>8. Distinct(a)
    <2> SUFFICES ASSUME NEW i \in 1 .. n - 1, NEW j \in 1 .. n - 1, a[i] = a[j]
                 PROVE  i = j
      BY <1>1 DEF Distinct
    <2>1. s[i + 1] = s[j + 1]
      BY <1>1
    <2>2. i + 1 = j + 1
      BY <1>1, <1>2, <2>1 DEF Distinct
    <2> QED BY SMTT(30), <2>2, <1>1
  <1> QED BY <1>1, <1>5, <1>6, <1>7, <1>8 DEF a

\* As many elements as places.
LEMMA DistinctCount ==
    ASSUME NEW S, NEW s \in Seq(S), Distinct(s)
    PROVE  IsFiniteSet(Elems(s)) /\ Cardinality(Elems(s)) = Len(s)
  <1>1. Len(s) \in Nat /\ DOMAIN s = 1 .. Len(s)
    BY SMTT(30)
  <1>2. IsFiniteSet(1 .. Len(s)) /\ Cardinality(1 .. Len(s)) = Len(s)
    <2> DEFINE n == Len(s)
    <2>1. n \in Nat
      BY <1>1
    <2> HIDE DEF n
    <2>2. /\ IsFiniteSet(1 .. n)
          /\ Cardinality(1 .. n) = IF 1 > n THEN 0 ELSE n - 1 + 1
      BY SMTT(30), <2>1, FS_Interval
    <2>3. Cardinality(1 .. n) = n
      BY SMTT(30), <2>1, <2>2
    <2> QED BY <2>2, <2>3 DEF n
  <1>3. s \in Bijection(1 .. Len(s), Elems(s))
    BY SMTT(30), <1>1 DEF Elems, Distinct, Bijection, Injection, Surjection, IsInjective
  <1> QED BY <1>2, <1>3, FS_Bijection DEF ExistsBijection

-----------------------------------------------------------------------------
\* The requests of a sequence of spans.
ReqSeq(b) == [i \in DOMAIN b |-> b[i].req]
Filled == [req : RxReqs, lo : Nat, hi : Nat]

LEMMA FilledIsSpan == Filled \subseteq Span /\ \A x \in Filled : x # NoSpan
  <1>1. \A x \in Filled : x.req \in RxReqs
    BY DEF Filled
  <1>2. NoSpan.req = NoReq
    BY DEF NoSpan
  <1> QED BY <1>1, <1>2, ScaleIoAssumption DEF Filled, Span

LEMMA ReqSeqType ==
    ASSUME NEW b \in Seq(Filled)
    PROVE  /\ ReqSeq(b) \in Seq(RxReqs) /\ Len(ReqSeq(b)) = Len(b)
           /\ ReqSeq(b) = <<>> <=> b = <<>>
           /\ Elems(ReqSeq(b)) = {b[i].req : i \in DOMAIN b}
  <1>1. Len(b) \in Nat /\ DOMAIN b = 1 .. Len(b)
    BY SMTT(30)
  <1>2. \A i \in 1 .. Len(b) : b[i] \in Filled
    BY SMTT(30)
  <1>3. \A i \in 1 .. Len(b) : b[i].req \in RxReqs
    BY <1>2 DEF Filled
  <1>4. ReqSeq(b) = [i \in 1 .. Len(b) |-> b[i].req]
    BY <1>1 DEF ReqSeq
  <1>5. ReqSeq(b) \in [1 .. Len(b) -> RxReqs]
    BY <1>3, <1>4
  <1>6. ReqSeq(b) \in Seq(RxReqs) /\ Len(ReqSeq(b)) = Len(b)
    BY SMTT(30), <1>1, <1>5, SeqDef
  <1>7. ReqSeq(b) = <<>> <=> b = <<>>
    BY <1>6, EmptySeq
  <1>8. Elems(ReqSeq(b)) = {b[i].req : i \in DOMAIN b}
    BY SMTT(30), <1>1, <1>4 DEF Elems
  <1> QED BY <1>6, <1>7, <1>8

LEMMA ReqSeqAppend ==
    ASSUME NEW b \in Seq(Filled), NEW x \in Filled
    PROVE  ReqSeq(Append(b, x)) = Append(ReqSeq(b), x.req)
  <1> DEFINE n == Len(b)
             l == ReqSeq(Append(b, x))
             r == Append(ReqSeq(b), x.req)
  <1>1. /\ Append(b, x) \in Seq(Filled) /\ n \in Nat
        /\ DOMAIN b = 1 .. n
        /\ DOMAIN Append(b, x) = 1 .. n + 1
        /\ \A i \in 1 .. n : Append(b, x)[i] = b[i]
        /\ Append(b, x)[n + 1] = x
    BY SMTT(30), AppendFacts
  <1>2. x.req \in RxReqs /\ ReqSeq(b) \in Seq(RxReqs) /\ Len(ReqSeq(b)) = n
    BY ReqSeqType DEF Filled
  <1>3. /\ r \in Seq(RxReqs) /\ DOMAIN r = 1 .. n + 1
        /\ \A i \in 1 .. n : r[i] = ReqSeq(b)[i]
        /\ r[n + 1] = x.req
    BY SMTT(30), <1>2, AppendFacts
  <1>4. \A i \in 1 .. n : ReqSeq(b)[i] = b[i].req
    BY <1>1 DEF ReqSeq
  <1>5. l = [i \in 1 .. n + 1 |-> Append(b, x)[i].req]
    BY <1>1 DEF ReqSeq
  <1>6. \A i \in 1 .. n + 1 : i \in 1 .. n \/ i = n + 1
    BY SMTT(30), <1>1
  <1>7. \A i \in 1 .. n + 1 : l[i] = r[i]
    BY SMTT(30), <1>1, <1>3, <1>4, <1>5, <1>6
  <1>8. r = [i \in 1 .. n + 1 |-> r[i]]
    BY SMTT(30), <1>3
  <1> HIDE DEF l, r
  <1>9. l = r
    BY <1>5, <1>7, <1>8
  <1> QED BY <1>9 DEF l, r

LEMMA ReqSeqTail ==
    ASSUME NEW b \in Seq(Filled), b # <<>>
    PROVE  ReqSeq(Tail(b)) = Tail(ReqSeq(b)) /\ Head(ReqSeq(b)) = Head(b).req
  <1> DEFINE n == Len(b)
             l == ReqSeq(Tail(b))
             r == Tail(ReqSeq(b))
  <1>1. /\ Tail(b) \in Seq(Filled) /\ n \in Nat /\ n >= 1
        /\ DOMAIN b = 1 .. n /\ Head(b) = b[1]
        /\ DOMAIN Tail(b) = 1 .. n - 1
        /\ \A i \in 1 .. n - 1 : Tail(b)[i] = b[i + 1]
    BY TailFacts
  <1>2. ReqSeq(b) \in Seq(RxReqs) /\ Len(ReqSeq(b)) = n /\ ReqSeq(b) # <<>>
    BY ReqSeqType
  <1>3. /\ r \in Seq(RxReqs) /\ DOMAIN r = 1 .. n - 1
        /\ Head(ReqSeq(b)) = ReqSeq(b)[1]
        /\ \A i \in 1 .. n - 1 : r[i] = ReqSeq(b)[i + 1]
    BY <1>2, TailFacts
  <1>4. \A i \in 1 .. n : ReqSeq(b)[i] = b[i].req
    BY <1>1 DEF ReqSeq
  <1>5. l = [i \in 1 .. n - 1 |-> Tail(b)[i].req]
    BY <1>1 DEF ReqSeq
  <1>6. \A i \in 1 .. n - 1 : i + 1 \in 1 .. n
    BY SMTT(30), <1>1
  <1>7. \A i \in 1 .. n - 1 : l[i] = r[i]
    BY SMTT(30), <1>1, <1>3, <1>4, <1>5, <1>6
  <1> HIDE DEF l, r
  <1>8. r = [i \in 1 .. n - 1 |-> r[i]]
    BY SMTT(30), <1>3
  <1>9. l = r
    BY <1>5, <1>7, <1>8
  <1>10. Head(ReqSeq(b)) = Head(b).req
    BY SMTT(30), <1>1, <1>3, <1>4
  <1> QED BY <1>9, <1>10 DEF l, r

-----------------------------------------------------------------------------
\* The OUT requests, each in one place: free, with the controller (q), filled
\* and waiting (b), or the one somebody is reading (h).
RxPool(free, q, b, h) ==
    /\ free \subseteq RxReqs /\ q \in Seq(RxReqs) /\ b \in Seq(Filled)
    /\ h \in Filled \cup {NoSpan}
    /\ Distinct(q) /\ Distinct(ReqSeq(b))
    /\ free \cap Elems(q) = {} /\ free \cap Elems(ReqSeq(b)) = {}
    /\ Elems(q) \cap Elems(ReqSeq(b)) = {}
    /\ h.req \notin free \cup Elems(q) \cup Elems(ReqSeq(b))
    /\ free \cup Elems(q) \cup Elems(ReqSeq(b)) \cup ({h.req} \ {NoReq}) = RxReqs

LEMMA NoSpanReq == NoSpan.req = NoReq /\ NoReq \notin RxReqs /\ NoReq \notin TxReqs
  BY ScaleIoAssumption DEF NoSpan

\* A request goes to the controller.
LEMMA PoolQueue ==
    ASSUME NEW free, NEW q, NEW b, NEW h, NEW r \in free, RxPool(free, q, b, h)
    PROVE  /\ RxPool(free \ {r}, Append(q, r), b, h)
           /\ Elems(Append(q, r)) = Elems(q) \cup {r}
           /\ r \in RxReqs
  <1>1. r \in RxReqs /\ q \in Seq(RxReqs)
    BY DEF RxPool
  <1>2. /\ Append(q, r) \in Seq(RxReqs)
        /\ Elems(Append(q, r)) = Elems(q) \cup {r}
        /\ Distinct(q) /\ r \notin Elems(q) => Distinct(Append(q, r))
    BY SMTT(30), <1>1, AppendFacts, ElemsAppend
  <1> QED BY SMTT(30), <1>1, <1>2 DEF RxPool

\* The oldest request comes back from the controller, empty or filled.
LEMMA PoolEmpty ==
    ASSUME NEW free, NEW q, NEW b, NEW h, RxPool(free, q, b, h), q # <<>>
    PROVE  /\ RxPool(free \cup {Head(q)}, Tail(q), b, h)
           /\ Elems(Tail(q)) = Elems(q) \ {Head(q)} /\ Head(q) \in Elems(q)
           /\ Head(q) \in RxReqs
  <1>1. q \in Seq(RxReqs) /\ Distinct(q)
    BY DEF RxPool
  <1>2. Tail(q) \in Seq(RxReqs) /\ Head(q) \in RxReqs
    BY <1>1, TailFacts
  <1>3. /\ Elems(Tail(q)) = Elems(q) \ {Head(q)}
        /\ Head(q) \in Elems(q) /\ Distinct(Tail(q))
    BY <1>1, ElemsTail
  <1> QED BY <1>2, <1>3 DEF RxPool

LEMMA PoolFill ==
    ASSUME NEW free, NEW q, NEW b, NEW h, RxPool(free, q, b, h), q # <<>>,
           NEW x \in Filled, x.req = Head(q)
    PROVE  RxPool(free, Tail(q), Append(b, x), h)
  <1>1. q \in Seq(RxReqs) /\ Distinct(q) /\ b \in Seq(Filled)
    BY DEF RxPool
  <1>2. Tail(q) \in Seq(RxReqs) /\ Head(q) \in RxReqs /\ Append(b, x) \in Seq(Filled)
    BY <1>1, TailFacts, AppendFacts
  <1>3. /\ Elems(Tail(q)) = Elems(q) \ {Head(q)}
        /\ Head(q) \in Elems(q) /\ Distinct(Tail(q))
    BY <1>1, ElemsTail
  <1>4. ReqSeq(b) \in Seq(RxReqs) /\ ReqSeq(Append(b, x)) = Append(ReqSeq(b), x.req)
    BY <1>1, ReqSeqType, ReqSeqAppend
  <1>5. /\ Elems(ReqSeq(Append(b, x))) = Elems(ReqSeq(b)) \cup {Head(q)}
        /\ Distinct(ReqSeq(b)) /\ Head(q) \notin Elems(ReqSeq(b))
              => Distinct(ReqSeq(Append(b, x)))
    BY SMTT(30), <1>2, <1>4, ElemsAppend
  <1> QED BY SMTT(30), <1>2, <1>3, <1>5 DEF RxPool

\* The endpoint is disabled: all of them come back empty.
LEMMA PoolFlush ==
    ASSUME NEW free, NEW q, NEW b, NEW h, RxPool(free, q, b, h)
    PROVE  RxPool(free \cup Elems(q), <<>>, b, h) /\ Elems(<<>>) = {}
  <1>1. <<>> \in Seq(RxReqs) /\ Elems(<<>>) = {} /\ Distinct(<<>>)
    BY SMTT(30) DEF Elems, Distinct
  <1>2. Elems(q) \subseteq RxReqs
    BY DEF RxPool, Elems
  <1> QED BY <1>1, <1>2 DEF RxPool

\* A reader takes the oldest filled request.
LEMMA PoolTake ==
    ASSUME NEW free, NEW q, NEW b, RxPool(free, q, b, NoSpan), b # <<>>
    PROVE  RxPool(free, q, Tail(b), Head(b)) /\ Head(b) \in Filled
  <1>1. b \in Seq(Filled)
    BY DEF RxPool
  <1>2. Tail(b) \in Seq(Filled) /\ Head(b) \in Filled
    BY <1>1, TailFacts
  <1>3. /\ ReqSeq(Tail(b)) = Tail(ReqSeq(b)) /\ Head(ReqSeq(b)) = Head(b).req
        /\ ReqSeq(b) \in Seq(RxReqs) /\ ReqSeq(b) # <<>>
    BY <1>1, ReqSeqTail, ReqSeqType
  <1>4. Distinct(ReqSeq(b))
    BY DEF RxPool
  <1>5. /\ Elems(ReqSeq(Tail(b))) = Elems(ReqSeq(b)) \ {Head(b).req}
        /\ Head(b).req \in Elems(ReqSeq(b)) /\ Distinct(ReqSeq(Tail(b)))
    BY <1>3, <1>4, ElemsTail
  <1> QED BY SMTT(30), <1>2, <1>5, NoSpanReq DEF RxPool, Filled

\* It reads a part, or all of it and the request is free again.
LEMMA PoolPart ==
    ASSUME NEW free, NEW q, NEW b, NEW h, RxPool(free, q, b, h),
           NEW g \in Filled, g.req = h.req
    PROVE  RxPool(free, q, b, g)
  BY DEF RxPool

LEMMA PoolFree ==
    ASSUME NEW free, NEW q, NEW b, NEW h \in Filled, RxPool(free, q, b, h)
    PROVE  RxPool(free \cup {h.req}, q, b, NoSpan)
  BY SMTT(30), NoSpanReq DEF RxPool, Filled

-----------------------------------------------------------------------------
\* The spans b hold the bytes from c up to e, each at least one, in order.
Chain(b, c, e) ==
    /\ b = <<>> => c = e
    /\ b # <<>> => b[1].lo = c /\ b[Len(b)].hi = e
    /\ \A i \in DOMAIN b : b[i].lo < b[i].hi
    /\ \A i \in 1 .. Len(b) - 1 : b[i].hi = b[i + 1].lo

LEMMA ChainAppend ==
    ASSUME NEW b \in Seq(Filled), NEW c, NEW e, Chain(b, c, e),
           NEW x \in Filled, x.lo = e, x.lo < x.hi
    PROVE  Chain(Append(b, x), c, x.hi)
  <1> DEFINE n == Len(b)
             a == Append(b, x)
  <1>1. /\ a \in Seq(Filled) /\ n \in Nat /\ DOMAIN b = 1 .. n
        /\ DOMAIN a = 1 .. n + 1 /\ \A i \in 1 .. n : a[i] = b[i]
        /\ a[n + 1] = x
    BY SMTT(30), AppendFacts
  <1>2. Len(a) = n + 1
    BY SMTT(30)
  <1>3. n = 0 <=> b = <<>>
    BY EmptySeq
  <1> HIDE DEF n, a
  <1>10. a # <<>>
    BY SMTT(30), <1>1, <1>2, EmptySeq
  <1>4. \A i \in 1 .. n + 1 : i \in 1 .. n \/ i = n + 1
    BY SMTT(30), <1>1
  <1>5. \A i \in DOMAIN a : a[i].lo < a[i].hi
    BY <1>1, <1>4 DEF Chain
  <1>6. a[1].lo = c
    <2>1. CASE n = 0
      BY SMTT(30), <1>1, <1>3, <2>1 DEF Chain
    <2>2. CASE n # 0
      <3>1. 1 \in 1 .. n
        BY SMTT(30), <1>1, <2>2
      <3> QED BY <1>1, <1>3, <2>2, <3>1 DEF Chain
    <2> QED BY <2>1, <2>2
  <1>7. ASSUME NEW i \in 1 .. n PROVE a[i].hi = a[i + 1].lo
    <2>1. CASE i = n
      <3>1. b # <<>> /\ b[n].hi = e
        BY SMTT(30), <1>1, <1>3, <2>1 DEF Chain, n
      <3> QED BY <1>1, <2>1, <3>1
    <2>2. CASE i # n
      <3>1. i \in 1 .. n - 1 /\ i + 1 \in 1 .. n
        BY SMTT(30), <1>1, <2>2
      <3>2. b[i].hi = b[i + 1].lo
        BY <3>1 DEF Chain, n
      <3> QED BY <1>1, <3>1, <3>2
    <2> QED BY <2>1, <2>2
  <1>8. Len(a) - 1 = n
    BY SMTT(30), <1>1, <1>2
  <1>9. Chain(a, c, x.hi)
    BY <1>1, <1>2, <1>5, <1>6, <1>7, <1>8, <1>10 DEF Chain
  <1> QED BY <1>9 DEF a

LEMMA ChainTail ==
    ASSUME NEW b \in Seq(Filled), NEW c, NEW e, Chain(b, c, e), b # <<>>
    PROVE  /\ Chain(Tail(b), Head(b).hi, e)
           /\ Head(b).lo = c /\ Head(b).lo < Head(b).hi
  <1> DEFINE n == Len(b)
             a == Tail(b)
  <1>1. /\ n \in Nat /\ n >= 1 /\ DOMAIN b = 1 .. n /\ Head(b) = b[1]
        /\ a \in Seq(Filled) /\ DOMAIN a = 1 .. n - 1
        /\ \A i \in 1 .. n - 1 : a[i] = b[i + 1]
    BY TailFacts
  <1>2. Len(a) = n - 1
    BY HeadTailProperties
  <1>3. a = <<>> <=> n = 1
    <2> HIDE DEF a, n
    <2>1. a = <<>> <=> Len(a) = 0
      BY <1>1, EmptySeq
    <2> QED BY SMTT(30), <1>1, <1>2, <2>1
  <1>4. /\ b[1].lo = c /\ b[n].hi = e
        /\ \A i \in 1 .. n : b[i].lo < b[i].hi
        /\ \A i \in 1 .. n - 1 : b[i].hi = b[i + 1].lo
    BY <1>1 DEF Chain
  <1> HIDE DEF n, a
  <1>5. a = <<>> => b[1].hi = e
    BY <1>3, <1>4
  <1>6. a # <<>> => a[1].lo = b[1].hi /\ a[Len(a)].hi = e
    <2> SUFFICES ASSUME a # <<>> PROVE a[1].lo = b[1].hi /\ a[Len(a)].hi = e
      OBVIOUS
    <2>1. 1 \in 1 .. n - 1 /\ n - 1 \in 1 .. n - 1 /\ (n - 1) + 1 = n
      BY SMTT(30), <1>1, <1>3
    <2>2. a[1] = b[1 + 1] /\ a[n - 1] = b[n]
      BY <1>1, <2>1
    <2> QED BY <1>2, <1>4, <2>1, <2>2
  <1>7. \A i \in 1 .. n - 1 : a[i].lo < a[i].hi
    <2>1. \A i \in 1 .. n - 1 : i + 1 \in 1 .. n
      BY SMTT(30), <1>1
    <2> QED BY <1>1, <1>4, <2>1
  <1>8. ASSUME NEW i \in 1 .. Len(a) - 1 PROVE a[i].hi = a[i + 1].lo
    <2>1. i \in 1 .. n - 1 /\ i + 1 \in 1 .. n - 1
      BY SMTT(30), <1>1, <1>2
    <2> QED BY <1>1, <1>4, <2>1
  <1>9. 1 \in 1 .. n
    BY SMTT(30), <1>1
  <1>10. Chain(a, b[1].hi, e)
    BY <1>1, <1>5, <1>6, <1>7, <1>8 DEF Chain
  <1> QED BY <1>1, <1>4, <1>9, <1>10 DEF a

\* What is unread: the span in somebody's hands and then the filled ones.
Stream(h, b, g, s) ==
    IF h = NoSpan THEN Chain(b, g, s)
    ELSE h.lo = g /\ h.lo < h.hi /\ Chain(b, h.hi, s)

-----------------------------------------------------------------------------
\* The inductive invariant, on one processor.
Places == {"idle", "r_lock", "setup", "active", "r_sleep", "r_loop", "r_copy",
           "w_lock", "w_relock", "w_sleep", "w_loop", "w_copy", "w_put",
           "f_check", "f_sleep", "p_lock"}

\* Where a thread holds the mutex, and where it holds the spinlock.
InMutex == {"setup", "active", "r_sleep", "r_loop", "r_copy", "w_relock",
            "w_sleep", "w_loop", "w_copy", "w_put"}
InLock == {"setup", "active", "r_loop", "w_loop"}

Locals == [op : {"none", "read", "write", "fsync", "poll"},
           nonblock : BOOLEAN, fault : BOOLEAN, len : Nat,
           req : RxReqs \cup TxReqs \cup {NoReq}, cur : Filled \cup {NoSpan}]

TypesOK ==
    /\ lock_scale_io \in Threads \cup {NoThread} /\ lock \in Threads \cup {NoThread}
    /\ interface \in {-1, 0} /\ config \in {0, 1} /\ enabled \in BOOLEAN
    /\ broken \in {"no", "lists", "oops", "deadlock"}
    /\ sent \in Nat /\ got \in Nat
    /\ pc \in [Threads -> Places] /\ loc \in [Threads -> Locals]

LocksOK ==
    \A t \in Threads : /\ lock_scale_io = t <=> pc[t] \in InMutex
                       /\ lock = t <=> pc[t] \in InLock

\* The tail of a request is with the reader from ReadTake to ReadDone, and
\* with the device the rest of the time.
HandsOK ==
    \A t \in Threads :
        /\ loc[t].cur # NoSpan => pc[t] \in {"r_loop", "r_copy"}
        /\ pc[t] = "r_copy" => loc[t].cur # NoSpan
        /\ pc[t] \in {"r_sleep", "r_loop", "r_copy"} => current_rx = NoSpan
        /\ pc[t] = "w_copy" => loc[t].len > 0

Hands == {current_rx} \cup {loc[t].cur : t \in Threads}

\* The span being read, NoSpan if there is none.
InHand(h) == h \in Hands /\ \A g \in Hands : g # NoSpan => h = g

RxOK == \E h \in Hands : /\ InHand(h) /\ RxPool(rx_reqs, outq, rx_buffers, h)
                         /\ Stream(h, rx_buffers, got, sent)

Moving == {loc[t].req : t \in {u \in Threads : pc[u] = "active"}}

QueueOK ==
    /\ rx_reqs_active \subseteq RxReqs
    /\ Elems(outq) = rx_reqs_active \cup Moving

TxOK ==
    /\ tx_reqs \subseteq TxReqs /\ tx_reqs_active \subseteq TxReqs
    /\ inq = tx_reqs_active /\ tx_reqs \cap tx_reqs_active = {}
    /\ TxReqs \ (tx_reqs \cup tx_reqs_active) = {loc[t].req : t \in TxHolders}

IInv == TypesOK /\ LocksOK /\ HandsOK /\ RxOK /\ QueueOK /\ TxOK

-----------------------------------------------------------------------------
\* A step of a thread, by the place it reaches and the locals it has there.
Step(t, p, l) == /\ pc' = [pc EXCEPT ![t] = p]
                 /\ loc' = [loc EXCEPT ![t] = l]

\* It takes a lock that is free or its own, gives back what it holds, or
\* leaves both alone.
LockMoves(t, p) ==
    /\ \/ p \in InMutex /\ lock_scale_io \in {t, NoThread} /\ lock_scale_io' = t
       \/ p \notin InMutex /\ pc[t] \in InMutex /\ lock_scale_io' = NoThread
       \/ /\ p \notin InMutex /\ pc[t] \notin InMutex
          /\ lock_scale_io' = lock_scale_io
    /\ \/ p \in InLock /\ lock \in {t, NoThread} /\ lock' = t
       \/ p \notin InLock /\ pc[t] \in InLock /\ lock' = NoThread
       \/ p \notin InLock /\ pc[t] \notin InLock /\ lock' = lock

LEMMA LocksStep ==
    ASSUME TypesOK, LocksOK, NEW t \in Threads, NEW p \in Places, NEW l,
           Step(t, p, l), LockMoves(t, p)
    PROVE  /\ LocksOK'
           /\ lock_scale_io' \in Threads \cup {NoThread}
           /\ lock' \in Threads \cup {NoThread}
  <1>1. pc'[t] = p /\ \A u \in Threads \ {t} : pc'[u] = pc[u]
    BY DEF Step, TypesOK
  <1>2. \A u \in Threads : lock_scale_io' = u <=> pc'[u] \in InMutex
    <2>1. CASE p \in InMutex /\ lock_scale_io \in {t, NoThread} /\ lock_scale_io' = t
      BY <1>1, <2>1, ScaleIoAssumption DEF LocksOK
    <2>2. CASE p \notin InMutex /\ pc[t] \in InMutex /\ lock_scale_io' = NoThread
      BY SMTT(30), <1>1, <2>2, ScaleIoAssumption DEF LocksOK
    <2>3. CASE /\ p \notin InMutex /\ pc[t] \notin InMutex
               /\ lock_scale_io' = lock_scale_io
      BY <1>1, <2>3 DEF LocksOK
    <2> QED BY <2>1, <2>2, <2>3 DEF LockMoves
  <1>3. \A u \in Threads : lock' = u <=> pc'[u] \in InLock
    <2>1. CASE p \in InLock /\ lock \in {t, NoThread} /\ lock' = t
      BY <1>1, <2>1, ScaleIoAssumption DEF LocksOK
    <2>2. CASE p \notin InLock /\ pc[t] \in InLock /\ lock' = NoThread
      BY <1>1, <2>2, ScaleIoAssumption DEF LocksOK
    <2>3. CASE p \notin InLock /\ pc[t] \notin InLock /\ lock' = lock
      BY <1>1, <2>3 DEF LocksOK
    <2> QED BY <2>1, <2>2, <2>3 DEF LockMoves
  <1> QED BY <1>2, <1>3 DEF LocksOK, LockMoves, TypesOK

\* Two threads never hold the mutex, so one at most has a request to read.
LEMMA OneInMutex ==
    ASSUME LocksOK, NEW t \in Threads, NEW u \in Threads,
           pc[t] \in InMutex, pc[u] \in InMutex
    PROVE  t = u
  BY DEF LocksOK

LEMMA OthersEmpty ==
    ASSUME LocksOK, HandsOK, NEW t \in Threads, pc[t] \in InMutex,
           NEW u \in Threads \ {t}
    PROVE  /\ loc[u].cur = NoSpan
           /\ pc[u] \notin {"r_sleep", "r_loop", "r_copy", "active", "w_copy", "w_put"}
  BY OneInMutex DEF HandsOK, InMutex

LEMMA ThreadStep ==
    ASSUME TypesOK, LocksOK, HandsOK,
           NEW t \in Threads, NEW p \in Places, NEW l \in Locals,
           Step(t, p, l), LockMoves(t, p),
           l.cur # NoSpan => p \in {"r_loop", "r_copy"},
           p = "r_copy" => l.cur # NoSpan,
           p \in {"r_sleep", "r_loop", "r_copy"} => current_rx' = NoSpan,
           p = "w_copy" => l.len > 0,
           current_rx' = current_rx \/ pc[t] \in InMutex,
           UNCHANGED <<ctlVars, broken>>, sent' \in Nat, got' \in Nat
    PROVE  TypesOK' /\ LocksOK' /\ HandsOK'
  <1>1. /\ pc'[t] = p /\ \A u \in Threads \ {t} : pc'[u] = pc[u]
        /\ loc'[t] = l /\ \A u \in Threads \ {t} : loc'[u] = loc[u]
        /\ pc' \in [Threads -> Places] /\ loc' \in [Threads -> Locals]
    BY DEF Step, TypesOK
  <1>2. TypesOK'
    BY <1>1, LocksStep DEF TypesOK, ctlVars
  <1>3. HandsOK'
    <2>1. ASSUME NEW u \in Threads \ {t}
          PROVE  pc[u] \in {"r_sleep", "r_loop", "r_copy"} => current_rx' = NoSpan
      BY OthersEmpty DEF HandsOK
    <2>2. /\ loc'[t].cur # NoSpan => pc'[t] \in {"r_loop", "r_copy"}
          /\ pc'[t] = "r_copy" => loc'[t].cur # NoSpan
          /\ pc'[t] \in {"r_sleep", "r_loop", "r_copy"} => current_rx' = NoSpan
          /\ pc'[t] = "w_copy" => loc'[t].len > 0
      BY <1>1
    <2>3. ASSUME NEW u \in Threads \ {t}
          PROVE  /\ loc'[u].cur # NoSpan => pc'[u] \in {"r_loop", "r_copy"}
                 /\ pc'[u] = "r_copy" => loc'[u].cur # NoSpan
                 /\ pc'[u] \in {"r_sleep", "r_loop", "r_copy"}
                       => current_rx' = NoSpan
                 /\ pc'[u] = "w_copy" => loc'[u].len > 0
      BY <1>1, <2>1 DEF HandsOK
    <2> QED BY <2>2, <2>3 DEF HandsOK
  <1> QED BY <1>2, <1>3, LocksStep

\* The span being read, seen from the thread that holds the mutex.
LEMMA HandIs ==
    ASSUME LocksOK, HandsOK, NEW t \in Threads, pc[t] \in InMutex,
           NEW h \in Hands, InHand(h)
    PROVE  h \in {current_rx, loc[t].cur} /\ {current_rx, loc[t].cur} \subseteq {h, NoSpan}
  <1>1. current_rx \in Hands /\ loc[t].cur \in Hands
    BY DEF Hands
  <1>2. \A u \in Threads : u = t \/ loc[u].cur = NoSpan
    BY OthersEmpty
  <1>3. h = current_rx \/ h = loc[t].cur \/ h = NoSpan
    BY <1>2 DEF Hands
  <1> QED BY <1>1, <1>3 DEF InHand

LEMMA HandStep ==
    ASSUME TypesOK, LocksOK, HandsOK, NEW t \in Threads, pc[t] \in InMutex,
           NEW l, loc' = [loc EXCEPT ![t] = l],
           NEW h \in {current_rx', l.cur},
           {current_rx', l.cur} \subseteq {h, NoSpan}
    PROVE  InHand(h)' /\ h \in Hands'
  <1>1. loc'[t] = l /\ \A u \in Threads \ {t} : loc'[u] = loc[u]
    BY DEF TypesOK
  <1>2. \A u \in Threads \ {t} : loc'[u].cur = NoSpan
    BY <1>1, OthersEmpty
  <1>3. Hands' = {current_rx'} \cup {loc'[u].cur : u \in Threads}
    BY DEF Hands
  <1>4. h \in Hands'
    BY <1>1, <1>3
  <1>5. \A g \in Hands' : g # NoSpan => h = g
    BY SMTT(30), <1>1, <1>2, <1>3
  <1> QED BY <1>4, <1>5 DEF InHand

LEMMA RxAfter ==
    ASSUME NEW h, InHand(h)', RxPool(rx_reqs', outq', rx_buffers', h),
           Stream(h, rx_buffers', got', sent')
    PROVE  RxOK'
  BY DEF InHand, RxOK, RxPool, Stream, Chain, Elems, ReqSeq, Distinct

\* What a thread's step leaves alone.
LEMMA RxSame ==
    ASSUME TypesOK, RxOK, NEW t \in Threads, NEW l, l.cur = loc[t].cur,
           loc' = [loc EXCEPT ![t] = l],
           UNCHANGED <<rx_reqs, outq, rx_buffers, current_rx, got, sent>>
    PROVE  RxOK'
  <1>1. loc'[t] = l /\ \A u \in Threads \ {t} : loc'[u] = loc[u]
    BY DEF TypesOK
  <1>2. \A u \in Threads : loc'[u].cur = loc[u].cur
    BY <1>1
  <1>3. Hands' = Hands
    BY <1>2 DEF Hands
  <1>4. PICK h \in Hands : /\ InHand(h) /\ RxPool(rx_reqs, outq, rx_buffers, h)
                           /\ Stream(h, rx_buffers, got, sent)
    BY DEF RxOK
  <1>5. InHand(h)'
    BY <1>3, <1>4 DEF InHand
  <1>6. /\ RxPool(rx_reqs', outq', rx_buffers', h)
        /\ Stream(h, rx_buffers', got', sent')
    BY <1>4
  <1> QED BY <1>5, <1>6, RxAfter

LEMMA QueueSame ==
    ASSUME TypesOK, QueueOK, NEW t \in Threads, NEW p, NEW l, Step(t, p, l),
           pc[t] # "active", p # "active", UNCHANGED <<outq, rx_reqs_active>>
    PROVE  QueueOK'
  <1>1. /\ pc'[t] = p /\ \A u \in Threads \ {t} : pc'[u] = pc[u]
        /\ loc'[t] = l /\ \A u \in Threads \ {t} : loc'[u] = loc[u]
    BY DEF Step, TypesOK
  <1>2. Moving' = Moving
    BY <1>1 DEF Moving
  <1> QED BY <1>2 DEF QueueOK, Elems

LEMMA TxSame ==
    ASSUME TypesOK, TxOK, NEW t \in Threads, NEW p, NEW l, Step(t, p, l),
           pc[t] \in {"w_copy", "w_put"} <=> p \in {"w_copy", "w_put"},
           p \in {"w_copy", "w_put"} => l.req = loc[t].req,
           UNCHANGED txVars
    PROVE  TxOK'
  <1>1. /\ pc'[t] = p /\ \A u \in Threads \ {t} : pc'[u] = pc[u]
        /\ loc'[t] = l /\ \A u \in Threads \ {t} : loc'[u] = loc[u]
    BY DEF Step, TypesOK
  <1>2. TxHolders' = TxHolders
    BY <1>1 DEF TxHolders
  <1>3. \A u \in TxHolders : loc'[u].req = loc[u].req
    BY <1>1 DEF TxHolders
  <1>4. {loc'[u].req : u \in TxHolders'} = {loc[u].req : u \in TxHolders}
    BY <1>2, <1>3
  <1> QED BY <1>4 DEF TxOK, txVars

\* A step that moves no request.
LEMMA QuietStep ==
    ASSUME IInv, NEW t \in Threads, NEW p \in Places, NEW l \in Locals,
           Step(t, p, l), LockMoves(t, p), l.cur = loc[t].cur,
           l.cur # NoSpan => p \in {"r_loop", "r_copy"},
           p = "r_copy" => l.cur # NoSpan,
           p \in {"r_sleep", "r_loop", "r_copy"} => current_rx = NoSpan,
           pc[t] # "active", p \notin {"active", "w_copy"},
           pc[t] \in {"w_copy", "w_put"} <=> p \in {"w_copy", "w_put"},
           p \in {"w_copy", "w_put"} => l.req = loc[t].req,
           UNCHANGED <<rxVars, txVars, ctlVars, broken, sent, got>>
    PROVE  IInv'
  <1>1. TypesOK /\ LocksOK /\ HandsOK /\ RxOK /\ QueueOK /\ TxOK
    BY DEF IInv
  <1>2. /\ UNCHANGED <<rx_reqs, rx_reqs_active, outq, rx_buffers, current_rx>>
        /\ UNCHANGED txVars /\ UNCHANGED <<got, sent>>
        /\ UNCHANGED <<ctlVars, broken>> /\ sent' \in Nat /\ got' \in Nat
    BY <1>1 DEF rxVars, TypesOK
  <1>3. TypesOK' /\ LocksOK' /\ HandsOK'
    BY <1>1, <1>2, ThreadStep
  <1>4. RxOK'
    BY <1>1, <1>2, RxSame DEF Step
  <1>5. QueueOK'
    BY <1>1, <1>2, QueueSame
  <1>6. TxOK'
    BY <1>1, <1>2, TxSame
  <1> QED BY <1>3, <1>4, <1>5, <1>6 DEF IInv

LEMMA LocalsKept ==
    ASSUME TypesOK, NEW t \in Threads
    PROVE  loc = [loc EXCEPT ![t] = loc[t]] /\ loc[t] \in Locals /\ pc[t] \in Places
  BY DEF TypesOK

LEMMA NoLocalsType == NoLocals \in Locals /\ NoLocals.cur = NoSpan
  BY DEF NoLocals, Locals

LEMMA EnterStep ==
    ASSUME IInv, NEW t \in Threads, NEW n \in Nat, NEW nonblock \in BOOLEAN,
           NEW fault \in BOOLEAN, NEW op \in {"read", "write", "fsync", "poll"},
           NEW first \in {"r_lock", "w_lock", "f_check", "p_lock"},
           Enter(t, op, first, n, nonblock, fault)
    PROVE  IInv'
  <1> DEFINE l == [NoLocals EXCEPT !.op = op, !.len = n, !.nonblock = nonblock,
                                   !.fault = fault]
  <1>1. l \in Locals /\ l.cur = NoSpan
    BY NoLocalsType DEF Locals
  <1>2. Step(t, first, l) /\ pc[t] = "idle"
    BY DEF Enter, Step, Goto
  <1>3. loc[t].cur = NoSpan
    BY <1>2 DEF IInv, HandsOK
  <1>4. LockMoves(t, first)
    BY <1>2 DEF LockMoves, Enter, InMutex, InLock
  <1>5. UNCHANGED <<rxVars, txVars, ctlVars, broken, sent, got>> /\ first \in Places
    BY DEF Enter, Places
  <1> HIDE DEF l
  <1> QED BY <1>1, <1>2, <1>3, <1>4, <1>5, QuietStep

\* Taking the locks, sleeping and waking up.
LEMMA LockingStep ==
    ASSUME IInv, NEW t \in Threads,
           \/ ReadLock(t) \/ PollLock(t) \/ WriteLock(t)
           \/ \E signal \in BOOLEAN : ReadWake(t, signal) \/ WriteWake(t, signal)
           \/ WriteFault(t)
           \/ FsyncCheck(t) /\ pc'[t] = "f_sleep"
    PROVE  IInv'
  <1> DEFINE p == pc'[t]
             l == loc[t]
  <1>1. TypesOK /\ LocksOK /\ HandsOK
    BY DEF IInv
  <1>2. loc = [loc EXCEPT ![t] = l] /\ l \in Locals
    BY <1>1, LocalsKept
  <1>3. /\ UNCHANGED <<rxVars, txVars, ctlVars, broken, sent, got>>
        /\ loc' = loc
    BY <1>1 DEF ReadLock, PollLock, WriteLock, ReadWake, WriteWake, WriteFault,
           FsyncCheck, Goto, TypesOK
  <1>4. /\ <<pc[t], p>> \in {<<"r_lock", "setup">>, <<"p_lock", "setup">>,
              <<"w_lock", "w_loop">>, <<"w_lock", "w_relock">>,
              <<"w_lock", "w_sleep">>, <<"r_sleep", "r_loop">>,
              <<"w_sleep", "w_loop">>, <<"w_copy", "w_put">>,
              <<"f_check", "f_sleep">>}
        /\ pc' = [pc EXCEPT ![t] = p]
    BY <1>1 DEF ReadLock, PollLock, WriteLock, ReadWake, WriteWake, WriteFault,
           FsyncCheck, Goto, TypesOK
  <1>5. LockMoves(t, p)
    <2>1. pc[t] \in InMutex => lock_scale_io = t
      BY <1>1 DEF LocksOK
    <2>2. pc[t] \in InLock => lock = t
      BY <1>1 DEF LocksOK
    <2>3. CASE ReadLock(t) \/ PollLock(t) \/ WriteLock(t)
      BY <1>1, <1>4, <2>3 DEF ReadLock, PollLock, WriteLock, Locks, LockMoves,
           InMutex, InLock, Goto, TypesOK
    <2>4. CASE \E signal \in BOOLEAN : ReadWake(t, signal) \/ WriteWake(t, signal)
      BY <1>1, <1>4, <2>1, <2>4 DEF ReadWake, WriteWake, LockMoves,
           InMutex, InLock, Goto, TypesOK
    <2>5. CASE WriteFault(t)
      BY <1>1, <1>4, <2>1, <2>5 DEF WriteFault, LockMoves, InMutex, InLock, Goto, TypesOK
    <2>6. CASE FsyncCheck(t) /\ p = "f_sleep"
      BY <1>1, <1>4, <2>6 DEF FsyncCheck, LockMoves, InMutex, InLock, Goto, TypesOK
    <2> QED BY <2>3, <2>4, <2>5, <2>6
  <1>6. /\ p \in Places /\ pc[t] # "active" /\ p \notin {"active", "w_copy", "r_copy"}
        /\ pc[t] \in {"w_copy", "w_put"} <=> p \in {"w_copy", "w_put"}
        /\ p \in {"r_sleep", "r_loop", "r_copy"} => pc[t] = "r_sleep"
        /\ pc[t] \notin {"r_loop", "r_copy"}
    BY <1>4 DEF Places
  <1>7. /\ l.cur = NoSpan
        /\ p \in {"r_sleep", "r_loop", "r_copy"} => current_rx = NoSpan
    BY <1>1, <1>6 DEF HandsOK
  <1>8. Step(t, p, l)
    BY <1>2, <1>3, <1>4 DEF Step
  <1> HIDE DEF p, l
  <1>9. l.cur = loc[t].cur /\ l.req = loc[t].req
    BY DEF l
  <1> QED BY <1>2, <1>3, <1>5, <1>6, <1>7, <1>8, <1>9, QuietStep

\* A span somebody holds is empty only if it is none.
LEMMA BytesOfHand ==
    ASSUME IInv, NEW g \in Hands
    PROVE  /\ g \in Filled \cup {NoSpan} /\ Bytes(g) \in Nat
           /\ Bytes(g) = 0 <=> g = NoSpan
  <1>1. PICK h \in Hands : /\ InHand(h) /\ RxPool(rx_reqs, outq, rx_buffers, h)
                           /\ Stream(h, rx_buffers, got, sent)
    BY DEF IInv, RxOK
  <1>2. CASE g = NoSpan
    BY SMTT(30), <1>2 DEF NoSpan, Bytes
  <1>3. CASE g # NoSpan
    <2>1. g = h /\ g \in Filled
      BY <1>1, <1>3 DEF InHand, RxPool
    <2>2. g.lo \in Nat /\ g.hi \in Nat /\ g.lo < g.hi
      BY <1>1, <1>3, <2>1 DEF Stream, Filled
    <2>3. Bytes(g) \in Nat /\ Bytes(g) # 0
      BY SMTT(30), <2>2 DEF Bytes
    <2> QED BY <1>3, <2>1, <2>3
  <1> QED BY <1>2, <1>3

\* Returning with nothing in hand.
LEMMA LeaveStep ==
    ASSUME IInv, NEW t \in Threads,
           pc[t] \in {"f_check", "f_sleep", "setup", "w_loop"},
           Step(t, "idle", NoLocals),
           \/ pc[t] \in InMutex /\ lock_scale_io' = NoThread /\ lock' = NoThread
           \/ pc[t] \notin InMutex /\ UNCHANGED <<lock_scale_io, lock>>,
           UNCHANGED <<rxVars, txVars, ctlVars, broken, sent, got>>
    PROVE  IInv'
  <1>1. TypesOK /\ LocksOK /\ HandsOK
    BY DEF IInv
  <1>2. LockMoves(t, "idle")
    BY DEF LockMoves, InMutex, InLock
  <1>3. loc[t].cur = NoSpan
    BY <1>1 DEF HandsOK
  <1>4. "idle" \in Places
    BY DEF Places
  <1> QED BY <1>2, <1>3, <1>4, NoLocalsType, QuietStep

LEMMA ReturnStep ==
    ASSUME IInv, NEW t \in Threads,
           \/ WriteDone(t) \/ PollDone(t)
           \/ FsyncCheck(t) /\ pc'[t] = "idle"
           \/ \E signal \in BOOLEAN : FsyncWake(t, signal)
    PROVE  IInv'
  <1>1. TypesOK
    BY DEF IInv
  <1>2. /\ pc[t] \in {"f_check", "f_sleep", "setup", "w_loop"}
        /\ UNCHANGED <<rxVars, txVars, ctlVars, broken, sent, got>>
    BY DEF WriteDone, PollDone, FsyncCheck, FsyncWake
  <1>3. Step(t, "idle", NoLocals)
    BY <1>1 DEF WriteDone, PollDone, FsyncCheck, FsyncWake, Return, Goto, Step,
                TypesOK
  <1>4. \/ pc[t] \in InMutex /\ lock_scale_io' = NoThread /\ lock' = NoThread
        \/ pc[t] \notin InMutex /\ UNCHANGED <<lock_scale_io, lock>>
    BY DEF WriteDone, PollDone, FsyncCheck, FsyncWake, Return, InMutex
  <1> QED BY <1>2, <1>3, <1>4, LeaveStep

\* setup_rx_reqs.
LEMMA SetupQueueStep ==
    ASSUME IInv, NEW t \in Threads, SetupQueue(t) PROVE IInv'
  <1>1. TypesOK /\ LocksOK /\ HandsOK /\ RxOK /\ QueueOK /\ TxOK
    BY DEF IInv
  <1>2. PICK r \in rx_reqs : /\ rx_reqs' = rx_reqs \ {r}
                             /\ outq' = Append(outq, r)
                             /\ loc' = [loc EXCEPT ![t].req = r]
    BY DEF SetupQueue
  <1> DEFINE l == [loc[t] EXCEPT !.req = r]
  <1>3. PICK h \in Hands : /\ InHand(h) /\ RxPool(rx_reqs, outq, rx_buffers, h)
                           /\ Stream(h, rx_buffers, got, sent)
    BY <1>1 DEF RxOK
  <1>4. r \in RxReqs
    BY <1>3 DEF RxPool
  <1>5. l \in Locals /\ l.cur = loc[t].cur /\ l.req = r
    BY <1>1, <1>4, LocalsKept DEF Locals
  <1>6. Step(t, "active", l) /\ pc[t] = "setup" /\ "active" \in Places
    BY <1>2 DEF Step, SetupQueue, Goto, Places
  <1>7. loc[t].cur = NoSpan
    BY <1>1, <1>6 DEF HandsOK
  <1>8. LockMoves(t, "active")
    BY <1>1, <1>6 DEF LockMoves, LocksOK, InMutex, InLock, SetupQueue
  <1>9. /\ UNCHANGED <<current_rx, rx_buffers, rx_reqs_active, sent, got>>
        /\ UNCHANGED <<ctlVars, broken>> /\ UNCHANGED txVars
    BY DEF SetupQueue
  <1> HIDE DEF l
  <1>10. TypesOK' /\ LocksOK' /\ HandsOK'
    <2>1. sent' \in Nat /\ got' \in Nat
      BY <1>1, <1>9 DEF TypesOK
    <2> QED BY <1>1, <1>5, <1>6, <1>7, <1>8, <1>9, <2>1, ThreadStep
  <1>11. /\ RxPool(rx_reqs', outq', rx_buffers', h)
         /\ Elems(outq') = Elems(outq) \cup {r}
    <2>1. RxPool(rx_reqs \ {r}, Append(outq, r), rx_buffers, h)
      BY <1>3, PoolQueue
    <2>2. outq \in Seq(RxReqs)
      BY <1>3 DEF RxPool
    <2>3. Elems(Append(outq, r)) = Elems(outq) \cup {r}
      BY SMTT(30), <1>4, <2>2, ElemsAppend
    <2> QED BY <1>2, <1>9, <2>1, <2>3
  <1>12. /\ pc'[t] = "active" /\ \A u \in Threads \ {t} : pc'[u] = pc[u]
         /\ loc'[t] = l /\ \A u \in Threads \ {t} : loc'[u] = loc[u]
    BY <1>1, <1>6 DEF Step, TypesOK
  <1>13. Hands' = Hands
    <2>1. \A u \in Threads : loc'[u].cur = loc[u].cur
      BY <1>5, <1>12
    <2> QED BY <1>9, <2>1 DEF Hands
  <1>14. RxOK'
    <2>1. Stream(h, rx_buffers', got', sent')
      BY <1>3, <1>9
    <2>2. InHand(h)' /\ h \in Hands'
      BY <1>3, <1>13 DEF InHand
    <2> QED BY <1>11, <2>1, <2>2, RxAfter
  <1>15. QueueOK'
    <2>1. \A u \in Threads \ {t} : pc[u] # "active"
      BY <1>1, <1>6, OthersEmpty DEF InMutex
    <2>2. Moving = {} /\ Moving' = {r}
      BY SMTT(30), <1>5, <1>6, <1>12, <2>1 DEF Moving
    <2>3. Elems(outq)' = Elems(outq')
      BY DEF Elems
    <2> QED BY <1>1, <1>9, <1>11, <2>2, <2>3 DEF QueueOK
  <1>16. TxOK'
    BY <1>1, <1>6, <1>9, TxSame
  <1> QED BY <1>10, <1>14, <1>15, <1>16 DEF IInv

LEMMA SetupActiveStep ==
    ASSUME IInv, NEW t \in Threads, SetupActive(t) PROVE IInv'
  <1>1. TypesOK /\ LocksOK /\ HandsOK /\ RxOK /\ QueueOK /\ TxOK
    BY DEF IInv
  <1> DEFINE l == [loc[t] EXCEPT !.req = NoReq]
  <1>2. l \in Locals /\ l.cur = loc[t].cur
    BY <1>1, LocalsKept DEF Locals
  <1>3. Step(t, "setup", l) /\ pc[t] = "active" /\ "setup" \in Places
    BY DEF Step, SetupActive, Goto, Places
  <1>4. loc[t].cur = NoSpan
    BY <1>1, <1>3 DEF HandsOK
  <1>5. LockMoves(t, "setup")
    BY <1>1, <1>3 DEF LockMoves, LocksOK, InMutex, InLock, SetupActive
  <1>6. /\ UNCHANGED <<rx_reqs, outq, rx_buffers, current_rx, got, sent>>
        /\ UNCHANGED <<ctlVars, broken>> /\ UNCHANGED txVars
        /\ rx_reqs_active' = rx_reqs_active \cup {loc[t].req}
    BY DEF SetupActive
  <1> HIDE DEF l
  <1>7. TypesOK' /\ LocksOK' /\ HandsOK'
    <2>1. sent' \in Nat /\ got' \in Nat
      BY <1>1, <1>6 DEF TypesOK
    <2> QED BY <1>1, <1>2, <1>3, <1>4, <1>5, <1>6, <2>1, ThreadStep
  <1>8. RxOK'
    BY <1>1, <1>2, <1>3, <1>6, RxSame DEF Step
  <1>9. QueueOK'
    <2>1. \A u \in Threads \ {t} : pc[u] # "active"
      BY <1>1, <1>3, OthersEmpty DEF InMutex
    <2>2. pc'[t] = "setup" /\ \A u \in Threads \ {t} : pc'[u] = pc[u]
      BY <1>1, <1>3 DEF Step, TypesOK
    <2>3. Moving = {loc[t].req} /\ Moving' = {}
      BY <1>3, <2>1, <2>2 DEF Moving
    <2>4. Elems(outq)' = Elems(outq)
      BY <1>6 DEF Elems
    <2>5. Elems(outq) \subseteq RxReqs
      BY <1>1 DEF RxOK, RxPool, Elems
    <2> QED BY <1>1, <1>6, <2>3, <2>4, <2>5 DEF QueueOK
  <1>10. TxOK'
    BY <1>1, <1>3, <1>6, TxSame
  <1> QED BY <1>7, <1>8, <1>9, <1>10 DEF IInv

-----------------------------------------------------------------------------
\* A reader's step with the spans: what it reads is h before and g after.
LEMMA ReaderStep ==
    ASSUME IInv, NEW t \in Threads, NEW p \in Places, NEW l \in Locals,
           Step(t, p, l), LockMoves(t, p),
           pc[t] \in {"setup", "r_loop", "r_copy"},
           p \in {"idle", "r_sleep", "r_loop", "r_copy"},
           l.cur # NoSpan => p \in {"r_loop", "r_copy"},
           p = "r_copy" => l.cur # NoSpan,
           p # "idle" => current_rx' = NoSpan,
           got' \in Nat,
           NEW g, g \in {current_rx', l.cur},
           {current_rx', l.cur} \subseteq {g, NoSpan},
           RxPool(rx_reqs', outq', rx_buffers', g),
           Stream(g, rx_buffers', got', sent'),
           UNCHANGED <<txVars, ctlVars, broken, sent, outq, rx_reqs_active>>
    PROVE  IInv'
  <1>1. TypesOK /\ LocksOK /\ HandsOK /\ QueueOK /\ TxOK
    BY DEF IInv
  <1>2. pc[t] \in InMutex
    BY DEF InMutex
  <1>3. /\ UNCHANGED <<ctlVars, broken>> /\ UNCHANGED txVars
        /\ UNCHANGED <<outq, rx_reqs_active>> /\ sent' \in Nat
    BY <1>1 DEF TypesOK
  <1>4. TypesOK' /\ LocksOK' /\ HandsOK'
    BY <1>1, <1>2, <1>3, ThreadStep
  <1>5. RxOK'
    <2>1. InHand(g)'
      BY <1>1, <1>2, HandStep DEF Step
    <2> QED BY <2>1, RxAfter
  <1>6. QueueOK'
    BY <1>1, <1>3, QueueSame
  <1>7. TxOK'
    BY <1>1, <1>3, TxSame
  <1> QED BY <1>4, <1>5, <1>6, <1>7 DEF IInv

LEMMA ReadTakeStep ==
    ASSUME IInv, NEW t \in Threads, ReadTake(t) PROVE IInv'
  <1>1. TypesOK /\ LocksOK /\ HandsOK /\ RxOK
    BY DEF IInv
  <1>2. /\ pc[t] = "setup" /\ current_rx' = NoSpan
        /\ UNCHANGED <<rx_reqs, rx_reqs_active, rx_buffers, outq, txVars, ctlVars,
                       broken, sent, got>>
    BY DEF ReadTake
  <1>3. loc[t].cur = NoSpan /\ lock_scale_io = t /\ lock = t /\ got \in Nat
    BY <1>1, <1>2 DEF HandsOK, LocksOK, InMutex, InLock, TypesOK
  <1>4. PICK h \in Hands : /\ InHand(h) /\ RxPool(rx_reqs, outq, rx_buffers, h)
                           /\ Stream(h, rx_buffers, got, sent)
    BY <1>1 DEF RxOK
  <1>5. h \in {current_rx, loc[t].cur} /\ {current_rx, loc[t].cur} \subseteq {h, NoSpan}
    BY <1>1, <1>2, <1>4, HandIs DEF InMutex
  <1>6. h = current_rx
    BY <1>3, <1>5
  <1>7. /\ current_rx \in Filled \cup {NoSpan}
        /\ Bytes(current_rx) = 0 <=> current_rx = NoSpan
    BY BytesOfHand DEF Hands
  <1>8. /\ RxPool(rx_reqs', outq', rx_buffers', h)
        /\ Stream(h, rx_buffers', got', sent') /\ got' \in Nat
    BY <1>2, <1>3, <1>4
  <1>9. loc[t] \in Locals /\ loc = [loc EXCEPT ![t] = loc[t]]
    BY <1>1, LocalsKept
  <1>10. CASE /\ loc' = [loc EXCEPT ![t].cur = current_rx]
              /\ Goto(t, "r_loop") /\ UNCHANGED <<lock_scale_io, lock>>
    <2> DEFINE l == [loc[t] EXCEPT !.cur = current_rx]
    <2>1. l \in Locals /\ l.cur = h
      BY <1>6, <1>7, <1>9 DEF Locals
    <2>2. Step(t, "r_loop", l) /\ "r_loop" \in Places
      BY <1>10 DEF Step, Goto, Places
    <2>3. LockMoves(t, "r_loop")
      BY <1>3, <1>10 DEF LockMoves, InMutex, InLock
    <2> HIDE DEF l
    <2> QED BY <1>2, <1>8, <2>1, <2>2, <2>3, ReaderStep
  <1>11. CASE Bytes(current_rx) = 0 /\ Return(t)
    <2>1. Step(t, "idle", NoLocals) /\ "idle" \in Places
      BY <1>11 DEF Return, Step, Goto, Places
    <2>2. LockMoves(t, "idle")
      BY <1>2, <1>11 DEF LockMoves, Return, InMutex, InLock
    <2>3. h = NoSpan /\ NoLocals.cur = h
      BY <1>6, <1>7, <1>11, NoLocalsType
    <2> QED BY <1>2, <1>8, <2>1, <2>2, <2>3, NoLocalsType, ReaderStep
  <1>12. CASE /\ Bytes(current_rx) = 0 /\ Goto(t, "r_sleep")
              /\ lock' = NoThread /\ UNCHANGED <<lock_scale_io, loc>>
    <2>1. Step(t, "r_sleep", loc[t]) /\ "r_sleep" \in Places
      BY <1>9, <1>12 DEF Step, Goto, Places
    <2>2. LockMoves(t, "r_sleep")
      BY <1>2, <1>3, <1>12 DEF LockMoves, InMutex, InLock
    <2>3. h = NoSpan
      BY <1>6, <1>7, <1>12
    <2> QED BY <1>2, <1>3, <1>8, <1>9, <2>1, <2>2, <2>3, ReaderStep
  <1> QED BY <1>10, <1>11, <1>12 DEF ReadTake

LEMMA ReadNextStep ==
    ASSUME IInv, NEW t \in Threads, ReadNext(t) PROVE IInv'
  <1>1. TypesOK /\ LocksOK /\ HandsOK /\ RxOK
    BY DEF IInv
  <1>2. /\ pc[t] = "r_loop" /\ lock' = NoThread /\ Goto(t, "r_copy")
        /\ UNCHANGED <<rx_reqs, rx_reqs_active, current_rx, outq, txVars, ctlVars,
                       lock_scale_io, broken, sent, got>>
    BY DEF ReadNext
  <1>3. current_rx = NoSpan /\ lock_scale_io = t /\ lock = t /\ got \in Nat
    BY <1>1, <1>2 DEF HandsOK, LocksOK, InMutex, InLock, TypesOK
  <1>4. PICK h \in Hands : /\ InHand(h) /\ RxPool(rx_reqs, outq, rx_buffers, h)
                           /\ Stream(h, rx_buffers, got, sent)
    BY <1>1 DEF RxOK
  <1>5. h = loc[t].cur
    <2>1. h \in {current_rx, loc[t].cur} /\ {current_rx, loc[t].cur} \subseteq {h, NoSpan}
      BY <1>1, <1>2, <1>4, HandIs DEF InMutex
    <2> QED BY <1>3, <2>1
  <1>6. h \in Filled \cup {NoSpan} /\ (Bytes(h) = 0 <=> h = NoSpan) /\ Bytes(h) \in Nat
    BY BytesOfHand
  <1>7. loc[t] \in Locals /\ loc = [loc EXCEPT ![t] = loc[t]]
    BY <1>1, LocalsKept
  <1>8. LockMoves(t, "r_copy") /\ "r_copy" \in Places
    BY <1>2, <1>3 DEF LockMoves, InMutex, InLock, Places
  <1>9. CASE Bytes(h) > 0 /\ UNCHANGED <<rx_buffers, loc>>
    <2>1. Step(t, "r_copy", loc[t])
      BY <1>2, <1>7, <1>9 DEF Step, Goto
    <2>2. h # NoSpan
      BY SMTT(30), <1>6, <1>9
    <2>3. /\ RxPool(rx_reqs', outq', rx_buffers', h)
          /\ Stream(h, rx_buffers', got', sent') /\ got' \in Nat
          /\ current_rx' = NoSpan
      BY <1>2, <1>3, <1>4, <1>9
    <2> QED BY <1>2, <1>5, <1>7, <1>8, <2>1, <2>2, <2>3, ReaderStep
  <1>10. CASE /\ Bytes(h) = 0 /\ rx_buffers # <<>>
              /\ rx_buffers' = Tail(rx_buffers)
              /\ loc' = [loc EXCEPT ![t].cur = Head(rx_buffers)]
    <2> DEFINE g == Head(rx_buffers)
               l == [loc[t] EXCEPT !.cur = g]
    <2>1. h = NoSpan
      BY <1>6, <1>10
    <2>2. RxPool(rx_reqs, outq, Tail(rx_buffers), g) /\ g \in Filled
      BY <1>4, <1>10, <2>1, PoolTake
    <2>3. rx_buffers \in Seq(Filled)
      BY <1>4 DEF RxPool
    <2>4. Chain(rx_buffers, got, sent)
      BY <1>4, <2>1 DEF Stream
    <2>5. Chain(Tail(rx_buffers), g.hi, sent) /\ g.lo = got /\ g.lo < g.hi
      BY <1>10, <2>3, <2>4, ChainTail
    <2>6. g # NoSpan
      BY <2>2, FilledIsSpan
    <2> HIDE DEF g
    <2>7. Stream(g, Tail(rx_buffers), got, sent)
      BY <2>5, <2>6 DEF Stream
    <2>8. l \in Locals /\ l.cur = g
      BY <1>7, <2>2 DEF Locals
    <2>9. Step(t, "r_copy", l)
      BY <1>2, <1>10 DEF Step, Goto, g
    <2>10. /\ RxPool(rx_reqs', outq', rx_buffers', g)
           /\ Stream(g, rx_buffers', got', sent') /\ got' \in Nat
           /\ current_rx' = NoSpan
      BY <1>2, <1>3, <1>10, <2>2, <2>7
    <2> HIDE DEF l
    <2> QED BY <1>2, <1>8, <2>6, <2>8, <2>9, <2>10, ReaderStep
  <1> QED BY <1>5, <1>9, <1>10 DEF ReadNext

LEMMA ReadCopyStep ==
    ASSUME IInv, NEW t \in Threads, ReadCopy(t) PROVE IInv'
  <1> DEFINE h == loc[t].cur
             size == IF loc[t].fault THEN 0
                     ELSE IF loc[t].len > Bytes(h) THEN Bytes(h) ELSE loc[t].len
             rest == [h EXCEPT !.lo = @ + size]
  <1>1. TypesOK /\ LocksOK /\ HandsOK /\ RxOK
    BY DEF IInv
  <1>2. /\ pc[t] = "r_copy" /\ lock = NoThread /\ lock' = t /\ got' = rest.lo
        /\ Goto(t, "r_loop")
        /\ UNCHANGED <<rx_reqs_active, rx_buffers, current_rx, outq, txVars,
                       ctlVars, lock_scale_io, broken, sent>>
    BY DEF ReadCopy
  <1>3. /\ current_rx = NoSpan /\ lock_scale_io = t /\ got \in Nat
        /\ h # NoSpan
    BY <1>1, <1>2 DEF HandsOK, LocksOK, InMutex, InLock, TypesOK
  <1>4. RxPool(rx_reqs, outq, rx_buffers, h) /\ Stream(h, rx_buffers, got, sent)
    <2>1. PICK g \in Hands : /\ InHand(g) /\ RxPool(rx_reqs, outq, rx_buffers, g)
                             /\ Stream(g, rx_buffers, got, sent)
      BY <1>1 DEF RxOK
    <2>2. h \in Hands
      BY DEF Hands
    <2>3. g = h
      BY <1>3, <2>1, <2>2 DEF InHand
    <2> QED BY <2>1, <2>3
  <1>5. /\ h \in Filled /\ h.lo \in Nat /\ h.hi \in Nat /\ h.lo < h.hi
        /\ h.lo = got /\ Chain(rx_buffers, h.hi, sent)
    BY <1>3, <1>4 DEF RxPool, Stream, Filled
  <1>6. loc[t] \in Locals /\ loc[t].len \in Nat
    BY <1>1, LocalsKept DEF Locals
  <1>7. /\ size \in Nat /\ size <= Bytes(h) /\ size <= loc[t].len
        /\ Bytes(h) = h.hi - h.lo
    <2> DEFINE b == Bytes(h)
               n == loc[t].len
    <2>1. b = h.hi - h.lo /\ b \in Nat /\ n \in Nat
      BY SMTT(30), <1>5, <1>6 DEF Bytes
    <2>2. size = IF loc[t].fault THEN 0 ELSE IF n > b THEN b ELSE n
      OBVIOUS
    <2> HIDE DEF b, n, h, size
    <2>3. size \in Nat /\ size <= b /\ size <= n
      BY SMTT(30), <2>1, <2>2
    <2> QED BY <2>1, <2>3 DEF b, n
  <1>8. /\ rest.req = h.req /\ rest.lo = h.lo + size /\ rest.hi = h.hi
        /\ rest \in Filled /\ h.lo + size \in Nat /\ loc[t].len - size \in Nat
    BY SMTT(30), <1>5, <1>6, <1>7 DEF Filled
  <1>9. LockMoves(t, "r_loop") /\ "r_loop" \in Places
    BY <1>2, <1>3 DEF LockMoves, InMutex, InLock, Places
  <1>10. CASE /\ size < Bytes(h) /\ UNCHANGED rx_reqs
              /\ loc' = [loc EXCEPT ![t].len = @ - size, ![t].cur = rest]
    <2> DEFINE l == [loc[t] EXCEPT !.len = @ - size, !.cur = rest]
    <2> HIDE DEF h, size, rest
    <2>1. l \in Locals /\ l.cur = rest
      BY <1>6, <1>8 DEF Locals
    <2>2. Step(t, "r_loop", l)
      BY <1>1, <1>2, <1>10 DEF Step, Goto, TypesOK
    <2>3. rest # NoSpan
      BY <1>8, FilledIsSpan
    <2>4. rest.lo < rest.hi
      BY SMTT(30), <1>5, <1>7, <1>8, <1>10
    <2>5. Stream(rest, rx_buffers, rest.lo, sent)
      BY <1>5, <1>8, <2>3, <2>4 DEF Stream
    <2>6. RxPool(rx_reqs, outq, rx_buffers, rest)
      BY <1>4, <1>8, PoolPart
    <2>7. /\ RxPool(rx_reqs', outq', rx_buffers', rest)
          /\ Stream(rest, rx_buffers', got', sent') /\ got' \in Nat
          /\ current_rx' = NoSpan
      BY <1>2, <1>3, <1>8, <1>10, <2>5, <2>6
    <2> HIDE DEF l
    <2> QED BY <1>2, <1>9, <2>1, <2>2, <2>7, ReaderStep
  <1>11. CASE /\ size = Bytes(h) /\ rx_reqs' = rx_reqs \cup {h.req}
              /\ loc' = [loc EXCEPT ![t].len = @ - size, ![t].cur = NoSpan]
    <2> DEFINE l == [loc[t] EXCEPT !.len = @ - size, !.cur = NoSpan]
    <2> HIDE DEF h, size, rest
    <2>1. l \in Locals /\ l.cur = NoSpan
      BY <1>6, <1>8 DEF Locals
    <2>2. Step(t, "r_loop", l)
      BY <1>1, <1>2, <1>11 DEF Step, Goto, TypesOK
    <2>3. rest.lo = h.hi
      BY SMTT(30), <1>5, <1>7, <1>8, <1>11
    <2>4. Stream(NoSpan, rx_buffers, rest.lo, sent)
      BY <1>5, <2>3 DEF Stream
    <2>5. RxPool(rx_reqs \cup {h.req}, outq, rx_buffers, NoSpan)
      BY <1>4, <1>5, PoolFree
    <2>6. /\ RxPool(rx_reqs', outq', rx_buffers', NoSpan)
          /\ Stream(NoSpan, rx_buffers', got', sent') /\ got' \in Nat
          /\ current_rx' = NoSpan
      BY <1>2, <1>3, <1>8, <1>11, <2>4, <2>5
    <2> HIDE DEF l
    <2> QED BY <1>2, <1>9, <2>1, <2>2, <2>6, ReaderStep
  <1> QED BY <1>10, <1>11 DEF ReadCopy

LEMMA ReadDoneStep ==
    ASSUME IInv, NEW t \in Threads, ReadDone(t) PROVE IInv'
  <1>1. TypesOK /\ LocksOK /\ HandsOK /\ RxOK
    BY DEF IInv
  <1>2. /\ pc[t] = "r_loop" /\ current_rx' = loc[t].cur /\ Return(t)
        /\ UNCHANGED <<rx_reqs, rx_reqs_active, rx_buffers, outq, txVars, ctlVars,
                       broken, sent, got>>
    BY DEF ReadDone
  <1>3. current_rx = NoSpan /\ got \in Nat
    BY <1>1, <1>2 DEF HandsOK, TypesOK
  <1>4. PICK h \in Hands : /\ InHand(h) /\ RxPool(rx_reqs, outq, rx_buffers, h)
                           /\ Stream(h, rx_buffers, got, sent)
    BY <1>1 DEF RxOK
  <1>5. h = loc[t].cur
    <2>1. h \in {current_rx, loc[t].cur} /\ {current_rx, loc[t].cur} \subseteq {h, NoSpan}
      BY <1>1, <1>2, <1>4, HandIs DEF InMutex
    <2> QED BY <1>3, <2>1
  <1>6. Step(t, "idle", NoLocals) /\ "idle" \in Places
    BY <1>2 DEF Return, Step, Goto, Places
  <1>7. LockMoves(t, "idle")
    BY <1>2 DEF LockMoves, Return, InMutex, InLock
  <1>8. /\ RxPool(rx_reqs', outq', rx_buffers', h)
        /\ Stream(h, rx_buffers', got', sent') /\ got' \in Nat
    BY <1>2, <1>3, <1>4
  <1>9. NoLocals \in Locals /\ NoLocals.cur = NoSpan
    BY NoLocalsType
  <1> QED BY <1>2, <1>5, <1>6, <1>7, <1>8, <1>9, ReaderStep

-----------------------------------------------------------------------------
\* The IN request in hand is that of the thread that holds the mutex.
LEMMA TxInHand ==
    ASSUME LocksOK, HandsOK, NEW t \in Threads, pc[t] \in InMutex
    PROVE  {loc[u].req : u \in TxHolders}
             = IF pc[t] \in {"w_copy", "w_put"} THEN {loc[t].req} ELSE {}
  <1>1. \A u \in Threads \ {t} : pc[u] \notin {"w_copy", "w_put"}
    BY OthersEmpty
  <1> QED BY <1>1 DEF TxHolders

LEMMA WriterStep ==
    ASSUME IInv, NEW t \in Threads, NEW p \in Places, NEW l \in Locals,
           Step(t, p, l), LockMoves(t, p), l.cur = NoSpan,
           p = "w_copy" => l.len > 0,
           pc[t] \in {"w_loop", "w_copy", "w_put"}, p \in {"idle", "w_loop", "w_copy"},
           tx_reqs' \subseteq TxReqs, tx_reqs_active' \subseteq TxReqs,
           inq' = tx_reqs_active', tx_reqs' \cap tx_reqs_active' = {},
           TxReqs \ (tx_reqs' \cup tx_reqs_active')
             = IF p = "w_copy" THEN {l.req} ELSE {},
           UNCHANGED <<rxVars, ctlVars, broken, sent, got>>
    PROVE  IInv'
  <1>1. TypesOK /\ LocksOK /\ HandsOK /\ RxOK /\ QueueOK
    BY DEF IInv
  <1>2. /\ UNCHANGED <<rx_reqs, outq, rx_buffers, current_rx, got, sent>>
        /\ UNCHANGED <<outq, rx_reqs_active>> /\ UNCHANGED <<ctlVars, broken>>
        /\ sent' \in Nat /\ got' \in Nat
    BY <1>1 DEF rxVars, TypesOK
  <1>3. TypesOK' /\ LocksOK' /\ HandsOK'
    BY <1>1, <1>2, ThreadStep
  <1>4. loc[t].cur = NoSpan
    BY <1>1 DEF HandsOK
  <1>5. RxOK'
    BY <1>1, <1>2, <1>4, RxSame DEF Step
  <1>6. QueueOK'
    BY <1>1, <1>2, QueueSame
  <1>7. TxOK'
    <2>1. /\ pc'[t] = p /\ \A u \in Threads \ {t} : pc'[u] = pc[u]
          /\ loc'[t] = l
      BY <1>1 DEF Step, TypesOK
    <2>2. \A u \in Threads \ {t} : pc'[u] \notin {"w_copy", "w_put"}
      BY <1>1, <2>1, OthersEmpty DEF InMutex
    <2>3. {loc'[u].req : u \in TxHolders'} = IF p = "w_copy" THEN {l.req} ELSE {}
      BY <2>1, <2>2 DEF TxHolders
    <2> QED BY <2>3 DEF TxOK
  <1> QED BY <1>3, <1>5, <1>6, <1>7 DEF IInv

LEMMA WriteNextStep ==
    ASSUME IInv, NEW t \in Threads, WriteNext(t) PROVE IInv'
  <1>1. TypesOK /\ LocksOK /\ HandsOK /\ TxOK
    BY DEF IInv
  <1>2. PICK r \in tx_reqs : tx_reqs' = tx_reqs \ {r} /\ loc' = [loc EXCEPT ![t].req = r]
    BY DEF WriteNext
  <1>3. /\ pc[t] = "w_loop" /\ lock' = NoThread /\ Goto(t, "w_copy")
        /\ UNCHANGED <<rxVars, ctlVars, broken, sent, got>>
        /\ UNCHANGED <<tx_reqs_active, inq, lock_scale_io>>
    BY DEF WriteNext
  <1> DEFINE l == [loc[t] EXCEPT !.req = r]
  <1>4. pc[t] \in InMutex /\ lock_scale_io = t /\ loc[t].cur = NoSpan
    BY <1>1, <1>3 DEF InMutex, LocksOK, HandsOK
  <1>5. l \in Locals /\ l.cur = NoSpan /\ l.req = r /\ l.len > 0
    BY <1>1, <1>4, LocalsKept DEF Locals, TxOK, WriteNext
  <1>6. Step(t, "w_copy", l) /\ "w_copy" \in Places
    BY <1>2, <1>3 DEF Step, Goto, Places
  <1>7. LockMoves(t, "w_copy")
    BY <1>3, <1>4 DEF LockMoves, InMutex, InLock
  <1>8. TxReqs \ (tx_reqs \cup tx_reqs_active) = {}
    BY <1>1, <1>3, <1>4, TxInHand DEF TxOK
  <1>9. /\ tx_reqs' \subseteq TxReqs /\ tx_reqs_active' \subseteq TxReqs
        /\ inq' = tx_reqs_active' /\ tx_reqs' \cap tx_reqs_active' = {}
        /\ TxReqs \ (tx_reqs' \cup tx_reqs_active') = {r}
    BY <1>1, <1>2, <1>3, <1>8 DEF TxOK
  <1> HIDE DEF l
  <1> QED BY <1>3, <1>5, <1>6, <1>7, <1>9, WriterStep

LEMMA WritePutBackStep ==
    ASSUME IInv, NEW t \in Threads, WritePutBack(t) PROVE IInv'
  <1>1. TypesOK /\ LocksOK /\ HandsOK /\ TxOK
    BY DEF IInv
  <1>2. /\ pc[t] = "w_put" /\ Return(t) /\ tx_reqs' = tx_reqs \cup {loc[t].req}
        /\ lock = NoThread
        /\ UNCHANGED <<rxVars, ctlVars, broken, sent, got>>
        /\ UNCHANGED <<tx_reqs_active, inq>>
    BY DEF WritePutBack
  <1>3. Step(t, "idle", NoLocals) /\ "idle" \in Places
    BY <1>2 DEF Return, Step, Goto, Places
  <1>4. LockMoves(t, "idle")
    BY <1>2 DEF LockMoves, Return, InMutex, InLock
  <1>5. TxReqs \ (tx_reqs \cup tx_reqs_active) = {loc[t].req}
    BY <1>1, <1>2, TxInHand DEF TxOK, InMutex
  <1>6. /\ tx_reqs' \subseteq TxReqs /\ tx_reqs_active' \subseteq TxReqs
        /\ inq' = tx_reqs_active' /\ tx_reqs' \cap tx_reqs_active' = {}
        /\ TxReqs \ (tx_reqs' \cup tx_reqs_active') = {}
    BY <1>1, <1>2, <1>5 DEF TxOK
  <1> QED BY <1>2, <1>3, <1>4, <1>6, NoLocalsType, WriterStep

LEMMA WriteQueueStep ==
    ASSUME IInv, NEW t \in Threads, WriteQueue(t) PROVE IInv'
  <1>1. TypesOK /\ LocksOK /\ HandsOK /\ TxOK
    BY DEF IInv
  <1>2. /\ pc[t] = "w_copy" /\ lock = NoThread
        /\ UNCHANGED <<rxVars, ctlVars, broken, sent, got>>
    BY DEF WriteQueue
  <1>3. TxReqs \ (tx_reqs \cup tx_reqs_active) = {loc[t].req}
    BY <1>1, <1>2, TxInHand DEF TxOK, InMutex
  <1>4. lock_scale_io = t /\ loc[t].cur = NoSpan
    BY <1>1, <1>2 DEF InMutex, LocksOK, HandsOK
  <1>5. CASE /\ inq' = inq \cup {loc[t].req}
             /\ tx_reqs_active' = tx_reqs_active \cup {loc[t].req}
             /\ loc' = [loc EXCEPT ![t].req = NoReq, ![t].len = @ - 1]
             /\ lock' = t /\ Goto(t, "w_loop") /\ UNCHANGED <<tx_reqs, lock_scale_io>>
    <2> DEFINE l == [loc[t] EXCEPT !.req = NoReq, !.len = @ - 1]
    <2>1. l \in Locals /\ l.cur = NoSpan
      <3>1. loc[t].len - 1 \in Nat
        BY SMTT(30), <1>1, <1>2, LocalsKept DEF Locals, HandsOK
      <3> QED BY <1>1, <1>4, <3>1, LocalsKept DEF Locals
    <2>2. Step(t, "w_loop", l) /\ "w_loop" \in Places
      BY <1>1, <1>5 DEF Step, Goto, TypesOK, Places
    <2>3. LockMoves(t, "w_loop")
      BY <1>2, <1>4, <1>5 DEF LockMoves, InMutex, InLock
    <2>4. /\ tx_reqs' \subseteq TxReqs /\ tx_reqs_active' \subseteq TxReqs
          /\ inq' = tx_reqs_active' /\ tx_reqs' \cap tx_reqs_active' = {}
          /\ TxReqs \ (tx_reqs' \cup tx_reqs_active') = {}
      BY <1>1, <1>3, <1>5 DEF TxOK
    <2> HIDE DEF l
    <2> QED BY <1>2, <2>1, <2>2, <2>3, <2>4, WriterStep
  <1>6. CASE /\ tx_reqs' = tx_reqs \cup {loc[t].req} /\ Return(t)
             /\ UNCHANGED <<inq, tx_reqs_active>>
    <2>1. Step(t, "idle", NoLocals) /\ "idle" \in Places
      BY <1>6 DEF Return, Step, Goto, Places
    <2>2. LockMoves(t, "idle")
      BY <1>2, <1>6 DEF LockMoves, Return, InMutex, InLock
    <2>3. /\ tx_reqs' \subseteq TxReqs /\ tx_reqs_active' \subseteq TxReqs
          /\ inq' = tx_reqs_active' /\ tx_reqs' \cap tx_reqs_active' = {}
          /\ TxReqs \ (tx_reqs' \cup tx_reqs_active') = {}
      BY <1>1, <1>3, <1>6 DEF TxOK
    <2> QED BY <1>2, <2>1, <2>2, <2>3, NoLocalsType, WriterStep
  <1> QED BY <1>5, <1>6 DEF WriteQueue

-----------------------------------------------------------------------------
\* An interrupt moves requests, and no thread: one processor runs it only
\* while no thread is inside setup_rx_reqs.
LEMMA IrqStep ==
    ASSUME IInv, lock = NoThread,
           UNCHANGED <<thrVars, lock_scale_io, lock, current_rx, got>>,
           interface' \in {-1, 0}, config' \in {0, 1}, enabled' \in BOOLEAN,
           broken' \in {"no", "lists", "oops", "deadlock"}, sent' \in Nat,
           \A h \in Hands :
              /\ InHand(h) /\ RxPool(rx_reqs, outq, rx_buffers, h)
              /\ Stream(h, rx_buffers, got, sent)
              => /\ RxPool(rx_reqs', outq', rx_buffers', h)
                 /\ Stream(h, rx_buffers', got, sent'),
           Elems(outq) = rx_reqs_active => Elems(outq') = rx_reqs_active',
           rx_reqs_active' \subseteq RxReqs,
           tx_reqs' \subseteq TxReqs, tx_reqs_active' \subseteq TxReqs,
           inq' = tx_reqs_active', tx_reqs' \cap tx_reqs_active' = {},
           tx_reqs' \cup tx_reqs_active' = tx_reqs \cup tx_reqs_active
    PROVE  IInv'
  <1>1. TypesOK /\ LocksOK /\ HandsOK /\ RxOK /\ QueueOK /\ TxOK
    BY DEF IInv
  <1>2. pc' = pc /\ loc' = loc /\ current_rx' = current_rx /\ got' = got
        /\ lock_scale_io' = lock_scale_io /\ lock' = lock
    BY DEF thrVars
  <1>3. TypesOK'
    BY <1>1, <1>2 DEF TypesOK
  <1>4. LocksOK' /\ HandsOK'
    BY <1>1, <1>2 DEF LocksOK, HandsOK
  <1>5. RxOK'
    <2>1. PICK h \in Hands : /\ InHand(h) /\ RxPool(rx_reqs, outq, rx_buffers, h)
                             /\ Stream(h, rx_buffers, got, sent)
      BY <1>1 DEF RxOK
    <2>2. InHand(h)'
      BY <1>2, <2>1 DEF InHand, Hands
    <2>3. /\ RxPool(rx_reqs', outq', rx_buffers', h)
          /\ Stream(h, rx_buffers', got', sent')
      BY <1>2, <2>1
    <2> QED BY <2>2, <2>3, RxAfter
  <1>6. QueueOK'
    <2>1. \A u \in Threads : pc[u] # "active"
      BY <1>1, ScaleIoAssumption DEF LocksOK, InLock
    <2>2. Moving = {} /\ Moving' = {}
      BY <1>2, <2>1 DEF Moving
    <2>3. Elems(outq') = rx_reqs_active'
      BY <1>1, <2>2 DEF QueueOK
    <2>4. Elems(outq)' = Elems(outq')
      BY DEF Elems
    <2> QED BY <2>2, <2>3, <2>4 DEF QueueOK
  <1>7. TxOK'
    <2>1. {loc'[u].req : u \in TxHolders'} = {loc[u].req : u \in TxHolders}
      BY <1>2 DEF TxHolders
    <2> QED BY <1>1, <2>1 DEF TxOK
  <1> QED BY <1>3, <1>4, <1>5, <1>6, <1>7 DEF IInv

LEMMA RxCompleteStep ==
    ASSUME IInv, ~SMP, NEW n \in Nat, RxComplete(n) PROVE IInv'
  <1> DEFINE r == Head(outq)
             span == [req |-> r, lo |-> sent, hi |-> sent + n]
  <1>1. TypesOK /\ RxOK /\ QueueOK /\ TxOK /\ sent \in Nat
    BY DEF IInv, TypesOK
  <1>2. /\ lock = NoThread /\ outq # <<>> /\ outq' = Tail(outq)
        /\ rx_reqs_active' = rx_reqs_active \ {r} /\ sent' = sent + n
        /\ UNCHANGED <<thrVars, lock_scale_io, lock, current_rx, got>>
        /\ UNCHANGED <<txVars, ctlVars, broken>>
    BY DEF RxComplete, IrqsOn
  <1>3. /\ n > 0 => rx_buffers' = Append(rx_buffers, span) /\ rx_reqs' = rx_reqs
        /\ ~(n > 0) => rx_reqs' = rx_reqs \cup {r} /\ rx_buffers' = rx_buffers
    BY DEF RxComplete
  <1>4. ASSUME NEW h, RxPool(rx_reqs, outq, rx_buffers, h)
        PROVE  RxPool(rx_reqs', outq', rx_buffers', h)
    <2>1. CASE n > 0
      <3>1. r \in RxReqs
        BY <1>2, <1>4, PoolEmpty
      <3>2. span \in Filled /\ span.req = Head(outq)
        BY SMTT(30), <1>1, <3>1 DEF Filled
      <3> HIDE DEF span
      <3>3. RxPool(rx_reqs, Tail(outq), Append(rx_buffers, span), h)
        BY <1>2, <1>4, <3>2, PoolFill
      <3> QED BY <1>2, <1>3, <2>1, <3>3
    <2>2. CASE ~(n > 0)
      <3>1. RxPool(rx_reqs \cup {Head(outq)}, Tail(outq), rx_buffers, h)
        BY <1>2, <1>4, PoolEmpty
      <3> QED BY <1>2, <1>3, <2>2, <3>1
    <2> QED BY <2>1, <2>2
  <1>5. ASSUME NEW h, RxPool(rx_reqs, outq, rx_buffers, h),
               Stream(h, rx_buffers, got, sent)
        PROVE  Stream(h, rx_buffers', got, sent')
    <2>1. CASE n > 0
      <3>1. r \in RxReqs /\ rx_buffers \in Seq(Filled)
        BY <1>2, <1>5, PoolEmpty DEF RxPool
      <3>2. /\ span \in Filled /\ span.lo = sent /\ span.lo < span.hi
            /\ span.hi = sent + n
        BY SMTT(30), <1>1, <2>1, <3>1 DEF Filled
      <3> HIDE DEF span
      <3>3. \A c : Chain(rx_buffers, c, sent)
                    => Chain(Append(rx_buffers, span), c, span.hi)
        BY <3>1, <3>2, ChainAppend
      <3> QED BY <1>2, <1>3, <1>5, <2>1, <3>2, <3>3 DEF Stream
    <2>2. CASE ~(n > 0)
      <3>1. sent' = sent /\ rx_buffers' = rx_buffers
        BY SMTT(30), <1>1, <1>2, <1>3, <2>2
      <3> QED BY <1>5, <3>1
    <2> QED BY <2>1, <2>2
  <1>6. Elems(outq') = Elems(outq) \ {r}
    <2>1. Elems(Tail(outq)) = Elems(outq) \ {Head(outq)}
      BY <1>1, <1>2, PoolEmpty DEF RxOK
    <2> QED BY <1>2, <2>1
  <1>7. rx_reqs_active' \subseteq RxReqs
    BY <1>1, <1>2 DEF QueueOK
  <1>8. /\ tx_reqs' \subseteq TxReqs /\ tx_reqs_active' \subseteq TxReqs
        /\ inq' = tx_reqs_active' /\ tx_reqs' \cap tx_reqs_active' = {}
        /\ tx_reqs' \cup tx_reqs_active' = tx_reqs \cup tx_reqs_active
    BY <1>1, <1>2 DEF TxOK, txVars
  <1>9. /\ interface' \in {-1, 0} /\ config' \in {0, 1} /\ enabled' \in BOOLEAN
        /\ broken' \in {"no", "lists", "oops", "deadlock"} /\ sent' \in Nat
    BY SMTT(30), <1>1, <1>2 DEF TypesOK, ctlVars
  <1> HIDE DEF r
  <1> QED BY <1>2, <1>4, <1>5, <1>6, <1>7, <1>8, <1>9, IrqStep

\* The interrupts that leave the OUT side alone.
LEMMA TxIrqStep ==
    ASSUME IInv, TxComplete \/ SetupOther \/ SoftReset PROVE IInv'
  <1>1. TypesOK /\ QueueOK /\ TxOK
    BY DEF IInv
  <1>2. /\ lock = NoThread
        /\ UNCHANGED <<thrVars, lock_scale_io, lock, current_rx, got>>
        /\ UNCHANGED <<rx_reqs, rx_reqs_active, rx_buffers, outq, sent>>
    BY DEF TxComplete, SetupOther, SoftReset, IrqsOn, rxVars
  <1>3. /\ interface' \in {-1, 0} /\ config' \in {0, 1} /\ enabled' \in BOOLEAN
        /\ broken' \in {"no", "lists", "oops", "deadlock"} /\ sent' \in Nat
    BY <1>1 DEF TypesOK, ctlVars, TxComplete, SetupOther, SoftReset
  <1>4. /\ tx_reqs' \subseteq TxReqs /\ tx_reqs_active' \subseteq TxReqs
        /\ inq' = tx_reqs_active' /\ tx_reqs' \cap tx_reqs_active' = {}
        /\ tx_reqs' \cup tx_reqs_active' = tx_reqs \cup tx_reqs_active
    <2>1. CASE TxComplete
      BY SMTT(30), <1>1, <2>1 DEF TxComplete, TxOK
    <2>2. CASE SetupOther \/ SoftReset
      BY <1>1, <2>2 DEF SetupOther, SoftReset, TxOK, txVars
    <2> QED BY <2>1, <2>2
  <1>5. rx_reqs_active' \subseteq RxReqs
    BY <1>1, <1>2 DEF QueueOK
  <1> QED BY <1>2, <1>3, <1>4, <1>5, IrqStep

\* Those that disable the endpoints or not.
LEMMA FlushIrqStep ==
    ASSUME IInv, lock = NoThread,
           UNCHANGED <<thrVars, lock_scale_io, lock, sent, got>>,
           UNCHANGED <<rx_buffers, current_rx>>,
           FlushEndpoints \/ UNCHANGED <<rx_reqs, rx_reqs_active, outq, txVars>>,
           interface' \in {-1, 0}, config' \in {0, 1}, enabled' \in BOOLEAN,
           broken' \in {"no", "lists", "oops", "deadlock"}
    PROVE  IInv'
  <1>1. TypesOK /\ QueueOK /\ TxOK
    BY DEF IInv
  <1>2. ASSUME NEW h, RxPool(rx_reqs, outq, rx_buffers, h)
        PROVE  RxPool(rx_reqs', outq', rx_buffers', h)
    <2>1. CASE FlushEndpoints
      <3>1. RxPool(rx_reqs \cup Elems(outq), <<>>, rx_buffers, h)
        BY <1>2, PoolFlush
      <3>2. /\ rx_reqs' = rx_reqs \cup Elems(outq) /\ outq' = <<>>
            /\ rx_buffers' = rx_buffers
        BY <2>1 DEF FlushEndpoints, Elems
      <3> QED BY <3>1, <3>2
    <2>2. CASE UNCHANGED <<rx_reqs, rx_reqs_active, outq, txVars>>
      BY <1>2, <2>2
    <2> QED BY <2>1, <2>2
  <1>3. /\ Elems(outq) = rx_reqs_active => Elems(outq') = rx_reqs_active'
        /\ rx_reqs_active' \subseteq RxReqs
    <2>1. CASE FlushEndpoints
      <3>1. outq' = <<>> /\ rx_reqs_active' = rx_reqs_active \ Elems(outq)
        BY <2>1 DEF FlushEndpoints, Elems
      <3>2. Elems(<<>>) = {}
        BY SMTT(30) DEF Elems
      <3> QED BY <1>1, <3>1, <3>2 DEF QueueOK
    <2>2. CASE UNCHANGED <<rx_reqs, rx_reqs_active, outq, txVars>>
      BY <1>1, <2>2 DEF QueueOK
    <2> QED BY <2>1, <2>2
  <1>4. /\ tx_reqs' \subseteq TxReqs /\ tx_reqs_active' \subseteq TxReqs
        /\ inq' = tx_reqs_active' /\ tx_reqs' \cap tx_reqs_active' = {}
        /\ tx_reqs' \cup tx_reqs_active' = tx_reqs \cup tx_reqs_active
    BY <1>1 DEF TxOK, txVars, FlushEndpoints
  <1>5. /\ UNCHANGED <<thrVars, lock_scale_io, lock, current_rx, got>>
        /\ sent' = sent /\ sent' \in Nat /\ rx_buffers' = rx_buffers
    BY <1>1 DEF TypesOK
  <1> QED BY <1>2, <1>3, <1>4, <1>5, IrqStep

LEMMA ConfigIrqStep ==
    ASSUME IInv,
           (\E number \in 0 .. 2 : SetConfig(number)) \/ SetInterface \/ Disconnect
    PROVE  IInv'
  <1>1. /\ interface \in {-1, 0} /\ config \in {0, 1} /\ enabled \in BOOLEAN
        /\ broken \in {"no", "lists", "oops", "deadlock"}
    BY DEF IInv, TypesOK
  <1>2. ASSUME NEW number \in 0 .. 2, SetConfig(number) PROVE IInv'
    <2>1. /\ lock = NoThread /\ UNCHANGED <<thrVars, lock_scale_io, lock, sent, got>>
          /\ interface' \in {-1, 0}
      BY <1>2 DEF SetConfig, IrqsOn
    <2>2. config' \in {0, 1}
      BY <1>1, <1>2 DEF SetConfig
    <2>3. CASE enabled' = TRUE /\ UNCHANGED <<rxVars, txVars, broken>>
      BY <1>1, <2>1, <2>2, <2>3, FlushIrqStep DEF rxVars
    <2>4. CASE /\ enabled' = FALSE /\ FlushEndpoints
               /\ broken' = IF TxListOpen /\ inq # {} THEN "lists" ELSE broken
               /\ UNCHANGED <<rx_buffers, current_rx>>
      <3>1. broken' \in {"no", "lists", "oops", "deadlock"}
        BY <1>1, <2>4
      <3> QED BY <2>1, <2>2, <2>4, <3>1, FlushIrqStep
    <2> QED BY <1>2, <2>3, <2>4 DEF SetConfig
  <1>3. CASE SetInterface
    <2>1. /\ lock = NoThread /\ UNCHANGED <<thrVars, lock_scale_io, lock, sent, got>>
          /\ interface' \in {-1, 0} /\ enabled' \in BOOLEAN
          /\ UNCHANGED <<rx_buffers, current_rx>> /\ config' = config
      BY <1>3 DEF SetInterface, IrqsOn
    <2>2. FlushEndpoints \/ UNCHANGED <<rx_reqs, rx_reqs_active, outq, txVars>>
      BY <1>3 DEF SetInterface
    <2>3. broken' \in {"no", "lists", "oops", "deadlock"}
      BY <1>1, <1>3 DEF SetInterface
    <2> QED BY <1>1, <2>1, <2>2, <2>3, FlushIrqStep
  <1>4. CASE Disconnect
    <2>1. /\ lock = NoThread /\ UNCHANGED <<thrVars, lock_scale_io, lock, sent, got>>
          /\ interface' \in {-1, 0} /\ enabled' \in BOOLEAN
          /\ UNCHANGED <<rx_buffers, current_rx>> /\ config' = config
          /\ FlushEndpoints
      BY <1>4 DEF Disconnect, IrqsOn
    <2>2. broken' \in {"no", "lists", "oops", "deadlock"}
      BY <1>1, <1>4 DEF Disconnect
    <2> QED BY <1>1, <2>1, <2>2, FlushIrqStep
  <1> QED BY <1>2, <1>3, <1>4

-----------------------------------------------------------------------------
LEMMA InitIInv == Init => IInv
  <1> SUFFICES ASSUME Init PROVE IInv
    OBVIOUS
  <1>1. \A t \in Threads : pc[t] = "idle" /\ loc[t] = NoLocals
    BY DEF Init
  <1>2. TypesOK
    BY NoLocalsType DEF Init, TypesOK, Places
  <1>3. LocksOK
    BY <1>1, ScaleIoAssumption DEF Init, LocksOK, InMutex, InLock
  <1>4. HandsOK
    BY <1>1, NoLocalsType DEF Init, HandsOK
  <1>5. RxOK
    <2>1. Hands = {NoSpan}
      BY <1>1, NoLocalsType DEF Init, Hands
    <2>2. RxPool(RxReqs, <<>>, <<>>, NoSpan)
      <3>1. Elems(<<>>) = {} /\ ReqSeq(<<>>) = <<>> /\ Distinct(<<>>)
        BY SMTT(30) DEF Elems, ReqSeq, Distinct
      <3> QED BY SMTT(30), <3>1, NoSpanReq DEF RxPool
    <2>3. Stream(NoSpan, <<>>, 0, 0)
      BY SMTT(30) DEF Stream, Chain
    <2> QED BY <2>1, <2>2, <2>3 DEF RxOK, InHand, Init
  <1>6. QueueOK
    <2>1. Moving = {}
      BY <1>1 DEF Moving
    <2> QED BY SMTT(30), <2>1 DEF Init, QueueOK, Elems
  <1>7. TxOK
    <2>1. TxHolders = {}
      BY <1>1 DEF TxHolders
    <2> QED BY <2>1 DEF Init, TxOK
  <1> QED BY <1>2, <1>3, <1>4, <1>5, <1>6, <1>7 DEF IInv

LEMMA StepIInv ==
    ASSUME ~SMP, IInv, [Next]_vars PROVE IInv'
  <1>1. CASE UNCHANGED vars
    <2>1. /\ UNCHANGED <<rx_reqs, rx_reqs_active, rx_buffers, current_rx, outq>>
          /\ UNCHANGED <<tx_reqs, tx_reqs_active, inq, interface, config, enabled>>
          /\ UNCHANGED <<pc, loc, lock_scale_io, lock, broken, sent, got>>
      BY <1>1 DEF vars, rxVars, txVars, ctlVars, thrVars
    <2>2. TypesOK' /\ LocksOK' /\ HandsOK'
      BY <2>1 DEF IInv, TypesOK, LocksOK, HandsOK
    <2>3. Hands' = Hands /\ Moving' = Moving /\ TxHolders' = TxHolders
      BY <2>1 DEF Hands, Moving, TxHolders
    <2>4. RxOK'
      <3>1. PICK h \in Hands : /\ InHand(h) /\ RxPool(rx_reqs, outq, rx_buffers, h)
                               /\ Stream(h, rx_buffers, got, sent)
        BY DEF IInv, RxOK
      <3>2. InHand(h)'
        BY <2>3, <3>1 DEF InHand
      <3> QED BY <2>1, <3>1, <3>2, RxAfter
    <2>5. QueueOK'
      BY <2>1, <2>3 DEF IInv, QueueOK, Elems
    <2>6. TxOK'
      BY <2>1, <2>3 DEF IInv, TxOK
    <2> QED BY <2>2, <2>4, <2>5, <2>6 DEF IInv
  <1>2. CASE Irq
    <2>1. ASSUME NEW n \in 0 .. MaxBytes - sent, RxComplete(n) PROVE IInv'
      <3>1. n \in Nat
        BY SMTT(30)
      <3> QED BY <2>1, <3>1, RxCompleteStep
    <2> QED BY <1>2, <2>1, TxIrqStep, ConfigIrqStep DEF Irq
  <1>3. ASSUME NEW t \in Threads, Read(t) PROVE IInv'
    <2>1. ASSUME ReadEnter(t) PROVE IInv'
      <3>1. PICK n \in 1 .. MaxLen, nonblock \in BOOLEAN, fault \in BOOLEAN :
              Enter(t, "read", "r_lock", n, nonblock, fault)
        BY <2>1 DEF ReadEnter
      <3>2. n \in Nat
        BY SMTT(30)
      <3> QED BY <3>1, <3>2, EnterStep
    <2> QED BY <1>3, <2>1, LockingStep, ReadTakeStep, ReadNextStep, ReadCopyStep,
               ReadDoneStep DEF Read
  <1>4. ASSUME NEW t \in Threads, Write(t) PROVE IInv'
    <2>1. ASSUME WriteEnter(t) PROVE IInv'
      <3>1. PICK n \in 1 .. MaxLen, nonblock \in BOOLEAN, fault \in BOOLEAN :
              Enter(t, "write", "w_lock", n, nonblock, fault)
        BY <2>1 DEF WriteEnter
      <3>2. n \in Nat
        BY SMTT(30)
      <3> QED BY <3>1, <3>2, EnterStep
    <2> QED BY <1>4, <2>1, LockingStep, WriteNextStep, WritePutBackStep,
               WriteQueueStep, ReturnStep DEF Write
  <1>5. ASSUME NEW t \in Threads, SetupQueue(t) \/ SetupActive(t) PROVE IInv'
    BY <1>5, SetupQueueStep, SetupActiveStep
  <1>6. ASSUME NEW t \in Threads, FsyncEnter(t) \/ PollEnter(t) PROVE IInv'
    <2>1. 0 \in Nat /\ FALSE \in BOOLEAN
      OBVIOUS
    <2> QED BY <1>6, <2>1, EnterStep DEF FsyncEnter, PollEnter
  <1>7. ASSUME NEW t \in Threads, FsyncCheck(t) PROVE IInv'
    <2>1. pc'[t] \in {"idle", "f_sleep"}
      BY <1>7 DEF FsyncCheck, Goto, IInv, TypesOK
    <2> QED BY <1>7, <2>1, LockingStep, ReturnStep
  <1>8. ASSUME NEW t \in Threads,
               \/ \E signal \in BOOLEAN : FsyncWake(t, signal)
               \/ PollLock(t) \/ PollDone(t)
        PROVE  IInv'
    BY <1>8, LockingStep, ReturnStep
  <1> QED BY <1>1, <1>2, <1>3, <1>4, <1>5, <1>6, <1>7, <1>8 DEF Next, Thread

-----------------------------------------------------------------------------
LEMMA DisjointCount ==
    ASSUME NEW S, NEW T, IsFiniteSet(S), IsFiniteSet(T), S \cap T = {}
    PROVE  /\ IsFiniteSet(S \cup T)
           /\ Cardinality(S) \in Nat /\ Cardinality(T) \in Nat
           /\ Cardinality(S \cup T) = Cardinality(S) + Cardinality(T)
  <1>1. IsFiniteSet(S \cup T)
        /\ Cardinality(S \cup T) = Cardinality(S) + Cardinality(T) - Cardinality(S \cap T)
    BY FS_Union
  <1>2. Cardinality(S \cap T) = 0
    BY FS_EmptySet
  <1>3. Cardinality(S) \in Nat /\ Cardinality(T) \in Nat
    BY FS_CardinalityType
  <1> QED BY SMTT(30), <1>1, <1>2, <1>3

\* The threads that hold an OUT request, and those that hold an IN request:
\* one at most.
LEMMA HoldersOne ==
    ASSUME IInv, NEW H, H \in {RxHolders, TxHolders}
    PROVE  H = {} \/ \E t \in Threads : H = {t} /\ pc[t] \in InMutex
  <1>1. H \subseteq {t \in Threads : pc[t] \in InMutex}
    BY DEF IInv, HandsOK, RxHolders, TxHolders, InMutex
  <1>2. \A t, u \in H : t = u
    BY <1>1, OneInMutex DEF IInv
  <1> QED BY <1>1, <1>2

LEMMA HandCount ==
    ASSUME IInv, NEW h, InHand(h), h \in Filled \cup {NoSpan}
    PROVE  /\ ({current_rx.req} \cup {loc[t].cur.req : t \in RxHolders}) \ {NoReq}
                = {h.req} \ {NoReq}
           /\ Cardinality(RxHolders) + (IF current_rx = NoSpan THEN 0 ELSE 1)
                = IF h = NoSpan THEN 0 ELSE 1
  <1>1. /\ current_rx \in {h, NoSpan}
        /\ \A t \in RxHolders : loc[t].cur = h /\ h # NoSpan
        /\ \A t \in RxHolders : current_rx = NoSpan
    BY SMTT(30) DEF InHand, Hands, RxHolders, IInv, HandsOK
  <1>2. h # NoSpan => current_rx = h \/ RxHolders # {}
    BY DEF InHand, Hands, RxHolders
  <1>3. Cardinality({}) = 0 /\ \A t : Cardinality({t}) = 1
    BY FS_EmptySet, FS_Singleton
  <1>4. CASE RxHolders = {}
    BY SMTT(30), <1>1, <1>2, <1>3, <1>4, NoSpanReq
  <1>5. CASE RxHolders # {}
    <2>1. PICK t \in Threads : RxHolders = {t}
      BY <1>5, HoldersOne
    <2>2. current_rx = NoSpan /\ loc[t].cur = h /\ h # NoSpan
      BY <1>1, <2>1
    <2>3. {loc[u].cur.req : u \in RxHolders} = {h.req}
      BY <2>1, <2>2
    <2>4. ({current_rx.req} \cup {h.req}) \ {NoReq} = {h.req} \ {NoReq}
      BY <2>2, NoSpanReq
    <2>5. Cardinality(RxHolders) = 1
      BY <1>3, <2>1
    <2>6. Cardinality(RxHolders) + (IF current_rx = NoSpan THEN 0 ELSE 1) = 1
      BY SMTT(30), <2>2, <2>5
    <2>7. {current_rx.req} \cup {loc[u].cur.req : u \in RxHolders}
            = {current_rx.req} \cup {h.req}
      BY <2>3
    <2> HIDE DEF RxHolders
    <2> QED BY <2>2, <2>4, <2>6, <2>7
  <1> QED BY <1>4, <1>5

LEMMA PoolsFollow == ASSUME IInv PROVE PoolsConserved
  <1>1. TypesOK /\ LocksOK /\ HandsOK /\ RxOK /\ QueueOK /\ TxOK
    BY DEF IInv
  <1>2. PICK h \in Hands : InHand(h) /\ RxPool(rx_reqs, outq, rx_buffers, h)
    BY <1>1 DEF RxOK
  <1> DEFINE Q == Elems(outq)
             B == Elems(ReqSeq(rx_buffers))
             G == {h.req} \ {NoReq}
  <1>3. /\ rx_reqs \subseteq RxReqs /\ outq \in Seq(RxReqs)
        /\ rx_buffers \in Seq(Filled) /\ h \in Filled \cup {NoSpan}
        /\ Distinct(outq) /\ Distinct(ReqSeq(rx_buffers))
        /\ rx_reqs \cap Q = {} /\ rx_reqs \cap B = {} /\ Q \cap B = {}
        /\ h.req \notin rx_reqs \cup Q \cup B
        /\ rx_reqs \cup Q \cup B \cup G = RxReqs
    BY <1>2 DEF RxPool
  <1>4. /\ B = Completed /\ ReqSeq(rx_buffers) \in Seq(RxReqs)
        /\ Len(ReqSeq(rx_buffers)) = Len(rx_buffers)
    BY <1>3, ReqSeqType DEF Completed
  <1>5. TypeOK
    <2>1. rx_buffers \in Seq(Span)
      BY SMTT(30), <1>3, FilledIsSpan
    <2>2. NoSpan \in Span
      BY DEF NoSpan, Span
    <2>3. Filled \cup {NoSpan} \subseteq Span
      BY <2>2, FilledIsSpan
    <2>4. current_rx \in Span
      BY <2>3, BytesOfHand DEF Hands
    <2>5. loc \in [Threads ->
                  [op : {"none", "read", "write", "fsync", "poll"},
                   nonblock : BOOLEAN, fault : BOOLEAN, len : Nat,
                   req : RxReqs \cup TxReqs \cup {NoReq}, cur : Span]]
      <3>1. \A l \in Locals : l \in
              [op : {"none", "read", "write", "fsync", "poll"},
               nonblock : BOOLEAN, fault : BOOLEAN, len : Nat,
               req : RxReqs \cup TxReqs \cup {NoReq}, cur : Span]
        BY <2>3 DEF Locals
      <3> QED BY <1>1, <3>1 DEF TypesOK
    <2>6. rx_reqs_active \subseteq RxReqs
      BY <1>1 DEF QueueOK
    <2>7. /\ tx_reqs \subseteq TxReqs /\ tx_reqs_active \subseteq TxReqs
          /\ inq \subseteq TxReqs
      BY <1>1 DEF TxOK
    <2>8. pc \in [Threads -> {"idle", "r_lock", "setup", "active", "r_sleep",
                           "r_loop", "r_copy", "w_lock", "w_relock", "w_sleep",
                           "w_loop", "w_copy", "w_put", "f_check", "f_sleep",
                           "p_lock"}]
      BY <1>1 DEF TypesOK, Places
    <2> QED BY <1>1, <1>3, <2>1, <2>4, <2>5, <2>6, <2>7, <2>8 DEF TypeOK, TypesOK
  <1>6. /\ ({current_rx.req} \cup {loc[t].cur.req : t \in RxHolders}) \ {NoReq} = G
        /\ Cardinality(RxHolders) + (IF current_rx = NoSpan THEN 0 ELSE 1)
             = IF h = NoSpan THEN 0 ELSE 1
    BY <1>2, <1>3, HandCount
  <1>7. RxReqs \ (rx_reqs \cup Q \cup Completed)
          = ({current_rx.req} \cup {loc[t].cur.req : t \in RxHolders}) \ {NoReq}
    BY <1>3, <1>4, <1>6
  <1>8. /\ IsFiniteSet(Q) /\ Cardinality(Q) = Len(outq)
        /\ IsFiniteSet(B) /\ Cardinality(B) = Len(rx_buffers)
    BY <1>3, <1>4, DistinctCount
  <1>9. IsFiniteSet(G) /\ Cardinality(G) = IF h = NoSpan THEN 0 ELSE 1
    <2>1. CASE h = NoSpan
      <3>1. G = {}
        BY <2>1, NoSpanReq
      <3> QED BY <2>1, <3>1, FS_EmptySet
    <2>2. CASE h # NoSpan
      <3>1. G = {h.req}
        BY <1>3, <2>2, NoSpanReq DEF Filled
      <3> QED BY <2>2, <3>1, FS_Singleton
    <2> QED BY <2>1, <2>2
  <1>10. IsFiniteSet(rx_reqs)
    BY <1>3, FS_Subset, ScaleIoAssumption
  <1> HIDE DEF Q, B, G
  <1>11. Cardinality(RxReqs) = Cardinality(rx_reqs) + Cardinality(Q)
                               + Cardinality(B) + Cardinality(G)
    <2>1. /\ IsFiniteSet(rx_reqs \cup Q)
          /\ Cardinality(rx_reqs \cup Q) = Cardinality(rx_reqs) + Cardinality(Q)
      BY <1>3, <1>8, <1>10, DisjointCount
    <2>2. (rx_reqs \cup Q) \cap B = {} /\ ((rx_reqs \cup Q) \cup B) \cap G = {}
      BY <1>3 DEF G
    <2>3. /\ IsFiniteSet((rx_reqs \cup Q) \cup B)
          /\ Cardinality((rx_reqs \cup Q) \cup B)
                = Cardinality(rx_reqs \cup Q) + Cardinality(B)
      BY <1>8, <2>1, <2>2, DisjointCount
    <2>4. Cardinality(((rx_reqs \cup Q) \cup B) \cup G)
            = Cardinality((rx_reqs \cup Q) \cup B) + Cardinality(G)
      BY <1>9, <2>2, <2>3, DisjointCount
    <2> QED BY <1>3, <2>1, <2>3, <2>4
  <1>12. /\ Cardinality(rx_reqs) \in Nat /\ Len(outq) \in Nat
         /\ Len(rx_buffers) \in Nat
    BY SMTT(30), <1>3, <1>10, FS_CardinalityType
  <1>13. Cardinality(RxHolders) \in Nat
    <2>1. RxHolders = {} \/ \E t \in Threads : RxHolders = {t}
      BY HoldersOne
    <2>2. IsFiniteSet({}) /\ \A t : IsFiniteSet({t})
      BY FS_EmptySet, FS_Singleton
    <2>3. IsFiniteSet(RxHolders)
      BY <2>1, <2>2
    <2> QED BY <2>3, FS_CardinalityType
  <1>14. Cardinality(rx_reqs) + Len(outq) + Len(rx_buffers)
           + Cardinality(RxHolders) + (IF current_rx = NoSpan THEN 0 ELSE 1)
           = Cardinality(RxReqs)
    <2> DEFINE p == Cardinality(rx_reqs)
               r == Cardinality(RxHolders)
               k == IF current_rx = NoSpan THEN 0 ELSE 1
               m == IF h = NoSpan THEN 0 ELSE 1
    <2>1. k \in Nat /\ m \in Nat /\ p \in Nat /\ r \in Nat
      BY <1>12, <1>13
    <2>2. r + k = m /\ Cardinality(RxReqs) = p + Len(outq) + Len(rx_buffers) + m
      BY <1>6, <1>8, <1>9, <1>11
    <2> HIDE DEF p, r, k, m
    <2>3. p + Len(outq) + Len(rx_buffers) + r + k = p + Len(outq) + Len(rx_buffers) + m
      BY SMTT(30), <1>12, <2>1, <2>2
    <2> QED BY <2>2, <2>3 DEF p, r, k, m
  <1>15. TxReqs \ (tx_reqs \cup tx_reqs_active) = {loc[t].req : t \in TxHolders}
    BY <1>1 DEF TxOK
  <1>16. Cardinality(tx_reqs) + Cardinality(tx_reqs_active)
           + Cardinality(TxHolders) = Cardinality(TxReqs)
    <2> DEFINE X == {loc[t].req : t \in TxHolders}
    <2>1. IsFiniteSet(X) /\ Cardinality(X) = Cardinality(TxHolders)
      <3>1. CASE TxHolders = {}
        BY <3>1, FS_EmptySet
      <3>2. CASE TxHolders # {}
        <4>1. PICK t \in Threads : TxHolders = {t}
          BY <3>2, HoldersOne
        <4>2. X = {loc[t].req}
          BY <4>1
        <4> QED BY <4>1, <4>2, FS_Singleton
      <3> QED BY <3>1, <3>2
    <2>2. /\ tx_reqs \subseteq TxReqs /\ tx_reqs_active \subseteq TxReqs
          /\ tx_reqs \cap tx_reqs_active = {}
      BY <1>1 DEF TxOK
    <2>3. IsFiniteSet(tx_reqs) /\ IsFiniteSet(tx_reqs_active)
      BY <2>2, FS_Subset, ScaleIoAssumption
    <2>4. /\ IsFiniteSet(tx_reqs \cup tx_reqs_active)
          /\ Cardinality(tx_reqs \cup tx_reqs_active)
                = Cardinality(tx_reqs) + Cardinality(tx_reqs_active)
      BY <2>2, <2>3, DisjointCount
    <2>5. TxReqs \ (tx_reqs \cup tx_reqs_active) = X
      BY <1>15
    <2> HIDE DEF X
    <2>6. /\ (tx_reqs \cup tx_reqs_active) \cap X = {}
          /\ (tx_reqs \cup tx_reqs_active) \cup X = TxReqs
      BY <2>2, <2>5
    <2>7. Cardinality((tx_reqs \cup tx_reqs_active) \cup X)
            = Cardinality(tx_reqs \cup tx_reqs_active) + Cardinality(X)
      BY <2>1, <2>4, <2>6, DisjointCount
    <2> QED BY <2>1, <2>4, <2>6, <2>7
  <1> QED BY <1>5, <1>7, <1>14, <1>15, <1>16 DEF PoolsConserved, Q

\* A span in front of a chain.
LEMMA ChainCons ==
    ASSUME NEW b \in Seq(Filled), NEW h \in Filled, NEW e, h.lo < h.hi,
           Chain(b, h.hi, e)
    PROVE  Chain(<<h>> \o b, h.lo, e)
  <1> DEFINE n == Len(b)
             a == <<h>> \o b
  <1>1. /\ a \in Seq(Filled) /\ Len(a) = n + 1 /\ n \in Nat /\ DOMAIN b = 1 .. n
        /\ DOMAIN a = 1 .. n + 1 /\ a[1] = h
    BY SMTT(30)
  <1>2. \A i \in 1 .. n : a[i + 1] = b[i]
    BY SMTT(30)
  <1>3. n = 0 <=> b = <<>>
    BY EmptySeq
  <1> HIDE DEF n, a
  <1>4. \A i \in 1 .. n + 1 : i = 1 \/ (i - 1 \in 1 .. n /\ i = (i - 1) + 1)
    BY SMTT(30), <1>1
  <1>5. a # <<>>
    BY SMTT(30), <1>1, EmptySeq
  <1>6. \A i \in 1 .. n + 1 : a[i].lo < a[i].hi
    BY <1>1, <1>2, <1>4 DEF Chain
  <1>7. a[n + 1].hi = e
    <2>1. CASE n = 0
      BY SMTT(30), <1>1, <1>3, <2>1 DEF Chain
    <2>2. CASE n # 0
      <3>1. n \in 1 .. n
        BY SMTT(30), <1>1, <2>2
      <3>2. b[n].hi = e
        BY <1>3, <2>2 DEF Chain, n
      <3> QED BY <1>2, <3>1, <3>2
    <2> QED BY <2>1, <2>2
  <1>8. ASSUME NEW i \in 1 .. n PROVE a[i].hi = a[i + 1].lo
    <2>1. a[i + 1] = b[i]
      BY <1>2
    <2>2. CASE i = 1
      <3>1. b # <<>>
        BY SMTT(30), <1>1, <1>3, <2>2
      <3> QED BY <1>1, <2>1, <2>2, <3>1 DEF Chain
    <2>3. CASE i # 1
      <3>1. i - 1 \in 1 .. n - 1 /\ i - 1 \in 1 .. n /\ (i - 1) + 1 = i
        BY SMTT(30), <1>1, <2>3
      <3>2. b[i - 1].hi = b[i].lo
        BY <3>1 DEF Chain, n
      <3>3. a[i] = b[i - 1]
        BY <1>2, <3>1
      <3> QED BY <2>1, <3>2, <3>3
    <2> QED BY <2>2, <2>3
  <1>9. Len(a) - 1 = n
    BY SMTT(30), <1>1
  <1>10. Chain(a, h.lo, e)
    BY <1>1, <1>5, <1>6, <1>7, <1>8, <1>9 DEF Chain
  <1> QED BY <1>10 DEF a

LEMMA StreamFollows == ASSUME IInv PROVE StreamIntact
  <1>1. PICK h \in Hands : /\ InHand(h) /\ RxPool(rx_reqs, outq, rx_buffers, h)
                           /\ Stream(h, rx_buffers, got, sent)
    BY DEF IInv, RxOK
  <1>2. rx_buffers \in Seq(Filled) /\ h \in Filled \cup {NoSpan}
    BY <1>1 DEF RxPool
  <1>3. Chain(Unread, got, sent)
    <2>1. CASE h = NoSpan
      <3>1. RxHolders = {} /\ current_rx = NoSpan
        BY <1>1, <2>1 DEF InHand, Hands, RxHolders
      <3>2. Unread = rx_buffers
        BY SMTT(30), <1>2, <3>1 DEF Unread
      <3> QED BY <1>1, <2>1, <3>2 DEF Stream
    <2>2. CASE h # NoSpan
      <3>1. \A t \in RxHolders : loc[t].cur = h
        BY <1>1 DEF RxHolders, InHand, Hands
      <3>2. RxHolders = {} => current_rx = h
        BY <1>1, <2>2 DEF RxHolders, InHand, Hands
      <3>3. Unread = <<h>> \o rx_buffers
        <4>1. CASE RxHolders # {}
          <5> DEFINE u == CHOOSE t \in RxHolders : TRUE
          <5>1. u \in RxHolders
            BY <4>1
          <5>2. loc[u].cur = h
            BY <3>1, <5>1
          <5> QED BY <4>1, <5>2 DEF Unread
        <4>2. CASE RxHolders = {}
          BY <2>2, <3>2, <4>2 DEF Unread
        <4> QED BY <4>1, <4>2
      <3>4. h.lo = got /\ h.lo < h.hi /\ Chain(rx_buffers, h.hi, sent)
        BY <1>1, <2>2 DEF Stream
      <3> QED BY <1>2, <2>2, <3>3, <3>4, ChainCons
    <2> QED BY <2>1, <2>2
  <1> HIDE DEF Unread
  <1> QED BY <1>3 DEF Chain, StreamIntact

\* On one processor no request of either pool is lost or in two places, for
\* any pools, threads, lengths and bounds (scale_read, scale_write,
\* rx_complete, tx_complete, scale_disconnect).
THEOREM RequestsConserved == ASSUME ~SMP PROVE Spec => []PoolsConserved
  <1>1. IInv /\ [Next]_vars => IInv'
    BY StepIInv
  <1>2. IInv => PoolsConserved
    BY PoolsFollow
  <1> QED BY <1>1, <1>2, InitIInv, PTL DEF Spec

\* On one processor the lists of active requests are what the controller has
\* queued (setup_rx_reqs, scale_write, rx_complete, tx_complete).
THEOREM QueuesMatch == ASSUME ~SMP PROVE Spec => []ActiveIsQueued
  <1>1. IInv /\ [Next]_vars => IInv'
    BY StepIInv
  <1>2. IInv => ActiveIsQueued
    BY DEF IInv, QueueOK, TxOK, ActiveIsQueued, Moving
  <1> QED BY <1>1, <1>2, InitIInv, PTL DEF Spec

\* On one processor every byte of the host reaches read once and in order
\* (rx_complete, scale_read).
THEOREM StreamIsIntact == ASSUME ~SMP PROVE Spec => []StreamIntact
  <1>1. IInv /\ [Next]_vars => IInv'
    BY StepIInv
  <1>2. IInv => StreamIntact
    BY StreamFollows
  <1> QED BY <1>1, <1>2, InitIInv, PTL DEF Spec
=============================================================================
