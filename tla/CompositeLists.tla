--------------------------- MODULE CompositeLists ---------------------------
(***************************************************************************)
(* The lists Composite keeps while a gadget is bound, for any plan of      *)
(* configurations and functions: what every bind, failed bind and removal  *)
(* preserves (BindOK).  The facts on sequences and counting come first.    *)
(***************************************************************************)
EXTENDS Composite, FiniteSetTheorems, WellFoundedInduction, SequenceTheorems,
        TLAPS

\* Most leaves take no arithmetic: Zenon is tried unless a leaf names another prover.
USE ZenonT(30)

-----------------------------------------------------------------------------
(* Sequences and counting.                                                 *)

LEMMA AppendFacts ==
    ASSUME NEW S, NEW s \in Seq(S), NEW x \in S
    PROVE  /\ Append(s, x) \in Seq(S) /\ Len(s) \in Nat
           /\ DOMAIN s = 1 .. Len(s)
           /\ Len(Append(s, x)) = Len(s) + 1
           /\ DOMAIN Append(s, x) = 1 .. Len(s) + 1
           /\ \A i \in 1 .. Len(s) : Append(s, x)[i] = s[i]
           /\ Append(s, x)[Len(s) + 1] = x
           /\ Range(Append(s, x)) = Range(s) \cup {x}
  <1>1. Len(Append(s, x)) = Len(s) + 1 /\ Len(s) \in Nat
    BY SMTT(30)
  <1>2. Append(s, x) \in Seq(S) /\ DOMAIN s = 1 .. Len(s)
    BY SMTT(30)
  <1>3. DOMAIN Append(s, x) = 1 .. Len(s) + 1
    BY SMTT(30), <1>1
  <1>4. /\ \A i \in 1 .. Len(s) : Append(s, x)[i] = s[i]
        /\ Append(s, x)[Len(s) + 1] = x
    BY SMTT(30)
  <1> DEFINE a == Append(s, x)
             n == Len(s)
  <1> HIDE DEF a, n
  <1>5. \A i \in 1 .. n + 1 : i \in 1 .. n \/ i = n + 1
    BY SMTT(30), <1>1 DEF n
  <1>6. n + 1 \in 1 .. n + 1 /\ \A i \in 1 .. n : i \in 1 .. n + 1
    BY SMTT(30), <1>1 DEF n
  <1>7. Range(a) = Range(s) \cup {x}
    BY <1>2, <1>3, <1>4, <1>5, <1>6 DEF Range, a, n
  <1> QED BY <1>1, <1>2, <1>3, <1>4, <1>7 DEF a

\* Taking one element out of a sequence without repetition.
LEMMA ListDelFacts ==
    ASSUME NEW S, NEW s \in Seq(S), NEW k \in DOMAIN s,
           \A i, j \in DOMAIN s : s[i] = s[j] => i = j
    PROVE  /\ list_del(s, k) \in Seq(S)
           /\ Len(list_del(s, k)) <= Len(s)
           /\ \A i, j \in DOMAIN list_del(s, k) :
                 list_del(s, k)[i] = list_del(s, k)[j] => i = j
           /\ Range(list_del(s, k)) = Range(s) \ {s[k]}
  <1> DEFINE n == Len(s)
             t == list_del(s, k)
             a == SubSeq(s, 1, k - 1)
             b == SubSeq(s, k + 1, n)
  <1>1. n \in Nat /\ DOMAIN s = 1 .. n /\ k \in 1 .. n
    BY SMTT(30)
  <1>2. /\ a \in Seq(S) /\ Len(a) = k - 1
        /\ \A i \in 1 .. k - 1 : a[i] = s[i]
    <2>1. \A i \in 1 .. k - 1 : s[i] \in S
      BY SMTT(30), <1>1
    <2> QED BY SMTT(30), <1>1, <2>1, SubSeqProperties
  <1>3. /\ b \in Seq(S) /\ Len(b) = n - k
        /\ \A i \in 1 .. n - k : b[i] = s[i + k]
    <2>1. \A i \in k + 1 .. n : s[i] \in S
      BY SMTT(30), <1>1
    <2> QED BY SMTT(30), <1>1, <2>1, SubSeqProperties
  <1>4. t = a \o b
    BY DEF list_del
  <1> HIDE DEF n, t, a, b
  <1>5. /\ a \o b \in Seq(S) /\ Len(a \o b) = Len(a) + Len(b)
        /\ \A i \in 1 .. Len(a) + Len(b) :
              (a \o b)[i] = IF i <= Len(a) THEN a[i] ELSE b[i - Len(a)]
    <2>1. a \in Seq(S) /\ b \in Seq(S)
      BY <1>2, <1>3
    <2> QED BY <2>1, ConcatProperties, ZenonT(60)
  <1>6. /\ t \in Seq(S) /\ Len(t) = n - 1
        /\ \A i \in 1 .. n - 1 :
              t[i] = IF i <= k - 1 THEN a[i] ELSE b[i - (k - 1)]
    BY <1>1, <1>2, <1>3, <1>4, <1>5, SMTT(60)
  <1>7. ASSUME NEW i \in 1 .. n - 1
        PROVE  t[i] = s[IF i < k THEN i ELSE i + 1]
    <2>1. CASE i < k
      <3>1. i <= k - 1 /\ i \in 1 .. k - 1
        BY SMTT(30), <1>1, <2>1
      <3> QED BY <1>2, <1>6, <2>1, <3>1
    <2>2. CASE ~(i < k)
      <3>1. ~(i <= k - 1) /\ i - (k - 1) \in 1 .. n - k /\ (i - (k - 1)) + k = i + 1
        BY SMTT(30), <1>1, <2>2
      <3> QED BY <1>3, <1>6, <2>2, <3>1
    <2> QED BY <2>1, <2>2
  <1> DEFINE at(i) == IF i < k THEN i ELSE i + 1
  <1>8. /\ \A i \in 1 .. n - 1 : at(i) \in 1 .. n /\ at(i) # k
        /\ \A i, j \in 1 .. n - 1 : at(i) = at(j) => i = j
        /\ \A m \in 1 .. n : m # k => \E i \in 1 .. n - 1 : at(i) = m
    <2>1. \A i \in 1 .. n - 1 : at(i) \in 1 .. n /\ at(i) # k
      BY SMTT(30), <1>1
    <2>2. \A i, j \in 1 .. n - 1 : at(i) = at(j) => i = j
      BY SMTT(30), <1>1
    <2>3. ASSUME NEW m \in 1 .. n, m # k PROVE \E i \in 1 .. n - 1 : at(i) = m
      <3>1. CASE m < k
        <4>1. m \in 1 .. n - 1 /\ at(m) = m
          BY SMTT(30), <1>1, <3>1
        <4> QED BY <4>1
      <3>2. CASE ~(m < k)
        <4>1. m - 1 \in 1 .. n - 1 /\ at(m - 1) = m
          BY SMTT(30), <1>1, <2>3, <3>2
        <4> QED BY <4>1
      <3> QED BY <3>1, <3>2
    <2> QED BY <2>1, <2>2, <2>3
  <1>9. DOMAIN t = 1 .. n - 1
    BY SMTT(30), <1>1, <1>6
  <1>10. \A i \in DOMAIN t : t[i] = s[at(i)]
    BY <1>7, <1>9
  <1> HIDE DEF at
  <1>11. \A i, j \in DOMAIN t : t[i] = t[j] => i = j
    BY <1>1, <1>8, <1>9, <1>10
  <1>12. Range(t) = Range(s) \ {s[k]}
    <2>1. Range(t) \subseteq Range(s) \ {s[k]}
      BY SMTT(30), <1>1, <1>8, <1>9, <1>10 DEF Range
    <2>2. ASSUME NEW x \in Range(s), x # s[k] PROVE x \in Range(t)
      <3>1. PICK m \in 1 .. n : s[m] = x
        BY <1>1 DEF Range
      <3>2. PICK i \in 1 .. n - 1 : at(i) = m
        BY <1>8, <2>2, <3>1
      <3>3. i \in DOMAIN t /\ t[i] = x
        BY <1>9, <1>10, <3>1, <3>2
      <3> QED BY <3>3 DEF Range
    <2> QED BY <2>1, <2>2
  <1>13. Len(t) <= n
    BY SMTT(30), <1>1, <1>6
  <1> QED BY <1>6, <1>11, <1>12, <1>13 DEF t, n

\* A nonempty set of naturals has a least member: the way the proofs below do
\* an induction.
LEMMA NatMin ==
    ASSUME NEW T, T \subseteq Nat, T # {}
    PROVE  \E n \in T : \A m \in T : n <= m
  <1> DEFINE R == OpToRel(<, Nat)
  <1>1. \A x, y \in Nat : x < y => <<x, y>> \in R
    BY DEF OpToRel
  <1>2. IsWellFoundedOn(R, Nat)
    BY NatLessThanWellFounded
  <1> HIDE DEF R
  <1>3. \E x \in T : \A y \in T : ~ (<<y, x>> \in R)
    BY <1>2, WFMin
  <1>4. PICK n \in T : \A m \in T : ~ (<<m, n>> \in R)
    BY <1>3
  <1>5. \A m \in T : ~ (m < n) /\ m \in Nat /\ n \in Nat
    BY <1>1, <1>4
  <1>6. \A m \in T : n <= m
    BY SMTT(30), <1>5
  <1> QED BY <1>6

\* The members of U below i; those of a set of k numbers have 0 .. k - 1 below.
Rank(U, i) == Cardinality({j \in U : j < i})
LEMMA Ranks ==
    ASSUME NEW n \in Nat, NEW U \in SUBSET (1 .. n), NEW k \in Nat
    PROVE  k < Cardinality(U) <=> \E i \in U : Rank(U, i) = k
  <1> DEFINE Bad == {m \in Nat : \E V \in SUBSET (1 .. m) : \E j \in Nat :
                        j < Cardinality(V) /\ \A i \in V : Rank(V, i) # j}
  <1>1. Bad = {}
    <2> SUFFICES ASSUME Bad # {} PROVE FALSE
      OBVIOUS
    <2>1. PICK m \in Bad : \A x \in Bad : m <= x
      BY NatMin
    <2>2. PICK V \in SUBSET (1 .. m), j \in Nat :
             j < Cardinality(V) /\ \A i \in V : Rank(V, i) # j
      BY <2>1
    <2>3. m \in Nat /\ m # 0
      <3>1. m # 0
        <4> SUFFICES ASSUME m = 0 PROVE FALSE
          OBVIOUS
        <4>1. V = {}
          BY SMTT(30), <2>2
        <4> QED BY SMTT(30), <2>2, <4>1, FS_EmptySet
      <3> QED BY <2>1, <3>1
    <2>4. m - 1 \in Nat /\ m - 1 \notin Bad
      BY SMTT(30), <2>1, <2>3
    <2>5. CASE m \notin V
      <3>1. V \in SUBSET (1 .. m - 1)
        BY SMTT(30), <2>2, <2>3, <2>5
      <3> QED BY <2>2, <2>4, <3>1
    <2>6. CASE m \in V
      <3> DEFINE W == V \ {m}
      <3>1. W \in SUBSET (1 .. m - 1)
        BY SMTT(30), <2>2, <2>3
      <3>2. IsFiniteSet(V)
        <4>1. IsFiniteSet(1 .. m)
          BY SMTT(30), <2>3, FS_Interval
        <4> QED BY <2>2, <4>1, FS_Subset
      <3>3. /\ IsFiniteSet(W) /\ Cardinality(W) = Cardinality(V) - 1
            /\ Cardinality(W) \in Nat /\ Cardinality(V) \in Nat
        BY <2>6, <3>2, FS_RemoveElement, FS_CardinalityType
      <3>4. CASE j < Cardinality(W)
        <4>1. PICK i \in W : Rank(W, i) = j
          BY <2>4, <3>1, <3>4
        <4>2. {x \in W : x < i} = {x \in V : x < i}
          BY SMTT(30), <2>2, <2>3, <3>1, <4>1
        <4> QED BY <2>2, <4>1, <4>2 DEF Rank
      <3>5. CASE ~(j < Cardinality(W))
        <4>1. j = Cardinality(W)
          BY SMTT(30), <2>2, <3>3, <3>5
        <4>2. {x \in V : x < m} = W
          <5>1. \A x \in V : x \in Nat /\ x <= m
            BY SMTT(30), <2>2, <2>3
          <5>2. \A x \in V : x < m <=> x # m
            BY SMTT(30), <2>3, <5>1
          <5> QED BY <5>2
        <4>3. Rank(V, m) = j
          BY <4>1, <4>2 DEF Rank
        <4> QED BY <2>2, <2>6, <4>3
      <3> QED BY <3>4, <3>5
    <2> QED BY <2>5, <2>6
  <1>2. k < Cardinality(U) => \E i \in U : Rank(U, i) = k
    BY <1>1
  <1>3. ASSUME NEW i \in U, Rank(U, i) = k PROVE k < Cardinality(U)
    <2>1. IsFiniteSet(U)
      <3>1. IsFiniteSet(1 .. n)
        BY SMTT(30), FS_Interval
      <3> QED BY <3>1, FS_Subset
    <2>2. /\ IsFiniteSet(U \ {i}) /\ Cardinality(U \ {i}) = Cardinality(U) - 1
          /\ Cardinality(U) \in Nat
      BY <2>1, FS_RemoveElement, FS_CardinalityType
    <2>3. {j \in U : j < i} \subseteq U \ {i}
      BY SMTT(30)
    <2>4. Cardinality({j \in U : j < i}) <= Cardinality(U \ {i})
      BY <2>2, <2>3, FS_Subset
    <2> QED BY SMTT(30), <1>3, <2>2, <2>4 DEF Rank
  <1> QED BY <1>2, <1>3

-----------------------------------------------------------------------------
(* The lists of configurations and functions.                              *)

\* The functions on some list, and those a bind may have left behind.
Present == UNION {Range(functions[c]) : c \in Range(configs)}
Planned == UNION {Range(FunctionsOf[c]) : c \in Range(Plan)}

\* While a gadget is bound its configurations are a first part of the plan,
\* with all their functions; the last one may have a first part of them.
ListInv ==
    /\ phase = "idle" => configs = <<>>
    /\ phase = "confbind" => configs # <<>>
    /\ phase \in {"binding", "confbind"} =>
          \A i \in DOMAIN configs : configs[i] = Plan[i]
    /\ \A i, j \in DOMAIN configs : configs[i] = configs[j] => i = j
    /\ \A i \in DOMAIN configs :
          LET c == configs[i]
          IN  IF phase = "confbind" /\ i = Len(configs)
              THEN /\ Len(functions[c]) <= Len(FunctionsOf[c])
                   /\ \A k \in DOMAIN functions[c] :
                         functions[c][k] = FunctionsOf[c][k]
              ELSE functions[c] = FunctionsOf[c]

\* What is on a list is bound, and the rest of what is bound belongs to a
\* configuration that has still to be added.
BoundInv ==
    /\ Present \subseteq bound
    /\ phase = "ready" => bound \subseteq Present
    /\ phase # "ready" => bound \subseteq Planned

\* Two functions of a configuration have no endpoint in common: while it is
\* bound its endpoints stay claimed.  Its interfaces are its functions'.
ClaimInv ==
    /\ \A c \in Range(configs) : \A f, g \in Range(functions[c]) :
          f # g => eps[f] \cap eps[g] = {}
    /\ phase = "confbind" =>
          \A f \in Range(functions[Newest]) : eps[f] \subseteq claimed
    /\ \A c \in Range(configs) : Range(interface[c]) \subseteq Range(functions[c])

\* No string id is given out twice, and the override has its own.
StringInv ==
    /\ \A f, g \in Funcs : f # g => strid[f] \cap strid[g] = {}
    /\ phase \in {"binding", "confbind"} =>
          \A f \in Funcs : strid[f] \subseteq 1 .. next_string_id
    /\ phase = "ready" => \A f \in Funcs : override \notin strid[f]

BindTypes ==
    /\ phase \in {"idle", "binding", "confbind", "ready"}
    /\ configs \in Seq(Configs) /\ Len(configs) <= Len(Plan)
    /\ functions \in [Configs -> Seq(Funcs)]
    /\ interface \in [Configs -> Seq(Funcs)]
    /\ \A c \in Configs : Len(interface[c]) <= MaxInterfaces
    /\ speeds \in [Configs -> SUBSET Speeds]
    /\ claimed \subseteq 1 .. NumEndpoints
    /\ eps \in [Funcs -> SUBSET (1 .. NumEndpoints)]
    /\ strid \in [Funcs -> SUBSET (1 .. MaxStringId)]
    /\ next_string_id \in 0 .. MaxStringId /\ override \in 0 .. MaxStringId
    /\ bound \subseteq Funcs

BindOK == BindTypes /\ ListInv /\ BoundInv /\ ClaimInv /\ StringInv

\* The constants, one fact at a time.
LEMMA Constants ==
    /\ Plan \in Seq(Configs) /\ Len(Plan) \in Nat /\ DOMAIN Plan = 1 .. Len(Plan)
    /\ FunctionsOf \in [Configs -> Seq(Funcs)]
    /\ MaxInterfaces \in Nat /\ MaxStringId \in Nat /\ NumEndpoints \in Nat
    /\ MaxOwed \in Nat
    /\ Interfaces \in [Funcs -> Nat] /\ Endpoints \in [Funcs -> Nat]
    /\ Strings \in [Funcs -> Nat] /\ Descriptors \in [Funcs -> SUBSET Speeds]
    /\ Value \in [Configs -> Nat \ {0}] /\ Power \in [Configs -> Nat]
    /\ NONE \notin Configs /\ NONE \notin Funcs
  BY SMTT(30), CompositeConstants

LEMMA OneList ==
    ASSUME NEW c \in Configs, NEW d \in Configs,
           NEW i \in DOMAIN FunctionsOf[c], NEW j \in DOMAIN FunctionsOf[d],
           FunctionsOf[c][i] = FunctionsOf[d][j]
    PROVE  c = d /\ i = j
  BY SMTT(30), CompositeConstants

LEMMA RangeEmpty == Range(<<>>) = {}
  BY SMTT(30) DEF Range

\* A list is a first part of what its configuration's bind adds.
LEMMA ListedPart ==
    ASSUME BindTypes, ListInv, NEW c \in Range(configs)
    PROVE  /\ c \in Configs /\ functions[c] \in Seq(Funcs)
           /\ DOMAIN functions[c] \subseteq DOMAIN FunctionsOf[c]
           /\ \A k \in DOMAIN functions[c] : functions[c][k] = FunctionsOf[c][k]
  <1>1. PICK i \in DOMAIN configs : c = configs[i]
    BY DEF Range
  <1>2. c \in Configs /\ functions[c] \in Seq(Funcs) /\ FunctionsOf[c] \in Seq(Funcs)
    BY SMTT(30), <1>1, Constants DEF BindTypes
  <1>3. CASE functions[c] = FunctionsOf[c]
    BY <1>2, <1>3
  <1>4. CASE functions[c] # FunctionsOf[c]
    <2>1. /\ Len(functions[c]) <= Len(FunctionsOf[c])
          /\ \A k \in DOMAIN functions[c] : functions[c][k] = FunctionsOf[c][k]
      BY <1>1, <1>4 DEF ListInv
    <2> QED BY SMTT(30), <1>2, <2>1
  <1> QED BY <1>3, <1>4

\* The lists hold functions of their own configurations, which are distinct.
LEMMA ListedAreOf ==
    ASSUME BindTypes, ListInv
    PROVE  /\ Range(configs) \subseteq Configs
           /\ \A c \in Range(configs) : /\ Range(functions[c]) \subseteq Range(FunctionsOf[c])
                                        /\ Range(functions[c]) \subseteq Funcs
           /\ \A c \in Range(configs) : \A i, j \in DOMAIN functions[c] :
                 functions[c][i] = functions[c][j] => i = j
           /\ \A c, d \in Range(configs) :
                 c # d => Range(functions[c]) \cap Range(functions[d]) = {}
  <1>1. Range(configs) \subseteq Configs
    BY SMTT(30) DEF BindTypes, Range
  <1>2. ASSUME NEW c \in Range(configs)
        PROVE  /\ DOMAIN functions[c] \subseteq DOMAIN FunctionsOf[c]
               /\ \A k \in DOMAIN functions[c] :
                     functions[c][k] = FunctionsOf[c][k]
    BY ListedPart
  <1>3. ASSUME NEW c \in Range(configs)
        PROVE  /\ Range(functions[c]) \subseteq Range(FunctionsOf[c])
               /\ Range(functions[c]) \subseteq Funcs
    <2>1. functions[c] \in Seq(Funcs)
      BY <1>1 DEF BindTypes
    <2>2. Range(functions[c]) \subseteq Funcs
      BY SMTT(30), <2>1 DEF Range
    <2> QED BY <1>2, <2>2 DEF Range
  <1>4. ASSUME NEW c \in Range(configs), NEW d \in Range(configs),
               NEW i \in DOMAIN functions[c], NEW j \in DOMAIN functions[d],
               functions[c][i] = functions[d][j]
        PROVE  c = d /\ i = j
    <2>1. /\ i \in DOMAIN FunctionsOf[c] /\ j \in DOMAIN FunctionsOf[d]
          /\ FunctionsOf[c][i] = FunctionsOf[d][j]
      BY <1>2, <1>4
    <2> QED BY <1>1, <2>1, OneList
  <1> QED BY SMTT(30), <1>1, <1>3, <1>4 DEF Range

LEMMA BindFrame ==
    ASSUME BindOK, UNCHANGED <<phase, bindVars>> PROVE BindOK'
  <1>1. UNCHANGED <<phase, configs, functions, interface, speeds, claimed, eps,
                    next_string_id, strid, override, bound>>
    BY DEF bindVars
  <1>2. BindTypes' /\ ListInv'
    BY <1>1 DEF BindOK, BindTypes, ListInv
  <1>3. BoundInv' /\ ClaimInv'
    BY <1>1 DEF BindOK, BoundInv, ClaimInv, Present, Planned, Newest
  <1>4. StringInv'
    BY <1>1 DEF BindOK, StringInv
  <1> QED BY <1>2, <1>3, <1>4 DEF BindOK

LEMMA UnbindBind ==
    ASSUME BindOK, NEW L, composite_unbind(L), claimed' \subseteq 1 .. NumEndpoints,
           phase = "ready" => L = Range(configs)
    PROVE  BindOK'
  <1>1. /\ bound' = bound \ UNION {Range(functions[c]) : c \in L}
        /\ functions' = [c \in Configs |-> IF c \in L THEN <<>> ELSE functions[c]]
        /\ configs' = <<>> /\ phase' = "idle"
        /\ UNCHANGED <<interface, speeds, eps, next_string_id, strid, override>>
    BY DEF composite_unbind
  <1>2. BindTypes'
    <2>1. functions' \in [Configs -> Seq(Funcs)]
      BY SMTT(30), <1>1 DEF BindOK, BindTypes
    <2>2. configs' \in Seq(Configs) /\ Len(configs') <= Len(Plan)
      BY SMTT(30), <1>1, Constants
    <2> QED BY <1>1, <2>1, <2>2 DEF BindOK, BindTypes
  <1>3. Range(configs') = {} /\ DOMAIN configs' = {}
    BY SMTT(30), <1>1 DEF Range
  <1>4. ListInv'
    BY <1>1, <1>3 DEF ListInv
  <1>5. BoundInv'
    <2>1. Present' = {} /\ Planned' = Planned
      BY <1>3 DEF Present, Planned
    <2>2. bound' \subseteq Planned
      BY <1>1 DEF BindOK, BoundInv, Present
    <2> QED BY <1>1, <2>1, <2>2 DEF BoundInv
  <1>6. ClaimInv'
    BY <1>1, <1>3 DEF ClaimInv
  <1>7. StringInv'
    BY <1>1 DEF BindOK, StringInv
  <1> QED BY <1>2, <1>4, <1>5, <1>6, <1>7 DEF BindOK

LEMMA ProbeBind == ASSUME BindOK, usb_composite_probe PROVE BindOK'
  <1>1. /\ phase = "idle" /\ phase' = "binding" /\ configs' = <<>>
        /\ next_string_id' = 0 /\ override' = 0 /\ strid' = [f \in Funcs |-> {}]
        /\ claimed' = {}
        /\ UNCHANGED <<functions, interface, speeds, eps, bound>>
    BY DEF usb_composite_probe
  <1>2. configs' = configs
    BY <1>1 DEF BindOK, ListInv
  <1>3. BindTypes'
    BY SMTT(30), <1>1, <1>2, Constants DEF BindOK, BindTypes
  <1>4. Range(configs') = {} /\ DOMAIN configs' = {}
    BY SMTT(30), <1>1 DEF Range
  <1>5. ListInv'
    BY <1>1, <1>4 DEF ListInv
  <1>6. BoundInv'
    <2>1. Present' = {} /\ Planned' = Planned
      BY <1>4 DEF Present, Planned
    <2> QED BY <1>1, <2>1 DEF BindOK, BoundInv
  <1>7. ClaimInv'
    BY <1>1, <1>4 DEF ClaimInv
  <1>8. StringInv'
    BY <1>1 DEF StringInv
  <1> QED BY <1>3, <1>5, <1>6, <1>7, <1>8 DEF BindOK

\* usb_add_config up to the call of bind.
LEMMA AddConfigBind ==
    ASSUME BindOK, NEW c \in Configs, usb_add_config(c) PROVE BindOK'
  <1> DEFINE n == Len(configs)
  <1>1. /\ BindTypes /\ ListInv /\ BoundInv /\ ClaimInv /\ StringInv
        /\ phase = "binding"
        /\ n < Len(Plan) /\ c \in {Plan[n + 1]} \cup Range(configs)
    BY DEF BindOK, usb_add_config
  <1>2. CASE \E d \in Range(configs) : Value[d] = Value[c]
    <2>1. composite_unbind(Range(configs)) /\ claimed' = claimed
      BY <1>2 DEF usb_add_config
    <2>2. claimed' \subseteq 1 .. NumEndpoints
      BY <1>1, <2>1 DEF BindTypes
    <2> QED BY <2>1, <2>2, UnbindBind
  <1>3. CASE ~ \E d \in Range(configs) : Value[d] = Value[c]
    <2>1. /\ phase' = "confbind" /\ configs' = Append(configs, c)
          /\ functions' = [functions EXCEPT ![c] = <<>>]
          /\ interface' = [interface EXCEPT ![c] = <<>>]
          /\ UNCHANGED <<speeds, claimed, eps, next_string_id, strid, override, bound>>
      BY <1>3 DEF usb_add_config
    <2>2. c \notin Range(configs) /\ c = Plan[n + 1]
      BY <1>1, <1>3
    <2>3. /\ configs \in Seq(Configs) /\ functions \in [Configs -> Seq(Funcs)]
          /\ interface \in [Configs -> Seq(Funcs)]
      BY <1>1 DEF BindTypes
    <2>4. /\ configs' \in Seq(Configs) /\ n \in Nat /\ DOMAIN configs = 1 .. n
          /\ Len(configs') = n + 1 /\ DOMAIN configs' = 1 .. n + 1
          /\ \A i \in 1 .. n : configs'[i] = configs[i]
          /\ configs'[n + 1] = c
          /\ Range(configs') = Range(configs) \cup {c}
      <3>1. configs \in Seq(Configs) /\ c \in Configs
        BY <2>3
      <3>2. configs' = Append(configs, c)
        BY <2>1
      <3>3. /\ Append(configs, c) \in Seq(Configs) /\ Len(configs) \in Nat
            /\ DOMAIN configs = 1 .. Len(configs)
            /\ Len(Append(configs, c)) = Len(configs) + 1
            /\ DOMAIN Append(configs, c) = 1 .. Len(configs) + 1
            /\ \A i \in 1 .. Len(configs) : Append(configs, c)[i] = configs[i]
            /\ Append(configs, c)[Len(configs) + 1] = c
            /\ Range(Append(configs, c)) = Range(configs) \cup {c}
        BY SMTT(30), <3>1, AppendFacts
      <3> QED BY <3>2, <3>3
    <2> HIDE DEF n
    <2>5. /\ \A d \in Range(configs) : d \in Configs /\ d # c
          /\ \A d \in Range(configs) : functions'[d] = functions[d]
          /\ \A d \in Range(configs) : interface'[d] = interface[d]
          /\ functions'[c] = <<>> /\ interface'[c] = <<>>
      BY <1>1, <2>1, <2>2, <2>3, ListedAreOf
    <2>6. \A i \in 1 .. n : configs[i] \in Range(configs)
      BY <2>4 DEF Range
    <2>7. \A i \in 1 .. n + 1 : i \in 1 .. n \/ i = n + 1
      BY SMTT(30), <2>4
    <2>8. BindTypes'
      <3>1. /\ functions' \in [Configs -> Seq(Funcs)]
            /\ interface' \in [Configs -> Seq(Funcs)]
        BY SMTT(30), <2>1, <2>3
      <3>2. \A d \in Configs : Len(interface'[d]) <= MaxInterfaces
        <4> SUFFICES ASSUME NEW d \in Configs
                     PROVE  Len(interface'[d]) <= MaxInterfaces
          OBVIOUS
        <4>1. CASE d = c
          <5>1. interface'[d] = <<>>
            BY <2>5, <4>1
          <5>2. MaxInterfaces \in Nat
            BY Constants
          <5> QED BY SMTT(30), <5>1, <5>2
        <4>2. CASE d # c
          <5>1. interface'[d] = interface[d]
            BY <2>1, <2>3, <4>2
          <5> QED BY <1>1, <5>1 DEF BindTypes
        <4> QED BY <4>1, <4>2
      <3>3. Len(configs') <= Len(Plan)
        <4>1. n < Len(Plan)
          BY <1>1
        <4>2. n \in Nat /\ Len(Plan) \in Nat /\ Len(configs') = n + 1
          BY <2>4, Constants
        <4> QED BY SMTT(30), <4>1, <4>2
      <3> QED BY <1>1, <2>1, <2>4, <3>1, <3>2, <3>3 DEF BindTypes
    <2>9. ListInv'
      <3>1. configs' # <<>>
        BY SMTT(30), <2>4
      <3>2. \A i \in DOMAIN configs' : configs'[i] = Plan[i]
        <4>1. \A i \in 1 .. n : configs[i] = Plan[i]
          BY <1>1, <2>4 DEF ListInv
        <4> QED BY <2>2, <2>4, <2>7, <4>1
      <3>3. \A i, j \in DOMAIN configs' : configs'[i] = configs'[j] => i = j
        <4>1. \A i, j \in 1 .. n : configs[i] = configs[j] => i = j
          BY <1>1, <2>4 DEF ListInv
        <4>2. \A i \in 1 .. n : configs[i] # c
          BY <2>2, <2>6
        <4> QED BY <2>4, <2>7, <4>1, <4>2
      <3>4. ASSUME NEW i \in DOMAIN configs', i # Len(configs')
            PROVE  functions'[configs'[i]] = FunctionsOf[configs'[i]]
        <4>1. i \in 1 .. n /\ configs'[i] = configs[i] /\ i \in DOMAIN configs
          BY <2>4, <2>7, <3>4
        <4>2. functions[configs[i]] = FunctionsOf[configs[i]]
          BY <1>1, <4>1 DEF ListInv
        <4> QED BY <2>5, <2>6, <4>1, <4>2
      <3>5. ASSUME NEW i \in DOMAIN configs', i = Len(configs')
            PROVE  /\ Len(functions'[configs'[i]]) <= Len(FunctionsOf[configs'[i]])
                   /\ \A k \in DOMAIN functions'[configs'[i]] :
                         functions'[configs'[i]][k] = FunctionsOf[configs'[i]][k]
        <4>1. functions'[configs'[i]] = <<>>
          BY <2>4, <2>5, <3>5
        <4>2. configs'[i] \in Configs
          BY <2>4, <3>5
        <4>3. Len(FunctionsOf[configs'[i]]) \in Nat
          BY SMTT(30), <4>2, Constants
        <4> QED BY SMTT(30), <4>1, <4>3
      <3> QED BY <2>1, <3>1, <3>2, <3>3, <3>4, <3>5 DEF ListInv
    <2>11. Range(functions'[c]) = {} /\ Range(interface'[c]) = {}
      <3>1. functions'[c] = <<>> /\ interface'[c] = <<>>
        BY <2>5
      <3> QED BY <3>1, RangeEmpty
    <2>10. BoundInv'
      <3>1. Present' \subseteq Present
        <4> SUFFICES ASSUME NEW d \in Range(configs'), NEW g \in Range(functions'[d])
                     PROVE  g \in Present
          BY DEF Present
        <4>1. d \in Range(configs)
          BY <2>4, <2>11
        <4>2. g \in Range(functions[d])
          BY <2>5, <4>1
        <4> QED BY <4>1, <4>2 DEF Present
      <3> QED BY <1>1, <2>1, <3>1 DEF BoundInv, Planned
    <2>12. ClaimInv'
      <3>1. Newest' = c
        BY <2>4 DEF Newest
      <3> QED BY <1>1, <2>1, <2>4, <2>5, <2>11, <3>1 DEF ClaimInv
    <2>13. StringInv'
      BY <1>1, <2>1 DEF StringInv
    <2> QED BY <2>8, <2>9, <2>10, <2>12, <2>13 DEF BindOK
  <1> QED BY <1>2, <1>3

LEMMA ConfigBoundBind == ASSUME BindOK, config_bound PROVE BindOK'
  <1>1. /\ BindTypes /\ ListInv /\ BoundInv /\ ClaimInv /\ StringInv
    BY DEF BindOK
  <1>2. /\ phase = "confbind" /\ phase' = "binding" /\ claimed' = {}
        /\ Len(functions[Newest]) = Len(FunctionsOf[Newest])
        /\ UNCHANGED <<configs, functions, interface, speeds, eps, next_string_id,
                       strid, override, bound>>
    BY DEF config_bound
  <1>3. BindTypes'
    BY <1>1, <1>2 DEF BindTypes
  <1>4. \A i \in DOMAIN configs : functions[configs[i]] = FunctionsOf[configs[i]]
    <2> SUFFICES ASSUME NEW i \in DOMAIN configs
                 PROVE  functions[configs[i]] = FunctionsOf[configs[i]]
      OBVIOUS
    <2>1. CASE i # Len(configs)
      BY <1>1, <2>1 DEF ListInv
    <2>2. CASE i = Len(configs)
      <3> DEFINE c == configs[i]
      <3>1. /\ Len(functions[c]) = Len(FunctionsOf[c])
            /\ \A k \in DOMAIN functions[c] : functions[c][k] = FunctionsOf[c][k]
        BY <1>1, <1>2, <2>2 DEF ListInv, Newest
      <3>2. c \in Configs
        BY SMTT(30), <1>1 DEF BindTypes
      <3>3. functions[c] \in Seq(Funcs) /\ FunctionsOf[c] \in Seq(Funcs)
        BY <1>1, <3>2, Constants DEF BindTypes
      <3> QED BY SMTT(30), <3>1, <3>3, SeqEqual
    <2> QED BY <2>1, <2>2
  <1>5. ListInv'
    BY <1>1, <1>2, <1>4 DEF ListInv
  <1>6. BoundInv' /\ ClaimInv'
    BY <1>1, <1>2 DEF BoundInv, ClaimInv, Present, Planned
  <1>7. StringInv'
    BY <1>1, <1>2 DEF StringInv
  <1> QED BY <1>3, <1>5, <1>6, <1>7 DEF BindOK

\* Interface ids put a function at the end of the table.
LEMMA ConcatFacts ==
    ASSUME NEW S, NEW s \in Seq(S), NEW f \in S, NEW m \in Nat
    PROVE  LET t == s \o [i \in 1 .. m |-> f]
           IN  /\ t \in Seq(S) /\ Len(t) = Len(s) + m
               /\ Range(t) \subseteq Range(s) \cup {f}
  <1> DEFINE e == [i \in 1 .. m |-> f]
             t == s \o e
  <1>1. e \in Seq(S) /\ Len(e) = m /\ \A i \in 1 .. m : e[i] = f
    BY SMTT(30)
  <1> HIDE DEF e
  <1>2. /\ t \in Seq(S) /\ Len(t) = Len(s) + Len(e)
        /\ \A i \in 1 .. Len(s) + Len(e) :
              t[i] = IF i <= Len(s) THEN s[i] ELSE e[i - Len(s)]
    BY <1>1, ConcatProperties
  <1>3. Len(s) \in Nat /\ DOMAIN s = 1 .. Len(s)
    BY SMTT(30)
  <1> HIDE DEF t
  <1>4. DOMAIN t = 1 .. Len(s) + m
    BY SMTT(30), <1>1, <1>2
  <1>5. ASSUME NEW i \in DOMAIN t PROVE t[i] \in Range(s) \cup {f}
    <2>1. CASE i <= Len(s)
      <3>1. i \in DOMAIN s /\ t[i] = s[i]
        BY SMTT(30), <1>1, <1>2, <1>3, <1>4, <2>1
      <3> QED BY <3>1 DEF Range
    <2>2. CASE ~(i <= Len(s))
      <3>1. i - Len(s) \in 1 .. m
        BY SMTT(30), <1>3, <1>4, <2>2
      <3>2. t[i] = e[i - Len(s)]
        BY <1>1, <1>2, <1>4, <2>2
      <3> QED BY <1>1, <3>1, <3>2
    <2> QED BY <2>1, <2>2
  <1>6. Range(t) \subseteq Range(s) \cup {f}
    BY <1>5 DEF Range
  <1> QED BY <1>1, <1>2, <1>6 DEF t, e

\* String ids are given out up to MaxStringId, in each of the three ways.
LEMMA StringIdsFit ==
    ASSUME NEW n \in Nat, n >= 1, next_string_id \in 0 .. MaxStringId,
           next_string_id + n \in StringIds(n)
    PROVE  next_string_id + n <= MaxStringId
  <1> DEFINE next == next_string_id
  <1>1. next \in Nat /\ MaxStringId \in Nat /\ next <= MaxStringId
    BY SMTT(30), Constants
  <1> HIDE DEF next
  <1>2. CASE next + n = usb_string_ids_n(next, n)
    BY SMTT(30), <1>1, <1>2 DEF usb_string_ids_n, next
  <1>3. CASE next + n = usb_string_id(next)
    BY SMTT(30), <1>1, <1>3 DEF usb_string_id, next
  <1>4. CASE next + n = usb_string_ids_tab(next, n)
    <2> DEFINE Ends(k) == /\ k = n \/ next + k >= MaxStringId
                          /\ \A j \in 0 .. (k - 1) : next + j < MaxStringId
               given == CHOOSE k \in 0 .. n : Ends(k)
    <2>1. \E k \in 0 .. n : Ends(k)
      <3>1. CASE next + n <= MaxStringId
        <4>1. n \in 0 .. n /\ Ends(n)
          BY SMTT(30), <1>1, <3>1
        <4> QED BY <4>1
      <3>2. CASE ~(next + n <= MaxStringId)
        <4>1. MaxStringId - next \in 0 .. n /\ Ends(MaxStringId - next)
          BY SMTT(30), <1>1, <3>2
        <4> QED BY <4>1
      <3> QED BY <3>1, <3>2
    <2>2. Ends(given)
      BY <2>1
    <2>3. next + n = IF given = n THEN next + n ELSE next
      BY <1>4 DEF usb_string_ids_tab
    <2> HIDE DEF given
    <2>4. given = n
      BY SMTT(30), <1>1, <2>3
    <2>5. n - 1 \in 0 .. (n - 1)
      BY SMTT(30)
    <2>6. next + (n - 1) < MaxStringId
      BY <2>2, <2>4, <2>5
    <2> QED BY SMTT(30), <1>1, <2>6 DEF next
  <1> QED BY <1>2, <1>3, <1>4 DEF StringIds, next

LEMMA AddFunctionBind ==
    ASSUME BindOK, NEW n \in 1 .. MaxStringId, usb_add_function(n) PROVE BindOK'
  <1> DEFINE c == Newest
             done == Len(functions[c])
             f == FunctionsOf[c][done + 1]
             free == FreeEndpoints(Endpoints[f])
             next == next_string_id + n
  <1>1. /\ BindTypes /\ ListInv /\ BoundInv /\ ClaimInv /\ StringInv
    BY DEF BindOK
  <1>2. /\ phase = "confbind" /\ done < Len(FunctionsOf[c])
        /\ next \in StringIds(n)
        /\ Len(interface[c]) + Interfaces[f] <= MaxInterfaces
        /\ functions' = [functions EXCEPT ![c] = Append(@, f)]
        /\ interface' = [interface EXCEPT ![c] = usb_interface_id(c, f)]
        /\ eps' = [eps EXCEPT ![f] = free]
        /\ claimed' = claimed \cup free
        /\ strid' = [strid EXCEPT ![f] = (next_string_id + 1) .. next]
        /\ next_string_id' = next
        /\ bound' = bound \cup {f}
        /\ speeds' = [speeds EXCEPT ![c] = @ \cup Descriptors[f]]
        /\ UNCHANGED <<phase, configs, override>>
    BY DEF usb_add_function
  <1>3. /\ configs \in Seq(Configs) /\ functions \in [Configs -> Seq(Funcs)]
        /\ interface \in [Configs -> Seq(Funcs)] /\ configs # <<>>
    BY <1>1, <1>2 DEF BindTypes, ListInv
  <1>4. /\ Len(configs) \in Nat /\ DOMAIN configs = 1 .. Len(configs)
        /\ Len(configs) \in DOMAIN configs /\ c = configs[Len(configs)]
    BY SMTT(30), <1>3, EmptySeq DEF Newest
  <1> HIDE DEF c
  <1>5. /\ c \in Configs /\ c \in Range(configs)
        /\ \A i \in DOMAIN configs : configs[i] \in Configs
    <2>1. \A i \in DOMAIN configs : configs[i] \in Configs
      BY SMTT(30), <1>3
    <2> QED BY <1>4, <2>1 DEF Range
  <1>6. /\ functions[c] \in Seq(Funcs) /\ FunctionsOf[c] \in Seq(Funcs)
        /\ done \in Nat /\ Len(FunctionsOf[c]) \in Nat
        /\ done + 1 \in DOMAIN FunctionsOf[c] /\ f \in Funcs
        /\ f \in Range(FunctionsOf[c])
    <2>1. functions[c] \in Seq(Funcs) /\ FunctionsOf[c] \in Seq(Funcs)
      BY <1>3, <1>5, Constants
    <2>2. done \in Nat /\ Len(FunctionsOf[c]) \in Nat
      BY SMTT(30), <2>1
    <2>3. done + 1 \in DOMAIN FunctionsOf[c]
      <3>1. done < Len(FunctionsOf[c])
        BY <1>2
      <3>2. DOMAIN FunctionsOf[c] = 1 .. Len(FunctionsOf[c])
        BY SMTT(30), <2>1
      <3> HIDE DEF done
      <3> QED BY SMTT(30), <2>2, <3>1, <3>2
    <2> QED BY SMTT(30), <2>1, <2>2, <2>3 DEF Range
  <1>7. /\ Append(functions[c], f) \in Seq(Funcs)
        /\ DOMAIN functions[c] = 1 .. done
        /\ Len(Append(functions[c], f)) = done + 1
        /\ DOMAIN Append(functions[c], f) = 1 .. done + 1
        /\ \A i \in 1 .. done : Append(functions[c], f)[i] = functions[c][i]
        /\ Append(functions[c], f)[done + 1] = f
        /\ Range(Append(functions[c], f)) = Range(functions[c]) \cup {f}
    <2>1. functions[c] \in Seq(Funcs) /\ f \in Funcs
      BY <1>6
    <2> HIDE DEF f
    <2> QED BY SMTT(30), <2>1, AppendFacts
  <1> DEFINE a == Append(functions[c], f)
  <1>8. ASSUME NEW d \in Range(configs) PROVE f \notin Range(functions[d])
    <2> SUFFICES ASSUME NEW k \in DOMAIN functions[d], functions[d][k] = f
                 PROVE  FALSE
      BY DEF Range
    <2>1. d \in Configs /\ k \in DOMAIN FunctionsOf[d] /\ FunctionsOf[d][k] = f
      BY <1>1, ListedPart
    <2>2. d = c /\ k = done + 1
      <3>1. c \in Configs /\ done + 1 \in DOMAIN FunctionsOf[c]
        BY <1>5, <1>6
      <3> HIDE DEF f, done
      <3>2. FunctionsOf[c][done + 1] = f
        BY DEF f
      <3> QED BY SMTT(30), <2>1, <3>1, <3>2, OneList
    <2>3. done + 1 \in 1 .. done /\ done \in Nat
      BY <1>6, <1>7, <2>2
    <2> HIDE DEF done
    <2> QED BY SMTT(30), <2>3
  <1>9. /\ free \subseteq 1 .. NumEndpoints /\ free \cap claimed = {}
    BY DEF FreeEndpoints
  <1>10. next \in Nat /\ next <= MaxStringId /\ next_string_id \in Nat /\ n \in Nat
    <2>1. next_string_id \in 0 .. MaxStringId
      BY <1>1 DEF BindTypes
    <2>2. next_string_id + n \in StringIds(n)
      BY <1>2
    <2>3. n \in Nat /\ n >= 1 /\ next_string_id \in Nat
      BY SMTT(30), <2>1, Constants
    <2>4. next_string_id + n <= MaxStringId
      BY <2>1, <2>2, <2>3, StringIdsFit
    <2> QED BY SMTT(30), <2>3, <2>4
  <1> HIDE DEF a, free, next, f, done, c
  <1>11. /\ functions' = [functions EXCEPT ![c] = a]
         /\ functions'[c] = a
         /\ \A d \in Configs : d # c => functions'[d] = functions[d]
         /\ functions' \in [Configs -> Seq(Funcs)]
    BY <1>2, <1>3, <1>5, <1>7 DEF a
  <1>12. LET t == interface[c] \o [i \in 1 .. Interfaces[f] |-> f]
         IN  /\ t \in Seq(Funcs) /\ Len(t) = Len(interface[c]) + Interfaces[f]
             /\ Range(t) \subseteq Range(interface[c]) \cup {f}
    <2>1. interface[c] \in Seq(Funcs) /\ Interfaces[f] \in Nat
      BY <1>3, <1>5, <1>6, Constants
    <2> QED BY <1>6, <2>1, ConcatFacts
  <1>13. /\ interface'[c] \in Seq(Funcs) /\ Len(interface'[c]) <= MaxInterfaces
         /\ Range(interface'[c]) \subseteq Range(interface[c]) \cup {f}
         /\ \A d \in Configs : d # c => interface'[d] = interface[d]
         /\ interface' \in [Configs -> Seq(Funcs)]
    <2> DEFINE t == interface[c] \o [i \in 1 .. Interfaces[f] |-> f]
    <2>1. interface' = [interface EXCEPT ![c] = t]
      BY <1>2 DEF usb_interface_id
    <2>2. t \in Seq(Funcs) /\ Len(t) <= MaxInterfaces
          /\ Range(t) \subseteq Range(interface[c]) \cup {f}
      BY <1>2, <1>12
    <2> HIDE DEF t
    <2> QED BY <1>3, <1>5, <2>1, <2>2
  <1>14. /\ eps'[f] = free /\ \A g \in Funcs : g # f => eps'[g] = eps[g]
         /\ eps' \in [Funcs -> SUBSET (1 .. NumEndpoints)]
    BY <1>1, <1>2, <1>6, <1>9 DEF BindTypes
  <1>15. /\ strid'[f] = (next_string_id + 1) .. next
         /\ \A g \in Funcs : g # f => strid'[g] = strid[g]
         /\ strid' \in [Funcs -> SUBSET (1 .. MaxStringId)]
    <2>1. (next_string_id + 1) .. next \subseteq 1 .. MaxStringId
      BY SMTT(30), <1>10, Constants
    <2> QED BY <1>1, <1>2, <1>6, <2>1 DEF BindTypes
  <1>16. BindTypes'
    <2>1. \A d \in Configs : Len(interface'[d]) <= MaxInterfaces
      BY <1>1, <1>13 DEF BindTypes
    <2>2. speeds' \in [Configs -> SUBSET Speeds]
      <3>1. Descriptors[f] \subseteq Speeds
        BY <1>6, Constants
      <3> QED BY <1>1, <1>2, <1>5, <3>1 DEF BindTypes
    <2>3. next_string_id' \in 0 .. MaxStringId
      <3>1. next_string_id' = next
        BY <1>2
      <3>2. MaxStringId \in Nat
        BY Constants
      <3> QED BY SMTT(30), <1>10, <3>1, <3>2
    <2>4. claimed' \subseteq 1 .. NumEndpoints /\ bound' \subseteq Funcs
      BY <1>1, <1>2, <1>6, <1>9 DEF BindTypes
    <2>5. /\ phase' \in {"idle", "binding", "confbind", "ready"}
          /\ configs' \in Seq(Configs) /\ Len(configs') <= Len(Plan)
          /\ override' \in 0 .. MaxStringId
      BY <1>1, <1>2 DEF BindTypes
    <2> QED BY <1>11, <1>13, <1>14, <1>15, <2>1, <2>2, <2>3, <2>4, <2>5 DEF BindTypes
  <1>17. ListInv'
    <2>1. ASSUME NEW i \in DOMAIN configs, i # Len(configs)
          PROVE  functions'[configs[i]] = FunctionsOf[configs[i]]
      <3>1. configs[i] # configs[Len(configs)]
        BY <1>1, <1>4, <2>1 DEF ListInv
      <3>2. configs[i] \in Configs /\ configs[i] # c
        BY <1>4, <1>5, <2>1, <3>1
      <3> QED BY <1>1, <1>11, <2>1, <3>2 DEF ListInv
    <2>2. /\ Len(a) <= Len(FunctionsOf[c])
          /\ \A k \in DOMAIN a : a[k] = FunctionsOf[c][k]
      <3>1. \A k \in 1 .. done : functions[c][k] = FunctionsOf[c][k]
        BY <1>1, <1>5, <1>7, ListedPart
      <3>2. done \in Nat /\ Len(FunctionsOf[c]) \in Nat
        BY <1>6
      <3>3. \A k \in 1 .. done + 1 : k \in 1 .. done \/ k = done + 1
        BY SMTT(30), <3>2
      <3>4. Len(a) = done + 1 /\ DOMAIN a = 1 .. done + 1 /\ a[done + 1] = f
            /\ \A k \in 1 .. done : a[k] = functions[c][k]
        BY <1>7 DEF a
      <3>5. done < Len(FunctionsOf[c])
        BY <1>2
      <3>6. Len(a) <= Len(FunctionsOf[c])
        BY SMTT(30), <3>2, <3>4, <3>5
      <3>7. f = FunctionsOf[c][done + 1]
        BY DEF f
      <3>8. ASSUME NEW k \in DOMAIN a PROVE a[k] = FunctionsOf[c][k]
        <4>1. k \in 1 .. done \/ k = done + 1
          BY <3>3, <3>4
        <4> QED BY <3>1, <3>4, <3>7, <4>1
      <3> QED BY <3>6, <3>8
    <2>3. /\ phase = "confbind" /\ phase' = phase /\ configs' = configs
          /\ configs # <<>>
          /\ \A i \in DOMAIN configs : configs[i] = Plan[i]
          /\ \A i, j \in DOMAIN configs : configs[i] = configs[j] => i = j
      BY <1>1, <1>2 DEF ListInv
    <2>4. /\ Len(functions'[c]) <= Len(FunctionsOf[c])
          /\ \A k \in DOMAIN functions'[c] : functions'[c][k] = FunctionsOf[c][k]
      BY <1>11, <2>2
    <2>5. configs[Len(configs)] = c
      BY <1>4
    <2>6. ASSUME NEW i \in DOMAIN configs
          PROVE  IF phase' = "confbind" /\ i = Len(configs)
                 THEN /\ Len(functions'[configs[i]]) <= Len(FunctionsOf[configs[i]])
                      /\ \A k \in DOMAIN functions'[configs[i]] :
                            functions'[configs[i]][k] = FunctionsOf[configs[i]][k]
                 ELSE functions'[configs[i]] = FunctionsOf[configs[i]]
      BY <2>1, <2>3, <2>4, <2>5
    <2>7. phase' # "idle"
      BY <2>3
    <2> QED BY <2>3, <2>6, <2>7 DEF ListInv
  <1>18. BoundInv'
    <2>1. Present' \subseteq Present \cup {f}
      <3> SUFFICES ASSUME NEW d \in Range(configs)
                   PROVE  Range(functions'[d]) \subseteq Present \cup {f}
        BY <1>2 DEF Present
      <3>1. d \in Configs /\ Range(functions[d]) \subseteq Present
        BY <1>1, ListedAreOf DEF Present
      <3> QED BY <1>7, <1>11, <3>1 DEF a
    <2>2. f \in Planned
      <3>1. c = Plan[Len(configs)]
        BY <1>1, <1>2, <1>4 DEF ListInv
      <3>2. Len(configs) \in DOMAIN Plan
        BY SMTT(30), <1>1, <1>4, Constants DEF BindTypes
      <3>3. c \in Range(Plan)
        BY <3>1, <3>2 DEF Range
      <3> QED BY <1>6, <3>3 DEF Planned
    <2> QED BY <1>1, <1>2, <2>1, <2>2 DEF BoundInv, Planned
  <1>19. ClaimInv'
    <2>1. ASSUME NEW d \in Range(configs), NEW g \in Range(functions'[d]),
                 NEW h \in Range(functions'[d]), g # h
          PROVE  eps'[g] \cap eps'[h] = {}
      <3>1. d \in Configs /\ Range(functions[d]) \subseteq Funcs
        BY <1>1, ListedAreOf
      <3>2. CASE d # c
        <4>1. /\ g \in Range(functions[d]) /\ h \in Range(functions[d])
              /\ g # f /\ h # f
          BY <1>8, <1>11, <2>1, <3>1, <3>2
        <4> QED BY <1>1, <1>14, <2>1, <3>1, <4>1 DEF ClaimInv
      <3>3. CASE d = c
        <4>1. \A x \in Range(functions[c]) :
                 /\ x \in Funcs /\ x # f /\ eps'[x] = eps[x]
                 /\ eps[x] \subseteq claimed
          BY <1>1, <1>2, <1>5, <1>8, <1>14, <3>1, <3>3 DEF ClaimInv, c
        <4>2. g \in Range(functions[c]) \cup {f} /\ h \in Range(functions[c]) \cup {f}
          BY <1>7, <1>11, <2>1, <3>3 DEF a
        <4>3. \A x, y \in Range(functions[c]) : x # y => eps[x] \cap eps[y] = {}
          BY <1>1, <1>5 DEF ClaimInv
        <4> QED BY <1>9, <1>14, <2>1, <4>1, <4>2, <4>3
      <3> QED BY <3>2, <3>3
    <2>2. \A g \in Range(functions'[c]) : eps'[g] \subseteq claimed'
      <3>1. \A g \in Range(functions[c]) :
               g \in Funcs /\ g # f /\ eps[g] \subseteq claimed
        <4>1. c \in Range(configs) /\ phase = "confbind" /\ BindTypes /\ ListInv
          BY <1>1, <1>2, <1>5
        <4>2. \A g \in Range(functions[c]) : g \in Funcs
          BY <4>1, ListedAreOf
        <4>3. \A g \in Range(functions[c]) : g # f
          BY <1>8, <4>1
        <4>4. \A g \in Range(functions[c]) : eps[g] \subseteq claimed
          BY <1>1, <4>1 DEF ClaimInv, c
        <4> QED BY <4>2, <4>3, <4>4
      <3> QED BY <1>2, <1>7, <1>11, <1>14, <3>1 DEF a
    <2>3. ASSUME NEW d \in Range(configs)
          PROVE  Range(interface'[d]) \subseteq Range(functions'[d])
      <3>1. d \in Configs /\ Range(interface[d]) \subseteq Range(functions[d])
        BY <1>1, ListedAreOf DEF ClaimInv
      <3>2. CASE d = c
        BY <1>7, <1>11, <1>13, <3>1, <3>2 DEF a
      <3>3. CASE d # c
        BY <1>11, <1>13, <3>1, <3>3
      <3> QED BY <3>2, <3>3
    <2>4. Newest' = c
      BY <1>2 DEF c, Newest
    <2> QED BY <1>2, <2>1, <2>2, <2>3, <2>4 DEF ClaimInv
  <1>20. StringInv'
    <2>1. \A g \in Funcs : strid[g] \subseteq 1 .. next_string_id
      BY <1>1, <1>2 DEF StringInv
    <2>2. /\ (1 .. next_string_id) \cap ((next_string_id + 1) .. next) = {}
          /\ 1 .. next_string_id \subseteq 1 .. next
          /\ (next_string_id + 1) .. next \subseteq 1 .. next
      BY SMTT(30), <1>10 DEF next
    <2>3. \A g, h \in Funcs : g # h => strid'[g] \cap strid'[h] = {}
      BY <1>1, <1>15, <2>1, <2>2 DEF StringInv
    <2>4. \A g \in Funcs : strid'[g] \subseteq 1 .. next
      BY <1>15, <2>1, <2>2
    <2> QED BY <1>2, <2>3, <2>4 DEF StringInv
  <1> QED BY <1>16, <1>17, <1>18, <1>19, <1>20 DEF BindOK

\* The end of composite_bind: all configurations are there.
LEMMA ComposeBind == ASSUME BindOK, composite_bind PROVE BindOK'
  <1>1. /\ BindTypes /\ ListInv /\ BoundInv /\ ClaimInv /\ StringInv
        /\ phase = "binding" /\ Len(configs) = Len(Plan)
    BY DEF BindOK, composite_bind
  <1>2. CASE composite_unbind(Range(configs)) /\ claimed' = claimed
    <2>1. claimed' \subseteq 1 .. NumEndpoints
      BY <1>1, <1>2 DEF BindTypes
    <2> QED BY <1>2, <2>1, UnbindBind
  <1>3. CASE /\ phase' = "ready"
             /\ override' = override_id(next_string_id)
             /\ next_string_id' = usb_string_id(next_string_id)
             /\ UNCHANGED <<configs, functions, interface, speeds, claimed, eps,
                            strid, bound>>
    <2>1. next_string_id \in Nat /\ next_string_id <= MaxStringId /\ MaxStringId \in Nat
      BY SMTT(30), <1>1, Constants DEF BindTypes
    <2>2. /\ override' \in 0 .. MaxStringId /\ next_string_id' \in 0 .. MaxStringId
          /\ override' \notin 1 .. next_string_id
      BY SMTT(30), <1>3, <2>1 DEF override_id, usb_string_id
    <2>3. BindTypes'
      BY <1>1, <1>3, <2>2 DEF BindTypes
    <2>4. ListInv'
      BY <1>1, <1>3 DEF ListInv
    <2>5. Present' = Present /\ Planned' = Planned
      BY <1>3 DEF Present, Planned
    <2>6. Planned \subseteq Present
      <3> SUFFICES ASSUME NEW i \in DOMAIN Plan
                   PROVE  Range(FunctionsOf[Plan[i]]) \subseteq Present
        BY SMTT(30) DEF Planned, Range
      <3>1. i \in DOMAIN configs
        BY SMTT(30), <1>1, Constants DEF BindTypes
      <3>2. configs[i] = Plan[i] /\ functions[configs[i]] = FunctionsOf[configs[i]]
        BY <1>1, <3>1 DEF ListInv
      <3>3. configs[i] \in Range(configs)
        BY <3>1 DEF Range
      <3>4. Range(functions[configs[i]]) \subseteq Present
        BY <3>3 DEF Present
      <3> QED BY <3>2, <3>4
    <2>7. BoundInv'
      BY <1>1, <1>3, <2>5, <2>6 DEF BoundInv
    <2>8. ClaimInv'
      BY <1>1, <1>3 DEF ClaimInv
    <2>9. StringInv'
      BY <1>1, <1>3, <2>2 DEF StringInv
    <2> QED BY <2>3, <2>4, <2>7, <2>8, <2>9 DEF BindOK
  <1> QED BY <1>2, <1>3 DEF composite_bind

\* What usb_remove_config does to the lists.
LEMMA RemoveLists ==
    ASSUME BindOK, NEW c, usb_remove_config(c)
    PROVE  /\ c \in Configs /\ c \in Range(configs)
           /\ configs' \in Seq(Configs) /\ Len(configs') <= Len(configs)
           /\ \A i, j \in DOMAIN configs' : configs'[i] = configs'[j] => i = j
           /\ Range(configs') = Range(configs) \ {c}
           /\ \A d \in Range(configs') : d \in Range(configs) /\ d \in Configs /\ d # c
           /\ \A d \in Range(configs') : functions'[d] = functions[d]
  <1>1. /\ BindTypes /\ ListInv /\ BoundInv /\ ClaimInv /\ StringInv
        /\ phase = "ready" /\ phase' = "ready"
        /\ bound' = bound \ Range(functions[c])
        /\ functions' = [functions EXCEPT ![c] = <<>>]
        /\ UNCHANGED <<interface, speeds, claimed, eps, next_string_id, strid, override>>
    BY DEF BindOK, usb_remove_config
  <1>2. PICK k \in DOMAIN configs : configs[k] = c /\ configs' = list_del(configs, k)
    BY DEF usb_remove_config
  <1>3. /\ configs \in Seq(Configs) /\ functions \in [Configs -> Seq(Funcs)]
        /\ Len(configs) <= Len(Plan) /\ Len(configs) \in Nat
    BY SMTT(30), <1>1 DEF BindTypes
  <1>4. c \in Configs /\ c \in Range(configs)
    BY <1>2, <1>3, SMTT(60) DEF Range
  <1>5. /\ configs' \in Seq(Configs) /\ Len(configs') <= Len(configs)
        /\ \A i, j \in DOMAIN configs' : configs'[i] = configs'[j] => i = j
        /\ Range(configs') = Range(configs) \ {c}
    <2>1. \A i, j \in DOMAIN configs : configs[i] = configs[j] => i = j
      BY <1>1 DEF ListInv
    <2> QED BY SMTT(30), <1>2, <1>3, <2>1, ListDelFacts
  <1>6. /\ \A d \in Range(configs') : d \in Range(configs) /\ d \in Configs /\ d # c
        /\ \A d \in Range(configs') : functions'[d] = functions[d]
    <2>1. Range(configs) \subseteq Configs
      BY <1>1, ListedAreOf
    <2> QED BY <1>1, <1>3, <1>5, <2>1
  <1> QED BY <1>4, <1>5, <1>6

LEMMA RemoveConfigBind ==
    ASSUME BindOK, NEW c, usb_remove_config(c) PROVE BindOK'
  <1>1. /\ BindTypes /\ ListInv /\ BoundInv /\ ClaimInv /\ StringInv
        /\ phase = "ready" /\ phase' = "ready"
        /\ bound' = bound \ Range(functions[c])
        /\ functions' = [functions EXCEPT ![c] = <<>>]
        /\ UNCHANGED <<interface, speeds, claimed, eps, next_string_id, strid, override>>
    BY DEF BindOK, usb_remove_config
  <1>3. /\ configs \in Seq(Configs) /\ functions \in [Configs -> Seq(Funcs)]
        /\ Len(configs) <= Len(Plan) /\ Len(configs) \in Nat
    BY SMTT(30), <1>1 DEF BindTypes
  <1>4. c \in Configs /\ c \in Range(configs)
    BY RemoveLists
  <1>5. /\ configs' \in Seq(Configs) /\ Len(configs') <= Len(configs)
        /\ \A i, j \in DOMAIN configs' : configs'[i] = configs'[j] => i = j
        /\ Range(configs') = Range(configs) \ {c}
    BY RemoveLists
  <1>6. /\ \A d \in Range(configs') : d \in Range(configs) /\ d \in Configs /\ d # c
        /\ \A d \in Range(configs') : functions'[d] = functions[d]
    BY RemoveLists
  <1>7. BindTypes'
    <2>1. functions' \in [Configs -> Seq(Funcs)]
      BY SMTT(30), <1>1, <1>3, <1>4
    <2>2. Len(configs') \in Nat
      BY SMTT(30), <1>5
    <2>3. Len(configs') <= Len(Plan)
      BY SMTT(30), <1>3, <1>5, <2>2, Constants
    <2> QED BY <1>1, <1>5, <2>1, <2>3 DEF BindTypes
  <1>8. ListInv'
    <2>1. \A d \in Range(configs) : functions[d] = FunctionsOf[d]
      <3>1. \A i \in DOMAIN configs : functions[configs[i]] = FunctionsOf[configs[i]]
        BY <1>1 DEF ListInv
      <3> QED BY <3>1 DEF Range
    <2>2. \A i \in DOMAIN configs' : configs'[i] \in Range(configs')
      BY DEF Range
    <2> QED BY <1>1, <1>5, <1>6, <2>1, <2>2 DEF ListInv
  <1>9. BoundInv'
    <2>1. \A d \in Range(configs') : Range(functions[d]) \cap Range(functions[c]) = {}
      BY <1>1, <1>4, <1>6, ListedAreOf
    <2>2. Present = Present' \cup Range(functions[c])
      <3>1. Range(configs) = Range(configs') \cup {c}
        BY <1>4, <1>5
      <3>2. Present' = UNION {Range(functions[d]) : d \in Range(configs')}
        BY <1>6 DEF Present
      <3> QED BY <3>1, <3>2 DEF Present
    <2>3. Present' \cap Range(functions[c]) = {}
      BY <1>6, <2>1 DEF Present
    <2> QED BY <1>1, <2>2, <2>3 DEF BoundInv
  <1>10. ClaimInv'
    BY <1>1, <1>6 DEF ClaimInv
  <1>11. StringInv'
    BY <1>1 DEF StringInv
  <1> QED BY <1>7, <1>8, <1>9, <1>10, <1>11 DEF BindOK

LEMMA BindKeepsBind == ASSUME BindOK, Bind PROVE BindOK'
  <1>1. CASE usb_composite_probe
    BY <1>1, ProbeBind
  <1>2. CASE bind_fails
    <2>1. /\ phase = "confbind" /\ claimed' = {}
          /\ composite_unbind(Range(configs) \ {Newest})
      BY <1>2 DEF bind_fails
    <2> QED BY <2>1, UnbindBind
  <1>3. ASSUME NEW c \in Configs, usb_add_config(c) PROVE BindOK'
    BY <1>3, AddConfigBind
  <1>4. ASSUME NEW n \in 1 .. MaxStringId, usb_add_function(n) PROVE BindOK'
    BY <1>4, AddFunctionBind
  <1>5. CASE config_bound
    BY <1>5, ConfigBoundBind
  <1>6. CASE composite_bind
    BY <1>6, ComposeBind
  <1>7. CASE usb_composite_unregister
    <2>1. composite_unbind(Range(configs)) /\ claimed' = claimed
      BY <1>7 DEF usb_composite_unregister
    <2>2. claimed' \subseteq 1 .. NumEndpoints
      BY <2>1 DEF BindOK, BindTypes
    <2> QED BY <2>1, <2>2, UnbindBind
  <1>8. ASSUME NEW c \in Configs, usb_remove_config(c) PROVE BindOK'
    BY <1>8, RemoveConfigBind
  <1> QED BY <1>1, <1>2, <1>3, <1>4, <1>5, <1>6, <1>7, <1>8 DEF Bind

\* After the bind no list changes but by usb_remove_config.
LEMMA QuietBind ==
    ASSUME Setup \/ Events \/ Continue PROVE UNCHANGED <<phase, bindVars>>
  <1> DEFINE Q == UNCHANGED <<phase, bindVars>>
  <1>1. ASSUME NEW n, set_config_none(n) PROVE Q
    BY <1>1 DEF set_config_none
  <1>2. ASSUME NEW c, NEW late, NEW fail, set_config(c, late, fail) PROVE Q
    BY <1>2 DEF set_config
  <1>3. ASSUME NEW c, set_config_oops(c) PROVE Q
    BY <1>3 DEF set_config_oops
  <1>4. ASSUME NEW i, NEW r, set_interface(i, r) PROVE Q
    BY <1>4 DEF set_interface
  <1>5. ASSUME set_interface_count \/ endpoint_request_oops PROVE Q
    BY <1>5 DEF set_interface_count, endpoint_request_oops
  <1>6. ASSUME NEW f, usb_composite_setup_continue(f) PROVE Q
    BY <1>6 DEF usb_composite_setup_continue
  <1>7. ASSUME NEW x, attach(x) PROVE Q
    BY <1>7 DEF attach
  <1>8. ASSUME composite_disconnect \/ composite_suspend \/ composite_resume PROVE Q
    BY <1>8 DEF composite_disconnect, composite_suspend, composite_resume
  <1>9. ASSUME NEW f, usb_function_deactivate(f) \/ usb_function_activate(f) PROVE Q
    BY <1>9 DEF usb_function_deactivate, usb_function_activate
  <1> HIDE DEF Q
  <1>10. Q
    BY <1>1, <1>2, <1>3, <1>4, <1>5, <1>6, <1>7, <1>8, <1>9
    DEF Setup, Events, Continue
  <1> QED BY <1>10 DEF Q

LEMMA BindInductive == ASSUME BindOK, [Next]_vars PROVE BindOK'
  <1>1. CASE UNCHANGED vars
    <2>1. UNCHANGED <<phase, bindVars>>
      BY <1>1 DEF vars
    <2> QED BY <2>1, BindFrame
  <1>2. CASE Bind
    BY <1>2, BindKeepsBind
  <1>3. CASE Setup \/ Events \/ Continue
    <2>1. UNCHANGED <<phase, bindVars>>
      BY <1>3, QuietBind
    <2> QED BY <2>1, BindFrame
  <1> QED BY <1>1, <1>2, <1>3 DEF Next

LEMMA InitBind == ASSUME Init PROVE BindOK
  <1>1. BindTypes
    <2>1. /\ <<>> \in Seq(Configs) /\ <<>> \in Seq(Funcs) /\ Len(<<>>) = 0
          /\ 0 \in 0 .. MaxStringId /\ 0 <= Len(Plan) /\ 0 <= MaxInterfaces
      BY SMTT(30), Constants
    <2>2. /\ configs = <<>> /\ phase = "idle" /\ next_string_id = 0 /\ override = 0
          /\ claimed = {} /\ bound = {}
          /\ functions = [c \in Configs |-> <<>>] /\ interface = [c \in Configs |-> <<>>]
      BY DEF Init
    <2>3. /\ speeds \in [Configs -> SUBSET Speeds]
          /\ eps \in [Funcs -> SUBSET (1 .. NumEndpoints)]
          /\ strid \in [Funcs -> SUBSET (1 .. MaxStringId)]
      BY DEF Init
    <2>4. /\ functions \in [Configs -> Seq(Funcs)] /\ interface \in [Configs -> Seq(Funcs)]
          /\ \A c \in Configs : Len(interface[c]) <= MaxInterfaces
      BY <2>1, <2>2
    <2> QED BY <2>1, <2>2, <2>3, <2>4 DEF BindTypes
  <1>2. Range(configs) = {} /\ DOMAIN configs = {}
    BY SMTT(30) DEF Init, Range
  <1>3. ListInv
    BY <1>2 DEF Init, ListInv
  <1>4. BoundInv
    BY <1>2 DEF Init, BoundInv, Present
  <1>5. ClaimInv
    BY <1>2 DEF Init, ClaimInv
  <1>6. StringInv
    BY DEF Init, StringInv
  <1> QED BY <1>1, <1>3, <1>4, <1>5, <1>6 DEF BindOK
=============================================================================
