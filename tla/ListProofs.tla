----------------------------- MODULE ListProofs -----------------------------
(***************************************************************************)
(* Lists that are walked while they change.                                *)
(*                                                                         *)
(* Mirror, for any set of devices and interface indexes: references are    *)
(* exact, the tap's devices exist, and a copy is not copied again.         *)
(* ListHead, for any files, threads, writers and bound: the list that the  *)
(* timer's callback walks, and what a blocked read returns.                *)
(***************************************************************************)
EXTENDS Mirror, ListHead, FiniteSetTheorems, TLAPS

\* Most leaves take no arithmetic: Zenon is tried unless a leaf names another prover.
USE ZenonT(30)

\* Counting the entries of ports_dev: none in the empty list, one more with
\* a port added, at least one for a port that is listed.
LEMMA TimesType ==
    ASSUME NEW S, NEW s \in Seq(S), NEW d
    PROVE  /\ IsFiniteSet({i \in DOMAIN s : s[i] = d})
           /\ Times(d, s) \in Nat
  <1>1. DOMAIN s = 1 .. Len(s) /\ Len(s) \in Nat
    BY SMTT(30)
  <1>2. IsFiniteSet(1 .. Len(s))
    BY SMTT(30), <1>1, FS_Interval
  <1>3. {i \in DOMAIN s : s[i] = d} \in SUBSET (1 .. Len(s))
    BY <1>1
  <1>4. IsFiniteSet({i \in DOMAIN s : s[i] = d})
    BY <1>2, <1>3, FS_Subset
  <1> QED BY <1>4, FS_CardinalityType DEF Times

LEMMA TimesEmpty == ASSUME NEW d PROVE Times(d, <<>>) = 0
  <1>1. {i \in DOMAIN <<>> : <<>>[i] = d} = {}
    BY SMTT(30)
  <1> QED BY <1>1, FS_EmptySet DEF Times

LEMMA TimesAppend ==
    ASSUME NEW S, NEW s \in Seq(S), NEW x \in S, NEW d
    PROVE  Times(d, Append(s, x)) = Times(d, s) + (IF x = d THEN 1 ELSE 0)
  <1> DEFINE Old == {i \in DOMAIN s : s[i] = d}
             New == {i \in DOMAIN Append(s, x) : Append(s, x)[i] = d}
  <1>1. IsFiniteSet(Old) /\ Times(d, s) = Cardinality(Old)
        /\ Times(d, s) \in Nat
    BY TimesType DEF Times
  <1>2. Len(s) + 1 \notin Old
    BY SMTT(30)
  <1>3. CASE x = d
    <2>1. New = Old \cup {Len(s) + 1}
      BY SMTT(30), <1>3
    <2>2. Cardinality(New) = Cardinality(Old) + 1
      BY <1>1, <1>2, <2>1, FS_AddElement
    <2> QED BY <1>1, <1>3, <2>2 DEF Times
  <1>4. CASE x # d
    <2>1. New = Old
      BY SMTT(30), <1>4
    <2>2. Times(d, Append(s, x)) = Times(d, s)
      BY <1>1, <2>1 DEF Times
    <2> QED BY SMTT(30), <1>1, <1>4, <2>2
  <1> QED BY <1>3, <1>4

LEMMA TimesListed ==
    ASSUME NEW S, NEW s \in Seq(S), NEW i \in DOMAIN s
    PROVE  Times(s[i], s) >= 1
  <1>1. i \in {j \in DOMAIN s : s[j] = s[i]}
    OBVIOUS
  <1>2. Times(s[i], s) \in Nat /\ Times(s[i], s) # 0
    BY <1>1, TimesType, FS_EmptySet DEF Times
  <1> QED BY SMTT(30), <1>2

-----------------------------------------------------------------------------
TypesOK ==
    /\ present \subseteq Devs
    /\ refs \in [Devs -> Int] /\ lost \in [Devs -> Nat]
    /\ ports \in Seq(Devs) /\ from \in Seq(Devs)
    /\ at \in {"out", "ports", "in"}

\* What is set in each stage of loading; the tap is called only while loaded.
StageOK ==
    /\ at = "out" => ports = <<>> /\ mirror = NoDev
    /\ at = "ports" => to \in Devs /\ mirror = NoDev
    /\ at = "in" => mirror \in Devs /\ mirror = to
    /\ tap \/ hop # NoHop => at = "in"

\* The ports taken so far are registered devices other than the mirror port,
\* and the mask holds their bits and no others.
PortsOK ==
    /\ \A i \in DOMAIN ports : ports[i] \in present /\ ports[i] # to
    /\ mirror # NoDev => mirror \in present
    /\ bits = {ifindex[ports[i]] % 32 : i \in DOMAIN ports}

\* The condition of CopyNotCopied.
Distinct ==
    \A i \in DOMAIN ports :
        ports[i] # mirror => ifindex[ports[i]] % 32 # ifindex[mirror] % 32

\* A packet is an original, or the first copy, which is on the mirror port.
HopOK ==
    /\ hop.copies \in Nat
    /\ Distinct => \/ hop.copies = 0
                   \/ hop.copies = 1 /\ hop.dev = mirror

MirrorInv == TypesOK /\ StageOK /\ PortsOK /\ HopOK /\ RefsExact

LEMMA InitMirror ==
    ASSUME MirrorAssumption, MirrorInit PROVE MirrorInv
  <1> USE DEF MirrorInit
  <1>1. TypesOK /\ StageOK
    BY SMTT(30) DEF TypesOK, StageOK
  <1>2. PortsOK
    BY SMTT(30) DEF PortsOK
  <1>3. HopOK
    BY DEF HopOK, NoHop
  <1>4. RefsExact
    <2> SUFFICES ASSUME NEW d \in Devs
                 PROVE refs[d] = Times(d, ports) + lost[d]
                                   + (IF mirror = d THEN 1 ELSE 0)
      BY DEF RefsExact
    <2> QED BY SMTT(30), TimesEmpty DEF MirrorAssumption
  <1> QED BY <1>1, <1>2, <1>3, <1>4 DEF MirrorInv

\* Without a module no port is listed, no copy is under way.
LEMMA UnloadedOK ==
    ASSUME MirrorAssumption, TypesOK, hop = NoHop, ~tap',
           Unloaded, UNCHANGED <<present, hop>>,
           refs' \in [Devs -> Int], lost' \in [Devs -> Nat],
           \A d \in Devs : refs'[d] = lost'[d]
    PROVE  MirrorInv'
  <1> USE DEF Unloaded
  <1>1. TypesOK'
    BY SMTT(30) DEF TypesOK
  <1>2. StageOK'
    BY DEF StageOK
  <1>3. PortsOK'
    BY SMTT(30) DEF PortsOK
  <1>4. HopOK'
    BY DEF HopOK, NoHop
  <1>5. RefsExact'
    BY SMTT(30), TimesEmpty DEF RefsExact, MirrorAssumption
  <1> QED BY <1>1, <1>2, <1>3, <1>4, <1>5 DEF MirrorInv

\* Loading begins with a parsed option.
LEMMA LoadStep ==
    ASSUME MirrorAssumption, MirrorInv, ainit_module
    PROVE  MirrorInv'
  <1> USE DEF MirrorInv, ainit_module
  <1>1. from' \in Seq(Devs)
    BY SMTT(30) DEF MirrorAssumption
  <1>2. ports = <<>> /\ mirror = NoDev /\ hop = NoHop
    BY DEF StageOK
  <1>3. TypesOK'
    BY <1>1 DEF TypesOK
  <1>4. StageOK'
    BY <1>2 DEF StageOK
  <1>5. PortsOK' /\ HopOK' /\ RefsExact'
    BY SMTT(30), <1>2 DEF PortsOK, HopOK, RefsExact, Distinct
  <1> QED BY <1>3, <1>4, <1>5

\* A data port: a reference and an entry more, or all of them given back.
LEMMA DataPortStep ==
    ASSUME MirrorAssumption, MirrorInv, set_data_port
    PROVE  MirrorInv'
  <1>1. TypesOK /\ StageOK /\ PortsOK /\ HopOK /\ RefsExact
    BY DEF MirrorInv
  <1>2. mirror = NoDev /\ hop = NoHop /\ ~tap /\ to \in Devs
    BY <1>1 DEF StageOK, set_data_port
  <1>3. \A d \in Devs : Times(d, ports) \in Nat /\ lost[d] \in Nat
    BY <1>1, TimesType DEF TypesOK
  <1>4. \A d \in Devs : refs[d] = Times(d, ports) + lost[d]
    <2> SUFFICES ASSUME NEW d \in Devs
                 PROVE  refs[d] = Times(d, ports) + lost[d]
      OBVIOUS
    <2>1. refs[d] = Times(d, ports) + lost[d] + (IF mirror = d THEN 1 ELSE 0)
      BY <1>1 DEF RefsExact
    <2>2. mirror # d
      BY <1>2 DEF MirrorAssumption
    <2> QED BY SMTT(30), <1>3, <2>1, <2>2
  <1>5. CASE Head(from) = to \/ Head(from) \notin present
    <2>1. /\ refs' = [d \in Devs |-> refs[d] - Times(d, ports)] /\ Unloaded
          /\ UNCHANGED <<present, lost, tap, hop>>
      BY <1>5 DEF free_ports, set_data_port
    <2>2. \A d \in Devs : refs'[d] = lost[d]
      BY SMTT(30), <1>3, <1>4, <2>1
    <2>3. refs' \in [Devs -> Int]
      <3>1. \A d \in Devs : refs[d] - Times(d, ports) \in Int
        BY SMTT(30), <1>1, <1>3 DEF TypesOK
      <3> QED BY <2>1, <3>1
    <2> QED BY <1>1, <1>2, <2>1, <2>2, <2>3, UnloadedOK DEF TypesOK
  <1>6. CASE ~(Head(from) = to \/ Head(from) \notin present)
    <2> DEFINE x == Head(from)
    <2>1. x \in Devs /\ Tail(from) \in Seq(Devs) /\ x # to /\ x \in present
      BY SMTT(30), <1>1, <1>6 DEF TypesOK, set_data_port
    <2>2. /\ refs' = [refs EXCEPT ![x] = @ + 1] /\ ports' = Append(ports, x)
          /\ bits' = bits \cup {ifindex[x] % 32} /\ from' = Tail(from)
          /\ UNCHANGED <<at, to, mirror, present, lost, tap, hop>>
      BY <1>6 DEF set_data_port
    <2> HIDE DEF x
    <2>3. TypesOK'
      <3>1. refs' \in [Devs -> Int]
        BY SMTT(30), <1>1, <2>1, <2>2 DEF TypesOK
      <3>2. ports' \in Seq(Devs)
        BY SMTT(30), <1>1, <2>1, <2>2 DEF TypesOK
      <3> QED BY <1>1, <2>1, <2>2, <3>1, <3>2 DEF TypesOK
    <2>4. StageOK'
      BY SMTT(30), <1>1, <1>2, <2>2 DEF StageOK, set_data_port
    <2>5. /\ DOMAIN ports' = DOMAIN ports \cup {Len(ports) + 1}
          /\ ports'[Len(ports) + 1] = x
          /\ \A i \in DOMAIN ports : ports'[i] = ports[i]
      <3>1. ports \in Seq(Devs)
        BY <1>1 DEF TypesOK
      <3> QED BY SMTT(30), <2>1, <2>2, <3>1
    <2>6. PortsOK'
      <3>1. \A i \in DOMAIN ports' : ports'[i] \in present /\ ports'[i] # to
        BY <1>1, <2>1, <2>5 DEF PortsOK
      <3>2. bits' = {ifindex[ports'[i]] % 32 : i \in DOMAIN ports'}
        BY SMTT(30), <1>1, <2>2, <2>5 DEF PortsOK
      <3> QED BY <1>2, <2>2, <3>1, <3>2 DEF PortsOK
    <2>7. HopOK'
      BY <1>2, <2>2 DEF HopOK, NoHop
    <2>8. RefsExact'
      <3> SUFFICES ASSUME NEW d \in Devs
                   PROVE refs'[d] = Times(d, ports') + lost'[d]
                                      + (IF mirror' = d THEN 1 ELSE 0)
        BY DEF RefsExact
      <3>1. Times(d, ports') = Times(d, ports) + (IF x = d THEN 1 ELSE 0)
        BY <1>1, <2>1, <2>2, TimesAppend DEF TypesOK
      <3>2. refs'[d] = refs[d] + (IF x = d THEN 1 ELSE 0)
        BY SMTT(60), <1>1, <2>1, <2>2 DEF TypesOK
      <3>3. mirror' # d /\ lost'[d] = lost[d]
        BY <1>2, <2>2 DEF MirrorAssumption
      <3> QED BY SMTT(30), <1>3, <1>4, <3>1, <3>2, <3>3
    <2> QED BY <2>3, <2>4, <2>6, <2>7, <2>8 DEF MirrorInv
  <1> QED BY <1>5, <1>6

\* The mirror port: loaded, or failed with the references of the data ports
\* left behind.
LEMMA MirrorPortStep ==
    ASSUME MirrorAssumption, MirrorInv, set_mirror_port
    PROVE  MirrorInv'
  <1>1. TypesOK /\ StageOK /\ PortsOK /\ HopOK /\ RefsExact
    BY DEF MirrorInv
  <1>2. mirror = NoDev /\ hop = NoHop /\ ~tap /\ to \in Devs
    BY <1>1 DEF StageOK, set_mirror_port
  <1>3. \A d \in Devs : Times(d, ports) \in Nat /\ lost[d] \in Nat
    BY <1>1, TimesType DEF TypesOK
  <1>4. \A d \in Devs : refs[d] = Times(d, ports) + lost[d]
    <2> SUFFICES ASSUME NEW d \in Devs
                 PROVE  refs[d] = Times(d, ports) + lost[d]
      OBVIOUS
    <2>1. refs[d] = Times(d, ports) + lost[d] + (IF mirror = d THEN 1 ELSE 0)
      BY <1>1 DEF RefsExact
    <2>2. mirror # d
      BY <1>2 DEF MirrorAssumption
    <2> QED BY SMTT(30), <1>3, <2>1, <2>2
  <1>5. CASE to \in present
    <2>1. /\ mirror' = to /\ refs' = [refs EXCEPT ![to] = @ + 1]
          /\ at' = "in"
          /\ UNCHANGED <<from, to, ports, bits, lost, present, hop>>
      BY <1>5 DEF set_mirror_port
    <2>2. TypesOK'
      <3>1. refs' \in [Devs -> Int]
        BY SMTT(30), <1>1, <1>2, <2>1 DEF TypesOK
      <3> QED BY <1>1, <2>1, <3>1 DEF TypesOK
    <2>3. StageOK'
      BY <1>2, <2>1 DEF StageOK
    <2>4. PortsOK'
      BY <1>1, <1>5, <2>1 DEF PortsOK
    <2>5. HopOK'
      BY <1>2, <2>1 DEF HopOK, NoHop
    <2>6. RefsExact'
      <3> SUFFICES ASSUME NEW d \in Devs
                   PROVE refs'[d] = Times(d, ports') + lost'[d]
                                      + (IF mirror' = d THEN 1 ELSE 0)
        BY DEF RefsExact
      <3>1. refs'[d] = refs[d] + (IF to = d THEN 1 ELSE 0)
        BY SMTT(30), <1>1, <1>2, <2>1 DEF TypesOK
      <3> QED BY <1>3, <1>4, <2>1, <3>1
    <2> QED BY <2>2, <2>3, <2>4, <2>5, <2>6 DEF MirrorInv
  <1>6. CASE to \notin present
    <2>1. /\ lost = [d \in Devs |-> 0]
          /\ lost' = [d \in Devs |-> Times(d, ports)]
          /\ Unloaded /\ UNCHANGED <<refs, tap, present, hop>>
      BY <1>6 DEF set_mirror_port
    <2>2. lost' \in [Devs -> Nat]
      BY <1>3, <2>1
    <2>3. \A d \in Devs : refs'[d] = lost'[d]
      BY SMTT(30), <1>3, <1>4, <2>1
    <2> QED BY <1>1, <1>2, <2>1, <2>2, <2>3, UnloadedOK DEF TypesOK
  <1> QED BY <1>5, <1>6

\* Unloading gives back exactly what was taken.
LEMMA CleanupStep ==
    ASSUME MirrorAssumption, MirrorInv, acleanup_module
    PROVE  MirrorInv'
  <1>1. TypesOK /\ StageOK /\ RefsExact
    BY DEF MirrorInv
  <1>2. mirror \in Devs /\ hop = NoHop
    BY <1>1 DEF StageOK, acleanup_module
  <1>3. \A d \in Devs : Times(d, ports) \in Nat /\ lost[d] \in Nat
    BY <1>1, TimesType DEF TypesOK
  <1>4. /\ refs' = [[d \in Devs |-> refs[d] - Times(d, ports)]
                       EXCEPT ![mirror] = @ - 1]
        /\ Unloaded /\ ~tap' /\ UNCHANGED <<present, lost, hop>>
    BY DEF acleanup_module, free_ports
  <1>5. \A d \in Devs : refs'[d] = lost[d]
    <2> SUFFICES ASSUME NEW d \in Devs PROVE refs'[d] = lost[d]
      OBVIOUS
    <2>1. refs[d] = Times(d, ports) + lost[d] + (IF mirror = d THEN 1 ELSE 0)
      BY <1>1 DEF RefsExact
    <2>2. refs'[d] = refs[d] - Times(d, ports) - (IF mirror = d THEN 1 ELSE 0)
      <3>1. refs[d] \in Int
        BY <1>1 DEF TypesOK
      <3>2. CASE mirror = d
        BY <1>2, <1>4, <3>2
      <3>3. CASE mirror # d
        BY SMTT(30), <1>2, <1>3, <1>4, <3>1, <3>3
      <3> QED BY <3>2, <3>3
    <2> QED BY SMTT(30), <1>3, <2>1, <2>2
  <1>6. refs' \in [Devs -> Int]
    <2>1. \A d \in Devs : refs'[d] \in Int
      BY SMTT(30), <1>3, <1>5
    <2>2. refs' = [d \in Devs |-> refs'[d]]
      BY <1>4
    <2> QED BY <2>1, <2>2
  <1> QED BY <1>1, <1>2, <1>4, <1>5, <1>6, UnloadedOK DEF TypesOK

\* A device comes, or goes: then no entry and not the mirror port refers to
\* it, because every such reference is counted.
LEMMA DeviceStep ==
    ASSUME MirrorAssumption, MirrorInv, device_changes
    PROVE  MirrorInv'
  <1>1. TypesOK /\ StageOK /\ PortsOK /\ HopOK /\ RefsExact
    BY DEF MirrorInv
  <1>2. UNCHANGED <<refs, lost, at, from, to, ports, bits, mirror, tap, hop>>
    BY DEF device_changes, Setup
  <1>3. PICK d \in Devs :
          \/ present' = present \cup {d}
          \/ d \in present /\ refs[d] = 0 /\ present' = present \ {d}
    BY DEF device_changes
  <1>4. TypesOK' /\ StageOK' /\ HopOK' /\ RefsExact'
    BY <1>1, <1>2, <1>3 DEF TypesOK, StageOK, HopOK, Distinct, RefsExact
  <1>5. PortsOK'
    <2>1. CASE present' = present \cup {d}
      BY <1>1, <1>2, <2>1 DEF PortsOK
    <2>2. CASE d \in present /\ refs[d] = 0 /\ present' = present \ {d}
      <3>1. Times(d, ports) + lost[d] + (IF mirror = d THEN 1 ELSE 0) = 0
        BY <1>1, <2>2 DEF RefsExact
      <3>2. Times(d, ports) \in Nat /\ lost[d] \in Nat
        BY <1>1, TimesType DEF TypesOK
      <3>3. Times(d, ports) = 0 /\ mirror # d
        BY SMTT(30), <3>1, <3>2
      <3>4. \A i \in DOMAIN ports : ports[i] # d
        <4> SUFFICES ASSUME NEW i \in DOMAIN ports, ports[i] = d PROVE FALSE
          OBVIOUS
        <4>1. Times(ports[i], ports) >= 1
          BY <1>1, TimesListed DEF TypesOK
        <4> QED BY SMTT(30), <3>3, <4>1
      <3> QED BY <1>1, <1>2, <2>2, <3>3, <3>4 DEF PortsOK
    <2> QED BY <1>3, <2>1, <2>2
  <1> QED BY <1>4, <1>5 DEF MirrorInv

\* The tap: a copy that comes back on the mirror port is not of a data port.
LEMMA TapStep ==
    ASSUME MirrorAssumption, MirrorInv, packet \/ mirror_func
    PROVE  MirrorInv'
  <1>1. TypesOK /\ StageOK /\ PortsOK /\ HopOK /\ RefsExact
    BY DEF MirrorInv
  <1>2. UNCHANGED <<present, refs, lost, at, from, to, ports, bits, mirror,
                    tap>>
    BY DEF packet, mirror_func, Setup
  <1>3. at = "in" /\ mirror = to
    BY <1>1 DEF packet, mirror_func, StageOK
  <1>4. TypesOK' /\ StageOK' /\ PortsOK' /\ RefsExact'
    BY <1>1, <1>2, <1>3 DEF TypesOK, StageOK, PortsOK, RefsExact
  <1>5. HopOK'
    <2>1. Distinct' = Distinct
      BY <1>2 DEF Distinct
    <2>2. CASE packet \/ hop' = NoHop
      <3>1. hop'.copies = 0
        BY SMTT(30), <2>2 DEF packet, NoHop
      <3> QED BY SMTT(30), <3>1 DEF HopOK
    <2>3. CASE /\ is_ports(hop.dev)
               /\ hop' = [dev |-> mirror, copies |-> hop.copies + 1]
      <3>1. hop.copies \in Nat
        BY <1>1 DEF HopOK
      <3>2. hop'.copies = hop.copies + 1 /\ hop'.dev = mirror
        BY <2>3
      <3>3. ASSUME Distinct PROVE hop.copies = 0
        <4> SUFFICES ASSUME hop.dev = mirror PROVE FALSE
          BY <1>1, <3>3 DEF HopOK
        <4>1. PICK i \in DOMAIN ports :
                ifindex[ports[i]] % 32 = ifindex[mirror] % 32
          BY <1>1, <2>3 DEF is_ports, PortsOK
        <4>2. ports[i] # mirror
          BY <1>1, <1>3 DEF PortsOK
        <4> QED BY <3>3, <4>1, <4>2 DEF Distinct
      <3>4. Distinct' => hop'.copies = 1 /\ hop'.dev = mirror'
        BY SMTT(30), <1>2, <2>1, <3>2, <3>3
      <3> QED BY SMTT(30), <3>1, <3>2, <3>4 DEF HopOK
    <2> QED BY <2>2, <2>3 DEF mirror_func
  <1> QED BY <1>4, <1>5 DEF MirrorInv

\* The inductive invariant, for any devices, indexes and options.
THEOREM MirrorInvariance ==
    ASSUME MirrorAssumption PROVE MirrorSpec => []MirrorInv
  <1>1. MirrorInit => MirrorInv
    BY InitMirror
  <1>2. MirrorInv /\ [MirrorNext]_mirrorVars => MirrorInv'
    <2> SUFFICES ASSUME MirrorInv, [MirrorNext]_mirrorVars PROVE MirrorInv'
      OBVIOUS
    <2>1. CASE UNCHANGED mirrorVars
      <3>1. TypesOK' /\ StageOK'
        BY <2>1 DEF mirrorVars, MirrorInv, TypesOK, StageOK
      <3>2. PortsOK' /\ RefsExact'
        BY <2>1 DEF mirrorVars, MirrorInv, PortsOK, RefsExact
      <3>3. HopOK'
        BY <2>1 DEF mirrorVars, MirrorInv, HopOK, Distinct
      <3> QED BY <3>1, <3>2, <3>3 DEF MirrorInv
    <2>2. CASE MirrorNext
      BY <2>2, LoadStep, DataPortStep, MirrorPortStep, CleanupStep,
         DeviceStep, TapStep DEF MirrorNext
    <2> QED BY <2>1, <2>2
  <1> QED BY <1>1, <1>2, PTL DEF MirrorSpec

\* Every reference on a device is accounted for (option_setup, free_ports,
\* acleanup_module).
THEOREM ReferencesExact ==
    ASSUME MirrorAssumption PROVE MirrorSpec => []RefsExact
  <1>1. MirrorInv => RefsExact
    BY DEF MirrorInv
  <1> QED BY <1>1, MirrorInvariance, PTL

\* mirror_func only meets registered devices.
THEOREM TapDevicesExist ==
    ASSUME MirrorAssumption PROVE MirrorSpec => []TapHasDevices
  <1>1. MirrorInv => TapHasDevices
    BY DEF MirrorInv, StageOK, PortsOK, TapHasDevices, MirrorAssumption
  <1> QED BY <1>1, MirrorInvariance, PTL

\* A copy is not copied again, as long as no data port's index equals the
\* mirror port's modulo 32.
THEOREM CopiesEnd ==
    ASSUME MirrorAssumption PROVE MirrorSpec => []CopyNotCopied
  <1>1. MirrorInv => CopyNotCopied
    BY SMTT(30) DEF MirrorInv, HopOK, Distinct, CopyNotCopied
  <1> QED BY <1>1, MirrorInvariance, PTL

\* References, devices and copies at once, as the run of the drivers checks
\* it (option_setup, mirror_func, acleanup_module).
THEOREM MirrorIsSafe ==
    ASSUME MirrorAssumption PROVE MirrorSpec => []MirrorSafe
  BY ReferencesExact, TapDevicesExist, CopiesEnd, PTL DEF MirrorSafe

-----------------------------------------------------------------------------
USE DEF Goto

\* The state the module starts in satisfies the inductive invariant.
LEMMA InitIInv == Init => IInv
<1> SUFFICES ASSUME Init PROVE IInv
  OBVIOUS
<1> USE ListHeadAssumption DEF Init, TimerInit
<1>1. TypeOK
  BY DEF TypeOK
<1>2. ReadersHoldFile
  BY DEF ReadersHoldFile
<1>3. ListIsLinked /\ WalkIsLinked
  BY DEF ListIsLinked, WalkIsLinked
<1>4. LoopIsQueued /\ NoLostWakeup
  BY DEF LoopIsQueued, NoLostWakeup
<1>5. NoMissedTick
  BY DEF NoMissedTick
<1>6. RefCntExact
  <2>1. {f \in Files : fstate[f] \in {"opening", "open"}} = {}
    OBVIOUS
  <2> QED
    BY <2>1, FS_EmptySet DEF RefCntExact
<1> QED
  BY <1>1, <1>2, <1>3, <1>4, <1>5, <1>6 DEF IInv

-----------------------------------------------------------------------------
(* Three parts of the types: of the timer and its attributes, of the       *)
(* readers and what they share, and of the list and the walk over it.      *)
TimerTypes ==
    /\ pending \in BOOLEAN
    /\ fn \in {"idle", "data", "lock", "mark", "wakeq", "wake", "rearm"}
    /\ timeperiod \in Nat
    /\ wpc \in [Writers -> {"idle", "mod", "del"}]
    /\ mstate \in {"sysfs", "chrdev", "failed", "live", "exit_del",
                   "exit_dev", "gone"}
    /\ halted \in BOOLEAN
    /\ quiet \in {"no", "skipped", "synced"}

ReaderTypes ==
    /\ has_data \in [Files -> BOOLEAN]
    /\ waitq \in SUBSET Threads
    /\ pc \in [Threads -> {"idle", "test", "queue", "setstate", "check",
                           "sched", "clear", "fetch", "copy", "out"}]
    /\ file \in [Threads -> Files \cup {NoFile}]
    /\ asleep \in [Threads -> BOOLEAN]
    /\ signal \in [Threads -> BOOLEAN]
    /\ retval \in [Threads -> {"ok", "EAGAIN", "ERESTARTSYS", "EFAULT"}]
    /\ len \in [Threads -> BOOLEAN]
    /\ seen \in [Files -> Nat]

ListTypes ==
    /\ data \in Nat
    /\ ref_cnt \in Nat
    /\ list \in SUBSET Files
    /\ fstate \in [Files -> {"closed", "opening", "open", "releasing"}]
    /\ nonblock \in [Files -> BOOLEAN]
    /\ todo \in SUBSET Files
    /\ towake \in SUBSET Threads

\* The three parts are all of the types, before a step and after it.
LEMMA TypeParts == TypeOK => TimerTypes /\ ReaderTypes /\ ListTypes
BY ZenonT(60) DEF TypeOK, TimerTypes, ReaderTypes, ListTypes

LEMMA TypePartsNext ==
    ASSUME TimerTypes', ReaderTypes', ListTypes'
    PROVE  TypeOK'
BY ZenonT(60) DEF TypeOK, TimerTypes, ReaderTypes, ListTypes

\* A part whose variables a step leaves alone is kept.
LEMMA TimerFrame == ASSUME TimerTypes, UNCHANGED timerVars PROVE TimerTypes'
BY DEF TimerTypes, timerVars

LEMMA ReaderFrame ==
    ASSUME ReaderTypes, UNCHANGED <<readVars, has_data, waitq, seen>>
    PROVE  ReaderTypes'
BY DEF ReaderTypes, readVars

LEMMA ListFrame ==
    ASSUME ListTypes, UNCHANGED <<listVars, walkVars, data>>
    PROVE  ListTypes'
BY DEF ListTypes, listVars, walkVars

\* A thread in reg_read keeps the types it can disturb.
LEMMA ReaderTypeStep ==
    ASSUME ReaderTypes, data \in Nat, NEW t \in Threads,
           \/ \E f \in Files : ReadStart(t, f)
           \/ ReadStep(t)
           \/ Signal(t)
    PROVE  ReaderTypes'
<1> USE DEF ReaderTypes
<1>1. ASSUME NEW f \in Files, ReadStart(t, f) PROVE ReaderTypes'
  BY <1>1 DEF ReadStart
<1>2. CASE ReadTest(t)
  BY <1>2 DEF ReadTest
<1>3. CASE ReadQueue(t)
  BY <1>3 DEF ReadQueue
<1>4. CASE ReadSetState(t)
  BY <1>4 DEF ReadSetState
<1>5. CASE ReadCheck(t)
  <2>1. retval' \in [Threads -> {"ok", "EAGAIN", "ERESTARTSYS", "EFAULT"}]
    BY <1>5 DEF ReadCheck
  <2>2. \E p \in {"clear", "out", "sched"} : pc' = [pc EXCEPT ![t] = p]
    BY <1>5 DEF ReadCheck
  <2>3. UNCHANGED <<file, asleep, signal, len, has_data, waitq, seen>>
    BY <1>5 DEF ReadCheck
  <2> QED
    BY SMTT(30), <2>1, <2>2, <2>3
<1>6. CASE ReadSched(t)
  BY <1>6 DEF ReadSched
<1>7. CASE ReadClear(t)
  BY <1>7 DEF ReadClear
<1>8. CASE ReadFetch(t)
  BY <1>8 DEF ReadFetch
<1>9. CASE ReadCopy(t)
  BY <1>9 DEF ReadCopy
<1>10. CASE ReadOut(t)
  BY <1>10 DEF ReadOut
<1>11. CASE Signal(t)
  BY <1>11 DEF Signal
<1> QED
  BY <1>1, <1>2, <1>3, <1>4, <1>5, <1>6, <1>7, <1>8, <1>9, <1>10, <1>11
  DEF ReadStep

\* A writer of the attributes keeps the types of the timer.
LEMMA StoreTypeStep ==
    ASSUME TimerTypes, NEW w \in Writers, Store(w)
    PROVE  TimerTypes'
<1> USE PeriodsAssumption DEF TimerTypes
<1>1. CASE ValueStore(w)
  BY <1>1 DEF ValueStore
<1>2. CASE OnStoreStart(w)
  BY <1>2 DEF OnStoreStart
<1>3. CASE StoreModTimer(w)
  BY <1>3 DEF StoreModTimer, ModTimer
<1>4. CASE OnStoreStop(w)
  BY <1>4 DEF OnStoreStop
<1>5. CASE OnStoreDel(w)
  BY <1>5 DEF OnStoreDel, DelTimerSync
<1> QED
  BY <1>1, <1>2, <1>3, <1>4, <1>5 DEF Store

\* Every step of the driver, of the timer and of the threads preserves the
\* types.
LEMMA TypeStep == TypeOK /\ ReadersHoldFile /\ RefCntExact /\ [Next]_vars => TypeOK'
<1> SUFFICES ASSUME TypeOK, ReadersHoldFile, RefCntExact, [Next]_vars PROVE TypeOK'
  OBVIOUS
<1> USE ListHeadAssumption, PeriodsAssumption
<1>p. TimerTypes /\ ReaderTypes /\ ListTypes
  BY TypeParts
<1>1. CASE Lifecycle
  <2>1. TimerTypes'
    BY <1>1, <1>p
    DEF TimerTypes, Lifecycle, CdevAdd, InitGld, InitFail, TouchFreed,
        ExampleExit, Exit, ExitCheck, ExitDel, ExitDeviceDel, DelTimerSync
  <2>2. UNCHANGED <<readVars, listVars, walkVars, data, has_data, waitq, seen>>
    BY <1>1 DEF Lifecycle
  <2> QED
    BY <1>p, <2>1, <2>2, ReaderFrame, ListFrame, TypePartsNext
<1>2. ASSUME NEW w \in Writers, SysfsStore(w) PROVE TypeOK'
  <2>1. TimerTypes'
    BY <1>2, <1>p, StoreTypeStep DEF SysfsStore
  <2>2. UNCHANGED <<readVars, listVars, walkVars, data, has_data, waitq, seen>>
    BY <1>2 DEF SysfsStore
  <2> QED
    BY <1>p, <2>1, <2>2, ReaderFrame, ListFrame, TypePartsNext
<1>3. ASSUME NEW f \in Files, FileOp(f) PROVE TypeOK'
  <2>1. CASE OpenAlloc(f)
    <3>1. ListTypes'
      BY SMTT(30), <1>p, <2>1 DEF ListTypes, OpenAlloc, walkVars
    <3>2. ReaderTypes'
      BY <1>p, <2>1 DEF ReaderTypes, OpenAlloc, readVars
    <3>3. TimerTypes'
      BY <1>p, <2>1, TimerFrame DEF OpenAlloc
    <3> QED
      BY <3>1, <3>2, <3>3, TypePartsNext
  <2>2. CASE OpenLink(f)
    <3>1. ListTypes'
      BY <1>p, <2>2 DEF ListTypes, OpenLink, walkVars
    <3>2. ReaderTypes'
      <4>1. seen' \in [Files -> Nat]
        BY <1>p, <2>2 DEF ReaderTypes, ListTypes, OpenLink
      <4> QED
        BY <1>p, <2>2, <4>1 DEF ReaderTypes, OpenLink, readVars
    <3>3. TimerTypes'
      BY <1>p, <2>2 DEF TimerTypes, OpenLink
    <3> QED
      BY <3>1, <3>2, <3>3, TypePartsNext
  <2>3. CASE ReleaseDec(f)
    <3>1. ref_cnt > 0
      <4> DEFINE S == {g \in Files : fstate[g] \in {"opening", "open"}}
      <4>1. f \in S
        BY <2>3 DEF ReleaseDec
      <4>2. IsFiniteSet(S)
        BY FS_Subset
      <4>3. Cardinality(S) # 0 /\ Cardinality(S) \in Nat
        BY <4>1, <4>2, FS_EmptySet, FS_CardinalityType
      <4> QED
        BY SMTT(30), <1>p, <4>3 DEF RefCntExact, ListTypes
    <3>2. ListTypes'
      BY SMTT(30), <1>p, <2>3, <3>1 DEF ListTypes, ReleaseDec, walkVars
    <3>3. UNCHANGED <<timerVars, readVars, has_data, waitq, seen>>
      BY <2>3 DEF ReleaseDec
    <3> QED
      BY <1>p, <3>2, <3>3, TimerFrame, ReaderFrame, TypePartsNext
  <2>4. CASE ReleaseFree(f)
    <3>1. ListTypes'
      BY <1>p, <2>4 DEF ListTypes, ReleaseFree, walkVars
    <3>2. UNCHANGED <<timerVars, readVars, has_data, waitq, seen>>
      BY <2>4 DEF ReleaseFree
    <3> QED
      BY <1>p, <3>1, <3>2, TimerFrame, ReaderFrame, TypePartsNext
  <2> QED
    BY <1>3, <2>1, <2>2, <2>3, <2>4 DEF FileOp
<1>4. ASSUME NEW t \in Threads, Reader(t) PROVE TypeOK'
  <2>1. ReaderTypes'
    BY <1>4, <1>p, ReaderTypeStep DEF Reader, ListTypes
  <2>2. UNCHANGED <<timerVars, listVars, walkVars, data>>
    BY <1>4 DEF Reader
  <2> QED
    BY <1>p, <2>1, <2>2, TimerFrame, ListFrame, TypePartsNext
<1>5. CASE TimerFunc
  <2>1. TimerTypes'
    <3>1. CASE TimerExpire("data") \/ AddTimer \/ RunFreedText
      BY <1>p, <3>1 DEF TimerTypes, TimerExpire, AddTimer, RunFreedText
    <3>2. ASSUME NEW a, NEW b \in {"lock", "mark", "wakeq", "wake", "rearm"},
                 At(a, b)
          PROVE  TimerTypes'
      BY <1>p, <3>2 DEF TimerTypes, At
    <3> QED
      BY <1>5, <3>1, <3>2
      DEF TimerFunc, TimerIncrement, TimerLock, TimerMark, TimerUnlock,
          TimerWakeStart, TimerWake, TimerWakeEnd
  <2>2. ReaderTypes'
    <3>1. \/ has_data' = has_data
          \/ \E f \in Files : has_data' = [has_data EXCEPT ![f] = TRUE]
      BY <1>5
      DEF TimerFunc, TimerIncrement, TimerLock, TimerMark, TimerUnlock,
          TimerWakeStart, TimerWake, TimerWakeEnd
    <3>2. \/ asleep' = asleep
          \/ \E t \in Threads : asleep' = [asleep EXCEPT ![t] = FALSE]
      BY <1>5
      DEF TimerFunc, TimerIncrement, TimerLock, TimerMark, TimerUnlock,
          TimerWakeStart, TimerWake, TimerWakeEnd
    <3>3. has_data' \in [Files -> BOOLEAN] /\ asleep' \in [Threads -> BOOLEAN]
      BY <1>p, <3>1, <3>2 DEF ReaderTypes
    <3>4. UNCHANGED <<pc, file, signal, retval, len, waitq, seen>>
      BY <1>5 DEF TimerFunc
    <3> QED
      BY <1>p, <3>3, <3>4 DEF ReaderTypes
  <2>3. ListTypes'
    <3>1. data' \in {data, data + 1} /\ UNCHANGED listVars
      BY <1>5
      DEF TimerFunc, TimerIncrement, TimerLock, TimerMark, TimerUnlock,
          TimerWakeStart, TimerWake, TimerWakeEnd
    <3>2. todo' \subseteq todo \/ todo' = list
      BY <1>5
      DEF TimerFunc, TimerIncrement, TimerLock, TimerMark, TimerUnlock,
          TimerWakeStart, TimerWake, TimerWakeEnd, walkVars
    <3>3. towake' \subseteq towake \/ towake' = waitq
      BY <1>5
      DEF TimerFunc, TimerIncrement, TimerLock, TimerMark, TimerUnlock,
          TimerWakeStart, TimerWake, TimerWakeEnd, walkVars
    <3> QED
      BY SMTT(30), <1>p, <3>1, <3>2, <3>3 DEF ListTypes, ReaderTypes, listVars
  <2> QED
    BY <2>1, <2>2, <2>3, TypePartsNext
<1>6. CASE UNCHANGED vars
  <2>1. /\ UNCHANGED timerVars
        /\ UNCHANGED <<readVars, has_data, waitq, seen>>
        /\ UNCHANGED <<listVars, walkVars, data>>
    BY <1>6 DEF vars
  <2> QED
    BY <1>p, <2>1, TimerFrame, ReaderFrame, ListFrame, TypePartsNext
<1> QED
  BY <1>1, <1>2, <1>3, <1>4, <1>5, <1>6 DEF Next

-----------------------------------------------------------------------------
(***************************************************************************)
(* The part of the invariant that says how readers, list, walk and counter *)
(* fit together, without the types and the reference count.                *)
(***************************************************************************)
Coupling ==
    /\ ReadersHoldFile
    /\ ListIsLinked
    /\ WalkIsLinked
    /\ LoopIsQueued
    /\ NoLostWakeup
    /\ NoMissedTick

\* The attributes and the module life cycle do not touch what Coupling is
\* about: they never move the callback, the readers or the list.
LEMMA ControlFrame ==
    ASSUME Coupling,
           UNCHANGED <<fn, readVars, listVars, walkVars, data, has_data, waitq, seen>>
    PROVE  Coupling'
BY ZenonT(60) DEF Coupling, ReadersHoldFile, ListIsLinked, WalkIsLinked, LoopIsQueued,
       NoLostWakeup, NoMissedTick, WakeComing, MarkComing, readVars, listVars,
       walkVars

\* A file without readers may change its state, one with readers only to open.
LEMMA HoldStep ==
    ASSUME ReadersHoldFile, UNCHANGED <<pc, file>>,
           fstate \in [Files -> {"closed", "opening", "open", "releasing"}],
           file \in [Threads -> Files \cup {NoFile}],
           NEW f \in Files, NEW x, fstate' = [fstate EXCEPT ![f] = x],
           x = "open" \/ \A t \in Threads : file[t] # f
    PROVE  ReadersHoldFile'
<1> SUFFICES ASSUME NEW t \in Threads
             PROVE  /\ pc[t] = "idle" <=> file[t] = NoFile
                    /\ file[t] # NoFile => fstate'[file[t]] = "open"
  BY DEF ReadersHoldFile
<1>1. /\ pc[t] = "idle" <=> file[t] = NoFile
      /\ file[t] # NoFile => fstate[file[t]] = "open"
  BY DEF ReadersHoldFile
<1>2. ASSUME file[t] # NoFile PROVE fstate'[file[t]] = "open"
  <2>1. file[t] \in Files
    BY <1>2
  <2>2. CASE file[t] = f
    BY <2>1, <2>2
  <2>3. CASE file[t] # f
    BY <1>1, <1>2, <2>1, <2>3
  <2> QED
    BY <2>2, <2>3
<1> QED
  BY <1>1, <1>2

\* reg_open and release preserve Coupling: a file is linked and unlinked only
\* while no walk is in progress, and freed only when nobody reads it.
LEMMA FileStep ==
    ASSUME TypeOK, Coupling, NEW f \in Files, FileOp(f)
    PROVE  Coupling'
<1> USE ListHeadAssumption DEF timerVars, readVars, walkVars
<1>c. /\ ReadersHoldFile /\ ListIsLinked /\ WalkIsLinked /\ LoopIsQueued
      /\ NoLostWakeup /\ NoMissedTick
  BY DEF Coupling
<1>t. /\ fstate \in [Files -> {"closed", "opening", "open", "releasing"}]
      /\ file \in [Threads -> Files \cup {NoFile}]
      /\ has_data \in [Files -> BOOLEAN]
      /\ seen \in [Files -> Nat]
  BY DEF TypeOK
<1>1. CASE OpenAlloc(f)
  <2> USE <1>1 DEF OpenAlloc
  <2>1. ReadersHoldFile'
    <3>1. \A t \in Threads : file[t] # f
      BY <1>c DEF ReadersHoldFile
    <3> QED
      BY <1>c, <1>t, <3>1, HoldStep
  <2>2. ListIsLinked'
    BY <1>c, <1>t DEF ListIsLinked
  <2>3. WalkIsLinked' /\ LoopIsQueued'
    BY <1>c DEF WalkIsLinked, LoopIsQueued
  <2>4. NoLostWakeup'
    BY <1>c, <1>t DEF ReadersHoldFile, NoLostWakeup, WakeComing
  <2>5. NoMissedTick'
    BY <1>c, <1>t DEF NoMissedTick, MarkComing
  <2> QED
    BY <2>1, <2>2, <2>3, <2>4, <2>5 DEF Coupling
<1>2. CASE OpenLink(f) /\ mstate = "live"
  <2> USE <1>2 DEF OpenLink
  <2>1. ReadersHoldFile'
    BY <1>c, <1>t, HoldStep
  <2>2. ListIsLinked'
    BY <1>c, <1>t DEF ListIsLinked
  <2>3. WalkIsLinked' /\ LoopIsQueued'
    BY <1>c DEF WalkIsLinked, LoopIsQueued
  <2>4. NoLostWakeup'
    BY <1>c DEF NoLostWakeup, WakeComing
  <2>5. NoMissedTick'
    <3>1. seen'[f] = data /\ UNCHANGED <<fn, todo, data, has_data, file, pc>>
      BY <1>t
    <3>2. \A g \in Files \ {f} : fstate'[g] = fstate[g] /\ seen'[g] = seen[g]
      BY <1>t
    <3> HIDE <1>2 DEF OpenLink
    <3> QED
      BY <1>c, <3>1, <3>2 DEF NoMissedTick, MarkComing
  <2> QED
    BY <2>1, <2>2, <2>3, <2>4, <2>5 DEF Coupling
<1>3. CASE OpenLink(f) /\ mstate # "live"
  BY <1>3, ControlFrame DEF OpenLink, listVars
<1>4. CASE ReleaseDec(f)
  <2> USE <1>4 DEF ReleaseDec
  <2>1. ReadersHoldFile'
    <3>1. \A t \in Threads : file[t] # f
      BY DEF Reading
    <3> QED
      BY <1>c, <1>t, <3>1, HoldStep
  <2>2. ListIsLinked'
    BY <1>c, <1>t DEF ListIsLinked
  <2>3. WalkIsLinked' /\ LoopIsQueued'
    BY <1>c DEF WalkIsLinked, LoopIsQueued
  <2>4. NoLostWakeup'
    BY <1>c DEF NoLostWakeup, WakeComing
  <2>5. NoMissedTick'
    BY <1>c, <1>t DEF NoMissedTick, MarkComing
  <2> QED
    BY <2>1, <2>2, <2>3, <2>4, <2>5 DEF Coupling
<1>5. CASE ReleaseFree(f)
  <2> USE <1>5 DEF ReleaseFree
  <2>1. ReadersHoldFile'
    <3>1. \A t \in Threads : file[t] # f
      BY <1>c DEF ReadersHoldFile
    <3> QED
      BY <1>c, <1>t, <3>1, HoldStep
  <2>2. ListIsLinked'
    BY <1>c, <1>t DEF ListIsLinked
  <2>3. WalkIsLinked' /\ LoopIsQueued'
    BY <1>c DEF WalkIsLinked, LoopIsQueued, LockFree
  <2>4. NoLostWakeup'
    BY <1>c DEF NoLostWakeup, WakeComing
  <2>5. NoMissedTick'
    BY <1>c, <1>t DEF NoMissedTick, MarkComing
  <2> QED
    BY <2>1, <2>2, <2>3, <2>4, <2>5 DEF Coupling
<1> QED
  BY <1>1, <1>2, <1>3, <1>4, <1>5 DEF FileOp

\* Every step of the timer callback preserves Coupling: the counter moves only
\* when all open files are about to be marked, and the callback passes a
\* sleeping thread only by waking it.
LEMMA TimerStep ==
    ASSUME TypeOK, Coupling, TimerFunc
    PROVE  Coupling'
<1> USE DEF Coupling, TimerFunc, listVars, walkVars, At
<1>1. ReadersHoldFile' /\ ListIsLinked' /\ LoopIsQueued'
  BY DEF ReadersHoldFile, ListIsLinked, LoopIsQueued
<1> DEFINE Same == UNCHANGED <<walkVars, data, has_data, asleep>>
<1>2. CASE (TimerExpire("data") \/ AddTimer \/ RunFreedText) /\ Same
  <2>1. fn \in {"idle", "rearm"} \/ fn' = fn
    BY <1>2 DEF TimerExpire, AddTimer, RunFreedText
  <2>2. fn' \in {"data", "idle"} \/ fn' = fn
    BY <1>2 DEF TimerExpire, AddTimer, RunFreedText
  <2>3. WalkIsLinked'
    BY <1>2, <2>1, <2>2 DEF WalkIsLinked
  <2>4. NoLostWakeup'
    BY <1>2, <2>1, <2>2 DEF NoLostWakeup, WakeComing
  <2>5. NoMissedTick'
    BY <1>2, <2>1, <2>2 DEF NoMissedTick, MarkComing
  <2> QED
    BY <1>1, <2>3, <2>4, <2>5
<1>3. CASE TimerIncrement
  BY <1>1, <1>3 DEF TimerIncrement, WalkIsLinked, NoLostWakeup, WakeComing,
       NoMissedTick, MarkComing
<1>4. CASE TimerLock
  BY <1>1, <1>4 DEF TimerLock, WalkIsLinked, NoLostWakeup, WakeComing,
       NoMissedTick, MarkComing, ListIsLinked
<1>5. ASSUME NEW f \in Files, TimerMark(f) PROVE Coupling'
  <2>1. WalkIsLinked' /\ NoLostWakeup'
    BY <1>5 DEF TimerMark, WalkIsLinked, NoLostWakeup, WakeComing
  <2>2. NoMissedTick'
    BY <1>5 DEF TypeOK, TimerMark, NoMissedTick, MarkComing
  <2> QED
    BY <1>1, <2>1, <2>2
<1>6. CASE TimerUnlock
  BY <1>1, <1>6 DEF TimerUnlock, WalkIsLinked, NoLostWakeup, WakeComing,
       NoMissedTick, MarkComing
<1>7. CASE TimerWakeStart
  BY <1>1, <1>7 DEF TimerWakeStart, WalkIsLinked, NoLostWakeup, WakeComing,
       NoMissedTick, MarkComing, LoopIsQueued
<1>8. ASSUME NEW t \in Threads, TimerWake(t) PROVE Coupling'
  <2>1. WalkIsLinked' /\ NoMissedTick'
    BY <1>8 DEF TimerWake, WalkIsLinked, NoMissedTick, MarkComing
  <2>2. NoLostWakeup'
    <3>1. NoLostWakeup /\ asleep \in [Threads -> BOOLEAN]
      BY DEF TypeOK
    <3>2. UNCHANGED <<pc, file, has_data, fn>>
      BY <1>8 DEF TimerWake
    <3> HIDE DEF TimerFunc, Coupling
    <3> QED
      BY <1>8, <3>1, <3>2 DEF TimerWake, NoLostWakeup, WakeComing
  <2> QED
    BY <1>1, <2>1, <2>2
<1>9. CASE TimerWakeEnd
  BY <1>1, <1>9 DEF TimerWakeEnd, WalkIsLinked, NoLostWakeup, WakeComing,
       NoMissedTick, MarkComing
<1> QED
  BY <1>2, <1>3, <1>4, <1>5, <1>6, <1>7, <1>8, <1>9

\* What a step of reader t may do without disturbing Coupling.  It leaves the
\* other threads alone and sets no mark; it is in a loop only when queued, and
\* asleep on a marked file only when a wake-up is coming; a mark that it clears
\* it is about to make good by fetching the counter.
Others(t) ==
    \A u \in Threads \ {t} :
        pc'[u] = pc[u] /\ file'[u] = file[u] /\ asleep'[u] = asleep[u]

Fetching(t, g) == file[t] = g /\ pc[t] = "fetch"

Allowed(t) ==
    /\ Others(t)
    /\ pc'[t] = "idle" <=> file'[t] = NoFile
    /\ file'[t] # NoFile => fstate[file'[t]] = "open"
    /\ \A u \in waitq : u # t => u \in waitq'
    /\ pc'[t] \in {"setstate", "check", "sched"} => t \in waitq'
    /\ pc'[t] = "sched" /\ asleep'[t] /\ has_data'[file'[t]] => WakeComing(t)
    /\ \A g \in Files :
          /\ has_data'[g] => has_data[g]
          /\ has_data[g] => has_data'[g] \/ Fetching(t, g)'
          /\ Fetching(t, g) => Fetching(t, g)' \/ seen'[g] = data
          /\ seen[g] = data => seen'[g] = data

LEMMA AllowedStep ==
    ASSUME ReadersHoldFile, LoopIsQueued, NoLostWakeup, NoMissedTick,
           file \in [Threads -> Files \cup {NoFile}], NEW t \in Threads,
           UNCHANGED <<fn, fstate, todo, towake, data>>, Allowed(t)
    PROVE  ReadersHoldFile' /\ LoopIsQueued' /\ NoLostWakeup' /\ NoMissedTick'
<1>1. ReadersHoldFile'
  <2> SUFFICES ASSUME NEW u \in Threads
               PROVE  /\ pc'[u] = "idle" <=> file'[u] = NoFile
                      /\ file'[u] # NoFile => fstate[file'[u]] = "open"
    BY DEF ReadersHoldFile
  <2>1. CASE u = t
    BY <2>1 DEF Allowed
  <2>2. CASE u # t
    <3>1. pc'[u] = pc[u] /\ file'[u] = file[u]
      BY <2>2 DEF Allowed, Others
    <3>2. /\ pc[u] = "idle" <=> file[u] = NoFile
          /\ file[u] # NoFile => fstate[file[u]] = "open"
      BY DEF ReadersHoldFile
    <3> QED
      BY <3>1, <3>2
  <2> QED
    BY <2>1, <2>2
<1>2. LoopIsQueued'
  BY DEF LoopIsQueued, Allowed, Others
<1>3. NoLostWakeup'
  <2> SUFFICES ASSUME NEW u \in Threads, pc'[u] = "sched", asleep'[u],
                      has_data'[file'[u]]
               PROVE  WakeComing(u)'
    BY DEF NoLostWakeup
  <2>1. WakeComing(u)' <=> WakeComing(u)
    BY DEF WakeComing
  <2>2. CASE u = t
    BY <2>1, <2>2 DEF Allowed
  <2>3. CASE u # t
    <3>1. pc[u] = "sched" /\ asleep[u] /\ file'[u] = file[u]
      BY <2>3 DEF Allowed, Others
    <3>2. file[u] \in Files
      BY <3>1 DEF ReadersHoldFile
    <3>3. has_data[file[u]]
      BY <3>1, <3>2 DEF Allowed
    <3> QED
      BY <2>1, <3>1, <3>3 DEF NoLostWakeup
  <2> QED
    BY <2>2, <2>3
<1>4. NoMissedTick'
  <2> SUFFICES ASSUME NEW g \in Files, fstate[g] = "open", ~has_data'[g],
                      ~MarkComing(g), \A u \in Threads : ~Fetching(u, g)'
               PROVE  seen'[g] = data
    BY DEF NoMissedTick, MarkComing, Fetching
  <2>1. ~has_data[g] /\ (Fetching(t, g) => seen'[g] = data)
    BY DEF Allowed
  <2>2. \A u \in Threads \ {t} : ~Fetching(u, g)
    BY DEF Allowed, Others, Fetching
  <2>3. Fetching(t, g) \/ seen[g] = data
    BY <2>1, <2>2 DEF NoMissedTick, Fetching
  <2> QED
    BY <2>1, <2>3 DEF Allowed
<1> QED
  BY <1>1, <1>2, <1>3, <1>4

\* Every step of a reader preserves Coupling: a thread goes to sleep only after
\* it found its file unmarked, and it clears the mark before it fetches the
\* counter.
LEMMA ReaderStep ==
    ASSUME TypeOK, Coupling, NEW t \in Threads, Reader(t)
    PROVE  Coupling'
<1>1. /\ ReadersHoldFile /\ ListIsLinked /\ WalkIsLinked
      /\ LoopIsQueued /\ NoLostWakeup /\ NoMissedTick
  BY DEF Coupling
<1>2. UNCHANGED <<fn, fstate, list, todo, towake, data>>
  BY DEF Reader, timerVars, listVars, walkVars
<1>3. ListIsLinked' /\ WalkIsLinked'
  BY <1>1, <1>2 DEF ListIsLinked, WalkIsLinked
<1>4. /\ pc \in [Threads -> {"idle", "test", "queue", "setstate", "check",
                             "sched", "clear", "fetch", "copy", "out"}]
      /\ file \in [Threads -> Files \cup {NoFile}]
      /\ asleep \in [Threads -> BOOLEAN]
  BY DEF TypeOK
<1>5. has_data \in [Files -> BOOLEAN] /\ seen \in [Files -> Nat]
  BY DEF TypeOK
<1>6. NoFile \notin Files
  BY ListHeadAssumption
<1>7. SUFFICES Allowed(t)
  BY <1>1, <1>2, <1>3, <1>4, AllowedStep DEF Coupling
<1>h. /\ pc[t] = "idle" <=> file[t] = NoFile
      /\ file[t] # NoFile => fstate[file[t]] = "open"
      /\ pc[t] \in {"setstate", "check", "sched"} => t \in waitq
      /\ pc[t] = "sched" /\ asleep[t] /\ has_data[file[t]] => WakeComing(t)
  BY <1>1 DEF ReadersHoldFile, LoopIsQueued, NoLostWakeup
\* The steps that neither clear a mark nor fetch.
<1>s. ASSUME Others(t), file'[t] = file[t], UNCHANGED <<has_data, seen>>,
             waitq \subseteq waitq' \cup {t}, pc[t] \notin {"idle", "fetch"},
             pc'[t] # "idle",
             pc'[t] \in {"setstate", "check", "sched"} => t \in waitq',
             pc'[t] = "sched" => pc[t] = "check" /\ ~has_data[file[t]]
      PROVE  Allowed(t)
  BY <1>h, <1>s DEF Allowed, Fetching
<1>8. ASSUME NEW f \in Files, ReadStart(t, f) PROVE Allowed(t)
  <2>1. /\ pc'[t] = "test" /\ pc[t] = "idle" /\ file'[t] = f /\ fstate[f] = "open"
        /\ UNCHANGED <<has_data, seen, waitq>>
    BY <1>4, <1>8 DEF ReadStart
  <2>2. Others(t)
    BY <1>4, <1>8 DEF ReadStart, Others
  <2> QED
    BY <1>6, <2>1, <2>2 DEF Allowed, Fetching
<1>9. CASE ReadTest(t)
  <2>1. /\ pc'[t] \in {"clear", "queue"} /\ pc[t] = "test"
        /\ UNCHANGED <<file, has_data, seen, waitq>>
    BY <1>4, <1>9 DEF ReadTest
  <2>2. Others(t)
    BY <1>4, <1>9 DEF ReadTest, Others
  <2> QED
    BY <1>s, <2>1, <2>2
<1>10. CASE ReadQueue(t)
  <2>1. /\ pc'[t] = "setstate" /\ pc[t] = "queue" /\ waitq' = waitq \cup {t}
        /\ UNCHANGED <<file, has_data, seen>>
    BY <1>4, <1>10 DEF ReadQueue
  <2>2. Others(t)
    BY <1>4, <1>10 DEF ReadQueue, Others
  <2> QED
    BY <1>s, <2>1, <2>2
<1>11. CASE ReadSetState(t)
  <2>1. /\ pc'[t] = "check" /\ pc[t] = "setstate"
        /\ UNCHANGED <<file, has_data, seen, waitq>>
    BY <1>4, <1>11 DEF ReadSetState
  <2>2. Others(t)
    BY <1>4, <1>11 DEF ReadSetState, Others
  <2> QED
    BY <1>h, <1>s, <2>1, <2>2
<1>12. CASE ReadCheck(t)
  <2> HIDE DEF Goto
  <2>0. PICK p \in {"clear", "out", "sched"} :
          /\ Goto(t, p)
          /\ p = "sched" => ~has_data[file[t]]
    BY <1>12 DEF ReadCheck
  <2>1. pc[t] = "check" /\ UNCHANGED <<file, asleep, has_data, seen, waitq>>
    BY <1>12 DEF ReadCheck
  <2>2. Others(t) /\ pc'[t] = p
    BY <1>4, <2>0, <2>1 DEF Goto, Others
  <2> QED
    BY <1>h, <1>s, <2>0, <2>1, <2>2
<1>13. CASE ReadSched(t)
  <2>1. /\ pc'[t] = "setstate" /\ pc[t] = "sched"
        /\ UNCHANGED <<file, has_data, seen, waitq>>
    BY <1>4, <1>13 DEF ReadSched
  <2>2. Others(t)
    BY <1>4, <1>13 DEF ReadSched, Others
  <2> QED
    BY <1>h, <1>s, <2>1, <2>2
<1>14. CASE ReadClear(t)
  <2>1. /\ pc'[t] = "fetch" /\ pc[t] = "clear" /\ UNCHANGED <<file, seen, waitq>>
    BY <1>4, <1>14 DEF ReadClear
  <2>2. Others(t)
    BY <1>4, <1>14 DEF ReadClear, Others
  <2>3. /\ file[t] \in Files /\ ~has_data'[file[t]]
        /\ \A g \in Files \ {file[t]} : has_data'[g] = has_data[g]
    BY <1>4, <1>5, <1>h, <1>14, <2>1 DEF ReadClear
  <2> QED
    BY <1>h, <2>1, <2>2, <2>3 DEF Allowed, Fetching
<1>15. CASE ReadFetch(t)
  <2>1. /\ pc'[t] # "idle" /\ pc'[t] \notin {"setstate", "check", "sched"}
        /\ pc[t] = "fetch" /\ UNCHANGED <<file, has_data, waitq>>
    BY <1>4, <1>15 DEF ReadFetch
  <2>2. Others(t)
    BY <1>4, <1>15 DEF ReadFetch, Others
  <2>3. /\ file[t] \in Files /\ seen'[file[t]] = data
        /\ \A g \in Files \ {file[t]} : seen'[g] = seen[g]
    BY <1>4, <1>5, <1>h, <1>15, <2>1 DEF ReadFetch
  <2> QED
    BY <1>h, <2>1, <2>2, <2>3 DEF Allowed, Fetching
<1>16. CASE ReadCopy(t)
  <2>1. /\ pc'[t] = "out" /\ pc[t] = "copy"
        /\ UNCHANGED <<file, has_data, seen, waitq>>
    BY <1>4, <1>16 DEF ReadCopy
  <2>2. Others(t)
    BY <1>4, <1>16 DEF ReadCopy, Others
  <2> QED
    BY <1>s, <2>1, <2>2
<1>17. CASE ReadOut(t)
  <2>1. /\ pc'[t] = "idle" /\ pc[t] = "out" /\ file'[t] = NoFile
        /\ waitq' = waitq \ {t} /\ UNCHANGED <<has_data, seen>>
    BY <1>4, <1>17 DEF ReadOut
  <2>2. Others(t)
    BY <1>4, <1>17 DEF ReadOut, Others
  <2> QED
    BY <2>1, <2>2 DEF Allowed, Fetching
<1>18. CASE Signal(t)
  <2>1. ~asleep'[t] /\ UNCHANGED <<pc, file, has_data, seen, waitq>>
    BY <1>4, <1>18 DEF Signal
  <2>2. Others(t)
    BY <1>4, <1>18 DEF Signal, Others
  <2> QED
    BY <1>h, <2>1, <2>2 DEF Allowed, Fetching
<1> QED
  BY <1>8, <1>9, <1>10, <1>11, <1>12, <1>13, <1>14, <1>15, <1>16, <1>17, <1>18
  DEF Reader, ReadStep

\* The reference count follows the files through reg_open and release.
LEMMA RefCntStep ==
    ASSUME TypeOK, RefCntExact, [Next]_vars
    PROVE  RefCntExact'
<1> USE ListHeadAssumption
<1> DEFINE S == {f \in Files : fstate[f] \in {"opening", "open"}}
<1>1. IsFiniteSet(S)
  BY FS_Subset
<1>2. CASE UNCHANGED <<fstate, ref_cnt>>
  BY <1>2 DEF RefCntExact
<1>3. ASSUME NEW f \in Files, OpenAlloc(f) PROVE RefCntExact'
  <2>1. f \notin S /\ S' = S \cup {f}
    BY ZenonT(60), <1>3 DEF OpenAlloc, TypeOK
  <2> QED
    BY <1>1, <1>3, <2>1, FS_AddElement DEF OpenAlloc, RefCntExact
<1>4. ASSUME NEW f \in Files, OpenLink(f) PROVE RefCntExact'
  <2>1. S' = S
    BY SMTT(30), <1>4 DEF OpenLink, TypeOK
  <2> QED
    BY <1>4, <2>1 DEF OpenLink, RefCntExact
<1>5. ASSUME NEW f \in Files, ReleaseDec(f) PROVE RefCntExact'
  <2>1. f \in S /\ S' = S \ {f}
    BY <1>5 DEF ReleaseDec, TypeOK
  <2> QED
    BY <1>1, <1>5, <2>1, FS_RemoveElement DEF ReleaseDec, RefCntExact
<1>6. ASSUME NEW f \in Files, ReleaseFree(f) PROVE RefCntExact'
  <2>1. S' = S
    BY <1>6 DEF ReleaseFree, TypeOK
  <2> QED
    BY <1>6, <2>1 DEF ReleaseFree, RefCntExact
<1> QED
  BY <1>2, <1>3, <1>4, <1>5, <1>6
  DEF Next, Lifecycle, SysfsStore, FileOp, Reader, TimerFunc, listVars, vars

\* Every step preserves the inductive invariant.
LEMMA StepIInv == IInv /\ [Next]_vars => IInv'
<1> SUFFICES ASSUME IInv, [Next]_vars PROVE IInv'
  OBVIOUS
<1>1. TypeOK /\ Coupling /\ RefCntExact
  BY DEF IInv, Coupling
<1>2. TypeOK'
  BY <1>1, TypeStep DEF Coupling
<1>3. RefCntExact'
  BY <1>1, RefCntStep
<1>4. Coupling'
  <2>1. CASE Lifecycle
    BY <1>1, <2>1, ControlFrame
    DEF Lifecycle, TouchFreed, ExampleExit, Exit, ExitCheck, ExitDel,
        ExitDeviceDel
  <2>2. ASSUME NEW w \in Writers, SysfsStore(w) PROVE Coupling'
    BY <1>1, <2>2, ControlFrame
    DEF SysfsStore, Store, ValueStore, OnStoreStart, StoreModTimer,
        OnStoreStop, OnStoreDel
  <2>3. CASE UNCHANGED vars
    BY <1>1, <2>3, ControlFrame DEF vars, timerVars
  <2> QED
    BY <1>1, <2>1, <2>2, <2>3, FileStep, ReaderStep, TimerStep DEF Next
<1> QED
  BY <1>2, <1>3, <1>4 DEF IInv, Coupling

\* The inductive invariant holds in every reachable state.
THEOREM Invariance == Spec => []IInv
BY InitIInv, StepIInv, PTL DEF Spec

\* Type correctness of the driver's state.
THEOREM TypeCorrect == Spec => []TypeOK
<1>1. IInv => TypeOK
  BY DEF IInv
<1> QED
  BY <1>1, Invariance, PTL

\* No thread sleeps through a tick: a thread asleep in schedule() on a marked
\* file is still ahead of the callback's wake-up.
THEOREM WakeupsAreKept == Spec => []NoLostWakeup
<1>1. IInv => NoLostWakeup
  BY DEF IInv
<1> QED
  BY <1>1, Invariance, PTL

\* An open, unmarked file whose readers are not half way has been read since
\* the last increment of gld.data.
THEOREM TicksAreSeen == Spec => []NoMissedTick
<1>1. IInv => NoMissedTick
  BY DEF IInv
<1> QED
  BY <1>1, Invariance, PTL

\* The callback's list walk never meets a freed node.
THEOREM WalkSafety == Spec => []WalkIsSafe
<1>1. IInv => WalkIsSafe
  BY DEF IInv, WalkIsLinked, ListIsLinked, WalkIsSafe
<1> QED
  BY <1>1, Invariance, PTL

\* gld.ref_cnt is the number of files between reg_open and release.
THEOREM RefCntCorrect == Spec => []RefCntExact
<1>1. IInv => RefCntExact
  BY DEF IInv
<1> QED
  BY <1>1, Invariance, PTL

-----------------------------------------------------------------------------
\* A stop that waited for the callback stays a stop: nothing of the callback
\* or the attributes arms the timer again but a new start.
LEMMA TimerSafeStep ==
    ASSUME TimerSafe, [TimerNext]_timerVars PROVE TimerSafe'
  <1> USE DEF TimerSafe
  <1>1. CASE UNCHANGED timerVars
    BY <1>1 DEF timerVars, TimerTypeOK, SyncStopIsFinal
  <1>2. ASSUME NEW w \in Writers,
               ValueStore(w) \/ OnStoreStart(w) \/ OnStoreStop(w)
        PROVE  TimerSafe'
    <2>1. timeperiod' \in Nat
      BY <1>2, PeriodsAssumption DEF ValueStore, OnStoreStart, OnStoreStop,
                                     TimerTypeOK
    <2>2. wpc' \in [Writers -> {"idle", "mod", "del"}]
      BY <1>2 DEF ValueStore, OnStoreStart, OnStoreStop, TimerTypeOK
    <2>3. /\ UNCHANGED <<pending, fn, mstate, halted>>
          /\ quiet' \in {quiet, "skipped"}
      BY <1>2 DEF ValueStore, OnStoreStart, OnStoreStop
    <2> QED BY <2>1, <2>2, <2>3 DEF TimerTypeOK, SyncStopIsFinal
  <1>3. ASSUME NEW w \in Writers, StoreModTimer(w) \/ OnStoreDel(w)
        PROVE  TimerSafe'
    BY <1>3 DEF StoreModTimer, OnStoreDel, ModTimer, DelTimerSync,
                TimerTypeOK, SyncStopIsFinal
  <1>4. CASE Callback
    BY <1>4 DEF Callback, TimerExpire, AddTimer, RunFreedText, TimerTypeOK,
                SyncStopIsFinal
  <1>5. CASE TimerSetup \/ Exit
    <2>1. /\ UNCHANGED <<fn, timeperiod, wpc, halted>>
          /\ mstate' \in {"live", "exit_del", "exit_dev", "gone"}
      BY <1>5 DEF TimerSetup, Exit, ExitCheck, ExitDel, ExitDeviceDel
    <2>2. \/ UNCHANGED <<pending, quiet>>
          \/ pending' = FALSE /\ quiet' = "synced" /\ fn = "idle"
      BY <1>5 DEF TimerSetup, Exit, ExitCheck, ExitDel, ExitDeviceDel,
                  DelTimerSync
    <2>3. CASE UNCHANGED <<pending, quiet>>
      BY <2>1, <2>3 DEF TimerTypeOK, SyncStopIsFinal
    <2>4. CASE pending' = FALSE /\ quiet' = "synced" /\ fn = "idle"
      BY <2>1, <2>4 DEF TimerTypeOK, SyncStopIsFinal
    <2> QED BY <2>2, <2>3, <2>4
  <1> QED BY <1>1, <1>2, <1>3, <1>4, <1>5 DEF TimerNext, Store

\* The timer of test_timer.c alone: a stop that reached del_timer_sync is
\* final, for any number of threads that write the attributes (on_store,
\* example_exit).
THEOREM TimerIsSafe == TimerSpec => []TimerSafe
  <1>1. TimerInit => TimerSafe
    <2> SUFFICES ASSUME TimerInit PROVE TimerSafe
      OBVIOUS
    <2>1. wpc \in [Writers -> {"idle", "mod", "del"}] /\ timeperiod \in Nat
      BY DEF TimerInit
    <2> QED BY <2>1 DEF TimerInit, TimerSafe, TimerTypeOK, SyncStopIsFinal
  <1> QED BY <1>1, TimerSafeStep, PTL DEF TimerSpec

=============================================================================
