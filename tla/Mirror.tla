------------------------------- MODULE Mirror -------------------------------
(***************************************************************************)
(* The port mirroring module of net/mirror.c.  Loading it takes a          *)
(* reference on each data port and on the mirror port and registers a tap  *)
(* for all packets; the tap sends a copy of every packet of a data port    *)
(* out of the mirror port, where the tap sees it again.  Devices come and  *)
(* go meanwhile; one that is referenced cannot go.  The mask is shifted by *)
(* the index modulo 32, as x86 and arm64 do it.                            *)
(***************************************************************************)
EXTENDS Naturals, Sequences, FiniteSets

CONSTANTS Devs,
          ifindex,    \* the interface index of each device
          MaxPorts,   \* bound: data ports named in the option
          MaxHops     \* bound: copies of copies that are followed

VARIABLES present,    \* registered network devices
          refs,       \* dev_hold minus dev_put, of each device
          lost,       \* references of a failed load that no one gives back
          at,         \* "out", "ports" or "mirror" of option_setup, "in"
          from, to,   \* the ports still to set, the mirror port's name
          ports,      \* ports_dev
          bits,       \* ifindex_bits
          mirror,     \* the mirror port or NoDev
          tap,        \* mirror_proto is registered
          hop         \* the packet the tap is called with: device and copies

mirrorVars == <<present, refs, lost, at, from, to, ports, bits, mirror, tap,
                hop>>
Setup == <<at, from, to, ports, bits, mirror, tap>>

NoDev == "none"
MirrorAssumption == NoDev \notin Devs /\ MaxPorts \in Nat
NoHop == [dev |-> NoDev, copies |-> 0]

MirrorInit ==
    /\ present \in SUBSET Devs
    /\ refs = [d \in Devs |-> 0] /\ lost = [d \in Devs |-> 0]
    /\ at = "out" /\ from = <<>> /\ to = NoDev
    /\ ports = <<>> /\ bits = {} /\ mirror = NoDev
    /\ tap = FALSE /\ hop = NoHop

Times(d, s) == Cardinality({i \in DOMAIN s : s[i] = d})

\* What is left of the module's variables when it is not loaded.
Unloaded == /\ at' = "out" /\ from' = <<>> /\ to' = NoDev
            /\ ports' = <<>> /\ bits' = {} /\ mirror' = NoDev

\* free_ports gives a reference back for each entry of ports_dev.
free_ports(r) == [d \in Devs |-> r[d] - Times(d, ports)]

-----------------------------------------------------------------------------
\* ainit_module with an option that names data ports and a mirror port.
ainit_module ==
    /\ at = "out" /\ tap = FALSE
    /\ \E n \in 1 .. MaxPorts : from' \in [1 .. n -> Devs]
    /\ to' \in Devs
    /\ at' = "ports"
    /\ UNCHANGED <<present, refs, lost, ports, bits, mirror, tap, hop>>

\* option_setup's loop, one data port: the mirror port itself is refused, a
\* missing device too, and both give back what was taken.
set_data_port ==
    /\ at = "ports" /\ from # <<>>
    /\ IF Head(from) = to \/ Head(from) \notin present
          THEN refs' = free_ports(refs) /\ Unloaded
          ELSE /\ refs' = [refs EXCEPT ![Head(from)] = @ + 1]
               /\ ports' = Append(ports, Head(from))
               /\ bits' = bits \cup {ifindex[Head(from)] % 32}
               /\ from' = Tail(from) /\ UNCHANGED <<at, to, mirror>>
    /\ UNCHANGED <<present, lost, tap, hop>>

\* The mirror port: a missing one fails without giving back the data ports.
\* The bound is on such failures: one.
set_mirror_port ==
    /\ at = "ports" /\ from = <<>>
    /\ \/ /\ to \in present
          /\ mirror' = to /\ refs' = [refs EXCEPT ![to] = @ + 1]
          /\ tap' = TRUE /\ at' = "in"
          /\ UNCHANGED <<from, to, ports, bits, lost>>
       \/ /\ to \notin present /\ lost = [d \in Devs |-> 0]
          /\ lost' = [d \in Devs |-> Times(d, ports)]
          /\ Unloaded /\ UNCHANGED <<refs, tap>>
    /\ UNCHANGED <<present, hop>>

\* A plausible slip: the data ports are not given back.
acleanup_module_mirror ==
    /\ at = "in" /\ hop = NoHop /\ tap' = FALSE
    /\ refs' = [refs EXCEPT ![mirror] = @ - 1]
    /\ Unloaded
    /\ UNCHANGED <<present, lost, hop>>

\* acleanup_module: dev_remove_pack waits for a tap that is being called.
acleanup_module ==
    /\ at = "in" /\ hop = NoHop
    /\ tap' = FALSE
    /\ refs' = [free_ports(refs) EXCEPT ![mirror] = @ - 1]
    /\ Unloaded
    /\ UNCHANGED <<present, lost, hop>>

\* A device is registered, or unregistered once no one refers to it.
device_changes ==
    /\ \E d \in Devs :
          \/ d \notin present /\ present' = present \cup {d}
          \/ d \in present /\ refs[d] = 0 /\ present' = present \ {d}
    /\ UNCHANGED <<refs, lost, Setup, hop>>

\* A packet passes a device while the tap is registered.
packet ==
    /\ tap /\ hop = NoHop
    /\ \E d \in present : hop' = [dev |-> d, copies |-> 0]
    /\ UNCHANGED <<present, refs, lost, Setup>>

is_ports(d) == ifindex[d] % 32 \in bits

\* mirror_func: a copy leaves through the mirror port, whose output the tap
\* sees next; a failed clone and a device that is no data port end it.
mirror_func ==
    /\ hop # NoHop
    /\ \/ /\ is_ports(hop.dev) /\ hop.copies < MaxHops
          /\ hop' = [dev |-> mirror, copies |-> hop.copies + 1]
       \/ hop' = NoHop
    /\ UNCHANGED <<present, refs, lost, Setup>>

MirrorNext ==
    \/ ainit_module \/ set_data_port \/ set_mirror_port
    \/ acleanup_module \/ device_changes \/ packet \/ mirror_func

MirrorSpec == MirrorInit /\ [][MirrorNext]_mirrorVars

-----------------------------------------------------------------------------
\* While the tap is registered the mirror port and every data port are
\* registered devices, whatever comes and goes (mirror_func sends through
\* `mirror' without a check).
TapHasDevices ==
    tap => mirror \in present /\ \A i \in DOMAIN ports : ports[i] \in present

\* Every reference is accounted for: by an entry of ports_dev, by the mirror
\* port, or by the failed load of a missing mirror port (option_setup,
\* free_ports, acleanup_module), also when a port is named twice.
RefsExact ==
    \A d \in Devs :
        refs[d] = Times(d, ports) + lost[d] + (IF mirror = d THEN 1 ELSE 0)

\* A copy is never copied again: the tap sees its own output on the mirror
\* port and lets it pass (the EBUSY test of option_setup and is_ports),
\* unless its index is a data port's modulo 32.
CopyNotCopied ==
    \/ hop.copies <= 1
    \/ \E i \in DOMAIN ports :
          ports[i] # mirror /\ ifindex[ports[i]] % 32 = ifindex[mirror] % 32

\* Every reference is accounted for, the tap's devices are registered, and a
\* copy is not copied again (option_setup, mirror_func, acleanup_module).
MirrorSafe == RefsExact /\ TapHasDevices /\ CopyNotCopied
=============================================================================
