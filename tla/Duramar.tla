------------------------------ MODULE Duramar ------------------------------
(***************************************************************************)
(* The C2 line drivers: c2port-duramar2150.c, whose two lines are bits of  *)
(* two port registers that hold other bits too, each operation reading a   *)
(* register and writing it back under update_lock; and its init and exit.  *)
(* The operations are called by the C2 core for users of its attributes    *)
(* and, on exit, by the driver itself.                                     *)
(***************************************************************************)
EXTENDS Naturals

CONSTANTS PortThreads,
          Unloader    \* the thread that unloads the module

\* The unloading thread is none of the others; no thread is called "free".
DuramarAssumption == /\ Unloader \notin PortThreads
                     /\ "free" \notin PortThreads \cup {Unloader}

VARIABLES module,     \* "out", "in", "leaving" (exit, before unregister)
          region,     \* the ports are reserved
          late,       \* an attribute was in use while the driver exited
          dir, data,  \* DIR_PORT and DATA_PORT: the set bits
          update_lock,  \* its owner
          op,         \* the operation a thread is in
          copy,       \* its local copy of the register
          wantDir, wantData  \* what the registers should hold, by lock order

duramarVars == <<module, region, late, dir, data, update_lock, op, copy,
                 wantDir, wantData>>

C2D == "C2D"
C2CK == "C2CK"
Other == "other"      \* a bit that belongs to someone else
BitSets == SUBSET {C2D, C2CK, Other}

NoOp == [reg |-> "none", set |-> {}, clear |-> {}, at |-> "idle"]

\* access and c2d_dir change the directions (1 is output), c2d_set and
\* c2ck_set the levels.
access(on) == IF on THEN [reg |-> "dir", set |-> {C2D, C2CK}, clear |-> {}]
                    ELSE [reg |-> "dir", set |-> {}, clear |-> {C2D, C2CK}]
c2d_dir(in) == IF in THEN [reg |-> "dir", set |-> {}, clear |-> {C2D}]
                     ELSE [reg |-> "dir", set |-> {C2D}, clear |-> {}]
c2d_set(on) == IF on THEN [reg |-> "data", set |-> {C2D}, clear |-> {}]
                     ELSE [reg |-> "data", set |-> {}, clear |-> {C2D}]
c2ck_set(on) == IF on THEN [reg |-> "data", set |-> {C2CK}, clear |-> {}]
                      ELSE [reg |-> "data", set |-> {}, clear |-> {C2CK}]

Operations == UNION {{access(b), c2d_dir(b), c2d_set(b), c2ck_set(b)} :
                        b \in BOOLEAN}

Begun(o) == [reg |-> o.reg, set |-> o.set, clear |-> o.clear, at |-> "lock"]
Result(old, o) == (old \ o.clear) \cup o.set

DuramarInit ==
    /\ module = "out" /\ region = FALSE /\ late = FALSE
    /\ dir = {Other} /\ data = {Other, C2CK}
    /\ update_lock = "free"
    /\ op = [t \in PortThreads \cup {Unloader} |-> NoOp]
    /\ copy = [t \in PortThreads \cup {Unloader} |-> {}]
    /\ wantDir = dir /\ wantData = data

Ports == <<dir, data>>
Wants == <<wantDir, wantData>>

-----------------------------------------------------------------------------
\* duramar2150_c2port_init: the ports are reserved and the device registered;
\* a failure of the second gives the ports back.
duramar2150_c2port_init ==
    /\ module = "out"
    /\ \/ module' = "in" /\ region' = TRUE /\ late' = FALSE
       \/ UNCHANGED <<module, region, late>>
    /\ UNCHANGED <<Ports, update_lock, op, copy, Wants>>

\* duramar2150_c2port_exit: access off, then unregister (which waits for the
\* attributes in use) and the ports given back.
duramar2150_c2port_exit ==
    /\ module = "in" /\ op[Unloader] = NoOp
    /\ module' = "leaving" /\ late' = (\E t \in PortThreads : op[t] # NoOp)
    /\ op' = [op EXCEPT ![Unloader] = Begun(access(FALSE))]
    /\ UNCHANGED <<region, Ports, update_lock, copy, Wants>>

exit_unregisters ==
    /\ module = "leaving" /\ op[Unloader] = NoOp
    /\ \A t \in PortThreads : op[t] = NoOp
    /\ module' = "out" /\ region' = FALSE
    /\ UNCHANGED <<late, Ports, update_lock, op, copy, Wants>>

\* The core calls an operation.
CallOperation(t) ==
    /\ op[t] = NoOp
    /\ module # "out" /\ late' = (late \/ module = "leaving")
    /\ \E o \in Operations : op' = [op EXCEPT ![t] = Begun(o)]
    /\ UNCHANGED <<module, region, Ports, update_lock, copy, Wants>>

\* A plausible slip: the operation does not wait for the lock.
take_lock_not(t) ==
    /\ op[t].at = "lock"
    /\ update_lock' = t
    /\ op' = [op EXCEPT ![t].at = "inb"]
    /\ IF op[t].reg = "dir"
          THEN wantDir' = Result(wantDir, op[t]) /\ UNCHANGED wantData
          ELSE wantData' = Result(wantData, op[t]) /\ UNCHANGED wantDir
    /\ UNCHANGED <<module, region, late, Ports, copy>>

\* mutex_lock, inb, outb and mutex_unlock.
take_lock(t) ==
    /\ op[t].at = "lock" /\ update_lock = "free"
    /\ update_lock' = t
    /\ op' = [op EXCEPT ![t].at = "inb"]
    /\ IF op[t].reg = "dir"
          THEN wantDir' = Result(wantDir, op[t]) /\ UNCHANGED wantData
          ELSE wantData' = Result(wantData, op[t]) /\ UNCHANGED wantDir
    /\ UNCHANGED <<module, region, late, Ports, copy>>

inb(t) ==
    /\ op[t].at = "inb"
    /\ copy' = [copy EXCEPT ![t] = IF op[t].reg = "dir" THEN dir ELSE data]
    /\ op' = [op EXCEPT ![t].at = "outb"]
    /\ UNCHANGED <<module, region, late, Ports, update_lock, Wants>>

outb(t) ==
    /\ op[t].at = "outb"
    /\ IF op[t].reg = "dir"
          THEN dir' = Result(copy[t], op[t]) /\ UNCHANGED data
          ELSE data' = Result(copy[t], op[t]) /\ UNCHANGED dir
    /\ update_lock' = "free"
    /\ op' = [op EXCEPT ![t] = NoOp] /\ copy' = [copy EXCEPT ![t] = {}]
    /\ UNCHANGED <<module, region, late, Wants>>

DuramarNext ==
    \/ duramar2150_c2port_init \/ duramar2150_c2port_exit \/ exit_unregisters
    \/ \E t \in PortThreads : CallOperation(t)
    \/ \E t \in PortThreads \cup {Unloader} : take_lock(t) \/ inb(t) \/ outb(t)

DuramarSpec == DuramarInit /\ [][DuramarNext]_duramarVars

-----------------------------------------------------------------------------
\* With no operation under way the registers hold what the operations set in
\* the order in which they took update_lock: no update of the one line, and
\* none of the bits of others, is lost to an update of the other line.
NoLostUpdate ==
    update_lock = "free" => dir = wantDir /\ data = wantData

\* Once the driver is gone both lines are inputs, as its exit intends ("Setup
\* the GPIOs as input by default"), over every use before, unless an attribute
\* was in use during exit: access(0) comes before the attributes are withdrawn.
LinesReleased == module = "out" /\ ~late => dir \cap {C2D, C2CK} = {}
=============================================================================
