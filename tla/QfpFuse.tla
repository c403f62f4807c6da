------------------------------ MODULE QfpFuse ------------------------------
(***************************************************************************)
(* The fuse driver of test_qfp_fuse/qfp_fuse.c: open files, each with a    *)
(* semaphore of its own, threads that read and burn fuse words through     *)
(* them, the regulator that supplies the burning voltage (shared and       *)
(* counted by its core) and the controller's blow status register.  A      *)
(* fuse word is the set of its burnt bits.                                 *)
(***************************************************************************)
EXTENDS Naturals, FiniteSets

CONSTANTS FuseThreads, Files, Size, Bits,
          Ranges,     \* first and last words of the requests
          Sharing,    \* ways in which the threads share open files
          MaxStuck    \* bound: disable failures that are followed

\* Threads share the open files; a request that passes the checks, and whose
\* sum does not wrap, names words of the fuse area (QfpLimits).
FuseAssumption == /\ IsFiniteSet(FuseThreads)
                  /\ Size \in Nat \ {0} /\ MaxStuck \in Nat
                  /\ Sharing \subseteq [FuseThreads -> Files]
                  /\ Ranges \subseteq (1 .. Size) \X (1 .. Size)

VARIABLES fileOf,     \* the open file a thread uses
          sem,        \* sem[f]: the semaphore's count, or Closed
          use,        \* the regulator's use count
          stuck,      \* failed calls of regulator_disable
          fuse,       \* the burnt bits of each word
          blowing,    \* the bits the controller is burning, of each word
          blow,       \* QFPROM_BLOW_STATUS
          ioctl       \* ioctl[t]: the call a thread is in

fuseVars == <<fileOf, sem, use, stuck, fuse, blowing, blow, ioctl>>

FuseWords == 1 .. Size
Closed == 99
None == [at |-> "idle", op |-> "none", word |-> 1, first |-> 1, last |-> 1,
         data |-> {}, err |-> FALSE]

FuseInit ==
    /\ fileOf \in Sharing
    /\ sem = [f \in Files |-> Closed]
    /\ use = 0 /\ stuck = 0
    /\ fuse = [w \in FuseWords |-> {}] /\ blowing = [w \in FuseWords |-> {}]
    /\ blow = "ok"
    /\ ioctl = [t \in FuseThreads |-> None]

Supply == <<use, stuck>>
Prom == <<fuse, blowing, blow>>

FuseGoto(t, pc) == ioctl' = [ioctl EXCEPT ![t].at = pc]

\* A word that failed: the loop ends and the lock is released.
Fail(t) == ioctl' = [ioctl EXCEPT ![t].at = "unlock", ![t].err = TRUE]

-----------------------------------------------------------------------------
\* qfp_fuse_open (one that fails leaves the file closed), and
\* qfp_fuse_release, which the kernel calls after the last ioctl.
qfp_fuse_open(f) ==
    /\ sem[f] = Closed
    /\ sem' = [sem EXCEPT ![f] = 1]
    /\ UNCHANGED <<fileOf, use, stuck, fuse, blowing, blow, ioctl>>

qfp_fuse_release(f) ==
    /\ sem[f] # Closed
    /\ \A t \in FuseThreads : fileOf[t] = f => ioctl[t].at = "idle"
    /\ sem' = [sem EXCEPT ![f] = Closed]
    /\ UNCHANGED <<fileOf, use, stuck, fuse, blowing, blow, ioctl>>

\* qfp_fuse_ioctl up to down_interruptible, for its two commands.  A request
\* that fails its checks returns without having changed anything.
FuseRequest(t, op, r, d) ==
    /\ ioctl[t].at = "idle" /\ sem[fileOf[t]] # Closed
    /\ ioctl' = [ioctl EXCEPT ![t] = [None EXCEPT
                   !.at = "lock", !.op = op, !.data = d,
                   !.word = r[1], !.first = r[1], !.last = r[2]]]
    /\ UNCHANGED <<fileOf, sem, Supply, Prom>>

QFP_FUSE_IOC_READ(t) == \E r \in Ranges : FuseRequest(t, "read", r, {})

QFP_FUSE_IOC_WRITE(t) ==
    \E r \in Ranges, d \in SUBSET Bits :
        d # {} /\ FuseRequest(t, "write", r, d)

\* down_interruptible: the lock is taken, or a signal ends the call.
down_interruptible(t) ==
    /\ ioctl[t].at = "lock" /\ sem[fileOf[t]] > 0
    /\ sem' = [sem EXCEPT ![fileOf[t]] = @ - 1]
    /\ FuseGoto(t, IF ioctl[t].op = "read" THEN "readl" ELSE "enable")
    /\ UNCHANGED <<fileOf, Supply, Prom>>

down_interrupted(t) ==
    /\ ioctl[t].at = "lock"
    /\ ioctl' = [ioctl EXCEPT ![t].at = "done", ![t].err = TRUE]
    /\ UNCHANGED <<fileOf, sem, Supply, Prom>>

\* A plausible slip: the loop's counter is not advanced.
readl_again(t) ==
    /\ ioctl[t].at = "readl"
    /\ IF ioctl[t].word < ioctl[t].last THEN UNCHANGED ioctl
          ELSE FuseGoto(t, "unlock") \/ Fail(t)
    /\ UNCHANGED <<fileOf, sem, Supply, Prom>>

\* The read loop, a word at a time; copy_to_user may fail behind it.
readl(t) ==
    /\ ioctl[t].at = "readl"
    /\ IF ioctl[t].word < ioctl[t].last
          THEN ioctl' = [ioctl EXCEPT ![t].word = @ + 1]
          ELSE FuseGoto(t, "unlock") \/ Fail(t)
    /\ UNCHANGED <<fileOf, sem, Supply, Prom>>

\* qfp_fuse_write_word: the supply is switched on,
fuse_regulator_enable(t) ==
    /\ ioctl[t].at = "enable"
    /\ \/ use' = use + 1 /\ FuseGoto(t, "write")
       \/ Fail(t) /\ UNCHANGED use
    /\ UNCHANGED <<fileOf, sem, stuck, Prom>>

\* the word is written, which starts the burning,
writel(t) ==
    /\ ioctl[t].at = "write"
    /\ blowing' = [blowing EXCEPT ![ioctl[t].word] = @ \cup ioctl[t].data]
    /\ blow' = "busy"
    /\ FuseGoto(t, "disable")
    /\ UNCHANGED <<fileOf, sem, Supply, fuse>>

\* the supply is switched off; a failure leaves it on and ends the call,
fuse_regulator_disable(t) ==
    /\ ioctl[t].at = "disable"
    /\ \/ use' = use - 1 /\ FuseGoto(t, "wait") /\ UNCHANGED stuck
       \/ /\ stuck < MaxStuck
          /\ stuck' = stuck + 1 /\ Fail(t) /\ UNCHANGED use
    /\ UNCHANGED <<fileOf, sem, Prom>>

\* qfp_fuse_wait_for_fuse_blow: the status is polled until it is not busy or
\* ten polls have passed; an error status fails,
wait_for_fuse_blow(t) ==
    /\ ioctl[t].at = "wait"
    /\ IF blow = "ok" THEN FuseGoto(t, "verify") ELSE Fail(t)
    /\ UNCHANGED <<fileOf, sem, Supply, Prom>>

\* and the word is read back and compared; the loop goes on or ends.
verify(t) ==
    /\ ioctl[t].at = "verify"
    /\ IF fuse[ioctl[t].word] # ioctl[t].data THEN Fail(t)
       ELSE IF ioctl[t].word < ioctl[t].last
          THEN ioctl' = [ioctl EXCEPT ![t].word = @ + 1, ![t].at = "enable"]
          ELSE FuseGoto(t, "unlock")
    /\ UNCHANGED <<fileOf, sem, Supply, Prom>>

\* A plausible slip: a failed word leaves the lock held.
up_unless_failed(t) ==
    /\ ioctl[t].at = "unlock"
    /\ sem' = [sem EXCEPT ![fileOf[t]] = @ + (IF ioctl[t].err THEN 0 ELSE 1)]
    /\ FuseGoto(t, "done")
    /\ UNCHANGED <<fileOf, Supply, Prom>>

\* up, on every path that took the lock.
up(t) ==
    /\ ioctl[t].at = "unlock"
    /\ sem' = [sem EXCEPT ![fileOf[t]] = @ + 1]
    /\ FuseGoto(t, "done")
    /\ UNCHANGED <<fileOf, Supply, Prom>>

FuseReturn(t) ==
    /\ ioctl[t].at = "done"
    /\ ioctl' = [ioctl EXCEPT ![t] = None]
    /\ UNCHANGED <<fileOf, sem, Supply, Prom>>

\* The controller ends the burning: some of the bits are burnt.
blow_ends ==
    /\ blow = "busy"
    /\ \E w \in FuseWords, got \in SUBSET Bits :
          /\ got \subseteq blowing[w]
          /\ fuse' = [fuse EXCEPT ![w] = @ \cup got]
          /\ blowing' = [blowing EXCEPT ![w] = {}]
          /\ blow' \in (IF \A v \in FuseWords \ {w} : blowing[v] = {}
                             THEN {"ok", "error"} ELSE {"busy"})
    /\ UNCHANGED <<fileOf, sem, Supply, ioctl>>

Inside(t) == \/ down_interruptible(t) \/ readl(t) \/ fuse_regulator_enable(t)
             \/ writel(t) \/ fuse_regulator_disable(t) \/ wait_for_fuse_blow(t)
             \/ verify(t) \/ up(t)

FuseNext ==
    \/ \E f \in Files : qfp_fuse_open(f) \/ qfp_fuse_release(f)
    \/ \E t \in FuseThreads :
          \/ QFP_FUSE_IOC_READ(t) \/ QFP_FUSE_IOC_WRITE(t)
          \/ down_interrupted(t) \/ Inside(t) \/ FuseReturn(t)
    \/ blow_ends

\* A thread inside the ioctl goes on; the semaphore serves its waiters in
\* turn, so one that waits while the lock is free again and again gets it.
\* No signal has to come.
FuseSpec == /\ FuseInit /\ [][FuseNext]_fuseVars
            /\ \A t \in FuseThreads : SF_fuseVars(Inside(t))

-----------------------------------------------------------------------------
LockHolder(t) == ioctl[t].at \in {"readl", "enable", "write", "disable",
                                 "wait", "verify", "unlock"}

\* The types of the driver's state.
FuseTypeOK ==
    /\ sem \in [Files -> {0, 1, Closed}]
    /\ use \in 0 .. Cardinality(FuseThreads) + MaxStuck
    /\ stuck \in 0 .. MaxStuck
    /\ {fuse, blowing} \subseteq [FuseWords -> SUBSET Bits]
    /\ blow \in {"ok", "busy", "error"}
    /\ \A t \in FuseThreads : {ioctl[t].word, ioctl[t].last} \subseteq FuseWords

\* The words of a request are read and burnt while no other thread is inside
\* a request through the same open file, and no thread waits for a lock that
\* no one holds: every path that takes the lock, those of a failed word or a
\* failed copy included, gives it back once (down_interruptible and up).
LockIsHeldOnce ==
    \A f \in Files : sem[f] # Closed =>
        1 = sem[f] + Cardinality({t \in FuseThreads :
                                     fileOf[t] = f /\ LockHolder(t)})

\* A word is written only with the supply on, also when a thread on another
\* file switches its own use of the supply off in between (regulator_enable
\* and regulator_disable in qfp_fuse_write_word).
PoweredWrite ==
    \A t \in FuseThreads : ioctl[t].at \in {"write", "disable"} => use > 0

\* The supply is on exactly for the words being written and for the failures
\* to switch it off: no error path of qfp_fuse_write_word loses count.
SupplyAccounted ==
    use = stuck + Cardinality({t \in FuseThreads :
                                  ioctl[t].at \in {"write", "disable"}})

\* A write that returns zero has burnt all its words completely, whatever the
\* status register said and whoever else was burning: the status belongs to
\* the controller, not to the request (verify in qfp_fuse_write_word).
SuccessIsBurnt ==
    \A t \in FuseThreads :
        ioctl[t].at = "done" /\ ioctl[t].op = "write" /\ ~ioctl[t].err =>
            \A w \in ioctl[t].first .. ioctl[t].last :
                ioctl[t].data \subseteq fuse[w]

\* Every request comes to its end, also one that waits for another thread's
\* request through the same file, and without a signal (qfp_fuse_ioctl).
RequestsEnd ==
    \A t \in FuseThreads : (ioctl[t].at = "lock") ~> (ioctl[t].at = "done")

\* On every path the lock of a file is given back once and the supply is on
\* for exactly the words being written; words are written with it on, and a
\* write that returns zero has burnt them (qfp_fuse_ioctl).
FuseSafe == /\ FuseTypeOK /\ LockIsHeldOnce /\ SupplyAccounted
            /\ PoweredWrite /\ SuccessIsBurnt
=============================================================================
