------------------------------ MODULE ListHead ------------------------------
(***************************************************************************)
(* test_list_head/test_list_head.c: any number of threads block in read on *)
(* files of one character device; a kernel timer, standing for an          *)
(* interrupt, increments a counter, marks every open file as having data   *)
(* and wakes the blocked threads.  The timer is the one of TimerCtl.       *)
(*                                                                         *)
(* A file is opened by reg_open and freed by release; several threads may  *)
(* read the same file.  reg_read is split at every access to state that    *)
(* the timer or another thread also touches.                               *)
(***************************************************************************)
EXTENDS TimerCtl, FiniteSets

CONSTANTS
    Files,       \* struct file / struct priv_data of the device
    Threads,     \* threads that call read
    NoFile,      \* file of a thread that is not reading
    MaxData      \* bound on gld.data: the timer does not fire beyond it

ASSUME ListHeadAssumption ==
    /\ IsFiniteSet(Files)
    /\ NoFile \notin Files
    /\ MaxData \in Nat

VARIABLES
    data,        \* gld.data
    ref_cnt,     \* gld.ref_cnt
    list,        \* the files whose priv_data is linked into gld.list_head
    fstate,      \* fstate[f]: "closed", "opening", "open", "releasing"
    nonblock,    \* nonblock[f]: O_NONBLOCK of f
    has_data,    \* has_data[f]: pri->has_data
    waitq,       \* the threads whose entry is linked into gld.wait
    todo,        \* nodes the timer's list walk, under gld.lock, has not visited
    towake,      \* entries wake_up_interruptible_all has not visited
    pc,          \* pc[t]: next step of thread t in reg_read
    file,        \* file[t]: the file t reads
    asleep,      \* asleep[t]: the task state of t is TASK_INTERRUPTIBLE
    signal,      \* signal[t]: signal_pending(t)
    retval,      \* retval[t]: the local variable retval
    len,         \* len[t]: whether the local variable len has been set
    seen         \* history: seen[f] is the newest value of gld.data that a
                 \* reader of f fetched, or that was current when f was linked

readVars == <<pc, file, asleep, signal, retval, len>>
listVars == <<ref_cnt, list, fstate, nonblock>>
walkVars == <<todo, towake>>
vars == <<timerVars, readVars, listVars, walkVars, data, has_data, waitq, seen>>

Goto(t, to) == pc' = [pc EXCEPT ![t] = to]

Reading(f) == {t \in Threads : file[t] = f}

\* gld.lock is held by the timer's walk; gld.wait.lock by its wake-up.
LockFree == fn # "mark"
WaitLockFree == fn # "wake"

Init ==
    /\ TimerInit
    /\ data = 0
    /\ ref_cnt = 0
    /\ list = {}
    /\ fstate = [f \in Files |-> "closed"]
    /\ nonblock = [f \in Files |-> FALSE]
    /\ has_data = [f \in Files |-> FALSE]
    /\ waitq = {}
    /\ todo = {}
    /\ towake = {}
    /\ pc = [t \in Threads |-> "idle"]
    /\ file = [t \in Threads |-> NoFile]
    /\ asleep = [t \in Threads |-> FALSE]
    /\ signal = [t \in Threads |-> FALSE]
    /\ retval = [t \in Threads |-> "ok"]
    /\ len = [t \in Threads |-> FALSE]
    /\ seen = [f \in Files |-> 0]

-----------------------------------------------------------------------------
(* Module life cycle: the attributes are visible first, then the character *)
(* device, and only then are the timer, the list head, the wait queue and  *)
(* the lock initialised.                                                   *)

CdevAdd ==
    /\ mstate = "sysfs"
    /\ mstate' = "chrdev"

InitGld ==
    /\ mstate = "chrdev"
    /\ mstate' = "live"

\* alloc_chrdev_region or class_create failed: the load fails, but what was
\* already registered stays behind.
InitFail ==
    /\ mstate \in {"sysfs", "chrdev"}
    /\ mstate' = "failed"

\* Anything still registered then leads into text that has been freed.
TouchFreed ==
    /\ mstate = "failed"
    /\ halted' = TRUE
    /\ UNCHANGED <<pending, fn, timeperiod, wpc, mstate, quiet>>

\* An open file holds a reference to the module.
ExampleExit ==
    /\ mstate = "live" => \A f \in Files : fstate[f] = "closed"
    /\ Exit

Lifecycle ==
    /\ \/ /\ CdevAdd \/ InitGld \/ InitFail
          /\ UNCHANGED <<pending, fn, timeperiod, wpc, halted, quiet>>
       \/ TouchFreed
       \/ ExampleExit
    /\ UNCHANGED <<readVars, listVars, walkVars, data, has_data, waitq, seen>>

SysfsStore(w) ==
    /\ Store(w)
    /\ UNCHANGED <<readVars, listVars, walkVars, data, has_data, waitq, seen>>

-----------------------------------------------------------------------------
(* reg_open and release.                                                   *)

OpenAlloc(f) ==
    /\ mstate \in {"chrdev", "live"}
    /\ fstate[f] = "closed"
    /\ fstate' = [fstate EXCEPT ![f] = "opening"]
    /\ \E b \in BOOLEAN : nonblock' = [nonblock EXCEPT ![f] = b]
    /\ has_data' = [has_data EXCEPT ![f] = FALSE]
    /\ ref_cnt' = ref_cnt + 1
    /\ UNCHANGED <<timerVars, readVars, walkVars, data, list, waitq, seen>>

\* list_add on a head that INIT_LIST_HEAD has not reached is an oops.
OpenLink(f) ==
    /\ fstate[f] = "opening"
    /\ LockFree
    /\ IF mstate = "live"
       THEN /\ list' = list \cup {f}
            /\ fstate' = [fstate EXCEPT ![f] = "open"]
            /\ seen' = [seen EXCEPT ![f] = data]
            /\ UNCHANGED halted
       ELSE /\ halted' = TRUE
            /\ UNCHANGED <<list, fstate, seen>>
    /\ UNCHANGED <<pending, fn, timeperiod, wpc, mstate, quiet, readVars,
                   walkVars, data, ref_cnt, nonblock, has_data, waitq>>

\* The last reference to the file is gone, so no thread reads it.
ReleaseDec(f) ==
    /\ fstate[f] = "open"
    /\ Reading(f) = {}
    /\ fstate' = [fstate EXCEPT ![f] = "releasing"]
    /\ ref_cnt' = ref_cnt - 1
    /\ UNCHANGED <<timerVars, readVars, walkVars, data, list, nonblock,
                   has_data, waitq, seen>>

\* A plausible slip: list_del without gld.lock.
ReleaseFreeNoLock(f) ==
    /\ fstate[f] = "releasing"
    /\ list' = list \ {f}
    /\ fstate' = [fstate EXCEPT ![f] = "closed"]
    /\ UNCHANGED <<timerVars, readVars, walkVars, data, ref_cnt, nonblock,
                   has_data, waitq, seen>>

\* A plausible slip: the count drops only when the node is freed, too.
ReleaseFreeDec(f) ==
    /\ fstate[f] = "releasing"
    /\ LockFree
    /\ list' = list \ {f}
    /\ ref_cnt' = IF ref_cnt > 0 THEN ref_cnt - 1 ELSE 0
    /\ fstate' = [fstate EXCEPT ![f] = "closed"]
    /\ UNCHANGED <<timerVars, readVars, walkVars, data, nonblock, has_data,
                   waitq, seen>>

\* list_del under gld.lock, then kfree.
ReleaseFree(f) ==
    /\ fstate[f] = "releasing"
    /\ LockFree
    /\ list' = list \ {f}
    /\ fstate' = [fstate EXCEPT ![f] = "closed"]
    /\ UNCHANGED <<timerVars, readVars, walkVars, data, ref_cnt, nonblock,
                   has_data, waitq, seen>>

FileOp(f) == OpenAlloc(f) \/ OpenLink(f) \/ ReleaseDec(f) \/ ReleaseFree(f)

-----------------------------------------------------------------------------
(* reg_read.                                                               *)

ReadStart(t, f) ==
    /\ pc[t] = "idle"
    /\ fstate[f] = "open"
    /\ file' = [file EXCEPT ![t] = f]
    /\ Goto(t, "test")
    /\ UNCHANGED <<asleep, signal, retval, len, has_data, waitq, seen>>

ReadTest(t) ==
    /\ pc[t] = "test"
    /\ Goto(t, IF has_data[file[t]] THEN "clear" ELSE "queue")
    /\ UNCHANGED <<file, asleep, signal, retval, len, has_data, waitq, seen>>

ReadQueue(t) ==
    /\ pc[t] = "queue"
    /\ WaitLockFree
    /\ waitq' = waitq \cup {t}
    /\ Goto(t, "setstate")
    /\ UNCHANGED <<file, asleep, signal, retval, len, has_data, seen>>

ReadSetState(t) ==
    /\ pc[t] = "setstate"
    /\ asleep' = [asleep EXCEPT ![t] = TRUE]
    /\ Goto(t, "check")
    /\ UNCHANGED <<file, signal, retval, len, has_data, waitq, seen>>

\* A plausible slip: no second look at has_data once the state is set.
ReadCheckOnce(t) ==
    /\ pc[t] = "check"
    /\ Goto(t, "sched")
    /\ UNCHANGED <<file, asleep, signal, retval, len, has_data, waitq, seen>>

\* A plausible slip: continue where the loop should be left.
ReadCheckAgain(t) ==
    /\ pc[t] = "check"
    /\ \/ has_data[file[t]] /\ Goto(t, "setstate")
       \/ ~has_data[file[t]] /\ Goto(t, "sched")
    /\ UNCHANGED <<file, asleep, signal, retval, len, has_data, waitq, seen>>

ReadCheck(t) ==
    /\ pc[t] = "check"
    /\ \/ /\ has_data[file[t]]
          /\ Goto(t, "clear")
          /\ UNCHANGED retval
       \/ /\ ~has_data[file[t]]
          /\ nonblock[file[t]]
          /\ retval' = [retval EXCEPT ![t] = "EAGAIN"]
          /\ Goto(t, "out")
       \/ /\ ~has_data[file[t]]
          /\ ~nonblock[file[t]]
          /\ signal[t]
          /\ retval' = [retval EXCEPT ![t] = "ERESTARTSYS"]
          /\ Goto(t, "out")
       \/ /\ ~has_data[file[t]]
          /\ ~nonblock[file[t]]
          /\ ~signal[t]
          /\ Goto(t, "sched")
          /\ UNCHANGED retval
    /\ UNCHANGED <<file, asleep, signal, len, has_data, waitq, seen>>

\* schedule() returns to a task that is running again: it was woken, or a
\* signal is pending.
ReadSched(t) ==
    /\ pc[t] = "sched"
    /\ ~asleep[t] \/ signal[t]
    /\ asleep' = [asleep EXCEPT ![t] = FALSE]
    /\ Goto(t, "setstate")
    /\ UNCHANGED <<file, signal, retval, len, has_data, waitq, seen>>

ReadClear(t) ==
    /\ pc[t] = "clear"
    /\ has_data' = [has_data EXCEPT ![file[t]] = FALSE]
    /\ Goto(t, "fetch")
    /\ UNCHANGED <<file, asleep, signal, retval, len, waitq, seen>>

ReadFetch(t) ==
    /\ pc[t] = "fetch"
    /\ seen' = [seen EXCEPT ![file[t]] = data]
    /\ Goto(t, "copy")
    /\ UNCHANGED <<file, asleep, signal, retval, len, has_data, waitq>>

\* A plausible slip: the flag is cleared after the counter was read.
ReadCopyThenClear(t) ==
    /\ pc[t] = "copy"
    /\ has_data' = [has_data EXCEPT ![file[t]] = FALSE]
    /\ len' = [len EXCEPT ![t] = TRUE]
    /\ Goto(t, "out")
    /\ UNCHANGED <<file, asleep, signal, retval, waitq, seen>>

\* copy_to_user may fail; len is set either way.
ReadCopy(t) ==
    /\ pc[t] = "copy"
    /\ \E r \in {"ok", "EFAULT"} : retval' = [retval EXCEPT ![t] = r]
    /\ len' = [len EXCEPT ![t] = TRUE]
    /\ Goto(t, "out")
    /\ UNCHANGED <<file, asleep, signal, has_data, waitq, seen>>

\* The locals die with the call; a pending signal is delivered on the way
\* back to user mode.
ReadOut(t) ==
    /\ pc[t] = "out"
    /\ t \in waitq => WaitLockFree
    /\ waitq' = waitq \ {t}
    /\ asleep' = [asleep EXCEPT ![t] = FALSE]
    /\ signal' = [signal EXCEPT ![t] = FALSE]
    /\ retval' = [retval EXCEPT ![t] = "ok"]
    /\ len' = [len EXCEPT ![t] = FALSE]
    /\ file' = [file EXCEPT ![t] = NoFile]
    /\ Goto(t, "idle")
    /\ UNCHANGED <<has_data, seen>>

\* A signal for a thread inside reg_read wakes it (external).
Signal(t) ==
    /\ pc[t] # "idle"
    /\ ~signal[t]
    /\ signal' = [signal EXCEPT ![t] = TRUE]
    /\ asleep' = [asleep EXCEPT ![t] = FALSE]
    /\ UNCHANGED <<pc, file, retval, len, has_data, waitq, seen>>

ReadStep(t) ==
    \/ ReadTest(t) \/ ReadQueue(t) \/ ReadSetState(t) \/ ReadCheck(t)
    \/ ReadSched(t) \/ ReadClear(t) \/ ReadFetch(t) \/ ReadCopy(t)
    \/ ReadOut(t)

Reader(t) ==
    /\ \/ \E f \in Files : ReadStart(t, f)
       \/ ReadStep(t)
       \/ Signal(t)
    /\ UNCHANGED <<timerVars, listVars, walkVars, data>>

-----------------------------------------------------------------------------
(* timer_func.                                                             *)

At(from, to) ==
    /\ fn = from
    /\ fn' = to
    /\ mstate # "gone"
    /\ UNCHANGED <<pending, timeperiod, wpc, mstate, halted, quiet>>

TimerIncrement ==
    /\ At("data", "lock")
    /\ data' = data + 1
    /\ UNCHANGED <<walkVars, has_data, asleep>>

TimerLock ==
    /\ At("lock", "mark")
    /\ todo' = list
    /\ UNCHANGED <<towake, data, has_data, asleep>>

TimerMark(f) ==
    /\ At("mark", "mark")
    /\ f \in todo
    /\ todo' = todo \ {f}
    /\ has_data' = [has_data EXCEPT ![f] = TRUE]
    /\ UNCHANGED <<towake, data, asleep>>

\* A plausible slip: nobody is woken.
TimerUnlockNoWake ==
    /\ At("mark", "rearm")
    /\ todo = {}
    /\ UNCHANGED <<walkVars, data, has_data, asleep>>

TimerUnlock ==
    /\ At("mark", "wakeq")
    /\ todo = {}
    /\ UNCHANGED <<walkVars, data, has_data, asleep>>

\* wake_up_interruptible_all: every entry queued when it took the lock of
\* the queue; a task that is not TASK_INTERRUPTIBLE is left alone.
TimerWakeStart ==
    /\ At("wakeq", "wake")
    /\ towake' = waitq
    /\ UNCHANGED <<todo, data, has_data, asleep>>

TimerWake(t) ==
    /\ At("wake", "wake")
    /\ t \in towake
    /\ towake' = towake \ {t}
    /\ asleep' = [asleep EXCEPT ![t] = FALSE]
    /\ UNCHANGED <<todo, data, has_data>>

TimerWakeEnd ==
    /\ At("wake", "rearm")
    /\ towake = {}
    /\ UNCHANGED <<walkVars, data, has_data, asleep>>

TimerFunc ==
    /\ \/ /\ \/ data < MaxData /\ TimerExpire("data")
             \/ AddTimer
             \/ RunFreedText
          /\ UNCHANGED <<walkVars, data, has_data, asleep>>
       \/ TimerIncrement
       \/ TimerLock
       \/ \E f \in Files : TimerMark(f)
       \/ TimerUnlock
       \/ TimerWakeStart
       \/ \E t \in Threads : TimerWake(t)
       \/ TimerWakeEnd
    /\ UNCHANGED <<pc, file, signal, retval, len, listVars, waitq, seen>>

Next ==
    /\ ~halted
    /\ \/ Lifecycle
       \/ \E w \in Writers : SysfsStore(w)
       \/ \E f \in Files : FileOp(f)
       \/ \E t \in Threads : Reader(t)
       \/ TimerFunc

Spec == Init /\ [][Next]_vars

(***************************************************************************)
(* The scheduler runs every runnable reader (they are SCHED_RR), the       *)
(* callback runs to its end in softirq context.  Nothing obliges anybody   *)
(* to open, read, close, signal or write an attribute.                     *)
(***************************************************************************)
FairSpec ==
    /\ Spec
    /\ WF_vars(~halted /\ TimerFunc)
    /\ \A t \in Threads :
         WF_vars(/\ ~halted
                 /\ ReadStep(t)
                 /\ UNCHANGED <<timerVars, listVars, walkVars, data>>)

-----------------------------------------------------------------------------
(* Properties.                                                             *)

TypeOK ==
    /\ pending \in BOOLEAN
    /\ fn \in {"idle", "data", "lock", "mark", "wakeq", "wake", "rearm"}
    /\ timeperiod \in Nat
    /\ wpc \in [Writers -> {"idle", "mod", "del"}]
    /\ mstate \in {"sysfs", "chrdev", "failed", "live", "exit_del",
                   "exit_dev", "gone"}
    /\ halted \in BOOLEAN
    /\ quiet \in {"no", "skipped", "synced"}
    /\ data \in Nat
    /\ ref_cnt \in Nat
    /\ list \in SUBSET Files
    /\ fstate \in [Files -> {"closed", "opening", "open", "releasing"}]
    /\ nonblock \in [Files -> BOOLEAN]
    /\ has_data \in [Files -> BOOLEAN]
    /\ waitq \in SUBSET Threads
    /\ todo \in SUBSET Files
    /\ towake \in SUBSET Threads
    /\ pc \in [Threads -> {"idle", "test", "queue", "setstate", "check",
                           "sched", "clear", "fetch", "copy", "out"}]
    /\ file \in [Threads -> Files \cup {NoFile}]
    /\ asleep \in [Threads -> BOOLEAN]
    /\ signal \in [Threads -> BOOLEAN]
    /\ retval \in [Threads -> {"ok", "EAGAIN", "ERESTARTSYS", "EFAULT"}]
    /\ len \in [Threads -> BOOLEAN]
    /\ seen \in [Files -> Nat]

\* The wake-up that thread t may rely on: the callback has not yet passed t.
WakeComing(t) ==
    \/ fn \in {"mark", "wakeq"}
    \/ fn = "wake" /\ t \in towake

\* No lost wake-up: a thread that sleeps in schedule() although its file has
\* data is still going to be woken by the callback that marked the file.
NoLostWakeup ==
    \A t \in Threads :
        pc[t] = "sched" /\ asleep[t] /\ has_data[file[t]] => WakeComing(t)

\* The callback has counted but not yet marked file f.
MarkComing(f) == fn = "lock" \/ (fn = "mark" /\ f \in todo)

\* No tick is missed: when an open file is not marked, and neither the callback
\* nor a reader is half way, its readers have fetched the current counter.
NoMissedTick ==
    \A f \in Files :
        \/ fstate[f] # "open"
        \/ has_data[f]
        \/ MarkComing(f)
        \/ \E t \in Threads : file[t] = f /\ pc[t] = "fetch"
        \/ seen[f] = data

\* The list walk of timer_func only meets nodes that release has not freed.
WalkIsSafe ==
    todo \subseteq {f \in Files : fstate[f] \in {"open", "releasing"}}

\* gld.ref_cnt counts the files between reg_open and release, whatever the
\* interleaving, so it is zero when the module can be unloaded.
RefCntExact ==
    ref_cnt = Cardinality({f \in Files : fstate[f] \in {"opening", "open"}})

(***************************************************************************)
(* The inductive invariant: the properties above and what they rest on.    *)
(***************************************************************************)

\* A thread inside reg_read has a file, and that file stays open.
ReadersHoldFile ==
    \A t \in Threads :
        /\ pc[t] = "idle" <=> file[t] = NoFile
        /\ file[t] # NoFile => fstate[file[t]] = "open"

\* What gld.list_head links.
ListIsLinked ==
    list = {f \in Files : fstate[f] \in {"open", "releasing"}}

\* The walk's unvisited nodes are linked, and exist only during the walk.
WalkIsLinked ==
    /\ todo \subseteq list
    /\ fn # "mark" => todo = {}

\* A thread in the wait loop is on the wait queue.
LoopIsQueued ==
    \A t \in Threads : pc[t] \in {"setstate", "check", "sched"} => t \in waitq

\* The conjunction that every step of the driver preserves: with it no
\* wake-up is lost, no tick missed and no freed node visited.
IInv ==
    /\ TypeOK
    /\ ReadersHoldFile
    /\ ListIsLinked
    /\ WalkIsLinked
    /\ LoopIsQueued
    /\ NoLostWakeup
    /\ NoMissedTick
    /\ RefCntExact

\* A tick reaches somebody: if a thread sleeps on a marked file, some reader
\* of that file consumes the mark.
TickDelivered ==
    \A f \in Files :
        (has_data[f] /\ \E t \in Threads : pc[t] = "sched" /\ file[t] = f)
            ~> (~has_data[f] \/ halted)

=============================================================================
