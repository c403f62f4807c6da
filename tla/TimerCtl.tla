------------------------------ MODULE TimerCtl ------------------------------
(***************************************************************************)
(* The self-rearming kernel timer of test_timer/test_timer.c and the sysfs *)
(* attributes that control it.  test_list_head/test_list_head.c has the    *)
(* same on_store, value_store, re-arm and exit code; ListHead extends this *)
(* module and gives the callback its longer body.                          *)
(*                                                                         *)
(* The kernel's timer_list is external: a timer is pending or not, its     *)
(* callback is running or not, and expiry times are abstracted away, so a  *)
(* pending timer may fire at any moment.                                   *)
(***************************************************************************)
EXTENDS Naturals

CONSTANTS
    Writers,     \* threads that write the attributes "on" and "value"
    Periods      \* values of timeperiod that a write of "value" produces

ASSUME PeriodsAssumption == Periods \subseteq Nat

VARIABLES
    pending,     \* timer_pending(&my_timer)
    fn,          \* where the callback is: "idle", or the step it takes next
    timeperiod,  \* the global timeperiod
    wpc,         \* wpc[w]: where writer w is in on_store or value_store
    mstate,      \* module life cycle: loading, "failed",
                 \* "live", unloading, "gone"
    halted,      \* an oops or BUG() has stopped the machine
    quiet        \* history: what the last stop request found, "no" once the
                 \* timer has been started again

timerVars == <<pending, fn, timeperiod, wpc, mstate, halted, quiet>>

(***************************************************************************)
(* example_init makes the attributes visible with sysfs_create_group       *)
(* before timer_setup has run, or fails to create them and makes the load  *)
(* fail; example_exit removes them with device_del after it has stopped    *)
(* the timer.                                                              *)
(***************************************************************************)
TimerReady == mstate \notin {"sysfs", "chrdev", "failed"}
SysfsVisible == mstate \notin {"gone", "failed"}

TimerInit ==
    /\ pending = FALSE
    /\ fn = "idle"
    /\ timeperiod = 0
    /\ wpc = [w \in Writers |-> "idle"]
    /\ mstate \in {"sysfs", "failed"}
    /\ halted = FALSE
    /\ quiet = "no"

-----------------------------------------------------------------------------
(* timer_list operations as the callers below use them (external).         *)

\* mod_timer: (re)arm; a timer that timer_setup has not initialised has no
\* function and trips BUG_ON(!timer->function).
ModTimer ==
    IF TimerReady
    THEN /\ pending' = TRUE
         /\ quiet' = "no"
         /\ UNCHANGED halted
    ELSE /\ halted' = TRUE
         /\ UNCHANGED <<pending, quiet>>

\* del_timer_sync: wait until the callback is not running, then deactivate.
DelTimerSync ==
    /\ fn = "idle"
    /\ pending' = FALSE

-----------------------------------------------------------------------------
(* The attributes.                                                         *)

ValueStore(w) ==
    /\ wpc[w] = "idle"
    /\ SysfsVisible
    /\ \E p \in Periods : timeperiod' = p
    /\ wpc' = [wpc EXCEPT ![w] = "mod"]
    /\ UNCHANGED <<pending, fn, mstate, halted, quiet>>

\* on_store, case 1: armed only with a period that is not zero.
OnStoreStart(w) ==
    /\ wpc[w] = "idle"
    /\ SysfsVisible
    /\ timeperiod # 0
    /\ wpc' = [wpc EXCEPT ![w] = "mod"]
    /\ UNCHANGED <<pending, fn, timeperiod, mstate, halted, quiet>>

StoreModTimer(w) ==
    /\ wpc[w] = "mod"
    /\ ModTimer
    /\ wpc' = [wpc EXCEPT ![w] = "idle"]
    /\ UNCHANGED <<fn, timeperiod, mstate>>

\* on_store, case 0: the store does nothing unless the timer is pending.
OnStoreStop(w) ==
    /\ wpc[w] = "idle"
    /\ SysfsVisible
    /\ IF pending
       THEN /\ wpc' = [wpc EXCEPT ![w] = "del"]
            /\ UNCHANGED quiet
       ELSE /\ quiet' = IF quiet = "no" THEN "skipped" ELSE quiet
            /\ UNCHANGED wpc
    /\ UNCHANGED <<pending, fn, timeperiod, mstate, halted>>

\* A plausible slip: del_timer, which does not wait for a running callback.
OnStoreDelNoSync(w) ==
    /\ wpc[w] = "del"
    /\ pending' = FALSE
    /\ quiet' = "synced"
    /\ wpc' = [wpc EXCEPT ![w] = "idle"]
    /\ UNCHANGED <<fn, timeperiod, mstate, halted>>

OnStoreDel(w) ==
    /\ wpc[w] = "del"
    /\ DelTimerSync
    /\ quiet' = "synced"
    /\ wpc' = [wpc EXCEPT ![w] = "idle"]
    /\ UNCHANGED <<fn, timeperiod, mstate, halted>>

Store(w) ==
    \/ ValueStore(w)
    \/ OnStoreStart(w)
    \/ StoreModTimer(w)
    \/ OnStoreStop(w)
    \/ OnStoreDel(w)

-----------------------------------------------------------------------------
(* The callback.  ListHead replaces the body between the two steps.        *)

\* Expiry runs the callback from its first step; once the module text is
\* freed there is no code left to run.
TimerExpire(first) ==
    /\ pending
    /\ fn = "idle"
    /\ IF mstate = "gone"
       THEN halted' = TRUE /\ UNCHANGED <<pending, fn>>
       ELSE pending' = FALSE /\ fn' = first /\ UNCHANGED halted
    /\ UNCHANGED <<timeperiod, wpc, mstate, quiet>>

\* add_timer, the last statement of timer_func: BUG_ON(timer_pending(timer)).
AddTimer ==
    /\ fn = "rearm"
    /\ mstate # "gone"
    /\ fn' = "idle"
    /\ IF pending
       THEN halted' = TRUE /\ UNCHANGED pending
       ELSE pending' = TRUE /\ UNCHANGED halted
    /\ UNCHANGED <<timeperiod, wpc, mstate, quiet>>

\* The module text is freed under a callback that is still running.
RunFreedText ==
    /\ fn # "idle"
    /\ mstate = "gone"
    /\ halted' = TRUE
    /\ UNCHANGED <<pending, fn, timeperiod, wpc, mstate, quiet>>

-----------------------------------------------------------------------------
(* Module life cycle.                                                      *)

\* timer_setup, after the attributes are visible.
TimerSetup ==
    /\ mstate = "sysfs"
    /\ mstate' = "live"
    /\ UNCHANGED <<pending, fn, timeperiod, wpc, halted, quiet>>

ExitCheck ==
    /\ mstate = "live"
    /\ mstate' = IF pending THEN "exit_del" ELSE "exit_dev"
    /\ UNCHANGED <<pending, fn, timeperiod, wpc, halted, quiet>>

ExitDel ==
    /\ mstate = "exit_del"
    /\ DelTimerSync
    /\ mstate' = "exit_dev"
    /\ quiet' = "synced"
    /\ UNCHANGED <<fn, timeperiod, wpc, halted>>

\* device_del removes the attributes and waits for the writers inside them.
ExitDeviceDel ==
    /\ mstate = "exit_dev"
    /\ \A w \in Writers : wpc[w] = "idle"
    /\ mstate' = "gone"
    /\ UNCHANGED <<pending, fn, timeperiod, wpc, halted, quiet>>

Exit == ExitCheck \/ ExitDel \/ ExitDeviceDel

Callback == TimerExpire("rearm") \/ AddTimer \/ RunFreedText

TimerNext ==
    /\ ~halted
    /\ \/ \E w \in Writers : Store(w)
       \/ Callback
       \/ TimerSetup
       \/ Exit

TimerSpec == TimerInit /\ [][TimerNext]_timerVars

(***************************************************************************)
(* The callback runs to its end in softirq context.  A store inside        *)
(* del_timer_sync finds the callback not running again and again, between  *)
(* two expiries, hence strong fairness for it.                             *)
(***************************************************************************)
TimerFairSpec ==
    /\ TimerSpec
    /\ WF_timerVars(~halted /\ Callback)
    /\ \A w \in Writers : SF_timerVars(~halted /\ OnStoreDel(w))
    /\ \A w \in Writers : WF_timerVars(~halted /\ StoreModTimer(w))

-----------------------------------------------------------------------------
(* Properties.                                                             *)

TimerTypeOK ==
    /\ pending \in BOOLEAN
    /\ fn \in {"idle", "rearm"}
    /\ timeperiod \in Nat
    /\ wpc \in [Writers -> {"idle", "mod", "del"}]
    /\ mstate \in {"sysfs", "failed", "live", "exit_del", "exit_dev", "gone"}
    /\ halted \in BOOLEAN
    /\ quiet \in {"no", "skipped", "synced"}

\* A stop that reached del_timer_sync is final: although the callback re-arms
\* the timer itself, neither a pending timer nor a running callback is left
\* until somebody starts the timer again.
SyncStopIsFinal ==
    quiet = "synced" => ~pending /\ fn = "idle"

\* Every stop (on_store case 0) leaves the timer neither pending nor running
\* until it is started again: the comment in on_store asks that the deletion
\* be safe against a timer that is being triggered.
StopIsFinal ==
    quiet # "no" => ~pending /\ fn = "idle"

\* A store that is inside del_timer_sync returns, unless the machine stops:
\* the wait for the callback cannot last for ever.
StopReturns ==
    \A w \in Writers : wpc[w] = "del" ~> wpc[w] = "idle" \/ halted

\* A timer that was stopped and waited for stays stopped (on_store,
\* example_exit).
TimerSafe == TimerTypeOK /\ SyncStopIsFinal
=============================================================================
