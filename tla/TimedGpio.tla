----------------------------- MODULE TimedGpio -----------------------------
(***************************************************************************)
(* test_timedgpio/timed_gpio.c and timed_output.c: one output of the timed *)
(* GPIO driver.  Threads store into the enable attribute; gpio_enable      *)
(* works under a spinlock, which the callback of the high resolution timer *)
(* does not take.  Probe and remove publish and withdraw the attribute in  *)
(* the order of the source.                                                *)
(***************************************************************************)
EXTENDS Integers

CONSTANTS
    Threads,     \* threads storing into enable
    Core,        \* the caller of probe and remove
    Values,      \* what they store
    MaxTimeout,  \* max_timeout of the output
    NoValue,
    NoThread

ASSUME TimedGpioAssumption ==
    /\ Core \notin Threads
    /\ NoThread \notin Threads \cup {Core}
    /\ Values \subseteq Int /\ 0 \in Values
    /\ NoValue \notin Int
    /\ MaxTimeout \in Nat

VARIABLES
    phase,       \* of probe and remove
    max_timeout,
    lock,        \* owner of the spinlock
    pc, value,   \* where a caller is in gpio_enable, and with what value
    pin,         \* the output of the driver's own pin is on
    strayed,     \* history: another pin has been driven
    timer,       \* "idle", "armed", or "running" its callback (external)
    left,        \* time left of an armed timer (external)
    last,        \* history: the value last applied to the pin
    oopsed       \* the kernel has oopsed

callVars == <<pc, value, lock>>
outVars == <<pin, strayed, last>>
hrtimerVars == <<timer, left>>
vars == <<phase, max_timeout, callVars, outVars, hrtimerVars, oopsed>>

Callers == Threads \cup {Core}

Init ==
    /\ phase = "none"
    /\ max_timeout = 0
    /\ lock = NoThread
    /\ pc = [c \in Callers |-> "idle"]
    /\ value = [c \in Callers |-> NoValue]
    /\ pin = FALSE
    /\ strayed = FALSE
    /\ timer = "idle"
    /\ left = 0
    /\ last = 0
    /\ oopsed = FALSE

Goto(c, to) == pc' = [pc EXCEPT ![c] = to]

-----------------------------------------------------------------------------
(* gpio_enable.                                                            *)

Enter(c, v) ==
    /\ pc[c] = "idle"
    /\ Goto(c, "lock")
    /\ value' = [value EXCEPT ![c] = v]

\* enable_store.  Until dev_set_drvdata the attribute leads to NULL.
EnableStore(t, v) ==
    /\ phase \in {"attr", "registered", "live", "disabling", "disabled"}
    /\ Enter(t, v)
    /\ oopsed' = (phase = "attr")
    /\ UNCHANGED <<phase, max_timeout, lock, outVars, hrtimerVars>>

EnableLock(c) ==
    /\ pc[c] = "lock"
    /\ lock = NoThread
    /\ lock' = c
    /\ Goto(c, "cancel")
    /\ UNCHANGED <<phase, max_timeout, value, outVars, hrtimerVars, oopsed>>

\* hrtimer_cancel waits for a running callback.
EnableCancel(c) ==
    /\ pc[c] = "cancel"
    /\ timer # "running"
    /\ timer' = "idle"
    /\ left' = 0
    /\ Goto(c, "set")
    /\ UNCHANGED <<phase, max_timeout, value, lock, outVars, oopsed>>

\* A plausible slip: a negative value counts as off.
EnableSetPositive(c) ==
    /\ pc[c] = "set"
    /\ IF phase = "registered"
       THEN strayed' = TRUE /\ UNCHANGED pin
       ELSE pin' = (value[c] > 0) /\ UNCHANGED strayed
    /\ last' = value[c]
    /\ Goto(c, "start")
    /\ UNCHANGED <<phase, max_timeout, value, lock, hrtimerVars, oopsed>>

\* gpio_direction_output; before probe has filled in the fields, on pin 0.
EnableSet(c) ==
    /\ pc[c] = "set"
    /\ IF phase = "registered"
       THEN strayed' = TRUE /\ UNCHANGED pin
       ELSE pin' = (value[c] # 0) /\ UNCHANGED strayed
    /\ last' = value[c]
    /\ Goto(c, "start")
    /\ UNCHANGED <<phase, max_timeout, value, lock, hrtimerVars, oopsed>>

Finish(c) ==
    /\ lock' = NoThread
    /\ Goto(c, "idle")
    /\ value' = [value EXCEPT ![c] = NoValue]
    /\ phase' = IF c = Core THEN "disabled" ELSE phase

\* A plausible slip: the timer is not started.
EnableStartNot(c) ==
    /\ pc[c] = "start"
    /\ Finish(c)
    /\ UNCHANGED <<max_timeout, outVars, hrtimerVars, oopsed>>

EnableStart(c) ==
    /\ pc[c] = "start"
    /\ IF value[c] > 0
       THEN /\ timer' = "armed"
            /\ left' = IF value[c] > max_timeout THEN max_timeout ELSE value[c]
       ELSE UNCHANGED hrtimerVars
    /\ Finish(c)
    /\ UNCHANGED <<max_timeout, outVars, oopsed>>

Enable(c) == EnableLock(c) \/ EnableCancel(c) \/ EnableSet(c) \/ EnableStart(c)

-----------------------------------------------------------------------------
(* The timer.  Its memory is freed by remove.                              *)

Tick ==
    /\ timer = "armed"
    /\ left > 0
    /\ left' = left - 1
    /\ UNCHANGED <<phase, max_timeout, callVars, outVars, timer, oopsed>>

Expire ==
    /\ timer = "armed"
    /\ left = 0
    /\ timer' = "running"
    /\ oopsed' = (phase = "gone")
    /\ UNCHANGED <<phase, max_timeout, callVars, outVars, left>>

\* A plausible slip: HRTIMER_RESTART, with the pin left alone.
TimerFuncRestart ==
    /\ timer = "running"
    /\ timer' = "armed"
    /\ UNCHANGED <<phase, max_timeout, callVars, outVars, left, oopsed>>

\* gpio_timer_func.
TimerFunc ==
    /\ timer = "running"
    /\ timer' = "idle"
    /\ IF phase = "registered"
       THEN strayed' = TRUE /\ UNCHANGED pin
       ELSE pin' = FALSE /\ UNCHANGED strayed
    /\ UNCHANGED <<phase, max_timeout, callVars, left, last, oopsed>>

-----------------------------------------------------------------------------
(* timed_gpio_probe and timed_gpio_remove, for one output.                 *)

\* timed_output_dev_register: device_create_file, then dev_set_drvdata.
AttrVisible ==
    /\ phase = "none"
    /\ phase' = "attr"
    /\ UNCHANGED <<max_timeout, callVars, outVars, hrtimerVars, oopsed>>

SetDrvdata ==
    /\ phase = "attr"
    /\ phase' = "registered"
    /\ UNCHANGED <<max_timeout, callVars, outVars, hrtimerVars, oopsed>>

\* The fields are set after the registration, and the pin is switched off
\* without the lock.
ProbeDone ==
    /\ phase = "registered"
    /\ phase' = "live"
    /\ max_timeout' = MaxTimeout
    /\ pin' = FALSE
    /\ UNCHANGED <<callVars, strayed, last, hrtimerVars, oopsed>>

\* timed_output_dev_unregister begins with enable(0) ...
Unregister ==
    /\ phase = "live"
    /\ phase' = "disabling"
    /\ Enter(Core, 0)
    /\ UNCHANGED <<max_timeout, lock, outVars, hrtimerVars, oopsed>>

\* ... then removes the attribute, which waits for the stores in progress;
\* kfree follows.
RemoveFile ==
    /\ phase = "disabled"
    /\ \A t \in Threads : pc[t] = "idle"
    /\ phase' = "gone"
    /\ UNCHANGED <<max_timeout, callVars, outVars, hrtimerVars, oopsed>>

Driver == AttrVisible \/ SetDrvdata \/ ProbeDone \/ Unregister \/ RemoveFile

Next ==
    /\ ~oopsed
    /\ \/ Driver
       \/ Tick \/ Expire \/ TimerFunc
       \/ \E c \in Callers : Enable(c)
       \/ \E t \in Threads, v \in Values : EnableStore(t, v)

Spec == Init /\ [][Next]_vars

\* Time passes, the timer softirq runs, and a caller inside gpio_enable is
\* scheduled; nobody has to store.
Fairness ==
    /\ WF_vars(Next /\ (Tick \/ Expire \/ TimerFunc))
    /\ \A c \in Callers : WF_vars(Next /\ Enable(c))

FairSpec == Spec /\ Fairness

-----------------------------------------------------------------------------
(* Properties.                                                             *)

TypeOK ==
    /\ phase \in {"none", "attr", "registered", "live", "disabling",
                  "disabled", "gone"}
    /\ max_timeout \in {0, MaxTimeout}
    /\ lock \in Callers \cup {NoThread}
    /\ pc \in [Callers -> {"idle", "lock", "cancel", "set", "start"}]
    /\ value \in [Callers -> Values \cup {NoValue}]
    /\ pin \in BOOLEAN /\ strayed \in BOOLEAN /\ oopsed \in BOOLEAN
    /\ timer \in {"idle", "armed", "running"}
    /\ left \in 0 .. MaxTimeout
    /\ last \in Values

\* The callers that have the spinlock are the one that owns it.
LockInv ==
    \A c \in Callers : pc[c] \in {"cancel", "set", "start"} <=> lock = c

\* A caller has a value exactly while it is in gpio_enable.
CallInv == \A c \in Callers : pc[c] = "idle" <=> value[c] = NoValue

\* Between hrtimer_cancel and hrtimer_start no timer can fire, and what is
\* armed belongs to a positive value.
TimerInv ==
    /\ \A c \in Callers : pc[c] \in {"set", "start"} => timer = "idle"
    /\ timer # "idle" => last > 0
    /\ \A c \in Callers : pc[c] = "start" => last = value[c]

\* The output is never left on by accident: when nobody is in gpio_enable, a
\* pin that is on has a timer that will switch it off, or was asked to stay
\* on by a negative value.
OnIsTimed ==
    pin /\ lock = NoThread => timer # "idle" \/ last < 0

\* A pin that is on was switched on by gpio_enable, after probe had filled in
\* the fields, with a value other than 0.
PinInv == pin => last # 0 /\ phase \notin {"none", "attr", "registered"}

\* Nobody gets into gpio_enable before the attribute leads to the output.
EarlyInv ==
    phase \in {"none", "attr"} => oopsed \/ \A c \in Callers : pc[c] = "idle"

\* Remove is the only caller besides the threads, and calls once.
CoreInv == pc[Core] # "idle" => phase = "disabling"

IInv ==
    /\ TypeOK /\ LockInv /\ CallInv /\ TimerInv
    /\ OnIsTimed /\ PinInv /\ EarlyInv /\ CoreInv

\* The service: a call takes effect at once where it sets the pin, and only a
\* positive value expires.
Service == INSTANCE TimedOutput WITH
    mode <- IF ~pin THEN "off" ELSE IF last > 0 THEN "timed" ELSE "held",
    asked <- [c \in Callers |->
                IF pc[c] \in {"lock", "cancel", "set"} THEN value[c]
                ELSE NoValue],
    ready <- phase \notin {"none", "attr", "registered"}

\* gpio_enable and the timer callback implement the service.
ServiceSpec == Service!Spec

\* A pulse ends: the pin does not stay on for ever after a positive value that
\* nobody replaces.
PulseEnds ==
    []<>(oopsed \/ ~pin \/ last < 0 \/ \E c \in Callers : pc[c] # "idle")

=============================================================================
