---------------------------- MODULE TimedOutput ----------------------------
(***************************************************************************)
(* The service of a timed output (test_timedgpio/timed_output.h), with the *)
(* reading that gpio_enable gives to a negative value: 0 switches the      *)
(* output off, a positive value switches it on for a time, a negative one  *)
(* until further notice.  Each call takes effect in one step between its   *)
(* start and its return; apart from that only the end of the time changes  *)
(* the output.                                                             *)
(***************************************************************************)
EXTENDS Integers

CONSTANTS Callers, Values, NoValue

VARIABLES
    mode,        \* "off", "timed" or "held"
    asked,       \* asked[c]: the value of the call of c, until it takes effect
    ready        \* the driver's probe has finished with this output

vars == <<mode, asked, ready>>

ModeOf(v) == IF v = 0 THEN "off" ELSE IF v > 0 THEN "timed" ELSE "held"

Init ==
    /\ mode = "off"
    /\ asked = [c \in Callers |-> NoValue]
    /\ ready = FALSE

Call(c, v) ==
    /\ asked[c] = NoValue
    /\ asked' = [asked EXCEPT ![c] = v]
    /\ UNCHANGED <<mode, ready>>

TakeEffect(c) ==
    /\ asked[c] # NoValue
    /\ mode' = ModeOf(asked[c])
    /\ asked' = [asked EXCEPT ![c] = NoValue]
    /\ UNCHANGED ready

\* A call made before the output is ready may miss it.
Miss(c) ==
    /\ ~ready
    /\ asked[c] # NoValue
    /\ asked' = [asked EXCEPT ![c] = NoValue]
    /\ UNCHANGED <<mode, ready>>

Expire ==
    /\ mode = "timed"
    /\ mode' = "off"
    /\ UNCHANGED <<asked, ready>>

\* The end of the probe switches the output off, once.
Ready ==
    /\ ~ready
    /\ ready' = TRUE
    /\ mode' = "off"
    /\ UNCHANGED asked

Next ==
    \/ \E c \in Callers :
         TakeEffect(c) \/ Miss(c) \/ \E v \in Values : Call(c, v)
    \/ Expire
    \/ Ready

Spec == Init /\ [][Next]_vars
=============================================================================
