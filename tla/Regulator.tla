----------------------------- MODULE Regulator -----------------------------
(***************************************************************************)
(* The regulator example: regulator_service.c offers a supply, the client  *)
(* regulator_client.c takes it, switches it on and off while it loads, and *)
(* gives it back when it is removed.  The regulator core (external) counts *)
(* users and calls the service at the first and the last one; it hands out *)
(* a dummy supply when the named one is not there, or an error pointer.    *)
(***************************************************************************)
EXTENDS Naturals

CONSTANT MaxLost      \* bound: failed loads of the client

VARIABLES service,    \* "out" or "in"
          supply,     \* the supply is registered with the core
          is_enabled, \* the service's switch
          users,      \* the core's use count of the supply
          handles,    \* handles regulator_get gave out and did not get back
          client,     \* "out", "enable", "disable" or "in"
          digital,    \* the client's handle
          kept,       \* failed loads that kept their handle
          left_on,    \* failed loads that left the supply on
          oops

regulatorVars == <<service, supply, is_enabled, users, handles, client,
                   digital, kept, left_on, oops>>

RegulatorInit ==
    /\ service = "out" /\ supply = FALSE /\ is_enabled = FALSE
    /\ users = 0 /\ handles = 0
    /\ client = "out" /\ digital = "none" /\ kept = 0 /\ left_on = 0
    /\ oops = FALSE

Client == <<handles, client, digital, kept, left_on, oops>>

\* regulator_dummy_init: device and driver are registered, which probes the
\* driver and registers the supply; a failure is not reported, so that the
\* module is in without its supply.  There is no exit function.
regulator_dummy_init ==
    /\ service = "out"
    /\ service' = "in" /\ supply' \in BOOLEAN
    /\ UNCHANGED <<is_enabled, users, Client>>

\* regulator_get of the client.  Only a null handle counts as an error, and
\* the core returns none.
regulator_get ==
    /\ client = "out" /\ kept < MaxLost
    /\ \/ /\ digital' = IF supply THEN "supply" ELSE "dummy"
          /\ handles' = handles + 1
       \/ digital' = "error" /\ UNCHANGED handles
    /\ client' = "enable"
    /\ UNCHANGED <<service, supply, is_enabled, users, kept, left_on, oops>>

\* The probe fails: the load fails with it, and the handle is not returned.
ProbeFails == /\ client' = "out" /\ digital' = "none"
              /\ kept' = kept + 1

\* regulator_enable: an error pointer is followed; the core calls
\* ab3100_enable_regulator for the first user.
regulator_enable ==
    /\ client = "enable"
    /\ \/ /\ digital = "error" /\ oops' = TRUE /\ client' = "out"
          /\ UNCHANGED <<digital, kept, users, is_enabled>>
       \/ /\ digital # "error" /\ client' = "disable"
          /\ IF digital = "supply" THEN users' = users + 1 /\ is_enabled' = TRUE
                ELSE UNCHANGED <<users, is_enabled>>
          /\ UNCHANGED <<digital, kept, oops>>
       \/ /\ digital # "error" /\ ProbeFails
          /\ UNCHANGED <<users, is_enabled, oops>>
    /\ UNCHANGED <<service, supply, handles, left_on>>

\* A plausible slip: the service is called for every user that goes.
regulator_disable_each ==
    /\ client = "disable"
    /\ \/ /\ client' = "in"
          /\ IF digital = "supply" THEN users' = users - 1 /\ is_enabled' = FALSE
                ELSE UNCHANGED <<users, is_enabled>>
          /\ UNCHANGED <<digital, kept, left_on>>
       \/ /\ ProbeFails /\ UNCHANGED <<users, is_enabled>>
          /\ left_on' = left_on + (IF digital = "supply" THEN 1 ELSE 0)
    /\ UNCHANGED <<service, supply, handles, oops>>

\* regulator_disable: the core calls ab3100_disable_regulator for the last.
regulator_disable ==
    /\ client = "disable"
    /\ \/ /\ client' = "in"
          /\ IF digital = "supply"
                THEN users' = users - 1 /\ is_enabled' = (users > 1)
                ELSE UNCHANGED <<users, is_enabled>>
          /\ UNCHANGED <<digital, kept, left_on>>
       \/ /\ ProbeFails /\ UNCHANGED <<users, is_enabled>>
          /\ left_on' = left_on + (IF digital = "supply" THEN 1 ELSE 0)
    /\ UNCHANGED <<service, supply, handles, oops>>

\* qfp_fuse_remove.
qfp_fuse_remove ==
    /\ client = "in"
    /\ client' = "out" /\ digital' = "none" /\ handles' = handles - 1
    /\ UNCHANGED <<service, supply, is_enabled, users, kept, left_on, oops>>

RegulatorNext ==
    /\ oops = FALSE
    /\ \/ regulator_dummy_init \/ regulator_get \/ regulator_enable
       \/ regulator_disable \/ qfp_fuse_remove

RegulatorSpec == RegulatorInit /\ [][RegulatorNext]_regulatorVars

-----------------------------------------------------------------------------
\* The service's switch follows the users over every sequence of loads,
\* failed loads and removals, and no user remains but those of loads whose
\* regulator_disable failed (qfp_fuse_probe, ab3100_enable_regulator,
\* ab3100_disable_regulator).
SwitchFollowsUsers ==
    /\ is_enabled <=> users > 0
    /\ users = left_on
               + (IF client = "disable" /\ digital = "supply" THEN 1 ELSE 0)
=============================================================================
