----------------------------- MODULE TimedProbe -----------------------------
(***************************************************************************)
(* Probe and remove of the timed GPIO driver over all outputs of its       *)
(* platform data (timed_gpio.c, timed_gpiodev.c), with the registration of *)
(* each output in timed_output.c.  Any step of any output may fail; the    *)
(* outputs before it are then taken back one by one.                       *)
(***************************************************************************)
EXTENDS Naturals, FiniteSets

CONSTANTS Outputs,    \* number of entries of the platform data
          Tables,     \* the tables of names that are tried
          MaxCount    \* bound: registrations (device_count never falls)

\* The platform data lists a number of outputs.
ProbeAssumption == Outputs \in Nat

VARIABLES names,      \* the names of the outputs
          class,      \* timed_output_class: "null", "ok" or "error"
          count,      \* device_count
          devices,    \* devices of the class: name and number
          gpios,      \* requested pins, one for each output
          index,      \* the number stored in each output, 0 before
          stage,      \* "out", "probing", "undoing", "in"
          nth,        \* the loop's counter
          fault

probeVars == <<names, class, count, devices, gpios, index, stage, nth, fault>>

Ids == 1 .. Outputs

ProbeInit ==
    /\ names \in Tables
    \* timed_output_init has made the class, has failed, or runs later.
    /\ class \in {"ok", "error", "null"} /\ count = 0 /\ devices = {}
    /\ gpios = {} /\ index = [o \in Ids |-> 0]
    /\ stage = "out" /\ nth = 0 /\ fault = FALSE

-----------------------------------------------------------------------------
\* The device is registered with the platform bus and the driver probed.
timed_gpio_probe ==
    /\ stage = "out" /\ count < MaxCount
    /\ stage' = "probing" /\ nth' = 1
    /\ index' = [o \in Ids |-> 0]
    /\ UNCHANGED <<names, class, count, devices, gpios, fault>>

\* goto err_out.
err_out == stage' = "undoing" /\ nth' = nth - 1

\* gpio_request fails.
gpio_request_fails ==
    /\ stage = "probing" /\ nth <= Outputs
    /\ err_out
    /\ UNCHANGED <<names, class, count, devices, gpios, index, fault>>

\* create_timed_output_class fails; the error pointer stays in
\* timed_output_class, where the next call takes it for a class.
class_create_fails ==
    /\ stage = "probing" /\ nth <= Outputs /\ class = "null"
    /\ class' = "error" /\ err_out
    /\ UNCHANGED <<names, count, devices, gpios, index, fault>>

\* timed_output_dev_register with a class: device_create refuses a second
\* device of a name, and it or device_create_file may fail; the number is
\* used up and the pin given back.
register_fails ==
    /\ stage = "probing" /\ nth <= Outputs /\ class # "error"
    /\ class' = "ok" /\ count' = count + 1
    /\ index' = [index EXCEPT ![nth] = count + 1]
    /\ err_out
    /\ UNCHANGED <<names, devices, gpios, fault>>

\* The output is registered.
register_output ==
    /\ stage = "probing" /\ nth <= Outputs /\ class # "error"
    /\ \A d \in devices : d.name # names[nth]
    /\ class' = "ok" /\ count' = count + 1
    /\ index' = [index EXCEPT ![nth] = count + 1]
    /\ devices' = devices \cup {[name |-> names[nth], number |-> count + 1]}
    /\ gpios' = gpios \cup {nth}
    /\ nth' = nth + 1
    /\ UNCHANGED <<names, stage, fault>>

\* device_create follows the error pointer.
register_crashes ==
    /\ stage = "probing" /\ nth <= Outputs /\ class = "error"
    /\ fault' = TRUE
    /\ UNCHANGED <<names, class, count, devices, gpios, index, stage, nth>>

probe_ends ==
    /\ stage = "probing" /\ nth > Outputs
    /\ stage' = "in"
    /\ UNCHANGED <<names, class, count, devices, gpios, index, nth, fault>>

\* timed_output_dev_unregister: the device goes by its number.
ProbeUnregister(o) ==
    /\ devices' = {d \in devices : d.number # index[o]}
    /\ gpios' = gpios \ {o}

\* A plausible slip: the first output is forgotten.
undo_but_first ==
    /\ stage = "undoing"
    /\ IF nth >= 2
          THEN ProbeUnregister(nth) /\ nth' = nth - 1 /\ UNCHANGED stage
          ELSE stage' = "out" /\ UNCHANGED <<devices, gpios, nth>>
    /\ UNCHANGED <<names, class, count, index, fault>>

\* The loop behind err_out: from the output before the failing one down.
undo ==
    /\ stage = "undoing"
    /\ IF nth >= 1
          THEN ProbeUnregister(nth) /\ nth' = nth - 1 /\ UNCHANGED stage
          ELSE stage' = "out" /\ UNCHANGED <<devices, gpios, nth>>
    /\ UNCHANGED <<names, class, count, index, fault>>

\* timed_gpio_remove.
timed_gpio_remove ==
    /\ stage = "in"
    /\ stage' = "out"
    /\ devices' = {d \in devices : \A o \in Ids : d.number # index[o]}
    /\ gpios' = {}
    /\ UNCHANGED <<names, class, count, index, nth, fault>>

ProbeNext ==
    /\ fault = FALSE
    /\ \/ timed_gpio_probe \/ gpio_request_fails \/ class_create_fails
       \/ register_fails \/ register_output \/ register_crashes
       \/ probe_ends \/ undo \/ timed_gpio_remove

ProbeSpec == ProbeInit /\ [][ProbeNext]_probeVars

-----------------------------------------------------------------------------
\* A probe that failed leaves no pin requested and no device registered,
\* whichever output failed and how, and so does remove; one that succeeded
\* has them all (timed_gpio_probe, err_out, timed_gpio_remove).
AllOrNothing ==
    /\ stage = "out" => gpios = {} /\ devices = {}
    /\ stage = "in" => gpios = Ids /\ Cardinality(devices) = Outputs

\* Every output that was registered has exactly one device, under its own
\* name, by the number device_destroy will be given (tdev->index).
OwnDevice ==
    stage # "out" =>
        \A o \in gpios :
            {d \in devices : d.number = index[o]}
                = {[name |-> names[o], number |-> index[o]]}

\* A probe registers all outputs or none, each with its own device
\* (timed_gpio_probe, timed_gpio_remove).
ProbeSafe == AllOrNothing /\ OwnDevice
=============================================================================
