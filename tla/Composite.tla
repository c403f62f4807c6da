----------------------------- MODULE Composite -----------------------------
(***************************************************************************)
(* The composite gadget framework (test_gadget/composite.c): a gadget made *)
(* of configurations, each a list of functions.  Binding is single         *)
(* threaded; after it the host's control requests, the function drivers'   *)
(* late continuations and (de)activations, suspend, resume and disconnect  *)
(* arrive in any order.                                                    *)
(*                                                                         *)
(* External parts, modelled from how composite.c uses them: the controller *)
(* driver (pullup, bus, speed), the function drivers (the results of bind  *)
(* and set_alt, and a pending continuation for each delayed status), and a *)
(* gadget bind that adds the configurations of Plan in order and returns   *)
(* the first error, as does each configuration's bind with its functions.  *)
(***************************************************************************)
EXTENDS Naturals, Sequences, FiniteSets, Functions

CONSTANTS
    Configs,        \* usb_configuration objects
    Funcs,          \* usb_function objects
    Plan,           \* the configurations the gadget bind adds, in order
    FunctionsOf,    \* [Configs -> Seq(Funcs)], what each config bind adds
    Value,          \* [Configs -> Nat], bConfigurationValue
    Power,          \* [Configs -> Nat], bMaxPower
    Interfaces,     \* [Funcs -> Nat], the interface ids a function allocates
    Endpoints,      \* [Funcs -> Nat], the endpoints a function claims
    Strings,        \* [Funcs -> Nat], the most string ids a function allocates
    Descriptors,    \* [Funcs -> SUBSET Speeds], the speeds with a table
    DelayFuncs,     \* functions whose set_alt may delay the status stage
    HoldFuncs,      \* functions that deactivate the gadget
    MaxInterfaces,  \* MAX_CONFIG_INTERFACES
    MaxStringId,    \* 254
    NumEndpoints,   \* endpoints of the controller
    MaxOwed,        \* bound on one function's pending continuations
    Smp             \* a continuation can run while composite_setup does

NONE == "NONE"
Speeds == {"full", "high"}
UnitLoad == 100
VbusDraw == 2           \* CONFIG_USB_GADGET_VBUS_DRAW, the default of 2 mA
SuspendDraw == 2

\* A usb_function has one list node and so is in one configuration, once.
ASSUME CompositeConstants ==
    /\ Plan \in Seq(Configs) /\ FunctionsOf \in [Configs -> Seq(Funcs)]
    /\ \A c, d \in Configs :
          \A i \in DOMAIN FunctionsOf[c], j \in DOMAIN FunctionsOf[d] :
              FunctionsOf[c][i] = FunctionsOf[d][j] => c = d /\ i = j
    /\ Value \in [Configs -> Nat \ {0}] /\ Power \in [Configs -> Nat]
    /\ {Interfaces, Endpoints, Strings} \subseteq [Funcs -> Nat]
    /\ Descriptors \in [Funcs -> SUBSET Speeds]
    /\ {MaxInterfaces, MaxStringId, NumEndpoints, MaxOwed} \subseteq Nat
    /\ NONE \notin Configs \cup Funcs
    /\ Smp \in BOOLEAN

VARIABLES
    phase,          \* idle, binding, confbind (a config's bind runs), ready
    configs,        \* cdev->configs
    functions,      \* config->functions
    interface,      \* config->interface[], its length is next_interface_id
    speeds,         \* config->fullspeed, config->highspeed
    claimed,        \* endpoints with ep->driver_data set
    eps,            \* the endpoints a function's descriptors name
    next_string_id,
    strid,          \* the string ids each function holds
    override,       \* manufacturer_override, 0 when it has none
    bound,          \* functions whose bind has not been undone
    config,         \* cdev->config
    endpoints,      \* f->endpoints
    enabled,        \* functions with an altsetting selected
    delayed_status,
    owed,           \* continuations a function has still to make
    ctrl,           \* the control transfer on ep0: idle, busy, waiting
    setif,          \* the function whose SET_INTERFACE is being counted
    warned,         \* setup_continue reported an unexpected call
    deactivations,
    held,           \* functions that have deactivated the gadget
    pullup,         \* the controller's data line pullup
    bus,            \* off, active, asleep
    speed,          \* gadget->speed
    suspended,      \* cdev->suspended
    draw,           \* the last usb_gadget_vbus_draw
    oops            \* none, or the null pointer the kernel followed

bindVars == <<configs, functions, interface, speeds, claimed, eps,
              next_string_id, strid, override, bound>>
ctrlVars == <<delayed_status, owed, ctrl, setif, warned>>
runVars == <<config, endpoints, enabled>>
holdVars == <<deactivations, held, pullup>>
busVars == <<bus, speed, suspended, draw>>
vars == <<phase, bindVars, ctrlVars, runVars, holdVars, busVars, oops>>

TypeOK ==
    /\ phase \in {"idle", "binding", "confbind", "ready"}
    /\ configs \in Seq(Configs) /\ Len(configs) <= Len(Plan)
    /\ functions \in [Configs -> Seq(Funcs)]
    /\ interface \in [Configs -> Seq(Funcs)]
    /\ \A c \in Configs : Len(interface[c]) <= MaxInterfaces
    /\ speeds \in [Configs -> SUBSET Speeds]
    /\ claimed \subseteq 1..NumEndpoints
    /\ eps \in [Funcs -> SUBSET (1..NumEndpoints)]
    /\ endpoints \in [Funcs -> SUBSET (1..NumEndpoints)]
    /\ strid \in [Funcs -> SUBSET (1..MaxStringId)]
    /\ {next_string_id, override} \subseteq 0..MaxStringId
    /\ bound \subseteq Funcs /\ enabled \subseteq Funcs /\ held \subseteq HoldFuncs
    /\ config \in Configs \cup {NONE} /\ setif \in Funcs \cup {NONE}
    /\ delayed_status \in Nat /\ owed \in [Funcs -> 0..MaxOwed]
    /\ ctrl \in {"idle", "busy", "waiting"}
    /\ deactivations \in Nat
    /\ {pullup, suspended, warned} \subseteq BOOLEAN
    /\ bus \in {"off", "active", "asleep"} /\ speed \in Speeds
    /\ draw \in Nat /\ oops \in {NONE, "nodesc", "noconfig"}

Init ==
    /\ phase = "idle" /\ configs = <<>>
    /\ functions = [c \in Configs |-> <<>>]
    /\ interface = [c \in Configs |-> <<>>]
    /\ speeds = [c \in Configs |-> {}]
    /\ claimed = {} /\ eps = [f \in Funcs |-> {}]
    /\ next_string_id = 0 /\ strid = [f \in Funcs |-> {}] /\ override = 0
    /\ bound = {} /\ config = NONE
    /\ endpoints = [f \in Funcs |-> {}] /\ enabled = {}
    /\ delayed_status = 0 /\ owed = [f \in Funcs |-> 0]
    /\ ctrl = "idle" /\ setif = NONE /\ warned = FALSE
    /\ deactivations = 0 /\ held = {} /\ pullup = TRUE
    /\ bus = "off" /\ speed = "full" /\ suspended = FALSE /\ draw = UnitLoad
    /\ oops = NONE

-----------------------------------------------------------------------------
(* Allocating identifiers.  Each returns the new next_string_id, which is  *)
(* unchanged exactly when the call fails with -ENODEV.                     *)

\* usb_string_id: one id.
usb_string_id(next) == IF next < MaxStringId THEN next + 1 ELSE next

\* A plausible slip: the limit is not tested.
usb_string_ids_n_unchecked(next, n) == next + n

\* usb_string_ids_n: n consecutive ids, or none.
usb_string_ids_n(next, n) == IF next + n > MaxStringId THEN next ELSE next + n

\* usb_string_ids_tab: one id per entry of a string table.  Entries numbered
\* before the ids run out keep their number, but next_string_id stays.
usb_string_ids_tab(next, n) ==
    LET given == CHOOSE k \in 0..n : /\ k = n \/ next + k >= MaxStringId
                                     /\ \A j \in 0..(k - 1) : next + j < MaxStringId
    IN  IF given = n THEN next + n ELSE next

\* The three ways a function's bind can take n string ids.
StringIds(n) ==
    {usb_string_ids_tab(next_string_id, n), usb_string_ids_n(next_string_id, n)}
        \cup (IF n = 1 THEN {usb_string_id(next_string_id)} ELSE {})

\* usb_interface_id, called once for each of the function's interfaces.
usb_interface_id(c, f) ==
    interface[c] \o [i \in 1..Interfaces[f] |-> f]

\* usb_ep_autoconfig picks the first unclaimed endpoints of the list.
FreeEndpoints(n) ==
    {e \in 1..NumEndpoints \ claimed :
        Cardinality({d \in 1..NumEndpoints \ claimed : d < e}) < n}

-----------------------------------------------------------------------------
(* Binding.                                                                *)

\* The configuration usb_add_config has put at the end of the list.
Newest == configs[Len(configs)]

\* The list s without its entry at place i.
list_del(s, i) == SubSeq(s, 1, i - 1) \o SubSeq(s, i + 1, Len(s))

\* composite_unbind: every listed configuration and its functions are
\* unbound, the device is freed, and `composite' is cleared.
composite_unbind(listed) ==
    /\ bound' = bound \ UNION {Range(functions[c]) : c \in listed}
    /\ functions' = [c \in Configs |-> IF c \in listed THEN <<>> ELSE functions[c]]
    /\ configs' = <<>> /\ phase' = "idle"
    /\ deactivations' = 0 /\ held' = {} /\ pullup' = TRUE
    /\ owed' = [f \in Funcs |-> 0] /\ ctrl' = "idle" /\ setif' = NONE
    /\ UNCHANGED <<interface, speeds, eps, next_string_id, strid, override,
                   delayed_status, warned, runVars, busVars, oops>>

\* usb_composite_probe and the first part of composite_bind: a new zeroed
\* device.  A failed allocation leaves no trace (composite_unbind).
usb_composite_probe ==
    /\ phase = "idle"
    /\ phase' = "binding" /\ configs' = <<>>
    /\ next_string_id' = 0 /\ override' = 0 /\ strid' = [f \in Funcs |-> {}]
    /\ claimed' = {} /\ config' = NONE
    /\ endpoints' = [f \in Funcs |-> {}] /\ enabled' = {}
    /\ delayed_status' = 0 /\ warned' = FALSE /\ suspended' = FALSE
    /\ UNCHANGED <<functions, interface, speeds, eps, bound, owed, ctrl, setif,
                   holdVars, bus, speed, draw, oops>>

\* usb_add_config up to the call of bind.  A value that is in use is refused
\* (also when a configuration is added twice), and the gadget's bind then
\* fails as a whole.
usb_add_config(c) ==
    /\ phase = "binding" /\ Len(configs) < Len(Plan)
    /\ c \in {Plan[Len(configs) + 1]} \cup Range(configs)
    /\ IF \E d \in Range(configs) : Value[d] = Value[c]
       THEN composite_unbind(Range(configs)) /\ claimed' = claimed
       ELSE /\ phase' = "confbind" /\ configs' = Append(configs, c)
            /\ functions' = [functions EXCEPT ![c] = <<>>]
            /\ interface' = [interface EXCEPT ![c] = <<>>]
            /\ UNCHANGED <<speeds, claimed, eps, next_string_id, strid, override,
                           bound, ctrlVars, runVars, holdVars, busVars, oops>>

\* usb_add_function with a bind that succeeds and takes n string ids.
usb_add_function(n) ==
    /\ phase = "confbind"
    /\ LET c == Newest
           done == Len(functions[c])
       IN  /\ done < Len(FunctionsOf[c])
           /\ LET f == FunctionsOf[c][done + 1]
                  next == next_string_id + n
              IN  /\ n \in 1..Strings[f] /\ next \in StringIds(n)
                  /\ Len(interface[c]) + Interfaces[f] <= MaxInterfaces
                  /\ Cardinality(FreeEndpoints(Endpoints[f])) = Endpoints[f]
                  /\ functions' = [functions EXCEPT ![c] = Append(@, f)]
                  /\ interface' = [interface EXCEPT ![c] = usb_interface_id(c, f)]
                  /\ eps' = [eps EXCEPT ![f] = FreeEndpoints(Endpoints[f])]
                  /\ claimed' = claimed \cup FreeEndpoints(Endpoints[f])
                  /\ strid' = [strid EXCEPT ![f] = (next_string_id + 1)..next]
                  /\ next_string_id' = next
                  /\ bound' = bound \cup {f}
                  /\ speeds' = [speeds EXCEPT
                        ![c] = @ \cup Descriptors[f]]
    /\ UNCHANGED <<phase, configs, override, ctrlVars, runVars, holdVars,
                   busVars, oops>>

\* usb_add_function with a failing bind: the function leaves the list, the
\* configuration's bind fails, usb_add_config drops the configuration but
\* not the functions bound before, and composite_bind unbinds the rest.
bind_fails ==
    /\ phase = "confbind"
    /\ LET c == Newest
       IN  /\ Len(functions[c]) < Len(FunctionsOf[c])
           /\ composite_unbind(Range(configs) \ {c})
    /\ claimed' = {}

\* The configuration's bind returned zero: usb_ep_autoconfig_reset.
config_bound ==
    /\ phase = "confbind"
    /\ Len(functions[Newest]) = Len(FunctionsOf[Newest])
    /\ phase' = "binding" /\ claimed' = {}
    /\ UNCHANGED <<configs, functions, interface, speeds, eps, next_string_id,
                   strid, override, bound, ctrlVars, runVars, holdVars,
                   busVars, oops>>

\* A plausible slip: the last id given out is used again.
override_id_reuse(next) == next

\* override_id gives the manufacturer string an id if one is left.
override_id(next) == IF usb_string_id(next) = next THEN 0 ELSE usb_string_id(next)

\* The rest of composite_bind; device_create_file may fail.
composite_bind ==
    /\ phase = "binding" /\ Len(configs) = Len(Plan)
    /\ \/ /\ phase' = "ready"
          /\ override' = override_id(next_string_id)
          /\ next_string_id' = usb_string_id(next_string_id)
          /\ UNCHANGED <<configs, functions, interface, speeds, claimed, eps,
                         strid, bound, ctrlVars, runVars, holdVars, busVars, oops>>
       \/ composite_unbind(Range(configs)) /\ claimed' = claimed

\* usb_composite_unregister: the controller has delivered the disconnect.
usb_composite_unregister ==
    /\ phase = "ready" /\ bus = "off" /\ setif = NONE
    /\ composite_unbind(Range(configs)) /\ claimed' = claimed

-----------------------------------------------------------------------------
(* Selecting a configuration.                                              *)

\* reset_config: disable every function of the current configuration and
\* clear its endpoints.  delayed_status is left as it is.
reset_config(fs) ==
    /\ endpoints' = [f \in Funcs |-> IF f \in fs THEN {} ELSE endpoints[f]]
    /\ enabled' = enabled \ fs
    /\ config' = NONE

Listed(c) == IF c = NONE THEN {} ELSE Range(functions[c])

\* vbus current of a configuration, as set_config and composite_resume ask.
PowerOf(c) == IF Power[c] > 0 THEN 2 * Power[c] ELSE VbusDraw

\* The reply of a request whose handler returned without an error: a zero
\* length status stage, unless some status is still delayed.
Reply == ctrl' = IF delayed_status' > 0 THEN "waiting" ELSE "idle"

\* SET_CONFIGURATION to 0 or to a value no configuration has.
set_config_none(n) ==
    /\ phase = "ready" /\ bus = "active" /\ ctrl = "idle"
    /\ \A c \in Range(configs) : Value[c] # n
    /\ reset_config(Listed(config)) /\ draw' = UnitLoad
    /\ UNCHANGED <<delayed_status, owed>>
    /\ IF n = 0 THEN Reply ELSE ctrl' = "idle"
    /\ UNCHANGED <<phase, bindVars, setif, warned, holdVars, bus, speed,
                   suspended, oops>>

\* SET_CONFIGURATION of a known value.  set_alt is called for the interfaces
\* in order; the ones in late ask for a delayed status, the one at fail (if
\* any) returns an error, and the interfaces behind it are not reached.
set_config(c, late, fail) ==
    LET n == Len(interface[c])
        reached == IF fail = 0 THEN n ELSE fail
        walked == {interface[c][i] : i \in 1..reached}
        debt == [f \in Funcs |-> owed[f] + Cardinality({i \in late : interface[c][i] = f})]
    IN  /\ phase = "ready" /\ bus = "active" /\ ctrl = "idle"
        /\ c \in Range(configs)
        /\ fail \in 0..n /\ late \subseteq {i \in 1..reached : i # fail}
        /\ \A i \in late : interface[c][i] \in DelayFuncs
        /\ debt \in [Funcs -> 0..MaxOwed]
        /\ \A f \in walked : speed \in Descriptors[f]
        /\ IF fail = 0
           THEN /\ config' = c
                /\ endpoints' = [f \in Funcs |->
                       IF f \in walked THEN eps[f]
                       ELSE IF f \in Listed(config) THEN {} ELSE endpoints[f]]
                /\ enabled' = (enabled \ Listed(config)) \cup walked
                /\ draw' = PowerOf(c)
           ELSE reset_config(Listed(config) \cup Listed(c)) /\ draw' = UnitLoad
        /\ delayed_status' = delayed_status + Cardinality(late)
        /\ owed' = debt
        /\ IF fail = 0 THEN Reply ELSE ctrl' = "idle"
        /\ UNCHANGED <<phase, bindVars, setif, warned, holdVars, bus, speed,
                       suspended, oops>>

\* A function without a descriptor table for the speed: the null table is
\* walked.
set_config_oops(c) ==
    /\ phase = "ready" /\ bus = "active" /\ ctrl = "idle"
    /\ c \in Range(configs)
    /\ \E f \in Range(interface[c]) : speed \notin Descriptors[f]
    /\ oops' = "nodesc"
    /\ UNCHANGED <<phase, bindVars, ctrlVars, runVars, holdVars, busVars>>

\* SET_INTERFACE: the function's set_alt has returned ...
set_interface(i, result) ==
    /\ phase = "ready" /\ bus = "active" /\ ctrl = "idle" /\ setif = NONE
    /\ config # NONE /\ i \in 1..Len(interface[config])
    /\ LET f == interface[config][i]
       IN  CASE result = "delayed" ->
                  /\ f \in DelayFuncs /\ owed[f] < MaxOwed
                  /\ owed' = [owed EXCEPT ![f] = @ + 1]
                  /\ setif' = f /\ ctrl' = "busy"
             [] result = "ok" -> ctrl' = "idle" /\ UNCHANGED <<owed, setif>>
             [] result = "error" -> ctrl' = "idle" /\ UNCHANGED <<owed, setif>>
    /\ UNCHANGED <<phase, bindVars, delayed_status, warned, runVars, holdVars,
                   busVars, oops>>

\* A plausible slip: the delayed status of a SET_INTERFACE is not counted.
set_interface_uncounted ==
    /\ setif # NONE
    /\ setif' = NONE /\ ctrl' = "waiting"
    /\ UNCHANGED <<phase, bindVars, owed, delayed_status, warned, runVars, holdVars, busVars, oops>>

\* ... and composite_setup counts the delayed status, without the lock.
set_interface_count ==
    /\ setif # NONE
    /\ delayed_status' = delayed_status + 1
    /\ setif' = NONE /\ ctrl' = "waiting"
    /\ UNCHANGED <<phase, bindVars, owed, warned, runVars, holdVars, busVars, oops>>

\* A plausible slip: the call is put off while the bus is suspended.
setup_continue_awake(f) ==
    /\ phase = "ready" /\ owed[f] > 0 /\ setif = NONE /\ bus # "asleep"
    /\ owed' = [owed EXCEPT ![f] = @ - 1]
    /\ delayed_status' = IF delayed_status = 0 THEN 0 ELSE delayed_status - 1
    /\ ctrl' = IF delayed_status = 1 THEN "idle" ELSE ctrl
    /\ UNCHANGED <<phase, bindVars, setif, warned, runVars, holdVars, busVars, oops>>

\* usb_composite_setup_continue, called by a function for a delayed status.
\* With one processor it cannot run inside composite_setup.
usb_composite_setup_continue(f) ==
    /\ phase = "ready" /\ owed[f] > 0 /\ (setif = NONE \/ Smp)
    /\ owed' = [owed EXCEPT ![f] = @ - 1]
    /\ IF delayed_status = 0
       THEN warned' = TRUE /\ UNCHANGED <<delayed_status, ctrl>>
       ELSE /\ delayed_status' = delayed_status - 1
            /\ ctrl' = IF delayed_status = 1 /\ ctrl = "waiting" THEN "idle" ELSE ctrl
            /\ UNCHANGED warned
    /\ UNCHANGED <<phase, bindVars, setif, runVars, holdVars, busVars, oops>>

\* A request to an endpoint while no configuration is selected: the list of
\* functions of a null configuration is walked.
endpoint_request_oops ==
    /\ phase = "ready" /\ bus = "active" /\ ctrl = "idle" /\ config = NONE
    /\ oops' = "noconfig"
    /\ UNCHANGED <<phase, bindVars, ctrlVars, runVars, holdVars, busVars>>

-----------------------------------------------------------------------------
(* Bus events and activation.                                              *)

\* External: the host sees the pullup and resets the bus at some speed.
attach(s) ==
    /\ phase = "ready" /\ bus = "off" /\ pullup
    /\ bus' = "active" /\ speed' = s
    /\ UNCHANGED <<phase, bindVars, ctrlVars, runVars, holdVars, suspended,
                   draw, oops>>

composite_disconnect ==
    /\ phase = "ready" /\ bus # "off" /\ setif = NONE
    /\ reset_config(Listed(config))
    /\ bus' = "off" /\ ctrl' = "idle"
    /\ UNCHANGED <<phase, bindVars, delayed_status, owed, setif, warned, holdVars,
                   speed, suspended, draw, oops>>

composite_suspend ==
    /\ phase = "ready" /\ bus = "active" /\ setif = NONE
    /\ bus' = "asleep" /\ suspended' = TRUE /\ draw' = SuspendDraw
    /\ UNCHANGED <<phase, bindVars, ctrlVars, runVars, holdVars, speed, oops>>

\* A plausible slip: the configuration's current is not asked for again.
composite_resume_low ==
    /\ phase = "ready" /\ bus = "asleep"
    /\ bus' = "active" /\ suspended' = FALSE
    /\ UNCHANGED <<phase, bindVars, ctrlVars, runVars, holdVars, speed, draw, oops>>

composite_resume ==
    /\ phase = "ready" /\ bus = "asleep"
    /\ bus' = "active" /\ suspended' = FALSE
    /\ draw' = IF config # NONE THEN PowerOf(config) ELSE draw
    /\ UNCHANGED <<phase, bindVars, ctrlVars, runVars, holdVars, speed, oops>>

\* usb_function_deactivate; usb_gadget_disconnect may fail.
usb_function_deactivate(f) ==
    /\ phase \in {"confbind", "ready"} /\ f \in bound \ held
    /\ \/ deactivations > 0 /\ pullup' = pullup
       \/ deactivations = 0 /\ pullup' = FALSE
    /\ deactivations' = deactivations + 1 /\ held' = held \cup {f}
    /\ UNCHANGED <<phase, bindVars, ctrlVars, runVars, busVars, oops>>

\* A plausible slip: the pullup returns with the first function that activates.
usb_function_activate_first(f) ==
    /\ phase \in {"confbind", "ready"} /\ f \in held \cap bound
    /\ deactivations > 0
    /\ deactivations' = deactivations - 1 /\ held' = held \ {f}
    /\ pullup' \in BOOLEAN
    /\ UNCHANGED <<phase, bindVars, ctrlVars, runVars, busVars, oops>>

\* usb_function_activate by a function that deactivated; usb_gadget_connect
\* may fail, and the count is then already down.
usb_function_activate(f) ==
    /\ phase \in {"confbind", "ready"} /\ f \in held \cap bound
    /\ deactivations > 0
    /\ deactivations' = deactivations - 1 /\ held' = held \ {f}
    /\ IF deactivations = 1 THEN pullup' \in BOOLEAN ELSE pullup' = pullup
    /\ UNCHANGED <<phase, bindVars, ctrlVars, runVars, busVars, oops>>

\* A plausible slip: the configuration is unlinked and its functions stay bound.
usb_remove_config_only(c) ==
    /\ phase = "ready" /\ setif = NONE
    /\ \E i \in DOMAIN configs : configs[i] = c /\ configs' = list_del(configs, i)
    /\ IF config = c THEN reset_config(Listed(c)) ELSE UNCHANGED runVars
    /\ UNCHANGED <<phase, functions, interface, speeds, claimed, eps, next_string_id,
                   strid, override, bound, ctrlVars, holdVars, busVars, oops>>

\* usb_remove_config.  A function's unbind leaves no continuation behind.
usb_remove_config(c) ==
    /\ phase = "ready" /\ setif = NONE
    /\ \E i \in DOMAIN configs : configs[i] = c /\ configs' = list_del(configs, i)
    /\ \A f \in Range(functions[c]) : owed[f] = 0
    /\ IF config = c THEN reset_config(Listed(c)) ELSE UNCHANGED runVars
    /\ bound' = bound \ Range(functions[c])
    /\ functions' = [functions EXCEPT ![c] = <<>>]
    /\ UNCHANGED <<phase, interface, speeds, claimed, eps, next_string_id,
                   strid, override, ctrlVars, holdVars, busVars, oops>>

Bind ==
    \/ usb_composite_probe \/ bind_fails
    \/ \E c \in Configs : usb_add_config(c)
    \/ \E n \in 1..MaxStringId : usb_add_function(n)
    \/ config_bound \/ composite_bind \/ usb_composite_unregister
    \/ \E c \in Configs : usb_remove_config(c)

Setup ==
    \/ \E n \in {0} \cup {Value[c] : c \in Configs} : set_config_none(n)
    \/ \E c \in Configs : \E fail \in 0..MaxInterfaces :
          \E late \in SUBSET (1..MaxInterfaces) : set_config(c, late, fail)
    \/ \E c \in Configs : set_config_oops(c)
    \/ \E i \in 1..MaxInterfaces, r \in {"ok", "error", "delayed"} : set_interface(i, r)
    \/ set_interface_count \/ endpoint_request_oops

Events ==
    \/ \E s \in Speeds : attach(s)
    \/ composite_disconnect \/ composite_suspend \/ composite_resume
    \/ \E f \in HoldFuncs : usb_function_deactivate(f) \/ usb_function_activate(f)

Continue == \E f \in Funcs : usb_composite_setup_continue(f)

Next == oops = NONE /\ (Bind \/ Setup \/ Events \/ Continue)

\* A function driver that asked for a delayed status makes its call, and the
\* handler of a SET_INTERFACE runs on to its end.
Fairness == /\ \A f \in Funcs : WF_vars(oops = NONE /\ usb_composite_setup_continue(f))
            /\ WF_vars(oops = NONE /\ set_interface_count)

Spec == Init /\ [][Next]_vars /\ Fairness

-----------------------------------------------------------------------------
(* Replies computed from the state.                                        *)

\* The speed a descriptor request is about; other is set for OTHER_SPEED and
\* DEVICE_QUALIFIER requests.
DescSpeed(other) ==
    IF (speed = "high") # other THEN "high" ELSE "full"

\* The configurations that work at that speed, by their places in the list.
Usable(other) ==
    {i \in DOMAIN configs : DescSpeed(other) \in speeds[configs[i]]}

\* Where a walk of a list that looks for one of these places stops.
First(places) == CHOOSE i \in places : \A j \in places : i <= j

\* count_configs
count_configs(other) == Cardinality(Usable(other))

\* config_desc: w_value goes down with each usable configuration and the one
\* that finds it at zero is returned.
config_desc(index, other) ==
    LET hits == {i \in Usable(other) :
                    Cardinality({j \in Usable(other) : j < i}) = index}
    IN  IF hits = {} THEN NONE ELSE configs[First(hits)]

\* get_string: who answers a string id; an override comes first, then the
\* tables of the configurations' functions in order.
get_string(id) ==
    IF override = id THEN "override"
    ELSE LET owners == {f \in UNION {Range(functions[c]) : c \in Range(configs)} :
                            id \in strid[f]}
         IN  IF owners = {} THEN NONE ELSE CHOOSE f \in owners : TRUE

\* A plausible slip: the walk stops at the first function.
endpoint_function_first(e) ==
    IF functions[config] = <<>> THEN NONE ELSE functions[config][1]

\* composite_setup's choice of a function for an endpoint request.
endpoint_function(e) ==
    LET fs == functions[config]
        hits == {i \in DOMAIN fs : e \in endpoints[fs[i]]}
    IN  IF hits = {} THEN NONE ELSE fs[First(hits)]

\* The function that handles a request the core does not, by its recipient;
\* with NONE it goes to the configuration.
request_function(recipient, index) ==
    CASE recipient = "endpoint" -> endpoint_function(index)
      [] recipient = "interface" /\ config # NONE /\ index \in 1..Len(interface[config]) ->
             interface[config][index]
      [] OTHER -> NONE

-----------------------------------------------------------------------------
(* Properties.                                                             *)

\* Only functions of the selected configuration are enabled or have
\* endpoints, whatever order of SET_CONFIGURATION, failing set_alt,
\* disconnect and removal led here (composite.c 371-483).  A request for an endpoint of an enabled function is handed to that
\* function, and one for an interface to a function that is enabled: two
\* functions of a configuration never share an endpoint address, because
\* usb_add_config releases the claims only between configurations
\* (composite.c 990-1006, 555-558).
RequestsReachOwner ==
    /\ \A f \in Funcs : endpoints[f] # {} \/ f \in enabled =>
          config # NONE /\ f \in Listed(config)
    /\ config # NONE =>
          /\ \A f \in Listed(config) : \A e \in endpoints[f] :
                request_function("endpoint", e) = f
          /\ \A i \in 1..Len(interface[config]) :
                request_function("interface", i) \in enabled \cap Listed(config)

\* While any function has deactivated the gadget the host does not see it,
\* also after failed calls of the controller (composite.c 134-197).
PullupHeld == held # {} => ~pullup

\* A host that waits for a status stage waits for some function that has
\* still to call usb_composite_setup_continue: counts left over from before
\* a disconnect or a failed SET_CONFIGURATION never leave it waiting for
\* nobody (composite.c 465-482, 1350-1374).  And a function that continues a
\* delayed status is never told that its call was unexpected (composite.c
\* 1344-1348: the function `must' call).
DelayedStatusMatches ==
    /\ ctrl = "waiting" => \E f \in Funcs : owed[f] > 0
    /\ ~warned

\* While the bus is in use the current drawn is the one the selected
\* configuration declares, through suspend and resume (476-478, 1262-1265).
PowerFollows == config # NONE /\ bus = "active" => draw = PowerOf(config)

\* In a bound gadget exactly the functions of its configurations are bound,
\* also after an earlier bind that failed half way (composite.c 529-605).
BoundAreListed ==
    phase = "ready" =>
        bound = UNION {Range(functions[c]) : c \in Range(configs)}

\* What the host enumerates is complete.  The device and qualifier
\* descriptors announce exactly as many configurations as can be asked for by
\* index (composite.c 288-350), and every string id a function was given
\* names that function's string: ids are not reused, and an override never
\* hides one (655-830, 1104-1198).
EnumerationComplete ==
    phase = "ready" =>
        /\ \A other \in BOOLEAN : \A i \in 0..Len(Plan) :
              (config_desc(i, other) # NONE) <=> i < count_configs(other)
        /\ \A c \in Range(configs) : \A f \in Range(functions[c]) :
              \A id \in strid[f] : get_string(id) = f

\* A delayed status stage is eventually sent (or the host is gone).
StatusAnswered == (ctrl = "waiting") ~> (ctrl # "waiting" \/ oops # NONE)
=============================================================================
