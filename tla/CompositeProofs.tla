-------------------------- MODULE CompositeProofs --------------------------
(***************************************************************************)
(* Composite for any configurations and functions.  The pullup stays off   *)
(* while a function holds the gadget back and the current drawn is the     *)
(* selected configuration's; the functions bound are the listed ones, a    *)
(* request reaches the function it is for, the host enumerates what there  *)
(* is; and with one processor a delayed status stage is always owed.       *)
(***************************************************************************)
EXTENDS CompositeLists

\* Most leaves take no arithmetic: Zenon is tried unless a leaf names another prover.
USE ZenonT(30)

-----------------------------------------------------------------------------
(* Activation and power.                                                   *)

\* deactivations counts the functions that hold the gadget back, and with
\* one of them the pullup is off.
HoldInv ==
    /\ IsFiniteSet(held) /\ deactivations = Cardinality(held)
    /\ PullupHeld

\* A configuration is selected only while the bus is connected: attach never
\* finds one left over from before.
PowerInv ==
    /\ config # NONE => bus # "off"
    /\ PowerFollows

\* The steps that leave the activation alone, or start it afresh.
HoldKept == UNCHANGED holdVars \/ (deactivations' = 0 /\ held' = {})

LEMMA HoldFrame ==
    ASSUME HoldInv, HoldKept PROVE HoldInv'
  <1>1. CASE UNCHANGED holdVars
    BY <1>1 DEF holdVars, HoldInv, PullupHeld
  <1>2. CASE deactivations' = 0 /\ held' = {}
    BY <1>2, FS_EmptySet DEF HoldInv, PullupHeld
  <1> QED BY <1>1, <1>2 DEF HoldKept

LEMMA Deactivate ==
    ASSUME HoldInv, NEW f, usb_function_deactivate(f) PROVE HoldInv'
  <1>1. /\ f \notin held /\ held' = held \cup {f}
        /\ deactivations' = deactivations + 1
    BY DEF usb_function_deactivate
  <1>2. IsFiniteSet(held') /\ deactivations' = Cardinality(held')
    BY <1>1, FS_AddElement DEF HoldInv
  <1>3. ~pullup'
    <2>1. CASE held = {}
      <3>1. deactivations = 0
        BY <2>1, FS_EmptySet DEF HoldInv
      <3> QED BY SMTT(30), <3>1 DEF usb_function_deactivate
    <2>2. CASE held # {}
      BY <2>2 DEF usb_function_deactivate, HoldInv, PullupHeld
    <2> QED BY <2>1, <2>2
  <1> QED BY <1>2, <1>3 DEF HoldInv, PullupHeld

LEMMA Activate ==
    ASSUME HoldInv, NEW f, usb_function_activate(f) PROVE HoldInv'
  <1>1. /\ f \in held /\ held' = held \ {f}
        /\ deactivations' = deactivations - 1
    BY DEF usb_function_activate
  <1>2. deactivations \in Nat
    BY FS_CardinalityType DEF HoldInv
  <1>3. IsFiniteSet(held') /\ deactivations' = Cardinality(held')
    BY <1>1, FS_RemoveElement DEF HoldInv
  <1>4. PullupHeld'
    <2>1. CASE held' = {}
      BY <2>1 DEF PullupHeld
    <2>2. CASE held' # {}
      <3>1. deactivations # 1
        BY SMTT(30), <1>1, <1>2, <1>3, <2>2, FS_EmptySet
      <3>2. pullup' = pullup
        BY <3>1 DEF usb_function_activate
      <3> QED BY <1>1, <3>2 DEF HoldInv, PullupHeld
    <2> QED BY <2>1, <2>2
  <1> QED BY <1>3, <1>4 DEF HoldInv

LEMMA BindKeepsHold == ASSUME Bind PROVE HoldKept
  <1>1. ASSUME NEW S, composite_unbind(S) PROVE HoldKept
    BY <1>1 DEF composite_unbind, HoldKept
  <1>2. CASE usb_composite_probe \/ config_bound
    BY <1>2 DEF usb_composite_probe, config_bound, HoldKept
  <1>3. CASE bind_fails \/ usb_composite_unregister
    BY <1>1, <1>3 DEF bind_fails, usb_composite_unregister
  <1>4. ASSUME NEW c, usb_add_config(c) PROVE HoldKept
    BY <1>1, <1>4 DEF usb_add_config, HoldKept
  <1>5. ASSUME NEW n, usb_add_function(n) PROVE HoldKept
    BY <1>5 DEF usb_add_function, HoldKept
  <1>6. CASE composite_bind
    BY <1>1, <1>6 DEF composite_bind, HoldKept
  <1>7. ASSUME NEW c, usb_remove_config(c) PROVE HoldKept
    BY <1>7 DEF usb_remove_config, HoldKept
  <1> QED BY <1>2, <1>3, <1>4, <1>5, <1>6, <1>7 DEF Bind

LEMMA SetupKeepsHold == ASSUME Setup \/ Continue PROVE HoldKept
  <1> USE DEF HoldKept
  <1>1. ASSUME NEW n, set_config_none(n) PROVE HoldKept
    BY <1>1 DEF set_config_none
  <1>2. ASSUME NEW c, NEW late, NEW fail, set_config(c, late, fail)
        PROVE  HoldKept
    BY <1>2 DEF set_config
  <1>3. ASSUME NEW c, set_config_oops(c) PROVE HoldKept
    BY <1>3 DEF set_config_oops
  <1>4. ASSUME NEW i, NEW r, set_interface(i, r) PROVE HoldKept
    BY <1>4 DEF set_interface
  <1>5. CASE set_interface_count \/ endpoint_request_oops
    BY <1>5 DEF set_interface_count, endpoint_request_oops
  <1>6. ASSUME NEW f, usb_composite_setup_continue(f) PROVE HoldKept
    BY <1>6 DEF usb_composite_setup_continue
  <1> QED BY <1>1, <1>2, <1>3, <1>4, <1>5, <1>6 DEF Setup, Continue

LEMMA EventsHold == ASSUME HoldInv, Events PROVE HoldInv'
  <1>1. ASSUME NEW s \in Speeds, attach(s) PROVE HoldKept
    BY <1>1 DEF attach, HoldKept
  <1>2. CASE composite_disconnect \/ composite_suspend \/ composite_resume
    <2>1. HoldKept
      BY <1>2 DEF composite_disconnect, composite_suspend, composite_resume,
                  HoldKept
    <2> QED BY <2>1, HoldFrame
  <1>3. ASSUME NEW f, usb_function_deactivate(f) \/ usb_function_activate(f)
        PROVE  HoldInv'
    BY <1>3, Deactivate, Activate
  <1> QED BY <1>1, <1>2, <1>3, HoldFrame DEF Events

LEMMA PowerFrame ==
    ASSUME PowerInv, UNCHANGED <<config, bus, draw>> PROVE PowerInv'
  BY DEF PowerInv, PowerFollows, PowerOf

\* Binding and unbinding select no configuration and draw no current.
LEMMA BindPower == ASSUME PowerInv, Bind PROVE PowerInv'
  <1> DEFINE Kept == UNCHANGED <<bus, draw>> /\ config' \in {config, NONE}
  <1>1. ASSUME NEW S, composite_unbind(S) PROVE Kept
    BY <1>1 DEF composite_unbind, busVars, runVars
  <1>2. ASSUME usb_composite_probe \/ config_bound PROVE Kept
    BY <1>2 DEF usb_composite_probe, config_bound, busVars, runVars
  <1>3. ASSUME bind_fails \/ usb_composite_unregister PROVE Kept
    BY <1>1, <1>3 DEF bind_fails, usb_composite_unregister
  <1>4. ASSUME NEW c, usb_add_config(c) PROVE Kept
    BY <1>1, <1>4 DEF usb_add_config, busVars, runVars
  <1>5. ASSUME NEW n, usb_add_function(n) PROVE Kept
    BY <1>5 DEF usb_add_function, busVars, runVars
  <1>6. ASSUME composite_bind PROVE Kept
    BY <1>1, <1>6 DEF composite_bind, busVars, runVars
  <1>7. ASSUME NEW c, usb_remove_config(c) PROVE Kept
    BY <1>7 DEF usb_remove_config, reset_config, busVars, runVars
  <1>8. Kept
    <2> HIDE DEF Kept
    <2> QED BY <1>2, <1>3, <1>4, <1>5, <1>6, <1>7 DEF Bind
  <1> QED BY <1>8 DEF PowerInv, PowerFollows, PowerOf

\* Control requests come on an active bus; the one that selects a
\* configuration asks for its current.
LEMMA SetupPower == ASSUME PowerInv, Setup \/ Continue PROVE PowerInv'
  <1> DEFINE Same == UNCHANGED <<config, bus, draw>>
  <1>1. ASSUME NEW n, set_config_none(n) PROVE PowerInv'
    <2>1. config' = NONE
      BY <1>1 DEF set_config_none, reset_config
    <2> QED BY <2>1 DEF PowerInv, PowerFollows
  <1>2. ASSUME NEW c, NEW late, NEW fail, set_config(c, late, fail)
        PROVE  PowerInv'
    <2>1. bus = "active" /\ bus' = bus
      BY <1>2 DEF set_config
    <2>2. \/ config' = c /\ draw' = PowerOf(c)
          \/ config' = NONE
      BY <1>2 DEF set_config, reset_config
    <2> QED BY <2>1, <2>2 DEF PowerInv, PowerFollows, PowerOf
  <1>3. ASSUME NEW c, set_config_oops(c) PROVE Same
    BY <1>3 DEF set_config_oops, runVars, busVars
  <1>4. ASSUME NEW i, NEW r, set_interface(i, r) PROVE Same
    BY <1>4 DEF set_interface, runVars, busVars
  <1>5. ASSUME set_interface_count \/ endpoint_request_oops PROVE Same
    BY <1>5 DEF set_interface_count, endpoint_request_oops, runVars,
                       busVars
  <1>6. ASSUME NEW f, usb_composite_setup_continue(f) PROVE Same
    BY <1>6 DEF usb_composite_setup_continue, runVars, busVars
  <1>7. Same => PowerInv'
    BY PowerFrame
  <1> HIDE DEF Same
  <1> QED BY <1>1, <1>2, <1>3, <1>4, <1>5, <1>6, <1>7 DEF Setup, Continue

LEMMA EventsPower == ASSUME PowerInv, Events PROVE PowerInv'
  <1>1. ASSUME NEW s, attach(s) PROVE PowerInv'
    <2>1. bus = "off" /\ config' = config
      BY <1>1 DEF attach, runVars
    <2> QED BY <2>1 DEF PowerInv, PowerFollows
  <1>2. CASE composite_disconnect
    <2>1. config' = NONE
      BY <1>2 DEF composite_disconnect, reset_config
    <2> QED BY <2>1 DEF PowerInv, PowerFollows
  <1>3. CASE composite_suspend
    <2>1. bus' = "asleep"
      BY <1>3 DEF composite_suspend
    <2> QED BY <2>1 DEF PowerInv, PowerFollows
  <1>4. CASE composite_resume
    <2>1. /\ config' = config /\ bus' = "active"
          /\ config # NONE => draw' = PowerOf(config)
      BY <1>4 DEF composite_resume, runVars
    <2> QED BY <2>1 DEF PowerInv, PowerFollows, PowerOf
  <1>5. ASSUME NEW f, usb_function_deactivate(f) \/ usb_function_activate(f)
        PROVE  PowerInv'
    <2>1. UNCHANGED <<config, bus, draw>>
      BY <1>5 DEF usb_function_deactivate, usb_function_activate,
                         runVars, busVars
    <2> QED BY <2>1, PowerFrame
  <1> QED BY <1>1, <1>2, <1>3, <1>4, <1>5 DEF Events

LEMMA HoldInitially == ASSUME Init PROVE HoldInv
  BY FS_EmptySet DEF Init, HoldInv, PullupHeld

LEMMA HoldInductive == ASSUME HoldInv, [Next]_vars PROVE HoldInv'
  <1>1. CASE UNCHANGED vars
    <2>1. HoldKept
      BY <1>1 DEF vars, HoldKept
    <2> QED BY <2>1, HoldFrame
  <1>2. CASE Next
    BY <1>2, BindKeepsHold, SetupKeepsHold, HoldFrame, EventsHold DEF Next
  <1> QED BY <1>1, <1>2

\* While a function has deactivated the gadget its pullup is off, for any
\* functions and any order of their calls (usb_function_deactivate,
\* usb_function_activate).
THEOREM PullupIsHeld == Spec => []PullupHeld
  <1>1. Init => HoldInv
    BY HoldInitially
  <1>2. HoldInv /\ [Next]_vars => HoldInv'
    BY HoldInductive
  <1>3. HoldInv => PullupHeld
    BY DEF HoldInv
  <1> QED BY <1>1, <1>2, <1>3, PTL DEF Spec

\* On an active bus the current drawn is the selected configuration's,
\* through suspend, resume and disconnect (set_config, composite_resume).
THEOREM PowerIsConfigured == Spec => []PowerFollows
  <1>1. Init => PowerInv
    BY DEF Init, PowerInv, PowerFollows
  <1>2. PowerInv /\ [Next]_vars => PowerInv'
    <2> SUFFICES ASSUME PowerInv, [Next]_vars PROVE PowerInv'
      OBVIOUS
    <2>1. CASE UNCHANGED vars
      BY <2>1 DEF vars, runVars, busVars, PowerInv, PowerFollows, PowerOf
    <2>2. CASE Next
      BY <2>2, BindPower, SetupPower, EventsPower DEF Next
    <2> QED BY <2>1, <2>2
  <1>3. PowerInv => PowerFollows
    BY DEF PowerInv
  <1> QED BY <1>1, <1>2, <1>3, PTL DEF Spec

-----------------------------------------------------------------------------
(* The selected configuration.                                             *)

\* A configuration is selected only in a bound gadget with a host, and only
\* its functions are in use.
RunInv ==
    /\ config # NONE => /\ phase = "ready" /\ bus # "off"
                        /\ config \in Range(configs)
                        /\ Range(interface[config]) \subseteq enabled
    /\ \A f \in Funcs : endpoints[f] \subseteq eps[f]
    /\ \A f \in Funcs : endpoints[f] # {} \/ f \in enabled =>
          config # NONE /\ f \in Listed(config)

RunTypes ==
    /\ config \in Configs \cup {NONE} /\ enabled \subseteq Funcs
    /\ endpoints \in [Funcs -> SUBSET (1 .. NumEndpoints)]

RunOK == RunTypes /\ RunInv

\* With no configuration nothing is in use.
LEMMA NothingRuns ==
    ASSUME RunOK, config = NONE
    PROVE  enabled = {} /\ \A f \in Funcs : endpoints[f] = {}
  BY DEF RunOK, RunTypes, RunInv

LEMMA RunNone ==
    ASSUME config' = NONE, enabled' = {}, \A f \in Funcs : endpoints'[f] = {},
           endpoints' \in [Funcs -> SUBSET (1 .. NumEndpoints)]
    PROVE  RunOK'
  BY DEF RunOK, RunTypes, RunInv

LEMMA RunKeptNone ==
    ASSUME RunOK, config = NONE, UNCHANGED runVars PROVE RunOK'
  <1>1. UNCHANGED <<config, endpoints, enabled>>
    BY DEF runVars
  <1>2. enabled = {} /\ \A f \in Funcs : endpoints[f] = {}
    BY NothingRuns
  <1> QED BY <1>1, <1>2, RunNone DEF RunOK, RunTypes

LEMMA RunFrame ==
    ASSUME RunOK, UNCHANGED runVars, UNCHANGED <<phase, bindVars>>,
           bus' # "off" \/ bus' = bus
    PROVE  RunOK'
  <1>1. UNCHANGED <<config, endpoints, enabled, phase, configs, functions,
                    interface, eps>>
    BY DEF runVars, bindVars
  <1> QED BY <1>1 DEF RunOK, RunTypes, RunInv, Listed

\* reset_config of at least the selected configuration's functions.
LEMMA ResetRun ==
    ASSUME RunOK, NEW S, Listed(config) \subseteq S, reset_config(S) PROVE RunOK'
  <1>1. /\ endpoints' = [f \in Funcs |-> IF f \in S THEN {} ELSE endpoints[f]]
        /\ enabled' = enabled \ S /\ config' = NONE
    BY DEF reset_config
  <1>2. \A f \in Funcs : endpoints[f] # {} \/ f \in enabled => f \in S
    BY DEF RunOK, RunInv
  <1>3. /\ enabled' = {} /\ \A f \in Funcs : endpoints'[f] = {}
        /\ endpoints' \in [Funcs -> SUBSET (1 .. NumEndpoints)]
    BY <1>1, <1>2 DEF RunOK, RunTypes
  <1> QED BY <1>1, <1>3, RunNone

LEMMA SelectRun ==
    ASSUME BindOK, RunOK, NEW c, NEW late, NEW fail, set_config(c, late, fail),
           UNCHANGED <<phase, bindVars>>
    PROVE  RunOK'
  <1> DEFINE n == Len(interface[c])
             walked == {interface[c][i] : i \in 1 .. (IF fail = 0 THEN n ELSE fail)}
  <1>1. CASE fail # 0
    <2>1. reset_config(Listed(config) \cup Listed(c))
      BY <1>1 DEF set_config
    <2> QED BY <2>1, ResetRun
  <1>2. CASE fail = 0
    <2>1. /\ phase = "ready" /\ bus = "active" /\ bus' = bus /\ c \in Range(configs)
          /\ config' = c
          /\ endpoints' = [f \in Funcs |->
                   IF f \in walked THEN eps[f]
                   ELSE IF f \in Listed(config) THEN {} ELSE endpoints[f]]
          /\ enabled' = (enabled \ Listed(config)) \cup walked
      BY <1>2 DEF set_config
    <2>2. UNCHANGED <<phase, configs, functions, interface, eps>>
      BY DEF bindVars
    <2>3. /\ BindTypes /\ ListInv /\ ClaimInv /\ RunTypes /\ RunInv
      BY DEF BindOK, RunOK
    <2>4. /\ c \in Configs /\ Range(functions[c]) \subseteq Funcs
          /\ Range(interface[c]) \subseteq Range(functions[c])
      BY <2>1, <2>3, ListedAreOf DEF ClaimInv
    <2>5. walked = Range(interface[c])
      <3>1. interface[c] \in Seq(Funcs)
        BY <2>3, <2>4 DEF BindTypes
      <3>2. DOMAIN interface[c] = 1 .. n
        BY SMTT(30), <3>1
      <3> QED BY <1>2, <3>2 DEF Range
    <2>6. c # NONE /\ Listed(c) = Range(functions[c])
      BY <2>4, Constants DEF Listed
    <2> HIDE DEF walked
    <2>7. \A f \in Funcs : endpoints[f] # {} \/ f \in enabled => f \in Listed(config)
      BY <2>3 DEF RunInv
    <2>8. /\ enabled' = walked
          /\ \A f \in Funcs : endpoints'[f] = IF f \in walked THEN eps[f] ELSE {}
      BY <2>1, <2>3, <2>7 DEF RunTypes
    <2>9. RunTypes'
      <3>1. endpoints' \in [Funcs -> SUBSET (1 .. NumEndpoints)]
        BY <2>1, <2>3 DEF RunTypes, BindTypes
      <3> QED BY <2>1, <2>4, <2>5, <2>8, <3>1 DEF RunTypes
    <2>10. Listed(config)' = Listed(c)
      BY <2>1, <2>2 DEF Listed
    <2>11. RunInv'
      <3>1. /\ phase' = "ready" /\ bus' # "off" /\ config' \in Range(configs')
            /\ Range(interface'[config']) \subseteq enabled'
        BY <2>1, <2>2, <2>5, <2>8
      <3>2. \A f \in Funcs : endpoints'[f] \subseteq eps'[f]
        BY <2>2, <2>8
      <3>3. \A f \in Funcs : endpoints'[f] # {} \/ f \in enabled' =>
                config' # NONE /\ f \in Listed(config)'
        BY <2>1, <2>4, <2>5, <2>6, <2>8, <2>10
      <3> QED BY <3>1, <3>2, <3>3 DEF RunInv
    <2> QED BY <2>9, <2>11 DEF RunOK
  <1> QED BY <1>1, <1>2

LEMMA BindRun == ASSUME BindOK, RunOK, Bind PROVE RunOK'
  <1>1. phase # "ready" \/ bus = "off" => config = NONE
    BY DEF RunOK, RunInv
  <1>2. ASSUME NEW L, composite_unbind(L), config = NONE PROVE RunOK'
    BY <1>2, RunKeptNone DEF composite_unbind
  <1>3. CASE usb_composite_probe
    BY <1>3, RunNone DEF usb_composite_probe
  <1>4. CASE bind_fails \/ usb_composite_unregister
    BY <1>1, <1>2, <1>4 DEF bind_fails, usb_composite_unregister
  <1>5. ASSUME NEW c, usb_add_config(c) PROVE RunOK'
    <2>1. phase = "binding"
          /\ ((\E L : composite_unbind(L)) \/ UNCHANGED runVars)
      BY <1>5 DEF usb_add_config
    <2> QED BY <1>1, <1>2, <2>1, RunKeptNone
  <1>6. ASSUME NEW n, usb_add_function(n) PROVE RunOK'
    <2>1. phase = "confbind" /\ UNCHANGED runVars
      BY <1>6 DEF usb_add_function
    <2> QED BY <1>1, <2>1, RunKeptNone
  <1>7. CASE config_bound
    BY <1>1, <1>7, RunKeptNone DEF config_bound
  <1>8. CASE composite_bind
    <2>1. phase = "binding"
          /\ ((\E L : composite_unbind(L)) \/ UNCHANGED runVars)
      BY <1>8 DEF composite_bind
    <2> QED BY <1>1, <1>2, <2>1, RunKeptNone
  <1>9. ASSUME NEW c, usb_remove_config(c) PROVE RunOK'
    <2>1. CASE config = c
      <3>1. reset_config(Listed(config))
        BY <1>9, <2>1 DEF usb_remove_config
      <3> QED BY <3>1, ResetRun
    <2>2. CASE config # c
      <3>1. /\ phase = "ready" /\ phase' = phase /\ bus' = bus
            /\ UNCHANGED <<config, endpoints, enabled, interface, eps>>
        BY <1>9, <2>2 DEF usb_remove_config, runVars, busVars
      <3>2. config = NONE \/ config \in Range(configs')
        BY <1>9, <2>2, RemoveLists DEF RunOK, RunInv
      <3>3. Listed(config)' = Listed(config)
        BY <1>9, <3>1, <3>2, RemoveLists DEF Listed
      <3> QED BY <3>1, <3>2, <3>3 DEF RunOK, RunTypes, RunInv
    <2> QED BY <2>1, <2>2
  <1> QED BY <1>3, <1>4, <1>5, <1>6, <1>7, <1>8, <1>9 DEF Bind

LEMMA QuietRun ==
    ASSUME BindOK, RunOK, Setup \/ Events \/ Continue PROVE RunOK'
  <1>1. UNCHANGED <<phase, bindVars>>
    BY QuietBind
  <1>2. ASSUME NEW n, set_config_none(n) PROVE RunOK'
    <2>1. reset_config(Listed(config))
      BY <1>2 DEF set_config_none
    <2> QED BY <2>1, ResetRun
  <1>3. ASSUME NEW c, NEW late, NEW fail, set_config(c, late, fail) PROVE RunOK'
    BY <1>1, <1>3, SelectRun
  <1> DEFINE Kept == UNCHANGED runVars /\ (bus' # "off" \/ bus' = bus)
  <1>4. ASSUME NEW c, set_config_oops(c) PROVE Kept
    BY <1>4 DEF set_config_oops, busVars
  <1>5. ASSUME NEW i, NEW r, set_interface(i, r) PROVE Kept
    BY <1>5 DEF set_interface, busVars
  <1>6. ASSUME set_interface_count \/ endpoint_request_oops PROVE Kept
    BY <1>6 DEF set_interface_count, endpoint_request_oops, busVars
  <1>7. ASSUME NEW f, usb_composite_setup_continue(f) PROVE Kept
    BY <1>7 DEF usb_composite_setup_continue, busVars
  <1>8. ASSUME NEW x, attach(x) PROVE Kept
    <2>1. bus' = "active" /\ UNCHANGED runVars
      BY <1>8 DEF attach
    <2> QED BY <2>1
  <1>9. CASE composite_disconnect
    <2>1. reset_config(Listed(config))
      BY <1>9 DEF composite_disconnect
    <2> QED BY <2>1, ResetRun
  <1>10. ASSUME composite_suspend \/ composite_resume PROVE Kept
    <2>1. bus' \in {"active", "asleep"} /\ UNCHANGED runVars
      BY <1>10 DEF composite_suspend, composite_resume
    <2> QED BY <2>1
  <1>11. ASSUME NEW f, usb_function_deactivate(f) \/ usb_function_activate(f)
         PROVE  Kept
    BY <1>11 DEF usb_function_deactivate, usb_function_activate, busVars
  <1>12. Kept => RunOK'
    BY <1>1, RunFrame
  <1> HIDE DEF Kept
  <1> QED BY <1>2, <1>3, <1>4, <1>5, <1>6, <1>7, <1>8, <1>9, <1>10, <1>11, <1>12
          DEF Setup, Events, Continue

LEMMA RunInductive == ASSUME BindOK, RunOK, [Next]_vars PROVE RunOK'
  <1>1. CASE UNCHANGED vars
    <2>1. UNCHANGED runVars /\ UNCHANGED <<phase, bindVars>> /\ bus' = bus
      BY <1>1 DEF vars, busVars
    <2> QED BY <2>1, RunFrame
  <1>2. CASE Next
    BY <1>2, BindRun, QuietRun DEF Next
  <1> QED BY <1>1, <1>2

LEMMA InitRun == ASSUME Init PROVE RunOK
  BY DEF Init, RunOK, RunTypes, RunInv

-----------------------------------------------------------------------------
(* Delayed status stages.                                                  *)

\* The continuations that are owed, one by one.
Debts(o) == UNION {{f} \X (1 .. o[f]) : f \in Funcs}

\* Every delayed status that was counted is owed by some function; the one of
\* a SET_INTERFACE is owed before it is counted.
OweInv ==
    /\ phase # "ready" => ctrl = "idle" /\ setif = NONE /\ Debts(owed) = {}
    /\ phase # "idle" =>
          /\ IsFiniteSet(Debts(owed))
          /\ Cardinality(Debts(owed)) = delayed_status + (IF setif = NONE THEN 0 ELSE 1)
    /\ setif # NONE => ctrl = "busy"
    /\ ctrl = "waiting" => delayed_status > 0
    /\ ~warned

CtrlTypes ==
    /\ setif \in Funcs \cup {NONE} /\ delayed_status \in Nat
    /\ owed \in [Funcs -> 0 .. MaxOwed]
    /\ ctrl \in {"idle", "busy", "waiting"} /\ warned \in BOOLEAN

OweOK == CtrlTypes /\ OweInv

LEMMA InDebts ==
    ASSUME NEW o
    PROVE  /\ \A f \in Funcs : \A k \in 1 .. o[f] : <<f, k>> \in Debts(o)
           /\ \A x \in Debts(o) : \E f \in Funcs : \E k \in 1 .. o[f] : x = <<f, k>>
  BY SMTT(30) DEF Debts

LEMMA NoDebts ==
    ASSUME NEW o \in [Funcs -> Nat]
    PROVE  Debts(o) = {} <=> \A f \in Funcs : o[f] = 0
  <1>1. ASSUME NEW f \in Funcs, o[f] # 0 PROVE Debts(o) # {}
    <2>1. o[f] \in 1 .. o[f]
      BY SMTT(30), <1>1
    <2> QED BY <2>1, InDebts
  <1>2. ASSUME \A f \in Funcs : o[f] = 0 PROVE Debts(o) = {}
    <2>1. \A f \in Funcs : 1 .. o[f] = {}
      BY SMTT(30), <1>2
    <2> QED BY <2>1, InDebts
  <1> QED BY <1>1, <1>2

\* One continuation more.
LEMMA DebtMore ==
    ASSUME NEW o \in [Funcs -> Nat], NEW f \in Funcs, IsFiniteSet(Debts(o)),
           NEW p \in [Funcs -> Nat], p[f] = o[f] + 1,
           \A g \in Funcs : g # f => p[g] = o[g]
    PROVE  /\ IsFiniteSet(Debts(p))
           /\ Cardinality(Debts(p)) = Cardinality(Debts(o)) + 1
  <1> DEFINE x == <<f, o[f] + 1>>
  <1>1. x \notin Debts(o)
    <2> SUFFICES ASSUME NEW g \in Funcs, NEW k \in 1 .. o[g], x = <<g, k>> PROVE FALSE
      BY InDebts
    <2>1. g = f /\ k = o[f] + 1
      OBVIOUS
    <2> QED BY SMTT(30), <2>1
  <1>2. Debts(p) = Debts(o) \cup {x}
    <2>1. \A g \in Funcs : g # f => 1 .. p[g] = 1 .. o[g]
      OBVIOUS
    <2>2. 1 .. p[f] = (1 .. o[f]) \cup {o[f] + 1}
      BY SMTT(30)
    <2>3. ASSUME NEW y \in Debts(p) PROVE y \in Debts(o) \cup {x}
      <3>1. PICK g \in Funcs : \E k \in 1 .. p[g] : y = <<g, k>>
        BY InDebts
      <3>2. PICK k \in 1 .. p[g] : y = <<g, k>>
        BY <3>1
      <3> QED BY <2>1, <2>2, <3>2, InDebts
    <2>4. x \in Debts(p)
      BY <2>2, InDebts
    <2>5. ASSUME NEW y \in Debts(o) PROVE y \in Debts(p)
      <3>1. PICK g \in Funcs : \E k \in 1 .. o[g] : y = <<g, k>>
        BY InDebts
      <3>2. PICK k \in 1 .. o[g] : y = <<g, k>>
        BY <3>1
      <3>3. k \in 1 .. p[g]
        BY <2>1, <2>2, <3>2
      <3> QED BY <3>2, <3>3, InDebts
    <2> QED BY <2>3, <2>4, <2>5
  <1> QED BY SMTT(30), <1>1, <1>2, FS_AddElement

\* One less.
LEMMA DebtLess ==
    ASSUME NEW o \in [Funcs -> Nat], NEW f \in Funcs, IsFiniteSet(Debts(o)),
           NEW p \in [Funcs -> Nat], o[f] = p[f] + 1,
           \A g \in Funcs : g # f => p[g] = o[g]
    PROVE  /\ IsFiniteSet(Debts(p))
           /\ Cardinality(Debts(o)) = Cardinality(Debts(p)) + 1
  <1>1. Debts(p) \subseteq Debts(o)
    <2> SUFFICES ASSUME NEW g \in Funcs, NEW k \in 1 .. p[g]
                 PROVE  <<g, k>> \in Debts(o)
      BY SMTT(30), InDebts
    <2>1. k \in 1 .. o[g]
      BY SMTT(30)
    <2> QED BY <2>1, InDebts
  <1>2. IsFiniteSet(Debts(p))
    BY <1>1, FS_Subset
  <1> QED BY <1>2, DebtMore

\* The debts o with one more for each place in late, by its function in w.
Grown(o, w, late) ==
    [f \in Funcs |-> o[f] + Cardinality({i \in late : w[i] = f})]

LEMMA GrownTypes ==
    ASSUME NEW o \in [Funcs -> Nat], NEW w, NEW late, IsFiniteSet(late)
    PROVE  /\ \A f \in Funcs : /\ IsFiniteSet({i \in late : w[i] = f})
                               /\ Cardinality({i \in late : w[i] = f}) \in Nat
           /\ Grown(o, w, late) \in [Funcs -> Nat]
  <1>1. ASSUME NEW f \in Funcs
        PROVE  /\ IsFiniteSet({i \in late : w[i] = f})
               /\ Cardinality({i \in late : w[i] = f}) \in Nat
    <2>1. {i \in late : w[i] = f} \in SUBSET late
      OBVIOUS
    <2> QED BY <2>1, FS_Subset, FS_CardinalityType
  <1>2. Grown(o, w, late) \in [Funcs -> Nat]
    BY SMTT(30), <1>1 DEF Grown
  <1> QED BY <1>1, <1>2

\* One place more is one debt more, of that place's function.
LEMMA GrownStep ==
    ASSUME NEW o \in [Funcs -> Nat], NEW w, NEW late, IsFiniteSet(late),
           NEW x \in late, NEW h \in Funcs, h = w[x], NEW rest, rest = late \ {x}
    PROVE  /\ Grown(o, w, late)[h] = Grown(o, w, rest)[h] + 1
           /\ \A g \in Funcs : g # h => Grown(o, w, late)[g] = Grown(o, w, rest)[g]
  <1> DEFINE A(f) == {i \in late : w[i] = f}
             B(f) == {i \in rest : w[i] = f}
  <1>1. ASSUME NEW f \in Funcs PROVE IsFiniteSet(A(f)) /\ Cardinality(A(f)) \in Nat
    <2>1. A(f) \in SUBSET late
      OBVIOUS
    <2> QED BY <2>1, FS_Subset, FS_CardinalityType
  <1>2. \A f \in Funcs : f # h => B(f) = A(f)
    OBVIOUS
  <1>3. B(h) = A(h) \ {x} /\ x \in A(h)
    OBVIOUS
  <1> HIDE DEF A, B
  <1>4. Cardinality(B(h)) = Cardinality(A(h)) - 1
    <2>1. IsFiniteSet(A(h)) /\ x \in A(h)
      BY <1>1, <1>3
    <2>2. Cardinality(A(h) \ {x}) = Cardinality(A(h)) - 1
      BY <2>1, FS_RemoveElement
    <2> QED BY <1>3, <2>2
  <1>5. \A f \in Funcs : /\ Grown(o, w, late)[f] = o[f] + Cardinality(A(f))
                         /\ Grown(o, w, rest)[f] = o[f] + Cardinality(B(f))
    BY DEF Grown, A, B
  <1>6. Grown(o, w, late)[h] = Grown(o, w, rest)[h] + 1
    <2> DEFINE a == Cardinality(A(h))
               b == Cardinality(B(h))
    <2>1. a \in Nat /\ b = a - 1 /\ o[h] \in Nat
      BY <1>1, <1>4
    <2> HIDE DEF a, b
    <2>2. o[h] + a = (o[h] + b) + 1
      BY SMTT(30), <2>1
    <2> QED BY <1>5, <2>2 DEF a, b
  <1> QED BY SMTT(30), <1>2, <1>5, <1>6

\* As many debts more as there are places.
LEMMA DebtsLate ==
    ASSUME NEW o \in [Funcs -> Nat], IsFiniteSet(Debts(o)),
           NEW w, NEW L, IsFiniteSet(L), \A i \in L : w[i] \in Funcs
    PROVE  /\ IsFiniteSet(Debts(Grown(o, w, L)))
           /\ Cardinality(Debts(Grown(o, w, L))) = Cardinality(Debts(o)) + Cardinality(L)
  <1> DEFINE Good(late) ==
               /\ IsFiniteSet(Debts(Grown(o, w, late)))
               /\ Cardinality(Debts(Grown(o, w, late)))
                      = Cardinality(Debts(o)) + Cardinality(late)
             Bad == {m \in Nat : \E late \in SUBSET L :
                        m = Cardinality(late) /\ ~Good(late)}
  <1>1. Good({})
    <2>1. \A f \in Funcs : {i \in {} : w[i] = f} = {}
      OBVIOUS
    <2>2. \A f \in Funcs : o[f] + 0 = o[f]
      BY SMTT(30)
    <2>3. Grown(o, w, {}) = o
      BY <2>1, <2>2, FS_EmptySet DEF Grown
    <2> QED BY SMTT(30), <2>3, FS_EmptySet, FS_CardinalityType
  <1>2. ASSUME NEW late \in SUBSET L, NEW x \in late, Good(late \ {x}) PROVE Good(late)
    <2>1. PICK h \in Funcs, rest \in SUBSET late : h = w[x] /\ rest = late \ {x}
      OBVIOUS
    <2> DEFINE p == Grown(o, w, late)
               q == Grown(o, w, rest)
    <2>2. IsFiniteSet(late) /\ IsFiniteSet(rest)
      BY <2>1, FS_Subset
    <2>3. p \in [Funcs -> Nat] /\ q \in [Funcs -> Nat]
      BY <2>2, GrownTypes
    <2>4. p[h] = q[h] + 1 /\ \A g \in Funcs : g # h => p[g] = q[g]
      BY SMTT(30), <2>1, <2>2, GrownStep
    <2>5. /\ IsFiniteSet(Debts(q))
          /\ Cardinality(Debts(q)) = Cardinality(Debts(o)) + Cardinality(rest)
      BY <1>2, <2>1
    <2> HIDE DEF p, q
    <2>6. IsFiniteSet(Debts(p)) /\ Cardinality(Debts(p)) = Cardinality(Debts(q)) + 1
      BY <2>3, <2>4, <2>5, DebtMore
    <2>7. Cardinality(rest) = Cardinality(late) - 1 /\ Cardinality(late) \in Nat
      BY <2>1, <2>2, FS_RemoveElement, FS_CardinalityType
    <2>8. Cardinality(Debts(o)) \in Nat
      BY FS_CardinalityType
    <2>9. Cardinality(Debts(p)) = Cardinality(Debts(o)) + Cardinality(late)
      BY SMTT(30), <2>5, <2>6, <2>7, <2>8
    <2> QED BY <2>6, <2>9 DEF p
  <1> HIDE DEF Good
  <1>3. Bad = {}
    <2> SUFFICES ASSUME Bad # {} PROVE FALSE
      OBVIOUS
    <2>1. PICK m \in Bad : \A k \in Bad : m <= k
      BY NatMin
    <2>2. PICK late \in SUBSET L : m = Cardinality(late) /\ ~Good(late)
      BY <2>1
    <2>3. PICK x \in late : TRUE
      BY <1>1, <2>2
    <2>4. IsFiniteSet(late) /\ m \in Nat
      BY <2>1, FS_Subset
    <2>5. IsFiniteSet(late \ {x}) /\ Cardinality(late \ {x}) = m - 1
      BY <2>2, <2>3, <2>4, FS_RemoveElement
    <2>6. Cardinality(late \ {x}) \in Nat /\ ~(m <= m - 1)
      BY SMTT(30), <2>4, <2>5, FS_CardinalityType
    <2>7. Good(late \ {x})
      BY <2>1, <2>5, <2>6
    <2> QED BY <1>2, <2>2, <2>3, <2>7
  <1>4. Cardinality(L) \in Nat
    BY FS_CardinalityType
  <1>5. Good(L)
    BY <1>3, <1>4
  <1> QED BY <1>5 DEF Good

\* A step of a gadget that stays bound, or is being bound, and does not touch
\* the control transfer.
LEMMA OweFrame ==
    ASSUME OweOK, UNCHANGED ctrlVars, phase' = phase \/ (phase # "idle" /\ phase' # "idle"
                                                         /\ phase # "ready")
    PROVE  OweOK'
  <1>1. UNCHANGED <<delayed_status, owed, ctrl, setif, warned>>
    BY DEF ctrlVars
  <1>2. Debts(owed') = Debts(owed)
    BY <1>1
  <1> QED BY <1>1, <1>2 DEF OweOK, CtrlTypes, OweInv

\* A device that is gone, or has just been made, owes nothing.
LEMMA OweNothing ==
    ASSUME CtrlTypes', \A f \in Funcs : owed'[f] = 0, ctrl' = "idle", setif' = NONE,
           ~warned', phase' = "idle" \/ delayed_status' = 0
    PROVE  OweOK'
  <1>1. owed' \in [Funcs -> Nat]
    BY SMTT(30), Constants DEF CtrlTypes
  <1>2. Debts(owed') = {}
    BY <1>1, NoDebts
  <1>3. IsFiniteSet(Debts(owed')) /\ Cardinality(Debts(owed')) = 0
    BY <1>2, FS_EmptySet
  <1> QED BY SMTT(30), <1>2, <1>3 DEF OweOK, OweInv

LEMMA BindOwe == ASSUME OweOK, Bind PROVE OweOK'
  <1> USE DEF OweOK
  <1>1. CtrlTypes /\ OweInv
    OBVIOUS
  <1>2. ASSUME NEW L, composite_unbind(L) PROVE OweOK'
    <2>1. /\ owed' = [f \in Funcs |-> 0] /\ ctrl' = "idle" /\ setif' = NONE
          /\ UNCHANGED <<delayed_status, warned>> /\ phase' = "idle"
      BY <1>2 DEF composite_unbind
    <2>2. CtrlTypes'
      BY SMTT(30), <1>1, <2>1, Constants DEF CtrlTypes
    <2> QED BY <1>1, <2>1, <2>2, OweNothing DEF OweInv
  <1>3. CASE usb_composite_probe
    <2>1. /\ phase = "idle" /\ phase' = "binding" /\ delayed_status' = 0 /\ warned' = FALSE
          /\ UNCHANGED <<owed, ctrl, setif>>
      BY <1>3 DEF usb_composite_probe
    <2>2. ctrl = "idle" /\ setif = NONE /\ Debts(owed) = {}
      BY <1>1, <2>1 DEF OweInv
    <2>3. \A f \in Funcs : owed[f] = 0
      <3>1. owed \in [Funcs -> Nat]
        BY SMTT(30), <1>1, Constants DEF CtrlTypes
      <3> QED BY <2>2, <3>1, NoDebts
    <2>4. CtrlTypes'
      BY <1>1, <2>1 DEF CtrlTypes
    <2> QED BY <2>1, <2>2, <2>3, <2>4, OweNothing
  <1> HIDE DEF OweOK
  <1>4. CASE bind_fails \/ usb_composite_unregister
    BY <1>2, <1>4 DEF bind_fails, usb_composite_unregister
  <1>5. ASSUME NEW c, usb_add_config(c) PROVE OweOK'
    <2>1. \/ \E L : composite_unbind(L)
          \/ phase = "binding" /\ phase' = "confbind" /\ UNCHANGED ctrlVars
      BY <1>5 DEF usb_add_config
    <2> QED BY <1>2, <2>1, OweFrame
  <1>6. ASSUME NEW n, usb_add_function(n) PROVE OweOK'
    <2>1. phase' = phase /\ UNCHANGED ctrlVars
      BY <1>6 DEF usb_add_function
    <2> QED BY <2>1, OweFrame
  <1>7. CASE config_bound
    <2>1. phase = "confbind" /\ phase' = "binding" /\ UNCHANGED ctrlVars
      BY <1>7 DEF config_bound
    <2> QED BY <2>1, OweFrame
  <1>8. CASE composite_bind
    <2>1. \/ \E L : composite_unbind(L)
          \/ phase = "binding" /\ phase' = "ready" /\ UNCHANGED ctrlVars
      BY <1>8 DEF composite_bind
    <2> QED BY <1>2, <2>1, OweFrame
  <1>9. ASSUME NEW c, usb_remove_config(c) PROVE OweOK'
    <2>1. phase' = phase /\ UNCHANGED ctrlVars
      BY <1>9 DEF usb_remove_config
    <2> QED BY <2>1, OweFrame
  <1> QED BY <1>3, <1>4, <1>5, <1>6, <1>7, <1>8, <1>9 DEF Bind

\* The facts about a bound gadget's debts that the handlers start from.
LEMMA DebtsNow ==
    ASSUME OweOK, phase = "ready"
    PROVE  /\ owed \in [Funcs -> Nat] /\ IsFiniteSet(Debts(owed))
           /\ Cardinality(Debts(owed)) \in Nat /\ delayed_status \in Nat
           /\ setif = NONE => Cardinality(Debts(owed)) = delayed_status
           /\ setif # NONE => Cardinality(Debts(owed)) = delayed_status + 1
           /\ ctrl = "idle" => setif = NONE
  <1>1. owed \in [Funcs -> Nat] /\ delayed_status \in Nat
    BY SMTT(30), Constants DEF OweOK, CtrlTypes
  <1>2. /\ IsFiniteSet(Debts(owed))
        /\ setif = NONE => Cardinality(Debts(owed)) = delayed_status + 0
        /\ setif # NONE => Cardinality(Debts(owed)) = delayed_status + 1
        /\ ctrl = "idle" => setif = NONE
    BY DEF OweOK, OweInv
  <1> QED BY SMTT(30), <1>1, <1>2, FS_CardinalityType

\* A handler's end: the transfer's new state fits the new count.
LEMMA OweAfter ==
    ASSUME CtrlTypes', phase' = "ready", ~warned', IsFiniteSet(Debts(owed')),
           setif' = NONE => Cardinality(Debts(owed')) = delayed_status',
           setif' # NONE => ctrl' = "busy" /\ Cardinality(Debts(owed')) = delayed_status' + 1,
           ctrl' = "waiting" => delayed_status' > 0
    PROVE  OweOK'
  <1>1. delayed_status' \in Nat
    BY DEF CtrlTypes
  <1>2. \A d \in Nat : d + 0 = d
    BY SMTT(30)
  <1>3. delayed_status' + 0 = delayed_status'
    BY <1>1, <1>2
  <1> QED BY <1>3 DEF OweOK, OweInv

LEMMA SetConfigOwe ==
    ASSUME BindOK, OweOK, NEW c, NEW late, NEW fail, set_config(c, late, fail),
           UNCHANGED <<phase, bindVars>>
    PROVE  OweOK'
  <1> DEFINE w == interface[c]
             n == Len(w)
  <1>1. /\ phase = "ready" /\ phase' = "ready" /\ ctrl = "idle" /\ c \in Range(configs)
        /\ fail \in 0 .. n
        /\ late \subseteq {i \in 1 .. (IF fail = 0 THEN n ELSE fail) : i # fail}
        /\ UNCHANGED <<setif, warned>>
        /\ delayed_status' = delayed_status + Cardinality(late)
        /\ ctrl' = "idle" \/ Reply
    BY DEF set_config
  <1>2. owed' = Grown(owed, w, late) /\ owed' \in [Funcs -> 0 .. MaxOwed]
    BY DEF set_config, Grown
  <1>3. w \in Seq(Funcs) /\ n \in Nat
    <2>1. c \in Configs
      BY SMTT(30), <1>1 DEF BindOK, BindTypes, Range
    <2> QED BY SMTT(30), <2>1 DEF BindOK, BindTypes
  <1>4. IsFiniteSet(late) /\ \A i \in late : w[i] \in Funcs
    <2>1. late \in SUBSET (1 .. n)
      BY SMTT(30), <1>1, <1>3
    <2>2. IsFiniteSet(1 .. n)
      BY SMTT(30), <1>3, FS_Interval
    <2>3. \A i \in 1 .. n : w[i] \in Funcs
      BY SMTT(30), <1>3
    <2> QED BY <2>1, <2>2, <2>3, FS_Subset
  <1> HIDE DEF w, n
  <1>5. /\ owed \in [Funcs -> Nat] /\ IsFiniteSet(Debts(owed)) /\ setif = NONE
        /\ Cardinality(Debts(owed)) = delayed_status /\ delayed_status \in Nat
    BY <1>1, DebtsNow
  <1>6. /\ IsFiniteSet(Debts(owed'))
        /\ Cardinality(Debts(owed')) = delayed_status + Cardinality(late)
    BY <1>2, <1>4, <1>5, DebtsLate
  <1>7. Cardinality(late) \in Nat
    BY <1>4, FS_CardinalityType
  <1>8. ctrl' \in {"idle", "waiting"} /\ (ctrl' = "waiting" => delayed_status' > 0)
    BY <1>1 DEF Reply
  <1>9. delayed_status + Cardinality(late) \in Nat
    BY SMTT(30), <1>5, <1>7
  <1>10. CtrlTypes'
    BY <1>1, <1>2, <1>8, <1>9 DEF OweOK, CtrlTypes
  <1>11. ~warned'
    BY <1>1 DEF OweOK, OweInv
  <1> QED BY <1>1, <1>5, <1>6, <1>8, <1>10, <1>11, OweAfter

LEMMA SetNoneOwe ==
    ASSUME OweOK, NEW n, set_config_none(n) PROVE OweOK'
  <1>1. /\ phase = "ready" /\ phase' = "ready" /\ ctrl = "idle"
        /\ UNCHANGED <<setif, warned, owed, delayed_status>>
        /\ ctrl' = "idle" \/ Reply
    BY DEF set_config_none
  <1>2. /\ IsFiniteSet(Debts(owed)) /\ setif = NONE
        /\ Cardinality(Debts(owed)) = delayed_status
    BY <1>1, DebtsNow
  <1>3. ctrl' \in {"idle", "waiting"} /\ (ctrl' = "waiting" => delayed_status' > 0)
    BY <1>1 DEF Reply
  <1>4. CtrlTypes' /\ ~warned'
    BY <1>1, <1>3 DEF OweOK, CtrlTypes, OweInv
  <1> QED BY <1>1, <1>2, <1>3, <1>4, OweAfter

LEMMA SetInterfaceOwe ==
    ASSUME BindOK, RunOK, OweOK, NEW i, NEW r \in {"ok", "error", "delayed"},
           set_interface(i, r)
    PROVE  OweOK'
  <1> DEFINE f == interface[config][i]
  <1>1. /\ phase = "ready" /\ phase' = "ready" /\ ctrl = "idle" /\ setif = NONE
        /\ config # NONE /\ i \in 1 .. Len(interface[config])
        /\ UNCHANGED <<delayed_status, warned>>
    BY DEF set_interface
  <1>2. f \in Funcs
    <2>1. config \in Configs
      BY <1>1 DEF RunOK, RunTypes
    <2>2. interface[config] \in Seq(Funcs)
      BY <2>1 DEF BindOK, BindTypes
    <2> QED BY SMTT(30), <1>1, <2>2
  <1>3. /\ owed \in [Funcs -> Nat] /\ IsFiniteSet(Debts(owed)) /\ delayed_status \in Nat
        /\ Cardinality(Debts(owed)) = delayed_status
    BY <1>1, DebtsNow
  <1>4. ~warned'
    BY <1>1 DEF OweOK, OweInv
  <1>5. CASE r = "delayed"
    <2>1. /\ owed[f] < MaxOwed /\ owed' = [owed EXCEPT ![f] = owed[f] + 1]
          /\ setif' = f /\ ctrl' = "busy"
      BY <1>5 DEF set_interface
    <2> HIDE DEF f
    <2>2. owed' \in [Funcs -> 0 .. MaxOwed] /\ owed' \in [Funcs -> Nat]
      <3>1. owed \in [Funcs -> 0 .. MaxOwed] /\ MaxOwed \in Nat
        BY Constants DEF OweOK, CtrlTypes
      <3>2. owed[f] + 1 \in 0 .. MaxOwed
        BY SMTT(30), <1>2, <2>1, <3>1
      <3> QED BY SMTT(30), <1>2, <2>1, <3>1, <3>2
    <2>3. owed'[f] = owed[f] + 1 /\ \A g \in Funcs : g # f => owed'[g] = owed[g]
      BY <1>2, <1>3, <2>1
    <2>4. /\ IsFiniteSet(Debts(owed'))
          /\ Cardinality(Debts(owed')) = Cardinality(Debts(owed)) + 1
      BY <1>2, <1>3, <2>2, <2>3, DebtMore
    <2>5. CtrlTypes'
      BY <1>1, <1>2, <2>1, <2>2 DEF OweOK, CtrlTypes
    <2>6. setif' # NONE
      BY <1>2, <2>1, Constants
    <2> QED BY <1>1, <1>3, <1>4, <2>1, <2>4, <2>5, <2>6, OweAfter
  <1>6. CASE r # "delayed"
    <2>1. ctrl' = "idle" /\ UNCHANGED <<owed, setif>>
      BY <1>6 DEF set_interface
    <2>2. CtrlTypes'
      BY <1>1, <2>1 DEF OweOK, CtrlTypes
    <2> QED BY <1>1, <1>3, <1>4, <2>1, <2>2, OweAfter
  <1> QED BY <1>5, <1>6

LEMMA CountOwe == ASSUME OweOK, set_interface_count PROVE OweOK'
  <1>1. /\ setif # NONE /\ setif' = NONE /\ ctrl' = "waiting"
        /\ delayed_status' = delayed_status + 1
        /\ UNCHANGED <<phase, owed, warned>>
    BY DEF set_interface_count
  <1>2. phase = "ready" /\ phase' = "ready" /\ ~warned'
    BY <1>1 DEF OweOK, OweInv
  <1>3. /\ IsFiniteSet(Debts(owed)) /\ delayed_status \in Nat
        /\ Cardinality(Debts(owed)) = delayed_status + 1
    BY <1>1, <1>2, DebtsNow
  <1>4. delayed_status + 1 \in Nat /\ delayed_status + 1 > 0
    BY SMTT(30), <1>3
  <1>5. CtrlTypes'
    BY <1>1, <1>4 DEF OweOK, CtrlTypes
  <1>6. delayed_status' > 0
    BY <1>1, <1>4
  <1> QED BY <1>1, <1>2, <1>3, <1>5, <1>6, OweAfter

\* On one processor a continuation finds its status counted: every debt is.
LEMMA ContinueOwe ==
    ASSUME OweOK, ~Smp, NEW f \in Funcs, usb_composite_setup_continue(f) PROVE OweOK'
  <1>1. /\ phase = "ready" /\ phase' = "ready" /\ owed[f] > 0 /\ setif = NONE
        /\ setif' = NONE /\ owed' = [owed EXCEPT ![f] = owed[f] - 1]
    BY DEF usb_composite_setup_continue
  <1>2. /\ owed \in [Funcs -> Nat] /\ IsFiniteSet(Debts(owed)) /\ delayed_status \in Nat
        /\ Cardinality(Debts(owed)) = delayed_status
    BY <1>1, DebtsNow
  <1>3. owed' \in [Funcs -> 0 .. MaxOwed] /\ owed' \in [Funcs -> Nat]
    <2>1. owed \in [Funcs -> 0 .. MaxOwed] /\ MaxOwed \in Nat
      BY Constants DEF OweOK, CtrlTypes
    <2>2. owed[f] - 1 \in 0 .. MaxOwed
      BY SMTT(30), <1>1, <2>1
    <2> QED BY SMTT(30), <1>1, <2>1, <2>2
  <1>4. owed[f] = owed'[f] + 1 /\ \A g \in Funcs : g # f => owed'[g] = owed[g]
    <2>1. owed'[f] = owed[f] - 1 /\ \A g \in Funcs : g # f => owed'[g] = owed[g]
      BY <1>1, <1>2
    <2>2. owed[f] = (owed[f] - 1) + 1
      BY SMTT(30), <1>2
    <2> QED BY <2>1, <2>2
  <1>5. /\ IsFiniteSet(Debts(owed'))
        /\ Cardinality(Debts(owed)) = Cardinality(Debts(owed')) + 1
    BY <1>2, <1>3, <1>4, DebtLess
  <1>6. Cardinality(Debts(owed')) \in Nat
    BY <1>5, FS_CardinalityType
  <1> DEFINE k == Cardinality(Debts(owed'))
  <1>7. k \in Nat /\ delayed_status = k + 1
    BY <1>2, <1>5, <1>6
  <1> HIDE DEF k
  <1>8. delayed_status # 0 /\ delayed_status - 1 = k /\ (delayed_status # 1 => k > 0)
    BY SMTT(30), <1>7
  <1>9. /\ delayed_status' = k /\ warned' = warned
        /\ ctrl' = IF delayed_status = 1 /\ ctrl = "waiting" THEN "idle" ELSE ctrl
    BY <1>8 DEF usb_composite_setup_continue
  <1>10. CtrlTypes' /\ ~warned'
    BY <1>1, <1>3, <1>7, <1>9, Constants DEF OweOK, CtrlTypes, OweInv
  <1>11. ctrl' = "waiting" => delayed_status' > 0
    <2>1. ctrl' = "waiting" => delayed_status # 1
      BY <1>9
    <2> QED BY <1>8, <1>9, <2>1
  <1> QED BY <1>1, <1>5, <1>9, <1>10, <1>11, OweAfter DEF k

LEMMA EventsOwe == ASSUME OweOK, Events PROVE OweOK'
  <1>1. CASE composite_disconnect
    <2>1. /\ phase = "ready" /\ phase' = "ready" /\ setif = NONE /\ ctrl' = "idle"
          /\ UNCHANGED <<delayed_status, owed, setif, warned>>
      BY <1>1 DEF composite_disconnect
    <2>2. IsFiniteSet(Debts(owed)) /\ Cardinality(Debts(owed)) = delayed_status
      BY <2>1, DebtsNow
    <2>3. CtrlTypes' /\ ~warned'
      BY <2>1 DEF OweOK, CtrlTypes, OweInv
    <2> QED BY <2>1, <2>2, <2>3, OweAfter
  <1> DEFINE Kept == UNCHANGED ctrlVars /\ phase' = phase
  <1>2. ASSUME NEW x, attach(x) PROVE Kept
    BY <1>2 DEF attach
  <1>3. ASSUME composite_suspend \/ composite_resume PROVE Kept
    BY <1>3 DEF composite_suspend, composite_resume
  <1>4. ASSUME NEW f, usb_function_deactivate(f) \/ usb_function_activate(f) PROVE Kept
    BY <1>4 DEF usb_function_deactivate, usb_function_activate
  <1>5. Kept => OweOK'
    BY OweFrame
  <1> HIDE DEF Kept
  <1> QED BY <1>1, <1>2, <1>3, <1>4, <1>5 DEF Events

LEMMA SetupOwe == ASSUME BindOK, RunOK, OweOK, Setup PROVE OweOK'
  <1>1. UNCHANGED <<phase, bindVars>>
    BY QuietBind
  <1>2. ASSUME NEW n, set_config_none(n) PROVE OweOK'
    BY <1>2, SetNoneOwe
  <1>3. ASSUME NEW c, NEW late, NEW fail, set_config(c, late, fail) PROVE OweOK'
    BY <1>1, <1>3, SetConfigOwe
  <1>4. ASSUME NEW c, set_config_oops(c) PROVE OweOK'
    <2>1. phase' = phase /\ UNCHANGED ctrlVars
      BY <1>4 DEF set_config_oops
    <2> QED BY <2>1, OweFrame
  <1>5. ASSUME NEW i, NEW r \in {"ok", "error", "delayed"}, set_interface(i, r)
        PROVE  OweOK'
    BY <1>5, SetInterfaceOwe
  <1>6. CASE set_interface_count
    BY <1>6, CountOwe
  <1>7. CASE endpoint_request_oops
    <2>1. phase' = phase /\ UNCHANGED ctrlVars
      BY <1>7 DEF endpoint_request_oops
    <2> QED BY <2>1, OweFrame
  <1> QED BY <1>2, <1>3, <1>4, <1>5, <1>6, <1>7 DEF Setup

LEMMA OweInductive ==
    ASSUME ~Smp, BindOK, RunOK, OweOK, [Next]_vars PROVE OweOK'
  <1>1. CASE UNCHANGED vars
    <2>1. phase' = phase /\ UNCHANGED ctrlVars
      BY <1>1 DEF vars
    <2> QED BY <2>1, OweFrame
  <1>2. CASE Next
    BY <1>2, BindOwe, SetupOwe, EventsOwe, ContinueOwe DEF Next, Continue
  <1> QED BY <1>1, <1>2

LEMMA InitOwe == ASSUME Init PROVE OweOK
  <1>1. owed \in [Funcs -> Nat] /\ \A f \in Funcs : owed[f] = 0
    BY DEF Init
  <1>2. Debts(owed) = {}
    BY <1>1, NoDebts
  <1>3. IsFiniteSet(Debts(owed)) /\ Cardinality(Debts(owed)) = 0
    BY <1>2, FS_EmptySet
  <1>4. CtrlTypes
    <2>1. 0 \in 0 .. MaxOwed
      BY SMTT(30), Constants
    <2> QED BY <2>1 DEF Init, CtrlTypes
  <1> QED BY <1>2, <1>3, <1>4 DEF Init, OweOK, OweInv

-----------------------------------------------------------------------------
(* The theorems about the lists, the requests and the status stages.       *)

LEMMA GadgetInvariance == Spec => [](BindOK /\ RunOK)
  <1>1. Init => BindOK /\ RunOK
    BY InitBind, InitRun
  <1>2. BindOK /\ RunOK /\ [Next]_vars => (BindOK /\ RunOK)'
    BY BindInductive, RunInductive
  <1> QED BY <1>1, <1>2, PTL DEF Spec

\* In a bound gadget exactly the functions of its configurations are bound,
\* also after a bind that failed half way and for any plan of configurations
\* (usb_add_config, usb_add_function, composite_unbind, usb_remove_config).
THEOREM BoundFunctionsAreListed == Spec => []BoundAreListed
  <1>1. BindOK => BoundAreListed
    BY DEF BindOK, BoundInv, Present, BoundAreListed
  <1> QED BY <1>1, GadgetInvariance, PTL

LEMMA FirstIs ==
    ASSUME NEW T, T \subseteq Nat, T # {} PROVE First(T) \in T
  BY NatMin DEF First

LEMMA EndpointOwner ==
    ASSUME BindOK, RunOK, config # NONE, NEW f \in Listed(config), NEW e \in endpoints[f]
    PROVE  endpoint_function(e) = f
  <1> DEFINE fs == functions[config]
             hits == {i \in DOMAIN fs : e \in endpoints[fs[i]]}
  <1>1. config \in Range(configs) /\ config \in Configs /\ f \in Range(fs)
    BY DEF RunOK, RunTypes, RunInv, Listed
  <1>2. fs \in Seq(Funcs)
    BY <1>1 DEF BindOK, BindTypes
  <1>3. PICK k \in DOMAIN fs : fs[k] = f
    BY <1>1 DEF Range
  <1>4. ASSUME NEW j \in hits PROVE fs[j] = f
    <2>1. fs[j] \in Range(fs) /\ fs[j] \in Funcs /\ f \in Funcs
      BY SMTT(30), <1>2, <1>3 DEF Range
    <2>2. e \in eps[fs[j]] /\ e \in eps[f]
      BY <2>1 DEF RunOK, RunInv
    <2> QED BY <1>1, <2>1, <2>2 DEF BindOK, ClaimInv
  <1>5. k \in hits /\ hits \subseteq Nat
    BY SMTT(30), <1>2, <1>3
  <1>6. endpoint_function(e) = IF hits = {} THEN NONE ELSE fs[First(hits)]
    BY DEF endpoint_function
  <1> HIDE DEF hits
  <1>7. First(hits) \in hits
    BY <1>5, FirstIs
  <1> QED BY <1>4, <1>5, <1>6, <1>7

\* A request for an endpoint in use reaches the function it belongs to, one
\* for an interface an enabled function of the selected configuration, and
\* no function outside it is in use: for any descriptors and any order of
\* requests, failures, disconnects and removals (set_config, reset_config,
\* composite_setup).
THEOREM RequestsReach == Spec => []RequestsReachOwner
  <1>1. BindOK /\ RunOK => RequestsReachOwner
    <2> SUFFICES ASSUME BindOK, RunOK PROVE RequestsReachOwner
      OBVIOUS
    <2>1. \A f \in Funcs : endpoints[f] # {} \/ f \in enabled =>
             config # NONE /\ f \in Listed(config)
      BY DEF RunOK, RunInv
    <2>2. ASSUME config # NONE, NEW f \in Listed(config), NEW e \in endpoints[f]
          PROVE  request_function("endpoint", e) = f
      BY <2>2, EndpointOwner DEF request_function
    <2>3. ASSUME config # NONE, NEW i \in 1 .. Len(interface[config])
          PROVE  request_function("interface", i) \in enabled \cap Listed(config)
      <3>1. config \in Range(configs) /\ config \in Configs
        BY <2>3 DEF RunOK, RunTypes, RunInv
      <3>2. interface[config] \in Seq(Funcs)
        BY <3>1 DEF BindOK, BindTypes
      <3>3. interface[config][i] \in Range(interface[config])
        BY SMTT(30), <3>2 DEF Range
      <3>4. interface[config][i] \in enabled
        BY <2>3, <3>3 DEF RunOK, RunInv
      <3>5. interface[config][i] \in Listed(config)
        BY <2>3, <3>1, <3>3 DEF BindOK, ClaimInv, Listed
      <3>6. request_function("interface", i) = interface[config][i]
        BY <2>3 DEF request_function
      <3> QED BY <3>4, <3>5, <3>6
    <2> QED BY <2>1, <2>2, <2>3 DEF RequestsReachOwner
  <1> QED BY <1>1, GadgetInvariance, PTL

LEMMA DescribedByIndex ==
    ASSUME BindOK, NEW other, NEW index \in Nat
    PROVE  (config_desc(index, other) # NONE) <=> index < count_configs(other)
  <1> DEFINE U == Usable(other)
             hits == {i \in U : Cardinality({j \in U : j < i}) = index}
  <1>1. configs \in Seq(Configs) /\ Len(configs) \in Nat
    BY SMTT(30) DEF BindOK, BindTypes
  <1>2. U \in SUBSET (1 .. Len(configs)) /\ \A i \in U : configs[i] \in Configs
    BY SMTT(30), <1>1 DEF Usable
  <1>3. config_desc(index, other) = IF hits = {} THEN NONE ELSE configs[First(hits)]
    BY DEF config_desc
  <1>4. hits # {} <=> index < Cardinality(U)
    <2> HIDE DEF U
    <2>1. index < Cardinality(U) <=> \E i \in U : Rank(U, i) = index
      BY <1>1, <1>2, Ranks
    <2> QED BY <2>1 DEF Rank
  <1>5. ASSUME hits # {} PROVE configs[First(hits)] # NONE
    <2>1. hits \subseteq U /\ hits \subseteq Nat
      BY SMTT(30), <1>2
    <2> HIDE DEF hits
    <2>2. First(hits) \in U
      BY <1>5, <2>1, FirstIs
    <2> QED BY <1>2, <2>2, Constants
  <1> HIDE DEF hits
  <1> QED BY <1>3, <1>4, <1>5 DEF count_configs

LEMMA StringOwner ==
    ASSUME BindOK, phase = "ready", NEW c \in Range(configs),
           NEW f \in Range(functions[c]), NEW id \in strid[f]
    PROVE  get_string(id) = f
  <1> DEFINE owners == {g \in UNION {Range(functions[d]) : d \in Range(configs)} :
                           id \in strid[g]}
  <1>1. f \in Funcs /\ f \in owners
    BY ListedAreOf DEF BindOK
  <1>2. override # id
    BY <1>1 DEF BindOK, StringInv
  <1>3. ASSUME NEW g \in owners PROVE g = f
    <2>1. PICK d \in Range(configs) : g \in Range(functions[d])
      OBVIOUS
    <2>2. BindTypes /\ ListInv /\ StringInv
      BY DEF BindOK
    <2>3. g \in Funcs
      BY <2>1, <2>2, ListedAreOf
    <2> QED BY <1>1, <2>2, <2>3 DEF StringInv
  <1>4. owners = {f}
    BY <1>1, <1>3
  <1>5. get_string(id) = IF owners = {} THEN NONE ELSE CHOOSE g \in owners : TRUE
    BY <1>2 DEF get_string
  <1> HIDE DEF owners
  <1> QED BY <1>4, <1>5

\* What the host enumerates is complete: a configuration descriptor can be
\* read for each index below the announced number and for no other, and a
\* string id names the string of the function that was given it (count_configs,
\* config_desc, get_string).
THEOREM EnumerationIsComplete == Spec => []EnumerationComplete
  <1>1. BindOK => EnumerationComplete
    <2> SUFFICES ASSUME BindOK, phase = "ready" PROVE EnumerationComplete
      BY DEF EnumerationComplete
    <2>1. \A other \in BOOLEAN : \A i \in 0 .. Len(Plan) :
             (config_desc(i, other) # NONE) <=> i < count_configs(other)
      <3>1. \A i \in 0 .. Len(Plan) : i \in Nat
        BY SMTT(30), Constants
      <3> QED BY <3>1, DescribedByIndex
    <2>2. \A c \in Range(configs) : \A f \in Range(functions[c]) :
             \A id \in strid[f] : get_string(id) = f
      BY StringOwner
    <2> QED BY <2>1, <2>2 DEF EnumerationComplete
  <1> QED BY <1>1, GadgetInvariance, PTL

\* On one processor a host that waits for a status stage waits for a function
\* that has still to call, and no call is unexpected, for any number of
\* delayed stages left over from before (set_config, composite_setup,
\* usb_composite_setup_continue).  With a second processor it fails.
THEOREM StatusIsOwed == ASSUME ~Smp PROVE Spec => []DelayedStatusMatches
  <1> DEFINE Inv == BindOK /\ RunOK /\ OweOK
  <1>1. Init => Inv
    BY InitBind, InitRun, InitOwe
  <1>2. Inv /\ [Next]_vars => Inv'
    BY BindInductive, RunInductive, OweInductive
  <1>3. Inv => DelayedStatusMatches
    <2> SUFFICES ASSUME OweOK PROVE DelayedStatusMatches
      OBVIOUS
    <2>1. ~warned
      BY DEF OweOK, OweInv
    <2>2. ASSUME ctrl = "waiting" PROVE \E f \in Funcs : owed[f] > 0
      <3>1. phase = "ready" /\ setif = NONE /\ delayed_status > 0
        BY <2>2 DEF OweOK, OweInv
      <3>2. /\ owed \in [Funcs -> Nat] /\ delayed_status \in Nat
            /\ Cardinality(Debts(owed)) = delayed_status
        BY <3>1, DebtsNow
      <3>3. Debts(owed) # {}
        BY SMTT(30), <3>1, <3>2, FS_EmptySet
      <3>4. PICK f \in Funcs : owed[f] # 0
        BY <3>2, <3>3, NoDebts
      <3> QED BY SMTT(30), <3>2, <3>4
    <2> QED BY <2>1, <2>2 DEF DelayedStatusMatches
  <1> HIDE DEF Inv
  <1> QED BY <1>1, <1>2, <1>3, PTL DEF Spec

-----------------------------------------------------------------------------
(* Type correctness, with any number of processors.                        *)

BusTypes ==
    /\ held \subseteq HoldFuncs /\ pullup \in BOOLEAN /\ suspended \in BOOLEAN
    /\ bus \in {"off", "active", "asleep"} /\ speed \in Speeds
    /\ draw \in Nat /\ oops \in {NONE, "nodesc", "noconfig"}

LEMMA PowerType ==
    /\ UnitLoad \in Nat /\ SuspendDraw \in Nat
    /\ \A c \in Configs : PowerOf(c) \in Nat
  <1>1. \A c \in Configs : Power[c] \in Nat
    BY Constants
  <1> QED BY SMTT(30), <1>1 DEF UnitLoad, SuspendDraw, VbusDraw, PowerOf

LEMMA CtrlFrame == ASSUME CtrlTypes, UNCHANGED ctrlVars PROVE CtrlTypes'
  BY DEF ctrlVars, CtrlTypes

LEMMA BusFrame ==
    ASSUME BusTypes, UNCHANGED <<holdVars, busVars, oops>> PROVE BusTypes'
  BY DEF holdVars, busVars, BusTypes

LEMMA UnbindTypes ==
    ASSUME CtrlTypes, BusTypes, NEW L, composite_unbind(L) PROVE CtrlTypes' /\ BusTypes'
  <1>1. /\ owed' = [f \in Funcs |-> 0] /\ ctrl' = "idle" /\ setif' = NONE
        /\ held' = {} /\ pullup' = TRUE
        /\ UNCHANGED <<delayed_status, warned, bus, speed, suspended, draw, oops>>
    BY DEF composite_unbind, busVars
  <1>2. 0 \in 0 .. MaxOwed
    BY SMTT(30), Constants
  <1> QED BY <1>1, <1>2 DEF CtrlTypes, BusTypes

LEMMA BindKeepsTypes ==
    ASSUME CtrlTypes, BusTypes, Bind PROVE CtrlTypes' /\ BusTypes'
  <1> DEFINE Kept == UNCHANGED ctrlVars /\ UNCHANGED <<holdVars, busVars, oops>>
             Gone == \E L : composite_unbind(L)
  <1>1. Kept \/ Gone => CtrlTypes' /\ BusTypes'
    BY CtrlFrame, BusFrame, UnbindTypes
  <1>2. CASE usb_composite_probe
    <2>1. /\ delayed_status' = 0 /\ warned' = FALSE /\ suspended' = FALSE
          /\ UNCHANGED <<owed, ctrl, setif, held, pullup, bus, speed, draw, oops>>
      BY <1>2 DEF usb_composite_probe, holdVars
    <2> QED BY <2>1 DEF CtrlTypes, BusTypes
  <1>3. ASSUME bind_fails \/ usb_composite_unregister PROVE Gone
    BY <1>3 DEF bind_fails, usb_composite_unregister
  <1>4. ASSUME NEW c, usb_add_config(c) PROVE Kept \/ Gone
    BY <1>4 DEF usb_add_config
  <1>5. ASSUME NEW n, usb_add_function(n) PROVE Kept
    BY <1>5 DEF usb_add_function
  <1>6. ASSUME config_bound PROVE Kept
    BY <1>6 DEF config_bound
  <1>7. ASSUME composite_bind PROVE Kept \/ Gone
    BY <1>7 DEF composite_bind
  <1>8. ASSUME NEW c, usb_remove_config(c) PROVE Kept
    BY <1>8 DEF usb_remove_config
  <1> HIDE DEF Kept, Gone
  <1> QED BY <1>1, <1>2, <1>3, <1>4, <1>5, <1>6, <1>7, <1>8 DEF Bind

LEMMA SetupKeepsTypes ==
    ASSUME BindOK, RunOK, CtrlTypes, BusTypes, Setup PROVE CtrlTypes' /\ BusTypes'
  <1>1. ASSUME NEW n, set_config_none(n) PROVE CtrlTypes' /\ BusTypes'
    <2>1. /\ draw' = UnitLoad /\ (ctrl' = "idle" \/ Reply)
          /\ UNCHANGED <<delayed_status, owed, setif, warned>>
          /\ UNCHANGED <<held, pullup, bus, speed, suspended, oops>>
      BY <1>1 DEF set_config_none, holdVars
    <2>2. ctrl' \in {"idle", "waiting"}
      BY <2>1 DEF Reply
    <2> QED BY <2>1, <2>2, PowerType DEF CtrlTypes, BusTypes
  <1>2. ASSUME NEW c \in Configs, NEW late \in SUBSET (1 .. MaxInterfaces), NEW fail,
               set_config(c, late, fail)
        PROVE  CtrlTypes' /\ BusTypes'
    <2>1. /\ draw' \in {UnitLoad, PowerOf(c)} /\ (ctrl' = "idle" \/ Reply)
          /\ delayed_status' = delayed_status + Cardinality(late)
          /\ UNCHANGED <<setif, warned>>
          /\ UNCHANGED <<held, pullup, bus, speed, suspended, oops>>
      BY <1>2 DEF set_config, holdVars
    <2>2. owed' \in [Funcs -> 0 .. MaxOwed]
      BY <1>2 DEF set_config
    <2>3. Cardinality(late) \in Nat
      <3>1. IsFiniteSet(1 .. MaxInterfaces)
        BY SMTT(30), FS_Interval, Constants
      <3> QED BY <3>1, FS_Subset, FS_CardinalityType
    <2>4. delayed_status + Cardinality(late) \in Nat
      BY SMTT(30), <2>3 DEF CtrlTypes
    <2>5. ctrl' \in {"idle", "waiting"}
      BY <2>1 DEF Reply
    <2>6. draw' \in Nat
      BY <2>1, PowerType
    <2> QED BY <2>1, <2>2, <2>4, <2>5, <2>6 DEF CtrlTypes, BusTypes
  <1>3. ASSUME (\E c \in Configs : set_config_oops(c)) \/ endpoint_request_oops
        PROVE  CtrlTypes' /\ BusTypes'
    <2>1. /\ oops' \in {"nodesc", "noconfig"} /\ UNCHANGED ctrlVars
          /\ UNCHANGED <<held, pullup, bus, speed, suspended, draw>>
      BY <1>3 DEF set_config_oops, endpoint_request_oops, holdVars, busVars
    <2> QED BY <2>1, CtrlFrame DEF BusTypes
  <1>4. ASSUME NEW i, NEW r \in {"ok", "error", "delayed"}, set_interface(i, r)
        PROVE  CtrlTypes' /\ BusTypes'
    <2> DEFINE f == interface[config][i]
    <2>1. /\ UNCHANGED <<holdVars, busVars, oops>> /\ UNCHANGED <<delayed_status, warned>>
          /\ config # NONE /\ i \in 1 .. Len(interface[config])
      BY <1>4 DEF set_interface
    <2>2. f \in Funcs
      <3>1. config \in Configs
        BY <2>1 DEF RunOK, RunTypes
      <3>2. interface[config] \in Seq(Funcs)
        BY <3>1 DEF BindOK, BindTypes
      <3> QED BY SMTT(30), <2>1, <3>2
    <2>3. CASE r = "delayed"
      <3>1. /\ owed[f] < MaxOwed /\ owed' = [owed EXCEPT ![f] = owed[f] + 1]
            /\ setif' = f /\ ctrl' = "busy"
        BY <1>4, <2>3 DEF set_interface
      <3> HIDE DEF f
      <3>2. owed[f] \in 0 .. MaxOwed /\ MaxOwed \in Nat
        BY <2>2, Constants DEF CtrlTypes
      <3>3. owed[f] + 1 \in 0 .. MaxOwed
        BY SMTT(30), <3>1, <3>2
      <3> QED BY <2>1, <2>2, <3>1, <3>3, BusFrame DEF CtrlTypes
    <2>4. CASE r # "delayed"
      <3>1. ctrl' = "idle" /\ UNCHANGED <<owed, setif>>
        BY <1>4, <2>4 DEF set_interface
      <3> QED BY <2>1, <3>1, BusFrame DEF CtrlTypes
    <2> QED BY <2>3, <2>4
  <1>5. CASE set_interface_count
    <2>1. /\ delayed_status' = delayed_status + 1 /\ setif' = NONE /\ ctrl' = "waiting"
          /\ UNCHANGED <<owed, warned>> /\ UNCHANGED <<holdVars, busVars, oops>>
      BY <1>5 DEF set_interface_count
    <2>2. delayed_status + 1 \in Nat
      BY SMTT(30) DEF CtrlTypes
    <2> QED BY <2>1, <2>2, BusFrame DEF CtrlTypes
  <1> QED BY <1>1, <1>2, <1>3, <1>4, <1>5 DEF Setup

LEMMA ContinueKeepsTypes ==
    ASSUME CtrlTypes, BusTypes, NEW f \in Funcs, usb_composite_setup_continue(f)
    PROVE  CtrlTypes' /\ BusTypes'
  <1>1. /\ owed[f] > 0 /\ owed' = [owed EXCEPT ![f] = owed[f] - 1] /\ setif' = setif
        /\ UNCHANGED <<holdVars, busVars, oops>>
    BY DEF usb_composite_setup_continue
  <1>2. owed[f] - 1 \in 0 .. MaxOwed
    <2>1. owed[f] \in 0 .. MaxOwed /\ MaxOwed \in Nat
      BY Constants DEF CtrlTypes
    <2> QED BY SMTT(30), <1>1, <2>1
  <1>3. /\ delayed_status' \in {delayed_status, delayed_status - 1}
        /\ delayed_status = 0 => delayed_status' = delayed_status
        /\ ctrl' \in {ctrl, "idle"} /\ warned' \in {warned, TRUE}
    BY DEF usb_composite_setup_continue
  <1>4. delayed_status' \in Nat
    <2>1. delayed_status # 0 => delayed_status - 1 \in Nat
      BY SMTT(30) DEF CtrlTypes
    <2> QED BY <1>3, <2>1 DEF CtrlTypes
  <1> QED BY <1>1, <1>2, <1>3, <1>4, BusFrame DEF CtrlTypes

LEMMA EventsKeepTypes ==
    ASSUME RunOK, CtrlTypes, BusTypes, Events PROVE CtrlTypes' /\ BusTypes'
  <1> USE DEF holdVars
  <1>1. ASSUME NEW x \in Speeds, attach(x) PROVE CtrlTypes' /\ BusTypes'
    <2>1. /\ bus' = "active" /\ speed' = x /\ UNCHANGED ctrlVars
          /\ UNCHANGED <<held, pullup, suspended, draw, oops>>
      BY <1>1 DEF attach
    <2> QED BY <2>1, CtrlFrame DEF BusTypes
  <1>2. CASE composite_disconnect
    BY <1>2 DEF composite_disconnect, CtrlTypes, BusTypes
  <1>3. CASE composite_suspend
    <2>1. /\ bus' = "asleep" /\ suspended' = TRUE /\ draw' = SuspendDraw
          /\ UNCHANGED ctrlVars /\ UNCHANGED <<held, pullup, speed, oops>>
      BY <1>3 DEF composite_suspend
    <2> QED BY <2>1, CtrlFrame, PowerType DEF BusTypes
  <1>4. CASE composite_resume
    <2>1. /\ bus' = "active" /\ suspended' = FALSE
          /\ draw' = IF config # NONE THEN PowerOf(config) ELSE draw
          /\ UNCHANGED ctrlVars /\ UNCHANGED <<held, pullup, speed, oops>>
      BY <1>4 DEF composite_resume
    <2>2. draw' \in Nat
      BY <2>1, PowerType DEF RunOK, RunTypes, BusTypes
    <2> QED BY <2>1, <2>2, CtrlFrame DEF BusTypes
  <1>5. ASSUME NEW f \in HoldFuncs, usb_function_deactivate(f) \/ usb_function_activate(f)
        PROVE  CtrlTypes' /\ BusTypes'
    <2>1. /\ held' \in {held \cup {f}, held \ {f}} /\ pullup' \in {pullup, TRUE, FALSE}
          /\ UNCHANGED ctrlVars /\ UNCHANGED <<bus, speed, suspended, draw, oops>>
      BY <1>5 DEF usb_function_deactivate, usb_function_activate, busVars
    <2> QED BY <2>1, CtrlFrame DEF BusTypes
  <1> QED BY <1>1, <1>2, <1>3, <1>4, <1>5 DEF Events

\* Every variable keeps its type: no list, table or count leaves its bounds,
\* with one processor or more.
THEOREM GadgetTypes == Spec => []TypeOK
  <1> DEFINE Inv == BindOK /\ RunOK /\ HoldInv /\ CtrlTypes /\ BusTypes
  <1>1. Init => Inv
    <2> SUFFICES ASSUME Init PROVE Inv
      OBVIOUS
    <2>1. CtrlTypes
      <3>1. 0 \in 0 .. MaxOwed
        BY SMTT(30), Constants
      <3> QED BY <3>1 DEF Init, CtrlTypes
    <2>2. BusTypes
      BY PowerType DEF Init, BusTypes, Speeds
    <2> QED BY <2>1, <2>2, InitBind, InitRun, HoldInitially
  <1>2. Inv /\ [Next]_vars => Inv'
    <2> SUFFICES ASSUME Inv, [Next]_vars PROVE CtrlTypes' /\ BusTypes'
      BY BindInductive, RunInductive, HoldInductive
    <2>1. CASE UNCHANGED vars
      <3>1. UNCHANGED ctrlVars /\ UNCHANGED <<holdVars, busVars, oops>>
        BY <2>1 DEF vars
      <3> QED BY <3>1, CtrlFrame, BusFrame
    <2>2. CASE Next
      BY <2>2, BindKeepsTypes, SetupKeepsTypes, EventsKeepTypes, ContinueKeepsTypes
      DEF Next, Continue
    <2> QED BY <2>1, <2>2
  <1>3. Inv => TypeOK
    <2> SUFFICES ASSUME Inv PROVE TypeOK
      OBVIOUS
    <2>1. deactivations \in Nat
      BY FS_CardinalityType DEF HoldInv
    <2> QED BY <2>1 DEF BindOK, BindTypes, RunOK, RunTypes, CtrlTypes, BusTypes, TypeOK
  <1> HIDE DEF Inv
  <1> QED BY <1>1, <1>2, <1>3, PTL DEF Spec
=============================================================================
