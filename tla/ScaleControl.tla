---------------------------- MODULE ScaleControl ----------------------------
(***************************************************************************)
(* The control side of the scale gadget (test_gadget/scale_usb.c, built    *)
(* with NEW_STYLE and DMX512_DUMMY): loading and binding, the control      *)
(* requests, disconnect, and open, release and ioctl of the character      *)
(* device.  Reads and writes are in ScaleIo.  The controller driver is     *)
(* external: it calls setup and disconnect, and enabling an endpoint may   *)
(* fail; without a descriptor or an endpoint it does.                      *)
(***************************************************************************)
EXTENDS Integers, FiniteSets

CONSTANT Procs      \* processes that open the device

NONE == "NONE"
SCALE_INTERFACE == 0

VARIABLES
    loaded,     \* the module is loaded
    bound,      \* scale_bind has returned 0
    node,       \* the device node and the cdev exist
    config,     \* dev->config
    interface,  \* dev->interface
    desc,       \* dev->in and dev->out are set
    epOn,       \* the endpoints that are enabled
    test_ep,    \* testin_ep[i] and testout_ep[i]: which of the two are set
    bus,        \* whether the gadget is connected to a host
    files,      \* processes that have the device open
    open,       \* dev->scale_cdev_open
    status,     \* dev->scale_status, the set of its two bits
    spoken,     \* a control request has come since the last disconnect
    crash       \* none, or the function that followed a bad pointer

loadVars == <<loaded, bound, node>>
usbVars == <<config, interface, desc, epOn, test_ep, bus, spoken>>
fileVars == <<files, open, status>>
controlVars == <<loadVars, usbVars, fileVars, crash>>

StatusBits == {"not_error", "selected"}
Pairs == 0 .. 3
Both == {"in", "out"}

ControlInit ==
    /\ loaded = FALSE /\ bound = FALSE /\ node = FALSE
    /\ config = 0 /\ interface = 0 /\ desc = FALSE /\ epOn = {}
    /\ test_ep = [i \in Pairs |-> {}]
    /\ bus = FALSE /\ spoken = FALSE
    /\ files = {} /\ open = FALSE /\ status = {} /\ crash = NONE

-----------------------------------------------------------------------------
(* Loading and unloading.                                                  *)

\* What adb_create_bulk_endpoints leaves in its pair when the controller has
\* the endpoints `found': without an IN endpoint it does not ask for the
\* other.  The requests it allocates then, or fails to, are used by nothing.
adb_create_bulk_endpoints(found) == IF "in" \in found THEN found ELSE {}

\* scale_bind to its end: the device is reset to its initial state.  Three of
\* the four test pairs are created, with the result ignored; the first is
\* the one in use and is followed at once.
scale_bind ==
    /\ bound' = TRUE /\ node' = TRUE
    /\ config' = 0 /\ interface' = -1 /\ open' = FALSE
    /\ status' = {"not_error"}
    /\ \E found \in [0 .. 2 -> SUBSET Both] :
          test_ep' = [i \in Pairs |->
              IF i \in 0 .. 2 THEN adb_create_bulk_endpoints(found[i]) ELSE {}]
    /\ crash' = IF test_ep'[0] = Both THEN NONE ELSE "scale_bind"

\* scale_bind gives up: no string id, endpoint or request is left.  Device
\* node and cdev stay.
scale_bind_returns ==
    /\ node' = TRUE
    /\ UNCHANGED <<bound, config, interface, test_ep, open, status, crash>>

\* ... or at its label fail, where scale_unbind takes the gadget's data for
\* a scale_dev, while it still is the composite device.
scale_bind_fail ==
    /\ node' \in BOOLEAN /\ crash' = "scale_unbind"
    /\ UNCHANGED <<bound, config, interface, test_ep, open, status>>

\* init: the result of usb_composite_probe is not looked at.  The device
\* node of an earlier load makes class_create fail.
init ==
    /\ ~loaded /\ loaded' = TRUE /\ ~node
    /\ scale_bind \/ scale_bind_returns \/ scale_bind_fail
    /\ UNCHANGED <<desc, epOn, bus, spoken, files>>

\* cleanup: the controller disconnects and calls unbind, which is still
\* composite_unbind and takes the scale_dev for a composite device.
cleanup ==
    /\ loaded /\ files = {} /\ ~bus
    /\ loaded' = FALSE /\ bound' = FALSE
    /\ crash' \in (IF bound THEN {NONE, "composite_unbind"} ELSE {NONE})
    /\ UNCHANGED <<node, usbVars, fileVars>>

-----------------------------------------------------------------------------
(* Control requests.  Each is one call of scale_setup, which ends by       *)
(* marking the interface as selected whatever the request was.             *)

Request == bound /\ bus /\ spoken' = TRUE /\ interface' = SCALE_INTERFACE

\* set_scale_interface: both endpoints are enabled, or none; ok says whether
\* the IN or the OUT endpoint fails.
set_scale_interface(ok) ==
    /\ desc' = (ok = "both")
    /\ epOn' = IF ok = "both" THEN Both ELSE {}

\* SET_CONFIGURATION: a number other than 0 and 1 is an error that keeps
\* the configuration; the endpoints are enabled in every case.
scale_set_config(number, ok) ==
    /\ Request
    /\ config' = IF number \in {0, 1} THEN number ELSE config
    /\ set_scale_interface(ok)
    /\ UNCHANGED <<loadVars, test_ep, bus, fileVars, crash>>

\* SET_INTERFACE: the interface is reset and set again, and set_scale_interface
\* decides whatever scale_reset_interface did before.
set_interface(ok) ==
    /\ Request /\ config # 0
    /\ set_scale_interface(ok)
    /\ UNCHANGED <<loadVars, config, test_ep, bus, fileVars, crash>>

\* The class request soft reset.  The endpoints in use are disabled and
\* enabled again; the loop behind that enables all four test pairs, and
\* crashes on one that is not set.
scale_soft_reset ==
    /\ Request
    /\ crash' = IF \E i \in Pairs : test_ep[i] # Both THEN "scale_soft_reset"
                ELSE NONE
    /\ UNCHANGED <<loadVars, config, desc, epOn, test_ep, bus, fileVars>>

\* Every other request, answered or stalled, changes no more than Request.
scale_setup_other ==
    /\ Request
    /\ UNCHANGED <<loadVars, config, desc, epOn, test_ep, bus, fileVars,
                   crash>>

\* External: the host sees the gadget.
attach ==
    /\ bound /\ ~bus /\ bus' = TRUE
    /\ UNCHANGED <<loadVars, config, interface, desc, epOn, test_ep, spoken,
                   fileVars, crash>>

\* A plausible slip: a configuration that was set to 0 counts as reset.
scale_disconnect_unconfigured ==
    /\ bound /\ bus /\ bus' = FALSE /\ spoken' = FALSE
    /\ interface' = -1
    /\ epOn' = (IF config = 0 THEN epOn ELSE {})
    /\ UNCHANGED <<loadVars, config, desc, test_ep, fileVars, crash>>

\* scale_reset_interface: an interface that is not selected is left alone, and
\* so is an endpoint without its descriptor.
scale_reset_interface ==
    IF interface < 0 THEN UNCHANGED <<epOn, interface>>
    ELSE epOn' = (IF desc THEN {} ELSE epOn) /\ interface' = -1

scale_disconnect ==
    /\ bound /\ bus /\ bus' = FALSE /\ spoken' = FALSE
    /\ scale_reset_interface
    /\ UNCHANGED <<loadVars, config, desc, test_ep, fileVars, crash>>

-----------------------------------------------------------------------------
(* The character device.                                                   *)

scale_open(p) ==
    /\ loaded /\ node /\ p \notin files /\ ~open
    /\ files' = files \cup {p} /\ open' = TRUE
    /\ status' = status \cup {"selected"}
    /\ UNCHANGED <<loadVars, usbVars, crash>>

\* The cdev outlives the module that its operations are in.
scale_open_unloaded ==
    /\ ~loaded /\ node /\ crash' = "scale_open"
    /\ UNCHANGED <<loadVars, usbVars, fileVars>>

scale_close(p) ==
    /\ p \in files
    /\ files' = files \ {p} /\ open' = FALSE
    /\ status' = status \ {"selected"}
    /\ UNCHANGED <<loadVars, usbVars, crash>>

\* SET_SCALE_USB_STATUS
scale_ioctl(p, s) ==
    /\ p \in files /\ status' = s
    /\ UNCHANGED <<loadVars, usbVars, files, open, crash>>

\* GET_SCALE_USB_STATUS: the connected bit of what it reports.
is_connected == interface >= 0

ControlNext ==
    /\ crash = NONE
    /\ \/ init \/ cleanup \/ attach \/ scale_disconnect
       \/ \E ok \in {"both", "in", "out"} :
             \/ \E n \in {0, 1, 2} : scale_set_config(n, ok)
             \/ set_interface(ok)
       \/ scale_soft_reset \/ scale_setup_other \/ scale_open_unloaded
       \/ \E p \in Procs : \/ scale_open(p) \/ scale_close(p)
                           \/ \E s \in SUBSET StatusBits : scale_ioctl(p, s)

ControlSpec == ControlInit /\ [][ControlNext]_controlVars

-----------------------------------------------------------------------------
\* The types of the driver's state; the configuration is 0 or 1 whatever the
\* host asks for.
ControlTypeOK ==
    /\ {loaded, bound, node, desc, bus, open, spoken} \subseteq BOOLEAN
    /\ config \in {0, 1} /\ interface \in {-1, SCALE_INTERFACE}
    /\ epOn \subseteq Both /\ test_ep \in [Pairs -> SUBSET Both]
    /\ files \subseteq Procs /\ status \subseteq StatusBits
    /\ crash \in {NONE, "scale_bind", "scale_unbind", "scale_soft_reset",
                 "composite_unbind", "scale_open"}

\* Without a host the endpoints are disabled, although SET_CONFIGURATION
\* enables them without selecting the interface and a disconnect resets
\* only a selected interface (scale_usb.c 1071-1135, 1690-1707).
DisabledWhenGone == ~bus => epOn = {}

\* The endpoints are on as a pair, and only while the driver remembers the
\* descriptors it has to switch them off with (1036-1069).
EndpointsPaired == epOn # {} => epOn = Both /\ desc

\* GET_SCALE_USB_STATUS says connected exactly when the host has made a
\* request since it was attached (982-1002, 1690).
ReportsConnection == bound => (is_connected <=> spoken)

\* One process at a time has the device open, and the flag that keeps the
\* others out is cleared by nobody else's release (594-638).
OpenIsExclusive == Cardinality(files) <= 1 /\ (files # {} => open)

\* The endpoints are on as a pair and off without a host, the reported
\* connection is that of the host, and one process has the device open
\* (scale_setup, scale_disconnect, scale_open, scale_ioctl).
ControlSafe == /\ ControlTypeOK /\ DisabledWhenGone /\ EndpointsPaired
               /\ ReportsConnection /\ OpenIsExclusive
=============================================================================
