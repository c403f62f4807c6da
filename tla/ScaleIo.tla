------------------------------ MODULE ScaleIo ------------------------------
(***************************************************************************)
(* test_gadget/scale_usb.c: the bulk data path of the USB scale gadget.    *)
(* Two pools of requests travel between the driver's lists and the         *)
(* endpoint queues of the USB device controller; threads read, write,      *)
(* fsync and poll through one character device; the controller's           *)
(* completions, control requests and disconnects interrupt them.           *)
(*                                                                         *)
(* dev->lock is a spinlock taken with interrupts off, lock_scale_io a      *)
(* mutex held for a whole read or write, its sleep included.  An action    *)
(* is a section between two points where another context can run.  The     *)
(* bytes of the host are numbered; a filled request holds an interval of   *)
(* them.  reset_scale is left out: only the soft reset sets it, and that   *)
(* does not return.                                                        *)
(***************************************************************************)
EXTENDS Integers, Sequences, FiniteSets

CONSTANTS
    Threads,     \* threads using the character device
    RxReqs,      \* OUT requests (QLEN of them)
    TxReqs,      \* IN requests (QLEN of them)
    NoThread,
    NoReq,
    SMP,         \* TRUE: completions may run on another processor
    MaxLen,      \* bound: bytes of a read, requests of a write
    MaxBytes     \* bound: bytes the host sends

ASSUME ScaleIoAssumption ==
    /\ NoThread \notin Threads
    /\ NoReq \notin RxReqs \cup TxReqs
    /\ RxReqs \cap TxReqs = {} /\ IsFiniteSet(RxReqs) /\ IsFiniteSet(TxReqs)
    /\ SMP \in BOOLEAN
    /\ MaxLen \in Nat
    /\ MaxBytes \in Nat

VARIABLES
    rx_reqs, rx_reqs_active,   \* free and active OUT requests
    rx_buffers,                \* completed OUT requests, oldest first, each
                               \* with its bytes, from lo up to hi - 1
    current_rx,                \* current_rx_req, with its bytes still unread
    tx_reqs, tx_reqs_active,   \* free and active IN requests
    lock_scale_io, lock,       \* the owner of the mutex, of the spinlock
    interface,                 \* -1: not connected
    config,
    pc,                        \* pc[t]: the next section of thread t
    loc,                       \* loc[t]: its locals
    outq, inq,                 \* endpoint queues of the controller (external)
    enabled,                   \* the bulk endpoints are enabled (external)
    broken,                    \* why the kernel has stopped
    sent, got                  \* history: bytes the host sent, bytes read

rxVars == <<rx_reqs, rx_reqs_active, rx_buffers, current_rx, outq>>
txVars == <<tx_reqs, tx_reqs_active, inq>>
ctlVars == <<interface, config, enabled>>
thrVars == <<pc, loc>>
vars == <<rxVars, txVars, ctlVars, thrVars, lock_scale_io, lock, broken, sent,
          got>>

Span == [req : RxReqs \cup {NoReq}, lo : Nat, hi : Nat]
NoSpan == [req |-> NoReq, lo |-> 0, hi |-> 0]
NoLocals == [op |-> "none", nonblock |-> FALSE, fault |-> FALSE, len |-> 0,
             req |-> NoReq, cur |-> NoSpan]

Init ==
    /\ rx_reqs = RxReqs
    /\ rx_reqs_active = {}
    /\ rx_buffers = <<>>
    /\ current_rx = NoSpan
    /\ tx_reqs = TxReqs
    /\ tx_reqs_active = {}
    /\ lock_scale_io = NoThread
    /\ lock = NoThread
    /\ interface = -1
    /\ config = 0
    /\ pc = [t \in Threads |-> "idle"]
    /\ loc = [t \in Threads |-> NoLocals]
    /\ outq = <<>>
    /\ inq = {}
    /\ enabled = FALSE
    /\ broken = "no"
    /\ sent = 0
    /\ got = 0

Goto(t, to) == pc' = [pc EXCEPT ![t] = to]
Bytes(span) == span.hi - span.lo

\* A call of operation op; the mutex, if it needs it, comes next.
Enter(t, op, first, n, nonblock, fault) ==
    /\ pc[t] = "idle"
    /\ loc' = [loc EXCEPT ![t] = [NoLocals EXCEPT !.op = op, !.len = n,
                                  !.nonblock = nonblock, !.fault = fault]]
    /\ Goto(t, first)
    /\ UNCHANGED <<rxVars, txVars, ctlVars, lock_scale_io, lock, broken, sent,
                   got>>

\* Back to user mode, with the mutex released.
Return(t) ==
    /\ Goto(t, "idle")
    /\ loc' = [loc EXCEPT ![t] = NoLocals]
    /\ lock_scale_io' = NoThread
    /\ lock' = NoThread

Locks(t) ==
    /\ lock_scale_io = NoThread
    /\ lock = NoThread
    /\ lock_scale_io' = t

-----------------------------------------------------------------------------
(* setup_rx_reqs, called by read and poll with dev->lock held.             *)

\* The head of rx_reqs goes to the controller ...
SetupQueue(t) ==
    /\ pc[t] = "setup"
    /\ enabled
    /\ \E r \in rx_reqs :
         /\ rx_reqs' = rx_reqs \ {r}
         /\ outq' = Append(outq, r)
         /\ loc' = [loc EXCEPT ![t].req = r]
    /\ Goto(t, "active")
    /\ UNCHANGED <<rx_reqs_active, rx_buffers, current_rx, txVars,
                   ctlVars, lock_scale_io, lock, broken, sent, got>>

\* ... and then onto the list of active requests.
SetupActive(t) ==
    /\ pc[t] = "active"
    /\ rx_reqs_active' = rx_reqs_active \cup {loc[t].req}
    /\ loc' = [loc EXCEPT ![t].req = NoReq]
    /\ Goto(t, "setup")
    /\ UNCHANGED <<rx_reqs, rx_buffers, current_rx, outq, txVars, ctlVars,
                   lock_scale_io, lock, broken, sent, got>>

\* Nothing left to queue, or usb_ep_queue refuses: the endpoint is disabled.
SetupDone == rx_reqs = {} \/ ~enabled

-----------------------------------------------------------------------------
(* scale_read.                                                             *)

ReadEnter(t) ==
    \E n \in 1 .. MaxLen, nonblock, fault \in BOOLEAN :
        Enter(t, "read", "r_lock", n, nonblock, fault)

ReadLock(t) ==
    /\ pc[t] = "r_lock"
    /\ Locks(t)
    /\ lock' = t
    /\ Goto(t, "setup")
    /\ UNCHANGED <<rxVars, txVars, ctlVars, loc, broken, sent, got>>

\* The rest of the last request moves to the caller's locals; without any
\* data the call fails or sleeps, the mutex held.
ReadTake(t) ==
    /\ pc[t] = "setup"
    /\ loc[t].op = "read"
    /\ SetupDone
    /\ current_rx' = NoSpan
    /\ \/ /\ Bytes(current_rx) > 0 \/ rx_buffers # <<>>
          /\ loc' = [loc EXCEPT ![t].cur = current_rx]
          /\ Goto(t, "r_loop")
          /\ UNCHANGED <<lock_scale_io, lock>>
       \/ /\ Bytes(current_rx) = 0 /\ rx_buffers = <<>>
          /\ loc[t].nonblock
          /\ Return(t)
       \/ /\ Bytes(current_rx) = 0 /\ rx_buffers = <<>>
          /\ ~loc[t].nonblock
          /\ lock' = NoThread
          /\ Goto(t, "r_sleep")
          /\ UNCHANGED <<lock_scale_io, loc>>
    /\ UNCHANGED <<rx_reqs, rx_reqs_active, rx_buffers, outq, txVars,
                   ctlVars, broken, sent, got>>

\* wait_event_interruptible ends, its result is ignored.
ReadWake(t, signal) ==
    /\ pc[t] = "r_sleep"
    /\ signal \/ rx_buffers # <<>>
    /\ lock = NoThread
    /\ lock' = t
    /\ Goto(t, "r_loop")
    /\ UNCHANGED <<rxVars, txVars, ctlVars, loc, lock_scale_io, broken, sent,
                   got>>

\* Take the next completed request, and drop dev->lock for the copy.
ReadNext(t) ==
    /\ pc[t] = "r_loop"
    /\ loc[t].len > 0
    /\ \/ /\ Bytes(loc[t].cur) > 0
          /\ UNCHANGED <<rx_buffers, loc>>
       \/ /\ Bytes(loc[t].cur) = 0
          /\ rx_buffers # <<>>
          /\ rx_buffers' = Tail(rx_buffers)
          /\ loc' = [loc EXCEPT ![t].cur = Head(rx_buffers)]
    /\ lock' = NoThread
    /\ Goto(t, "r_copy")
    /\ UNCHANGED <<rx_reqs, rx_reqs_active, current_rx, outq, txVars,
                   ctlVars, lock_scale_io, broken, sent, got>>

\* copy_to_user on a bad address copies nothing.  An emptied request is free.
ReadCopy(t) ==
    LET cur == loc[t].cur
        size == IF loc[t].fault THEN 0
                ELSE IF loc[t].len > Bytes(cur) THEN Bytes(cur)
                ELSE loc[t].len
        rest == [cur EXCEPT !.lo = @ + size]
    IN  /\ pc[t] = "r_copy"
        /\ lock = NoThread
        /\ lock' = t
        /\ got' = rest.lo
        /\ \/ /\ size < Bytes(cur)
              /\ loc' = [loc EXCEPT ![t].len = @ - size, ![t].cur = rest]
              /\ UNCHANGED rx_reqs
           \/ /\ size = Bytes(cur)
              /\ loc' = [loc EXCEPT ![t].len = @ - size, ![t].cur = NoSpan]
              /\ rx_reqs' = rx_reqs \cup {cur.req}
        /\ Goto(t, "r_loop")
        /\ UNCHANGED <<rx_reqs_active, rx_buffers, current_rx, outq,
                       txVars, ctlVars, lock_scale_io, broken, sent>>

\* Out of data or of room: what is left of the request is kept for the next
\* call.
ReadDone(t) ==
    /\ pc[t] = "r_loop"
    /\ loc[t].len = 0 \/ (Bytes(loc[t].cur) = 0 /\ rx_buffers = <<>>)
    /\ current_rx' = loc[t].cur
    /\ Return(t)
    /\ UNCHANGED <<rx_reqs, rx_reqs_active, rx_buffers, outq, txVars,
                   ctlVars, broken, sent, got>>

Read(t) ==
    \/ ReadEnter(t) \/ ReadLock(t) \/ ReadTake(t)
    \/ \E signal \in BOOLEAN : ReadWake(t, signal)
    \/ ReadNext(t) \/ ReadCopy(t) \/ ReadDone(t)

-----------------------------------------------------------------------------
(* scale_write: len counts requests of at most USB_BUFSIZE bytes.          *)

\* dev->interface is tested before any lock is taken.
WriteEnter(t) ==
    /\ interface >= 0
    /\ \E n \in 1 .. MaxLen, nonblock, fault \in BOOLEAN :
         Enter(t, "write", "w_lock", n, nonblock, fault)

\* Without a free request a non-blocking call locks the mutex it holds.
WriteLock(t) ==
    /\ pc[t] = "w_lock"
    /\ Locks(t)
    /\ \/ /\ tx_reqs # {}
          /\ lock' = t
          /\ Goto(t, "w_loop")
       \/ /\ tx_reqs = {}
          /\ Goto(t, IF loc[t].nonblock THEN "w_relock" ELSE "w_sleep")
          /\ UNCHANGED lock
    /\ UNCHANGED <<rxVars, txVars, ctlVars, loc, broken, sent, got>>

WriteWake(t, signal) ==
    /\ pc[t] = "w_sleep"
    /\ signal \/ tx_reqs # {}
    /\ lock = NoThread
    /\ lock' = t
    /\ Goto(t, "w_loop")
    /\ UNCHANGED <<rxVars, txVars, ctlVars, loc, lock_scale_io, broken, sent,
                   got>>

WriteNext(t) ==
    /\ pc[t] = "w_loop"
    /\ loc[t].len > 0
    /\ \E r \in tx_reqs :
         /\ tx_reqs' = tx_reqs \ {r}
         /\ loc' = [loc EXCEPT ![t].req = r]
    /\ lock' = NoThread
    /\ Goto(t, "w_copy")
    /\ UNCHANGED <<rxVars, tx_reqs_active, inq, ctlVars, lock_scale_io, broken,
                   sent, got>>

\* A plausible slip: the request of a failed copy is not put back.
WritePutBackLost(t) ==
    /\ pc[t] = "w_put"
    /\ Return(t)
    /\ UNCHANGED <<rxVars, txVars, ctlVars, broken, sent, got>>

\* copy_from_user failed: list_add on tx_reqs begins, without dev->lock ...
WriteFault(t) ==
    /\ pc[t] = "w_copy"
    /\ loc[t].fault
    /\ Goto(t, "w_put")
    /\ UNCHANGED <<rxVars, txVars, ctlVars, loc, lock_scale_io, lock, broken,
                   sent, got>>

\* ... and ends.
WritePutBack(t) ==
    /\ pc[t] = "w_put"
    /\ lock = NoThread
    /\ tx_reqs' = tx_reqs \cup {loc[t].req}
    /\ Return(t)
    /\ UNCHANGED <<rxVars, tx_reqs_active, inq, ctlVars, broken, sent, got>>

\* The copy is done: queue the request, or give up if the endpoint is down.
WriteQueue(t) ==
    /\ pc[t] = "w_copy"
    /\ ~loc[t].fault
    /\ lock = NoThread
    /\ \/ /\ enabled
          /\ inq' = inq \cup {loc[t].req}
          /\ tx_reqs_active' = tx_reqs_active \cup {loc[t].req}
          /\ loc' = [loc EXCEPT ![t].req = NoReq, ![t].len = @ - 1]
          /\ lock' = t
          /\ Goto(t, "w_loop")
          /\ UNCHANGED <<tx_reqs, lock_scale_io>>
       \/ /\ ~enabled
          /\ tx_reqs' = tx_reqs \cup {loc[t].req}
          /\ Return(t)
          /\ UNCHANGED <<inq, tx_reqs_active>>
    /\ UNCHANGED <<rxVars, ctlVars, broken, sent, got>>

WriteDone(t) ==
    /\ pc[t] = "w_loop"
    /\ loc[t].len = 0 \/ tx_reqs = {}
    /\ Return(t)
    /\ UNCHANGED <<rxVars, txVars, ctlVars, broken, sent, got>>

Write(t) ==
    \/ WriteEnter(t) \/ WriteLock(t)
    \/ \E signal \in BOOLEAN : WriteWake(t, signal)
    \/ WriteNext(t) \/ WriteFault(t) \/ WritePutBack(t) \/ WriteQueue(t)
    \/ WriteDone(t)

-----------------------------------------------------------------------------
(* scale_fsync and scale_poll.                                             *)

FsyncEnter(t) == Enter(t, "fsync", "f_check", 0, FALSE, FALSE)

\* The test looks at the free list: with every request active it does not
\* wait.
FsyncCheck(t) ==
    /\ pc[t] = "f_check"
    /\ lock = NoThread
    /\ IF tx_reqs = {}
       THEN Goto(t, "idle") /\ loc' = [loc EXCEPT ![t] = NoLocals]
       ELSE Goto(t, "f_sleep") /\ UNCHANGED loc
    /\ UNCHANGED <<rxVars, txVars, ctlVars, lock_scale_io, lock, broken, sent,
                   got>>

\* Interrupted or not, fsync returns 0.
FsyncWake(t, signal) ==
    /\ pc[t] = "f_sleep"
    /\ signal \/ tx_reqs_active = {}
    /\ Goto(t, "idle")
    /\ loc' = [loc EXCEPT ![t] = NoLocals]
    /\ UNCHANGED <<rxVars, txVars, ctlVars, lock_scale_io, lock, broken, sent,
                   got>>

PollEnter(t) == Enter(t, "poll", "p_lock", 0, FALSE, FALSE)

PollLock(t) ==
    /\ pc[t] = "p_lock"
    /\ Locks(t)
    /\ lock' = t
    /\ Goto(t, "setup")
    /\ UNCHANGED <<rxVars, txVars, ctlVars, loc, broken, sent, got>>

\* The status computed from the lists goes to user mode and is not kept.
PollDone(t) ==
    /\ pc[t] = "setup"
    /\ loc[t].op = "poll"
    /\ SetupDone
    /\ Return(t)
    /\ UNCHANGED <<rxVars, txVars, ctlVars, broken, sent, got>>

Thread(t) ==
    \/ Read(t) \/ Write(t)
    \/ SetupQueue(t) \/ SetupActive(t)
    \/ FsyncEnter(t) \/ FsyncCheck(t)
    \/ \E signal \in BOOLEAN : FsyncWake(t, signal)
    \/ PollEnter(t) \/ PollLock(t) \/ PollDone(t)

-----------------------------------------------------------------------------
(* Completions.                                                            *)

\* Where the interrupt of a completion or of a control request can hit: not
\* while this processor has interrupts off.
IrqsOn == lock = NoThread

\* A plausible slip: a completed request is put in front of the older ones.
RxCompleteFront(n) ==
    LET r == Head(outq)
        span == [req |-> r, lo |-> sent, hi |-> sent + n]
    IN  /\ SMP \/ IrqsOn
        /\ outq # <<>>
        /\ outq' = Tail(outq)
        /\ rx_reqs_active' = rx_reqs_active \ {r}
        /\ sent' = sent + n
        /\ IF n > 0
           THEN rx_buffers' = <<span>> \o rx_buffers /\ UNCHANGED rx_reqs
           ELSE rx_reqs' = rx_reqs \cup {r} /\ UNCHANGED rx_buffers
        /\ UNCHANGED <<current_rx, txVars, ctlVars, thrVars, lock_scale_io,
                       lock, broken, got>>

\* rx_complete with n bytes, or with an error (n = 0).  It does not take
\* dev->lock.
RxComplete(n) ==
    LET r == Head(outq)
        span == [req |-> r, lo |-> sent, hi |-> sent + n]
    IN  /\ SMP \/ IrqsOn
        /\ outq # <<>>
        /\ outq' = Tail(outq)
        /\ rx_reqs_active' = rx_reqs_active \ {r}
        /\ sent' = sent + n
        /\ IF n > 0
           THEN rx_buffers' = Append(rx_buffers, span) /\ UNCHANGED rx_reqs
           ELSE rx_reqs' = rx_reqs \cup {r} /\ UNCHANGED rx_buffers
        /\ UNCHANGED <<current_rx, txVars, ctlVars, thrVars, lock_scale_io,
                       lock, broken, got>>

\* tx_complete on tx_reqs meets an unlocked list_add of scale_write.
TxListOpen == \E t \in Threads : pc[t] = "w_put"

\* A plausible slip: the request stays on the list of active requests.
TxCompleteStays ==
    /\ IrqsOn
    /\ \E r \in inq : inq' = inq \ {r} /\ tx_reqs' = tx_reqs \cup {r}
    /\ UNCHANGED <<rxVars, tx_reqs_active, ctlVars, thrVars, lock_scale_io,
                   lock, broken, sent, got>>

\* tx_complete, whatever the status, under dev->lock.
TxComplete ==
    /\ IrqsOn
    /\ \E r \in inq :
         /\ inq' = inq \ {r}
         /\ tx_reqs_active' = tx_reqs_active \ {r}
         /\ tx_reqs' = tx_reqs \cup {r}
    /\ broken' = IF TxListOpen THEN "lists" ELSE broken
    /\ UNCHANGED <<rxVars, ctlVars, thrVars, lock_scale_io, lock, sent, got>>

\* usb_ep_disable on both endpoints completes what they have queued.
FlushEndpoints ==
    /\ outq' = <<>>
    /\ rx_reqs' = rx_reqs \cup {outq[i] : i \in DOMAIN outq}
    /\ rx_reqs_active' = rx_reqs_active \ {outq[i] : i \in DOMAIN outq}
    /\ inq' = {}
    /\ tx_reqs' = tx_reqs \cup inq
    /\ tx_reqs_active' = tx_reqs_active \ inq

-----------------------------------------------------------------------------
(* Control requests and disconnect.                                        *)

\* scale_setup with a request that touches no endpoint: it, too, ends with
\* dev->interface = SCALE_INTERFACE.
SetupOther ==
    /\ IrqsOn
    /\ interface' = 0
    /\ UNCHANGED <<rxVars, txVars, thrVars, config, enabled, lock_scale_io,
                   lock, broken, sent, got>>

\* SET_CONFIGURATION: the endpoints are enabled for every value, 0 included;
\* usb_ep_enable may refuse, and then both are disabled.
SetConfig(number) ==
    /\ IrqsOn
    /\ interface' = 0
    /\ config' = IF number \in {0, 1} THEN number ELSE config
    /\ \/ /\ enabled' = TRUE
          /\ UNCHANGED <<rxVars, txVars, broken>>
       \/ /\ enabled' = FALSE
          /\ FlushEndpoints
          /\ broken' = IF TxListOpen /\ inq # {} THEN "lists" ELSE broken
          /\ UNCHANGED <<rx_buffers, current_rx>>
    /\ UNCHANGED <<thrVars, lock_scale_io, lock, sent, got>>

\* SET_INTERFACE: disable, if connected, then enable again.
SetInterface ==
    /\ IrqsOn
    /\ config # 0
    /\ interface' = 0
    /\ enabled' \in BOOLEAN
    /\ IF interface = 0 \/ ~enabled'
       THEN /\ FlushEndpoints
            /\ broken' = IF TxListOpen /\ inq # {} THEN "lists" ELSE broken
       ELSE UNCHANGED <<outq, rx_reqs, rx_reqs_active, txVars, broken>>
    /\ UNCHANGED <<rx_buffers, current_rx, thrVars, config, lock_scale_io,
                   lock, sent, got>>

\* The soft reset enables four pairs of test endpoints, of which bind set up
\* three: usb_ep_enable dereferences NULL in interrupt context.
SoftReset ==
    /\ IrqsOn
    /\ broken' = "oops"
    /\ UNCHANGED <<rxVars, txVars, ctlVars, thrVars, lock_scale_io, lock, sent,
                   got>>

\* scale_disconnect holds dev->lock while usb_ep_disable completes the
\* requests: tx_complete takes it again, which only SMP notices.
Disconnect ==
    /\ IrqsOn
    /\ interface >= 0
    /\ interface' = -1
    /\ enabled' = FALSE
    /\ FlushEndpoints
    /\ broken' = IF SMP /\ inq # {} THEN "deadlock"
                 ELSE IF TxListOpen /\ inq # {} THEN "lists"
                 ELSE broken
    /\ UNCHANGED <<rx_buffers, current_rx, thrVars, config, lock_scale_io,
                   lock, sent, got>>

Irq ==
    \/ \E n \in 0 .. MaxBytes - sent : RxComplete(n)
    \/ TxComplete
    \/ SetupOther
    \/ \E number \in 0 .. 2 : SetConfig(number)
    \/ SetInterface
    \/ SoftReset
    \/ Disconnect

Next ==
    /\ broken = "no"
    /\ Irq \/ \E t \in Threads : Thread(t)

Spec == Init /\ [][Next]_vars

-----------------------------------------------------------------------------
(* Properties.                                                             *)

TypeOK ==
    /\ rx_reqs \subseteq RxReqs
    /\ rx_reqs_active \subseteq RxReqs
    /\ rx_buffers \in Seq(Span)
    /\ outq \in Seq(RxReqs)
    /\ current_rx \in Span
    /\ tx_reqs \subseteq TxReqs
    /\ tx_reqs_active \subseteq TxReqs
    /\ inq \subseteq TxReqs
    /\ lock_scale_io \in Threads \cup {NoThread}
    /\ lock \in Threads \cup {NoThread}
    /\ interface \in {-1, 0}
    /\ config \in {0, 1}
    /\ enabled \in BOOLEAN
    /\ broken \in {"no", "lists", "oops", "deadlock"}
    /\ sent \in Nat
    /\ got \in Nat
    /\ pc \in [Threads -> {"idle", "r_lock", "setup", "active", "r_sleep",
                           "r_loop", "r_copy", "w_lock", "w_relock", "w_sleep",
                           "w_loop", "w_copy", "w_put", "f_check", "f_sleep",
                           "p_lock"}]
    /\ loc \in [Threads ->
                  [op : {"none", "read", "write", "fsync", "poll"},
                   nonblock : BOOLEAN, fault : BOOLEAN, len : Nat,
                   req : RxReqs \cup TxReqs \cup {NoReq}, cur : Span]]

Elems(s) == {s[i] : i \in DOMAIN s}

\* The completed requests nobody has taken.
Completed == {rx_buffers[i].req : i \in DOMAIN rx_buffers}

\* The threads between taking a completed request and giving it back.
RxHolders == {t \in Threads : loc[t].cur # NoSpan}

\* The threads with an IN request in hand.
TxHolders == {t \in Threads : pc[t] \in {"w_copy", "w_put"}}

\* No request is lost and none is in two places: on a list, with the
\* controller, or in the hands of one thread.  (The types are part of it.)
PoolsConserved ==
    /\ TypeOK
    /\ RxReqs \ (rx_reqs \cup Elems(outq) \cup Completed) =
         ({current_rx.req} \cup {loc[t].cur.req : t \in RxHolders}) \ {NoReq}
    /\ Cardinality(rx_reqs) + Len(outq) + Len(rx_buffers)
         + Cardinality(RxHolders) + (IF current_rx = NoSpan THEN 0 ELSE 1)
         = Cardinality(RxReqs)
    /\ TxReqs \ (tx_reqs \cup tx_reqs_active) = {loc[t].req : t \in TxHolders}
    /\ Cardinality(tx_reqs) + Cardinality(tx_reqs_active)
         + Cardinality(TxHolders) = Cardinality(TxReqs)

\* The lists of active requests are what the controller has queued, but for
\* the request that setup_rx_reqs is just moving.
ActiveIsQueued ==
    /\ inq = tx_reqs_active
    /\ Elems(outq) = rx_reqs_active
                     \cup {loc[t].req : t \in {u \in Threads : pc[u] = "active"}}

\* The bytes that have arrived and have not been read, oldest first.
Unread ==
    LET held == IF RxHolders # {}
                THEN <<loc[CHOOSE t \in RxHolders : TRUE].cur>>
                ELSE IF current_rx = NoSpan THEN <<>> ELSE <<current_rx>>
    IN  held \o rx_buffers

\* Every byte of the host reaches read exactly once and in order, across
\* partial reads, sleeps, disconnects and new configurations.
StreamIntact ==
    /\ Unread = <<>> => got = sent
    /\ Unread # <<>> => /\ Unread[1].lo = got
                        /\ Unread[Len(Unread)].hi = sent
    /\ \A i \in DOMAIN Unread : Unread[i].lo < Unread[i].hi
    /\ \A i \in 1 .. Len(Unread) - 1 : Unread[i].hi = Unread[i + 1].lo

\* scale_fsync sleeps until all data has been sent: it does not return at
\* once while requests are active.
FsyncWaits ==
    [][\A t \in Threads :
         pc[t] = "f_check" /\ pc'[t] = "idle" => tx_reqs_active = {}]_vars

\* While a read sleeps until data is available and the endpoint is enabled,
\* there is a request that data can arrive in, or data.
SleeperIsFed ==
    \A t \in Threads :
        pc[t] = "r_sleep" /\ enabled => outq # <<>> \/ rx_buffers # <<>>

=============================================================================
