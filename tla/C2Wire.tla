------------------------------- MODULE C2Wire -------------------------------
(***************************************************************************)
(* test_c2port/core.c, lines 64-258: the four register operations of the   *)
(* two-wire C2 interface, one action per protocol field and one step per   *)
(* strobe of the clock, against the microcontroller at the other end of    *)
(* the wire.  The microcontroller is external: it is the receiver the      *)
(* fields of the source are meant for.                                     *)
(*                                                                         *)
(* The port's mutex is held for every operation, so operations do not      *)
(* overlap.  A strobe is the low pulse of C2CK with interrupts off; the    *)
(* line is sampled on its rising edge, and the microcontroller's answer    *)
(* is there when c2port_strobe_ck returns.                                 *)
(***************************************************************************)
EXTENDS Naturals

CONSTANTS
    W,           \* bits of a register: 8
    Timeout,     \* strobes of the WAIT field: 20
    MaxWait      \* bound on the strobes the microcontroller keeps waiting

ASSUME C2WireAssumption ==
    /\ W \in Nat \ {0}
    /\ Timeout \in Nat \ {0}
    /\ MaxWait \in Nat

VARIABLES
    op,          \* the operation under way, or "none"
    field,       \* the field its next strobe belongs to
    i,           \* strobes done in this field
    arg,         \* what the operation was called with
    data,        \* the driver's shift register
    ret,         \* result of the last operation: "ok" or "EIO"
    dir,         \* 1: C2D is an input of the driver
    out,         \* the level the driver sets C2D to, while it drives it
    line,        \* the level of C2D after the last strobe
    dev,         \* the microcontroller
    late         \* an operation timed out since the last reset

hostVars == <<op, field, i, arg, data, ret, dir, out>>
vars == <<hostVars, line, dev, late>>

\* A register is its bits, the least significant one at 0.
Bits == 0 .. W - 1
Registers == [Bits -> {0, 1}]
Zero == [k \in Bits |-> 0]
Ops == {"write_ar", "read_ar", "write_dr", "read_dr"}
WaitOps == {"write_dr", "read_dr"}

\* The instruction of each operation, least significant bit first.
Ins == [write_ar |-> <<1, 1>>, read_ar |-> <<0, 1>>,
        write_dr |-> <<1, 0>>, read_dr |-> <<0, 0>>]

\* x shifted right by one, with b as the new top bit.
Shift(x, b) == [k \in Bits |-> IF k = W - 1 THEN b ELSE x[k + 1]]

Init ==
    /\ op = "none"
    /\ field = "start"
    /\ i = 0
    /\ arg = Zero
    /\ data = Zero
    /\ ret = "ok"
    /\ dir = 1
    /\ out = 1
    /\ line = 1
    /\ \E ar, dr \in Registers :
         dev = [st |-> "idle", n |-> 0, ins |-> 0, sh |-> Zero, ar |-> ar,
                dr |-> dr, wait |-> 0]
    /\ late = FALSE

-----------------------------------------------------------------------------
(* The microcontroller (external).                                         *)

\* The states in which it answers a strobe on C2D.
DevDrives == dev.st \in {"addr_out", "wait_w", "wait_r", "data_out"}

\* The next state of the receiver and its answer, when a rising edge finds
\* C2D at level b.
DevStrobe(b) ==
    LET last == dev.n = W - 1
        shifted == Shift(dev.sh, b)
        Goto(d, st) == [d EXCEPT !.st = st, !.n = 0]
        Count(d) == [d EXCEPT !.n = dev.n + 1]
    IN  CASE dev.st = "idle" ->
               dev' = [Goto(dev, "ins") EXCEPT !.ins = 0] /\ line' = b
          [] dev.st = "ins" ->
               LET ins == IF dev.n = 0 THEN b ELSE dev.ins + 2 * b
                   next == IF ins = 3 THEN "addr_in"
                           ELSE IF ins = 2 THEN "addr_out" ELSE "length"
                   d == [dev EXCEPT !.ins = ins]
               IN  /\ dev' = IF dev.n = 1 THEN Goto(d, next) ELSE Count(d)
                   /\ line' = b
          [] dev.st = "length" ->
               /\ dev' = IF dev.n = 0 THEN Count(dev)
                         ELSE Goto(dev, IF dev.ins = 1 THEN "data_in"
                                        ELSE "wait_r")
               /\ line' = b
          [] dev.st \in {"addr_in", "data_in"} ->
               LET d == [dev EXCEPT !.sh = shifted]
               IN  /\ dev' = IF ~last THEN Count(d)
                             ELSE IF dev.st = "addr_in"
                             THEN Goto([d EXCEPT !.ar = shifted], "stop")
                             ELSE Goto([d EXCEPT !.dr = shifted], "wait_w")
                   /\ line' = b
          [] dev.st \in {"wait_w", "wait_r"} ->
               IF dev.wait > 0
               THEN dev' = [dev EXCEPT !.wait = dev.wait - 1] /\ line' = 0
               ELSE /\ dev' = Goto(dev, IF dev.st = "wait_w" THEN "stop"
                                        ELSE "data_out")
                    /\ line' = 1
          [] dev.st \in {"addr_out", "data_out"} ->
               /\ line' = (IF dev.st = "addr_out" THEN dev.ar ELSE dev.dr)[dev.n]
               /\ dev' = IF last THEN Goto(dev, "stop") ELSE Count(dev)
          [] dev.st = "stop" ->
               dev' = Goto(dev, "idle") /\ line' = b

\* What the rising edge finds: a driven level, or the pulled-up line.
Level(d, o) == IF d = 0 THEN o ELSE 1

\* c2port_strobe_ck after c2d_dir(d) and c2d_set(o).
Strobe(d, o) ==
    /\ dir' = d
    /\ out' = o
    /\ DevStrobe(Level(d, o))

\* How long the microcontroller will make the next WAIT field last.
DevBusy(n) ==
    /\ op = "none"
    /\ dev.st = "idle"
    /\ dev.wait # n
    /\ dev' = [dev EXCEPT !.wait = n]
    /\ UNCHANGED <<hostVars, line, late>>

-----------------------------------------------------------------------------
(* c2port_write_ar, c2port_read_ar, c2port_write_dr and c2port_read_dr.    *)

Begin(o, b) ==
    /\ op = "none"
    /\ op' = o
    /\ field' = "start"
    /\ i' = 0
    /\ arg' = b
    /\ data' = b
    /\ UNCHANGED <<ret, dir, out, line, dev, late>>

\* The field after f.
After(f) ==
    CASE f = "start" -> "ins"
      [] f = "ins" -> IF op \in WaitOps THEN "length"
                      ELSE IF op = "write_ar" THEN "send" ELSE "recv"
      [] f = "length" -> IF op = "write_dr" THEN "send" ELSE "wait"
      [] f = "send" -> IF op = "write_dr" THEN "wait" ELSE "stop"
      [] f = "wait" -> IF op = "write_dr" THEN "stop" ELSE "recv"
      [] f = "recv" -> "stop"

\* A field of n strobes.
Advance(n) ==
    /\ i' = IF i + 1 < n THEN i + 1 ELSE 0
    /\ field' = IF i + 1 < n THEN field ELSE After(field)

StartField ==
    /\ op # "none"
    /\ field = "start"
    /\ Strobe(dir, out)
    /\ Advance(1)
    /\ UNCHANGED <<op, arg, data, ret, late>>

InsField ==
    /\ field = "ins"
    /\ Strobe(0, Ins[op][i + 1])
    /\ Advance(2)
    /\ UNCHANGED <<op, arg, data, ret, late>>

LengthField ==
    /\ field = "length"
    /\ Strobe(0, 0)
    /\ Advance(2)
    /\ UNCHANGED <<op, arg, data, ret, late>>

\* A plausible slip: the register is sent most significant bit first.
SendBitMsb ==
    /\ field = "send"
    /\ Strobe(0, data[W - 1])
    /\ data' = [k \in Bits |-> IF k = 0 THEN 0 ELSE data[k - 1]]
    /\ Advance(W)
    /\ UNCHANGED <<op, arg, ret, late>>

\* ADDRESS or DATA field of a write.
SendBit ==
    /\ field = "send"
    /\ Strobe(0, data[0])
    /\ data' = Shift(data, 0)
    /\ Advance(W)
    /\ UNCHANGED <<op, arg, ret, late>>

\* ADDRESS or DATA field of a read: shift in from the top.
RecvBit ==
    /\ field = "recv"
    /\ Strobe(1, out)
    /\ data' = Shift(IF i = 0 THEN Zero ELSE data, line')
    /\ Advance(W)
    /\ UNCHANGED <<op, arg, ret, late>>

\* Strobes with C2D in direction d, at most n of them; the operation then
\* fails without a STOP field.
WaitAtMost(d, n) ==
    /\ field = "wait"
    /\ op # "none"
    /\ Strobe(d, out)
    /\ \/ /\ line' = 1
          /\ field' = After("wait")
          /\ i' = 0
          /\ UNCHANGED <<op, ret, late>>
       \/ /\ line' = 0
          /\ i + 1 < n
          /\ i' = i + 1
          /\ UNCHANGED <<op, field, ret, late>>
       \/ /\ line' = 0
          /\ i + 1 = n
          /\ op' = "none"
          /\ ret' = "EIO"
          /\ late' = TRUE
          /\ UNCHANGED <<field, i>>
    /\ UNCHANGED <<arg, data>>

\* Plausible slips: one strobe too few; the line is not turned around.
WaitFieldShort == WaitAtMost(1, Timeout - 1)
WaitFieldDriven == WaitAtMost(0, Timeout)

WaitField == WaitAtMost(1, Timeout)

\* A plausible slip: no STOP strobe.
StopFieldSilent ==
    /\ field = "stop"
    /\ op # "none"
    /\ dir' = 1
    /\ op' = "none"
    /\ ret' = "ok"
    /\ UNCHANGED <<field, i, arg, data, out, line, dev, late>>

StopField ==
    /\ field = "stop"
    /\ op # "none"
    /\ Strobe(1, out)
    /\ op' = "none"
    /\ ret' = "ok"
    /\ UNCHANGED <<field, i, arg, data, late>>

\* c2port_reset: C2CK low for more than 20us.
Reset ==
    /\ op = "none"
    /\ dev' = [dev EXCEPT !.st = "idle", !.n = 0]
    /\ late' = FALSE
    /\ UNCHANGED <<hostVars, line>>

Next ==
    \/ \E o \in Ops, b \in Registers : Begin(o, b)
    \/ StartField \/ InsField \/ LengthField \/ SendBit \/ RecvBit
    \/ WaitField \/ StopField
    \/ Reset
    \/ \E n \in 0 .. MaxWait : DevBusy(n)

Spec == Init /\ [][Next]_vars

-----------------------------------------------------------------------------
(* Properties.                                                             *)

DevStates == {"idle", "ins", "length", "addr_in", "addr_out", "data_in",
              "data_out", "wait_w", "wait_r", "stop"}
Receivers == [st : DevStates, n : Nat, ins : 0 .. 3, sh : Registers,
              ar : Registers, dr : Registers, wait : Nat]

TypeOK ==
    /\ op \in Ops \cup {"none"}
    /\ field \in {"start", "ins", "length", "send", "wait", "recv", "stop"}
    /\ i \in Nat
    /\ arg \in Registers
    /\ data \in Registers
    /\ ret \in {"ok", "EIO"}
    /\ dir \in {0, 1}
    /\ out \in {0, 1}
    /\ line \in {0, 1}
    /\ dev \in Receivers
    /\ late \in BOOLEAN

\* A register operation that reports success has moved the register: what was
\* written has arrived, what was read is what the microcontroller holds.
RoundTrip ==
    [][op # "none" /\ op' = "none" /\ ret' = "ok" /\ ~late =>
         CASE op = "write_ar" -> dev'.ar = arg
           [] op = "write_dr" -> dev'.dr = arg
           [] op = "read_ar" -> data' = dev.ar /\ dev'.ar = dev.ar
           [] op = "read_dr" -> data' = dev.dr /\ dev'.dr = dev.dr]_vars

\* The driver gives up exactly when the microcontroller has kept it waiting
\* for Timeout strobes: an answer on the last one still counts.
GivesUpInTime ==
    [][~late /\ late' => dev.wait > 0 /\ i + 1 = Timeout]_vars

\* Both ends agree on where a frame starts: unless an operation has timed out
\* since the last reset, no frame is open between operations.  (The types are
\* part of it.)
FramesAligned == TypeOK /\ (~late /\ op = "none" => dev.st = "idle")

\* The two ends never drive C2D at the same time: at every strobe that the
\* microcontroller answers, the driver has turned the line around.
NoContention ==
    [][~late /\ DevDrives /\ dev' # dev => dir' = 1]_vars

=============================================================================
