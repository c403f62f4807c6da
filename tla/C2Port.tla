------------------------------- MODULE C2Port -------------------------------
(***************************************************************************)
(* test_c2port/core.c and c2port-client.c: the sysfs attributes of a C2    *)
(* port, used by several threads, with the microcontroller they program.   *)
(* The register operations of C2Wire are the primitives here: a step of a  *)
(* script, which may time out.  The port's mutex is held for a whole       *)
(* script, but most attributes test access and flash_access before they    *)
(* take it.                                                                *)
(***************************************************************************)
EXTENDS Naturals, Sequences

CONSTANTS
    Threads,     \* threads using the attributes
    NoThread,
    Size,        \* blocks_num * block_size
    Chunk,       \* bytes of one flash_data transfer: 128
    Base,        \* addresses are sent as two digits of this base: 256
    Bytes,       \* the values of a byte
    Calls        \* the attribute accesses the threads make

\* What is tested before the mutex is taken: nothing, access, or access and
\* flash_access.
Unchecked == {"access", "flash_access"}
AccessOps == {"reset", "dev_id", "rev_id"}
FlashOps == {"flash_erase", "flash_read", "flash_write"}

\* sysfs does not call a flash_data transfer of no bytes.
ASSUME C2PortAssumption ==
    /\ NoThread \notin Threads
    /\ Size \in Nat /\ {Chunk, Base} \subseteq Nat \ {0}
    /\ Calls \subseteq [op : Unchecked \cup AccessOps \cup FlashOps, on : BOOLEAN,
                       off : Nat, data : Seq(Bytes)]
    /\ \A c \in Calls : c.op \in {"flash_read", "flash_write"} => c.data # <<>>

VARIABLES
    phase,       \* of c2port_device_register and the client's init and exit
    access, flash_access,
    mutex,       \* owner of c2dev->mutex
    pc, call,    \* pc[t], call[t]: where t is, and the attribute it uses
    script,      \* what the owner of the mutex has still to do
    buffer,      \* flash_data read by the owner of the mutex
    ck_out,      \* the direction of C2CK: TRUE is output
    mcu,         \* the microcontroller (external)
    halted,      \* the kernel has oopsed
    before,      \* history: the flash when the owner took the mutex
    dark         \* history: the owner has strobed a clock that is an input

portVars == <<access, flash_access, ck_out>>
runVars == <<script, buffer, before, dark>>
vars == <<phase, portVars, runVars, mutex, pc, call, mcu, halted>>

Addresses == 0 .. Size - 1
Idle == [ar |-> "none", key |-> 0, ph |-> "idle", cmd |-> "none",
         args |-> <<>>, pos |-> 0, lost |-> FALSE]

\* An access of an attribute: the value stored into access or flash_access,
\* or the offset and the bytes of a flash_data transfer.
Call(op, on, off, data) == [op |-> op, on |-> on, off |-> off, data |-> data]
NoCall == Call("none", FALSE, 0, <<>>)

Init ==
    /\ phase = "none"
    /\ access = FALSE
    /\ flash_access = FALSE
    /\ mutex = NoThread
    /\ pc = [t \in Threads |-> "idle"]
    /\ call = [t \in Threads |-> NoCall]
    /\ script = <<>>
    /\ buffer = <<>>
    /\ ck_out = FALSE
    /\ mcu = [regs |-> Idle, flash |-> [a \in Addresses |-> "erased"]]
    /\ halted = FALSE
    /\ before = mcu.flash
    /\ dark = FALSE

-----------------------------------------------------------------------------
(* The microcontroller (external).  It accepts flash commands in register  *)
(* FPDAT once both keycodes have been written to FPCTL.  After a frame     *)
(* that timed out, or a command that was abandoned, nothing is said of     *)
(* what it understands until the next reset.                               *)

\* The address and the count sent with a block command.
Target(r) == r.args[1] * Base + r.args[2]
Count(r) == r.args[3]

\* Status or data is waiting to be read, or the last command is finished.
OutReady(r) ==
    /\ r.ar = "FPDAT"
    /\ r.key = 2
    /\ \/ r.ph \in {"ack", "ack2"}
       \/ r.ph = "data" /\ r.cmd = "BLOCK_READ"
       \/ r.ph = "idle" /\ r.cmd # "none"

NextByte(r) ==
    [r EXCEPT !.pos = @ + 1, !.ph = IF r.pos + 1 = Count(r) THEN "idle" ELSE @]

McuWrite(m, v) ==
    LET r == m.regs
        args == Append(r.args, v)
        More(ph) == [m EXCEPT !.regs.args = args, !.regs.ph = ph]
    IN  CASE r.lost -> m
          [] ~r.lost /\ r.ar = "FPCTL" ->
               [m EXCEPT !.regs.key =
                  IF v = 2 THEN 1 ELSE IF v = 1 /\ r.key = 1 THEN 2 ELSE 0]
          [] ~r.lost /\ r.ar = "FPDAT" /\ r.key = 2 ->
               (CASE r.ph = "idle" ->
                       [m EXCEPT !.regs = [r EXCEPT !.cmd = v, !.ph = "ack",
                                           !.args = <<>>, !.pos = 0]]
                  [] r.ph = "args" /\ Len(args) < 3 -> More("args")
                  [] r.ph = "args" /\ Len(args) = 3 ->
                       IF r.cmd # "DEVICE_ERASE" THEN More("ack2")
                       ELSE IF args = <<"de", "ad", "a5">>
                       THEN [More("idle") EXCEPT
                               !.flash = [a \in Addresses |-> "erased"]]
                       ELSE More("idle")
                  [] r.ph = "data" /\ r.cmd = "BLOCK_WRITE" ->
                       [m EXCEPT !.regs = NextByte(r),
                                 !.flash[Target(r) + r.pos] = v]
                  [] OTHER -> m)
          [] OTHER -> m

Lose(m) ==
    [m EXCEPT !.regs = [Idle EXCEPT !.key = m.regs.key, !.lost = TRUE]]

\* Reading the data register: a status, or the next byte of a block.
McuRead(m) ==
    LET r == m.regs
    IN  CASE r.ph = "ack" -> [m EXCEPT !.regs.ph = "args"]
          [] r.ph = "ack2" -> [m EXCEPT !.regs.ph = "data"]
          [] r.ph = "data" -> [m EXCEPT !.regs = NextByte(r)]
          [] OTHER -> m

McuByte(m) ==
    IF m.regs.ph = "data" THEN m.flash[Target(m.regs) + m.regs.pos]
    ELSE "status"

-----------------------------------------------------------------------------
(* The scripts: <<"ar", register>>, <<"wr", value>> with the result        *)
(* ignored, <<"wr!", value>> with the result tested, and the polls and     *)
(* reads, whose results are always tested.                                 *)

Acked(v) == <<<<"wr", v>>, <<"in_busy", 0>>>>

Command(c) ==
    <<<<"ar", "FPDAT">>>> \o Acked(c) \o <<<<"out_ready", 0>>, <<"status", 0>>>>

\* A plausible slip: the address is sent low byte first.
BlockSwapped(c, off, n) ==
    Command(c) \o Acked(off % Base) \o Acked(off \div Base) \o Acked(n)
      \o <<<<"out_ready", 0>>, <<"status", 0>>>>

\* A plausible slip: the status before the block is not read.
BlockNoStatus(c, off, n) ==
    Command(c) \o Acked(off \div Base) \o Acked(off % Base) \o Acked(n)
      \o <<<<"out_ready", 0>>>>

Block(c, off, n) ==
    Command(c) \o Acked(off \div Base) \o Acked(off % Base) \o Acked(n)
      \o <<<<"out_ready", 0>>, <<"status", 0>>>>

\* n repetitions of a pair of primitives; the k-th pair is Pair(k).
Pairs(n, Pair(_)) ==
    [k \in 1 .. 2 * n |-> Pair((k + 1) \div 2)[((k - 1) % 2) + 1]]

ReadBlock(off, n) ==
    LET Pair(k) == <<<<"out_ready", 0>>, <<"data", 0>>>>
    IN  Block("BLOCK_READ", off, n) \o Pairs(n, Pair)

WriteBlock(off, data, n) ==
    LET Pair(k) == <<<<"wr!", data[k]>>, <<"in_busy", 0>>>>
    IN  Block("BLOCK_WRITE", off, n) \o Pairs(n, Pair)
          \o <<<<"out_ready", 0>>>>

Erase ==
    Command("DEVICE_ERASE") \o Acked("de") \o Acked("ad") \o Acked("a5")
      \o <<<<"out_ready", 0>>>>

EnableFlash == <<<<"ar", "FPCTL">>, <<"wr!", 2>>, <<"wr!", 1>>>>

\* The number of bytes a transfer moves: at most a chunk, at most to the end.
Least(a, b) == IF a < b THEN a ELSE b

Transfer(c) == Least(Least(Chunk, Len(c.data)), Size - c.off)

ScriptOf(c) ==
    CASE c.op \in {"dev_id", "rev_id"} -> <<<<"ar", c.op>>, <<"id", 0>>>>
      [] c.op = "flash_erase" -> Erase
      [] c.op = "flash_read" ->
           IF c.off >= Size THEN <<>> ELSE ReadBlock(c.off, Transfer(c))
      [] c.op = "flash_write" ->
           WriteBlock(c.off, c.data, Transfer(c))

-----------------------------------------------------------------------------
(* The life of the port: c2port_init of the client, c2port_exit.           *)

\* device_create: the attributes are in sysfs, the port is still what kmalloc
\* returned.
CreateDevice ==
    /\ phase = "none"
    /\ phase' = "visible"
    /\ access' \in BOOLEAN
    /\ flash_access' \in BOOLEAN
    /\ UNCHANGED <<runVars, ck_out, mutex, pc, call, mcu, halted>>

\* kmalloc, idr_alloc or device_create fails: the client tests for NULL, so
\* its init succeeds with an ERR_PTR.
RegisterFails ==
    /\ phase = "none"
    /\ phase' = "errptr"
    /\ UNCHANGED <<portVars, runVars, mutex, pc, call, mcu, halted>>

\* The rest of c2port_device_register.
InitDevice ==
    /\ phase = "visible"
    /\ phase' = "live"
    /\ access' = FALSE
    /\ flash_access' = FALSE
    /\ ck_out' = FALSE
    /\ UNCHANGED <<runVars, mutex, pc, call, mcu, halted>>

\* c2port_exit turns both lines into inputs without the port's mutex; a frame
\* or a command that is under way is cut off.
ExitAccess ==
    /\ phase \in {"live", "errptr"}
    /\ phase' = IF phase = "live" THEN "exiting" ELSE "errexit"
    /\ ck_out' = FALSE
    /\ mcu' = IF script # <<>> THEN Lose(mcu) ELSE mcu
    /\ UNCHANGED <<access, flash_access, runVars, mutex, pc, call, halted>>

\* c2port_device_unregister; device_destroy waits for the attributes in use.
ExitUnregister ==
    /\ \/ /\ phase = "exiting"
          /\ \A t \in Threads : pc[t] = "idle"
          /\ phase' = "gone"
          /\ UNCHANGED halted
       \/ /\ phase = "errexit"
          /\ halted' = TRUE
          /\ UNCHANGED phase
    /\ UNCHANGED <<portVars, runVars, mutex, pc, call, mcu>>

-----------------------------------------------------------------------------
(* The attributes.                                                         *)

MayStart(c) ==
    \/ c.op \in Unchecked
    \/ c.op \in AccessOps /\ access
    \/ c.op \in FlashOps /\ access /\ flash_access

\* An attribute is opened and the checks are made.  While the port is not
\* initialised, what passes them takes a mutex that is not one.
Enter(t, c) ==
    /\ phase \in {"visible", "live", "exiting"}
    /\ pc[t] = "idle"
    /\ MayStart(c)
    /\ halted' = (phase = "visible")
    /\ pc' = [pc EXCEPT ![t] = "lock"]
    /\ call' = [call EXCEPT ![t] = c]
    /\ UNCHANGED <<phase, portVars, runVars, mutex, mcu>>

\* t has the mutex and will do s.
Start(t, s) ==
    /\ pc[t] = "lock"
    /\ mutex = NoThread
    /\ mutex' = t
    /\ pc' = [pc EXCEPT ![t] = "run"]
    /\ script' = s
    /\ buffer' = <<>>
    /\ before' = mcu.flash
    /\ dark' = FALSE
    /\ UNCHANGED <<phase, call, halted>>

\* A plausible slip: the lines are left as they are when access is put off.
AccessStoreKeeps(t) ==
    /\ call[t].op = "access"
    /\ Start(t, <<>>)
    /\ access' = call[t].on
    /\ ck_out' = (ck_out \/ call[t].on)
    /\ UNCHANGED <<flash_access, mcu>>

AccessStore(t) ==
    /\ call[t].op = "access"
    /\ Start(t, <<>>)
    /\ access' = call[t].on
    /\ ck_out' = call[t].on
    /\ UNCHANGED <<flash_access, mcu>>

\* The microcontroller sees the pulse only if C2CK is an output.
ResetStore(t) ==
    /\ call[t].op = "reset"
    /\ Start(t, <<>>)
    /\ mcu' = IF ck_out THEN [mcu EXCEPT !.regs = Idle] ELSE mcu
    /\ flash_access' = FALSE
    /\ UNCHANGED <<access, ck_out>>

FlashAccessStore(t) ==
    /\ call[t].op = "flash_access"
    /\ access
    /\ Start(t, IF call[t].on THEN EnableFlash ELSE <<>>)
    /\ flash_access' = call[t].on
    /\ UNCHANGED <<access, ck_out, mcu>>

\* dev_id, rev_id, flash_erase and flash_data.
Scripted(t) ==
    /\ call[t].op \in FlashOps \cup {"dev_id", "rev_id"}
    /\ ~ (call[t].op = "flash_write" /\ call[t].off >= Size)
    /\ Start(t, ScriptOf(call[t]))
    /\ UNCHANGED <<portVars, mcu>>

\* -EBUSY of flash_access with access off, -EINVAL of a write past the end:
\* the mutex is taken and released.
Refuse(t) ==
    /\ pc[t] = "lock"
    /\ mutex = NoThread
    /\ \/ call[t].op = "flash_access" /\ ~access
       \/ call[t].op = "flash_write" /\ call[t].off >= Size
    /\ pc' = [pc EXCEPT ![t] = "idle"]
    /\ call' = [call EXCEPT ![t] = NoCall]
    /\ UNCHANGED <<phase, portVars, runVars, mutex, mcu, halted>>

Release(t) ==
    /\ mutex' = NoThread
    /\ pc' = [pc EXCEPT ![t] = "idle"]
    /\ call' = [call EXCEPT ![t] = NoCall]
    /\ script' = <<>>
    /\ buffer' = <<>>
    /\ before' = mcu'.flash
    /\ dark' = FALSE
    /\ UNCHANGED <<phase, portVars, halted>>

Running(t) == mutex = t /\ script # <<>>
Heard == ck_out /\ ~mcu.regs.lost

\* One primitive succeeds.  A line that nobody drives, or a microcontroller
\* that has lost the frames, may look like success.
Primitive(t) ==
    /\ Running(t)
    /\ script' = Tail(script)
    /\ dark' = (dark \/ ~ck_out)
    /\ LET p == Head(script)
       IN  /\ CASE p[1] = "ar" ->
                    /\ mcu' = IF Heard THEN [mcu EXCEPT !.regs.ar = p[2]]
                              ELSE mcu
                    /\ UNCHANGED buffer
               [] p[1] \in {"wr", "wr!"} ->
                    /\ mcu' = IF Heard THEN McuWrite(mcu, p[2]) ELSE mcu
                    /\ UNCHANGED buffer
               [] p[1] \in {"in_busy", "id"} -> UNCHANGED <<mcu, buffer>>
               [] p[1] = "out_ready" ->
                    /\ Heard => OutReady(mcu.regs)
                    /\ UNCHANGED <<mcu, buffer>>
               [] p[1] = "status" ->
                    /\ mcu' = IF Heard THEN McuRead(mcu) ELSE mcu
                    /\ UNCHANGED buffer
               [] p[1] = "data" ->
                    IF Heard
                    THEN /\ mcu' = McuRead(mcu)
                         /\ buffer' = Append(buffer, McuByte(mcu))
                    ELSE /\ buffer' = Append(buffer, "noise")
                         /\ UNCHANGED mcu
    /\ UNCHANGED <<phase, portVars, mutex, pc, call, halted, before>>

\* A WAIT field times out: the frame stays open.  The result of "wr" is
\* ignored.
WaitTimeout(t) ==
    /\ Running(t)
    /\ LET p == Head(script)
           sent == IF Heard /\ p[1] \in {"wr", "wr!"}
                   THEN McuWrite(mcu, p[2]) ELSE mcu
       IN  /\ p[1] \in {"wr", "wr!", "status", "data", "id"}
           /\ mcu' = IF ck_out THEN Lose(sent) ELSE mcu
           /\ IF p[1] = "wr"
              THEN /\ script' = Tail(script)
                   /\ dark' = (dark \/ ~ck_out)
                   /\ UNCHANGED <<phase, portVars, mutex, pc, call, halted,
                                  before, buffer>>
              ELSE Release(t)

\* A poll gives up (-EIO), or the status is not C2PORT_COMMAND_OK (-EBUSY):
\* the command is abandoned.
PrimitiveFails(t) ==
    /\ Running(t)
    /\ Head(script)[1] \in {"in_busy", "out_ready", "status"}
    /\ mcu' = IF ck_out THEN Lose(mcu) ELSE mcu
    /\ Release(t)

\* The attribute reports success.
Unlock(t) ==
    /\ mutex = t
    /\ script = <<>>
    /\ UNCHANGED mcu
    /\ Release(t)

Next ==
    /\ ~halted
    /\ \/ CreateDevice \/ RegisterFails \/ InitDevice
       \/ ExitAccess \/ ExitUnregister
       \/ \E t \in Threads :
            \/ \E c \in Calls : Enter(t, c)
            \/ AccessStore(t) \/ ResetStore(t) \/ FlashAccessStore(t)
            \/ Scripted(t) \/ Refuse(t)
            \/ Primitive(t) \/ WaitTimeout(t) \/ PrimitiveFails(t)
            \/ Unlock(t)

Spec == Init /\ [][Next]_vars

-----------------------------------------------------------------------------
(* Properties.                                                             *)

Cells(c) == c.off .. c.off + Transfer(c) - 1

TypeOK ==
    /\ phase \in {"none", "visible", "live", "exiting", "gone", "errptr",
                  "errexit"}
    /\ access \in BOOLEAN /\ flash_access \in BOOLEAN
    /\ mutex \in Threads \cup {NoThread}
    /\ pc \in [Threads -> {"idle", "lock", "run"}]
    /\ call \in [Threads -> Calls \cup {NoCall}]
    /\ Len(buffer) <= Chunk
    /\ ck_out \in BOOLEAN /\ halted \in BOOLEAN /\ dark \in BOOLEAN
    /\ DOMAIN mcu.flash = Addresses

\* An attribute that reports success has done its work on the microcontroller,
\* whatever the other threads did between its checks and its mutex: an erase
\* leaves every cell erased, a write leaves its bytes in its cells, a read
\* returned the cells.  This is said of operations whose clock was driven,
\* and until an operation is abandoned.
SuccessIsReal ==
    \A t \in Threads :
      LET c == call[t]
      IN  mutex = t /\ script = <<>> /\ ck_out /\ ~dark /\ ~mcu.regs.lost =>
            CASE c.op = "flash_erase" ->
                   \A a \in Addresses : mcu.flash[a] = "erased"
              [] c.op = "flash_write" ->
                   \A a \in Cells(c) : mcu.flash[a] = c.data[a - c.off + 1]
              [] c.op = "flash_read" ->
                   c.off < Size =>
                     buffer = [k \in 1 .. Transfer(c) |->
                                 mcu.flash[c.off + k - 1]]
              [] OTHER -> mcu.flash = before

\* Whether it succeeds or is abandoned half way, an operation changes only the
\* cells it is for: a write those of its transfer, an erase any, the others
\* none.  (The types are part of it.)
OnlyTargetChanges ==
    /\ TypeOK
    /\ \A t \in Threads : mutex = t /\ call[t].op # "flash_erase" =>
         \A a \in Addresses :
           mcu.flash[a] # before[a] =>
             call[t].op = "flash_write" /\ a \in Cells(call[t])

\* In a registered port with the mutex free, C2CK is driven exactly when access
\* is on: "When access is "off" is important that both lines are set as inputs".
LinesReleased == phase = "live" /\ mutex = NoThread => (ck_out <=> access)

\* "Check the device access status": an operation runs on the wire only while
\* access is on.  Violated: the check is made before the mutex is taken.
AccessRespected ==
    \A t \in Threads : mutex = t /\ script # <<>> => access

=============================================================================
