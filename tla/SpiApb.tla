------------------------------- MODULE SpiApb -------------------------------
(***************************************************************************)
(* The SPI-to-APB bridge library of test_spi/spi2apb.c.  A safe write      *)
(* cuts the data in pieces, sends each as one SPI message, asks the slave  *)
(* for its operation state in a second message, and tries again while the  *)
(* state shows an error.  A safe read does the same for one piece.  Words  *)
(* stand for the 32-bit values; a caller's word i carries the number i, so *)
(* that a word stored at a wrong address shows.  Each caller has an area   *)
(* of its own in the slave's memory; the operation state is one register.  *)
(***************************************************************************)
EXTENDS Naturals

CONSTANTS SpiCallers,    \* threads that use the one slave
          MaxLen,     \* longest transfer, in words
          OpWords     \* APB_MAX_OP_BYTES, in words

\* A piece has a word at least.
SpiAssumption == MaxLen \in Nat /\ OpWords \in Nat \ {0}

VARIABLES opState,    \* the slave's operation state: 0 or an error code
          mem,        \* the slave's memory, an area for each caller
          calls       \* the call each caller is in

spiVars == <<opState, mem, calls>>

Tries == 3            \* the loops give up when try reaches 3
SpiWords == 1 .. MaxLen
Unset == 0            \* a word no one stored

\* A local `state' that does not carry the slave's identification, and the
\* value the loops start with.
NoState == 1000
Error == 1

NoSpiCall == [at |-> "idle", op |-> "none", len |-> 0, pos |-> 0, try |-> 0,
         lost |-> {},     \* pieces whose last message was not sent
         state |-> NoState, buf |-> [i \in SpiWords |-> NoState], ret |-> 0]

SpiInit ==
    /\ opState = 0
    /\ mem = [c \in SpiCallers |-> [i \in SpiWords |-> Unset]]
    /\ calls = [c \in SpiCallers |-> NoSpiCall]

Least(a, b) == IF a < b THEN a ELSE b

\* The words of the piece a call has reached.
Piece(k) == (k.pos + 1) .. (k.pos + Least(k.len - k.pos, OpWords))

-----------------------------------------------------------------------------
\* The start of spi2apb_safe_write and spi2apb_safe_read.
safe_write(c) ==
    /\ calls[c].at = "idle"
    /\ \E n \in SpiWords :
          calls' = [calls EXCEPT ![c] =
                [NoSpiCall EXCEPT !.at = "send", !.op = "write", !.len = n]]
    /\ UNCHANGED <<opState, mem>>

safe_read(c) ==
    /\ calls[c].at = "idle"
    /\ \E n \in 1 .. Least(MaxLen, OpWords) :
          calls' = [calls EXCEPT ![c] =
                [NoSpiCall EXCEPT !.at = "send", !.op = "read", !.len = n]]
    /\ UNCHANGED <<opState, mem>>

\* spi2apb_write: one message with address and data.  The slave stores all
\* of it, or reports an error having stored a first part.  A message
\* spi_sync fails to send changes nothing, and the safe calls do not look at
\* its result.
Sent(k) == [k EXCEPT !.at = "query", !.lost = @ \ {k.pos}]
NotSent(k) == [k EXCEPT !.at = "query", !.lost = @ \cup {k.pos}]

write(c) ==
    /\ calls[c].at = "send" /\ calls[c].op = "write"
    /\ \/ /\ opState' = 0
          /\ mem' = [mem EXCEPT ![c] = [i \in SpiWords |->
                        IF i \in Piece(calls[c]) THEN i ELSE @[i]]]
          /\ calls' = [calls EXCEPT ![c] = Sent(@)]
       \/ /\ opState' = Error
          /\ calls' = [calls EXCEPT ![c] = Sent(@)]
          /\ \E n \in {0, 1} :
                mem' = [mem EXCEPT ![c] = [i \in SpiWords |->
                    IF i \in Piece(calls[c]) /\ i <= calls[c].pos + n
                       THEN i ELSE @[i]]]
       \/ /\ calls' = [calls EXCEPT ![c] = NotSent(@)]
          /\ UNCHANGED <<opState, mem>>

\* spi2apb_read: the command and the answer are one message.
read(c) ==
    /\ calls[c].at = "send" /\ calls[c].op = "read"
    /\ \/ /\ opState' = 0
          /\ calls' = [calls EXCEPT ![c] = [Sent(calls[c]) EXCEPT !.buf =
                          [i \in SpiWords |-> IF i \in Piece(calls[c])
                                THEN mem[c][i] ELSE calls[c].buf[i]]]]
       \/ /\ opState' = Error
          /\ calls' = [calls EXCEPT ![c] = [Sent(calls[c]) EXCEPT !.buf =
                          [i \in SpiWords |-> NoState]]]
       \/ /\ calls' = [calls EXCEPT ![c] = NotSent(@)]
          /\ UNCHANGED opState
    /\ UNCHANGED mem

\* What follows the loop of _safe_write: stop at the first error, go on with
\* the next piece, or return.
EndPiece(k) ==
    LET next == k.pos + Least(k.len - k.pos, OpWords)
    IN  CASE k.state # 0 -> [k EXCEPT !.at = "done", !.ret = 1]
          [] k.state = 0 /\ next < k.len ->
                [k EXCEPT !.at = "send", !.pos = next, !.try = 0,
                          !.state = NoState]
          [] OTHER -> [k EXCEPT !.at = "done", !.pos = next]

\* A plausible slip: a failed last attempt counts as done.
JudgeLast(k) ==
    IF k.state \in {NoState, 0} \/ k.try = Tries
       THEN EndPiece([k EXCEPT !.state = IF k.try = Tries THEN 0 ELSE @])
       ELSE [k EXCEPT !.at = "send", !.try = @ + 1]

\* The test at the end of the loops: a wrong identification ends the call, a
\* good state ends the loop, and the fourth attempt is the last.
Judge(k) ==
    IF k.state \in {NoState, 0} \/ k.try = Tries THEN EndPiece(k)
       ELSE [k EXCEPT !.at = "send", !.try = @ + 1]

\* spi2apb_operation_query and the test.  An answer that does not arrive
\* leaves `state' as it was, one that is damaged has no identification.
operation_query(c) ==
    /\ calls[c].at = "query"
    /\ \E s \in {opState, calls[c].state, NoState} :
          calls' = [calls EXCEPT ![c] = Judge([calls[c] EXCEPT !.state = s])]
    /\ UNCHANGED <<opState, mem>>

\* The caller takes the result; its next call is about an area not written yet.
SpiReturn(c) ==
    /\ calls[c].at = "done"
    /\ calls' = [calls EXCEPT ![c] = NoSpiCall]
    /\ mem' = [mem EXCEPT ![c] = [i \in SpiWords |-> Unset]]
    /\ UNCHANGED opState

SpiStep(c) == write(c) \/ read(c) \/ operation_query(c)

SpiNext == \E c \in SpiCallers :
            safe_write(c) \/ safe_read(c) \/ SpiStep(c) \/ SpiReturn(c)

\* A caller inside the library goes on, because spi_sync returns.  Nothing is
\* assumed of the slave: it may report an error every time.
SpiSpec == /\ SpiInit /\ [][SpiNext]_spiVars
           /\ \A c \in SpiCallers : WF_spiVars(SpiStep(c))

-----------------------------------------------------------------------------
Codes == {0, Error, NoState}

\* The types of the slave's registers and of the calls.
SpiTypeOK ==
    /\ opState \in {0, Error}
    /\ mem \in [SpiCallers -> [SpiWords -> {Unset} \cup SpiWords]]
    /\ \A c \in SpiCallers :
          /\ calls[c].at \in {"idle", "send", "query", "done"}
          /\ calls[c].op \in {"none", "write", "read"}
          /\ calls[c].len \in 0 .. MaxLen /\ calls[c].pos \in 0 .. calls[c].len
          /\ calls[c].lost \subseteq 0 .. MaxLen
          /\ calls[c].try \in 0 .. Tries /\ calls[c].state \in Codes
          /\ calls[c].ret \in {0, 1}

\* A safe write that returns zero has stored every word at its address, and
\* a safe read that returns zero gives what the slave holds: no combination
\* of slave errors, damaged and missing answers and repeated attempts makes
\* a failure look like a success (spi2apb_safe_write, spi2apb_safe_read).
\* The exception is a message that was never sent: the safe calls ignore the
\* result of spi_sync and judge by the state the slave kept from before.
SpiSuccess ==
    \A c \in SpiCallers :
        calls[c].at = "done" /\ calls[c].ret = 0 /\ calls[c].lost = {} =>
            \A i \in 1 .. calls[c].len :
                /\ calls[c].op = "write" => mem[c][i] = i
                /\ calls[c].op = "read" => calls[c].buf[i] = mem[c][i]

\* A safe write stores a first part of the data and nothing behind the piece
\* it failed in: the pieces before it are complete unless their message was
\* not sent (partial failure of spi2apb_safe_write).
FirstPartStored ==
    \A c \in SpiCallers :
        calls[c].op = "write" =>
            \A i \in SpiWords :
                /\ i <= calls[c].pos /\ calls[c].lost = {} => mem[c][i] = i
                /\ i > calls[c].pos + OpWords => mem[c][i] = Unset

\* Every call returns: the attempts of each piece are bounded whatever the
\* slave answers (the loops of _safe_write and safe_read).
SpiCallsReturn ==
    \A c \in SpiCallers : (calls[c].at = "send") ~> (calls[c].at = "done")

\* A call that returns zero has done its work, and a write stores a first part
\* of its data and nothing behind it (spi2apb_safe_write, spi2apb_safe_read).
SpiSafe == SpiTypeOK /\ SpiSuccess /\ FirstPartStored
=============================================================================
