----------------------------- MODULE MCDrivers -----------------------------
(***************************************************************************)
(* The drivers that do not interact, checked side by side: a behaviour is  *)
(* one of TimedGpio, TimerCtl or of the other modules below, as `which'    *)
(* says, with the other modules' variables at rest.  SpiBits, QfpLimits,   *)
(* JsonComments, FbGrab and DrmFrames have no state: what they compute is  *)
(* checked in a state of its own, "pure", from which no step is taken.     *)
(***************************************************************************)
EXTENDS TimedGpio, TimerCtl, ScaleControl, SpiApb, QfpFuse, Mirror,
        Regulator, MmuTables, TimedProbe, C2Client, TLC

CONSTANTS t1, t2, w1, w2, f1, f2

VARIABLE which

MCThreads == {t1, t2}
MCCaller == {t1}
MCWriters == {w1, w2}
MCPeriods == {0, 1}
MCFiles == {f1, f2}
MCBits == {1}
MCRanges == {<<1, 2>>}
MCValues == {-1, 0, 1, 3}
MCSharing == {t1 :> f1 @@ t2 :> f1, t1 :> f1 @@ t2 :> f2}
MCIfindex == "eth0" :> 1 @@ "eth1" :> 2 @@ "wlan0" :> 33
MCDevs == DOMAIN MCIfindex
MCTables == {<<"left", "right", "horn">>, <<"vibrator", "horn", "vibrator">>}

SB == INSTANCE SpiBits
QL == INSTANCE QfpLimits
JC == INSTANCE JsonComments
FG == INSTANCE FbGrab
DF == INSTANCE DrmFrames

ASSUME InstanceAssumptions ==
    /\ MirrorAssumption /\ DuramarAssumption /\ FuseAssumption
    /\ ProbeAssumption /\ SpiAssumption
    /\ \A c, d \in SpiCallers : c = d

Parts == {"pure", "timed", "timer", "scale", "spi", "fuse", "mirror",
          "regulator", "mmu", "probe", "duramar", "client"}

DriversInit ==
    /\ which \in Parts
    /\ Init /\ TimerInit /\ ControlInit /\ SpiInit /\ FuseInit /\ MirrorInit
    /\ RegulatorInit /\ MmuInit /\ ProbeInit /\ DuramarInit /\ ClientInit
    \* One start for the modules at rest.
    /\ which # "timer" => mstate = "failed"
    /\ which # "fuse" => fileOf[t2] = f2
    /\ which # "mirror" => present = {}
    /\ which # "probe" => names[1] = "left" /\ class = "ok"

all == <<which, vars, timerVars, controlVars, spiVars, fuseVars, mirrorVars,
         regulatorVars, mmuVars, probeVars, duramarVars, clientVars>>

Rest(part, v) == IF which = part THEN TRUE ELSE UNCHANGED v

DriversNext ==
    /\ \/ which = "timed" /\ Next
       \/ which = "timer" /\ TimerNext
       \/ which = "scale" /\ ControlNext
       \/ which = "spi" /\ SpiNext
       \/ which = "fuse" /\ FuseNext
       \/ which = "mirror" /\ MirrorNext
       \/ which = "regulator" /\ RegulatorNext
       \/ which = "mmu" /\ MmuNext
       \/ which = "probe" /\ ProbeNext
       \/ which = "duramar" /\ DuramarNext
       \/ which = "client" /\ ClientNext
    /\ UNCHANGED which
    /\ Rest("timed", vars) /\ Rest("timer", timerVars)
    /\ Rest("scale", controlVars) /\ Rest("spi", spiVars)
    /\ Rest("fuse", fuseVars) /\ Rest("mirror", mirrorVars)
    /\ Rest("regulator", regulatorVars) /\ Rest("mmu", mmuVars)
    /\ Rest("probe", probeVars) /\ Rest("duramar", duramarVars)
    /\ Rest("client", clientVars)

\* The fairness of each module (see there), for the module that runs.
DriversSpec ==
    /\ DriversInit /\ [][DriversNext]_all
    /\ WF_vars(which = "timed" /\ Next /\ (Tick \/ Expire \/ TimerFunc))
    /\ \A c \in Callers : WF_vars(which = "timed" /\ Next /\ Enable(c))
    /\ WF_timerVars(which = "timer" /\ ~halted /\ Callback)
    /\ \A w \in Writers :
          /\ SF_timerVars(which = "timer" /\ ~halted /\ OnStoreDel(w))
          /\ WF_timerVars(which = "timer" /\ ~halted /\ StoreModTimer(w))
    /\ \A c \in SpiCallers : WF_spiVars(which = "spi" /\ SpiStep(c))
    /\ \A t \in FuseThreads : SF_fuseVars(which = "fuse" /\ Inside(t))

-----------------------------------------------------------------------------
\* The functions without state: the slave gets the bytes that were turned
\* round, an accepted request stays in the fuse area, exactly the comment is
\* removed, pixels keep their colours and buffers their sizes, a frame fits
\* into its buffer and the buffer covers the mode.
FunctionsAgree ==
    which = "pure" => /\ SB!TurnedBytesArrive /\ QL!LimitsRespected
                      /\ JC!CommentsCut
                      /\ FG!ColoursKept /\ FG!BuffersMatch
                      /\ DF!CopyFits /\ DF!ModeCovered

\* TimerCtl, SpiApb, QfpFuse: a store that stops the timer, a safe call and a
\* request for fuses return.
CallsReturn == StopReturns /\ SpiCallsReturn /\ RequestsEnd
=============================================================================
