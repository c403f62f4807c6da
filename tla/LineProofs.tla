----------------------------- MODULE LineProofs -----------------------------
(***************************************************************************)
(* Lines and switches that several threads and a timer set.                *)
(*                                                                         *)
(* TimedGpio, for any number of threads and any values: the inductive      *)
(* invariant, and that gpio_enable with the timer's callback implements    *)
(* the service of TimedOutput.  Duramar and C2Client, for any set of       *)
(* threads: no update of a port register or line is lost, and an           *)
(* undisturbed exit leaves both lines inputs.  Regulator: the switch       *)
(* follows its users.                                                      *)
(***************************************************************************)
EXTENDS TimedGpio, C2Client, Regulator, TLAPS

\* Most leaves take no arithmetic: Zenon is tried unless a leaf names another prover.
USE ZenonT(30)

\* Probe finds the output off, unlocked and without a timer.
LEMMA InitIInv == Init => IInv
<1> SUFFICES ASSUME Init PROVE IInv
  OBVIOUS
<1> USE TimedGpioAssumption DEF Init, Callers
<1>1. TypeOK
  <2>1. pin \in BOOLEAN /\ strayed \in BOOLEAN /\ oopsed \in BOOLEAN
    OBVIOUS
  <2>2. left \in 0 .. MaxTimeout /\ last \in Values
    BY SMTT(30)
  <2> QED BY <2>1, <2>2 DEF TypeOK
<1>2. LockInv /\ CallInv
  BY DEF LockInv, CallInv
<1>3. TimerInv /\ OnIsTimed /\ PinInv /\ EarlyInv /\ CoreInv
  BY DEF TimerInv, OnIsTimed, PinInv, EarlyInv, CoreInv
<1> QED BY <1>1, <1>2, <1>3 DEF IInv

\* A step of a caller inside gpio_enable keeps the invariant.
LEMMA EnableStep ==
    ASSUME IInv, ~oopsed, NEW c \in Callers, Enable(c)
    PROVE  IInv'
<1> USE TimedGpioAssumption DEF Callers, Goto
<1>1. CASE EnableLock(c)
  BY SMTT(30), <1>1 DEF EnableLock, IInv, TypeOK, LockInv, CallInv, TimerInv, OnIsTimed,
              PinInv, EarlyInv, CoreInv, callVars, outVars, hrtimerVars
<1>2. CASE EnableCancel(c)
  BY SMTT(30), <1>2 DEF EnableCancel, IInv, TypeOK, LockInv, CallInv, TimerInv,
              OnIsTimed, PinInv, EarlyInv, CoreInv, outVars
<1>3. CASE EnableSet(c)
  <2>1. value[c] \in Values /\ value[c] \in Int /\ lock = c /\ timer = "idle"
    BY <1>3 DEF EnableSet, IInv, TypeOK, LockInv, CallInv, TimerInv
  <2>2. /\ pin' \in BOOLEAN /\ strayed' \in BOOLEAN
        /\ pin' => pin \/ value[c] # 0
        /\ pin' => phase # "registered" \/ pin
        /\ phase = "registered" => pin' = pin
    BY <1>3 DEF EnableSet, IInv, TypeOK
  <2>3. TypeOK'
    BY <1>3, <2>1, <2>2 DEF EnableSet, IInv, TypeOK, hrtimerVars
  <2>4. LockInv' /\ CallInv' /\ TimerInv' /\ OnIsTimed'
    BY <1>3, <2>1 DEF EnableSet, IInv, TypeOK, LockInv, CallInv, TimerInv,
                      OnIsTimed, hrtimerVars
  <2>5. phase \notin {"none", "attr"}
    BY <1>3 DEF EnableSet, IInv, EarlyInv
  <2>6. PinInv' /\ EarlyInv' /\ CoreInv'
    BY SMTT(30), <1>3, <2>1, <2>2, <2>5 DEF EnableSet, IInv, PinInv, EarlyInv, CoreInv
  <2> QED BY <2>3, <2>4, <2>6 DEF IInv
<1>4. CASE EnableStart(c)
  <2>1. value[c] \in Values /\ value[c] \in Int /\ last = value[c]
        /\ lock = c /\ timer = "idle"
    BY <1>4 DEF EnableStart, IInv, TypeOK, LockInv, CallInv, TimerInv
  <2>2. TypeOK'
    BY SMTT(30), <1>4, <2>1 DEF EnableStart, Finish, IInv, TypeOK, outVars, hrtimerVars
  <2>3. LockInv' /\ CallInv'
    BY <1>4, <2>1 DEF EnableStart, Finish, IInv, TypeOK, LockInv, CallInv
  <2>4. phase \notin {"none", "attr"}
    BY <1>4 DEF EnableStart, IInv, EarlyInv
  <2>5. TimerInv' /\ OnIsTimed' /\ PinInv' /\ EarlyInv' /\ CoreInv'
    BY SMTT(30), <1>4, <2>1, <2>4 DEF EnableStart, Finish, IInv, TypeOK, LockInv,
         CallInv, TimerInv, OnIsTimed, PinInv, EarlyInv, CoreInv, outVars,
         hrtimerVars
  <2> QED BY <2>2, <2>3, <2>5 DEF IInv
<1> QED BY <1>1, <1>2, <1>3, <1>4 DEF Enable

\* Time and the callback keep it.
LEMMA TimerStep ==
    ASSUME IInv, ~oopsed, Tick \/ Expire \/ TimerFunc
    PROVE  IInv'
<1> USE TimedGpioAssumption DEF Callers
<1>1. CASE Tick
  BY SMTT(30), <1>1 DEF Tick, IInv, TypeOK, LockInv, CallInv, TimerInv, OnIsTimed,
              PinInv, EarlyInv, CoreInv, callVars, outVars
<1>2. CASE Expire
  BY <1>2 DEF Expire, IInv, TypeOK, LockInv, CallInv, TimerInv, OnIsTimed,
              PinInv, EarlyInv, CoreInv, callVars, outVars
<1>3. CASE TimerFunc
  BY <1>3 DEF TimerFunc, IInv, TypeOK, LockInv, CallInv, TimerInv, OnIsTimed,
              PinInv, EarlyInv, CoreInv, callVars
<1> QED BY <1>1, <1>2, <1>3

\* Probe and remove keep it.
LEMMA DriverStep == ASSUME IInv, ~oopsed, Driver PROVE IInv'
<1> USE TimedGpioAssumption DEF Callers, callVars, outVars, hrtimerVars
<1>1. CASE AttrVisible \/ SetDrvdata \/ RemoveFile
  BY SMTT(30), <1>1 DEF AttrVisible, SetDrvdata, RemoveFile, IInv, TypeOK, LockInv,
              CallInv, TimerInv, OnIsTimed, PinInv, EarlyInv, CoreInv
<1>2. CASE ProbeDone
  BY <1>2 DEF ProbeDone, IInv, TypeOK, LockInv, CallInv, TimerInv, OnIsTimed,
              PinInv, EarlyInv, CoreInv
<1>3. CASE Unregister
  BY SMTT(30), <1>3 DEF Unregister, Enter, Goto, IInv, TypeOK, LockInv, CallInv,
              TimerInv, OnIsTimed, PinInv, EarlyInv, CoreInv
<1> QED BY <1>1, <1>2, <1>3 DEF Driver

\* A new store keeps it.
LEMMA StoreStep ==
    ASSUME IInv, ~oopsed, NEW t \in Threads, NEW v \in Values, EnableStore(t, v)
    PROVE  IInv'
<1> USE TimedGpioAssumption DEF Callers
<1>1. /\ t \in Callers
      /\ pc[t] = "idle"
      /\ pc' = [pc EXCEPT ![t] = "lock"]
      /\ value' = [value EXCEPT ![t] = v]
      /\ UNCHANGED <<phase, max_timeout, lock, pin, strayed, last, timer, left>>
  BY DEF EnableStore, Enter, Goto, outVars, hrtimerVars
<1>2. /\ phase # "none"
      /\ oopsed' = (phase = "attr")
  BY DEF EnableStore
<1>3. TypeOK /\ LockInv /\ CallInv /\ TimerInv
      /\ OnIsTimed /\ PinInv /\ EarlyInv /\ CoreInv
  BY DEF IInv
<1>4. pc \in [Callers -> {"idle", "lock", "cancel", "set", "start"}]
      /\ value \in [Callers -> Values \cup {NoValue}]
  BY <1>3 DEF TypeOK
<1> HIDE DEF Callers
<1>5. TypeOK'
  <2>1. pc' \in [Callers -> {"idle", "lock", "cancel", "set", "start"}]
        /\ value' \in [Callers -> Values \cup {NoValue}]
    BY <1>1, <1>4
  <2>2. oopsed' \in BOOLEAN
    BY <1>2
  <2> QED BY <1>1, <1>3, <2>1, <2>2 DEF TypeOK
<1>6. LockInv'
  BY <1>1, <1>3, <1>4 DEF LockInv
<1>7. CallInv'
  BY <1>1, <1>3, <1>4 DEF CallInv
<1>8. TimerInv'
  BY <1>1, <1>3, <1>4 DEF TimerInv
<1>9. OnIsTimed' /\ PinInv'
  BY <1>1, <1>3 DEF OnIsTimed, PinInv
<1>10. EarlyInv'
  BY <1>1, <1>2 DEF EarlyInv
<1>11. CoreInv'
  BY <1>1, <1>3, <1>4 DEF Callers, CoreInv
<1> QED BY <1>5, <1>6, <1>7, <1>8, <1>9, <1>10, <1>11 DEF IInv

\* The invariant is inductive.
LEMMA StepIInv == IInv /\ [Next]_vars => IInv'
<1> SUFFICES ASSUME IInv, [Next]_vars PROVE IInv'
  OBVIOUS
<1>1. CASE UNCHANGED vars
  BY SMTT(30), <1>1 DEF vars, IInv, TypeOK, LockInv, CallInv, TimerInv, OnIsTimed,
              PinInv, EarlyInv, CoreInv, callVars, outVars, hrtimerVars
<1>2. CASE Next
  BY <1>2, EnableStep, TimerStep, DriverStep, StoreStep DEF Next
<1> QED BY <1>1, <1>2

\* The strengthened invariant holds in every state.
THEOREM Invariance == Spec => []IInv
<1> QED BY InitIInv, StepIInv, PTL DEF Spec

\* Types hold for every set of threads and values.
THEOREM TypeCorrect == Spec => []TypeOK
<1>1. IInv => TypeOK
  BY DEF IInv
<1> QED BY <1>1, Invariance, PTL

\* gpio_enable never leaves the output on without a timer that will switch it
\* off, unless it was given a negative value.
THEOREM NeverLeftOn == Spec => []OnIsTimed
<1>1. IInv => OnIsTimed
  BY DEF IInv
<1> QED BY <1>1, Invariance, PTL
-----------------------------------------------------------------------------
(* The refinement.                                                         *)

\* The refinement mapping, as in the definition of Service.
Mode == IF ~pin THEN "off" ELSE IF last > 0 THEN "timed" ELSE "held"
Asked ==
    [c \in Callers |->
       IF pc[c] \in {"lock", "cancel", "set"} THEN value[c] ELSE NoValue]
IsReady == phase \notin {"none", "attr", "registered"}

\* What a step does to the service it can leave alone.
LEMMA Stutter ==
    ASSUME Mode' = Mode, Asked' = Asked, IsReady' = IsReady
    PROVE  UNCHANGED Service!vars
BY DEF Service!vars, Mode, Asked, IsReady

\* Where probe starts, the service starts.
LEMMA ServiceInit == Init => Service!Init
BY DEF Init, Service!Init, Callers

\* A call that has set the pin has taken effect, or missed the output.
LEMMA SetTakesEffect ==
    ASSUME IInv, ~oopsed, NEW c \in Callers, EnableSet(c)
    PROVE  Service!TakeEffect(c) \/ Service!Miss(c)
<1> USE TimedGpioAssumption
<1>1. /\ value[c] \in Int /\ value[c] # NoValue /\ pc[c] = "set"
      /\ phase \notin {"none", "attr"}
  BY DEF EnableSet, IInv, TypeOK, CallInv, EarlyInv, Callers
<1>2. Asked[c] = value[c] /\ Asked' = [Asked EXCEPT ![c] = NoValue]
  BY <1>1 DEF EnableSet, Goto, Asked, IInv, TypeOK
<1>3. IsReady' = IsReady
  BY DEF EnableSet, IsReady
<1>4. CASE phase = "registered"
  <2>1. Mode' = Mode
    BY SMTT(30), <1>4 DEF EnableSet, IInv, PinInv, Mode
  <2> QED BY <1>1, <1>2, <1>3, <1>4, <2>1
          DEF Service!Miss, Asked, Mode, IsReady
<1>5. CASE phase # "registered"
  <2>1. pin' <=> value[c] # 0
    BY <1>5 DEF EnableSet
  <2>2. Mode' = Service!ModeOf(Asked[c])
    BY <1>1, <1>2, <1>5, <2>1 DEF EnableSet, Mode, Service!ModeOf
  <2> QED BY <1>1, <1>2, <1>3, <2>2
          DEF Service!TakeEffect, Asked, Mode, IsReady
<1> QED BY <1>4, <1>5

\* The other steps of gpio_enable do not show.
LEMMA EnableShows ==
    ASSUME IInv, ~oopsed, NEW c \in Callers, Enable(c)
    PROVE  [Service!Next]_(Service!vars)
<1> USE TimedGpioAssumption
<1>1. CASE EnableSet(c)
  BY <1>1, SetTakesEffect DEF Service!Next
<1>2. CASE EnableLock(c) \/ EnableCancel(c)
  BY SMTT(30), <1>2, Stutter DEF EnableLock, EnableCancel, Goto, Mode, Asked, IsReady,
       IInv, TypeOK, outVars
<1>3. CASE EnableStart(c)
  <2>1. Mode' = Mode
    BY <1>3 DEF EnableStart, outVars, Mode
  <2>2. Asked' = Asked
    BY <1>3 DEF EnableStart, Finish, Goto, Asked, IInv, TypeOK
  <2>3. IsReady' = IsReady
    <3>1. CASE c = Core
      BY <1>3, <3>1 DEF EnableStart, Finish, IsReady, IInv, CoreInv
    <3>2. CASE c # Core
      BY <1>3, <3>2 DEF EnableStart, Finish, IsReady
    <3> QED BY <3>1, <3>2
  <2> QED BY <2>1, <2>2, <2>3, Stutter
<1> QED BY <1>1, <1>2, <1>3 DEF Enable

\* Only a timed output expires.
LEMMA TimerShows ==
    ASSUME IInv, ~oopsed, Tick \/ Expire \/ TimerFunc
    PROVE  [Service!Next]_(Service!vars)
<1>1. CASE Tick \/ Expire
  BY SMTT(30), <1>1, Stutter DEF Tick, Expire, callVars, outVars, Mode, Asked, IsReady
<1>2. CASE TimerFunc
  <2>1. last > 0 /\ Asked' = Asked /\ IsReady' = IsReady
    BY <1>2 DEF TimerFunc, IInv, TimerInv, callVars, Asked, IsReady
  <2>2. CASE pin /\ phase # "registered"
    <3>1. Mode = "timed" /\ Mode' = "off"
      BY <1>2, <2>1, <2>2 DEF TimerFunc, Mode
    <3> QED BY <2>1, <3>1 DEF Service!Next, Service!Expire, Mode, Asked, IsReady
  <2>3. CASE ~pin \/ phase = "registered"
    <3>1. Mode' = Mode
      BY SMTT(30), <1>2, <2>3 DEF TimerFunc, Mode, IInv, TypeOK
    <3> QED BY <2>1, <3>1, Stutter
  <2> QED BY <2>2, <2>3
<1> QED BY <1>1, <1>2

\* Probe makes the service ready; remove makes a call of its own.
LEMMA DriverShows ==
    ASSUME IInv, ~oopsed, Driver
    PROVE  [Service!Next]_(Service!vars)
<1> USE TimedGpioAssumption DEF callVars, outVars
<1>1. CASE AttrVisible \/ SetDrvdata \/ RemoveFile
  BY SMTT(30), <1>1, Stutter DEF AttrVisible, SetDrvdata, RemoveFile, Mode, Asked,
       IsReady
<1>2. CASE ProbeDone
  <2>1. Mode' = "off" /\ Asked' = Asked /\ ~IsReady /\ IsReady'
    BY <1>2 DEF ProbeDone, Mode, Asked, IsReady
  <2> QED BY <2>1 DEF Service!Next, Service!Ready, Mode, Asked, IsReady
<1>3. CASE Unregister
  <2>1. Asked[Core] = NoValue /\ Asked' = [Asked EXCEPT ![Core] = 0]
    BY <1>3 DEF Unregister, Enter, Goto, Asked, IInv, TypeOK, Callers
  <2>2. Mode' = Mode /\ IsReady' = IsReady
    BY <1>3 DEF Unregister, Mode, IsReady
  <2>3. Service!Call(Core, 0)
    BY <2>1, <2>2 DEF Service!Call, Mode, Asked, IsReady
  <2> QED BY <2>3 DEF Service!Next, Callers
<1> QED BY <1>1, <1>2, <1>3 DEF Driver

\* A store is a call.
LEMMA StoreShows ==
    ASSUME IInv, ~oopsed, NEW t \in Threads, NEW v \in Values, EnableStore(t, v)
    PROVE  [Service!Next]_(Service!vars)
<1>1. Asked[t] = NoValue /\ Asked' = [Asked EXCEPT ![t] = v]
  BY DEF EnableStore, Enter, Goto, Asked, IInv, TypeOK, Callers
<1>2. Mode' = Mode /\ IsReady' = IsReady
  BY DEF EnableStore, outVars, Mode, IsReady
<1>3. Service!Call(t, v)
  BY <1>1, <1>2 DEF Service!Call, Mode, Asked, IsReady
<1> QED BY <1>3 DEF Service!Next, Callers

\* gpio_enable and its timer callback implement the timed output service: each
\* call takes effect in one step, and only a positive value expires.
THEOREM ImplementsService == Spec => ServiceSpec
<1>1. IInv /\ [Next]_vars => [Service!Next]_(Service!vars)
  <2> SUFFICES ASSUME IInv, [Next]_vars
               PROVE  [Service!Next]_(Service!vars)
    OBVIOUS
  <2>1. CASE UNCHANGED vars
    BY <2>1, Stutter DEF vars, callVars, outVars, Mode, Asked, IsReady
  <2>2. CASE Next
    BY <2>2, EnableShows, TimerShows, DriverShows, StoreShows DEF Next
  <2> QED BY <2>1, <2>2
<1> QED BY <1>1, ServiceInit, Invariance, PTL DEF Spec, ServiceSpec, Service!Spec

-----------------------------------------------------------------------------
(* Duramar and C2Client.                                                   *)

Between == {"inb", "outb"}

\* An operation under way has a place and one of the two registers.
OpsOK ==
    /\ op \in [Users -> [reg : {"none", "dir", "data"}, set : SUBSET Lines,
                          clear : SUBSET Lines,
                          at : {"idle", "lock", "inb", "outb"}]]
    /\ copy \in [Users -> BitSets] /\ dir \in BitSets /\ data \in BitSets
    /\ \A t \in Users : op[t] # NoOp => op[t].at # "idle" /\ op[t].reg # "none"

\* Exactly the owner of update_lock is between inb and outb.
LockOK ==
    /\ update_lock = "free" \/ (update_lock \in Users /\ op[update_lock].at \in Between)
    /\ \A t \in Users : op[t].at \in Between => update_lock = t

\* The owner's copy is still the register's value, so what it will write is
\* what the register should hold; the other register holds what it should.
CopyOK ==
    /\ update_lock = "free" => dir = wantDir /\ data = wantData
    /\ \A t \in Users :
         op[t].at \in Between =>
           /\ op[t].reg = "dir" =>
                wantDir = Result(dir, op[t]) /\ wantData = data
           /\ op[t].reg # "dir" =>
                wantData = Result(data, op[t]) /\ wantDir = dir
    /\ \A t \in Users :
         op[t].at = "outb" => copy[t] = IF op[t].reg = "dir" THEN dir ELSE data

PortInv == OpsOK /\ LockOK /\ CopyOK

\* The place of exit: its access(0) is under way or done, and without late
\* users nothing touches the directions behind it.
ExitInv ==
    /\ module \in {"out", "in", "leaving"}
    /\ module = "out" => \A t \in Users : op[t] = NoOp
    /\ module = "in" => op[Unloader] = NoOp
    /\ module = "leaving" /\ ~late => \A t \in PortThreads : op[t] = NoOp
    /\ module = "leaving" /\ op[Unloader] # NoOp =>
         op[Unloader].reg = "dir" /\ op[Unloader].set = {} /\ op[Unloader].clear = Lines
    /\ module = "leaving" /\ ~late /\ op[Unloader] = NoOp => dir \cap Lines = {}
    /\ module = "out" /\ ~late => dir \cap Lines = {}

DuramarInv == PortInv /\ ExitInv

\* What an operation is before it has the lock.
LEMMA BegunOK ==
    ASSUME NEW o \in Operations
    PROVE  /\ Begun(o) \in [reg : {"none", "dir", "data"}, set : SUBSET Lines,
                            clear : SUBSET Lines,
                            at : {"idle", "lock", "inb", "outb"}]
           /\ Begun(o).at = "lock" /\ Begun(o).reg \in {"dir", "data"}
  <1>1. PICK b \in BOOLEAN : o \in {access(b), c2d_dir(b), c2d_set(b),
                                    c2ck_set(b)}
    BY DEF Operations
  <1>2. CASE o = access(b)
    BY <1>2 DEF access, Begun, Lines
  <1>3. CASE o = c2d_dir(b)
    BY <1>3 DEF c2d_dir, Begun, Lines
  <1>4. CASE o = c2d_set(b)
    BY <1>4 DEF c2d_set, Begun, Lines
  <1>5. CASE o = c2ck_set(b)
    BY <1>5 DEF c2ck_set, Begun, Lines
  <1> QED BY <1>1, <1>2, <1>3, <1>4, <1>5

LEMMA InitDuramar == DuramarInit => DuramarInv
  <1> SUFFICES ASSUME DuramarInit PROVE DuramarInv
    OBVIOUS
  <1>1. OpsOK
    BY DEF DuramarInit, OpsOK, NoOp, Users, Lines, BitSets, C2D, C2CK, Other
  <1>2. LockOK
    BY DEF DuramarInit, LockOK, NoOp, Users, Between
  <1>3. CopyOK
    BY DEF DuramarInit, CopyOK, NoOp, Users, Between
  <1>4. ExitInv
    BY DEF DuramarInit, ExitInv, Users, Lines, C2D, C2CK, Other
  <1> QED BY <1>1, <1>2, <1>3, <1>4 DEF DuramarInv, PortInv

\* Loading, and the steps of exit outside the registers.
LEMMA ModuleStep ==
    ASSUME DuramarAssumption, DuramarInv,
           duramar2150_c2port_init \/ exit_unregisters
    PROVE  DuramarInv'
  <1>1. UNCHANGED <<dir, data, update_lock, op, copy, wantDir, wantData>>
    BY DEF duramar2150_c2port_init, exit_unregisters, Ports, Wants
  <1>2. PortInv'
    BY <1>1 DEF DuramarInv, PortInv, OpsOK, LockOK, CopyOK
  <1>3. ExitInv'
    <2>1. CASE duramar2150_c2port_init
      BY <1>1, <2>1 DEF duramar2150_c2port_init, DuramarInv, ExitInv, Users
    <2>2. CASE exit_unregisters
      BY SMTT(30), <1>1, <2>2 DEF exit_unregisters, DuramarInv, ExitInv, Users
    <2> QED BY <2>1, <2>2
  <1> QED BY <1>2, <1>3 DEF DuramarInv

\* An operation begins: of the exit, or of a user.
LEMMA BeginStep ==
    ASSUME DuramarAssumption, DuramarInv, NEW t \in Users,
           NEW o \in Operations, op[t] = NoOp,
           op' = [op EXCEPT ![t] = Begun(o)],
           UNCHANGED <<dir, data, update_lock, copy, wantDir, wantData>>
    PROVE  PortInv'
  <1> USE DEF DuramarInv, PortInv
  <1>1. op[t].at = "idle"
    BY SMTT(30) DEF NoOp
  <1>2. OpsOK'
    BY BegunOK DEF OpsOK, NoOp
  <1>3. \A a \in Users : op'[a] = IF a = t THEN Begun(o) ELSE op[a]
    BY DEF OpsOK
  <1>4. Begun(o).at \notin Between
    BY BegunOK DEF Between
  <1>5. LockOK'
    BY <1>1, <1>3, <1>4 DEF LockOK, Between
  <1>6. CopyOK'
    BY <1>3, <1>4 DEF CopyOK, Between
  <1> QED BY <1>2, <1>5, <1>6

LEMMA ExitStep ==
    ASSUME DuramarAssumption, DuramarInv, duramar2150_c2port_exit
    PROVE  DuramarInv'
  <1>1. access(FALSE) \in Operations
    BY DEF Operations
  <1>2. PortInv'
    <2>1. /\ Unloader \in Users /\ op[Unloader] = NoOp
          /\ op' = [op EXCEPT ![Unloader] = Begun(access(FALSE))]
          /\ UNCHANGED <<dir, data, update_lock, copy, wantDir, wantData>>
      BY DEF duramar2150_c2port_exit, Ports, Wants, Users
    <2> QED BY <1>1, <2>1, BeginStep
  <1>3. op'[Unloader] = Begun(access(FALSE))
    BY DEF duramar2150_c2port_exit, DuramarInv, PortInv, OpsOK, Users
  <1>4. /\ op'[Unloader].reg = "dir" /\ op'[Unloader].set = {}
        /\ op'[Unloader].clear = Lines /\ op'[Unloader].at = "lock"
    <2>1. /\ Begun(access(FALSE)).reg = "dir"
          /\ Begun(access(FALSE)).set = {} /\ Begun(access(FALSE)).clear = Lines
          /\ Begun(access(FALSE)).at = "lock"
      BY DEF Begun, access, Lines
    <2> QED BY <1>3, <2>1
  <1>5. \A t \in PortThreads : op'[t] = op[t]
    BY DEF duramar2150_c2port_exit, DuramarInv, PortInv, OpsOK, Users,
           DuramarAssumption
  <1>6. op'[Unloader] # NoOp
    BY SMTT(30), <1>4 DEF NoOp
  <1>7. module' = "leaving" /\ late' = (\E t \in PortThreads : op[t] # NoOp)
    BY DEF duramar2150_c2port_exit
  <1>8. ExitInv'
    BY <1>4, <1>5, <1>6, <1>7 DEF ExitInv
  <1> QED BY <1>2, <1>8 DEF DuramarInv

LEMMA CallStep ==
    ASSUME DuramarAssumption, DuramarInv, NEW t \in PortThreads, CallOperation(t)
    PROVE  DuramarInv'
  <1>1. PICK o \in Operations : op' = [op EXCEPT ![t] = Begun(o)]
    BY DEF CallOperation
  <1>2. PortInv'
    <2>1. /\ t \in Users /\ op[t] = NoOp
          /\ UNCHANGED <<dir, data, update_lock, copy, wantDir, wantData>>
      BY DEF CallOperation, Ports, Wants, Users
    <2> QED BY <1>1, <2>1, BeginStep
  <1>3. op'[Unloader] = op[Unloader]
    BY <1>1 DEF DuramarInv, PortInv, OpsOK, Users, DuramarAssumption
  <1>4. /\ module' = module /\ module # "out" /\ dir' = dir
        /\ late' = (late \/ module = "leaving")
    BY DEF CallOperation, Ports
  <1>5. ExitInv'
    BY <1>3, <1>4 DEF DuramarInv, ExitInv
  <1> QED BY <1>2, <1>5 DEF DuramarInv

\* mutex_lock: from here on the register should hold the operation's result.
LEMMA LockStep ==
    ASSUME DuramarAssumption, DuramarInv, NEW t \in Users, take_lock(t)
    PROVE  DuramarInv'
  <1> USE DEF DuramarInv, PortInv, take_lock, Ports
  <1>1. \A a \in Users :
          /\ a # t => op'[a] = op[a]
          /\ op'[t] = [op[t] EXCEPT !.at = "inb"]
    BY DEF OpsOK
  <1>2. /\ op'[t].at = "inb" /\ op'[t].reg = op[t].reg
        /\ op'[t].set = op[t].set /\ op'[t].clear = op[t].clear
    BY <1>1 DEF OpsOK
  <1>3. op[t] # NoOp /\ op'[t] # NoOp
    BY SMTT(30), <1>2 DEF NoOp
  <1>4. \A a \in Users : op[a].at \notin Between
    BY DEF LockOK, DuramarAssumption, Users
  <1>5. OpsOK'
    BY <1>1, <1>2, <1>3 DEF OpsOK
  <1>6. LockOK'
    BY <1>1, <1>2, <1>4 DEF LockOK, Between
  <1>7. CopyOK'
    <2>1. update_lock' # "free"
      BY DEF DuramarAssumption, Users
    <2>2. \A x : Result(x, op'[t]) = Result(x, op[t])
      BY <1>2 DEF Result
    <2>3. dir = wantDir /\ data = wantData
      BY DEF CopyOK
    <2>4. /\ op[t].reg = "dir" =>
               wantDir' = Result(dir, op[t]) /\ wantData' = data
          /\ op[t].reg # "dir" =>
               wantData' = Result(data, op[t]) /\ wantDir' = dir
      BY <2>3
    <2>5. \A a \in Users : op'[a].at \in Between => a = t
      BY <1>1, <1>4
    <2>6. \A a \in Users : op'[a].at # "outb"
      BY <1>1, <1>2, <1>4 DEF Between
    <2> QED BY SMTT(30), <1>2, <2>1, <2>2, <2>4, <2>5, <2>6 DEF CopyOK
  <1>8. ExitInv'
    BY SMTT(30), <1>1, <1>2, <1>3 DEF ExitInv, Users
  <1> QED BY <1>5, <1>6, <1>7, <1>8

\* inb: the copy is the register's value, which only the owner changes.
LEMMA PortReadStep ==
    ASSUME DuramarAssumption, DuramarInv, NEW t \in Users, inb(t)
    PROVE  DuramarInv'
  <1> USE DEF DuramarInv, PortInv, inb, Ports, Wants
  <1>1. \A a \in Users :
          /\ a # t => op'[a] = op[a] /\ copy'[a] = copy[a]
          /\ op'[t] = [op[t] EXCEPT !.at = "outb"]
          /\ copy'[t] = IF op[t].reg = "dir" THEN dir ELSE data
    BY DEF OpsOK
  <1>2. /\ op'[t].at = "outb" /\ op'[t].reg = op[t].reg
        /\ op'[t].set = op[t].set /\ op'[t].clear = op[t].clear
    BY SMTT(30), <1>1 DEF OpsOK
  <1>3. op[t] # NoOp /\ op'[t] # NoOp
    BY SMTT(30), <1>2 DEF NoOp
  <1>4. update_lock = t /\ op[t].at \in Between
    BY DEF LockOK, Between
  <1>6. LockOK'
    BY <1>1, <1>2, <1>4 DEF LockOK, Between
  <1>7. CopyOK'
    <2>1. \A x : Result(x, op'[t]) = Result(x, op[t])
      BY <1>2 DEF Result
    <2>2. \A a \in Users : op'[a].at \in Between => a = t
      BY <1>1, <1>4 DEF LockOK
    <2>3. update_lock' # "free"
      BY <1>4 DEF DuramarAssumption, Users
    <2>4. \A a \in Users : op'[a].at = "outb" => a = t
      BY <2>2 DEF Between
    <2> QED BY SMTT(30), <1>1, <1>2, <1>4, <2>1, <2>2, <2>3, <2>4 DEF CopyOK
  <1>8. ExitInv'
    BY SMTT(30), <1>1, <1>2, <1>3 DEF ExitInv, Users
  <1>5. OpsOK'
    <2>1. op' \in [Users -> [reg : {"none", "dir", "data"},
                              set : SUBSET Lines, clear : SUBSET Lines,
                              at : {"idle", "lock", "inb", "outb"}]]
      BY SMTT(30) DEF OpsOK
    <2>2. copy' \in [Users -> BitSets]
      BY DEF OpsOK
    <2> QED BY SMTT(30), <1>1, <1>2, <1>3, <2>1, <2>2 DEF OpsOK
  <1> QED BY <1>5, <1>6, <1>7, <1>8

\* outb and mutex_unlock: the register gets what it should hold.
LEMMA WriteStep ==
    ASSUME DuramarAssumption, DuramarInv, NEW t \in Users, outb(t)
    PROVE  DuramarInv'
  <1> USE DEF DuramarInv, PortInv, outb, Wants
  <1>1. \A a \in Users :
          /\ a # t => op'[a] = op[a] /\ copy'[a] = copy[a]
          /\ op'[t] = NoOp
    BY DEF OpsOK
  <1>2. update_lock = t /\ op[t].at = "outb" /\ op[t].at \in Between
    BY DEF LockOK, Between
  <1>3. op[t].reg \in {"dir", "data"} /\ op[t] # NoOp
    BY SMTT(60), <1>2 DEF OpsOK, NoOp
  <1>4. \A a \in Users : op'[a].at \notin Between
    <2>1. \A a \in Users : op[a].at \in Between => update_lock = a
      BY DEF LockOK
    <2>2. NoOp.at \notin Between
      BY DEF NoOp, Between
    <2> HIDE DEF DuramarInv, PortInv, outb, Wants
    <2> QED BY <1>1, <1>2, <2>1, <2>2
  <1>5. OpsOK'
    <2>1. Result(copy[t], op[t]) \in BitSets
      BY DEF OpsOK, Result, BitSets, Lines
    <2>2. dir' \in BitSets /\ data' \in BitSets
      BY <2>1 DEF OpsOK
    <2>3. copy' \in [Users -> BitSets]
      BY DEF OpsOK, BitSets
    <2>4. op' \in [Users -> [reg : {"none", "dir", "data"},
                              set : SUBSET Lines, clear : SUBSET Lines,
                              at : {"idle", "lock", "inb", "outb"}]]
      BY DEF OpsOK, NoOp
    <2> QED BY <1>1, <2>2, <2>3, <2>4 DEF OpsOK
  <1>6. LockOK'
    BY <1>4 DEF LockOK
  <1>7. dir' = wantDir' /\ data' = wantData'
    BY <1>2, <1>3 DEF CopyOK
  <1>8. CopyOK'
    BY <1>4, <1>7 DEF CopyOK, Between
  <1>9. ExitInv'
    <2>1. module # "out"
      BY <1>3 DEF ExitInv
    <2>2. module' = module /\ late' = late
      OBVIOUS
    <2>3. CASE t = Unloader
      <3>1. module = "leaving"
        BY <1>3, <2>1, <2>3 DEF ExitInv
      <3>2. /\ op[Unloader].reg = "dir" /\ op[Unloader].set = {}
            /\ op[Unloader].clear = Lines
        BY <1>3, <2>3, <3>1 DEF ExitInv
      <3>3. dir' \cap Lines = {}
        BY <2>3, <3>2 DEF Result
      <3>4. \A a \in PortThreads : op'[a] = op[a]
        BY <1>1, <2>3 DEF DuramarAssumption, Users
      <3>5. Unloader \in Users /\ op'[Unloader] = NoOp
        BY <1>1, <2>3 DEF Users
      <3> HIDE DEF PortInv, outb, Wants
      <3> QED BY <3>5, <2>2, <2>3, <3>1, <3>3, <3>4 DEF ExitInv
    <2>4. CASE t # Unloader
      <3>1. t \in PortThreads
        BY <2>4 DEF Users
      <3>2. op'[Unloader] = op[Unloader]
        BY <1>1, <2>4 DEF Users
      <3>3. module = "leaving" => late
        BY <1>3, <3>1 DEF ExitInv
      <3> HIDE DEF PortInv, outb, Wants
      <3> QED BY <2>1, <2>2, <3>2, <3>3 DEF ExitInv
    <2> QED BY <2>3, <2>4
  <1> QED BY <1>5, <1>6, <1>8, <1>9

\* The inductive invariant, for any set of threads that use the lines.
THEOREM DuramarInvariance ==
    ASSUME DuramarAssumption PROVE DuramarSpec => []DuramarInv
  <1>1. DuramarInv /\ [DuramarNext]_duramarVars => DuramarInv'
    <2> SUFFICES ASSUME DuramarInv, [DuramarNext]_duramarVars PROVE DuramarInv'
      OBVIOUS
    <2>1. CASE UNCHANGED duramarVars
      BY <2>1 DEF duramarVars, DuramarInv, PortInv, OpsOK, LockOK, CopyOK, ExitInv
    <2>2. CASE duramar2150_c2port_init \/ exit_unregisters
      BY <2>2, ModuleStep
    <2>3. CASE duramar2150_c2port_exit
      BY <2>3, ExitStep
    <2>4. ASSUME NEW t \in PortThreads, CallOperation(t) PROVE DuramarInv'
      BY <2>4, CallStep
    <2>5. ASSUME NEW t \in PortThreads \cup {Unloader},
                 take_lock(t) \/ inb(t) \/ outb(t)
          PROVE  DuramarInv'
      BY <2>5, LockStep, PortReadStep, WriteStep DEF Users
    <2> QED BY <2>1, <2>2, <2>3, <2>4, <2>5 DEF DuramarNext
  <1> QED BY <1>1, InitDuramar, PTL DEF DuramarSpec

\* update_lock around inb and outb keeps every update of the two registers,
\* also those of bits that are not the driver's.
THEOREM UpdatesAreKept ==
    ASSUME DuramarAssumption PROVE DuramarSpec => []NoLostUpdate
  <1>1. DuramarInv => NoLostUpdate
    BY DEF DuramarInv, PortInv, CopyOK, NoLostUpdate
  <1> QED BY <1>1, DuramarInvariance, PTL

\* duramar2150_c2port_exit leaves both lines inputs if no attribute is in
\* use meanwhile.
THEOREM ExitReleasesLines ==
    ASSUME DuramarAssumption PROVE DuramarSpec => []LinesReleased
  <1>1. DuramarInv => LinesReleased
    BY DEF DuramarInv, ExitInv, LinesReleased, Lines
  <1> QED BY <1>1, DuramarInvariance, PTL

-----------------------------------------------------------------------------
(* The GPIO client.                                                        *)

GpioCalls == [line : Lines, kind : {"out", "in", "set"}, level : {0, 1}]
GpioStates == [Lines -> [out : BOOLEAN, level : {0, 1}]]

\* A thread has at most two calls to make.
Work == {<<>>} \cup {<<c>> : c \in GpioCalls}
          \cup {<<c, d>> : c \in GpioCalls, d \in GpioCalls}
CallsOK == todo \in [Users -> Work] /\ gpio \in GpioStates

\* The owner of update_lock has calls left, and the lines are on the way to
\* what its operation makes of them.
OrderOK ==
    /\ line_lock = "free" => gpio = want
    /\ line_lock # "free" => /\ line_lock \in Users
                             /\ todo[line_lock] # <<>>
                             /\ want = AppliedAll(gpio, todo[line_lock])

\* The exit's access(0) is to come, half done or done; without late users
\* nothing comes behind it.
AccessOff == c2port_access(FALSE)
LeaveOK ==
    /\ load \in {"out", "in", "leaving", "error", "dead"}
    /\ load \in {"out", "error"} => \A t \in Users : todo[t] = <<>>
    /\ load = "in" => todo[Unloader] = <<>>
    /\ load \in {"leaving", "dead"} =>
         todo[Unloader] \in {AccessOff, Tail(AccessOff), <<>>}
    /\ load = "leaving" /\ ~used_late =>
         /\ \A t \in PortThreads : todo[t] = <<>>
         /\ todo[Unloader] = Tail(AccessOff) => ~gpio[C2D].out
         /\ todo[Unloader] = <<>> => \A l \in Lines : ~gpio[l].out
    /\ load = "out" /\ ~used_late => \A l \in Lines : ~gpio[l].out

ClientInv == CallsOK /\ OrderOK /\ LeaveOK

\* Each operation is one call or two.
LEMMA OpsAreCalls ==
    ASSUME NEW s \in efm_c2port_ops
    PROVE  s \in Work /\ s # <<>>
  <1>1. \A l \in Lines : /\ gpio_direction_output(l) \in GpioCalls
                         /\ gpio_direction_input(l) \in GpioCalls
                         /\ \A b \in {0, 1} : gpio_set_value(l, b) \in GpioCalls
    BY DEF GpioCalls, gpio_direction_output, gpio_direction_input,
           gpio_set_value
  <1>2. C2D \in Lines /\ C2CK \in Lines
    BY DEF Lines
  <1>3. CASE \E on \in BOOLEAN : s = c2port_access(on)
    BY SMTT(30), <1>1, <1>2, <1>3 DEF c2port_access, Work
  <1>4. CASE \E in \in BOOLEAN : s = c2port_c2d_dir(in)
    BY SMTT(30), <1>1, <1>2, <1>4 DEF c2port_c2d_dir, Work
  <1>5. CASE \E b \in {0, 1} : s \in {c2port_c2d_set(b), c2port_c2ck_set(b)}
    BY SMTT(30), <1>1, <1>2, <1>5 DEF c2port_c2d_set, c2port_c2ck_set, Work
  <1> QED BY <1>3, <1>4, <1>5 DEF efm_c2port_ops

LEMMA AccessOffIs ==
    /\ AccessOff \in efm_c2port_ops
    /\ AccessOff = <<gpio_direction_input(C2D), gpio_direction_input(C2CK)>>
    /\ Tail(AccessOff) = <<gpio_direction_input(C2CK)>>
    /\ Head(AccessOff) = gpio_direction_input(C2D)
    /\ Tail(Tail(AccessOff)) = <<>>
  <1>1. AccessOff \in efm_c2port_ops
    BY DEF efm_c2port_ops, AccessOff
  <1> QED BY SMTT(30), <1>1 DEF AccessOff, c2port_access

\* The first call of one or two, and what is left behind it.
LEMMA FirstCall ==
    ASSUME NEW s \in Work, s # <<>>
    PROVE  /\ Head(s) \in GpioCalls /\ Tail(s) \in Work
           /\ \A g : AppliedAll(g, s) =
                       IF Tail(s) = <<>> THEN Applied(g, Head(s))
                       ELSE AppliedAll(Applied(g, Head(s)), Tail(s))
  <1>1. ASSUME NEW c \in GpioCalls, s = <<c>>
        PROVE  /\ Head(s) = c /\ Tail(s) = <<>>
               /\ \A g : AppliedAll(g, s) = Applied(g, c)
    BY SMTT(30), <1>1 DEF AppliedAll
  <1>2. ASSUME NEW c \in GpioCalls, NEW d \in GpioCalls, s = <<c, d>>
        PROVE  /\ Head(s) = c /\ Tail(s) = <<d>> /\ Tail(s) # <<>>
               /\ \A g : AppliedAll(g, s) = Applied(Applied(g, c), d)
               /\ \A g : AppliedAll(g, Tail(s)) = Applied(g, d)
    BY SMTT(30), <1>2 DEF AppliedAll
  <1>3. CASE \E c \in GpioCalls : s = <<c>>
    BY SMTT(30), <1>1, <1>3 DEF Work
  <1>4. CASE \E c, d \in GpioCalls : s = <<c, d>>
    <2>1. PICK c \in GpioCalls, d \in GpioCalls : s = <<c, d>>
      BY <1>4
    <2>2. Tail(s) \in Work
      BY SMTT(30), <1>2, <2>1 DEF Work
    <2>3. /\ Head(s) = c /\ Tail(s) # <<>>
          /\ \A g : AppliedAll(g, s) = Applied(Applied(g, c), d)
          /\ \A g : AppliedAll(g, Tail(s)) = Applied(g, d)
      BY <1>2, <2>1
    <2> QED BY <2>2, <2>3
  <1>5. \/ \E c \in GpioCalls : s = <<c>>
        \/ \E c, d \in GpioCalls : s = <<c, d>>
    BY SMTT(30) DEF Work
  <1> QED BY <1>3, <1>4, <1>5

\* gpiolib's calls keep the types of the lines; an input call changes the
\* direction of its line alone.
LEMMA AppliedType ==
    ASSUME NEW g \in GpioStates, NEW c \in GpioCalls
    PROVE  Applied(g, c) \in GpioStates
  BY DEF Applied, GpioStates, GpioCalls

LEMMA AppliedInput ==
    ASSUME NEW g \in GpioStates, NEW l \in Lines
    PROVE  LET h == Applied(g, gpio_direction_input(l))
           IN  ~h[l].out /\ \A m \in Lines : m # l => h[m] = g[m]
  BY DEF Applied, GpioStates, gpio_direction_input

LEMMA InitClient == ASSUME ClientInit PROVE ClientInv
  <1>1. \A t \in Users : todo[t] = <<>>
    BY DEF ClientInit
  <1>2. gpio \in GpioStates /\ \A l \in Lines : ~gpio[l].out
    BY DEF ClientInit, GpioStates
  <1>3. todo \in [Users -> Work]
    BY SMTT(30) DEF ClientInit, Work
  <1>4. LeaveOK
    BY <1>1, <1>2 DEF ClientInit, LeaveOK, Users
  <1> QED BY <1>2, <1>3, <1>4 DEF ClientInit, ClientInv, CallsOK, OrderOK

\* Loading, and the steps of exit but its access(0).
LEMMA ClientModuleStep ==
    ASSUME DuramarAssumption, ClientInv, c2port_init \/ exit_frees
    PROVE  ClientInv'
  <1>1. UNCHANGED <<gpio, line_lock, todo, want>>
    BY DEF c2port_init, exit_frees
  <1>2. CallsOK' /\ OrderOK'
    BY <1>1 DEF ClientInv, CallsOK, OrderOK
  <1>3. LeaveOK'
    BY <1>1 DEF c2port_init, exit_frees, ClientInv, LeaveOK, Users
  <1> QED BY <1>2, <1>3 DEF ClientInv

\* A thread gets calls to make: it does not have the lock.
LEMMA ClientBeginStep ==
    ASSUME DuramarAssumption, ClientInv, NEW t \in Users,
           NEW s \in efm_c2port_ops, todo[t] = <<>>,
           todo' = [todo EXCEPT ![t] = s], UNCHANGED <<gpio, line_lock, want>>
    PROVE  CallsOK' /\ OrderOK'
  <1>1. CallsOK /\ OrderOK
    BY DEF ClientInv
  <1>2. \A u \in Users : todo'[u] = IF u = t THEN s ELSE todo[u]
    BY <1>1 DEF CallsOK
  <1>3. CallsOK'
    BY <1>1, <1>2, OpsAreCalls DEF CallsOK
  <1>4. line_lock # t \/ line_lock = "free"
    BY <1>1 DEF OrderOK
  <1>5. OrderOK'
    BY <1>1, <1>2, <1>4 DEF OrderOK
  <1> QED BY <1>3, <1>5

LEMMA ClientExitStep ==
    ASSUME DuramarAssumption, ClientInv, c2port_exit PROVE ClientInv'
  <1>1. /\ Unloader \in Users /\ AccessOff \in efm_c2port_ops
        /\ AccessOff # <<>> /\ AccessOff # Tail(AccessOff)
    BY SMTT(30), AccessOffIs DEF Users
  <1>2. todo' = [todo EXCEPT ![Unloader] = AccessOff]
    BY DEF c2port_exit, AccessOff
  <1>3. CallsOK' /\ OrderOK'
    BY <1>1, <1>2, ClientBeginStep DEF c2port_exit
  <1>4. /\ todo'[Unloader] = AccessOff
        /\ \A t \in PortThreads : todo'[t] = todo[t]
    BY <1>2 DEF ClientInv, CallsOK, Users, DuramarAssumption
  <1>5. /\ load' \in {"leaving", "dead"}
        /\ used_late' = (\E t \in PortThreads : todo[t] # <<>>)
    BY DEF c2port_exit
  <1>6. LeaveOK'
    BY <1>1, <1>4, <1>5 DEF LeaveOK
  <1> QED BY <1>3, <1>6 DEF ClientInv

LEMMA ClientCallStep ==
    ASSUME DuramarAssumption, ClientInv, NEW t \in PortThreads, core_calls(t)
    PROVE  ClientInv'
  <1>1. PICK s \in efm_c2port_ops : todo' = [todo EXCEPT ![t] = s]
    BY DEF core_calls
  <1>2. CallsOK' /\ OrderOK'
    BY <1>1, ClientBeginStep DEF core_calls, Users
  <1>3. todo'[Unloader] = todo[Unloader]
    BY <1>1 DEF ClientInv, CallsOK, Users, DuramarAssumption
  <1>4. /\ load \in {"in", "leaving"} /\ load' = load /\ gpio' = gpio
        /\ used_late' = (used_late \/ load = "leaving")
    BY DEF core_calls
  <1>5. LeaveOK'
    BY <1>3, <1>4 DEF ClientInv, LeaveOK
  <1> QED BY <1>2, <1>5 DEF ClientInv

LEMMA ClientLockStep ==
    ASSUME DuramarAssumption, ClientInv, NEW t \in Users, mutex_lock(t)
    PROVE  ClientInv'
  <1>1. /\ todo[t] # <<>> /\ line_lock = "free" /\ line_lock' = t
        /\ want' = AppliedAll(want, todo[t])
        /\ UNCHANGED <<load, gpio, todo, used_late>>
    BY DEF mutex_lock
  <1>2. CallsOK' /\ LeaveOK'
    BY <1>1 DEF ClientInv, CallsOK, LeaveOK
  <1>3. gpio = want
    BY <1>1 DEF ClientInv, OrderOK
  <1>4. line_lock' # "free"
    BY <1>1 DEF DuramarAssumption, Users
  <1>5. OrderOK'
    BY <1>1, <1>3, <1>4 DEF OrderOK
  <1> QED BY <1>2, <1>5 DEF ClientInv

\* A call: the last one makes the lines what they should be and releases the
\* lock, the first of two leaves the second.
LEMMA ClientGpioStep ==
    ASSUME DuramarAssumption, ClientInv, NEW t \in Users, gpio_call(t)
    PROVE  ClientInv'
  <1> DEFINE s == todo[t]
  <1>1. /\ line_lock = t /\ gpio' = Applied(gpio, Head(s))
        /\ todo' = [todo EXCEPT ![t] = Tail(s)]
        /\ line_lock' = IF Tail(s) = <<>> THEN "free" ELSE t
        /\ UNCHANGED <<load, used_late, want>>
    BY DEF gpio_call
  <1>2. t # "free"
    BY DEF DuramarAssumption, Users
  <1>3. s \in Work /\ s # <<>> /\ want = AppliedAll(gpio, s) /\ s = todo[t]
    BY <1>1, <1>2 DEF ClientInv, CallsOK, OrderOK
  <1>4. \A u \in Users : todo'[u] = IF u = t THEN Tail(s) ELSE todo[u]
    BY <1>1 DEF ClientInv, CallsOK
  <1> HIDE DEF s
  <1>5. /\ Head(s) \in GpioCalls /\ Tail(s) \in Work
        /\ want = IF Tail(s) = <<>> THEN Applied(gpio, Head(s))
                  ELSE AppliedAll(Applied(gpio, Head(s)), Tail(s))
    BY <1>3, FirstCall
  <1>6. CallsOK'
    <2>1. gpio' \in GpioStates
      BY <1>1, <1>5, AppliedType DEF ClientInv, CallsOK
    <2>2. todo' \in [Users -> Work]
      BY <1>1, <1>5 DEF ClientInv, CallsOK
    <2> QED BY <2>1, <2>2 DEF CallsOK
  <1>7. OrderOK'
    BY <1>1, <1>2, <1>4, <1>5 DEF OrderOK
  <1>8. LeaveOK'
    <2>1. load \notin {"out", "error"}
      BY <1>3 DEF ClientInv, LeaveOK
    <2>2. CASE t = Unloader
      <3>1. load \in {"leaving", "dead"} /\ s \in {AccessOff, Tail(AccessOff)}
        BY <1>3, <2>1, <2>2 DEF ClientInv, LeaveOK
      <3>2. \A u \in PortThreads : todo'[u] = todo[u]
        BY <1>4, <2>2 DEF Users, DuramarAssumption
      <3>3. C2D \in Lines /\ C2CK \in Lines /\ C2D # C2CK
            /\ \A l \in Lines : l = C2D \/ l = C2CK
        BY DEF Lines, C2D, C2CK
      <3>4. gpio \in GpioStates
        BY DEF ClientInv, CallsOK
      <3>5. CASE s = AccessOff
        <4>1. gpio' = Applied(gpio, gpio_direction_input(C2D))
          <5>1. Head(s) = gpio_direction_input(C2D)
            BY <3>5, AccessOffIs
          <5> QED BY <1>1, <5>1
        <4>2. ~gpio'[C2D].out
          BY <3>3, <3>4, <4>1, AppliedInput
        <4>3. todo'[Unloader] = Tail(AccessOff) /\ Tail(AccessOff) # <<>>
          <5>1. todo'[Unloader] = Tail(s) /\ s = AccessOff
            BY <1>4, <2>2, <3>5
          <5>2. Tail(AccessOff) # <<>>
            BY SMTT(30), AccessOffIs
          <5> QED BY <5>1, <5>2
        <4> QED BY <1>1, <2>1, <3>1, <3>2, <4>2, <4>3
                DEF ClientInv, LeaveOK
      <3>6. CASE s = Tail(AccessOff)
        <4>1. gpio' = Applied(gpio, gpio_direction_input(C2CK))
          <5>1. Head(s) = gpio_direction_input(C2CK)
            BY SMTT(30), <3>6, AccessOffIs
          <5> QED BY <1>1, <5>1
        <4>2. ~gpio'[C2CK].out /\ gpio'[C2D] = gpio[C2D]
          BY <3>3, <3>4, <4>1, AppliedInput
        <4>3. todo'[Unloader] = <<>> /\ Tail(AccessOff) # <<>>
          <5>1. todo'[Unloader] = Tail(s) /\ s = Tail(AccessOff)
            BY <1>4, <2>2, <3>6
          <5>2. Tail(AccessOff) # <<>> /\ Tail(Tail(AccessOff)) = <<>>
            BY SMTT(30), AccessOffIs
          <5> QED BY <5>1, <5>2
        <4>4. load = "leaving" /\ ~used_late => ~gpio[C2D].out
          BY <1>3, <2>2, <3>6 DEF ClientInv, LeaveOK
        <4> QED BY <1>1, <2>1, <3>1, <3>2, <3>3, <4>2, <4>3, <4>4
                DEF ClientInv, LeaveOK
      <3> QED BY <3>1, <3>5, <3>6
    <2>3. CASE t # Unloader
      <3>1. t \in PortThreads /\ todo'[Unloader] = todo[Unloader]
        BY <1>4, <2>3 DEF Users
      <3>2. load = "leaving" => used_late
        BY <1>3, <3>1 DEF ClientInv, LeaveOK
      <3> QED BY <1>1, <2>1, <3>1, <3>2 DEF ClientInv, LeaveOK
    <2> QED BY <2>2, <2>3
  <1> QED BY <1>6, <1>7, <1>8 DEF ClientInv

\* The inductive invariant of the GPIO client, for any set of threads.
THEOREM ClientInvariance ==
    ASSUME DuramarAssumption PROVE ClientSpec => []ClientInv
  <1>1. ClientInv /\ [ClientNext]_clientVars => ClientInv'
    <2> SUFFICES ASSUME ClientInv, [ClientNext]_clientVars PROVE ClientInv'
      OBVIOUS
    <2>1. CASE UNCHANGED clientVars
      BY <2>1 DEF clientVars, ClientInv, CallsOK, OrderOK, LeaveOK
    <2>2. CASE c2port_init \/ exit_frees
      BY <2>2, ClientModuleStep
    <2>3. CASE c2port_exit
      BY <2>3, ClientExitStep
    <2>4. ASSUME NEW t \in PortThreads, core_calls(t) PROVE ClientInv'
      BY <2>4, ClientCallStep
    <2>5. ASSUME NEW t \in Users, mutex_lock(t) \/ gpio_call(t)
          PROVE  ClientInv'
      BY <2>5, ClientLockStep, ClientGpioStep
    <2> QED BY <2>1, <2>2, <2>3, <2>4, <2>5 DEF ClientNext
  <1> QED BY <1>1, InitClient, PTL DEF ClientSpec

\* Both line drivers, as the run of the drivers checks them: no update of a
\* line is lost, and an undisturbed exit leaves the lines inputs.
THEOREM PortsAreSafe ==
    ASSUME DuramarAssumption PROVE DuramarSpec /\ ClientSpec => []PortSafe
  <1>1. ClientInv => LinesInOrder
    BY DEF ClientInv, OrderOK, LinesInOrder
  <1>2. ClientInv => LinesFreed
    BY DEF ClientInv, LeaveOK, LinesFreed
  <1> QED BY <1>1, <1>2, ClientInvariance, UpdatesAreKept, ExitReleasesLines,
             PTL DEF PortSafe

-----------------------------------------------------------------------------
\* The client has a handle while it uses it, and only a use that was not
\* given back stays counted.
RegulatorInv ==
    /\ users \in Nat /\ left_on \in Nat
    /\ client \in {"out", "enable", "disable", "in"}
    /\ SwitchFollowsUsers

LEMMA RegulatorStep ==
    ASSUME RegulatorInv, [RegulatorNext]_regulatorVars PROVE RegulatorInv'
  <1> DEFINE using == client = "disable" /\ digital = "supply"
  <1>1. /\ users \in Nat /\ left_on \in Nat
        /\ client \in {"out", "enable", "disable", "in"}
        /\ is_enabled <=> users > 0
        /\ users = left_on + (IF using THEN 1 ELSE 0)
    BY DEF RegulatorInv, SwitchFollowsUsers
  <1>2. CASE UNCHANGED regulatorVars
    BY <1>2 DEF regulatorVars, RegulatorInv, SwitchFollowsUsers
  <1>3. CASE regulator_dummy_init \/ regulator_get \/ qfp_fuse_remove
    <2>1. /\ UNCHANGED <<users, left_on, is_enabled>>
          /\ client' \in {"out", "enable", "disable", "in"}
          /\ using' = using
      BY <1>1, <1>3 DEF regulator_dummy_init, regulator_get, qfp_fuse_remove,
                        Client
    <2> QED BY <1>1, <2>1 DEF RegulatorInv, SwitchFollowsUsers
  <1>4. CASE regulator_enable
    <2>1. ~using /\ left_on' = left_on /\ users = left_on
      BY SMTT(30), <1>1, <1>4 DEF regulator_enable
    <2>2. CASE using'
      <3>1. /\ users' = users + 1 /\ is_enabled' = TRUE
            /\ client' = "disable"
        BY <1>4, <2>2 DEF regulator_enable, ProbeFails
      <3>2. /\ users' \in Nat /\ left_on' \in Nat /\ users' = left_on' + 1
            /\ users' > 0
        BY SMTT(30), <1>1, <2>1, <3>1
      <3> QED BY <2>2, <3>1, <3>2 DEF RegulatorInv, SwitchFollowsUsers
    <2>3. CASE ~using'
      <3>1. /\ users' = users /\ is_enabled' = is_enabled
            /\ client' \in {"out", "disable"}
        BY <1>4, <2>3 DEF regulator_enable, ProbeFails
      <3> QED BY <1>1, <2>1, <2>3, <3>1 DEF RegulatorInv, SwitchFollowsUsers
    <2> QED BY <2>2, <2>3
  <1>5. CASE regulator_disable
    <2>1. ~using' /\ client' \in {"in", "out"}
      BY <1>5 DEF regulator_disable, ProbeFails
    <2>2. CASE using /\ client' = "in"
      <3>1. users' = users - 1 /\ left_on' = left_on
        BY <1>5, <2>2 DEF regulator_disable, ProbeFails
      <3>4. is_enabled' <=> users > 1
        BY <1>5, <2>2 DEF regulator_disable, ProbeFails
      <3>2. /\ users' \in Nat /\ left_on' \in Nat
            /\ users' = left_on' + (IF using' THEN 1 ELSE 0)
        BY SMTT(30), <1>1, <2>1, <2>2, <3>1
      <3>3. users > 1 <=> users' > 0
        BY SMTT(30), <1>1, <3>1
      <3> QED BY <2>1, <3>2, <3>3, <3>4 DEF RegulatorInv, SwitchFollowsUsers
    <2>3. CASE using /\ client' = "out"
      <3>1. UNCHANGED <<users, is_enabled>> /\ left_on' = left_on + 1
        BY <1>5, <2>3 DEF regulator_disable, ProbeFails
      <3> QED BY SMTT(30), <1>1, <2>1, <2>3, <3>1 DEF RegulatorInv, SwitchFollowsUsers
    <2>4. CASE ~using
      <3>1. UNCHANGED <<users, is_enabled>>
            /\ (left_on' = left_on \/ left_on' = left_on + 0)
        BY <1>5, <2>4 DEF regulator_disable, ProbeFails
      <3> QED BY SMTT(30), <1>1, <2>1, <2>4, <3>1 DEF RegulatorInv, SwitchFollowsUsers
    <2> QED BY <2>1, <2>2, <2>3, <2>4
  <1> QED BY <1>2, <1>3, <1>4, <1>5 DEF RegulatorNext

\* The switch of the supply follows its users over every sequence of loads,
\* failed loads and removals of the client (qfp_fuse_probe,
\* ab3100_enable_regulator, ab3100_disable_regulator).
THEOREM SwitchIsExact == RegulatorSpec => []SwitchFollowsUsers
  <1>1. RegulatorInit => RegulatorInv
    <2> SUFFICES ASSUME RegulatorInit PROVE RegulatorInv
      OBVIOUS
    <2>1. ~(users > 0) /\ ~is_enabled
      BY SMTT(30) DEF RegulatorInit
    <2> QED BY SMTT(30), <2>1 DEF RegulatorInit, RegulatorInv, SwitchFollowsUsers
  <1>2. RegulatorInv => SwitchFollowsUsers
    BY DEF RegulatorInv
  <1> QED BY <1>1, <1>2, RegulatorStep, PTL DEF RegulatorSpec

=============================================================================
