------------------------------ MODULE C2Client ------------------------------
(***************************************************************************)
(* The other C2 line driver, c2port-client.c: each line is a GPIO with a   *)
(* direction and a level of its own, and an operation is one or two calls  *)
(* of gpiolib (external) under update_lock.  Its users are those of        *)
(* Duramar: threads in the attributes of the C2 core, and the thread that  *)
(* unloads the module.                                                     *)
(***************************************************************************)
EXTENDS Duramar, Sequences

VARIABLES load,       \* "out", "in", "leaving", "error" (registering failed,
                      \* which init takes for success) or "dead"
          gpio,       \* direction and level of each line
          line_lock,  \* owner of update_lock
          todo,       \* the gpiolib calls a thread has to make, <<>> for none
          used_late,  \* an attribute was in use while the driver exited
          want        \* what the lines should be, by lock order

clientVars == <<load, gpio, line_lock, todo, used_late, want>>

Lines == {C2D, C2CK}
Users == PortThreads \cup {Unloader}

\* gpio_direction_output with level 1, gpio_direction_input, gpio_set_value.
gpio_direction_output(l) == [line |-> l, kind |-> "out", level |-> 1]
gpio_direction_input(l) == [line |-> l, kind |-> "in", level |-> 0]
gpio_set_value(l, b) == [line |-> l, kind |-> "set", level |-> b]

Applied(g, c) ==
    [g EXCEPT ![c.line] =
        CASE c.kind = "out" -> [out |-> TRUE, level |-> c.level]
          [] c.kind = "in" -> [@ EXCEPT !.out = FALSE]
          [] c.kind = "set" -> [@ EXCEPT !.level = c.level]]

\* One call or two.
AppliedAll(g, s) == IF Len(s) = 1 THEN Applied(g, s[1])
                    ELSE Applied(Applied(g, s[1]), s[2])

\* The operations of efm_c2port_ops that change a line.
c2port_access(on) ==
    IF on THEN <<gpio_direction_output(C2D), gpio_direction_output(C2CK)>>
          ELSE <<gpio_direction_input(C2D), gpio_direction_input(C2CK)>>
c2port_c2d_dir(in) ==
    <<IF in THEN gpio_direction_input(C2D) ELSE gpio_direction_output(C2D)>>
c2port_c2d_set(b) == <<gpio_set_value(C2D, b)>>
c2port_c2ck_set(b) == <<gpio_set_value(C2CK, b)>>

efm_c2port_ops ==
    {c2port_access(on) : on \in BOOLEAN}
      \cup {c2port_c2d_dir(in) : in \in BOOLEAN}
      \cup {c2port_c2d_set(b) : b \in {0, 1}}
      \cup {c2port_c2ck_set(b) : b \in {0, 1}}

ClientInit ==
    /\ load = "out"
    /\ gpio = [l \in Lines |-> [out |-> FALSE, level |-> 0]]
    /\ line_lock = "free"
    /\ todo = [t \in Users |-> <<>>]
    /\ used_late = FALSE /\ want = gpio

-----------------------------------------------------------------------------
\* c2port_init: an error pointer from c2port_device_register is not NULL.  The
\* results of gpio_request are not looked at, so that the pins are used
\* whether or not they are reserved.
c2port_init ==
    /\ load = "out"
    /\ load' \in {"in", "error"}
    /\ used_late' = FALSE
    /\ UNCHANGED <<gpio, line_lock, todo, want>>

\* c2port_exit: access off; then unregister, which waits for the attributes in
\* use (and follows the error pointer, if it was given one), and gpio_free.
c2port_exit ==
    /\ load \in {"in", "error"} /\ todo[Unloader] = <<>>
    /\ load' = IF load = "in" THEN "leaving" ELSE "dead"
    /\ todo' = [todo EXCEPT ![Unloader] = c2port_access(FALSE)]
    /\ used_late' = (\E t \in PortThreads : todo[t] # <<>>)
    /\ UNCHANGED <<gpio, line_lock, want>>

exit_frees ==
    /\ load = "leaving"
    /\ \A t \in Users : todo[t] = <<>>
    /\ load' = "out"
    /\ UNCHANGED <<gpio, line_lock, todo, used_late, want>>

\* The core calls an operation for the user of an attribute.
core_calls(t) ==
    /\ load \in {"in", "leaving"} /\ todo[t] = <<>>
    /\ \E s \in efm_c2port_ops : todo' = [todo EXCEPT ![t] = s]
    /\ used_late' = (used_late \/ load = "leaving")
    /\ UNCHANGED <<load, gpio, line_lock, want>>

\* mutex_lock of update_lock, the gpiolib calls, and mutex_unlock behind the
\* last.
mutex_lock(t) ==
    /\ todo[t] # <<>> /\ line_lock = "free"
    /\ line_lock' = t
    /\ want' = AppliedAll(want, todo[t])
    /\ UNCHANGED <<load, gpio, todo, used_late>>

gpio_call(t) ==
    /\ line_lock = t
    /\ gpio' = Applied(gpio, Head(todo[t]))
    /\ todo' = [todo EXCEPT ![t] = Tail(@)]
    /\ line_lock' = IF Tail(todo[t]) = <<>> THEN "free" ELSE t
    /\ UNCHANGED <<load, used_late, want>>

ClientNext ==
    \/ c2port_init \/ c2port_exit \/ exit_frees
    \/ \E t \in PortThreads : core_calls(t)
    \/ \E t \in Users : mutex_lock(t) \/ gpio_call(t)

ClientSpec == ClientInit /\ [][ClientNext]_clientVars

-----------------------------------------------------------------------------
\* With no operation under way both lines are what the operations made them in
\* the order in which they took update_lock: access switches the two lines
\* together, also against a c2d_dir of another thread.
LinesInOrder == line_lock = "free" => gpio = want

\* "When access is "off" is important that both lines are set as inputs": once
\* the driver is gone they are, unless an attribute was in use during exit
\* (c2port_exit).
LinesFreed == load = "out" /\ ~used_late => \A l \in Lines : ~gpio[l].out

\* The two line drivers: no update of a line is lost to another, and the lines
\* are inputs once the driver is gone (update_lock; the exit functions).
PortSafe == /\ NoLostUpdate /\ LinesReleased
            /\ LinesInOrder /\ LinesFreed
=============================================================================
