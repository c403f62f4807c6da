---------------------------- MODULE MCTimerCtl ----------------------------
(* Two sysfs writers and the periods "zero" (a write below 1000/HZ ms) and *)
(* "not zero".                                                             *)
EXTENDS TimerCtl

CONSTANTS w1, w2

MCWriters == {w1, w2}
MCPeriods == {0, 1}
=============================================================================
