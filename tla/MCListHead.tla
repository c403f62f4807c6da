---------------------------- MODULE MCListHead ----------------------------
(* Two files, two readers that may share a file, one writer of the sysfs   *)
(* attributes and up to MaxData ticks.                                     *)
EXTENDS ListHead, TLC

CONSTANTS f1, f2, t1, t2, w1

MCFiles == {f1, f2}
MCOneFile == {f1}
MCThreads == {t1, t2}
MCOneThread == {t1}
MCWriters == {w1}
MCPeriods == {1}
FileSymm == Permutations(MCFiles)
=============================================================================
