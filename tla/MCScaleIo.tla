----------------------------- MODULE MCScaleIo -----------------------------
(* Instances of ScaleIo: two threads, two OUT requests, one or two IN      *)
(* requests.                                                               *)
EXTENDS ScaleIo, TLC

CONSTANTS t1, t2, r1, r2, x1, x2

MCThreads == {t1, t2}
MCRxReqs == {r1, r2}
MCTxReqs == {x1, x2}
MCOneTx == {x1}
SymmOneTx == Permutations(MCThreads) \cup Permutations(MCRxReqs)
Symm == SymmOneTx \cup Permutations(MCTxReqs)

=============================================================================
