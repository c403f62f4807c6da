----------------------------- MODULE FileProofs -----------------------------
(***************************************************************************)
(* Character devices that several threads open, and a probe.               *)
(*                                                                         *)
(* QfpFuse: any finite set of threads, any open files and any number of    *)
(* fuse words; the lock, the supply and what success means.  TimedProbe,   *)
(* for any number of outputs: they are registered all or none.             *)
(* ScaleControl for any set of processes: the types, the endpoints, what   *)
(* the status reports and the exclusive open.                              *)
(***************************************************************************)
EXTENDS QfpFuse, TimedProbe, ScaleControl, FiniteSetTheorems, TLAPS

\* Most leaves take no arithmetic: Zenon is tried unless a leaf names another prover.
USE ZenonT(30)

Places == {"idle", "lock", "readl", "enable", "write", "disable", "wait",
           "verify", "unlock", "done"}

Calls == [at : Places, op : {"none", "read", "write"}, word : FuseWords,
          first : FuseWords, last : FuseWords, data : SUBSET Bits, err : BOOLEAN]

TypesOK ==
    /\ fileOf \in [FuseThreads -> Files] /\ sem \in [Files -> Nat]
    /\ use \in Int /\ stuck \in Nat
    /\ fuse \in [FuseWords -> SUBSET Bits] /\ blowing \in [FuseWords -> SUBSET Bits]
    /\ ioctl \in [FuseThreads -> Calls]

\* A thread inside a request keeps its file open.
OpenOK == \A t \in FuseThreads : ioctl[t].at # "idle" => sem[fileOf[t]] # Closed

\* What a write has burnt at each of its places: at the end all its words,
\* before the word it is at.
BurntAt(c) ==
    LET Burnt(n) == \A w \in c.first .. n : c.data \subseteq fuse[w]
    IN  /\ c.at = "lock" => c.word = c.first /\ ~c.err
        /\ c.at = "readl" => c.op = "read"
        /\ c.at \in {"enable", "write", "disable", "wait", "verify"} =>
             Burnt(c.word - 1)
        /\ c.at \in {"unlock", "done"} /\ c.op = "write" /\ ~c.err =>
             Burnt(c.last)

BurntOK == \A t \in FuseThreads : BurntAt(ioctl[t])

FuseInv == TypesOK /\ OpenOK /\ LockIsHeldOnce /\ SupplyAccounted /\ BurntOK

-----------------------------------------------------------------------------
(* A step of one thread.                                                   *)

Only(t) == \A u \in FuseThreads : u # t => ioctl'[u] = ioctl[u]

\* The thread goes to another place; the rest of its request stays.
Moved(t, pc) ==
    /\ ioctl' \in [FuseThreads -> Calls] /\ Only(t) /\ ioctl'[t].at = pc
    /\ \A u \in FuseThreads :
          /\ ioctl'[u].op = ioctl[u].op /\ ioctl'[u].first = ioctl[u].first
          /\ ioctl'[u].last = ioctl[u].last /\ ioctl'[u].data = ioctl[u].data

LEMMA GotoMoves ==
    ASSUME TypesOK, NEW t \in FuseThreads, NEW pc \in Places, FuseGoto(t, pc)
    PROVE  /\ Moved(t, pc)
           /\ ioctl'[t].word = ioctl[t].word /\ ioctl'[t].err = ioctl[t].err
  BY SMTT(30) DEF TypesOK, FuseGoto, Moved, Only, Calls

LEMMA ErrorMoves ==
    ASSUME TypesOK, NEW t \in FuseThreads, NEW pc \in Places,
           ioctl' = [ioctl EXCEPT ![t].at = pc, ![t].err = TRUE]
    PROVE  /\ Moved(t, pc)
           /\ ioctl'[t].word = ioctl[t].word /\ ioctl'[t].err = TRUE
  BY ZenonT(60) DEF TypesOK, Moved, Only, Calls

LEMMA WordMoves ==
    ASSUME TypesOK, NEW t \in FuseThreads, NEW pc \in Places, NEW w \in FuseWords,
           ioctl' = [ioctl EXCEPT ![t].word = w, ![t].at = pc]
    PROVE  Moved(t, pc) /\ ioctl'[t].word = w
  BY ZenonT(60) DEF TypesOK, Moved, Only, Calls

LEMMA FailMoves ==
    ASSUME TypesOK, NEW t \in FuseThreads, Fail(t)
    PROVE  /\ Moved(t, "unlock")
           /\ ioctl'[t].word = ioctl[t].word /\ ioctl'[t].err = TRUE
  BY ErrorMoves DEF Fail, Places

\* The words between two words, and a thread outside an ioctl.
LEMMA WordsBetween ==
    ASSUME FuseAssumption, NEW a \in FuseWords, NEW b \in FuseWords,
           NEW w \in a .. b
    PROVE  w \in FuseWords
  BY SMTT(30) DEF FuseWords, FuseAssumption

LEMMA NoneIsCall ==
    ASSUME FuseAssumption
    PROVE  None \in Calls /\ None.at = "idle" /\ ~None.err
  <1>1. 1 \in FuseWords
    BY SMTT(30) DEF FuseWords, FuseAssumption
  <1> QED BY <1>1 DEF None, Calls, Places

\* The loops go to the next word, which is not behind the last.
LEMMA NextWord ==
    ASSUME FuseAssumption, TypesOK, NEW t \in FuseThreads,
           ioctl[t].word < ioctl[t].last
    PROVE  ioctl[t].word + 1 \in FuseWords
  BY SMTT(30) DEF TypesOK, Calls, FuseWords, FuseAssumption

-----------------------------------------------------------------------------
(* The counts.                                                             *)

Supplied == {t \in FuseThreads : ioctl[t].at \in {"write", "disable"}}
Holders(f) == {t \in FuseThreads : fileOf[t] = f /\ LockHolder(t)}

LEMMA SuppliedChange ==
    ASSUME FuseAssumption, NEW t \in FuseThreads, Only(t)
    PROVE  /\ IsFiniteSet(Supplied) /\ Cardinality(Supplied) \in Nat
           /\ (t \in Supplied' <=> t \in Supplied) => Supplied' = Supplied
           /\ t \notin Supplied /\ t \in Supplied' =>
                Cardinality(Supplied') = Cardinality(Supplied) + 1
           /\ t \in Supplied /\ t \notin Supplied' =>
                Cardinality(Supplied') = Cardinality(Supplied) - 1
  <1>1. IsFiniteSet(Supplied)
    BY FS_Subset DEF FuseAssumption, Supplied
  <1>2. \A u \in FuseThreads : u # t => (u \in Supplied' <=> u \in Supplied)
    BY DEF Only, Supplied
  <1>3. Supplied \subseteq FuseThreads /\ Supplied' \subseteq FuseThreads
    BY DEF Supplied
  <1>4. (t \in Supplied' <=> t \in Supplied) => Supplied' = Supplied
    BY SMTT(30), <1>2, <1>3
  <1>5. ASSUME t \notin Supplied, t \in Supplied'
        PROVE  Cardinality(Supplied') = Cardinality(Supplied) + 1
    <2>1. Supplied' = Supplied \cup {t}
      BY <1>2, <1>3, <1>5
    <2> QED BY <1>1, <1>5, <2>1, FS_AddElement
  <1>6. ASSUME t \in Supplied, t \notin Supplied'
        PROVE  Cardinality(Supplied') = Cardinality(Supplied) - 1
    <2>1. Supplied' = Supplied \ {t}
      BY <1>2, <1>3, <1>6
    <2> QED BY <1>1, <1>6, <2>1, FS_RemoveElement
  <1> QED BY <1>1, <1>4, <1>5, <1>6, FS_CardinalityType

LEMMA HoldersChange ==
    ASSUME FuseAssumption, NEW t \in FuseThreads, Only(t), fileOf' = fileOf,
           NEW f
    PROVE  /\ IsFiniteSet(Holders(f)) /\ Cardinality(Holders(f)) \in Nat
           /\ (t \in Holders(f)' <=> t \in Holders(f)) =>
                Holders(f)' = Holders(f)
           /\ t \notin Holders(f) /\ t \in Holders(f)' =>
                Cardinality(Holders(f)') = Cardinality(Holders(f)) + 1
           /\ t \in Holders(f) /\ t \notin Holders(f)' =>
                Cardinality(Holders(f)') = Cardinality(Holders(f)) - 1
  <1>1. IsFiniteSet(Holders(f))
    BY FS_Subset DEF FuseAssumption, Holders
  <1>2. \A u \in FuseThreads : u # t => (u \in Holders(f)' <=> u \in Holders(f))
    BY DEF Only, Holders, LockHolder
  <1>3. Holders(f) \subseteq FuseThreads /\ Holders(f)' \subseteq FuseThreads
    BY DEF Holders
  <1>4. (t \in Holders(f)' <=> t \in Holders(f)) => Holders(f)' = Holders(f)
    BY SMTT(30), <1>2, <1>3
  <1>5. ASSUME t \notin Holders(f), t \in Holders(f)'
        PROVE  Cardinality(Holders(f)') = Cardinality(Holders(f)) + 1
    <2>1. Holders(f)' = Holders(f) \cup {t}
      BY <1>2, <1>3, <1>5
    <2> QED BY <1>1, <1>5, <2>1, FS_AddElement
  <1>6. ASSUME t \in Holders(f), t \notin Holders(f)'
        PROVE  Cardinality(Holders(f)') = Cardinality(Holders(f)) - 1
    <2>1. Holders(f)' = Holders(f) \ {t}
      BY <1>2, <1>3, <1>6
    <2> QED BY <1>1, <1>6, <2>1, FS_RemoveElement
  <1> QED BY <1>1, <1>4, <1>5, <1>6, FS_CardinalityType

-----------------------------------------------------------------------------
(* What a step preserves when it leaves the lock, the supply or the fuses  *)
(* alone.                                                                  *)

LEMMA LockKept ==
    ASSUME FuseAssumption, FuseInv, NEW t \in FuseThreads, Only(t),
           fileOf' = fileOf, sem' = sem, LockHolder(t)' <=> LockHolder(t)
    PROVE  LockIsHeldOnce'
  <1>1. \A f \in Files : Holders(f)' = Holders(f)
    <2> SUFFICES ASSUME NEW f \in Files PROVE Holders(f)' = Holders(f)
      OBVIOUS
    <2>1. t \in Holders(f)' <=> t \in Holders(f)
      BY DEF Holders
    <2> QED BY <2>1, HoldersChange
  <1> QED BY <1>1 DEF FuseInv, LockIsHeldOnce, Holders

LEMMA SupplyKept ==
    ASSUME FuseAssumption, FuseInv, NEW t \in FuseThreads, Only(t),
           use' = use, stuck' = stuck,
           t \in Supplied' <=> t \in Supplied
    PROVE  SupplyAccounted'
  <1>1. Supplied' = Supplied
    BY SuppliedChange
  <1> QED BY <1>1 DEF FuseInv, SupplyAccounted, Supplied

LEMMA OpenKept ==
    ASSUME FuseInv, NEW t \in FuseThreads, Only(t), fileOf' = fileOf,
           sem' = sem, sem[fileOf[t]] # Closed
    PROVE  OpenOK'
  BY DEF FuseInv, OpenOK, Only

LEMMA BurntKept ==
    ASSUME FuseInv, NEW t \in FuseThreads, Only(t), fuse' = fuse,
           BurntAt(ioctl[t])'
    PROVE  BurntOK'
  <1> SUFFICES ASSUME NEW u \in FuseThreads, u # t PROVE BurntAt(ioctl[u])'
    BY DEF BurntOK
  <1>1. BurntAt(ioctl[u]) /\ ioctl'[u] = ioctl[u]
    BY DEF FuseInv, BurntOK, Only
  <1> QED BY <1>1 DEF BurntAt

\* A step of a thread outside lock and supply.
LEMMA PlainStep ==
    ASSUME FuseAssumption, FuseInv, NEW t \in FuseThreads, NEW pc,
           Moved(t, pc), UNCHANGED <<fileOf, sem, use, stuck, fuse>>,
           blowing' \in [FuseWords -> SUBSET Bits],
           sem[fileOf[t]] # Closed,
           LockHolder(t)' <=> LockHolder(t),
           t \in Supplied' <=> t \in Supplied,
           BurntAt(ioctl[t])'
    PROVE  FuseInv'
  <1>1. TypesOK'
    BY DEF FuseInv, TypesOK, Moved
  <1>2. Only(t)
    BY DEF Moved
  <1> QED
    BY <1>1, <1>2, LockKept, SupplyKept, OpenKept, BurntKept DEF FuseInv

-----------------------------------------------------------------------------
(* The steps of a request.                                                 *)

LEMMA RequestStep ==
    ASSUME FuseAssumption, FuseInv, NEW t \in FuseThreads,
           QFP_FUSE_IOC_READ(t) \/ QFP_FUSE_IOC_WRITE(t)
    PROVE  FuseInv'
  <1>1. PICK r \in Ranges, d \in SUBSET Bits, kind \in {"read", "write"} :
          FuseRequest(t, kind, r, d)
    BY DEF QFP_FUSE_IOC_READ, QFP_FUSE_IOC_WRITE
  <1> DEFINE c == [None EXCEPT !.at = "lock", !.op = kind, !.data = d,
                               !.word = r[1], !.first = r[1], !.last = r[2]]
  <1>2. ioctl' = [ioctl EXCEPT ![t] = c] /\ ioctl[t].at = "idle"
        /\ sem[fileOf[t]] # Closed
        /\ UNCHANGED <<fileOf, sem, use, stuck, fuse, blowing>>
    BY <1>1 DEF FuseRequest, Supply, Prom
  <1>3. c \in Calls /\ c.at = "lock" /\ c.word = c.first /\ ~c.err
    <2>1. None \in Calls /\ ~None.err
      BY NoneIsCall
    <2>2. r[1] \in FuseWords /\ r[2] \in FuseWords
      BY DEF FuseWords, FuseAssumption
    <2> HIDE DEF None
    <2> QED BY <2>1, <2>2 DEF Calls, Places
  <1> HIDE DEF c
  <1>4. ioctl' \in [FuseThreads -> Calls] /\ Only(t) /\ ioctl'[t] = c
    BY <1>2, <1>3 DEF FuseInv, TypesOK, Only
  <1>5. TypesOK'
    BY <1>2, <1>4 DEF FuseInv, TypesOK
  <1>6. BurntAt(ioctl[t])'
    BY <1>3, <1>4 DEF BurntAt
  <1>7. LockHolder(t)' <=> LockHolder(t)
    BY <1>2, <1>3, <1>4 DEF LockHolder
  <1>8. t \in Supplied' <=> t \in Supplied
    BY <1>2, <1>3, <1>4 DEF Supplied
  <1> QED BY <1>2, <1>4, <1>5, <1>6, <1>7, <1>8, LockKept, SupplyKept,
             OpenKept, BurntKept DEF FuseInv

\* Taking the lock: it was free, so no one held it.
LEMMA DownStep ==
    ASSUME FuseAssumption, FuseInv, NEW t \in FuseThreads, down_interruptible(t)
    PROVE  FuseInv'
  <1> DEFINE pc == IF ioctl[t].op = "read" THEN "readl" ELSE "enable"
             f == fileOf[t]
  <1>1. /\ ioctl[t].at = "lock" /\ sem[f] > 0
        /\ sem' = [sem EXCEPT ![f] = @ - 1]
        /\ UNCHANGED <<fileOf, use, stuck, fuse, blowing>>
        /\ FuseGoto(t, pc)
    BY DEF down_interruptible, Supply, Prom
  <1>2. /\ Moved(t, pc) /\ ioctl'[t].word = ioctl[t].word
        /\ ioctl'[t].err = ioctl[t].err
    BY <1>1, GotoMoves DEF FuseInv, Places
  <1>3. Only(t) /\ ioctl'[t].at = pc
    BY <1>2 DEF Moved
  <1>4. f \in Files /\ sem[f] \in Nat /\ sem[f] # Closed
    BY <1>1 DEF FuseInv, TypesOK, OpenOK
  <1>5. sem[f] + Cardinality(Holders(f)) = 1
    BY <1>4 DEF FuseInv, LockIsHeldOnce, Holders
  <1>6. Cardinality(Holders(f)) \in Nat
    BY <1>1, <1>3, HoldersChange
  <1>7. sem[f] = 1 /\ sem'[f] = 0
    BY SMTT(30), <1>1, <1>4, <1>5, <1>6 DEF FuseInv, TypesOK
  <1>8. \A g \in Files : g # f => sem'[g] = sem[g]
    BY <1>1, <1>4 DEF FuseInv, TypesOK
  <1>9. TypesOK'
    <2>1. sem' \in [Files -> Nat]
      BY SMTT(30), <1>1, <1>4 DEF FuseInv, TypesOK
    <2> QED BY <1>1, <1>2, <2>1 DEF FuseInv, TypesOK, Moved
  <1>10. OpenOK'
    BY SMTT(30), <1>1, <1>3, <1>4, <1>7, <1>8 DEF FuseInv, OpenOK, Only, Closed, TypesOK
  <1>11. LockIsHeldOnce'
    <2> SUFFICES ASSUME NEW g \in Files, sem'[g] # Closed
                 PROVE  sem'[g] + Cardinality(Holders(g)') = 1
      BY DEF LockIsHeldOnce, Holders
    <2>1. CASE g = f
      <3>1. t \notin Holders(f) /\ t \in Holders(f)'
        BY <1>1, <1>3 DEF Holders, LockHolder
      <3>2. Cardinality(Holders(f)') = Cardinality(Holders(f)) + 1
        BY <1>1, <1>3, <3>1, HoldersChange
      <3>3. Holders(g)' = Holders(f)'
        BY <1>1, <2>1 DEF Holders
      <3> QED BY SMTT(30), <1>5, <1>6, <1>7, <2>1, <3>2, <3>3
    <2>2. CASE g # f
      <3>1. t \notin Holders(g) /\ t \notin Holders(g)'
        BY <1>1, <2>2 DEF Holders
      <3>2. Holders(g)' = Holders(g)
        BY <1>1, <1>3, <3>1, HoldersChange
      <3>3. sem'[g] = sem[g]
        BY <1>8, <2>2
      <3>4. sem[g] + Cardinality(Holders(g)) = 1
        BY <3>3 DEF FuseInv, LockIsHeldOnce, Holders
      <3> QED BY <3>2, <3>3, <3>4
    <2> QED BY <2>1, <2>2
  <1>12. SupplyAccounted'
    <2>1. t \notin Supplied /\ t \notin Supplied'
      BY <1>1, <1>3 DEF Supplied
    <2> QED BY <1>1, <1>3, <2>1, SupplyKept
  <1>13. BurntOK'
    <2>1. ioctl[t].word = ioctl[t].first
      BY <1>1 DEF FuseInv, BurntOK, BurntAt
    <2>2. ioctl[t].first \in Int /\ ioctl[t] \in Calls
      BY SMTT(30) DEF FuseInv, TypesOK, Calls, FuseWords
    <2>3. ioctl'[t].first .. (ioctl'[t].word - 1) = {}
      BY SMTT(30), <1>2, <2>1, <2>2 DEF Moved
    <2>4. pc = "readl" => ioctl'[t].op = "read"
      BY <1>2 DEF Moved
    <2>5. BurntAt(ioctl[t])'
      BY <1>3, <2>3, <2>4 DEF BurntAt
    <2> QED BY <1>1, <1>3, <2>5, BurntKept
  <1> QED BY <1>9, <1>10, <1>11, <1>12, <1>13 DEF FuseInv

\* Giving the lock back: only this thread held it.
LEMMA UpStep ==
    ASSUME FuseAssumption, FuseInv, NEW t \in FuseThreads, up(t)
    PROVE  FuseInv'
  <1> DEFINE f == fileOf[t]
  <1>1. /\ ioctl[t].at = "unlock" /\ FuseGoto(t, "done")
        /\ sem' = [sem EXCEPT ![f] = @ + 1]
        /\ UNCHANGED <<fileOf, use, stuck, fuse, blowing>>
    BY DEF up, Supply, Prom
  <1>2. /\ Moved(t, "done") /\ ioctl'[t].word = ioctl[t].word
        /\ ioctl'[t].err = ioctl[t].err
    BY <1>1, GotoMoves DEF FuseInv, Places
  <1>3. Only(t) /\ ioctl'[t].at = "done"
    BY <1>2 DEF Moved
  <1>4. f \in Files /\ sem[f] \in Nat /\ sem[f] # Closed
    BY <1>1 DEF FuseInv, TypesOK, OpenOK
  <1>5. sem[f] + Cardinality(Holders(f)) = 1
    BY <1>4 DEF FuseInv, LockIsHeldOnce, Holders
  <1>6. Cardinality(Holders(f)') = Cardinality(Holders(f)) - 1
        /\ Cardinality(Holders(f)) \in Nat
    <2>1. t \in Holders(f) /\ t \notin Holders(f)'
      BY <1>1, <1>3 DEF Holders, LockHolder
    <2> QED BY <1>1, <1>3, <2>1, HoldersChange
  <1>7. sem'[f] = sem[f] + 1 /\ sem'[f] \in {1, 2}
    BY SMTT(30), <1>1, <1>4, <1>5, <1>6 DEF FuseInv, TypesOK
  <1>8. \A g \in Files : g # f => sem'[g] = sem[g]
    BY <1>1, <1>4 DEF FuseInv, TypesOK
  <1>9. TypesOK'
    <2>1. sem' \in [Files -> Nat]
      BY SMTT(30), <1>1, <1>4 DEF FuseInv, TypesOK
    <2> QED BY <1>1, <1>2, <2>1 DEF FuseInv, TypesOK, Moved
  <1>10. OpenOK'
    BY SMTT(30), <1>1, <1>3, <1>4, <1>7, <1>8 DEF FuseInv, OpenOK, Only, Closed, TypesOK
  <1>11. LockIsHeldOnce'
    <2> SUFFICES ASSUME NEW g \in Files, sem'[g] # Closed
                 PROVE  sem'[g] + Cardinality(Holders(g)') = 1
      BY DEF LockIsHeldOnce, Holders
    <2>1. CASE g = f
      <3>1. Holders(g)' = Holders(f)'
        BY <1>1, <2>1 DEF Holders
      <3>2. sem'[f] + Cardinality(Holders(f)') = 1
        <4>1. sem'[f] + Cardinality(Holders(f)')
                = (sem[f] + 1) + (Cardinality(Holders(f)) - 1)
          BY <1>6, <1>7
        <4> QED BY SMTT(30), <1>4, <1>5, <1>6, <4>1
      <3> QED BY <2>1, <3>1, <3>2
    <2>2. CASE g # f
      <3>1. t \notin Holders(g) /\ t \notin Holders(g)'
        BY <1>1, <2>2 DEF Holders
      <3>2. Holders(g)' = Holders(g)
        BY <1>1, <1>3, <3>1, HoldersChange
      <3>3. sem'[g] = sem[g]
        BY <1>8, <2>2
      <3>4. sem[g] + Cardinality(Holders(g)) = 1
        BY <3>3 DEF FuseInv, LockIsHeldOnce, Holders
      <3> QED BY <3>2, <3>3, <3>4
    <2> QED BY <2>1, <2>2
  <1>12. SupplyAccounted'
    <2>1. t \notin Supplied /\ t \notin Supplied'
      BY <1>1, <1>3 DEF Supplied
    <2> QED BY <1>1, <1>3, <2>1, SupplyKept
  <1>13. BurntOK'
    <2>1. BurntAt(ioctl[t])
      BY DEF FuseInv, BurntOK
    <2>2. BurntAt(ioctl[t])'
      BY <1>1, <1>2, <1>3, <2>1 DEF BurntAt, Moved
    <2> QED BY <1>1, <1>3, <2>2, BurntKept
  <1> QED BY <1>9, <1>10, <1>11, <1>12, <1>13 DEF FuseInv

\* The places that are neither the lock's nor the supply's.
LEMMA WaitStep ==
    ASSUME FuseAssumption, FuseInv, NEW t \in FuseThreads,
           wait_for_fuse_blow(t) \/ writel(t)
    PROVE  FuseInv'
  <1>1. BurntAt(ioctl[t]) /\ sem[fileOf[t]] # Closed
    BY DEF FuseInv, BurntOK, OpenOK, wait_for_fuse_blow, writel
  <1>2. UNCHANGED <<fileOf, sem, use, stuck, fuse>>
    BY DEF wait_for_fuse_blow, writel, Supply, Prom
  <1>3. CASE writel(t)
    <2>1. /\ ioctl[t].at = "write" /\ FuseGoto(t, "disable")
          /\ blowing' = [blowing EXCEPT ![ioctl[t].word] = @ \cup ioctl[t].data]
      BY <1>3 DEF writel
    <2>2. Moved(t, "disable") /\ ioctl'[t].word = ioctl[t].word
      BY <2>1, GotoMoves DEF FuseInv, Places
    <2>3. blowing' \in [FuseWords -> SUBSET Bits]
      BY <2>1 DEF FuseInv, TypesOK, Calls
    <2>4. ioctl'[t].at = "disable"
      BY <2>2 DEF Moved
    <2>5. BurntAt(ioctl[t])'
      BY <1>1, <1>2, <2>1, <2>2, <2>4 DEF BurntAt, Moved
    <2>6. LockHolder(t)' <=> LockHolder(t)
      BY <2>1, <2>4 DEF LockHolder
    <2>7. t \in Supplied' <=> t \in Supplied
      BY <2>1, <2>4 DEF Supplied
    <2> QED BY <1>1, <1>2, <2>2, <2>3, <2>5, <2>6, <2>7, PlainStep
  <1>4. CASE wait_for_fuse_blow(t)
    <2>1. /\ FuseGoto(t, "verify") \/ Fail(t)
          /\ ioctl[t].at = "wait" /\ blowing' = blowing
      BY <1>4 DEF wait_for_fuse_blow, Prom
    <2>2. PICK pc \in {"verify", "unlock"} :
            /\ Moved(t, pc) /\ ioctl'[t].word = ioctl[t].word
            /\ pc = "unlock" => ioctl'[t].err = TRUE
      BY <2>1, GotoMoves, FailMoves DEF FuseInv, Places
    <2>3. ioctl'[t].at = pc
      BY <2>2 DEF Moved
    <2>4. BurntAt(ioctl[t])'
      BY <1>1, <1>2, <2>1, <2>2, <2>3 DEF BurntAt, Moved
    <2>5. LockHolder(t)' <=> LockHolder(t)
      BY <2>1, <2>3 DEF LockHolder
    <2>6. t \in Supplied' <=> t \in Supplied
      BY <2>1, <2>3 DEF Supplied
    <2>7. blowing' \in [FuseWords -> SUBSET Bits]
      BY <2>1 DEF FuseInv, TypesOK
    <2> QED BY <1>1, <1>2, <2>2, <2>4, <2>5, <2>6, <2>7, PlainStep
  <1> QED BY <1>3, <1>4

\* A signal, a word read, and the end of the request.
LEMMA ReadStep ==
    ASSUME FuseAssumption, FuseInv, NEW t \in FuseThreads,
           down_interrupted(t) \/ readl(t)
    PROVE  FuseInv'
  <1>1. BurntAt(ioctl[t]) /\ sem[fileOf[t]] # Closed
    BY DEF FuseInv, BurntOK, OpenOK, down_interrupted, readl
  <1>2. UNCHANGED <<fileOf, sem, use, stuck, fuse>>
        /\ blowing' \in [FuseWords -> SUBSET Bits]
    BY DEF down_interrupted, readl, Supply, Prom, FuseInv, TypesOK
  <1>3. CASE down_interrupted(t)
    <2>1. Moved(t, "done") /\ ioctl'[t].err = TRUE /\ ioctl[t].at = "lock"
      <3>1. /\ ioctl' = [ioctl EXCEPT ![t].at = "done", ![t].err = TRUE]
            /\ ioctl[t].at = "lock" /\ TypesOK
        BY <1>3 DEF down_interrupted, FuseInv
      <3>2. Moved(t, "done") /\ ioctl'[t].err = TRUE
        BY <3>1, ErrorMoves DEF Places
      <3> QED BY <3>1, <3>2
    <2>2. ioctl'[t].at = "done"
      BY <2>1 DEF Moved
    <2>3. BurntAt(ioctl[t])'
      BY <2>1, <2>2 DEF BurntAt
    <2>4. LockHolder(t)' <=> LockHolder(t)
      BY <2>1, <2>2 DEF LockHolder
    <2>5. t \in Supplied' <=> t \in Supplied
      BY <2>1, <2>2 DEF Supplied
    <2> QED BY <1>1, <1>2, <2>1, <2>3, <2>4, <2>5, PlainStep
  <1>4. CASE readl(t)
    <2>1. ioctl[t].at = "readl" /\ ioctl[t].op = "read"
      BY <1>1, <1>4 DEF readl, BurntAt
    <2>2. PICK pc \in {"readl", "unlock"} : Moved(t, pc)
      <3>1. CASE ioctl[t].word < ioctl[t].last
        <4>1. ioctl' = [ioctl EXCEPT ![t].word = @ + 1]
              /\ ioctl[t].word + 1 \in FuseWords
          BY <1>4, <3>1, NextWord DEF readl, FuseInv
        <4>2. Moved(t, "readl")
          BY SMTT(30), <2>1, <4>1 DEF FuseInv, TypesOK, Moved, Only, Calls
        <4> QED BY <4>2
      <3>2. CASE ~(ioctl[t].word < ioctl[t].last)
        <4>1. FuseGoto(t, "unlock") \/ Fail(t)
          BY <1>4, <3>2 DEF readl
        <4>2. Moved(t, "unlock")
          BY <4>1, GotoMoves, FailMoves DEF FuseInv, Places
        <4> QED BY <4>2
      <3> QED BY <3>1, <3>2
    <2>3. ioctl'[t].at = pc /\ ioctl'[t].op = "read"
      BY <2>1, <2>2 DEF Moved
    <2>4. BurntAt(ioctl[t])'
      BY <2>3 DEF BurntAt
    <2>5. LockHolder(t)' <=> LockHolder(t)
      BY <2>1, <2>3 DEF LockHolder
    <2>6. t \in Supplied' <=> t \in Supplied
      BY <2>1, <2>3 DEF Supplied
    <2> QED BY <1>1, <1>2, <2>2, <2>4, <2>5, <2>6, PlainStep
  <1> QED BY <1>3, <1>4

LEMMA ReturnStep ==
    ASSUME FuseAssumption, FuseInv, NEW t \in FuseThreads, FuseReturn(t)
    PROVE  FuseInv'
  <1>1. /\ ioctl' = [ioctl EXCEPT ![t] = None] /\ ioctl[t].at = "done"
        /\ UNCHANGED <<fileOf, sem, use, stuck, fuse, blowing>>
    BY DEF FuseReturn, Supply, Prom
  <1>2. None \in Calls /\ None.at = "idle"
    BY NoneIsCall
  <1>3. ioctl' \in [FuseThreads -> Calls] /\ Only(t) /\ ioctl'[t].at = "idle"
    BY <1>1, <1>2 DEF FuseInv, TypesOK, Only
  <1>4. TypesOK' /\ sem[fileOf[t]] # Closed
    BY <1>1, <1>3 DEF FuseInv, TypesOK, OpenOK
  <1>5. BurntAt(ioctl[t])'
    BY <1>3 DEF BurntAt
  <1>6. LockHolder(t)' <=> LockHolder(t)
    BY <1>1, <1>3 DEF LockHolder
  <1>7. t \in Supplied' <=> t \in Supplied
    BY <1>1, <1>3 DEF Supplied
  <1> QED BY <1>1, <1>3, <1>4, <1>5, <1>6, <1>7, LockKept, SupplyKept,
             OpenKept, BurntKept DEF FuseInv

\* The word read back: it is burnt, so the words up to it are.
LEMMA VerifyStep ==
    ASSUME FuseAssumption, FuseInv, NEW t \in FuseThreads, verify(t)
    PROVE  FuseInv'
  <1>1. /\ BurntAt(ioctl[t]) /\ sem[fileOf[t]] # Closed
        /\ ioctl[t].at = "verify"
    BY DEF FuseInv, BurntOK, OpenOK, verify
  <1>2. UNCHANGED <<fileOf, sem, use, stuck, fuse>>
        /\ blowing' \in [FuseWords -> SUBSET Bits]
    BY DEF verify, Supply, Prom, FuseInv, TypesOK
  <1>3. /\ ioctl[t].word \in Int /\ ioctl[t].first \in Int
        /\ ioctl[t].last \in Int
    BY SMTT(30) DEF FuseInv, TypesOK, Calls, FuseWords
  <1>b. \A w \in ioctl[t].first .. ioctl[t].word - 1 :
          ioctl[t].data \subseteq fuse[w]
    BY <1>1 DEF BurntAt
  <1>4. PICK pc \in {"unlock", "enable"} : Moved(t, pc) /\ BurntAt(ioctl[t])'
    <2>1. CASE fuse[ioctl[t].word] # ioctl[t].data
      <3>1. Fail(t)
        BY <2>1 DEF verify
      <3>2. Moved(t, "unlock") /\ ioctl'[t].err = TRUE
        BY <3>1, FailMoves DEF FuseInv
      <3>3. BurntAt(ioctl[t])'
        BY <3>2 DEF BurntAt, Moved
      <3> QED BY <3>2, <3>3
    <2>2. CASE fuse[ioctl[t].word] = ioctl[t].data
                 /\ ioctl[t].word < ioctl[t].last
      <3>1. ioctl' = [ioctl EXCEPT ![t].word = @ + 1, ![t].at = "enable"]
            /\ ioctl[t].word + 1 \in FuseWords
        BY <2>2, NextWord DEF verify, FuseInv
      <3>2. Moved(t, "enable") /\ ioctl'[t].word = ioctl[t].word + 1
        BY <3>1, WordMoves DEF FuseInv, Places
      <3>3. /\ ioctl'[t].at = "enable" /\ ioctl'[t].first = ioctl[t].first
            /\ ioctl'[t].data = ioctl[t].data
        BY <3>2 DEF Moved
      <3>4. \A w \in ioctl[t].first .. ioctl[t].word :
              ioctl[t].data \subseteq fuse[w]
        BY SMTT(30), <1>3, <1>b, <2>2
      <3>5. ioctl'[t].word - 1 = ioctl[t].word
        BY SMTT(30), <1>3, <3>2
      <3>6. BurntAt(ioctl[t])'
        BY <1>2, <3>3, <3>4, <3>5 DEF BurntAt
      <3> QED BY <3>2, <3>6
    <2>3. CASE fuse[ioctl[t].word] = ioctl[t].data
                 /\ ~(ioctl[t].word < ioctl[t].last)
      <3>1. FuseGoto(t, "unlock")
        BY <2>3 DEF verify
      <3>2. Moved(t, "unlock")
        BY <3>1, GotoMoves DEF FuseInv, Places
      <3>3. /\ ioctl'[t].at = "unlock" /\ ioctl'[t].first = ioctl[t].first
            /\ ioctl'[t].data = ioctl[t].data /\ ioctl'[t].last = ioctl[t].last
        BY <3>2 DEF Moved
      <3>4. \A w \in ioctl[t].first .. ioctl[t].last :
              ioctl[t].data \subseteq fuse[w]
        BY SMTT(30), <1>3, <1>b, <2>3
      <3>5. BurntAt(ioctl[t])'
        BY <1>2, <3>3, <3>4 DEF BurntAt
      <3> QED BY <3>2, <3>5
    <2> QED BY <2>1, <2>2, <2>3
  <1>5. ioctl'[t].at = pc
    BY <1>4 DEF Moved
  <1>6. LockHolder(t)' <=> LockHolder(t)
    BY <1>1, <1>5 DEF LockHolder
  <1>7. t \in Supplied' <=> t \in Supplied
    BY <1>1, <1>5 DEF Supplied
  <1> QED BY <1>1, <1>2, <1>4, <1>6, <1>7, PlainStep

\* The supply, switched on and off: the count follows the threads that burn.
LEMMA SupplyStep ==
    ASSUME FuseAssumption, FuseInv, NEW t \in FuseThreads,
           fuse_regulator_enable(t) \/ fuse_regulator_disable(t)
    PROVE  FuseInv'
  <1> DEFINE n == Cardinality(Supplied)
  <1>1. /\ BurntAt(ioctl[t]) /\ sem[fileOf[t]] # Closed
        /\ ioctl[t].at \in {"enable", "disable"}
    BY DEF FuseInv, BurntOK, OpenOK, fuse_regulator_enable, fuse_regulator_disable
  <1>2. UNCHANGED <<fileOf, sem, fuse, blowing>>
    BY DEF fuse_regulator_enable, fuse_regulator_disable, Prom
  <1>3. use = stuck + n /\ use \in Int /\ stuck \in Nat
    BY DEF FuseInv, TypesOK, SupplyAccounted, Supplied
  <1>4. \/ /\ ioctl[t].at = "enable" /\ FuseGoto(t, "write")
           /\ use' = use + 1 /\ stuck' = stuck
        \/ /\ ioctl[t].at = "disable" /\ FuseGoto(t, "wait")
           /\ use' = use - 1 /\ stuck' = stuck
        \/ /\ ioctl[t].at = "enable" /\ Fail(t) /\ use' = use /\ stuck' = stuck
        \/ /\ ioctl[t].at = "disable" /\ Fail(t)
           /\ use' = use /\ stuck' = stuck + 1
    BY DEF fuse_regulator_enable, fuse_regulator_disable
  <1>5. PICK pc \in {"write", "wait", "unlock"} :
          /\ Moved(t, pc) /\ ioctl'[t].word = ioctl[t].word
          /\ pc = "unlock" => ioctl'[t].err = TRUE
          /\ \/ /\ ioctl[t].at = "enable" /\ pc = "write"
                /\ use' = use + 1 /\ stuck' = stuck
             \/ /\ ioctl[t].at = "disable" /\ pc = "wait"
                /\ use' = use - 1 /\ stuck' = stuck
             \/ /\ ioctl[t].at = "enable" /\ pc = "unlock"
                /\ use' = use /\ stuck' = stuck
             \/ /\ ioctl[t].at = "disable" /\ pc = "unlock"
                /\ use' = use /\ stuck' = stuck + 1
    BY <1>4, GotoMoves, FailMoves DEF FuseInv, Places
  <1>6. Only(t) /\ ioctl'[t].at = pc /\ ioctl' \in [FuseThreads -> Calls]
    BY <1>5 DEF Moved
  <1>7. TypesOK'
    <2>1. use' \in Int /\ stuck' \in Nat
      BY SMTT(30), <1>3, <1>5
    <2> QED BY <1>2, <1>6, <2>1 DEF FuseInv, TypesOK
  <1>8. LockHolder(t)' <=> LockHolder(t)
    BY <1>1, <1>6 DEF LockHolder
  <1>9. BurntAt(ioctl[t])'
    BY <1>1, <1>2, <1>5, <1>6 DEF BurntAt, Moved
  <1>10. SupplyAccounted'
    <2>1. (t \in Supplied <=> ioctl[t].at = "disable")
          /\ (t \in Supplied' <=> pc = "write")
      BY <1>1, <1>6 DEF Supplied
    <2>2. use' = stuck' + Cardinality(Supplied')
      <3>1. n \in Nat
        BY <1>6, SuppliedChange
      <3>2. CASE ioctl[t].at = "enable" /\ pc = "write"
        <4>1. Cardinality(Supplied') = n + 1
          BY <1>6, <2>1, <3>2, SuppliedChange
        <4>2. use' = use + 1 /\ stuck' = stuck
          BY <1>5, <3>2
        <4> QED BY SMTT(30), <1>3, <3>1, <4>1, <4>2
      <3>3. CASE ioctl[t].at = "disable" /\ pc = "wait"
        <4>1. Cardinality(Supplied') = n - 1
          BY <1>6, <2>1, <3>3, SuppliedChange
        <4>2. use' = use - 1 /\ stuck' = stuck
          BY <1>5, <3>3
        <4> QED BY SMTT(30), <1>3, <3>1, <4>1, <4>2
      <3>4. CASE ioctl[t].at = "enable" /\ pc = "unlock"
        <4>1. Supplied' = Supplied
          BY <1>6, <2>1, <3>4, SuppliedChange
        <4>2. use' = use /\ stuck' = stuck
          BY <1>5, <3>4
        <4> QED BY <1>3, <3>1, <4>1, <4>2
      <3>5. CASE ioctl[t].at = "disable" /\ pc = "unlock"
        <4>1. Cardinality(Supplied') = n - 1
          BY <1>6, <2>1, <3>5, SuppliedChange
        <4>2. use' = use /\ stuck' = stuck + 1
          BY <1>5, <3>5
        <4> QED BY SMTT(30), <1>3, <3>1, <4>1, <4>2
      <3> QED BY <1>5, <3>2, <3>3, <3>4, <3>5
    <2> QED BY <2>2 DEF SupplyAccounted, Supplied
  <1> QED BY <1>1, <1>2, <1>6, <1>7, <1>8, <1>9, <1>10, LockKept, OpenKept,
             BurntKept DEF FuseInv

\* A file is opened with no thread inside, and released with none.
LEMMA FileStep ==
    ASSUME FuseAssumption, FuseInv, NEW f \in Files,
           qfp_fuse_open(f) \/ qfp_fuse_release(f)
    PROVE  FuseInv'
  <1>1. UNCHANGED <<fileOf, use, stuck, fuse, blowing, ioctl>>
    BY DEF qfp_fuse_open, qfp_fuse_release
  <1>2. \A t \in FuseThreads : fileOf[t] = f => ioctl[t].at = "idle"
    BY DEF qfp_fuse_open, qfp_fuse_release, FuseInv, OpenOK
  <1>3. PICK n \in {1, Closed} : sem' = [sem EXCEPT ![f] = n]
    BY DEF qfp_fuse_open, qfp_fuse_release
  <1>4. TypesOK'
    <2>1. n \in Nat
      BY SMTT(30) DEF Closed
    <2> QED BY <1>1, <1>3, <2>1 DEF FuseInv, TypesOK
  <1>5. OpenOK'
    BY <1>1, <1>2, <1>3 DEF FuseInv, TypesOK, OpenOK
  <1>6. \A g \in Files : Holders(g)' = Holders(g)
    BY <1>1 DEF Holders, LockHolder
  <1>7. Holders(f) = {}
    BY <1>2 DEF Holders, LockHolder
  <1>8. LockIsHeldOnce'
    <2> SUFFICES ASSUME NEW g \in Files, sem'[g] # Closed
                 PROVE  sem'[g] + Cardinality(Holders(g)') = 1
      BY DEF LockIsHeldOnce, Holders
    <2>1. CASE g = f
      <3>1. sem'[g] = 1
        BY <1>3, <2>1 DEF FuseInv, TypesOK
      <3>2. Cardinality(Holders(g)') = 0
        BY <1>6, <1>7, <2>1, FS_EmptySet
      <3> QED BY SMTT(30), <3>1, <3>2
    <2>2. CASE g # f
      <3>1. sem'[g] = sem[g]
        BY <1>3, <2>2 DEF FuseInv, TypesOK
      <3>2. sem[g] + Cardinality(Holders(g)) = 1
        BY <3>1 DEF FuseInv, LockIsHeldOnce, Holders
      <3>3. Holders(g)' = Holders(g)
        BY <1>6
      <3> QED BY <3>1, <3>2, <3>3
    <2> QED BY <2>1, <2>2
  <1>9. SupplyAccounted' /\ BurntOK'
    BY <1>1 DEF FuseInv, SupplyAccounted, BurntOK, BurntAt
  <1> QED BY <1>4, <1>5, <1>8, <1>9 DEF FuseInv

\* The controller only burns: no burnt bit is lost.
LEMMA BlowStep ==
    ASSUME FuseAssumption, FuseInv, blow_ends
    PROVE  FuseInv'
  <1>1. UNCHANGED <<fileOf, sem, use, stuck, ioctl>>
    BY DEF blow_ends, Supply
  <1>2. /\ fuse' \in [FuseWords -> SUBSET Bits] /\ blowing' \in [FuseWords -> SUBSET Bits]
        /\ \A w \in FuseWords : fuse[w] \subseteq fuse'[w]
    BY SMTT(30) DEF blow_ends, FuseInv, TypesOK
  <1>3. TypesOK' /\ OpenOK' /\ LockIsHeldOnce' /\ SupplyAccounted'
    BY <1>1, <1>2 DEF FuseInv, TypesOK, OpenOK, LockIsHeldOnce, LockHolder,
                      SupplyAccounted
  <1>4. BurntOK'
    <2> SUFFICES ASSUME NEW t \in FuseThreads PROVE BurntAt(ioctl[t])'
      BY DEF BurntOK
    <2>1. BurntAt(ioctl[t]) /\ ioctl'[t] = ioctl[t]
      BY <1>1 DEF FuseInv, BurntOK
    <2>2. /\ ioctl[t].first \in FuseWords /\ ioctl[t].last \in FuseWords
          /\ ioctl[t].word \in FuseWords
      BY DEF FuseInv, TypesOK, Calls
    <2>3. \A m \in FuseWords : \A w \in ioctl[t].first .. m : w \in FuseWords
      BY <2>2, WordsBetween
    <2>4. \A w \in ioctl[t].first .. ioctl[t].word - 1 : w \in FuseWords
      BY SMTT(30), <2>2 DEF FuseWords, FuseAssumption
    <2> QED BY <1>2, <2>1, <2>2, <2>3, <2>4 DEF BurntAt
  <1> QED BY <1>3, <1>4 DEF FuseInv

-----------------------------------------------------------------------------
(* The theorems.                                                           *)

LEMMA InitFuse == ASSUME FuseAssumption, FuseInit PROVE FuseInv
  <1>1. None \in Calls /\ None.at = "idle"
    BY NoneIsCall
  <1>2. \A t \in FuseThreads : ioctl[t] = None
    BY DEF FuseInit
  <1>3. TypesOK
    BY SMTT(30), <1>1 DEF FuseInit, TypesOK, Closed, FuseAssumption
  <1>4. OpenOK /\ BurntOK /\ LockIsHeldOnce
    BY <1>1, <1>2 DEF FuseInit, OpenOK, BurntOK, BurntAt, LockIsHeldOnce
  <1>5. SupplyAccounted
    <2>1. Supplied = {}
      BY <1>1, <1>2 DEF Supplied
    <2>2. use = stuck + Cardinality(Supplied)
      BY SMTT(30), <2>1, FS_EmptySet DEF FuseInit
    <2> QED BY <2>2 DEF SupplyAccounted, Supplied
  <1> QED BY <1>3, <1>4, <1>5 DEF FuseInv

LEMMA FuseStep == ASSUME FuseAssumption, FuseInv, [FuseNext]_fuseVars PROVE FuseInv'
  <1>1. ASSUME NEW t \in FuseThreads, Inside(t) PROVE FuseInv'
    BY <1>1, DownStep, ReadStep, SupplyStep, WaitStep, VerifyStep, UpStep
       DEF Inside
  <1>2. ASSUME NEW t \in FuseThreads, QFP_FUSE_IOC_READ(t) \/ QFP_FUSE_IOC_WRITE(t)
                  \/ down_interrupted(t) \/ FuseReturn(t)
        PROVE  FuseInv'
    BY <1>2, RequestStep, ReadStep, ReturnStep
  <1>3. CASE \E f \in Files : qfp_fuse_open(f) \/ qfp_fuse_release(f)
    BY <1>3, FileStep
  <1>4. CASE blow_ends
    BY <1>4, BlowStep
  <1>5. CASE UNCHANGED fuseVars
    BY <1>5 DEF fuseVars, FuseInv, TypesOK, OpenOK, LockIsHeldOnce, LockHolder,
                SupplyAccounted, BurntOK, BurntAt
  <1> QED BY <1>1, <1>2, <1>3, <1>4, <1>5 DEF FuseNext

\* FuseInv holds in every reachable state: the count of each semaphore and
\* its holder, the use count of the supply and the burning threads, and what
\* a write has burnt so far stay in step through every path of
\* qfp_fuse_ioctl.
THEOREM FuseInvariance == ASSUME FuseAssumption PROVE FuseSpec => []FuseInv
  <1>1. FuseInit => FuseInv
    BY InitFuse
  <1>2. FuseInv /\ [FuseNext]_fuseVars => FuseInv'
    BY FuseStep
  <1> QED BY <1>1, <1>2, PTL DEF FuseSpec

\* Every path of qfp_fuse_ioctl that takes a file's lock gives it back once,
\* for any number of threads and files.
THEOREM LockReturned == ASSUME FuseAssumption PROVE FuseSpec => []LockIsHeldOnce
  <1>1. FuseInv => LockIsHeldOnce
    BY DEF FuseInv
  <1> QED BY <1>1, FuseInvariance, PTL

\* No path of qfp_fuse_write_word loses count of the supply.
THEOREM SupplyCounted == ASSUME FuseAssumption PROVE FuseSpec => []SupplyAccounted
  <1>1. FuseInv => SupplyAccounted
    BY DEF FuseInv
  <1> QED BY <1>1, FuseInvariance, PTL

\* No word is written with the supply off, whatever the threads on the other
\* files do.
THEOREM WritesPowered == ASSUME FuseAssumption PROVE FuseSpec => []PoweredWrite
  <1>1. FuseInv => PoweredWrite
    <2> SUFFICES ASSUME FuseInv, NEW t \in FuseThreads,
                        ioctl[t].at \in {"write", "disable"}
                 PROVE  use > 0
      BY DEF PoweredWrite
    <2>1. t \in Supplied /\ IsFiniteSet(Supplied)
      BY FS_Subset DEF Supplied, FuseAssumption
    <2>2. Cardinality(Supplied) \in Nat /\ Cardinality(Supplied) # 0
      BY <2>1, FS_CardinalityType, FS_EmptySet
    <2>3. use = stuck + Cardinality(Supplied) /\ stuck \in Nat
      BY DEF FuseInv, TypesOK, SupplyAccounted, Supplied
    <2> QED BY SMTT(30), <2>2, <2>3
  <1> QED BY <1>1, FuseInvariance, PTL

\* A write that reports success has burnt all its words, for any number of
\* words and any other burning at the same time.
THEOREM SuccessfulWrites == ASSUME FuseAssumption PROVE FuseSpec => []SuccessIsBurnt
  <1>1. FuseInv => SuccessIsBurnt
    BY DEF FuseInv, BurntOK, BurntAt, SuccessIsBurnt
  <1> QED BY <1>1, FuseInvariance, PTL

\* The status register and the bound on failures to switch the supply off.
RestOK == stuck \in 0 .. MaxStuck /\ blow \in {"ok", "busy", "error"}

LEMMA RestStep ==
    ASSUME FuseAssumption, RestOK, [FuseNext]_fuseVars PROVE RestOK'
  <1> USE DEF RestOK, Supply, Prom
  <1>1. CASE \E f \in Files : qfp_fuse_open(f) \/ qfp_fuse_release(f)
    BY <1>1 DEF qfp_fuse_open, qfp_fuse_release
  <1>2. CASE blow_ends
    <2>1. UNCHANGED stuck /\ blow' \in {"ok", "error"} \cup {"busy"}
      BY <1>2 DEF blow_ends
    <2> QED BY <2>1
  <1>3. CASE UNCHANGED fuseVars
    BY <1>3 DEF fuseVars
  <1>4. ASSUME NEW t \in FuseThreads,
               QFP_FUSE_IOC_READ(t) \/ QFP_FUSE_IOC_WRITE(t)
                  \/ down_interrupted(t) \/ FuseReturn(t)
        PROVE  RestOK'
    BY <1>4 DEF QFP_FUSE_IOC_READ, QFP_FUSE_IOC_WRITE, FuseRequest,
                down_interrupted, FuseReturn
  <1>5. ASSUME NEW t \in FuseThreads, fuse_regulator_disable(t)
        PROVE  RestOK'
    <2>1. UNCHANGED blow
      BY <1>5 DEF fuse_regulator_disable
    <2>2. stuck' \in 0 .. MaxStuck
      <3>1. stuck' = stuck \/ (stuck < MaxStuck /\ stuck' = stuck + 1)
        BY <1>5 DEF fuse_regulator_disable
      <3>2. stuck \in 0 .. MaxStuck /\ MaxStuck \in Nat
        BY DEF FuseAssumption
      <3> QED BY SMTT(30), <3>1, <3>2
    <2> QED BY <2>1, <2>2
  <1>6. ASSUME NEW t \in FuseThreads, writel(t) PROVE RestOK'
    BY <1>6 DEF writel
  <1>7. ASSUME NEW t \in FuseThreads, Inside(t),
               ~fuse_regulator_disable(t), ~writel(t)
        PROVE  RestOK'
    <2>1. UNCHANGED <<stuck, blow>>
      BY <1>7 DEF Inside, down_interruptible, readl, fuse_regulator_enable,
                  wait_for_fuse_blow, verify, up
    <2> QED BY <2>1
  <1> QED BY <1>1, <1>2, <1>3, <1>4, <1>5, <1>6, <1>7 DEF FuseNext

\* The types follow: a semaphore's count is 0 or 1 because its holders are
\* counted, the supply's because its users are.
LEMMA TypesFollow ==
    ASSUME FuseAssumption, FuseInv, RestOK PROVE FuseTypeOK
  <1>1. ASSUME NEW f \in Files PROVE sem[f] \in {0, 1, Closed}
    <2>1. IsFiniteSet(Holders(f))
      BY FS_Subset DEF Holders, FuseAssumption
    <2>2. Cardinality(Holders(f)) \in Nat
      BY <2>1, FS_CardinalityType
    <2>3. sem[f] \in Nat
      BY DEF FuseInv, TypesOK
    <2>4. sem[f] # Closed => 1 = sem[f] + Cardinality(Holders(f))
      BY DEF FuseInv, LockIsHeldOnce, Holders
    <2> QED BY SMTT(30), <2>2, <2>3, <2>4
  <1>2. sem \in [Files -> {0, 1, Closed}]
    BY <1>1 DEF FuseInv, TypesOK
  <1>3. use \in 0 .. Cardinality(FuseThreads) + MaxStuck
    <2>1. /\ Supplied \subseteq FuseThreads /\ IsFiniteSet(FuseThreads)
          /\ MaxStuck \in Nat
      BY DEF Supplied, FuseAssumption
    <2>2. /\ Cardinality(FuseThreads) \in Nat
          /\ Cardinality(Supplied) \in Nat
          /\ Cardinality(Supplied) <= Cardinality(FuseThreads)
      BY <2>1, FS_CardinalityType, FS_Subset
    <2>3. use = stuck + Cardinality(Supplied)
      BY DEF FuseInv, SupplyAccounted, Supplied
    <2> QED BY SMTT(30), <2>1, <2>2, <2>3 DEF RestOK
  <1>4. {fuse, blowing} \subseteq [FuseWords -> SUBSET Bits]
    BY DEF FuseInv, TypesOK
  <1>5. \A t \in FuseThreads :
           {ioctl[t].word, ioctl[t].last} \subseteq FuseWords
    BY SMTT(30) DEF FuseInv, TypesOK, Calls
  <1> QED BY <1>2, <1>3, <1>4, <1>5 DEF FuseTypeOK, RestOK

\* The driver's lock, supply and result at once, as the run of the drivers
\* checks it (qfp_fuse_ioctl), for any threads, files and words.
THEOREM FuseIsSafe == ASSUME FuseAssumption PROVE FuseSpec => []FuseSafe
  <1>1. FuseInit => RestOK
    BY SMTT(30) DEF FuseInit, RestOK, FuseAssumption
  <1>2. RestOK /\ [FuseNext]_fuseVars => RestOK'
    BY RestStep
  <1>3. FuseInv /\ RestOK => FuseTypeOK
    BY TypesFollow
  <1>4. FuseSpec => []RestOK
    BY <1>1, <1>2, PTL DEF FuseSpec
  <1> QED BY <1>3, <1>4, FuseInvariance, LockReturned, SupplyCounted,
             WritesPowered, SuccessfulWrites, PTL DEF FuseSafe

-----------------------------------------------------------------------------
\* The outputs that are registered at each stage: those before the one at
\* work while probing, up to it while undoing.
Registered == CASE stage = "probing" -> 1 .. nth - 1
                [] stage = "undoing" -> 1 .. nth
                [] stage = "in" -> Ids
                [] OTHER -> {}

DeviceOf(o) == [name |-> names[o], number |-> index[o]]

ProbeTypes ==
    /\ stage \in {"out", "probing", "undoing", "in"}
    /\ count \in Nat /\ index \in [Ids -> Nat] /\ nth \in Nat
    /\ stage = "probing" => nth \in 1 .. Outputs + 1
    /\ stage = "undoing" => nth \in 0 .. Outputs

\* Each registered output has its device, with a number no other has; the
\* numbers given out so far are not above the count.
DevicesOK ==
    /\ gpios = Registered
    /\ devices = {DeviceOf(o) : o \in Registered}
    /\ IsFiniteSet(devices)
    /\ stage = "probing" => Cardinality(devices) = nth - 1
    /\ stage = "in" => Cardinality(devices) = Outputs
    /\ \A o \in Registered : index[o] <= count
    /\ \A o, p \in Registered : index[o] = index[p] => o = p

ProbeInv == ProbeTypes /\ DevicesOK

LEMMA RegisteredAre ==
    ASSUME ProbeAssumption, ProbeTypes
    PROVE  /\ Registered \subseteq Ids
           /\ stage = "probing" => Registered = 1 .. nth - 1
           /\ stage = "undoing" => Registered = 1 .. nth
           /\ stage = "in" => Registered = Ids
           /\ stage = "out" => Registered = {}
  <1>1. CASE stage = "probing"
    BY SMTT(30), <1>1 DEF Registered, ProbeTypes, Ids, ProbeAssumption
  <1>2. CASE stage = "undoing"
    BY SMTT(30), <1>2 DEF Registered, ProbeTypes, Ids, ProbeAssumption
  <1>3. CASE stage = "in"
    BY <1>3 DEF Registered
  <1>4. CASE stage = "out"
    BY <1>4 DEF Registered
  <1> QED BY <1>1, <1>2, <1>3, <1>4 DEF ProbeTypes

\* What the proofs of the steps keep showing: the same outputs registered
\* with the same numbers are the same devices.
LEMMA SameDevices ==
    ASSUME ProbeAssumption, ProbeInv, ProbeTypes', Registered' = Registered,
           UNCHANGED <<names, devices, gpios>>,
           \A o \in Registered : index'[o] = index[o],
           count' = count \/ count' = count + 1,
           stage' = "probing" => Cardinality(devices) = nth' - 1,
           stage' = "in" => Cardinality(devices) = Outputs
    PROVE  DevicesOK'
  <1>1. DevicesOK /\ count \in Nat /\ index \in [Ids -> Nat]
        /\ Registered \subseteq Ids
    BY RegisteredAre DEF ProbeInv, ProbeTypes
  <1>2. \A o \in Registered : DeviceOf(o)' = DeviceOf(o)
    BY DEF DeviceOf
  <1>3. devices' = {DeviceOf(o) : o \in Registered}'
    BY <1>1, <1>2 DEF DevicesOK
  <1>4. \A o \in Registered' : index'[o] <= count'
    <2> SUFFICES ASSUME NEW o \in Registered PROVE index[o] <= count'
      OBVIOUS
    <2>1. index[o] \in Nat /\ index[o] <= count
      BY <1>1 DEF DevicesOK
    <2> QED BY SMTT(30), <1>1, <2>1
  <1>5. \A o, p \in Registered' : index'[o] = index'[p] => o = p
    BY <1>1 DEF DevicesOK
  <1> QED BY <1>1, <1>3, <1>4, <1>5 DEF DevicesOK

\* A probe starts with nothing, and ends with all of it; a failed output
\* turns back before it.
LEMMA TurnStep ==
    ASSUME ProbeAssumption, ProbeInv,
           \/ timed_gpio_probe \/ gpio_request_fails \/ class_create_fails
           \/ register_fails \/ register_crashes \/ probe_ends
    PROVE  ProbeInv'
  <1>1. ProbeTypes /\ DevicesOK /\ Outputs \in Nat
    BY DEF ProbeInv, ProbeAssumption
  <1>2. UNCHANGED <<names, devices, gpios>>
    BY DEF timed_gpio_probe, gpio_request_fails, class_create_fails,
           register_fails, register_crashes, probe_ends
  <1>3. CASE timed_gpio_probe
    <2>1. stage = "out" /\ stage' = "probing" /\ nth' = 1 /\ count' = count
          /\ index' = [o \in Ids |-> 0]
      BY <1>3 DEF timed_gpio_probe
    <2>2. ProbeTypes'
      BY SMTT(30), <1>1, <2>1 DEF ProbeTypes
    <2>3. Registered = {} /\ Registered' = {}
      BY SMTT(30), <2>1 DEF Registered
    <2>4. Cardinality(devices) = 0
      BY <1>1, <2>3, FS_EmptySet DEF DevicesOK
    <2> QED BY SMTT(30), <1>2, <2>1, <2>2, <2>3, <2>4, SameDevices DEF ProbeInv
  <1>4. CASE gpio_request_fails \/ class_create_fails \/ register_fails
    <2>1. /\ stage = "probing" /\ stage' = "undoing" /\ nth' = nth - 1
          /\ nth <= Outputs
          /\ \/ UNCHANGED <<count, index>>
             \/ /\ count' = count + 1
                /\ index' = [index EXCEPT ![nth] = count + 1]
      BY <1>4 DEF gpio_request_fails, class_create_fails, register_fails,
                  err_out
    <2>2. nth \in Ids /\ nth - 1 \in 0 .. Outputs
      BY SMTT(30), <1>1, <2>1 DEF ProbeTypes, Ids
    <2>3. index' \in [Ids -> Nat] /\ count' \in Nat
      BY SMTT(30), <1>1, <2>1, <2>2 DEF ProbeTypes
    <2>4. ProbeTypes'
      BY SMTT(30), <2>1, <2>2, <2>3 DEF ProbeTypes
    <2>5. Registered' = Registered /\ Registered = 1 .. nth - 1
      BY <2>1 DEF Registered
    <2>6. \A o \in Registered : index'[o] = index[o]
      BY SMTT(30), <1>1, <2>1, <2>2, <2>5 DEF ProbeTypes, Ids
    <2> QED BY <1>2, <2>1, <2>4, <2>5, <2>6, SameDevices DEF ProbeInv
  <1>5. CASE register_crashes
    <2>1. UNCHANGED <<names, count, devices, gpios, index, stage, nth>>
      BY <1>5 DEF register_crashes
    <2> QED BY SMTT(30), <1>1, <2>1 DEF ProbeInv, ProbeTypes, DevicesOK, Registered,
                              DeviceOf
  <1>6. CASE probe_ends
    <2>1. /\ stage = "probing" /\ stage' = "in" /\ nth > Outputs
          /\ UNCHANGED <<count, index, nth>>
      BY <1>6 DEF probe_ends
    <2>2. ProbeTypes' /\ nth = Outputs + 1
      BY SMTT(30), <1>1, <2>1 DEF ProbeTypes
    <2>3. Registered' = Registered
      BY SMTT(30), <1>1, <2>1, <2>2 DEF Registered, Ids
    <2>4. Cardinality(devices) = Outputs
      BY SMTT(30), <1>1, <2>1, <2>2 DEF DevicesOK
    <2> QED BY <1>2, <2>1, <2>2, <2>3, <2>4, SameDevices DEF ProbeInv
  <1> QED BY <1>3, <1>4, <1>5, <1>6

\* An output more: its number is above all others.
LEMMA RegisterStep ==
    ASSUME ProbeAssumption, ProbeInv, register_output
    PROVE  ProbeInv'
  <1>1. ProbeTypes /\ DevicesOK /\ Outputs \in Nat
    BY DEF ProbeInv, ProbeAssumption
  <1>2. /\ stage = "probing" /\ nth <= Outputs /\ count' = count + 1
        /\ index' = [index EXCEPT ![nth] = count + 1]
        /\ devices' = devices \cup {[name |-> names[nth], number |-> count + 1]}
        /\ gpios' = gpios \cup {nth} /\ nth' = nth + 1
        /\ UNCHANGED <<names, stage>>
    BY DEF register_output
  <1>3. nth \in Ids /\ nth + 1 \in 1 .. Outputs + 1 /\ nth \in Nat
        /\ count \in Nat
    BY SMTT(30), <1>1, <1>2 DEF ProbeTypes, Ids
  <1>4. ProbeTypes'
    <2>1. index' \in [Ids -> Nat] /\ count' \in Nat
      BY SMTT(30), <1>1, <1>2, <1>3 DEF ProbeTypes
    <2> QED BY SMTT(30), <1>2, <1>3, <2>1 DEF ProbeTypes
  <1>5. Registered = 1 .. nth - 1 /\ Registered' = 1 .. nth' - 1
    BY <1>2 DEF Registered
  <1>6. Registered' = Registered \cup {nth} /\ nth \notin Registered
    <2>1. 1 .. nth' - 1 = 1 .. nth
      BY SMTT(30), <1>2, <1>3
    <2>2. 1 .. nth = (1 .. nth - 1) \cup {nth} /\ nth \notin 1 .. nth - 1
      BY SMTT(30), <1>1, <1>2 DEF ProbeTypes
    <2> QED BY <1>5, <2>1, <2>2
  <1>7. /\ Registered \subseteq Ids /\ index'[nth] = count + 1
        /\ \A o \in Registered : index'[o] = index[o] /\ index[o] \in Nat
    BY <1>1, <1>2, <1>3, <1>6, RegisteredAre DEF ProbeTypes
  <1>8. \A o \in Registered : index[o] <= count /\ index[o] # count + 1
    BY SMTT(30), <1>1, <1>3, <1>7 DEF DevicesOK
  <1>9. devices' = {DeviceOf(o) : o \in Registered}'
    <2>1. [name |-> names'[nth], number |-> index'[nth]]
            = [name |-> names[nth], number |-> count + 1]
      BY <1>2, <1>7
    <2>2. {[name |-> names'[o], number |-> index'[o]] : o \in Registered'}
            = {DeviceOf(o) : o \in Registered}
                \cup {[name |-> names[nth], number |-> count + 1]}
      BY <1>2, <1>6, <1>7, <2>1 DEF DeviceOf
    <2> QED BY <1>1, <1>2, <2>2 DEF DevicesOK, DeviceOf
  <1>10. /\ IsFiniteSet(devices')
         /\ Cardinality(devices') = Cardinality(devices) + 1
    <2>1. [name |-> names[nth], number |-> count + 1] \notin devices
      BY <1>1, <1>8 DEF DevicesOK, DeviceOf
    <2> QED BY <1>1, <1>2, <2>1, FS_AddElement DEF DevicesOK
  <1>11. Cardinality(devices') = nth' - 1
    <2>1. Cardinality(devices) = nth - 1
      BY <1>1, <1>2 DEF DevicesOK
    <2> QED BY SMTT(30), <1>2, <1>3, <1>10, <2>1
  <1>12. \A o \in Registered' : index'[o] <= count'
    <2>1. \A o \in Registered : index'[o] <= count'
      BY SMTT(30), <1>2, <1>3, <1>7, <1>8
    <2>2. index'[nth] <= count'
      BY SMTT(30), <1>2, <1>3, <1>7
    <2> QED BY <1>6, <2>1, <2>2
  <1>13. \A o, p \in Registered' : index'[o] = index'[p] => o = p
    <2>1. \A o \in Registered : index'[o] # index'[nth]
      BY <1>7, <1>8
    <2>2. \A o, p \in Registered : index'[o] = index'[p] => o = p
      BY <1>1, <1>7 DEF DevicesOK
    <2> QED BY <1>6, <2>1, <2>2
  <1>14. gpios' = Registered'
    BY <1>1, <1>2, <1>6 DEF DevicesOK
  <1> QED BY <1>2, <1>4, <1>9, <1>10, <1>11, <1>12, <1>13, <1>14
          DEF ProbeInv, DevicesOK

\* One output less: its device is the one of its number.
LEMMA UndoStep ==
    ASSUME ProbeAssumption, ProbeInv, undo
    PROVE  ProbeInv'
  <1>1. ProbeTypes /\ DevicesOK /\ stage = "undoing" /\ nth \in 0 .. Outputs
        /\ UNCHANGED <<names, count, index>>
    BY DEF ProbeInv, ProbeTypes, undo
  <1>2. Registered = 1 .. nth /\ Outputs \in Nat
    BY <1>1 DEF Registered, ProbeAssumption
  <1>3. CASE nth >= 1
    <2>1. /\ devices' = {d \in devices : d.number # index[nth]}
          /\ gpios' = gpios \ {nth} /\ nth' = nth - 1 /\ stage' = "undoing"
      BY <1>1, <1>3 DEF undo, ProbeUnregister
    <2>2. nth \in Registered /\ nth - 1 \in 0 .. Outputs
      BY SMTT(30), <1>1, <1>2, <1>3
    <2>3. ProbeTypes'
      BY SMTT(30), <1>1, <2>1, <2>2 DEF ProbeTypes
    <2>4. Registered' = Registered \ {nth}
      <3>1. Registered' = 1 .. nth - 1
        BY <2>1 DEF Registered
      <3>2. 1 .. nth - 1 = (1 .. nth) \ {nth}
        BY SMTT(30), <1>1
      <3> QED BY <1>2, <3>1, <3>2
    <2>5. devices' = {DeviceOf(o) : o \in Registered \ {nth}}
      <3>1. /\ devices = {DeviceOf(o) : o \in Registered}
            /\ \A o \in Registered : index[o] = index[nth] <=> o = nth
        BY <1>1, <2>2 DEF DevicesOK
      <3>2. \A o : DeviceOf(o).number = index[o]
        BY DEF DeviceOf
      <3>3. \A o \in Registered : DeviceOf(o).number # index[nth] <=> o # nth
        BY SMTT(30), <3>1, <3>2
      <3> QED BY <2>1, <3>1, <3>3
    <2>6. {DeviceOf(o) : o \in Registered}'
            = {DeviceOf(o) : o \in Registered \ {nth}}
      BY <1>1, <2>4 DEF DeviceOf
    <2>7. IsFiniteSet(devices')
      BY <1>1, <2>1, FS_Subset DEF DevicesOK
    <2>8. gpios' = Registered'
      BY <1>1, <2>1, <2>4 DEF DevicesOK
    <2>9. /\ \A o \in Registered' : index'[o] <= count'
          /\ \A o, p \in Registered' : index'[o] = index'[p] => o = p
      BY <1>1, <2>4 DEF DevicesOK
    <2> QED BY <2>1, <2>3, <2>5, <2>6, <2>7, <2>8, <2>9
            DEF ProbeInv, DevicesOK
  <1>4. CASE ~(nth >= 1)
    <2>1. /\ stage' = "out" /\ UNCHANGED <<devices, gpios, nth>>
      BY <1>4 DEF undo
    <2>2. Registered = {} /\ Registered' = {}
      BY SMTT(30), <1>1, <1>2, <1>4, <2>1 DEF Registered
    <2>3. ProbeTypes'
      BY <1>1, <2>1 DEF ProbeTypes
    <2> QED BY <1>1, <2>1, <2>2, <2>3, SameDevices DEF ProbeInv
  <1> QED BY <1>3, <1>4

LEMMA RemoveStep ==
    ASSUME ProbeAssumption, ProbeInv, timed_gpio_remove
    PROVE  ProbeInv'
  <1>1. /\ ProbeTypes /\ DevicesOK /\ stage = "in" /\ stage' = "out"
        /\ devices' = {d \in devices : \A o \in Ids : d.number # index[o]}
        /\ gpios' = {} /\ UNCHANGED <<names, count, index, nth>>
    BY DEF ProbeInv, timed_gpio_remove
  <1>2. Registered = Ids /\ Registered' = {}
    BY <1>1 DEF Registered
  <1>3. devices' = {}
    <2>1. \A d \in devices : \E o \in Ids : d.number = index[o]
      <3>1. devices = {DeviceOf(o) : o \in Ids}
        BY <1>1, <1>2 DEF DevicesOK
      <3>2. \A o \in Ids : DeviceOf(o).number = index[o]
        BY SMTT(30) DEF DeviceOf
      <3> QED BY <3>1, <3>2
    <2> QED BY <1>1, <2>1
  <1>4. ProbeTypes'
    BY <1>1 DEF ProbeTypes
  <1>5. devices' = {DeviceOf(o) : o \in Registered}'
    BY <1>2, <1>3
  <1>6. IsFiniteSet(devices') /\ gpios' = Registered'
    BY <1>1, <1>2, <1>3, FS_EmptySet
  <1>7. DevicesOK'
    BY <1>1, <1>2, <1>5, <1>6 DEF DevicesOK
  <1> QED BY <1>4, <1>7 DEF ProbeInv

\* A probe of any number of outputs registers all of them or none, each with
\* its own device, whichever step of whichever output fails
\* (timed_gpio_probe, err_out, timed_gpio_remove).
THEOREM ProbeIsSafe ==
    ASSUME ProbeAssumption PROVE ProbeSpec => []ProbeSafe
  <1>1. ASSUME ProbeInit PROVE ProbeInv
    <2>1. Registered = {}
      BY <1>1 DEF ProbeInit, Registered
    <2>2. ProbeTypes
      BY <1>1 DEF ProbeInit, ProbeTypes
    <2>3. DevicesOK
      BY <1>1, <2>1, FS_EmptySet DEF ProbeInit, DevicesOK
    <2> QED BY <2>2, <2>3 DEF ProbeInv
  <1>2. ASSUME ProbeInv, [ProbeNext]_probeVars PROVE ProbeInv'
    <2>1. CASE UNCHANGED probeVars
      BY SMTT(30), <1>2, <2>1 DEF probeVars, ProbeInv, ProbeTypes, DevicesOK,
                        Registered, DeviceOf
    <2>2. CASE ProbeNext
      BY <1>2, <2>2, TurnStep, RegisterStep, UndoStep, RemoveStep
         DEF ProbeNext
    <2> QED BY <1>2, <2>1, <2>2
  <1>3. ASSUME ProbeInv PROVE ProbeSafe
    <2>1. ProbeTypes /\ DevicesOK
      BY <1>3 DEF ProbeInv
    <2>2. AllOrNothing
      BY <2>1, RegisteredAre DEF DevicesOK, AllOrNothing
    <2>3. OwnDevice
      <3> SUFFICES ASSUME NEW o \in gpios
                   PROVE  {d \in devices : d.number = index[o]} = {DeviceOf(o)}
        BY DEF OwnDevice, DeviceOf
      <3>1. o \in Registered /\ DeviceOf(o) \in devices
        BY <2>1 DEF DevicesOK
      <3>2. ASSUME NEW d \in devices, d.number = index[o]
            PROVE  d = DeviceOf(o)
        <4>1. PICK p \in Registered : d = DeviceOf(p)
          BY <2>1 DEF DevicesOK
        <4>2. index[p] = index[o]
          BY <3>2, <4>1 DEF DeviceOf
        <4> QED BY <2>1, <3>1, <4>1, <4>2 DEF DevicesOK
      <3>3. DeviceOf(o).number = index[o]
        BY DEF DeviceOf
      <3> QED BY <3>1, <3>2, <3>3
    <2> QED BY <2>2, <2>3 DEF ProbeSafe
  <1> QED BY <1>1, <1>2, <1>3, PTL DEF ProbeSpec

-----------------------------------------------------------------------------
(* ScaleControl.                                                           *)

\* What ties the endpoints to the rest: they are enabled only with a host,
\* by a request, which leaves the interface selected and the descriptors
\* set; so scale_disconnect always finds what it needs to disable them.
EndpointInv ==
    epOn # {} => /\ epOn = Both /\ desc
                 /\ bus /\ interface = SCALE_INTERFACE

\* Requests come only to a bound gadget with a host, and nothing is bound or
\* connected in a module that is not loaded.
HostInv ==
    /\ bus => bound
    /\ bound => loaded
    /\ spoken => bus
    /\ bound => (interface = SCALE_INTERFACE <=> spoken)

\* At most one process has the device open; it keeps the flag set.
OpenInv ==
    /\ \A p, q \in files : p = q
    /\ files # {} => open /\ loaded

ControlInv == ControlTypeOK /\ EndpointInv /\ HostInv /\ OpenInv

LEMMA InitControl == ControlInit => ControlInv
  BY DEF ControlInit, ControlInv, ControlTypeOK, EndpointInv, HostInv, OpenInv,
         SCALE_INTERFACE, NONE

\* Loading starts with no endpoint on, no host and no open file: what init
\* and scale_bind reset is at rest already.
LEMMA LoadStep ==
    ASSUME ControlInv, init \/ cleanup
    PROVE  ControlInv'
  <1>1. CASE init
    <2> USE <1>1 DEF init, NONE, SCALE_INTERFACE
    <2>1. ~bus /\ ~bound /\ epOn = {} /\ files = {} /\ ~spoken
      BY DEF ControlInv, EndpointInv, HostInv, OpenInv
    <2>2. ControlTypeOK'
      <3>1. CASE scale_bind
        <4>1. test_ep' \in [Pairs -> SUBSET Both]
          BY <3>1 DEF scale_bind, adb_create_bulk_endpoints, Pairs, Both
        <4>2. crash' \in {NONE, "scale_bind"}
          BY <3>1 DEF scale_bind
        <4> QED BY <3>1, <4>1, <4>2 DEF scale_bind, ControlInv,
                                        ControlTypeOK, StatusBits
      <3>2. CASE scale_bind_returns \/ scale_bind_fail
        BY <3>2 DEF scale_bind_returns, scale_bind_fail, ControlInv,
                    ControlTypeOK
      <3> QED BY <3>1, <3>2
    <2>3. EndpointInv' /\ OpenInv'
      BY <2>1 DEF EndpointInv, OpenInv
    <2>4. HostInv'
      <3>1. ~bus' /\ ~spoken'
        BY <2>1 DEF scale_bind, scale_bind_returns, scale_bind_fail
      <3>2. loaded' /\ (bound' => interface' = -1)
        BY SMTT(30), <2>1 DEF scale_bind, scale_bind_returns, scale_bind_fail
      <3> QED BY SMTT(30), <3>1, <3>2 DEF HostInv
    <2> QED BY <2>2, <2>3, <2>4 DEF ControlInv
  <1>2. CASE cleanup
    <2> USE <1>2 DEF cleanup, usbVars, fileVars, NONE, SCALE_INTERFACE
    <2>1. ControlTypeOK'
      BY DEF ControlInv, ControlTypeOK
    <2>2. EndpointInv' /\ HostInv' /\ OpenInv'
      BY DEF ControlInv, EndpointInv, HostInv, OpenInv
    <2> QED BY <2>1, <2>2 DEF ControlInv
  <1> QED BY <1>1, <1>2

\* A control request, whatever it does to the endpoints.
LEMMA ControlRequestStep ==
    ASSUME ControlInv,
           NEW ok \in {"both", "in", "out"}, NEW n \in {0, 1, 2},
           scale_set_config(n, ok) \/ set_interface(ok)
             \/ scale_soft_reset \/ scale_setup_other
    PROVE  ControlInv'
  <1> USE DEF Request, loadVars, fileVars, SCALE_INTERFACE, NONE
  <1>1. /\ Request
        /\ UNCHANGED <<loadVars, bus, fileVars>>
    BY DEF scale_set_config, set_interface, scale_soft_reset,
           scale_setup_other
  <1>2. \/ set_scale_interface(ok)
        \/ UNCHANGED <<desc, epOn>>
    BY DEF scale_set_config, set_interface, scale_soft_reset,
           scale_setup_other
  <1>3. ControlTypeOK'
    <2>1. config' \in {0, 1}
      BY DEF scale_set_config, set_interface, scale_soft_reset,
             scale_setup_other, ControlInv, ControlTypeOK
    <2>2. crash' \in {crash, NONE, "scale_soft_reset"}
      BY DEF scale_set_config, set_interface, scale_soft_reset,
             scale_setup_other
    <2>3. desc' \in BOOLEAN /\ epOn' \subseteq Both
      BY <1>2 DEF set_scale_interface, ControlInv, ControlTypeOK
    <2>4. UNCHANGED test_ep
      BY DEF scale_set_config, set_interface, scale_soft_reset,
             scale_setup_other
    <2> QED BY <1>1, <2>1, <2>2, <2>3, <2>4 DEF ControlInv, ControlTypeOK
  <1>4. EndpointInv'
    BY <1>1, <1>2 DEF set_scale_interface, ControlInv, EndpointInv
  <1>5. HostInv'
    BY <1>1 DEF ControlInv, HostInv
  <1>6. OpenInv'
    BY <1>1 DEF ControlInv, OpenInv
  <1> QED BY <1>3, <1>4, <1>5, <1>6 DEF ControlInv

\* The host comes and goes.  A disconnect finds the interface selected and
\* the descriptors set whenever an endpoint is on.
LEMMA HostStep ==
    ASSUME ControlInv, attach \/ scale_disconnect
    PROVE  ControlInv'
  <1> USE DEF loadVars, fileVars, SCALE_INTERFACE, NONE
  <1>1. CASE attach
    <2>1. ControlTypeOK'
      BY <1>1 DEF attach, ControlInv, ControlTypeOK
    <2>2. EndpointInv' /\ HostInv' /\ OpenInv'
      BY <1>1 DEF attach, ControlInv, EndpointInv, HostInv, OpenInv
    <2> QED BY <2>1, <2>2 DEF ControlInv
  <1>2. CASE scale_disconnect
    <2>1. interface \in {-1, 0}
      BY DEF ControlInv, ControlTypeOK
    <2>2. epOn' = {} /\ interface' = -1
      <3>1. CASE interface = 0
        BY SMTT(30), <1>2, <3>1 DEF scale_disconnect, scale_reset_interface,
                          ControlInv, EndpointInv
      <3>2. CASE interface = -1
        BY SMTT(30), <1>2, <3>2 DEF scale_disconnect, scale_reset_interface,
                          ControlInv, EndpointInv
      <3> QED BY <2>1, <3>1, <3>2
    <2>3. ControlTypeOK'
      BY <1>2, <2>2 DEF scale_disconnect, ControlInv, ControlTypeOK
    <2>4. EndpointInv'
      BY <2>2 DEF EndpointInv
    <2>5. HostInv' /\ OpenInv'
      BY SMTT(30), <1>2, <2>2 DEF scale_disconnect, ControlInv, HostInv, OpenInv
    <2> QED BY <2>3, <2>4, <2>5 DEF ControlInv
  <1> QED BY <1>1, <1>2

\* The character device.
LEMMA NodeStep ==
    ASSUME ControlInv, NEW p, NEW s \in SUBSET StatusBits,
           \/ p \in Procs /\ (scale_open(p) \/ scale_close(p))
           \/ scale_ioctl(p, s) \/ scale_open_unloaded
    PROVE  ControlInv'
  <1> USE DEF loadVars, usbVars, fileVars, NONE
  <1>1. UNCHANGED <<loadVars, usbVars>>
    BY DEF scale_open, scale_close, scale_ioctl, scale_open_unloaded
  <1>2. EndpointInv' /\ HostInv'
    BY <1>1 DEF ControlInv, EndpointInv, HostInv
  <1>3. ControlTypeOK'
    <2>1. /\ files' \subseteq Procs /\ open' \in BOOLEAN
          /\ status' \subseteq StatusBits /\ crash' \in {crash, "scale_open"}
      BY DEF scale_open, scale_close, scale_ioctl, scale_open_unloaded,
             ControlInv, ControlTypeOK, StatusBits
    <2> QED BY <1>1, <2>1 DEF ControlInv, ControlTypeOK
  <1>4. OpenInv'
    <2>1. CASE scale_open(p)
      BY SMTT(30), <1>1, <2>1 DEF scale_open, ControlInv, OpenInv
    <2>2. CASE scale_close(p)
      BY <1>1, <2>2 DEF scale_close, ControlInv, OpenInv
    <2>3. CASE scale_ioctl(p, s) \/ scale_open_unloaded
      BY <1>1, <2>3 DEF scale_ioctl, scale_open_unloaded, ControlInv, OpenInv
    <2> QED BY <2>1, <2>2, <2>3
  <1> QED BY <1>2, <1>3, <1>4 DEF ControlInv

\* The inductive invariant holds in every reachable state of the control
\* side (scale_usb.c), for any number of processes.
THEOREM ControlInvariance == ControlSpec => []ControlInv
  <1>1. ControlInv /\ [ControlNext]_controlVars => ControlInv'
    <2> SUFFICES ASSUME ControlInv, [ControlNext]_controlVars PROVE ControlInv'
      OBVIOUS
    <2>1. CASE UNCHANGED controlVars
      BY <2>1 DEF controlVars, loadVars, usbVars, fileVars, ControlInv,
                  ControlTypeOK, EndpointInv, HostInv, OpenInv
    <2>2. CASE ControlNext
      <3>1. CASE init \/ cleanup
        BY <3>1, LoadStep
      <3>2. CASE attach \/ scale_disconnect
        BY <3>2, HostStep
      <3>3. CASE scale_soft_reset \/ scale_setup_other
        BY <3>3, ControlRequestStep
      <3>4. ASSUME NEW ok \in {"both", "in", "out"},
                   \/ \E n \in {0, 1, 2} : scale_set_config(n, ok)
                   \/ set_interface(ok)
            PROVE  ControlInv'
        BY <3>4, ControlRequestStep
      <3>5. CASE scale_open_unloaded
        BY <3>5, NodeStep
      <3>6. ASSUME NEW p \in Procs,
                   \/ scale_open(p) \/ scale_close(p)
                   \/ \E s \in SUBSET StatusBits : scale_ioctl(p, s)
            PROVE  ControlInv'
        <4>1. CASE scale_open(p) \/ scale_close(p)
          BY <4>1, NodeStep
        <4>2. ASSUME NEW s \in SUBSET StatusBits, scale_ioctl(p, s)
              PROVE  ControlInv'
          BY <4>2, NodeStep
        <4> QED BY <3>6, <4>1, <4>2
      <3> QED BY <2>2, <3>1, <3>2, <3>3, <3>4, <3>5, <3>6 DEF ControlNext
    <2> QED BY <2>1, <2>2
  <1> QED BY <1>1, InitControl, PTL DEF ControlSpec

\* Without a host no endpoint is enabled: scale_disconnect always finds the
\* interface selected when there is something to disable.
THEOREM DisabledWithoutHost == ControlSpec => []DisabledWhenGone
  <1>1. ControlInv => DisabledWhenGone
    BY DEF ControlInv, EndpointInv, DisabledWhenGone
  <1> QED BY <1>1, ControlInvariance, PTL

\* Endpoints are enabled in pairs, with their descriptors remembered
\* (set_scale_interface).
THEOREM PairedEndpoints == ControlSpec => []EndpointsPaired
  <1>1. ControlInv => EndpointsPaired
    BY DEF ControlInv, EndpointInv, EndpointsPaired
  <1> QED BY <1>1, ControlInvariance, PTL

\* GET_SCALE_USB_STATUS reports a connection exactly when the host has spoken.
THEOREM ConnectionReported == ControlSpec => []ReportsConnection
  <1>1. ControlInv => ReportsConnection
    <2> SUFFICES ASSUME ControlInv, bound PROVE is_connected <=> spoken
      BY DEF ReportsConnection
    <2>1. interface \in {-1, 0}
      BY DEF ControlInv, ControlTypeOK, SCALE_INTERFACE
    <2>2. interface = 0 <=> spoken
      BY DEF ControlInv, HostInv, SCALE_INTERFACE
    <2>3. is_connected <=> interface = 0
      BY SMTT(30), <2>1 DEF is_connected
    <2> QED BY <2>2, <2>3
  <1> QED BY <1>1, ControlInvariance, PTL

\* One process at a time has the device open, and the flag stays set while
\* it does (scale_open, scale_close).
THEOREM ExclusiveOpen == ControlSpec => []OpenIsExclusive
  <1>1. ControlInv => OpenIsExclusive
    <2> SUFFICES ASSUME ControlInv PROVE OpenIsExclusive
      OBVIOUS
    <2>1. CASE files = {}
      BY SMTT(30), <2>1, FS_EmptySet DEF OpenIsExclusive
    <2>2. CASE files # {}
      <3>1. PICK p : files = {p}
        BY SMTT(30), <2>2 DEF ControlInv, OpenInv
      <3>2. Cardinality(files) = 1
        BY <3>1, FS_Singleton
      <3>3. open
        BY <2>2 DEF ControlInv, OpenInv
      <3> QED BY SMTT(30), <3>2, <3>3 DEF OpenIsExclusive
    <2> QED BY <2>1, <2>2
  <1> QED BY <1>1, ControlInvariance, PTL

\* All of it at once, as the run of the drivers checks it: endpoints, reported
\* connection and exclusive open (scale_usb.c, control side).
THEOREM ControlIsSafe == ControlSpec => []ControlSafe
  <1>1. ControlInv => ControlTypeOK
    BY DEF ControlInv
  <1> QED BY <1>1, ControlInvariance, DisabledWithoutHost, PairedEndpoints,
             ConnectionReported, ExclusiveOpen, PTL DEF ControlSafe

=============================================================================
