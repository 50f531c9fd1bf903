--------------------------- MODULE TinyTimer_proofs ---------------------------
(***************************************************************************)
(* TinyTimer keeps its generations apart, for any number of killers and of *)
(* generations: at most one is active, a one-shot task runs at most once,  *)
(* and a generation that is bound to end comes closer to it.               *)
(***************************************************************************)
EXTENDS TinyTimer, TLAPS

(* TypeOK alone is not inductive: that gen stays in range follows from the *)
(* test that SetTimer made before it armed.                                *)
Room == pc[Owner] \in {"set", "arm"} => gen < MaxSet /\ m_bExpired

(* A generation is active only when it is the latest one, none is while    *)
(* the latest is being started, and m_bExpired records it.                 *)
Latest ==
    /\ \A g \in Gens : Active(g) => g = gen
    /\ \A g \in Gens : g > gen => tpc[g] = "none"
    /\ Arming => gen \in Gens /\ tpc[gen] = "none"
    /\ m_bExpired <=> ~Arming /\ \A g \in Gens : ~Active(g)

(* The loop flag is that of the generation in the loop.                    *)
LoopFlag ==
    /\ pc[Owner] \in {"start", "spawn"} => m_bLoopExecute = loop[gen]
    /\ \A g \in Gens : tpc[g] \in InLoop => m_bLoopExecute = loop[g]

(* Places of a one-shot thread before and after its task.                  *)
Before == {"test", "wait", "checked", "asleep", "task", "sleep", "due"}
RunsOfOneShot ==
    \A g \in Gens : /\ tpc[g] = "none" => runs[g] = 0
                    /\ ~loop[g] => /\ runs[g] <= 1
                                   /\ tpc[g] \in Before => runs[g] = 0

IInv == TypeOK /\ Room /\ Latest /\ LoopFlag /\ RunsOfOneShot

USE TimerAssumption DEF Gens, Callers

LEMMA InitIInv == Init => IInv
<1> SUFFICES ASSUME Init PROVE IInv
  OBVIOUS
<1> USE DEF Init
<1>1. TypeOK
  <2>1. pc \in [Callers -> {"idle"}] /\ tpc \in [Gens -> {"none"}]
    OBVIOUS
  <2>2. 0 \in 0 .. MaxSet /\ 0 \in 0 .. MaxRuns
    OBVIOUS
  <2>3. /\ runs \in [Gens -> 0 .. MaxRuns] /\ after \in [Gens -> 0 .. MaxRuns]
        /\ loop \in [Gens -> BOOLEAN]
    BY <2>2
  <2> QED
    BY <2>1, <2>2, <2>3 DEF TypeOK
<1>2. Room /\ LoopFlag
  BY DEF Room, LoopFlag, Arming, InLoop
<1>3. Latest
  BY DEF Latest, Arming, Active, InLoop
<1>4. RunsOfOneShot
  BY DEF RunsOfOneShot
<1> QED
  BY <1>1, <1>2, <1>3, <1>4 DEF IInv

------------------------------------------------------------------------------
(* Counting stops at MaxRuns, so the histories of runs keep their type.    *)
LEMMA CountRunType ==
  ASSUME TypeOK, NEW g \in Gens, CountRun(g)
  PROVE  runs' \in [Gens -> 0 .. MaxRuns] /\ after' \in [Gens -> 0 .. MaxRuns]
<1>1. \A n \in 0 .. MaxRuns : Counted(n) \in 0 .. MaxRuns
  BY DEF Counted
<1>2. runs[g] \in 0 .. MaxRuns /\ after[g] \in 0 .. MaxRuns
  BY DEF TypeOK
<1>3. runs' \in [Gens -> 0 .. MaxRuns]
  BY <1>1, <1>2 DEF CountRun, TypeOK
<1>4. after' \in [Gens -> 0 .. MaxRuns]
  BY <1>1, <1>2 DEF CountRun, TypeOK
<1> QED
  BY <1>3, <1>4

(* Every action keeps the invariant.  For each, <2>1 is about the types,   *)
(* <2>2 about who is active and <2>3 about the loop flag and the runs.     *)
LEMMA NextIInv == IInv /\ [Next]_vars => IInv'
<1> SUFFICES ASSUME IInv, [Next]_vars PROVE IInv'
  OBVIOUS
<1> USE DEF IInv, flags, hist, Go, Step
<1>1. ASSUME SetTestExpired PROVE IInv'
  <2>1. TypeOK'
    BY <1>1 DEF SetTestExpired, TypeOK, InLoop
  <2>2. Room' /\ Latest'
    BY <1>1 DEF SetTestExpired, Room, Latest, TypeOK, Active, Arming, InLoop
  <2>3. LoopFlag' /\ RunsOfOneShot'
    BY <1>1 DEF SetTestExpired, LoopFlag, RunsOfOneShot, Before,
             Latest, Room, TypeOK, Active, Arming, InLoop
  <2> QED
    BY <2>1, <2>2, <2>3
<1>2. ASSUME SetTestTryExpired PROVE IInv'
  <2>1. TypeOK'
    BY <1>2 DEF SetTestTryExpired, TypeOK, InLoop
  <2>2. Room' /\ Latest'
    BY <1>2 DEF SetTestTryExpired, Room, Latest, TypeOK, Active, Arming, InLoop
  <2>3. LoopFlag' /\ RunsOfOneShot'
    BY <1>2 DEF SetTestTryExpired, LoopFlag, RunsOfOneShot, Before,
             Latest, Room, TypeOK, Active, Arming, InLoop
  <2> QED
    BY <2>1, <2>2, <2>3
<1>3. ASSUME Arm PROVE IInv'
  <2>0. gen + 1 \in Gens /\ gen + 1 \in 0 .. MaxSet
    BY <1>3 DEF Arm, Room, TypeOK
  <2>1. TypeOK'
    BY <1>3, <2>0 DEF Arm, TypeOK, InLoop
  <2>2. Room' /\ Latest'
    BY <1>3, <2>0 DEF Arm, Room, Latest, TypeOK, Active, Arming, InLoop
  <2>3. LoopFlag' /\ RunsOfOneShot'
    BY <1>3, <2>0 DEF Arm, LoopFlag, RunsOfOneShot, Before,
             Latest, Room, TypeOK, Active, Arming, InLoop
  <2> QED
    BY <2>1, <2>2, <2>3
<1>4. ASSUME NEW bLoop \in BOOLEAN, NEW async \in BOOLEAN, SetLoopFlag(bLoop, async) PROVE IInv'
  <2>0. gen \in Gens /\ tpc[gen] = "none"
    BY <1>4 DEF SetLoopFlag, Latest, Arming
  <2>1. TypeOK'
    BY <1>4, <2>0 DEF SetLoopFlag, TypeOK, InLoop
  <2>2. Room' /\ Latest'
    BY <1>4, <2>0 DEF SetLoopFlag, Room, Latest, TypeOK, Active, Arming, InLoop
  <2>3. LoopFlag' /\ RunsOfOneShot'
    BY <1>4, <2>0 DEF SetLoopFlag, LoopFlag, RunsOfOneShot, Before,
             Latest, Room, TypeOK, Active, Arming, InLoop
  <2> QED
    BY <2>1, <2>2, <2>3
<1>5. ASSUME NEW c \in Callers, KillTestThread(c) PROVE IInv'
  <2>1. TypeOK'
    BY <1>5 DEF KillTestThread, TypeOK, InLoop
  <2>2. Room' /\ Latest'
    BY <1>5 DEF KillTestThread, Room, Latest, TypeOK, Active, Arming, InLoop
  <2>3. LoopFlag' /\ RunsOfOneShot'
    BY <1>5 DEF KillTestThread, LoopFlag, RunsOfOneShot, Before,
             Latest, Room, TypeOK, Active, Arming, InLoop
  <2> QED
    BY <2>1, <2>2, <2>3
<1>6. ASSUME NEW g \in Gens, SyncTest(g) PROVE IInv'
  <2>1. TypeOK'
    BY <1>6 DEF SyncTest, TypeOK, InLoop
  <2>2. Room' /\ Latest'
    BY <1>6 DEF SyncTest, Room, Latest, TypeOK, Active, Arming, InLoop
  <2>3. LoopFlag' /\ RunsOfOneShot'
    BY <1>6 DEF SyncTest, LoopFlag, RunsOfOneShot, Before,
             Latest, Room, TypeOK, Active, Arming, InLoop
  <2> QED
    BY <2>1, <2>2, <2>3
<1>7. ASSUME ResetThread PROVE IInv'
  <2>1. TypeOK'
    BY <1>7 DEF ResetThread, TypeOK, InLoop
  <2>2. Room' /\ Latest'
    BY <1>7 DEF ResetThread, Room, Latest, TypeOK, Active, Arming, InLoop
  <2>3. LoopFlag' /\ RunsOfOneShot'
    BY <1>7 DEF ResetThread, LoopFlag, RunsOfOneShot, Before,
             Latest, Room, TypeOK, Active, Arming, InLoop
  <2> QED
    BY <2>1, <2>2, <2>3
<1>8. ASSUME Spawn PROVE IInv'
  <2>1. TypeOK'
    BY <1>8 DEF Spawn, TypeOK, InLoop
  <2>2. Room' /\ Latest'
    BY <1>8 DEF Spawn, Room, Latest, TypeOK, Active, Arming, InLoop
  <2>3. LoopFlag' /\ RunsOfOneShot'
    BY <1>8 DEF Spawn, LoopFlag, RunsOfOneShot, Before,
             Latest, Room, TypeOK, Active, Arming, InLoop
  <2> QED
    BY <2>1, <2>2, <2>3
<1>9. ASSUME Attach PROVE IInv'
  <2>1. TypeOK'
    BY <1>9 DEF Attach, TypeOK, InLoop
  <2>2. Room' /\ Latest'
    BY <1>9 DEF Attach, Room, Latest, TypeOK, Active, Arming, InLoop
  <2>3. LoopFlag' /\ RunsOfOneShot'
    BY <1>9 DEF Attach, LoopFlag, RunsOfOneShot, Before,
             Latest, Room, TypeOK, Active, Arming, InLoop
  <2> QED
    BY <2>1, <2>2, <2>3
<1>10. ASSUME SyncReturn PROVE IInv'
  <2>1. TypeOK'
    BY <1>10 DEF SyncReturn, TypeOK, InLoop
  <2>2. Room' /\ Latest'
    BY <1>10 DEF SyncReturn, Room, Latest, TypeOK, Active, Arming, InLoop
  <2>3. LoopFlag' /\ RunsOfOneShot'
    BY <1>10 DEF SyncReturn, LoopFlag, RunsOfOneShot, Before,
             Latest, Room, TypeOK, Active, Arming, InLoop
  <2> QED
    BY <2>1, <2>2, <2>3
<1>11. ASSUME NEW c \in Callers, KillTestExpired(c) PROVE IInv'
  <2>1. TypeOK'
    BY <1>11 DEF KillTestExpired, TypeOK, InLoop
  <2>2. Room' /\ Latest'
    BY <1>11 DEF KillTestExpired, Room, Latest, TypeOK, Active, Arming, InLoop
  <2>3. LoopFlag' /\ RunsOfOneShot'
    BY <1>11 DEF KillTestExpired, LoopFlag, RunsOfOneShot, Before,
             Latest, Room, TypeOK, Active, Arming, InLoop
  <2> QED
    BY <2>1, <2>2, <2>3
<1>12. ASSUME NEW c \in Callers, KillTestTryExpired(c) PROVE IInv'
  <2>1. TypeOK'
    BY <1>12 DEF KillTestTryExpired, TypeOK, InLoop
  <2>2. Room' /\ Latest'
    BY <1>12 DEF KillTestTryExpired, Room, Latest, TypeOK, Active, Arming, InLoop
  <2>3. LoopFlag' /\ RunsOfOneShot'
    BY <1>12 DEF KillTestTryExpired, LoopFlag, RunsOfOneShot, Before,
             Latest, Room, TypeOK, Active, Arming, InLoop
  <2> QED
    BY <2>1, <2>2, <2>3
<1>13. ASSUME NEW c \in Callers, KillStore(c) PROVE IInv'
  <2>1. TypeOK'
    BY <1>13 DEF KillStore, TypeOK, InLoop
  <2>2. Room' /\ Latest'
    BY <1>13 DEF KillStore, Room, Latest, TypeOK, Active, Arming, InLoop
  <2>3. LoopFlag' /\ RunsOfOneShot'
    BY <1>13 DEF KillStore, LoopFlag, RunsOfOneShot, Before,
             Latest, Room, TypeOK, Active, Arming, InLoop
  <2> QED
    BY <2>1, <2>2, <2>3
<1>14. ASSUME NEW c \in Callers, KillNotify(c) PROVE IInv'
  <2>1. TypeOK'
    BY <1>14 DEF KillNotify, TypeOK, InLoop
  <2>2. Room' /\ Latest'
    BY <1>14 DEF KillNotify, Room, Latest, TypeOK, Active, Arming, InLoop
  <2>3. LoopFlag' /\ RunsOfOneShot'
    BY <1>14 DEF KillNotify, LoopFlag, RunsOfOneShot, Before,
             Latest, Room, TypeOK, Active, Arming, InLoop
  <2> QED
    BY <2>1, <2>2, <2>3
<1>15. ASSUME NEW g \in Gens, LoopTest(g) PROVE IInv'
  <2>1. TypeOK'
    BY <1>15 DEF LoopTest, TypeOK, InLoop
  <2>2. Room' /\ Latest'
    BY <1>15 DEF LoopTest, Room, Latest, TypeOK, Active, Arming, InLoop
  <2>3. LoopFlag' /\ RunsOfOneShot'
    BY <1>15 DEF LoopTest, LoopFlag, RunsOfOneShot, Before,
             Latest, Room, TypeOK, Active, Arming, InLoop
  <2> QED
    BY <2>1, <2>2, <2>3
<1>16. ASSUME NEW g \in Gens, Predicate(g) PROVE IInv'
  <2>1. TypeOK'
    BY <1>16 DEF Predicate, TypeOK, InLoop
  <2>2. Room' /\ Latest'
    BY <1>16 DEF Predicate, Room, Latest, TypeOK, Active, Arming, InLoop
  <2>3. LoopFlag' /\ RunsOfOneShot'
    BY <1>16 DEF Predicate, LoopFlag, RunsOfOneShot, Before,
             Latest, Room, TypeOK, Active, Arming, InLoop
  <2> QED
    BY <2>1, <2>2, <2>3
<1>17. ASSUME NEW g \in Gens, FallAsleep(g) PROVE IInv'
  <2>1. TypeOK'
    BY <1>17 DEF FallAsleep, TypeOK, InLoop
  <2>2. Room' /\ Latest'
    BY <1>17 DEF FallAsleep, Room, Latest, TypeOK, Active, Arming, InLoop
  <2>3. LoopFlag' /\ RunsOfOneShot'
    BY <1>17 DEF FallAsleep, LoopFlag, RunsOfOneShot, Before,
             Latest, Room, TypeOK, Active, Arming, InLoop
  <2> QED
    BY <2>1, <2>2, <2>3
<1>18. ASSUME NEW g \in Gens, SpuriousWakeup(g) PROVE IInv'
  <2>1. TypeOK'
    BY <1>18 DEF SpuriousWakeup, TypeOK, InLoop
  <2>2. Room' /\ Latest'
    BY <1>18 DEF SpuriousWakeup, Room, Latest, TypeOK, Active, Arming, InLoop
  <2>3. LoopFlag' /\ RunsOfOneShot'
    BY <1>18 DEF SpuriousWakeup, LoopFlag, RunsOfOneShot, Before,
             Latest, Room, TypeOK, Active, Arming, InLoop
  <2> QED
    BY <2>1, <2>2, <2>3
<1>19. ASSUME NEW g \in Gens, Timeout(g) PROVE IInv'
  <2>1. TypeOK'
    BY <1>19 DEF Timeout, TypeOK, InLoop
  <2>2. Room' /\ Latest'
    BY <1>19 DEF Timeout, Room, Latest, TypeOK, Active, Arming, InLoop
  <2>3. LoopFlag' /\ RunsOfOneShot'
    BY <1>19 DEF Timeout, LoopFlag, RunsOfOneShot, Before,
             Latest, Room, TypeOK, Active, Arming, InLoop
  <2> QED
    BY <2>1, <2>2, <2>3
<1>20. ASSUME NEW g \in Gens, RunTask(g) PROVE IInv'
  <2>0. /\ runs' \in [Gens -> 0 .. MaxRuns]
        /\ after' \in [Gens -> 0 .. MaxRuns]
    BY <1>20, CountRunType DEF RunTask, TypeOK
  <2>1. TypeOK'
    BY <1>20, <2>0 DEF RunTask, TypeOK, InLoop
  <2>2. Room' /\ Latest'
    BY <1>20 DEF RunTask, Room, Latest, TypeOK, Active, Arming, InLoop
  <2>3. LoopFlag' /\ RunsOfOneShot'
    BY <1>20 DEF RunTask, CountRun, Counted, LoopFlag, RunsOfOneShot, Before,
             Latest, Room, TypeOK, Active, Arming, InLoop
  <2> QED
    BY <2>1, <2>2, <2>3
<1>21. ASSUME NEW g \in Gens, TestLoopFlag(g) PROVE IInv'
  <2>1. TypeOK'
    BY <1>21 DEF TestLoopFlag, TypeOK, InLoop
  <2>2. Room' /\ Latest'
    BY <1>21 DEF TestLoopFlag, Room, Latest, TypeOK, Active, Arming, InLoop
  <2>3. LoopFlag' /\ RunsOfOneShot'
    BY <1>21 DEF TestLoopFlag, LoopFlag, RunsOfOneShot, Before,
             Latest, Room, TypeOK, Active, Arming, InLoop
  <2> QED
    BY <2>1, <2>2, <2>3
<1>22. ASSUME NEW g \in Gens, SyncTask(g) PROVE IInv'
  <2>0. /\ runs' \in [Gens -> 0 .. MaxRuns]
        /\ after' \in [Gens -> 0 .. MaxRuns]
    BY <1>22, CountRunType DEF SyncTask, TypeOK
  <2>1. TypeOK'
    BY <1>22, <2>0 DEF SyncTask, TypeOK, InLoop
  <2>2. Room' /\ Latest'
    BY <1>22 DEF SyncTask, Room, Latest, TypeOK, Active, Arming, InLoop
  <2>3. LoopFlag' /\ RunsOfOneShot'
    BY <1>22 DEF SyncTask, CountRun, Counted, LoopFlag, RunsOfOneShot, Before,
             Latest, Room, TypeOK, Active, Arming, InLoop
  <2> QED
    BY <2>1, <2>2, <2>3
<1>23. ASSUME NEW g \in Gens, Expire(g) PROVE IInv'
  <2>1. TypeOK'
    BY <1>23 DEF Expire, TypeOK, InLoop
  <2>2. Room' /\ Latest'
    BY <1>23 DEF Expire, Room, Latest, TypeOK, Active, Arming, InLoop
  <2>3. LoopFlag' /\ RunsOfOneShot'
    BY <1>23 DEF Expire, LoopFlag, RunsOfOneShot, Before,
             Latest, Room, TypeOK, Active, Arming, InLoop
  <2> QED
    BY <2>1, <2>2, <2>3
<1>24. ASSUME NEW g \in Gens, Clear(g) PROVE IInv'
  <2>1. TypeOK'
    BY <1>24 DEF Clear, TypeOK, InLoop
  <2>2. Room' /\ Latest'
    BY <1>24 DEF Clear, Room, Latest, TypeOK, Active, Arming, InLoop
  <2>3. LoopFlag' /\ RunsOfOneShot'
    BY <1>24 DEF Clear, LoopFlag, RunsOfOneShot, Before,
             Latest, Room, TypeOK, Active, Arming, InLoop
  <2> QED
    BY <2>1, <2>2, <2>3
<1>25. CASE UNCHANGED vars
  BY <1>25 DEF vars, TypeOK, Room, Latest, LoopFlag, RunsOfOneShot,
               Active, Arming
<1> QED
  BY <1>1, <1>2, <1>3, <1>4, <1>5, <1>6, <1>7, <1>8, <1>9, <1>10,
     <1>11, <1>12, <1>13, <1>14, <1>15, <1>16, <1>17, <1>18, <1>19, <1>20, <1>21, <1>22, <1>23, <1>24, <1>25
     DEF Next, SetTimer, KillTimer, TimerThread

LEMMA AlwaysIInv == Safety => []IInv
  BY InitIInv, NextIInv, PTL DEF Safety

(* The program counters move between the places named in the actions, the  *)
(* counters saturate and the histories hold generations.                   *)
THEOREM TimerTypeCorrect == Safety => []TypeOK
<1>1. IInv => TypeOK
  BY DEF IInv
<1> QED
  BY <1>1, AlwaysIInv, PTL

(* However the threads and kills interleave, SetTimer never arms a second  *)
(* generation while one is active: the test of m_bExpired at its start and *)
(* the store of line 81 at the end of the old thread suffice.              *)
THEOREM OnlyOneActive == Safety => []OneActive
<1>1. IInv => OneActive
  BY DEF IInv, Latest, OneActive
<1> QED
  BY <1>1, AlwaysIInv, PTL

(* A one-shot generation never runs its task twice, since no later SetTimer *)
(* can turn on the shared loop flag before the thread has read it.         *)
THEOREM OneShotOnce == Safety => []OneShotRunsOnce
<1>1. IInv => OneShotRunsOnce
  BY DEF IInv, RunsOfOneShot, OneShotRunsOnce
<1> QED
  BY <1>1, AlwaysIInv, PTL

------------------------------------------------------------------------------
(* A generation is counted after its kill only, and one whose kill nobody  *)
(* cleared finds the flag at its next test: it is past its last run, or    *)
(* has not run since.                                                      *)
Unrun == {"wait", "checked", "asleep", "task", "sleep", "due"}
KillsCounted ==
    \A g \in Gens :
      /\ g \notin killed => after[g] = 0
      /\ g \in killed => tpc[g] # "none"
      /\ g \in killed \ erased => /\ Active(g) => m_bTryExpired
                                  /\ after[g] <= 1
                                  /\ tpc[g] \in Unrun => after[g] = 0

(* A flag that was not stored late has a generation that will clear it.    *)
FlagHasReader ==
    m_bTryExpired /\ ~stray => Arming \/ \E g \in Gens : Active(g) \/ tpc[g] = "clear"

LEMMA InitKills == Init => KillsCounted /\ FlagHasReader
  BY DEF Init, KillsCounted, FlagHasReader, Unrun, Active, InLoop

LEMMA NextKills == IInv /\ KillsCounted /\ FlagHasReader /\ [Next]_vars => (KillsCounted /\ FlagHasReader)'
<1> SUFFICES ASSUME IInv, KillsCounted, FlagHasReader, [Next]_vars
             PROVE  KillsCounted' /\ FlagHasReader'
  OBVIOUS
<1> USE DEF IInv, flags, hist, Go, Step
<1>1. CASE SetTestExpired \/ SetTestTryExpired \/ ResetThread \/ Attach \/ SyncReturn
  <2>1. KillsCounted'
    BY <1>1 DEF SetTestExpired, SetTestTryExpired, ResetThread, Attach, SyncReturn, KillsCounted,
       Active
  <2>2. FlagHasReader'
    BY <1>1 DEF SetTestExpired, SetTestTryExpired, ResetThread, Attach, SyncReturn, FlagHasReader,
       Active, Arming, TypeOK
  <2> QED
    BY <2>1, <2>2
<1>2. CASE Arm
  <2>1. KillsCounted'
    BY <1>2 DEF Arm, KillsCounted, Active
  <2>2. FlagHasReader'
    BY <1>2 DEF Arm, FlagHasReader, Arming, TypeOK
  <2> QED
    BY <2>1, <2>2
<1>3. ASSUME NEW bLoop \in BOOLEAN, NEW async \in BOOLEAN, SetLoopFlag(bLoop, async)
       PROVE  KillsCounted' /\ FlagHasReader'
  <2>1. gen \in Gens /\ tpc[gen] = "none"
    BY <1>3 DEF SetLoopFlag, Latest, Arming
  <2>2. KillsCounted'
    BY <1>3, <2>1 DEF SetLoopFlag, KillsCounted, Active, InLoop, TypeOK
  <2>3. FlagHasReader'
    BY <1>3, <2>1 DEF SetLoopFlag, FlagHasReader, Active, Arming, InLoop, TypeOK
  <2> QED
    BY <2>2, <2>3
<1>4. CASE Spawn
  <2>1. gen \in Gens /\ tpc[gen] = "none"
    BY <1>4 DEF Spawn, Latest, Arming
  <2>2. KillsCounted'
    BY <1>4, <2>1 DEF Spawn, KillsCounted, Active, InLoop, TypeOK
  <2>3. FlagHasReader'
    BY <1>4, <2>1 DEF Spawn, FlagHasReader, Active, Arming, InLoop, TypeOK
  <2> QED
    BY <2>2, <2>3
<1>5. ASSUME NEW c \in Callers, KillTestExpired(c) \/ KillTestTryExpired(c) \/ KillTestThread(c)
      PROVE  KillsCounted' /\ FlagHasReader'
  <2>1. KillsCounted'
    BY <1>5 DEF KillTestExpired, KillTestTryExpired, KillTestThread, KillsCounted, Active
  <2>2. FlagHasReader'
    BY <1>5 DEF KillTestExpired, KillTestTryExpired, KillTestThread, FlagHasReader, Active, Arming, TypeOK
  <2> QED
    BY <2>1, <2>2
<1>6. ASSUME NEW c \in Callers, KillStore(c) PROVE KillsCounted' /\ FlagHasReader'
  <2>1. KillsCounted'
    BY <1>6 DEF KillStore, KillsCounted, Active, InLoop, TypeOK
  <2>2. FlagHasReader'
    BY <1>6 DEF KillStore, FlagHasReader, Latest, Active, Arming, TypeOK
  <2> QED
    BY <2>1, <2>2
<1>7. ASSUME NEW c \in Callers, KillNotify(c) PROVE KillsCounted' /\ FlagHasReader'
  <2>1. KillsCounted'
    BY <1>7 DEF KillNotify, KillsCounted, Unrun, Active, InLoop, TypeOK
  <2>2. FlagHasReader'
    BY <1>7 DEF KillNotify, FlagHasReader, Active, Arming, InLoop, TypeOK
  <2> QED
    BY <2>1, <2>2
<1>8. ASSUME NEW g \in Gens,
             \/ LoopTest(g) \/ Predicate(g) \/ FallAsleep(g) \/ SpuriousWakeup(g) \/ Timeout(g)
             \/ TestLoopFlag(g) \/ SyncTest(g)
      PROVE  KillsCounted' /\ FlagHasReader'
  <2>1. KillsCounted'
    BY <1>8 DEF LoopTest, Predicate, FallAsleep, SpuriousWakeup, Timeout, TestLoopFlag, SyncTest,
       KillsCounted, Unrun, Active, InLoop, TypeOK
  <2>2. FlagHasReader'
    BY <1>8 DEF LoopTest, Predicate, FallAsleep, SpuriousWakeup, Timeout, TestLoopFlag, SyncTest,
       FlagHasReader, Active, Arming, InLoop, TypeOK
  <2> QED
    BY <2>1, <2>2
<1>9. ASSUME NEW g \in Gens, RunTask(g) \/ SyncTask(g) PROVE KillsCounted' /\ FlagHasReader'
  <2>1. KillsCounted'
    <3>1. /\ UNCHANGED <<killed, erased, m_bTryExpired>>
          /\ \A h \in Gens \ {g} : tpc'[h] = tpc[h] /\ after'[h] = after[h]
          /\ tpc[g] \in {"task", "due"} /\ tpc'[g] \in {"again", "expire"}
      BY <1>9 DEF RunTask, SyncTask, CountRun, TypeOK
    <3>2. after'[g] = after[g] \/ (g \in killed /\ after'[g] = Counted(after[g]))
      BY <1>9 DEF RunTask, SyncTask, CountRun, TypeOK
    <3>3. Counted(0) = 1
      BY DEF Counted
    <3>4. /\ g \notin killed => after'[g] = 0
          /\ g \in killed \ erased => after'[g] <= 1 /\ (Active(g) => m_bTryExpired)
      BY <3>1, <3>2, <3>3 DEF KillsCounted, Unrun
    <3>5. Active(g) /\ tpc'[g] # "none" /\ tpc'[g] \notin Unrun
      BY <3>1 DEF Active, InLoop, Unrun
    <3> QED
      BY <3>1, <3>4, <3>5 DEF KillsCounted, Active
  <2>2. FlagHasReader'
    BY <1>9 DEF RunTask, SyncTask, FlagHasReader, Active, Arming, InLoop, TypeOK
  <2> QED
    BY <2>1, <2>2
<1>10. ASSUME NEW g \in Gens, Expire(g) \/ Clear(g) PROVE KillsCounted' /\ FlagHasReader'
  <2>1. KillsCounted'
    BY <1>10 DEF Expire, Clear, KillsCounted, Unrun, Active, InLoop, TypeOK
  <2>2. FlagHasReader'
    BY <1>10 DEF Expire, Clear, FlagHasReader, Active, Arming, InLoop, TypeOK
  <2> QED
    BY <2>1, <2>2
<1>11. CASE UNCHANGED vars
  BY <1>11 DEF vars, KillsCounted, FlagHasReader, Active, Arming
<1> QED
  BY <1>1, <1>2, <1>3, <1>4, <1>5, <1>6, <1>7, <1>8, <1>9, <1>10, <1>11
     DEF Next, SetTimer, KillTimer, TimerThread

LEMMA AlwaysKills == Safety => [](KillsCounted /\ FlagHasReader)
  BY InitKills, NextKills, AlwaysIInv, PTL DEF Safety

(* A killed generation runs its task at most once more, unless an older    *)
(* thread clears the flag under it, for any number of killers and timers.  *)
THEOREM KillIsPrompt == Safety => []KillLatency
<1>1. IInv /\ KillsCounted => KillLatency
  BY DEF IInv, TypeOK, KillsCounted, KillLatency
<1> QED
  BY <1>1, AlwaysIInv, AlwaysKills, PTL

(* A timer that nobody uses any more is left with m_bTryExpired set only   *)
(* by a KillTimer whose store came after the end of what it killed.        *)
THEOREM StuckLate == Safety => []StuckOnlyByLateKill
<1>1. IInv /\ FlagHasReader => StuckOnlyByLateKill
  BY DEF IInv, TypeOK, FlagHasReader, StuckOnlyByLateKill, Quiet, Arming, Active, InLoop
<1> QED
  BY <1>1, AlwaysIInv, AlwaysKills, PTL

------------------------------------------------------------------------------
(* The safety half of TimersEnd.  A generation is bound to end when its    *)
(* kill stands, or when it is a one-shot that has run.                     *)
Ending(g) == g \in killed \ erased \/ (~loop[g] /\ runs[g] > 0)

(* How many steps its thread has left at most, from where it is.           *)
StepsLeft(at) ==
    CASE at = "done" -> 0
      [] at = "clear" -> 1
      [] at = "expire" -> 2
      [] at \in {"test", "wait", "sleep", "due"} -> 3
      [] at \in {"asleep", "again"} -> 4
      [] at \in {"checked", "task"} -> 5
      [] OTHER -> 6

(* Whatever moves the thread of such a generation, its own steps, a        *)
(* notification or a spurious wake-up, brings it closer to its end: it     *)
(* cannot go round the loop of line 60 again.                              *)
EndingComesCloser ==
    [][\A g \in Gens : Ending(g) /\ tpc'[g] # tpc[g] => StepsLeft(tpc'[g]) < StepsLeft(tpc[g])]_vars

LEMMA StepsLeftOrder ==
  /\ StepsLeft("done") = 0 /\ StepsLeft("clear") = 1 /\ StepsLeft("expire") = 2
  /\ StepsLeft("test") = 3 /\ StepsLeft("wait") = 3 /\ StepsLeft("sleep") = 3
  /\ StepsLeft("due") = 3
  /\ StepsLeft("asleep") = 4 /\ StepsLeft("again") = 4
  /\ StepsLeft("checked") = 5 /\ StepsLeft("task") = 5
  BY DEF StepsLeft

(* Where a generation that is bound to end goes from each place.           *)
LEMMA EndingMoves ==
  ASSUME IInv, KillsCounted, Next, NEW g \in Gens, Ending(g), tpc'[g] # tpc[g]
  PROVE  <<tpc[g], tpc'[g]>> \in
           {<<"test", "expire">>, <<"wait", "expire">>, <<"checked", "asleep">>,
            <<"asleep", "wait">>, <<"asleep", "expire">>, <<"task", "again">>,
            <<"again", "test">>, <<"again", "expire">>, <<"sleep", "expire">>, <<"due", "expire">>,
            <<"expire", "clear">>, <<"clear", "done">>}
<1> USE DEF IInv, Go, Step
<1>1. tpc[g] \in Before => m_bTryExpired
  BY DEF Ending, KillsCounted, RunsOfOneShot, Before, Active, InLoop, TypeOK
<1>2. tpc[g] = "again" /\ ~(g \in killed \ erased) => ~m_bLoopExecute
  BY DEF Ending, LoopFlag, InLoop
<1>3. tpc[g] # "none"
  BY DEF Ending, KillsCounted, RunsOfOneShot
<1>4. CASE SetTimer
  <2>1. ASSUME NEW bLoop \in BOOLEAN, NEW async \in BOOLEAN, SetLoopFlag(bLoop, async) PROVE FALSE
    <3>1. gen \in Gens /\ tpc[gen] = "none"
      BY <2>1 DEF SetLoopFlag, Latest, Arming
    <3> QED
      BY <2>1, <3>1, <1>3 DEF SetLoopFlag, TypeOK
  <2>2. CASE Spawn
    <3>1. gen \in Gens /\ tpc[gen] = "none"
      BY <2>2 DEF Spawn, Latest, Arming
    <3> QED
      BY <2>2, <3>1, <1>3 DEF Spawn, TypeOK
  <2>3. CASE SetTestExpired \/ SetTestTryExpired \/ Arm \/ ResetThread \/ Attach \/ SyncReturn
    BY <2>3 DEF SetTestExpired, SetTestTryExpired, Arm, ResetThread, Attach, SyncReturn
  <2> QED
    BY <1>4, <2>1, <2>2, <2>3 DEF SetTimer
<1>5. ASSUME NEW c \in Callers, KillTimer(c)
      PROVE  tpc[g] = "asleep" /\ tpc'[g] = "wait"
  BY <1>5 DEF KillTimer, KillTestExpired, KillTestTryExpired, KillTestThread, KillStore, KillNotify, TypeOK
<1>6. ASSUME NEW h \in Gens, TimerThread(h) \/ SpuriousWakeup(h) PROVE h = g
  BY <1>6 DEF TimerThread, LoopTest, Predicate, FallAsleep, SpuriousWakeup, Timeout, RunTask,
     TestLoopFlag, SyncTest, SyncTask, Expire, Clear, TypeOK
<1>7. CASE TimerThread(g) \/ SpuriousWakeup(g)
  BY <1>1, <1>2, <1>7 DEF Before, TimerThread, LoopTest, Predicate, FallAsleep, SpuriousWakeup, Timeout, RunTask,
     TestLoopFlag, SyncTest, SyncTask, Expire, Clear, TypeOK, Active, InLoop
<1> QED
  BY <1>4, <1>5, <1>6, <1>7 DEF Next

(* For any number of killers and generations: a killed timer whose kill    *)
(* nobody erased, and a one-shot that has run, has at most five more steps *)
(* to its end, so that with fairness it ends.                              *)
THEOREM EndingTimersEnd == Safety => EndingComesCloser
<1>1. ASSUME IInv, KillsCounted, Next, NEW g \in Gens, Ending(g), tpc'[g] # tpc[g]
      PROVE  StepsLeft(tpc'[g]) < StepsLeft(tpc[g])
  BY <1>1, EndingMoves, StepsLeftOrder
<1>2. IInv /\ KillsCounted /\ [Next]_vars
        => [\A g \in Gens : Ending(g) /\ tpc'[g] # tpc[g]
                           => StepsLeft(tpc'[g]) < StepsLeft(tpc[g])]_vars
  BY <1>1
<1> QED
  BY <1>2, AlwaysIInv, AlwaysKills, PTL DEF Safety, EndingComesCloser
==============================================================================
