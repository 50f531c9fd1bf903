------------------------------ MODULE TinyTimer ------------------------------
(***************************************************************************)
(* The timer of src/TinyTimer/TinyTimer.h: one object that SetTimer arms   *)
(* again and again.  An asynchronous SetTimer starts a detached thread, a  *)
(* synchronous one sleeps in the caller.  The object has only two flags    *)
(* for all the threads it ever starts, m_bExpired (nothing is armed) and   *)
(* m_bTryExpired (the armed one is to end), and the threads and KillTimer  *)
(* read and write them without a lock.                                     *)
(*                                                                         *)
(* One thread, Owner, calls SetTimer and KillTimer; the Killers are other  *)
(* threads (or tasks) that call KillTimer.  The g-th SetTimer that passes  *)
(* its test is generation g.  m_ThreadMutex is taken by timer threads only *)
(* (KillTimer stores and notifies without it); the model leaves it out,    *)
(* and OneActive shows that nobody ever contends for it.  m_LoopCount is   *)
(* never read and is left out.                                             *)
(***************************************************************************)
EXTENDS Integers

CONSTANTS Owner,    (* the thread that sets the timer                      *)
          Killers,  (* other threads that kill it                          *)
          MaxSet,   (* bound: SetTimer calls that arm the timer            *)
          MaxRuns   (* bound: task runs are counted up to this number      *)

ASSUME TimerAssumption ==
    /\ Owner \notin Killers
    /\ MaxSet \in Nat
    /\ MaxRuns \in Nat /\ MaxRuns >= 2

Gens == 1 .. MaxSet
Callers == {Owner} \cup Killers

VARIABLES
    m_bExpired, m_bTryExpired, m_bLoopExecute,
    m_Thread,   (* is m_Thread non-null                                    *)
    pc,         (* pc[c]: where a caller is in SetTimer or KillTimer       *)
    tpc,        (* tpc[g]: where the thread of generation g is             *)
    gen,        (* generations armed so far                                *)
    loop,       (* history: the bLoop that g was armed with                *)
    runs,       (* history: task runs of g                                 *)
    killed,     (* history: generations active when KillTimer stored       *)
    erased,     (* history: killed ones whose kill another thread cleared  *)
    after,      (* history: task runs of g after it was killed             *)
    stray       (* history: the last store of KillTimer hit no generation  *)

flags == <<m_bExpired, m_bTryExpired, m_bLoopExecute, m_Thread>>
hist == <<loop, runs, killed, erased, after, stray>>
vars == <<flags, pc, tpc, gen, hist>>

InLoop == {"test", "wait", "checked", "asleep", "task", "again"}
Active(g) == tpc[g] \in InLoop \cup {"sleep", "due", "expire"}
Arming == pc[Owner] \in {"flag", "start", "spawn"}

Go(c, from, to) == pc[c] = from /\ pc' = [pc EXCEPT ![c] = to]
Step(g, from, to) == tpc[g] = from /\ tpc' = [tpc EXCEPT ![g] = to]

Init ==
    /\ m_bExpired = TRUE
    /\ m_bTryExpired = FALSE
    /\ m_bLoopExecute = FALSE
    /\ m_Thread = FALSE
    /\ pc = [c \in Callers |-> "idle"]
    /\ tpc = [g \in Gens |-> "none"]
    /\ gen = 0
    /\ loop = [g \in Gens |-> FALSE]
    /\ runs = [g \in Gens |-> 0]
    /\ killed = {}
    /\ erased = {}
    /\ after = [g \in Gens |-> 0]
    /\ stray = FALSE

------------------------------------------------------------------------------
(* SetTimer.  A call refused by the first test changes nothing.            *)

(* A plausible slip, for comparison: m_bExpired is not tested.             *)
SetUntested ==
    /\ Go(Owner, "idle", "set")
    /\ gen < MaxSet
    /\ UNCHANGED <<flags, tpc, gen, hist>>

SetTestExpired ==
    /\ Go(Owner, "idle", "set")
    /\ gen < MaxSet
    /\ m_bExpired
    /\ UNCHANGED <<flags, tpc, gen, hist>>

SetTestTryExpired ==
    /\ Go(Owner, "set", IF m_bTryExpired THEN "idle" ELSE "arm")
    /\ UNCHANGED <<flags, tpc, gen, hist>>

Arm ==
    /\ Go(Owner, "arm", "flag")
    /\ m_bExpired' = FALSE
    /\ gen' = gen + 1
    /\ UNCHANGED <<m_bTryExpired, m_bLoopExecute, m_Thread, tpc, hist>>

SetLoopFlag(bLoop, async) ==
    /\ Go(Owner, "flag", IF async THEN "start" ELSE "sync")
    /\ m_bLoopExecute' = bLoop
    /\ loop' = [loop EXCEPT ![gen] = bLoop]
    /\ tpc' = [tpc EXCEPT ![gen] = IF async THEN "none" ELSE "sleep"]
    /\ UNCHANGED <<m_bExpired, m_bTryExpired, m_Thread, gen, runs, killed, erased, after, stray>>

ResetThread ==
    /\ Go(Owner, "start", "spawn")
    /\ m_Thread' = FALSE
    /\ UNCHANGED <<m_bExpired, m_bTryExpired, m_bLoopExecute, tpc, gen, hist>>

Spawn ==
    /\ Go(Owner, "spawn", "attach")
    /\ tpc' = [tpc EXCEPT ![gen] = "test"]
    /\ UNCHANGED <<flags, gen, hist>>

Attach ==
    /\ Go(Owner, "attach", "idle")
    /\ m_Thread' = TRUE
    /\ UNCHANGED <<m_bExpired, m_bTryExpired, m_bLoopExecute, tpc, gen, hist>>

(* A plausible slip, for comparison: the synchronous branch arms again     *)
(* without the tests.                                                      *)
SyncArmsAgain ==
    /\ Go(Owner, "sync", "arm")
    /\ tpc[gen] = "done"
    /\ UNCHANGED <<flags, tpc, gen, hist>>

SyncReturn ==
    /\ Go(Owner, "sync", "idle")
    /\ tpc[gen] = "done"
    /\ UNCHANGED <<flags, tpc, gen, hist>>

------------------------------------------------------------------------------
(* KillTimer: three tests, the store and the notification, none of them      *)
(* under the mutex.                                                        *)

KillTestExpired(c) ==
    /\ Go(c, "idle", "kill")
    /\ ~m_bExpired
    /\ UNCHANGED <<flags, tpc, gen, hist>>

KillTestTryExpired(c) ==
    /\ Go(c, "kill", IF m_bTryExpired THEN "idle" ELSE "thread")
    /\ UNCHANGED <<flags, tpc, gen, hist>>

KillTestThread(c) ==
    /\ Go(c, "thread", IF m_Thread THEN "store" ELSE "idle")
    /\ UNCHANGED <<flags, tpc, gen, hist>>

(* A plausible slip, for comparison: KillTimer only notifies.              *)
KillWithoutStore(c) ==
    /\ Go(c, "store", "notify")
    /\ killed' = killed \cup {g \in Gens : Active(g)}
    /\ stray' = m_bExpired
    /\ UNCHANGED <<m_bExpired, m_bTryExpired, m_bLoopExecute, m_Thread, tpc, gen,
                   loop, runs, erased, after>>

KillStore(c) ==
    /\ Go(c, "store", "notify")
    /\ m_bTryExpired' = TRUE
    /\ killed' = killed \cup {g \in Gens : Active(g)}
    /\ stray' = m_bExpired
    /\ UNCHANGED <<m_bExpired, m_bLoopExecute, m_Thread, tpc, gen,
                   loop, runs, erased, after>>

KillNotify(c) ==
    /\ Go(c, "notify", "idle")
    /\ \/ \E g \in Gens : Step(g, "asleep", "wait")
       \/ (\A g \in Gens : tpc[g] # "asleep") /\ UNCHANGED tpc
    /\ UNCHANGED <<flags, gen, hist>>

------------------------------------------------------------------------------
(* The thread of generation g.  wait_for evaluates its predicate on entry, *)
(* after a wake-up and at the timeout; a notification that comes between   *)
(* the evaluation and the sleep is lost.                                   *)

LoopTest(g) ==
    /\ Step(g, "test", IF m_bTryExpired THEN "expire" ELSE "wait")
    /\ UNCHANGED <<flags, pc, gen, hist>>

Predicate(g) ==
    /\ Step(g, "wait", IF m_bTryExpired THEN "expire" ELSE "checked")
    /\ UNCHANGED <<flags, pc, gen, hist>>

FallAsleep(g) ==
    /\ Step(g, "checked", "asleep")
    /\ UNCHANGED <<flags, pc, gen, hist>>

SpuriousWakeup(g) ==
    /\ Step(g, "asleep", "wait")
    /\ UNCHANGED <<flags, pc, gen, hist>>

Timeout(g) ==
    /\ Step(g, "asleep", IF m_bTryExpired THEN "expire" ELSE "task")
    /\ UNCHANGED <<flags, pc, gen, hist>>

Counted(n) == IF n < MaxRuns THEN n + 1 ELSE n

CountRun(g) ==
    /\ runs' = [runs EXCEPT ![g] = Counted(@)]
    /\ after' = IF g \in killed THEN [after EXCEPT ![g] = Counted(@)] ELSE after

RunTask(g) ==
    /\ Step(g, "task", "again")
    /\ CountRun(g)
    /\ UNCHANGED <<flags, pc, gen, loop, killed, erased, stray>>

(* A plausible slip, for comparison: the test of line 75 is inverted.      *)
TestLoopFlagInverted(g) ==
    /\ Step(g, "again", IF m_bLoopExecute THEN "expire" ELSE "test")
    /\ UNCHANGED <<flags, pc, gen, hist>>

TestLoopFlag(g) ==
    /\ Step(g, "again", IF m_bLoopExecute THEN "test" ELSE "expire")
    /\ UNCHANGED <<flags, pc, gen, hist>>

(* The synchronous branch after its sleep.                                 *)
SyncTest(g) ==
    /\ Step(g, "sleep", IF m_bTryExpired THEN "expire" ELSE "due")
    /\ UNCHANGED <<flags, pc, gen, hist>>

SyncTask(g) ==
    /\ Step(g, "due", "expire")
    /\ CountRun(g)
    /\ UNCHANGED <<flags, pc, gen, loop, killed, erased, stray>>

(* The two stores that end a generation, in either branch.                 *)
Expire(g) ==
    /\ Step(g, "expire", "clear")
    /\ m_bExpired' = TRUE
    /\ UNCHANGED <<m_bTryExpired, m_bLoopExecute, m_Thread, pc, gen, hist>>

(* A plausible slip, for comparison: line 82 is missing.                   *)
ClearForgotten(g) ==
    /\ Step(g, "clear", "done")
    /\ UNCHANGED <<flags, pc, gen, hist>>

Clear(g) ==
    /\ Step(g, "clear", "done")
    /\ m_bTryExpired' = FALSE
    /\ erased' = erased \cup {h \in killed : h # g /\ Active(h)}
    /\ UNCHANGED <<m_bExpired, m_bLoopExecute, m_Thread, pc, gen,
                   loop, runs, killed, after, stray>>

------------------------------------------------------------------------------
SetTimer ==
    \/ SetTestExpired \/ SetTestTryExpired
    \/ Arm
    \/ \E bLoop, async \in BOOLEAN : SetLoopFlag(bLoop, async)
    \/ ResetThread \/ Spawn \/ Attach \/ SyncReturn

KillTimer(c) ==
    \/ KillTestExpired(c) \/ KillTestTryExpired(c) \/ KillTestThread(c)
    \/ KillStore(c) \/ KillNotify(c)

TimerThread(g) ==
    \/ LoopTest(g) \/ Predicate(g) \/ FallAsleep(g) \/ Timeout(g)
    \/ RunTask(g) \/ TestLoopFlag(g) \/ SyncTest(g) \/ SyncTask(g)
    \/ Expire(g) \/ Clear(g)

Next ==
    \/ SetTimer
    \/ \E c \in Callers : KillTimer(c)
    \/ \E g \in Gens : TimerThread(g) \/ SpuriousWakeup(g)

(* Threads run; the deadline of wait_for is absolute, so that spurious     *)
(* wake-ups do not put the timeout off forever; a call under way goes on.  *)
Fairness ==
    /\ \A g \in Gens : WF_vars(TimerThread(g)) /\ SF_vars(Timeout(g))
    /\ WF_vars(pc[Owner] # "idle" /\ SetTimer)
    /\ \A c \in Callers : WF_vars(pc[c] # "idle" /\ KillTimer(c))

Safety == Init /\ [][Next]_vars
Spec == Safety /\ Fairness

------------------------------------------------------------------------------
(* Properties.                                                             *)

(* Every variable stays in its range.                                      *)
TypeOK ==
    /\ m_bExpired \in BOOLEAN /\ m_bTryExpired \in BOOLEAN
    /\ m_bLoopExecute \in BOOLEAN /\ m_Thread \in BOOLEAN
    /\ pc \in [Callers -> {"idle", "set", "arm", "flag", "start", "spawn", "attach",
                           "sync", "kill", "thread", "store", "notify"}]
    /\ tpc \in [Gens -> InLoop \cup {"none", "sleep", "due", "expire", "clear", "done"}]
    /\ gen \in 0 .. MaxSet
    /\ loop \in [Gens -> BOOLEAN]
    /\ runs \in [Gens -> 0 .. MaxRuns]
    /\ killed \subseteq Gens /\ erased \subseteq Gens
    /\ after \in [Gens -> 0 .. MaxRuns]
    /\ stray \in BOOLEAN

(* The flags are enough to keep generations apart: a new one is armed only *)
(* when the old one is past its loop, so that at most one is between being *)
(* armed and the store of m_bExpired, and m_bExpired says whether one is.  *)
OneActive ==
    /\ \A g, h \in Gens : Active(g) /\ Active(h) => g = h
    /\ m_bExpired <=> ~Arming /\ \A g \in Gens : ~Active(g)

(* A one-shot timer runs its task at most once, although the loop flag it  *)
(* reads after the task belongs to the object and not to the thread.       *)
OneShotRunsOnce == \A g \in Gens : ~loop[g] => runs[g] <= 1

(* KillTimer is not immediate (the thread may already be past the          *)
(* predicate) but, unless the flag is cleared under it, the killed         *)
(* generation runs its task at most once more.                             *)
KillLatency == \A g \in killed \ erased : after[g] <= 1

Quiet ==
    /\ \A c \in Callers : pc[c] = "idle"
    /\ \A g \in Gens : tpc[g] \in {"none", "done"}

(* When all threads have ended and nobody is inside a call, m_bTryExpired  *)
(* is set, which makes SetTimer refuse from then on, only if a KillTimer   *)
(* stored it after the generation it tested for had ended.                 *)
StuckOnlyByLateKill == Quiet /\ m_bTryExpired => stray

(* A timer that should end does: a one-shot, and a killed one, though the  *)
(* notification of the kill may come too early.  A kill is lost only to an *)
(* older thread that executes line 82 late.                                *)
TimersEnd ==
    \A g \in Gens :
      /\ (Active(g) /\ ~loop[g]) ~> tpc[g] = "done"
      /\ g \in killed ~> (tpc[g] = "done" \/ g \in erased)

(* What line 102 says of KillTimer: it kills the timer.  The generation    *)
(* that is active when KillTimer stores the flag comes to an end.          *)
KillTimerKills == \A g \in Gens : g \in killed ~> tpc[g] = "done"
==============================================================================
