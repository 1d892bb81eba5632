-------------------------- MODULE PoolProperties --------------------------
(***************************************************************************)
(* What the pool of Pool promises, and that it keeps the contract of       *)
(* PoolContract.                                                           *)
(***************************************************************************)
EXTENDS Pool

Result == [task : 1 .. MaxTasks, failed : BOOLEAN]

\* The variables have their types.
TypeOK ==
  /\ readers \subseteq Submits
  /\ pending \in Stops \cup {NoStop}
  /\ stopped \in BOOLEAN
  /\ submitPc \in [Submits -> {"new", "called", "wait", "collect", "returned", "rejected"}]
  /\ stopPc \in [Stops -> {"new", "called", "returned"}]
  /\ asked \in [Submits -> SUBSET (1 .. MaxTasks)]
  /\ unsent \in [Submits -> SUBSET (1 .. MaxTasks)]
  /\ wg \in [Submits -> SUBSET (1 .. MaxTasks)]
  /\ resultChan \in [Submits -> SUBSET Result]
  /\ results \in [Submits -> SUBSET Result]
  /\ wChan \subseteq Tasks
  /\ job \in [Workers -> Tasks \cup {NoTask}]
  /\ workerPc \in [Workers -> {"receive", "run", "done", "finished"}]
  /\ \A w \in Workers : workerPc[w] \in {"run", "done"} <=> job[w] # NoTask
  /\ panicsLeft \in Nat
  /\ crash \in BOOLEAN

\* Stop never closes the channel under a feeder that still has tasks to send,
\* which would panic: the feeder holds no lock itself, its caller does.
NoSendOnClosedChannel == ~crash /\ (stopped => \A s \in Submits : unsent[s] = {})

\* When Stop has returned, no task is queued, runs or has still to be reported:
\* a rollout under way is waited for, whichever goroutine works on it.
QuietWhenStopped ==
  stopped => wChan = {} /\ \A w \in Workers : workerPc[w] \in {"receive", "finished"}

\* Once wg.Wait has returned, the loop that collects the results never blocks:
\* the result of every task is in the channel before its Done.
CollectNeverBlocks ==
  \A s \in Submits : submitPc[s] = "collect" =>
    {r.task : r \in results[s] \cup resultChan[s]} = asked[s]

\* The contract, with a refinement mapping: a call that has the lock is
\* accepted, and its answer exists when it returns.
status ==
  [s \in Submits |->
     CASE submitPc[s] \in {"new", "called"} -> "idle"
       [] submitPc[s] \in {"wait", "collect"} -> "accepted"
       [] submitPc[s] = "returned" -> "answered"
       [] submitPc[s] = "rejected" -> "rejected"]

answer == [s \in Submits |-> IF submitPc[s] = "returned" THEN results[s] ELSE {}]

Contract == INSTANCE PoolContract

\* The pool implements its contract: every accepted call gets exactly one
\* result per task, and Stop takes effect when no call is under way.
KeepsContract == Contract!Spec

Panicked == panicsLeft < MaxPanics

\* Without a panic, every call of Submit is answered or rejected, even when a
\* Stop waits and however many tasks there are for few workers.
SubmitReturnsUnlessPanic ==
  \A s \in Submits :
    submitPc[s] = "called" ~> submitPc[s] \in {"returned", "rejected"} \/ Panicked

\* Without a panic, Stop returns and every worker ends.
StopEndsWorkersUnlessPanic ==
  \A t \in Stops :
    stopPc[t] = "called" ~> (stopped /\ \A w \in Workers : workerPc[w] = "finished") \/ Panicked

\* A worker recovers from a task that panics: pool.go:147 "panic occurred in
\* worker #%d, recovering".  The calls of Submit should be answered all the same.
SubmitReturns ==
  \A s \in Submits : submitPc[s] = "called" ~> submitPc[s] \in {"returned", "rejected"}
=============================================================================
