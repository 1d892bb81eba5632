------------------------------- MODULE Pool -------------------------------
(***************************************************************************)
(* The fixed-size worker pool that runs rollouts in parallel               *)
(* (exec/pool.go).  Submit holds the pool's lock for reading from its      *)
(* first line to its return, and Stop takes it for writing: that is what   *)
(* keeps the channel of tasks open until the last task has been sent.      *)
(*                                                                         *)
(* Every call of Submit has two goroutines: the caller, and the feeder     *)
(* that sends its tasks to the channel the workers read.  Task i of call s *)
(* is <<s, i>>.  A channel is the set of what is in its buffer: no caller  *)
(* depends on the order in which workers take the tasks and report.        *)
(***************************************************************************)
EXTENDS Naturals, FiniteSets

CONSTANTS
  Submits, Stops,   \* calls of Submit and of Stop
  Workers,          \* the goroutines started by NewFixedPool
  BufferSize,       \* capacity of the channel of tasks
  NoTask, NoStop,   \* a worker without a task; nobody waits for the lock
  MaxTasks,         \* bound on the tasks of one call
  MaxPanics         \* bound on the tasks whose Run panics

ASSUME PoolAssumption ==
  /\ IsFiniteSet(Submits) /\ IsFiniteSet(Workers)
  /\ BufferSize \in Nat /\ MaxTasks \in Nat /\ MaxPanics \in Nat
  /\ NoTask \notin Submits \X (1 .. MaxTasks)
  /\ NoStop \notin Stops

Tasks == Submits \X (1 .. MaxTasks)

VARIABLES
  readers,      \* sync.RWMutex: the calls of Submit that hold it
  pending,      \* the call of Stop that has announced itself as its writer
  stopped,      \* p.stopped; wChan is closed
  submitPc, stopPc,
  asked,        \* asked[s]: the tasks of call s
  unsent,       \* unsent[s]: what is left of the loop of its feeder
  wg,           \* wg[s]: tasks for which Done has not been called yet
  resultChan, results,  \* reported, and received by the caller
  wChan,        \* tasks in the buffer of the channel
  job, workerPc,
  panicsLeft,   \* what the bound leaves
  crash         \* a feeder has sent on the closed channel

lockVars == <<readers, pending, stopped>>
callVars == <<submitPc, stopPc, asked>>
workVars == <<job, workerPc, panicsLeft>>
vars == <<lockVars, callVars, unsent, wg, resultChan, results, wChan, workVars, crash>>

Init ==
  /\ readers = {} /\ pending = NoStop /\ stopped = FALSE
  /\ submitPc = [s \in Submits |-> "new"]
  /\ stopPc = [t \in Stops |-> "new"]
  /\ asked = [s \in Submits |-> {}]
  /\ unsent = [s \in Submits |-> {}]
  /\ wg = [s \in Submits |-> {}]
  /\ resultChan = [s \in Submits |-> {}]
  /\ results = [s \in Submits |-> {}]
  /\ wChan = {}
  /\ job = [w \in Workers |-> NoTask]
  /\ workerPc = [w \in Workers |-> "receive"]
  /\ panicsLeft = MaxPanics
  /\ crash = FALSE

(***************************************************************************)
(* Submit.                                                                 *)
(***************************************************************************)
Call(s) ==
  /\ submitPc[s] = "new"
  /\ submitPc' = [submitPc EXCEPT ![s] = "called"]
  /\ UNCHANGED <<lockVars, stopPc, asked, unsent, wg, resultChan, results, wChan,
                 workVars, crash>>

\* RLock waits for the writer, also for one that is still waiting itself.
CanRLock == pending = NoStop
\* Mutant: the lock is held for the check of p.stopped only.
CheckOnlyMutant(s) == readers

Locked(s) == readers \cup {s}

Accept(s) ==
  /\ submitPc[s] = "called" /\ CanRLock /\ ~stopped
  /\ readers' = Locked(s)
  /\ \E n \in 0 .. MaxTasks :
       /\ asked' = [asked EXCEPT ![s] = 1 .. n]
       /\ unsent' = [unsent EXCEPT ![s] = 1 .. n]
       /\ wg' = [wg EXCEPT ![s] = 1 .. n]
  /\ submitPc' = [submitPc EXCEPT ![s] = "wait"]
  /\ UNCHANGED <<pending, stopped, stopPc, resultChan, results, wChan, workVars, crash>>

Reject(s) ==
  /\ submitPc[s] = "called" /\ CanRLock /\ stopped
  /\ submitPc' = [submitPc EXCEPT ![s] = "rejected"]
  /\ UNCHANGED <<lockVars, stopPc, asked, unsent, wg, resultChan, results, wChan,
                 workVars, crash>>

\* wg.Wait returns.
Waited(s) ==
  /\ submitPc[s] = "wait" /\ wg[s] = {}
  /\ submitPc' = [submitPc EXCEPT ![s] = "collect"]
  /\ UNCHANGED <<lockVars, stopPc, asked, unsent, wg, resultChan, results, wChan,
                 workVars, crash>>

\* Mutant: the loop ends one result too early.
OneLessMutant(s) == Cardinality(results[s]) + 1 >= Cardinality(asked[s])

Collected(s) == Cardinality(results[s]) = Cardinality(asked[s])

Collect(s) ==
  /\ submitPc[s] = "collect" /\ ~Collected(s)
  /\ \E r \in resultChan[s] :
       /\ resultChan' = [resultChan EXCEPT ![s] = @ \ {r}]
       /\ results' = [results EXCEPT ![s] = @ \cup {r}]
  /\ UNCHANGED <<lockVars, callVars, unsent, wg, wChan, workVars, crash>>

Return(s) ==
  /\ submitPc[s] = "collect" /\ Collected(s)
  /\ readers' = readers \ {s}
  /\ submitPc' = [submitPc EXCEPT ![s] = "returned"]
  /\ UNCHANGED <<pending, stopped, stopPc, asked, unsent, wg, resultChan, results,
                 wChan, workVars, crash>>

(***************************************************************************)
(* The feeder of call s sends its next task: into the buffer, or to a      *)
(* worker that waits for one.  A send on the closed channel panics.        *)
(***************************************************************************)
IsNext(s, i) == i \in unsent[s] /\ \A j \in unsent[s] : i <= j

Feed(s, i) ==
  /\ IsNext(s, i) /\ ~stopped
  /\ Cardinality(wChan) < BufferSize
  /\ wChan' = wChan \cup {<<s, i>>}
  /\ unsent' = [unsent EXCEPT ![s] = @ \ {i}]
  /\ UNCHANGED <<lockVars, callVars, wg, resultChan, results, workVars, crash>>

HandOver(s, i, w) ==
  /\ IsNext(s, i) /\ ~stopped
  /\ wChan = {} /\ workerPc[w] = "receive"
  /\ job' = [job EXCEPT ![w] = <<s, i>>]
  /\ workerPc' = [workerPc EXCEPT ![w] = "run"]
  /\ unsent' = [unsent EXCEPT ![s] = @ \ {i}]
  /\ UNCHANGED <<lockVars, callVars, wg, resultChan, results, wChan, panicsLeft, crash>>

FeedClosed(s) ==
  /\ unsent[s] # {} /\ stopped
  /\ crash' = TRUE
  /\ UNCHANGED <<lockVars, callVars, unsent, wg, resultChan, results, wChan, workVars>>

(***************************************************************************)
(* worker.                                                                 *)
(***************************************************************************)
Receive(w) ==
  /\ workerPc[w] = "receive"
  /\ \E t \in wChan : /\ wChan' = wChan \ {t}
                      /\ job' = [job EXCEPT ![w] = t]
  /\ workerPc' = [workerPc EXCEPT ![w] = "run"]
  /\ UNCHANGED <<lockVars, callVars, unsent, wg, resultChan, results, panicsLeft, crash>>

\* Mutant: a task that failed sends no result.
SuccessOnlyMutant(s, r) == IF r.failed THEN resultChan[s] ELSE resultChan[s] \cup {r}

WithResult(s, r) == resultChan[s] \cup {r}

\* Run returns, and its result goes to the channel of its call, which has
\* room for the results of all its tasks.
Report(w) ==
  /\ workerPc[w] = "run"
  /\ LET s == job[w][1] IN
       \E failed \in BOOLEAN :
         resultChan' = [resultChan EXCEPT ![s] =
                          WithResult(s, [task |-> job[w][2], failed |-> failed])]
  /\ workerPc' = [workerPc EXCEPT ![w] = "done"]
  /\ UNCHANGED <<lockVars, callVars, unsent, wg, results, wChan, job, panicsLeft, crash>>

\* Mutant: the worker that starts over keeps the task it failed on.
KeepsJobMutant(w) == job

Dropped(w) == [job EXCEPT ![w] = NoTask]

\* Run panics: worker recovers and starts over, without a result and without
\* the call of wg.Done.
Panic(w) ==
  /\ workerPc[w] = "run"
  /\ panicsLeft > 0 /\ panicsLeft' = panicsLeft - 1
  /\ job' = Dropped(w)
  /\ workerPc' = [workerPc EXCEPT ![w] = "receive"]
  /\ UNCHANGED <<lockVars, callVars, unsent, wg, resultChan, results, wChan, crash>>

\* Mutant: Done is forgotten.
NeverDoneMutant(s, i) == wg[s]

DoneWith(s, i) == wg[s] \ {i}

Done(w) ==
  /\ workerPc[w] = "done"
  /\ wg' = [wg EXCEPT ![job[w][1]] = DoneWith(job[w][1], job[w][2])]
  /\ job' = Dropped(w)
  /\ workerPc' = [workerPc EXCEPT ![w] = "receive"]
  /\ UNCHANGED <<lockVars, callVars, unsent, resultChan, results, wChan, panicsLeft,
                 crash>>

\* Mutant: Stop leaves the channel open.
NeverClosedMutant == FALSE

Closed == stopped

\* The range over the channel ends when it is closed and drained.
Finish(w) ==
  /\ workerPc[w] = "receive" /\ Closed /\ wChan = {}
  /\ workerPc' = [workerPc EXCEPT ![w] = "finished"]
  /\ UNCHANGED <<lockVars, callVars, unsent, wg, resultChan, results, wChan, job,
                 panicsLeft, crash>>

(***************************************************************************)
(* Stop.                                                                   *)
(***************************************************************************)
\* Lock: no further reader gets in from here on.
StopBegin(t) ==
  /\ stopPc[t] = "new" /\ pending = NoStop
  /\ pending' = t
  /\ stopPc' = [stopPc EXCEPT ![t] = "called"]
  /\ UNCHANGED <<readers, stopped, submitPc, asked, unsent, wg, resultChan, results,
                 wChan, workVars, crash>>

\* Mutant: Stop does not wait for the readers.
NoWaitMutant == TRUE

NoReaders == readers = {}

\* The lock is held: set p.stopped, close the channel, unlock.  A second call
\* finds p.stopped set and does not close again.
StopEnd(t) ==
  /\ stopPc[t] = "called" /\ NoReaders
  /\ stopped' = TRUE
  /\ pending' = NoStop
  /\ stopPc' = [stopPc EXCEPT ![t] = "returned"]
  /\ UNCHANGED <<readers, submitPc, asked, unsent, wg, resultChan, results, wChan,
                 workVars, crash>>

-----------------------------------------------------------------------------
Caller(s) == Accept(s) \/ Reject(s) \/ Waited(s) \/ Collect(s) \/ Return(s)

Feeder(s) ==
  \/ \E i \in 1 .. MaxTasks : Feed(s, i) \/ \E w \in Workers : HandOver(s, i, w)
  \/ FeedClosed(s)

Worker(w) == Receive(w) \/ Report(w) \/ Done(w) \/ Finish(w)

Next ==
  /\ ~crash
  /\ \/ \E s \in Submits : Call(s) \/ Caller(s) \/ Feeder(s)
     \/ \E w \in Workers : Worker(w) \/ Panic(w)
     \/ \E t \in Stops : StopBegin(t) \/ StopEnd(t)

Spec == Init /\ [][Next]_vars

\* Goroutines that can run do run, and the lock starves nobody.
Fairness ==
  /\ \A s \in Submits : WF_vars(~crash /\ Caller(s)) /\ WF_vars(~crash /\ Feeder(s))
  /\ \A w \in Workers : WF_vars(~crash /\ Worker(w))
  /\ \A t \in Stops : WF_vars(~crash /\ StopEnd(t))

FairSpec == Spec /\ Fairness
=============================================================================
