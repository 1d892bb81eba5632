----------------------------- MODULE PoolProofs -----------------------------
(***************************************************************************)
(* Theorems about Pool, for any number of calls, workers, tasks and        *)
(* panics and any size of the buffer.                                      *)
(***************************************************************************)
EXTENDS PoolProperties, FiniteSetTheorems, TLAPS

-----------------------------------------------------------------------------
(***************************************************************************)
(* Type correctness.                                                       *)
(***************************************************************************)
LEMMA InitTypeOK == Init => TypeOK
  <1> SUFFICES ASSUME Init PROVE TypeOK
    OBVIOUS
  <1>1. /\ readers \subseteq Submits /\ pending \in Stops \cup {NoStop}
        /\ stopped \in BOOLEAN /\ wChan \subseteq Tasks
        /\ panicsLeft \in Nat /\ crash \in BOOLEAN
    BY PoolAssumption DEF Init
  <1>2. /\ submitPc \in
             [Submits -> {"new", "called", "wait", "collect", "returned", "rejected"}]
        /\ stopPc \in [Stops -> {"new", "called", "returned"}]
    BY DEF Init
  <1>3. /\ asked \in [Submits -> SUBSET (1 .. MaxTasks)]
        /\ unsent \in [Submits -> SUBSET (1 .. MaxTasks)]
        /\ wg \in [Submits -> SUBSET (1 .. MaxTasks)]
        /\ resultChan \in [Submits -> SUBSET Result]
        /\ results \in [Submits -> SUBSET Result]
    BY DEF Init
  <1>4. /\ job \in [Workers -> Tasks \cup {NoTask}]
        /\ workerPc \in [Workers -> {"receive", "run", "done", "finished"}]
        /\ \A w \in Workers : workerPc[w] \in {"run", "done"} <=> job[w] # NoTask
    BY DEF Init
  <1> QED  BY <1>1, <1>2, <1>3, <1>4 DEF TypeOK

\* What a worker works on is a task.
LEMMA JobType ==
  ASSUME TypeOK, NEW w \in Workers, workerPc[w] \in {"run", "done"}
  PROVE  job[w] \in Tasks /\ job[w][1] \in Submits /\ job[w][2] \in 1 .. MaxTasks
         /\ job[w] = <<job[w][1], job[w][2]>>
  BY DEF TypeOK, Tasks

LEMMA CallerTypeOK ==
  ASSUME TypeOK, NEW s \in Submits, Call(s) \/ Caller(s) PROVE TypeOK'
  <1>1. CASE Call(s)
    BY <1>1 DEF Call, TypeOK, lockVars, workVars
  <1>2. CASE Accept(s)
    <2>1. PICK n \in 0 .. MaxTasks :
            /\ asked' = [asked EXCEPT ![s] = 1 .. n]
            /\ unsent' = [unsent EXCEPT ![s] = 1 .. n]
            /\ wg' = [wg EXCEPT ![s] = 1 .. n]
      BY <1>2 DEF Accept
    <2>2. 1 .. n \in SUBSET (1 .. MaxTasks)
      BY PoolAssumption
    <2> QED  BY <1>2, <2>1, <2>2 DEF Accept, Locked, TypeOK, workVars
  <1>3. CASE Reject(s) \/ Waited(s)
    BY <1>3 DEF Reject, Waited, TypeOK, lockVars, workVars
  <1>4. CASE Collect(s)
    <2>1. PICK r \in resultChan[s] :
            /\ resultChan' = [resultChan EXCEPT ![s] = @ \ {r}]
            /\ results' = [results EXCEPT ![s] = @ \cup {r}]
      BY <1>4 DEF Collect
    <2>2. r \in Result
      BY DEF TypeOK
    <2> QED
      BY <1>4, <2>1, <2>2 DEF Collect, TypeOK, lockVars, callVars, workVars
  <1>5. CASE Return(s)
    BY <1>5 DEF Return, TypeOK, workVars
  <1> QED  BY <1>1, <1>2, <1>3, <1>4, <1>5 DEF Caller

LEMMA FeederTypeOK ==
  ASSUME TypeOK, NEW s \in Submits, Feeder(s) PROVE TypeOK'
  <1>1. ASSUME NEW i \in 1 .. MaxTasks, Feed(s, i) PROVE TypeOK'
    BY <1>1 DEF Feed, Tasks, TypeOK, lockVars, callVars, workVars
  <1>2. ASSUME NEW i \in 1 .. MaxTasks, NEW w \in Workers, HandOver(s, i, w) PROVE TypeOK'
    <2>1. <<s, i>> \in Tasks /\ <<s, i>> # NoTask
      BY PoolAssumption DEF Tasks
    <2> QED  BY <1>2, <2>1 DEF HandOver, TypeOK, lockVars, callVars
  <1>3. CASE FeedClosed(s)
    BY <1>3 DEF FeedClosed, TypeOK, lockVars, callVars, workVars
  <1> QED  BY <1>1, <1>2, <1>3 DEF Feeder

LEMMA WorkerTypeOK ==
  ASSUME TypeOK, NEW w \in Workers, Worker(w) \/ Panic(w) PROVE TypeOK'
  <1>1. CASE Receive(w)
    <2>1. PICK t \in wChan : wChan' = wChan \ {t} /\ job' = [job EXCEPT ![w] = t]
      BY <1>1 DEF Receive
    <2>2. t \in Tasks /\ t # NoTask
      BY PoolAssumption DEF TypeOK, Tasks
    <2> QED  BY <1>1, <2>1, <2>2 DEF Receive, TypeOK, lockVars, callVars
  <1>2. CASE Report(w)
    <2>1. PICK failed \in BOOLEAN :
            resultChan' = [resultChan EXCEPT ![job[w][1]] =
              WithResult(job[w][1], [task |-> job[w][2], failed |-> failed])]
      BY <1>2 DEF Report
    <2>2. [task |-> job[w][2], failed |-> failed] \in Result
      BY <1>2, JobType DEF Report, Result
    <2>3. resultChan' \in [Submits -> SUBSET Result]
      BY <1>2, JobType, <2>1, <2>2 DEF Report, WithResult, TypeOK
    <2> QED  BY <1>2, <2>3 DEF Report, TypeOK, lockVars, callVars
  <1>3. CASE Panic(w)
    BY <1>3 DEF Panic, Dropped, TypeOK, lockVars, callVars
  <1>4. CASE Done(w)
    <2>1. wg' \in [Submits -> SUBSET (1 .. MaxTasks)]
      BY <1>4, JobType DEF Done, DoneWith, TypeOK
    <2> QED  BY <1>4, <2>1 DEF Done, Dropped, TypeOK, lockVars, callVars
  <1>5. CASE Finish(w)
    BY <1>5 DEF Finish, TypeOK, lockVars, callVars
  <1> QED  BY <1>1, <1>2, <1>3, <1>4, <1>5 DEF Worker

LEMMA NextTypeOK == TypeOK /\ [Next]_vars => TypeOK'
  <1>0. SUFFICES ASSUME TypeOK, [Next]_vars PROVE TypeOK'
    OBVIOUS
  <1>1. CASE UNCHANGED vars
    BY <1>0, <1>1 DEF vars, lockVars, callVars, workVars, TypeOK
  <1>2. ASSUME NEW t \in Stops, StopBegin(t) \/ StopEnd(t) PROVE TypeOK'
    BY <1>0, <1>2 DEF StopBegin, StopEnd, TypeOK, workVars
  <1> QED
    BY <1>0, <1>1, <1>2, CallerTypeOK, FeederTypeOK, WorkerTypeOK DEF Next

\* Every variable keeps its type.
THEOREM TypeCorrect == Spec => []TypeOK
  BY InitTypeOK, NextTypeOK, PTL DEF Spec

-----------------------------------------------------------------------------
(***************************************************************************)
(* Where a task is: with the feeder, in the channel, with one worker, or   *)
(* answered.  A task that has left the wait group is answered.             *)
(***************************************************************************)
Answers(s) == results[s] \cup resultChan[s]
Answered(s, i) == \E r \in Answers(s) : r.task = i

Sent ==
  \A s \in Submits, i \in 1 .. MaxTasks :
    /\ i \in unsent[s] => i \in wg[s] /\ <<s, i>> \notin wChan /\ ~Answered(s, i)
    /\ <<s, i>> \in wChan => i \in wg[s] /\ ~Answered(s, i)

Working ==
  \A s \in Submits, i \in 1 .. MaxTasks, w \in Workers :
    job[w] = <<s, i>> =>
      /\ i \in wg[s] /\ i \notin unsent[s] /\ <<s, i>> \notin wChan
      /\ Answered(s, i) <=> workerPc[w] = "done"
      /\ \A x \in Workers : job[x] = <<s, i>> => x = w

Counted ==
  \A s \in Submits, i \in 1 .. MaxTasks :
    /\ i \in wg[s] => i \in asked[s]
    /\ Answered(s, i) => i \in asked[s]
    /\ i \in asked[s] /\ i \notin wg[s] => Answered(s, i)

Once ==
  \A s \in Submits :
    /\ \A q, r \in Answers(s) : q.task = r.task => q = r
    /\ results[s] \cap resultChan[s] = {}

\* The phases of a call of Submit, and the lock.
Phases ==
  /\ \A s \in Submits : s \in readers <=> submitPc[s] \in {"wait", "collect"}
  /\ \A s \in Submits : submitPc[s] # "wait" => wg[s] = {}
  /\ \A s \in Submits : submitPc[s] \in {"new", "called", "rejected"} => asked[s] = {}
  /\ \A s \in Submits : submitPc[s] = "returned" => Collected(s)
  /\ stopped => readers = {}
  /\ ~crash

PoolInv == TypeOK /\ Sent /\ Working /\ Counted /\ Once /\ Phases

LEMMA InitPoolInv == Init => PoolInv
  <1> SUFFICES ASSUME Init PROVE PoolInv
    OBVIOUS
  <1>1. TypeOK  BY InitTypeOK
  <1>2. Sent  BY DEF Init, Sent, Answered, Answers
  <1>3. Working
    <2>1. \A s \in Submits, i \in 1 .. MaxTasks : <<s, i>> # NoTask
      BY PoolAssumption
    <2> QED  BY <2>1 DEF Init, Working
  <1>4. Counted  BY DEF Init, Counted, Answered, Answers
  <1>5. Once  BY DEF Init, Once, Answers
  <1>6. Phases  BY DEF Init, Phases
  <1> QED  BY <1>1, <1>2, <1>3, <1>4, <1>5, <1>6 DEF PoolInv

\* Only the record of the call s changes, and nothing a worker or a feeder
\* looks at.
LEMMA CallStep ==
  ASSUME PoolInv, NEW s \in Submits, Call(s) \/ Reject(s) \/ Waited(s) PROVE PoolInv'
  <1>1. TypeOK'  BY CallerTypeOK DEF PoolInv, Caller
  <1>2. UNCHANGED <<asked, unsent, wg, resultChan, results, wChan, job, workerPc, readers,
                    stopped, crash>>
    BY DEF Call, Reject, Waited, lockVars, workVars
  <1>3. Sent' /\ Working' /\ Counted' /\ Once'
    BY <1>2 DEF PoolInv, Sent, Working, Counted, Once, Answered, Answers
  <1>4. Phases'
    <2>1. submitPc \in
            [Submits -> {"new", "called", "wait", "collect", "returned", "rejected"}]
      BY DEF PoolInv, TypeOK
    <2>2. CASE Call(s)
      BY <1>2, <2>1, <2>2 DEF Call, PoolInv, Phases, Collected
    <2>3. CASE Reject(s)
      BY <1>2, <2>1, <2>3 DEF Reject, PoolInv, Phases, Collected
    <2>4. CASE Waited(s)
      BY <1>2, <2>1, <2>4 DEF Waited, PoolInv, Phases, Collected
    <2> QED  BY <2>2, <2>3, <2>4
  <1> QED  BY <1>1, <1>3, <1>4 DEF PoolInv

LEMMA AcceptStep ==
  ASSUME PoolInv, NEW s \in Submits, Accept(s) PROVE PoolInv'
  <1>1. TypeOK'  BY CallerTypeOK DEF PoolInv, Caller
  <1>2. PICK n \in 0 .. MaxTasks :
          /\ asked' = [asked EXCEPT ![s] = 1 .. n]
          /\ unsent' = [unsent EXCEPT ![s] = 1 .. n]
          /\ wg' = [wg EXCEPT ![s] = 1 .. n]
    BY DEF Accept
  <1>3. /\ UNCHANGED <<resultChan, results, wChan, job, workerPc, stopped, crash>>
        /\ readers' = readers \cup {s} /\ ~stopped
        /\ submitPc' = [submitPc EXCEPT ![s] = "wait"] /\ submitPc[s] = "called"
    BY DEF Accept, workVars, Locked
  <1>t. /\ asked \in [Submits -> SUBSET (1 .. MaxTasks)]
        /\ unsent \in [Submits -> SUBSET (1 .. MaxTasks)]
        /\ wg \in [Submits -> SUBSET (1 .. MaxTasks)]
        /\ submitPc \in
             [Submits -> {"new", "called", "wait", "collect", "returned", "rejected"}]
    BY DEF PoolInv, TypeOK
  <1>a. asked[s] = {} /\ wg[s] = {}
    BY <1>3 DEF PoolInv, Phases
  <1>b. unsent[s] = {}
    <2>1. \A i \in 1 .. MaxTasks : i \notin unsent[s]
      BY <1>a DEF PoolInv, Sent
    <2> QED  BY <2>1, <1>t
  <1>c. \A i \in 1 .. MaxTasks : ~Answered(s, i)
    BY <1>a DEF PoolInv, Counted
  <1>d. \A i \in 1 .. MaxTasks : <<s, i>> \notin wChan
    BY <1>a DEF PoolInv, Sent
  <1>e. \A i \in 1 .. MaxTasks, w \in Workers : job[w] # <<s, i>>
    BY <1>a DEF PoolInv, Working
  <1>4. /\ asked[s] = {} /\ wg[s] = {} /\ unsent[s] = {}
        /\ \A i \in 1 .. MaxTasks : ~Answered(s, i) /\ <<s, i>> \notin wChan
        /\ \A i \in 1 .. MaxTasks, w \in Workers : job[w] # <<s, i>>
    BY <1>a, <1>b, <1>c, <1>d, <1>e
  <1>5. \A q \in Submits, i \in 1 .. MaxTasks : Answered(q, i)' <=> Answered(q, i)
    BY <1>3 DEF Answered, Answers
  <1>6. \A q \in Submits \ {s} : asked'[q] = asked[q] /\ unsent'[q] = unsent[q] /\ wg'[q] = wg[q]
    BY <1>2, <1>t
  <1>7. asked'[s] = 1 .. n /\ unsent'[s] = 1 .. n /\ wg'[s] = 1 .. n
    BY <1>2, <1>t
  <1>8. Sent'
    BY <1>3, <1>4, <1>5, <1>6, <1>7 DEF PoolInv, Sent
  <1>9. Working'
    BY <1>3, <1>4, <1>5, <1>6, <1>7 DEF PoolInv, Working
  <1>10. Counted'
    BY <1>3, <1>4, <1>5, <1>6, <1>7 DEF PoolInv, Counted
  <1>11. Once'
    BY <1>3 DEF PoolInv, Once, Answers
  <1>12. Phases'
    BY <1>3, <1>6, <1>t DEF PoolInv, Phases, Collected
  <1> QED  BY <1>1, <1>8, <1>9, <1>10, <1>11, <1>12 DEF PoolInv

LEMMA CollectStep ==
  ASSUME PoolInv, NEW s \in Submits, Collect(s) PROVE PoolInv'
  <1>1. TypeOK'  BY CallerTypeOK DEF PoolInv, Caller
  <1>2. PICK r \in resultChan[s] :
          /\ resultChan' = [resultChan EXCEPT ![s] = @ \ {r}]
          /\ results' = [results EXCEPT ![s] = @ \cup {r}]
    BY DEF Collect
  <1>3. UNCHANGED <<asked, unsent, wg, wChan, job, workerPc, readers, submitPc, stopped,
                    crash>>
        /\ submitPc[s] = "collect"
    BY DEF Collect, lockVars, callVars, workVars
  <1>t. /\ resultChan \in [Submits -> SUBSET Result]
        /\ results \in [Submits -> SUBSET Result]
    BY DEF PoolInv, TypeOK
  <1>4. \A q \in Submits : Answers(q)' = Answers(q)
    BY <1>2, <1>t DEF Answers
  <1>5. \A q \in Submits, i \in 1 .. MaxTasks : Answered(q, i)' <=> Answered(q, i)
    BY <1>4 DEF Answered
  <1>6. Sent' /\ Working' /\ Counted'
    BY <1>3, <1>5 DEF PoolInv, Sent, Working, Counted
  <1>7. Once'
    BY <1>2, <1>4, <1>t DEF PoolInv, Once
  <1>8. Phases'
    BY <1>2, <1>3, <1>t DEF PoolInv, Phases, Collected
  <1> QED  BY <1>1, <1>6, <1>7, <1>8 DEF PoolInv

LEMMA ReturnStep ==
  ASSUME PoolInv, NEW s \in Submits, Return(s) PROVE PoolInv'
  <1>1. TypeOK'  BY CallerTypeOK DEF PoolInv, Caller
  <1>2. /\ UNCHANGED <<asked, unsent, wg, resultChan, results, wChan, job, workerPc,
                       stopped, crash>>
        /\ readers' = readers \ {s} /\ submitPc[s] = "collect" /\ Collected(s)
        /\ submitPc' = [submitPc EXCEPT ![s] = "returned"]
    BY DEF Return, workVars
  <1>3. Sent' /\ Working' /\ Counted' /\ Once'
    BY <1>2 DEF PoolInv, Sent, Working, Counted, Once, Answered, Answers
  <1>4. submitPc \in
          [Submits -> {"new", "called", "wait", "collect", "returned", "rejected"}]
    BY DEF PoolInv, TypeOK
  <1>5. Phases'
    BY <1>2, <1>4 DEF PoolInv, Phases, Collected
  <1> QED  BY <1>1, <1>3, <1>5 DEF PoolInv

LEMMA FeederStep ==
  ASSUME PoolInv, NEW s \in Submits, Feeder(s) PROVE PoolInv'
  <1>1. TypeOK'  BY FeederTypeOK DEF PoolInv
  <1>t. unsent \in [Submits -> SUBSET (1 .. MaxTasks)]
        /\ job \in [Workers -> Tasks \cup {NoTask}]
        /\ workerPc \in [Workers -> {"receive", "run", "done", "finished"}]
        /\ \A w \in Workers : workerPc[w] \in {"run", "done"} <=> job[w] # NoTask
    BY DEF PoolInv, TypeOK
  <1>2. ASSUME NEW i \in 1 .. MaxTasks, Feed(s, i) PROVE PoolInv'
    <2>1. /\ UNCHANGED <<asked, wg, resultChan, results, job, workerPc, readers, submitPc,
                         stopped, crash>>
          /\ i \in unsent[s] /\ wChan' = wChan \cup {<<s, i>>}
          /\ unsent' = [unsent EXCEPT ![s] = @ \ {i}]
      BY <1>2 DEF Feed, IsNext, lockVars, callVars, workVars
    <2>2. \A q \in Submits, j \in 1 .. MaxTasks : Answered(q, j)' <=> Answered(q, j)
      BY <2>1 DEF Answered, Answers
    <2>3. Sent'
      BY <1>t, <2>1, <2>2 DEF PoolInv, Sent
    <2>4. Working'
      BY <1>t, <2>1, <2>2 DEF PoolInv, Working
    <2>5. Counted' /\ Once' /\ Phases'
      BY <2>1, <2>2 DEF PoolInv, Counted, Once, Phases, Answers, Collected
    <2> QED  BY <1>1, <2>3, <2>4, <2>5 DEF PoolInv
  <1>3. ASSUME NEW i \in 1 .. MaxTasks, NEW w \in Workers, HandOver(s, i, w) PROVE PoolInv'
    <2>1. /\ UNCHANGED <<asked, wg, resultChan, results, wChan, readers, submitPc, stopped,
                         crash>>
          /\ i \in unsent[s] /\ wChan = {} /\ job' = [job EXCEPT ![w] = <<s, i>>]
          /\ workerPc' = [workerPc EXCEPT ![w] = "run"] /\ workerPc[w] = "receive"
          /\ unsent' = [unsent EXCEPT ![s] = @ \ {i}]
      BY <1>3 DEF HandOver, IsNext, lockVars, callVars
    <2>2. \A q \in Submits, j \in 1 .. MaxTasks : Answered(q, j)' <=> Answered(q, j)
      BY <2>1 DEF Answered, Answers
    <2>3. Sent'
      BY <1>t, <2>1, <2>2 DEF PoolInv, Sent
    <2>4. Working'
      BY <1>t, <2>1, <2>2 DEF PoolInv, Working, Sent
    <2>5. Counted' /\ Once' /\ Phases'
      BY <2>1, <2>2 DEF PoolInv, Counted, Once, Phases, Answers, Collected
    <2> QED  BY <1>1, <2>3, <2>4, <2>5 DEF PoolInv
  <1>4. ASSUME FeedClosed(s) PROVE FALSE
    <2>1. PICK i \in unsent[s] : TRUE
      BY <1>4 DEF FeedClosed
    <2>2. i \in wg[s]
      BY <1>t, <2>1 DEF PoolInv, Sent
    <2> QED  BY <1>4, <2>2 DEF FeedClosed, PoolInv, Phases
  <1> QED  BY <1>2, <1>3, <1>4 DEF Feeder

LEMMA ReceiveStep ==
  ASSUME PoolInv, NEW w \in Workers, Receive(w) PROVE PoolInv'
  <1>1. TypeOK'  BY WorkerTypeOK DEF PoolInv, Worker
  <1>t. /\ job \in [Workers -> Tasks \cup {NoTask}] /\ wChan \subseteq Tasks
        /\ workerPc \in [Workers -> {"receive", "run", "done", "finished"}]
    BY DEF PoolInv, TypeOK
  <1>2. PICK t \in wChan : wChan' = wChan \ {t} /\ job' = [job EXCEPT ![w] = t]
    BY DEF Receive
  <1>3. /\ UNCHANGED <<asked, unsent, wg, resultChan, results, readers, submitPc, stopped,
                       crash>>
        /\ workerPc' = [workerPc EXCEPT ![w] = "run"]
    BY DEF Receive, lockVars, callVars
  <1>4. \A q \in Submits, j \in 1 .. MaxTasks : Answered(q, j)' <=> Answered(q, j)
    BY <1>3 DEF Answered, Answers
  <1>5. Sent'
    BY <1>2, <1>3, <1>4 DEF PoolInv, Sent
  <1>6. Working'
    BY <1>t, <1>2, <1>3, <1>4 DEF PoolInv, Working, Sent
  <1>7. Counted' /\ Once' /\ Phases'
    BY <1>3, <1>4 DEF PoolInv, Counted, Once, Phases, Answers, Collected
  <1> QED  BY <1>1, <1>5, <1>6, <1>7 DEF PoolInv

LEMMA ReportStep ==
  ASSUME PoolInv, NEW w \in Workers, Report(w) PROVE PoolInv'
  <1>1. TypeOK'  BY WorkerTypeOK DEF PoolInv, Worker
  <1>j. PICK s \in Submits, i \in 1 .. MaxTasks : job[w] = <<s, i>>
    BY JobType DEF Report, PoolInv
  <1>2. PICK failed \in BOOLEAN :
          resultChan' = [resultChan EXCEPT ![s] =
            resultChan[s] \cup {[task |-> i, failed |-> failed]}]
    <2>1. job[w][1] = s /\ job[w][2] = i
      BY <1>j
    <2> QED  BY <2>1 DEF Report, WithResult
  <1>3. /\ UNCHANGED <<asked, unsent, wg, results, wChan, job, readers, submitPc, stopped,
                       crash>>
        /\ workerPc[w] = "run" /\ workerPc' = [workerPc EXCEPT ![w] = "done"]
    BY DEF Report, lockVars, callVars
  <1>t. /\ resultChan \in [Submits -> SUBSET Result]
        /\ results \in [Submits -> SUBSET Result]
        /\ workerPc \in [Workers -> {"receive", "run", "done", "finished"}]
    BY DEF PoolInv, TypeOK
  <1>4. i \in wg[s] /\ i \notin unsent[s] /\ <<s, i>> \notin wChan /\ ~Answered(s, i)
        /\ \A x \in Workers : job[x] = <<s, i>> => x = w
    BY <1>j, <1>3 DEF PoolInv, Working
  <1>5. \A q \in Submits \ {s} : Answers(q)' = Answers(q)
    BY <1>j, <1>2, <1>3, <1>t DEF Answers
  <1>6. Answers(s)' = Answers(s) \cup {[task |-> i, failed |-> failed]}
    BY <1>j, <1>2, <1>3, <1>t DEF Answers
  <1>7. \A q \in Submits, j \in 1 .. MaxTasks :
          Answered(q, j)' <=> (Answered(q, j) \/ (q = s /\ j = i))
    <2>1. ASSUME NEW q \in Submits \ {s}, NEW j \in 1 .. MaxTasks
          PROVE  Answered(q, j)' <=> Answered(q, j)
      BY <1>5 DEF Answered
    <2>2. ASSUME NEW j \in 1 .. MaxTasks
          PROVE  Answered(s, j)' <=> (Answered(s, j) \/ j = i)
      <3>1. \A S, r : (\E x \in S \cup {r} : x.task = j) <=> (\E x \in S : x.task = j) \/ r.task = j
        OBVIOUS
      <3>2. [task |-> i, failed |-> failed].task = i
        OBVIOUS
      <3>3. Answered(s, j)' <=> \E x \in Answers(s) \cup {[task |-> i, failed |-> failed]} : x.task = j
        BY <1>6 DEF Answered
      <3> QED  BY <3>1, <3>2, <3>3 DEF Answered
    <2> QED  BY <2>1, <2>2
  <1>8. Sent'
    BY <1>3, <1>4, <1>7 DEF PoolInv, Sent
  <1>9. Working'
    BY <1>j, <1>t, <1>3, <1>4, <1>7 DEF PoolInv, Working
  <1>10. Counted'
    BY <1>3, <1>4, <1>7 DEF PoolInv, Counted
  <1>11. Once'
    BY <1>j, <1>t, <1>2, <1>3, <1>4, <1>5, <1>6 DEF PoolInv, Once, Answered, Answers
  <1>12. Phases'
    BY <1>3 DEF PoolInv, Phases, Collected
  <1> QED  BY <1>1, <1>8, <1>9, <1>10, <1>11, <1>12 DEF PoolInv

\* The worker lets its task go, with or without the call of wg.Done.
LEMMA DoneStep ==
  ASSUME PoolInv, NEW w \in Workers, Done(w) \/ Panic(w) PROVE PoolInv'
  <1>1. TypeOK'  BY WorkerTypeOK DEF PoolInv, Worker
  <1>j. PICK s \in Submits, i \in 1 .. MaxTasks : job[w] = <<s, i>>
    BY JobType DEF Done, Panic, PoolInv
  <1>2. /\ UNCHANGED <<asked, unsent, resultChan, results, wChan, readers, submitPc,
                       stopped, crash>>
        /\ workerPc' = [workerPc EXCEPT ![w] = "receive"]
        /\ job' = [job EXCEPT ![w] = NoTask]
        /\ \/ UNCHANGED wg
           \/ workerPc[w] = "done" /\ wg' = [wg EXCEPT ![s] = wg[s] \ {i}]
    BY <1>j DEF Done, Panic, Dropped, DoneWith, lockVars, callVars
  <1>t. /\ job \in [Workers -> Tasks \cup {NoTask}]
        /\ wg \in [Submits -> SUBSET (1 .. MaxTasks)]
        /\ workerPc \in [Workers -> {"receive", "run", "done", "finished"}]
    BY DEF PoolInv, TypeOK
  <1>3. /\ i \notin unsent[s] /\ <<s, i>> \notin wChan
        /\ Answered(s, i) <=> workerPc[w] = "done"
        /\ \A x \in Workers : job[x] = <<s, i>> => x = w
    BY <1>j DEF PoolInv, Working
  <1>4. \A q \in Submits, j \in 1 .. MaxTasks : Answered(q, j)' <=> Answered(q, j)
    BY <1>2 DEF Answered, Answers
  <1>5. \A q \in Submits, j \in 1 .. MaxTasks :
          j \in wg'[q] <=> j \in wg[q] /\ (UNCHANGED wg \/ <<q, j>> # <<s, i>>)
    BY <1>j, <1>t, <1>2
  <1>6. Sent'
    BY <1>2, <1>3, <1>4, <1>5 DEF PoolInv, Sent
  <1>7. Working'
    <2>1. \A q \in Submits, j \in 1 .. MaxTasks : <<q, j>> # NoTask
      BY PoolAssumption
    <2>2. \A x \in Workers \ {w} : job'[x] = job[x] /\ workerPc'[x] = workerPc[x]
      BY <1>2, <1>t
    <2>3. job'[w] = NoTask
      BY <1>2, <1>t
    <2> QED  BY <1>j, <1>2, <1>3, <1>4, <1>5, <2>1, <2>2, <2>3 DEF PoolInv, Working
  <1>8. Counted'
    BY <1>j, <1>2, <1>3, <1>4, <1>5 DEF PoolInv, Counted
  <1>9. Once' /\ Phases'
    BY <1>j, <1>t, <1>2 DEF PoolInv, Once, Phases, Answers, Collected
  <1> QED  BY <1>1, <1>6, <1>7, <1>8, <1>9 DEF PoolInv

LEMMA FinishStep ==
  ASSUME PoolInv, NEW w \in Workers, Finish(w) PROVE PoolInv'
  <1>1. TypeOK'  BY WorkerTypeOK DEF PoolInv, Worker
  <1>2. /\ UNCHANGED <<asked, unsent, wg, resultChan, results, wChan, job, readers,
                       submitPc, stopped, crash>>
        /\ workerPc[w] = "receive" /\ workerPc' = [workerPc EXCEPT ![w] = "finished"]
    BY DEF Finish, lockVars, callVars
  <1>3. \A x \in Workers : workerPc'[x] = "done" <=> workerPc[x] = "done"
    BY <1>2 DEF PoolInv, TypeOK
  <1>4. Sent' /\ Counted' /\ Once' /\ Phases'
    BY <1>2 DEF PoolInv, Sent, Counted, Once, Phases, Answered, Answers, Collected
  <1>5. Working'
    BY <1>2, <1>3 DEF PoolInv, Working, Answered, Answers
  <1> QED  BY <1>1, <1>4, <1>5 DEF PoolInv

LEMMA StopStep ==
  ASSUME PoolInv, NEW t \in Stops, StopBegin(t) \/ StopEnd(t) PROVE PoolInv'
  <1>1. TypeOK'
    BY DEF StopBegin, StopEnd, PoolInv, TypeOK, workVars
  <1>2. /\ UNCHANGED <<asked, unsent, wg, resultChan, results, wChan, job, workerPc,
                       readers, submitPc, crash>>
        /\ stopped' = stopped \/ readers = {}
    BY DEF StopBegin, StopEnd, NoReaders, workVars
  <1>3. Sent' /\ Working' /\ Counted' /\ Once'
    BY <1>2 DEF PoolInv, Sent, Working, Counted, Once, Answered, Answers
  <1>4. Phases'
    BY <1>2 DEF PoolInv, Phases, Collected
  <1> QED  BY <1>1, <1>3, <1>4 DEF PoolInv

LEMMA NextPoolInv == PoolInv /\ [Next]_vars => PoolInv'
  <1>0. SUFFICES ASSUME PoolInv, [Next]_vars PROVE PoolInv'
    OBVIOUS
  <1>1. CASE UNCHANGED vars
    <2>1. TypeOK'
      BY <1>0, NextTypeOK DEF PoolInv
    <2>2. UNCHANGED <<asked, unsent, wg, resultChan, results, wChan, job, workerPc,
                      readers, submitPc, stopped, crash>>
      BY <1>1 DEF vars, lockVars, callVars, workVars
    <2> QED
      BY <1>0, <2>1, <2>2 DEF PoolInv, Sent, Working, Counted, Once, Phases, Answered,
         Answers, Collected
  <1>2. ASSUME NEW s \in Submits, Call(s) \/ Caller(s) \/ Feeder(s) PROVE PoolInv'
    BY <1>0, <1>2, CallStep, AcceptStep, CollectStep, ReturnStep, FeederStep DEF Caller
  <1>3. ASSUME NEW w \in Workers, Worker(w) \/ Panic(w) PROVE PoolInv'
    BY <1>0, <1>3, ReceiveStep, ReportStep, DoneStep, FinishStep DEF Worker
  <1>4. ASSUME NEW t \in Stops, StopBegin(t) \/ StopEnd(t) PROVE PoolInv'
    BY <1>0, <1>4, StopStep
  <1> QED  BY <1>0, <1>1, <1>2, <1>3, <1>4 DEF Next

LEMMA Invariance == Spec => []PoolInv
  BY InitPoolInv, NextPoolInv, PTL DEF Spec

\* Submit holds the read lock until its last task is done, so the channel is
\* closed (pool.go:134) only after every feeder has sent everything.
THEOREM NoSendOnClosed == Spec => []NoSendOnClosedChannel
  <1>1. PoolInv => NoSendOnClosedChannel
    BY DEF PoolInv, TypeOK, Sent, Phases, NoSendOnClosedChannel
  <1> QED  BY <1>1, Invariance, PTL

\* Nothing is queued, running or unreported once the pool is stopped.
THEOREM StoppedIsQuiet == Spec => []QuietWhenStopped
  <1>1. ASSUME PoolInv, stopped, NEW t \in wChan PROVE FALSE
    <2>1. t \in Tasks
      BY <1>1 DEF PoolInv, TypeOK
    <2>2. t[1] \in Submits /\ t[2] \in 1 .. MaxTasks /\ t = <<t[1], t[2]>>
      BY <2>1 DEF Tasks
    <2>3. t[2] \in wg[t[1]]
      BY <1>1, <2>2 DEF PoolInv, Sent
    <2> QED  BY <1>1, <2>2, <2>3 DEF PoolInv, Phases
  <1>2. ASSUME PoolInv, stopped, NEW w \in Workers, workerPc[w] \in {"run", "done"}
        PROVE  FALSE
    <2>1. job[w][1] \in Submits /\ job[w][2] \in 1 .. MaxTasks
          /\ job[w] = <<job[w][1], job[w][2]>>
      BY <1>2, JobType DEF PoolInv
    <2>2. job[w][2] \in wg[job[w][1]]
      BY <1>2, <2>1 DEF PoolInv, Working
    <2> QED  BY <1>2, <2>1, <2>2 DEF PoolInv, Phases
  <1>3. PoolInv => QuietWhenStopped
    BY <1>1, <1>2 DEF PoolInv, TypeOK, QuietWhenStopped
  <1> QED  BY <1>3, Invariance, PTL

\* After wg.Wait every task has its result in the channel (pool.go:120-123).
THEOREM CollectsAll == Spec => []CollectNeverBlocks
  <1>1. ASSUME PoolInv, NEW s \in Submits, submitPc[s] = "collect"
        PROVE  {r.task : r \in results[s] \cup resultChan[s]} = asked[s]
    <2>1. wg[s] = {} /\ asked[s] \subseteq 1 .. MaxTasks
      BY <1>1 DEF PoolInv, Phases, TypeOK
    <2>2. \A i \in asked[s] : \E r \in results[s] \cup resultChan[s] : r.task = i
      BY <1>1, <2>1 DEF PoolInv, Counted, Answered, Answers
    <2>3. \A r \in results[s] \cup resultChan[s] : r.task \in 1 .. MaxTasks
      BY <1>1 DEF PoolInv, TypeOK, Result
    <2>4. \A r \in results[s] \cup resultChan[s] : r.task \in asked[s]
      BY <1>1, <2>3 DEF PoolInv, Counted, Answered, Answers
    <2> QED  BY <2>2, <2>4
  <1>2. PoolInv => CollectNeverBlocks
    BY <1>1 DEF CollectNeverBlocks
  <1> QED  BY <1>2, Invariance, PTL

-----------------------------------------------------------------------------
(***************************************************************************)
(* The pool implements its contract.                                       *)
(***************************************************************************)
\* A call that has collected as many results as it has tasks has one of each.
LEMMA OneOfEach ==
  ASSUME PoolInv, NEW s \in Submits, Collected(s)
  PROVE  LET failed == {i \in asked[s] : \E r \in results[s] : r.task = i /\ r.failed}
         IN  results[s] = {[task |-> i, failed |-> i \in failed] : i \in asked[s]}
  <1> DEFINE failed == {i \in asked[s] : \E r \in results[s] : r.task = i /\ r.failed}
             f == [r \in results[s] |-> r.task]
  <1>1. asked[s] \subseteq 1 .. MaxTasks /\ IsFiniteSet(asked[s])
    <2>1. asked[s] \subseteq 1 .. MaxTasks
      BY DEF PoolInv, TypeOK
    <2>2. IsFiniteSet(1 .. MaxTasks)
      BY FS_Interval, PoolAssumption
    <2> QED  BY <2>1, <2>2, FS_Subset
  <1>2. \A r \in results[s] :
          /\ r \in Result /\ r = [task |-> r.task, failed |-> r.failed]
          /\ r.failed \in BOOLEAN
    BY DEF PoolInv, TypeOK, Result
  <1>3. \A r \in results[s] : r.task \in asked[s]
    <2>1. \A r \in results[s] : r.task \in 1 .. MaxTasks
      BY <1>2 DEF Result
    <2> QED  BY <2>1 DEF PoolInv, Counted, Answered, Answers
  <1>4. \A q, r \in results[s] : q.task = r.task => q = r
    BY DEF PoolInv, Once, Answers
  <1>5. f \in Injection(results[s], asked[s])
    BY <1>3, <1>4 DEF Injection, IsInjective
  <1>6. f \in Surjection(results[s], asked[s])
    BY <1>1, <1>5, FS_Injection DEF Collected
  <1>7. \A i \in asked[s] : \E r \in results[s] : r.task = i
    BY <1>6 DEF Surjection
  <1>8. \A r \in results[s] : r.failed = (r.task \in failed)
    BY <1>2, <1>3, <1>4
  <1>9. \A r \in results[s] : r = [task |-> r.task, failed |-> r.task \in failed]
    BY <1>2, <1>8
  <1> HIDE DEF failed
  <1>10. results[s] \subseteq {[task |-> i, failed |-> i \in failed] : i \in asked[s]}
    BY <1>3, <1>9
  <1>11. {[task |-> i, failed |-> i \in failed] : i \in asked[s]} \subseteq results[s]
    BY <1>7, <1>9
  <1> QED  BY <1>10, <1>11 DEF failed

LEMMA InitContract == Init => Contract!Init
  BY DEF Init, Contract!Init, status, answer

\* What the mapping depends on.
LEMMA Stutter ==
  ASSUME UNCHANGED <<stopped, asked, submitPc>>,
         \A q \in Submits : submitPc[q] = "returned" => results'[q] = results[q]
  PROVE  UNCHANGED Contract!contractVars
  BY DEF status, answer, Contract!contractVars

LEMMA CallerContract ==
  ASSUME PoolInv, NEW s \in Submits, Call(s) \/ Caller(s)
  PROVE  [Contract!Next]_(Contract!contractVars)
  <1>t. /\ submitPc \in
             [Submits -> {"new", "called", "wait", "collect", "returned", "rejected"}]
        /\ asked \in [Submits -> SUBSET (1 .. MaxTasks)]
        /\ results \in [Submits -> SUBSET Result]
    BY DEF PoolInv, TypeOK
  <1>1. CASE Call(s) \/ Waited(s)
    <2>1. UNCHANGED <<stopped, asked, results>>
      BY <1>1 DEF Call, Waited, lockVars
    <2>2. UNCHANGED status /\ UNCHANGED answer
      BY <1>1, <1>t, <2>1 DEF Call, Waited, status, answer
    <2> QED  BY <2>1, <2>2 DEF Contract!contractVars
  <1>2. CASE Accept(s)
    <2>1. PICK n \in 0 .. MaxTasks : asked' = [asked EXCEPT ![s] = 1 .. n]
      BY <1>2 DEF Accept
    <2>2. ~stopped /\ UNCHANGED <<stopped, results>>
      BY <1>2 DEF Accept
    <2>3. status[s] = "idle" /\ status' = [status EXCEPT ![s] = "accepted"]
      BY <1>2, <1>t DEF Accept, status
    <2>4. UNCHANGED answer
      BY <1>2, <1>t, <2>2 DEF Accept, answer
    <2>5. Contract!Accept(s)
      BY <2>1, <2>2, <2>3, <2>4 DEF Contract!Accept
    <2> QED  BY <2>5 DEF Contract!Next
  <1>3. CASE Reject(s)
    <2>1. stopped /\ UNCHANGED <<stopped, asked, results>>
      BY <1>3 DEF Reject, lockVars
    <2>2. status[s] = "idle" /\ status' = [status EXCEPT ![s] = "rejected"]
      BY <1>3, <1>t DEF Reject, status
    <2>3. UNCHANGED answer
      BY <1>3, <1>t, <2>1 DEF Reject, answer
    <2>4. Contract!Reject(s)
      BY <2>1, <2>2, <2>3 DEF Contract!Reject
    <2> QED  BY <2>4 DEF Contract!Next
  <1>4. CASE Collect(s)
    <2>1. UNCHANGED <<stopped, asked, submitPc>> /\ submitPc[s] = "collect"
          /\ \A q \in Submits \ {s} : results'[q] = results[q]
      BY <1>4, <1>t DEF Collect, lockVars, callVars
    <2> QED  BY <2>1, Stutter
  <1>5. CASE Return(s)
    <2> DEFINE failed == {i \in asked[s] : \E r \in results[s] : r.task = i /\ r.failed}
    <2>1. /\ UNCHANGED <<stopped, asked, results>> /\ Collected(s)
          /\ submitPc[s] = "collect" /\ submitPc' = [submitPc EXCEPT ![s] = "returned"]
      BY <1>5 DEF Return
    <2>2. status[s] = "accepted" /\ status' = [status EXCEPT ![s] = "answered"]
      BY <1>t, <2>1 DEF status
    <2>3. answer' = [answer EXCEPT ![s] = results[s]]
      BY <1>t, <2>1 DEF answer
    <2>4. results[s] = {[task |-> i, failed |-> i \in failed] : i \in asked[s]}
      BY <2>1, OneOfEach
    <2>5. failed \in SUBSET asked[s]
      OBVIOUS
    <2> HIDE DEF failed
    <2>6. Contract!Answer(s)
      BY <2>1, <2>2, <2>3, <2>4, <2>5 DEF Contract!Answer
    <2> QED  BY <2>6 DEF Contract!Next
  <1> QED  BY <1>1, <1>2, <1>3, <1>4, <1>5 DEF Caller

LEMMA NextContract ==
  PoolInv /\ [Next]_vars => [Contract!Next]_(Contract!contractVars)
  <1>0. SUFFICES ASSUME PoolInv, [Next]_vars
                 PROVE  [Contract!Next]_(Contract!contractVars)
    OBVIOUS
  <1>1. CASE UNCHANGED vars
    <2>1. UNCHANGED <<stopped, asked, submitPc, results>>
      BY <1>1 DEF vars, lockVars, callVars
    <2> QED  BY <2>1, Stutter
  <1>2. ASSUME NEW s \in Submits, Feeder(s)
        PROVE  UNCHANGED Contract!contractVars
    <2>1. UNCHANGED <<stopped, asked, submitPc, results>>
      BY <1>2 DEF Feeder, Feed, HandOver, FeedClosed, lockVars, callVars
    <2> QED  BY <2>1, Stutter
  <1>3. ASSUME NEW w \in Workers, Worker(w) \/ Panic(w)
        PROVE  UNCHANGED Contract!contractVars
    <2>1. UNCHANGED <<stopped, asked, submitPc, results>>
      BY <1>3 DEF Worker, Receive, Report, Done, Finish, Panic, lockVars, callVars
    <2> QED  BY <2>1, Stutter
  <1>4. ASSUME NEW t \in Stops, StopBegin(t) \/ StopEnd(t)
        PROVE  [Contract!Next]_(Contract!contractVars)
    <2>1. UNCHANGED <<asked, submitPc, results>>
          /\ (stopped' = stopped \/ (stopped' = TRUE /\ readers = {}))
      BY <1>4 DEF StopBegin, StopEnd, NoReaders
    <2>2. UNCHANGED status /\ UNCHANGED answer
      BY <2>1 DEF status, answer
    <2>3. CASE stopped' = stopped
      BY <2>1, <2>2, <2>3 DEF Contract!contractVars
    <2>4. CASE ~stopped /\ stopped' = TRUE /\ readers = {}
      <3>1. \A s \in Submits : status[s] # "accepted"
        <4>1. \A s \in Submits : submitPc[s] \notin {"wait", "collect"}
          BY <1>0, <2>4 DEF PoolInv, Phases
        <4>2. submitPc \in
                [Submits -> {"new", "called", "wait", "collect", "returned", "rejected"}]
          BY <1>0 DEF PoolInv, TypeOK
        <4> QED  BY <4>1, <4>2 DEF status
      <3>2. Contract!Stop
        BY <2>1, <2>2, <2>4, <3>1 DEF Contract!Stop
      <3> QED  BY <3>2 DEF Contract!Next
    <2> QED  BY <1>0, <2>1, <2>3, <2>4 DEF PoolInv, TypeOK
  <1> QED  BY <1>0, <1>1, <1>2, <1>3, <1>4, CallerContract DEF Next

\* Every behaviour of the pool is one of its contract: a call that returns has
\* exactly one result per task, and Stop takes effect between accepted calls.
THEOREM Implements == Spec => KeepsContract
  <1>1. Spec => Contract!Init /\ [][Contract!Next]_(Contract!contractVars)
    BY InitContract, NextContract, Invariance, PTL DEF Spec
  <1> QED  BY <1>1 DEF KeepsContract, Contract!Spec
=============================================================================
