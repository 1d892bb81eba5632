---------------------------- MODULE PoolContract ----------------------------
(***************************************************************************)
(* What a fixed-size pool promises to its callers (exec/pool.go, the       *)
(* interface Pool): a call of Submit is answered with one result per task, *)
(* or it is rejected because the pool has been stopped; the pool stops     *)
(* only when no accepted call is left without its answer.                  *)
(***************************************************************************)
EXTENDS Naturals

CONSTANTS Submits,   \* calls of Submit
          MaxTasks   \* bound on the tasks of one call

VARIABLES status,    \* of every call
          asked,     \* its tasks
          answer,    \* their results
          stopped    \* is the pool stopped?

contractVars == <<status, asked, answer, stopped>>

Init ==
  /\ status = [s \in Submits |-> "idle"]
  /\ asked = [s \in Submits |-> {}]
  /\ answer = [s \in Submits |-> {}]
  /\ stopped = FALSE

Accept(s) ==
  /\ status[s] = "idle" /\ ~stopped
  /\ status' = [status EXCEPT ![s] = "accepted"]
  /\ \E n \in 0 .. MaxTasks : asked' = [asked EXCEPT ![s] = 1 .. n]
  /\ UNCHANGED <<answer, stopped>>

\* One result for every task, failed or not.
Answer(s) ==
  /\ status[s] = "accepted"
  /\ status' = [status EXCEPT ![s] = "answered"]
  /\ \E failed \in SUBSET asked[s] :
       answer' = [answer EXCEPT ![s] =
                    {[task |-> i, failed |-> i \in failed] : i \in asked[s]}]
  /\ UNCHANGED <<asked, stopped>>

Reject(s) ==
  /\ status[s] = "idle" /\ stopped
  /\ status' = [status EXCEPT ![s] = "rejected"]
  /\ UNCHANGED <<asked, answer, stopped>>

Stop ==
  /\ ~stopped /\ \A s \in Submits : status[s] # "accepted"
  /\ stopped' = TRUE
  /\ UNCHANGED <<status, asked, answer>>

Next == Stop \/ \E s \in Submits : Accept(s) \/ Answer(s) \/ Reject(s)

Spec == Init /\ [][Next]_contractVars
=============================================================================
