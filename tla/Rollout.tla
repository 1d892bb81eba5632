------------------------------- MODULE Rollout -------------------------------
(***************************************************************************)
(* RolloutDeployments (kubernetes/pod.go, openshiftV3/pod.go): every       *)
(* deployment of a batch is a task of a pool, one after the other or all   *)
(* at a time.  A task notes the latest replica set, patches the time of    *)
(* the restart into the template, and waits for another replica set.  A    *)
(* DeploymentConfig of OpenShift is instantiated instead, and has          *)
(* replication controllers.                                                *)
(*                                                                         *)
(* A template is known by its time, or by the version of its               *)
(* DeploymentConfig.  The replica sets of a deployment are the sequence of *)
(* the templates that its controller has rolled out, in the order of their *)
(* revisions; a replica set is [of |-> deployment, rev |-> revision].      *)
(***************************************************************************)
EXTENDS Integers, SequencesExt

CONSTANTS
  Deployments, Configs,  \* those of Kubernetes, and DeploymentConfigs
  Unknown,               \* a name that is none of theirs
  LongerNames,           \* LongerNames[d]: those whose names begin with d
  Openshift,             \* is the platform OpenShift?
  Calls,                 \* of RolloutDeployments: the names, and whether in parallel
  MaxSeconds,            \* bound: the second of the last patch
  MaxFaults              \* bound: failing requests, and restarts by others

ASSUME RolloutAssumption ==
  /\ Deployments \cap Configs = {} /\ Openshift \in BOOLEAN
  /\ Unknown \notin Deployments \cup Configs
  /\ LongerNames \in [Deployments \cup Configs \cup {Unknown} -> SUBSET (Deployments \cup Configs)]
  /\ \A d \in Deployments \cup Configs : d \in LongerNames[d]
  /\ \A c \in Calls : c.names \in Seq(Deployments \cup Configs \cup {Unknown}) /\ c.parallel \in BOOLEAN
  /\ MaxSeconds \in Nat /\ MaxFaults \in Nat

VARIABLES
  now,                  \* the second of the last patch, as restartedAt has it
  template, revisions,  \* of every deployment: the spec, and its replica sets
  batch, parallel,      \* the call
  task,                 \* task[i]: the restart of batch[i]
  faultsLeft

clusterVars == <<now, template, revisions>>
callVars == <<batch, parallel, task>>
rolloutVars == <<clusterVars, callVars, faultsLeft>>

All == Deployments \cup Configs
Indices == UNION {DOMAIN c.names : c \in Calls}
NoSet == [of |-> "none", rev |-> 0]

\* stamp, changed and quiet are history: the template that the patch left, whether
\* it was another one, and whether nobody else rolled the deployment out meanwhile.
Queued == [pc |-> "queued", active |-> NoSet, rolling |-> NoSet, outcome |-> "none",
           stamp |-> 0, changed |-> FALSE, quiet |-> FALSE]

RolloutInit ==
  /\ now = 1
  /\ \E before \in 0 .. now : template = [d \in All |-> IF d \in Configs THEN 1 ELSE before]
  /\ revisions = [d \in All |-> <<template[d]>>]
  /\ \E c \in Calls : batch = c.names /\ parallel = c.parallel
  /\ task = [i \in DOMAIN batch |-> Queued]
  /\ faultsLeft = MaxFaults

At(i, pc) == task[i].pc = pc
Goto(i, pc) == task' = [task EXCEPT ![i].pc = pc]
Finish(i, outcome) == task' = [task EXCEPT ![i].pc = "done", ![i].outcome = outcome]

(***************************************************************************)
(* The replica sets, or replication controllers, that a call looks at.     *)
(***************************************************************************)
\* By the prefix of a replication controller's name.
DeploymentConfigIsExist(d) == LongerNames[d] \cap Configs # {}

Family(d) ==
  LongerNames[d] \cap (IF Openshift /\ DeploymentConfigIsExist(d) THEN Configs ELSE Deployments)

Concerned == UNION {Family(batch[i]) : i \in DOMAIN batch}

Candidates(d) == {[of |-> e, rev |-> Len(revisions[e])] : e \in Family(d)}

\* Mutant: whatever comes first in the list.
OldestMutant(d) == {[of |-> d, rev |-> 1]}

\* Any, of several with the highest revision.
Latest(d) == {s \in Candidates(d) : \A t \in Candidates(d) : t.rev <= s.rev}

(***************************************************************************)
(* RolloutDeployment.                                                      *)
(***************************************************************************)
\* The one worker of a pool takes the tasks in their order.
Begin(i) ==
  /\ At(i, "queued")
  /\ parallel \/ \A j \in DOMAIN batch : j < i => At(j, "done")
  /\ Goto(i, IF Openshift THEN "check" ELSE "lookup")
  /\ UNCHANGED <<clusterVars, batch, parallel, faultsLeft>>

Check(i) ==
  /\ At(i, "check")
  /\ Goto(i, IF DeploymentConfigIsExist(batch[i]) THEN "activeController" ELSE "lookup")
  /\ UNCHANGED <<clusterVars, batch, parallel, faultsLeft>>

Lookup(i) ==
  /\ At(i, "lookup")
  /\ IF batch[i] \in Deployments THEN Goto(i, "active") ELSE Finish(i, "failed")
  /\ UNCHANGED <<clusterVars, batch, parallel, faultsLeft>>

ReadActive(i) ==
  /\ \E next \in {<<"active", "patch">>, <<"activeController", "instantiate">>} :
       /\ At(i, next[1])
       /\ \E s \in Latest(batch[i]) :
            task' = [task EXCEPT ![i].pc = next[2], ![i].active = s,
                                 ![i].quiet = batch[i] \in All /\ template[batch[i]] = Last(revisions[batch[i]])]
  /\ UNCHANGED <<clusterVars, batch, parallel, faultsLeft>>

\* A patch is of its second, and an instantiation is the next version.
Restarts(d, stamp) ==
  /\ IF d \in Configs THEN stamp = template[d] + 1 /\ now' = now ELSE stamp >= now /\ now' = stamp
  /\ template' = [template EXCEPT ![d] = stamp]
  /\ UNCHANGED revisions

\* Others who are about the same deployment are not quiet any more.
Disturbed(d) ==
  [j \in DOMAIN batch |->
     IF batch[j] = d /\ ~At(j, "done") THEN [task[j] EXCEPT !.quiet = FALSE] ELSE task[j]]

RestartBy(i, stamp) ==
  LET d == batch[i] IN
  /\ Restarts(d, stamp)
  /\ task' = [Disturbed(d) EXCEPT ![i] = [task[i] EXCEPT
       !.pc = "rolling", !.stamp = stamp, !.changed = stamp # template[d]]]

\* The patch of a second in which the deployment was restarted already changes
\* nothing.
Patch(i) ==
  /\ At(i, "patch") /\ \E second \in now .. MaxSeconds : RestartBy(i, second)
  /\ UNCHANGED <<batch, parallel, faultsLeft>>

\* The request, or the POST that follows when it fails.
\* A name that is no DeploymentConfig, but the beginning of one, is answered with
\* neither a result nor an error.
Instantiate(i) ==
  /\ At(i, "instantiate")
  /\ IF batch[i] \in Configs THEN RestartBy(i, template[batch[i]] + 1)
     ELSE Finish(i, "nothing") /\ UNCHANGED clusterVars
  /\ UNCHANGED <<batch, parallel, faultsLeft>>

\* Mutant: the first look at the replica sets is taken for the answer.
NoWaitMutant(i, s) == TRUE

Appeared(i, s) == s # task[i].active

\* correctLastReplicaSet asks until it sees another one; nothing changes till then.
ReadRolling(i) ==
  /\ At(i, "rolling")
  /\ \E s \in Latest(batch[i]) :
       /\ Appeared(i, s)
       /\ task' = [task EXCEPT ![i].pc = "done", ![i].rolling = s, ![i].outcome = "ok"]
  /\ UNCHANGED <<clusterVars, batch, parallel, faultsLeft>>

\* OpenShift loses the error of a failed instantiation.
RequestFails(i) ==
  /\ task[i].pc \notin {"queued", "done"}
  /\ faultsLeft > 0 /\ faultsLeft' = faultsLeft - 1
  /\ Finish(i, IF At(i, "instantiate") THEN "nothing" ELSE "failed")
  /\ UNCHANGED <<clusterVars, batch, parallel>>

(***************************************************************************)
(* rolloutDeployments returns when the pool has all results; those that    *)
(* are nil are left out of the answer.                                     *)
(***************************************************************************)
Returned == \A i \in DOMAIN batch : At(i, "done")
Succeeded == Returned /\ \A i \in DOMAIN batch : task[i].outcome # "failed"
Response == {task[i].rolling : i \in {j \in DOMAIN batch : task[j].outcome = "ok"}}

(***************************************************************************)
(* The cluster, and other clients.                                         *)
(***************************************************************************)
RollOut(d) ==
  /\ template[d] # Last(revisions[d])
  /\ revisions' = [revisions EXCEPT ![d] = Append(@, template[d])]
  /\ UNCHANGED <<now, template, batch, parallel, task, faultsLeft>>

\* Bound: not after the call.
OthersRestart(d) ==
  /\ ~Returned
  /\ faultsLeft > 0 /\ faultsLeft' = faultsLeft - 1
  /\ \E stamp \in now .. MaxSeconds \cup {template[d] + 1} :
       stamp <= MaxSeconds /\ Restarts(d, stamp)
  /\ task' = Disturbed(d)
  /\ UNCHANGED <<batch, parallel>>

Task(i) ==
  \/ Begin(i) \/ Check(i) \/ Lookup(i) \/ ReadActive(i) \/ Patch(i) \/ Instantiate(i)
  \/ ReadRolling(i)

RolloutNext ==
  \/ \E i \in DOMAIN batch : Task(i) \/ RequestFails(i)
  \/ \E d \in Concerned : RollOut(d) \/ OthersRestart(d)
=============================================================================
