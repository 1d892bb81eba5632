-------------------------- MODULE RolloutProperties --------------------------
(***************************************************************************)
(* What RolloutDeployments and WatchPodsRestarting promise to a client     *)
(* that uses the one after the other.                                      *)
(***************************************************************************)
EXTENDS PodsRestarting

\* No other deployment's sets are taken for those of d.
Unmistakable(d) == LongerNames[d] = {d}

\* The task's own restart, with nobody else's before it is answered.
Undisturbed(i) == task[i].quiet /\ Unmistakable(batch[i])

\* The set that is answered as rolling has the template that this very call has
\* patched in, and not one of before, when it was alone with the deployment.
RollingIsOwn ==
  \A i \in DOMAIN batch :
    task[i].outcome = "ok" /\ Undisturbed(i) =>
      revisions[batch[i]][task[i].rolling.rev] = task[i].stamp

\* A restart that has changed the template is answered, unless a name that begins
\* with the same letters has the higher revision: the loop without a limit of
\* correctLastReplicaSet (kubernetes/pod.go 132-144) ends.
RolloutEnds ==
  \A i \in Indices :
    (i \in DOMAIN batch /\ At(i, "rolling") /\ task[i].changed /\ Unmistakable(batch[i])) ~>
      (i \in DOMAIN batch /\ At(i, "done"))

\* When the goroutine decides to close the watch, the set of every deployment of the
\* batch has the template of this rollout, all its pods were ready at one moment of
\* the check (kubernetes/pod.go 275), whatever came between the requests, and they
\* still are unless a newer rollout takes them away.
RolledOut(i) ==
  LET set == task[i].rolling IN
  /\ revisions[batch[i]][set.rev] = task[i].stamp
  /\ PodsOf(set) \subseteq podsList
  /\ set \in CurrentSets => PodsOf(set) \subseteq ready

ClosedMeansRolledOut ==
  [][watchPc # "close" /\ watchPc' = "close" =>
       \A i \in DOMAIN batch : task[i].outcome = "ok" /\ Undisturbed(i) => RolledOut(i)]_vars

\* The last event that a check waits for comes after the state it tells of: the client
\* reads the CLOSE message, or the error of a request, unless a newer rollout takes
\* the pods away again, or the events end.  Then the goroutine returns without a
\* word (kubernetes/pod.go 234-236) or panics (237), and the client waits for ever.
Superseded == ~ wanted \subseteq CurrentSets
PodsWatchCloses ==
  (watchPc = "receive") ~> (told \in {"CLOSE", "ERROR"} \/ Superseded \/ source # "open")
=============================================================================
