---------------------- MODULE RolloutAndEntityProofs ----------------------
(***************************************************************************)
(* Proofs about RolloutDeployments and WatchPodsRestarting, for any names, *)
(* batches, restarts by others and failures; and, at the end, about the    *)
(* conversions of Entities.                                                *)
(***************************************************************************)
EXTENDS RolloutProperties, EntityProperties, FiniteSetTheorems, SequenceTheorems, TLAPS

Pcs == {"queued", "check", "lookup", "active", "activeController", "patch", "instantiate",
        "rolling", "done"}
Sets == [of : All \cup {"none"}, rev : Nat]
Restart == [pc : Pcs, active : Sets, rolling : Sets, outcome : {"none", "ok", "failed", "nothing"},
            stamp : Nat, changed : BOOLEAN, quiet : BOOLEAN]

ClusterTypes ==
  /\ now \in Nat /\ template \in [All -> Nat]
  /\ revisions \in [All -> Seq(Nat)] /\ \A d \in All : revisions[d] # <<>>

CallTypes ==
  /\ batch \in Seq(All \cup {Unknown}) /\ task \in [DOMAIN batch -> Restart]
  /\ \A i \in DOMAIN batch :
       /\ task[i].pc # "done" => task[i].outcome = "none"
       /\ task[i].quiet \/ task[i].pc \in {"active", "patch"} => batch[i] \in All

(***************************************************************************)
(* A restart t of deployment d that nobody disturbs: until the patch the   *)
(* deployment is rolled out up to the set that was read, after it the      *)
(* template is that of the patch and the only one that can still come, and *)
(* the set that is answered has it.                                        *)
(***************************************************************************)
Own(d, t) ==
  /\ t.pc \in {"patch", "instantiate"} =>
       t.active = [of |-> d, rev |-> Len(revisions[d])] /\ template[d] = Last(revisions[d])
  /\ t.pc = "rolling" =>
       /\ template[d] = t.stamp
       /\ t.active = [of |-> d, rev |-> Len(revisions[d])] \/ Last(revisions[d]) = t.stamp
  /\ t.outcome = "ok" =>
       /\ t.rolling.of = d /\ t.rolling.rev \in DOMAIN revisions[d]
       /\ revisions[d][t.rolling.rev] = t.stamp

TasksOwn == \A i \in DOMAIN batch : Undisturbed(i) => Own(batch[i], task[i])

\* Pods are of sets that exist, and a set that has been replaced does not come back.
PodsOK ==
  /\ ready \subseteq pods
  /\ \A p \in pods \cup podsList :
       p \in PodsOf(p.set) /\ p.set.of \in All /\ p.set.rev \in DOMAIN revisions[p.set.of]

\* The watch waits for what the finished call has answered.
WatchOK == watchPc # "none" => Returned /\ wanted = Response

\* What was ready when the pods were listed is still ready, up to the pods of sets
\* that were replaced since; and the sets that were asked for had all their pods.
CheckOK ==
  /\ \A p \in podsList : p.set \in CurrentSets => p \in ready
  /\ watchPc = "get" => \A s \in wanted \ unchecked : PodsAreReady(s)

RolloutInv == ClusterTypes /\ CallTypes /\ TasksOwn /\ PodsOK /\ WatchOK /\ CheckOK

(***************************************************************************)
(* What the operators return.                                              *)
(***************************************************************************)
LEMMA RevisionTypes ==
  ASSUME ClusterTypes, NEW d \in All
  PROVE  /\ revisions[d] \in Seq(Nat) /\ Len(revisions[d]) \in Nat /\ Len(revisions[d]) > 0
         /\ DOMAIN revisions[d] = 1 .. Len(revisions[d])
         /\ Last(revisions[d]) = revisions[d][Len(revisions[d])]
         /\ Last(revisions[d]) \in Nat /\ template[d] \in Nat
<1>1. revisions[d] \in Seq(Nat) /\ revisions[d] # <<>> /\ template[d] \in Nat
  BY DEF ClusterTypes
<1>2. Len(revisions[d]) \in Nat \ {0}
  BY <1>1, EmptySeq
<1>3. DOMAIN revisions[d] = 1 .. Len(revisions[d]) /\ Len(revisions[d]) \in DOMAIN revisions[d]
  BY <1>1, <1>2
<1> QED  BY <1>1, <1>2, <1>3 DEF Last

LEMMA LatestIsSet ==
  ASSUME ClusterTypes, NEW d, NEW s \in Latest(d)
  PROVE  s \in Sets /\ s.of \in All
<1>1. PICK e \in Family(d) : s = [of |-> e, rev |-> Len(revisions[e])]
  BY DEF Latest, Candidates
<1>2. e \in All
  BY <1>1 DEF Family, All
<1> QED  BY <1>1, <1>2, RevisionTypes DEF Sets

LEMMA LatestIsOwn ==
  ASSUME NEW d \in All, Unmistakable(d), NEW s \in Latest(d)
  PROVE  s = [of |-> d, rev |-> Len(revisions[d])]
BY DEF Latest, Candidates, Family, Unmistakable

LEMMA ConcernedInAll == Concerned \subseteq All
BY DEF Concerned, Family, All

\* A step of the call or of the cluster that rolls nothing out leaves the watch alone.
LEMMA WatchSame ==
  ASSUME RolloutInv, UNCHANGED <<revisions, batch, podVars, watchVars>>
  PROVE  PodsOK' /\ CheckOK'
<1>1. CurrentSets' = CurrentSets
  BY DEF CurrentSets, Concerned
<1>2. UNCHANGED <<pods, ready, wanted, watchPc, podsList, unchecked>>
  BY DEF podVars, watchVars, checkVars
<1>3. PodsOK'
  BY <1>2 DEF RolloutInv, PodsOK, PodsOf
<1>4. CheckOK'
  BY <1>1, <1>2 DEF RolloutInv, CheckOK, PodsAreReady
<1> QED  BY <1>3, <1>4

(***************************************************************************)
(* A step of one task alone.                                               *)
(***************************************************************************)
LEMMA TaskMoves ==
  ASSUME RolloutInv, NEW i \in DOMAIN batch, NEW t \in Restart, task[i].pc # "done",
         task' = [task EXCEPT ![i] = t],
         UNCHANGED <<clusterVars, batch, parallel, podVars, events, watchVars>>,
         t.pc # "done" => t.outcome = "none",
         t.quiet \/ t.pc \in {"active", "patch"} => batch[i] \in All,
         t.quiet /\ Unmistakable(batch[i]) => Own(batch[i], t)
  PROVE  RolloutInv'
<1>1. ClusterTypes' /\ PodsOK' /\ CheckOK'
  BY WatchSame DEF RolloutInv, ClusterTypes, clusterVars
<1>2. /\ task \in [DOMAIN batch -> Restart] /\ task' \in [DOMAIN batch -> Restart] /\ batch' = batch
      /\ task'[i] = t /\ \A j \in DOMAIN batch : j # i => task'[j] = task[j]
  BY DEF RolloutInv, CallTypes
<1>3. CallTypes'
  BY <1>2 DEF RolloutInv, CallTypes
<1>4. TasksOwn'
  BY <1>2 DEF RolloutInv, TasksOwn, Undisturbed, Unmistakable, Own, clusterVars
<1>5. WatchOK'
  BY DEF RolloutInv, WatchOK, Returned, At, watchVars
<1> QED  BY <1>1, <1>3, <1>4, <1>5 DEF RolloutInv

LEMMA BeginKeeps ==
  ASSUME RolloutInv, NEW i \in DOMAIN batch, Begin(i) \/ Check(i) \/ Lookup(i),
         UNCHANGED <<podVars, events, watchVars>>
  PROVE  RolloutInv'
<1>1. task[i] \in Restart /\ task[i].outcome = "none" /\ task[i].pc \in {"queued", "check", "lookup"}
  BY DEF RolloutInv, CallTypes, Begin, Check, Lookup, At
<1>2. /\ UNCHANGED <<clusterVars, batch, parallel>>
      /\ \/ \E pc \in {"check", "lookup", "active", "activeController"} :
              /\ task' = [task EXCEPT ![i] = [task[i] EXCEPT !.pc = pc]]
              /\ pc = "active" => batch[i] \in Deployments
         \/ task' = [task EXCEPT ![i] = [task[i] EXCEPT !.pc = "done", !.outcome = "failed"]]
  BY DEF RolloutInv, CallTypes, Begin, Check, Lookup, Goto, Finish
<1>3. task[i].quiet => batch[i] \in All
  BY DEF RolloutInv, CallTypes
<1>4. CASE \E pc \in {"check", "lookup", "active", "activeController"} :
             /\ task' = [task EXCEPT ![i] = [task[i] EXCEPT !.pc = pc]]
             /\ pc = "active" => batch[i] \in Deployments
  <2>1. PICK pc \in {"check", "lookup", "active", "activeController"} :
               /\ task' = [task EXCEPT ![i] = [task[i] EXCEPT !.pc = pc]]
               /\ pc = "active" => batch[i] \in All
    BY <1>4 DEF All
  <2>2. PICK t \in Restart : t = [task[i] EXCEPT !.pc = pc]
    BY <1>1 DEF Restart, Pcs
  <2>3. t.pc = pc /\ t.outcome = "none" /\ t.quiet = task[i].quiet
    BY <1>1, <2>2 DEF Restart
  <2>4. Own(batch[i], t)
    BY <2>3 DEF Own
  <2> QED  BY <1>1, <1>2, <1>3, <2>1, <2>2, <2>3, <2>4, TaskMoves
<1>5. CASE task' = [task EXCEPT ![i] = [task[i] EXCEPT !.pc = "done", !.outcome = "failed"]]
  <2>2. PICK t \in Restart : t = [task[i] EXCEPT !.pc = "done", !.outcome = "failed"]
    BY <1>1 DEF Restart, Pcs
  <2>3. t.pc = "done" /\ t.outcome = "failed" /\ t.quiet = task[i].quiet
    BY <1>1, <2>2 DEF Restart
  <2>4. Own(batch[i], t)
    BY <2>3 DEF Own
  <2> QED  BY <1>1, <1>2, <1>3, <1>5, <2>2, <2>3, <2>4, TaskMoves
<1> QED  BY <1>2, <1>4, <1>5

\* From the set that is read on the restart may be undisturbed.
LEMMA ReadActiveKeeps ==
  ASSUME RolloutInv, NEW i \in DOMAIN batch, ReadActive(i), UNCHANGED <<podVars, events, watchVars>>
  PROVE  RolloutInv'
<1>0. PICK next \in {<<"active", "patch">>, <<"activeController", "instantiate">>} :
        /\ task[i].pc = next[1]
        /\ \E s \in Latest(batch[i]) :
             task' = [task EXCEPT ![i].pc = next[2], ![i].active = s,
                        ![i].quiet = batch[i] \in All /\ template[batch[i]] = Last(revisions[batch[i]])]
  BY DEF ReadActive, At
<1>1. PICK pc \in {"patch", "instantiate"}, s \in Latest(batch[i]) :
        /\ task' = [task EXCEPT ![i].pc = pc, ![i].active = s,
                                ![i].quiet = batch[i] \in All /\ template[batch[i]] = Last(revisions[batch[i]])]
        /\ task[i].pc \in {"active", "activeController"} /\ (pc = "patch" => task[i].pc = "active")
        /\ UNCHANGED <<clusterVars, batch, parallel>>
  <2>1. PICK s \in Latest(batch[i]) :
          task' = [task EXCEPT ![i].pc = next[2], ![i].active = s,
                     ![i].quiet = batch[i] \in All /\ template[batch[i]] = Last(revisions[batch[i]])]
    BY <1>0
  <2>2. \/ next[1] = "active" /\ next[2] = "patch"
        \/ next[1] = "activeController" /\ next[2] = "instantiate"
    OBVIOUS
  <2>3. UNCHANGED <<clusterVars, batch, parallel>>
    BY DEF ReadActive
  <2> QED  BY <1>0, <2>1, <2>2, <2>3
<1> DEFINE quiet == batch[i] \in All /\ template[batch[i]] = Last(revisions[batch[i]])
<1>2. task[i] \in Restart /\ task[i].outcome = "none"
  BY <1>1 DEF RolloutInv, CallTypes
<1>3. s \in Sets /\ quiet \in BOOLEAN
  BY LatestIsSet DEF RolloutInv
<1>4. PICK t \in Restart : t = [task[i] EXCEPT !.pc = pc, !.active = s, !.quiet = quiet]
  BY <1>2, <1>3 DEF Restart, Pcs
<1>5. t.pc = pc /\ t.active = s /\ t.quiet = quiet /\ t.outcome = "none"
  BY <1>2, <1>4 DEF Restart
<1>6. task' = [task EXCEPT ![i] = t]
  BY <1>1, <1>4
<1>7. t.quiet /\ Unmistakable(batch[i]) => Own(batch[i], t)
  BY <1>5, LatestIsOwn DEF Own
<1>8. t.quiet \/ t.pc \in {"active", "patch"} => batch[i] \in All
  BY <1>1, <1>5 DEF RolloutInv, CallTypes
<1> HIDE DEF quiet
<1>9. task[i].pc # "done" /\ (t.pc # "done" => t.outcome = "none")
  BY <1>1, <1>5
<1> QED  BY <1>1, <1>6, <1>7, <1>8, <1>9, TaskMoves

\* The set that appears after the one that was read is that of the patch.
LEMMA ReadRollingKeeps ==
  ASSUME RolloutInv, NEW i \in DOMAIN batch, ReadRolling(i), UNCHANGED <<podVars, events, watchVars>>
  PROVE  RolloutInv'
<1>1. PICK s \in Latest(batch[i]) :
        /\ s # task[i].active /\ task[i].pc = "rolling"
        /\ task' = [task EXCEPT ![i].pc = "done", ![i].rolling = s, ![i].outcome = "ok"]
        /\ UNCHANGED <<clusterVars, batch, parallel>>
  BY DEF ReadRolling, At, Appeared
<1>2. task[i] \in Restart /\ (task[i].quiet => batch[i] \in All)
  BY DEF RolloutInv, CallTypes
<1>3. s \in Sets
  BY LatestIsSet DEF RolloutInv
<1>4. PICK t \in Restart : t = [task[i] EXCEPT !.pc = "done", !.rolling = s, !.outcome = "ok"]
  BY <1>2, <1>3 DEF Restart, Pcs
<1>5. /\ t.pc = "done" /\ t.rolling = s /\ t.quiet = task[i].quiet /\ t.stamp = task[i].stamp
      /\ t.outcome = "ok"
  BY <1>2, <1>4 DEF Restart
<1>6. task' = [task EXCEPT ![i] = t]
  BY <1>1, <1>4
<1>7. ASSUME t.quiet, Unmistakable(batch[i])  PROVE Own(batch[i], t)
  <2>1. batch[i] \in All
    BY <1>2, <1>5, <1>7
  <2>2. s = [of |-> batch[i], rev |-> Len(revisions[batch[i]])]
    BY <1>7, <2>1, LatestIsOwn
  <2>3. Own(batch[i], task[i])
    BY <1>5, <1>7 DEF RolloutInv, TasksOwn, Undisturbed
  <2>4. Last(revisions[batch[i]]) = t.stamp
    BY <1>1, <1>5, <2>2, <2>3 DEF Own
  <2>5. /\ Len(revisions[batch[i]]) \in DOMAIN revisions[batch[i]]
        /\ revisions[batch[i]][Len(revisions[batch[i]])] = t.stamp
    BY <2>1, <2>4, RevisionTypes DEF RolloutInv
  <2> QED  BY <1>5, <2>2, <2>5 DEF Own
<1>8. (t.quiet \/ t.pc \in {"active", "patch"} => batch[i] \in All) /\ task[i].pc # "done" /\ (t.pc # "done" => t.outcome = "none")
  BY <1>1, <1>2, <1>5
<1> QED  BY <1>1, <1>6, <1>7, <1>8, TaskMoves

LEMMA FinishKeeps ==
  ASSUME RolloutInv, NEW i \in DOMAIN batch, NEW outcome \in {"failed", "nothing"}, task[i].pc # "done",
         Finish(i, outcome), UNCHANGED <<clusterVars, batch, parallel, podVars, events, watchVars>>
  PROVE  RolloutInv'
<1>1. task[i] \in Restart /\ (task[i].quiet => batch[i] \in All)
  BY DEF RolloutInv, CallTypes
<1>2. PICK t \in Restart : t = [task[i] EXCEPT !.pc = "done", !.outcome = outcome]
  BY <1>1 DEF Restart, Pcs
<1>3. t.pc = "done" /\ t.outcome = outcome /\ t.quiet = task[i].quiet
  BY <1>1, <1>2 DEF Restart
<1>4. task' = [task EXCEPT ![i] = t]
  BY <1>2 DEF Finish
<1>5. Own(batch[i], t)
  BY <1>3 DEF Own
<1> QED  BY <1>1, <1>3, <1>4, <1>5, TaskMoves

(***************************************************************************)
(* A restart of deployment d, by task or by somebody else: all other tasks *)
(* about d that have no answer yet are disturbed.                          *)
(***************************************************************************)
LEMMA RestartsKeep ==
  ASSUME RolloutInv, NEW d \in All, NEW stamp \in Nat, Restarts(d, stamp), ~Returned,
         UNCHANGED <<batch, parallel, podVars, events, watchVars>>,
         task' \in [DOMAIN batch -> Restart],
         \A j \in DOMAIN batch :
           \/ task'[j] = task[j] /\ (batch[j] # d \/ task[j].pc = "done")
           \/ /\ task'[j].pc = task[j].pc /\ task[j].pc # "done" /\ task'[j].outcome = "none"
              /\ ~task'[j].quiet
           \/ /\ batch[j] = d /\ task'[j].pc = "rolling" /\ task'[j].outcome = "none"
              /\ task'[j].stamp = stamp /\ task'[j].active = task[j].active
              /\ task'[j].quiet = task[j].quiet /\ task[j].pc \in {"patch", "instantiate"}
  PROVE  RolloutInv'
<1>1. /\ template \in [All -> Nat] /\ template' = [template EXCEPT ![d] = stamp] /\ revisions' = revisions
      /\ now' \in Nat
  BY DEF Restarts, RolloutInv, ClusterTypes
<1>2. ClusterTypes'
  BY <1>1 DEF RolloutInv, ClusterTypes
<1>3. CallTypes'
  BY DEF RolloutInv, CallTypes
<1>4. ASSUME NEW j \in DOMAIN batch, task'[j].quiet, Unmistakable(batch[j])
      PROVE  Own(batch[j], task[j])'
  <2>1. CASE task'[j] = task[j] /\ (batch[j] # d \/ task[j].pc = "done")
    <3>1. Own(batch[j], task[j]) /\ batch[j] \in All
      BY <1>4, <2>1 DEF RolloutInv, TasksOwn, Undisturbed, CallTypes
    <3>2. batch[j] # d => template'[batch[j]] = template[batch[j]]
      BY <1>1, <3>1
    <3> QED  BY <1>1, <2>1, <3>1, <3>2 DEF Own
  <2>2. CASE /\ batch[j] = d /\ task'[j].pc = "rolling" /\ task'[j].outcome = "none"
             /\ task'[j].stamp = stamp /\ task'[j].active = task[j].active
             /\ task'[j].quiet = task[j].quiet /\ task[j].pc \in {"patch", "instantiate"}
    <3>1. Own(batch[j], task[j])
      BY <1>4, <2>2 DEF RolloutInv, TasksOwn, Undisturbed
    <3>2. task'[j].active = [of |-> d, rev |-> Len(revisions[d])]
      BY <2>2, <3>1 DEF Own
    <3>3. template'[d] = stamp
      BY <1>1
    <3> QED  BY <1>1, <2>2, <3>2, <3>3 DEF Own
  <2> QED  BY <1>4, <2>1, <2>2
<1>5. TasksOwn'
  BY <1>4 DEF TasksOwn, Undisturbed, Unmistakable
<1>6. PodsOK' /\ WatchOK' /\ CheckOK'
  BY <1>1, WatchSame DEF RolloutInv, WatchOK, watchVars
<1> QED  BY <1>2, <1>3, <1>5, <1>6 DEF RolloutInv

LEMMA DisturbedTasks ==
  ASSUME RolloutInv, NEW d
  PROVE  /\ Disturbed(d) \in [DOMAIN batch -> Restart]
         /\ \A j \in DOMAIN batch :
              \/ Disturbed(d)[j] = task[j] /\ (batch[j] # d \/ task[j].pc = "done")
              \/ /\ Disturbed(d)[j].pc = task[j].pc /\ task[j].pc # "done"
                 /\ Disturbed(d)[j].outcome = "none" /\ ~Disturbed(d)[j].quiet
<1>1. \A j \in DOMAIN batch : task[j] \in Restart /\ (task[j].pc # "done" => task[j].outcome = "none")
  BY DEF RolloutInv, CallTypes
<1>2. ASSUME NEW j \in DOMAIN batch, batch[j] = d, task[j].pc # "done"
      PROVE  /\ [task[j] EXCEPT !.quiet = FALSE] \in Restart
             /\ [task[j] EXCEPT !.quiet = FALSE].pc = task[j].pc
             /\ [task[j] EXCEPT !.quiet = FALSE].outcome = "none"
             /\ ~[task[j] EXCEPT !.quiet = FALSE].quiet
  BY <1>1, <1>2 DEF Restart
<1> QED  BY <1>1, <1>2 DEF Disturbed, At

LEMMA RestartByKeeps ==
  ASSUME RolloutInv, NEW i \in DOMAIN batch, NEW stamp \in Nat, batch[i] \in All,
         task[i].pc \in {"patch", "instantiate"}, RestartBy(i, stamp),
         UNCHANGED <<batch, parallel, podVars, events, watchVars>>
  PROVE  RolloutInv'
<1> DEFINE d == batch[i]
           changed == stamp # template[d]
<1>1. task[i] \in Restart /\ task[i].outcome = "none"
  BY DEF RolloutInv, CallTypes
<1>2. PICK t \in Restart : t = [task[i] EXCEPT !.pc = "rolling", !.stamp = stamp, !.changed = changed]
  BY <1>1 DEF Restart, Pcs
<1>3. /\ t.pc = "rolling" /\ t.stamp = stamp /\ t.active = task[i].active /\ t.quiet = task[i].quiet
      /\ t.outcome = "none"
  BY <1>1, <1>2 DEF Restart
<1>4. Restarts(d, stamp) /\ task' = [Disturbed(d) EXCEPT ![i] = t]
  BY <1>2 DEF RestartBy
<1>5. /\ task' \in [DOMAIN batch -> Restart] /\ task'[i] = t
      /\ \A j \in DOMAIN batch : j # i => task'[j] = Disturbed(d)[j]
  BY <1>4, DisturbedTasks
<1>6. ~Returned
  BY DEF Returned, At
<1> HIDE DEF d, changed
<1>7. \A j \in DOMAIN batch :
        \/ task'[j] = task[j] /\ (batch[j] # d \/ task[j].pc = "done")
        \/ /\ task'[j].pc = task[j].pc /\ task[j].pc # "done" /\ task'[j].outcome = "none"
           /\ ~task'[j].quiet
        \/ /\ batch[j] = d /\ task'[j].pc = "rolling" /\ task'[j].outcome = "none"
           /\ task'[j].stamp = stamp /\ task'[j].active = task[j].active
           /\ task'[j].quiet = task[j].quiet /\ task[j].pc \in {"patch", "instantiate"}
  BY <1>3, <1>5, DisturbedTasks DEF d
<1>8. d \in All
  BY DEF d
<1> QED  BY <1>4, <1>5, <1>6, <1>7, <1>8, RestartsKeep

LEMMA PatchKeeps ==
  ASSUME RolloutInv, NEW i \in DOMAIN batch, Patch(i) \/ Instantiate(i),
         UNCHANGED <<podVars, events, watchVars>>
  PROVE  RolloutInv'
<1>1. now \in Nat /\ MaxSeconds \in Nat /\ template \in [All -> Nat] /\ Configs \subseteq All
  BY RolloutAssumption DEF RolloutInv, ClusterTypes, All
<1>2. CASE Patch(i)
  <2>1. PICK second \in now .. MaxSeconds : RestartBy(i, second)
    BY <1>2 DEF Patch
  <2>2. second \in Nat /\ task[i].pc = "patch" /\ UNCHANGED <<batch, parallel>>
    BY <1>1, <1>2 DEF Patch, At
  <2>3. batch[i] \in All
    BY <2>2 DEF RolloutInv, CallTypes
  <2> QED  BY <2>1, <2>2, <2>3, RestartByKeeps
<1>3. CASE Instantiate(i)
  <2>1. CASE batch[i] \in Configs
    <3>1. /\ RestartBy(i, template[batch[i]] + 1) /\ task[i].pc = "instantiate"
          /\ UNCHANGED <<batch, parallel>>
      BY <1>3, <2>1 DEF Instantiate, At
    <3>2. batch[i] \in All /\ template[batch[i]] + 1 \in Nat
      BY <1>1, <2>1
    <3> QED  BY <3>1, <3>2, RestartByKeeps
  <2>2. CASE batch[i] \notin Configs
    BY <1>3, <2>2, FinishKeeps DEF Instantiate, At
  <2> QED  BY <2>1, <2>2
<1> QED  BY <1>2, <1>3

LEMMA OthersRestartKeeps ==
  ASSUME RolloutInv, NEW d \in All, OthersRestart(d), UNCHANGED <<podVars, events, watchVars>>
  PROVE  RolloutInv'
<1>1. now \in Nat /\ MaxSeconds \in Nat /\ template[d] + 1 \in Nat
  BY RolloutAssumption DEF RolloutInv, ClusterTypes
<1>2. PICK stamp \in now .. MaxSeconds \cup {template[d] + 1} : Restarts(d, stamp)
  BY DEF OthersRestart
<1>3. stamp \in Nat
  BY <1>1
<1>4. task' = Disturbed(d) /\ ~Returned /\ UNCHANGED <<batch, parallel>>
  BY DEF OthersRestart
<1>5. task' \in [DOMAIN batch -> Restart]
  BY <1>4, DisturbedTasks
<1>6. \A j \in DOMAIN batch :
        \/ task'[j] = task[j] /\ (batch[j] # d \/ task[j].pc = "done")
        \/ /\ task'[j].pc = task[j].pc /\ task[j].pc # "done" /\ task'[j].outcome = "none"
           /\ ~task'[j].quiet
  BY <1>4, DisturbedTasks
<1> QED  BY <1>2, <1>3, <1>4, <1>5, <1>6, RestartsKeep

\* The controller rolls out the template that is left.
LEMMA RollOutKeeps ==
  ASSUME RolloutInv, NEW d \in All, RollOut(d), UNCHANGED <<podVars, events, watchVars>>
  PROVE  RolloutInv'
<1> DEFINE n == Len(revisions[d])
<1>1. /\ template[d] # Last(revisions[d]) /\ revisions' = [revisions EXCEPT ![d] = Append(@, template[d])]
      /\ UNCHANGED <<now, template, batch, parallel, task>>
  BY DEF RollOut
<1>2. revisions \in [All -> Seq(Nat)] /\ template[d] \in Nat /\ n \in Nat /\ DOMAIN revisions[d] = 1 .. n
  BY RevisionTypes DEF RolloutInv, ClusterTypes
<1>3. /\ revisions' \in [All -> Seq(Nat)]
      /\ revisions'[d] = Append(revisions[d], template[d])
      /\ \A e \in All : e # d => revisions'[e] = revisions[e]
  BY <1>1, <1>2
<1>4. /\ Len(revisions'[d]) = n + 1 /\ DOMAIN revisions'[d] = 1 .. n + 1
      /\ \A r \in 1 .. n : revisions'[d][r] = revisions[d][r]
      /\ revisions'[d][n + 1] = template[d]
  BY <1>2, <1>3, AppendProperties
<1> HIDE DEF n
<1>5. ClusterTypes'
  <2>1. revisions'[d] # <<>>
    BY <1>2, <1>4, EmptySeq
  <2> QED  BY <1>1, <1>3, <2>1 DEF RolloutInv, ClusterTypes
<1>6. CallTypes'
  BY <1>1 DEF RolloutInv, CallTypes
<1>7. ASSUME NEW j \in DOMAIN batch, task[j].quiet, Unmistakable(batch[j])
      PROVE  Own(batch[j], task[j])'
  <2>1. Own(batch[j], task[j]) /\ batch[j] \in All
    BY <1>7 DEF RolloutInv, TasksOwn, Undisturbed, CallTypes
  <2>2. CASE batch[j] # d
    BY <1>1, <1>3, <2>1, <2>2 DEF Own
  <2>3. CASE batch[j] = d
    <3>1. task[j].pc \notin {"patch", "instantiate"}
      BY <1>1, <2>1, <2>3 DEF Own
    <3>2. task[j].pc = "rolling" => template[d] = task[j].stamp /\ Last(revisions'[d]) = task[j].stamp
      <4>1. Last(revisions'[d]) = template[d]
        BY <1>4 DEF Last
      <4> QED  BY <2>1, <2>3, <4>1 DEF Own
    <3>3. task[j].outcome = "ok" =>
            /\ task[j].rolling.of = d /\ task[j].rolling.rev \in DOMAIN revisions'[d]
            /\ revisions'[d][task[j].rolling.rev] = task[j].stamp
      <4>1. \A r \in 1 .. n : r \in 1 .. n + 1
        BY <1>2
      <4> QED  BY <1>2, <1>4, <2>1, <2>3, <4>1 DEF Own
    <3> QED  BY <1>1, <2>3, <3>1, <3>2, <3>3 DEF Own
  <2> QED  BY <2>2, <2>3
<1>8. TasksOwn'
  BY <1>1, <1>7 DEF TasksOwn, Undisturbed, Unmistakable
<1>9. WatchOK'
  BY <1>1 DEF RolloutInv, WatchOK, Returned, Response, At, watchVars
<1>10. UNCHANGED <<pods, ready, wanted, watchPc, podsList, unchecked>>
  BY DEF podVars, watchVars, checkVars
<1>11. \A e \in All : \A k \in DOMAIN revisions[e] : k \in DOMAIN revisions'[e]
  <2>1. \A k \in 1 .. n : k \in 1 .. n + 1
    BY <1>2
  <2> QED  BY <1>2, <1>3, <1>4, <2>1
<1>12. PodsOK'
  BY <1>10, <1>11 DEF RolloutInv, PodsOK, PodsOf
<1>13. ASSUME NEW p \in podsList, p.set \in CurrentSets'
       PROVE  p.set \in CurrentSets
  <2>1. PICK e \in Concerned : p.set = [of |-> e, rev |-> Len(revisions'[e])]
    BY <1>1, <1>13 DEF CurrentSets, Concerned
  <2>2. p.set.of = e /\ p.set.rev = Len(revisions'[e]) /\ p.set.rev \in DOMAIN revisions[e]
    BY <2>1 DEF RolloutInv, PodsOK
  <2>3. e # d
    BY <1>2, <1>4, <2>2
  <2>4. revisions'[e] = revisions[e]
    BY <1>3, <2>3, ConcernedInAll
  <2> QED  BY <2>1, <2>4 DEF CurrentSets
<1>14. CheckOK'
  BY <1>10, <1>13 DEF RolloutInv, CheckOK, PodsAreReady
<1> QED  BY <1>5, <1>6, <1>8, <1>9, <1>12, <1>14 DEF RolloutInv

LEMMA RolloutKeeps ==
  ASSUME RolloutInv, RolloutNext, UNCHANGED <<podVars, events, watchVars>>
  PROVE  RolloutInv'
<1>1. ASSUME NEW i \in DOMAIN batch, Task(i)  PROVE RolloutInv'
  BY <1>1, BeginKeeps, ReadActiveKeeps, ReadRollingKeeps, PatchKeeps DEF Task
<1>2. ASSUME NEW i \in DOMAIN batch, RequestFails(i)  PROVE RolloutInv'
  <2>1. PICK outcome \in {"failed", "nothing"} : Finish(i, outcome)
    BY <1>2 DEF RequestFails
  <2> QED  BY <1>2, <2>1, FinishKeeps DEF RequestFails
<1>3. ASSUME NEW d \in Concerned, RollOut(d) \/ OthersRestart(d)  PROVE RolloutInv'
  BY <1>3, ConcernedInAll, RollOutKeeps, OthersRestartKeeps
<1> QED  BY <1>1, <1>2, <1>3 DEF RolloutNext

(***************************************************************************)
(* The pods and their watch.                                               *)
(***************************************************************************)
LEMMA OthersKeepCall ==
  ASSUME RolloutInv, UNCHANGED <<clusterVars, callVars>>
  PROVE  ClusterTypes' /\ CallTypes' /\ TasksOwn' /\ Returned' = Returned /\ Response' = Response
<1>1. ClusterTypes' /\ CallTypes'
  BY DEF RolloutInv, ClusterTypes, CallTypes, clusterVars, callVars
<1>2. TasksOwn'
  BY DEF RolloutInv, TasksOwn, Undisturbed, Unmistakable, Own, clusterVars, callVars
<1>3. Returned' = Returned /\ Response' = Response
  BY DEF Returned, Response, At, callVars
<1> QED  BY <1>1, <1>2, <1>3

LEMMA PodsKeep ==
  ASSUME RolloutInv, Pods  PROVE  RolloutInv'
<1>1. PICK d \in Concerned :
        \E rev \in DOMAIN revisions[d] : \E p \in PodsOf([of |-> d, rev |-> rev]) :
          CreatePod(p) \/ PodIsReady(p) \/ DeletePod(p)
  BY DEF Pods
<1>2. PICK rev \in DOMAIN revisions[d] :
        \E p \in PodsOf([of |-> d, rev |-> rev]) : CreatePod(p) \/ PodIsReady(p) \/ DeletePod(p)
  BY <1>1
<1>3. PICK p \in PodsOf([of |-> d, rev |-> rev]) : CreatePod(p) \/ PodIsReady(p) \/ DeletePod(p)
  BY <1>2
<1>4. p \in PodsOf(p.set)
  BY <1>3 DEF PodsOf
<1>5. UNCHANGED <<rolloutVars, watchVars>>
  BY <1>3 DEF CreatePod, PodIsReady, DeletePod
<1>6. ClusterTypes' /\ CallTypes' /\ TasksOwn' /\ WatchOK'
  BY <1>5, OthersKeepCall DEF RolloutInv, WatchOK, rolloutVars, watchVars
<1>7. UNCHANGED <<revisions, batch, wanted, watchPc, podsList, unchecked>>
  BY <1>5 DEF rolloutVars, clusterVars, callVars, watchVars, checkVars
<1>8. p.set.of \in All /\ p.set.rev \in DOMAIN revisions[p.set.of]
  <2>1. p.set = [of |-> d, rev |-> rev]
    BY <1>3 DEF PodsOf
  <2> QED  BY <2>1, ConcernedInAll
<1>9. /\ ready' \subseteq pods' /\ pods' \subseteq pods \cup {p}
      /\ p.set \in CurrentSets => ready \subseteq ready'
      /\ \A q \in ready : q # p => q \in ready'
  BY <1>3 DEF RolloutInv, PodsOK, CreatePod, PodIsReady, DeletePod
<1>10. PodsOK'
  BY <1>4, <1>7, <1>8, <1>9 DEF RolloutInv, PodsOK, PodsOf
<1>11. CurrentSets' = CurrentSets
  BY <1>7 DEF CurrentSets, Concerned
<1>12. CheckOK'
  BY <1>7, <1>9, <1>11 DEF RolloutInv, CheckOK, PodsAreReady
<1> QED  BY <1>6, <1>10, <1>12 DEF RolloutInv

LEMMA WatchKeeps ==
  ASSUME RolloutInv, UNCHANGED <<clusterVars, callVars, podVars>>,
         \/ watchPc = "none" /\ Returned /\ wanted' = Response
         \/ UNCHANGED wanted /\ (watchPc' # "none" => watchPc # "none"),
         podsList' \subseteq podsList \cup ready,
         watchPc' = "get" => \A s \in wanted' \ unchecked' : PodsAreReady(s)'
  PROVE  RolloutInv'
<1>1. ClusterTypes' /\ CallTypes' /\ TasksOwn' /\ Returned' = Returned /\ Response' = Response
  BY OthersKeepCall
<1>2. UNCHANGED <<revisions, batch, pods, ready>> /\ CurrentSets' = CurrentSets
  BY DEF clusterVars, callVars, podVars, CurrentSets, Concerned
<1>3. PodsOK'
  BY <1>2 DEF RolloutInv, PodsOK, PodsOf
<1>4. WatchOK'
  BY <1>1 DEF RolloutInv, WatchOK
<1>5. CheckOK'
  BY <1>2 DEF RolloutInv, CheckOK
<1> QED  BY <1>1, <1>3, <1>4, <1>5 DEF RolloutInv

\* A step that gets nothing leaves the check as it is, or ends it.
LEMMA OtherWatchStepKeeps ==
  ASSUME RolloutInv, UNCHANGED <<clusterVars, callVars, podVars>>, UNCHANGED wanted,
         watchPc' # "none" => watchPc # "none",
         \/ UNCHANGED checkVars /\ (watchPc' = "get" => watchPc = "get")
         \/ podsList' = {} /\ watchPc' # "get"
  PROVE  RolloutInv'
<1>1. podsList' \subseteq podsList \cup ready
  BY DEF checkVars
<1>2. watchPc' = "get" => \A s \in wanted' \ unchecked' : PodsAreReady(s)'
  BY DEF RolloutInv, CheckOK, PodsAreReady, checkVars
<1> QED  BY <1>1, <1>2, WatchKeeps

LEMMA CheckKeeps ==
  ASSUME RolloutInv, AllPodsAreReady  PROVE  RolloutInv'
<1>1. UNCHANGED <<clusterVars, callVars, podVars, wanted>> /\ watchPc \in {"list", "get"}
  BY DEF AllPodsAreReady, ListPods, GetSet, rolloutVars
<1>2. CASE ListPods
  <2>1. podsList' \subseteq podsList \cup ready /\ wanted' \ unchecked' = {}
    BY <1>2 DEF ListPods
  <2> QED  BY <1>1, <2>1, WatchKeeps
<1>3. ASSUME NEW s \in wanted, GetSet(s)  PROVE RolloutInv'
  <2>1. CASE PodsAreReady(s) /\ ~IsLast(s)
    <3>1. unchecked' = unchecked \ {s} /\ UNCHANGED <<watchPc, podsList>> /\ watchPc = "get"
      BY <1>3, <2>1 DEF GetSet
    <3>2. \A t \in wanted' \ unchecked' : PodsAreReady(t)
      BY <1>1, <2>1, <3>1 DEF RolloutInv, CheckOK
    <3>3. \A t \in wanted' \ unchecked' : PodsAreReady(t)'
      BY <3>1, <3>2 DEF PodsAreReady
    <3> QED  BY <1>1, <3>1, <3>3, WatchKeeps
  <2>2. CASE ~(PodsAreReady(s) /\ ~IsLast(s))
    <3>1. podsList' = {} /\ watchPc' # "get"
      BY <1>3, <2>2 DEF GetSet
    <3> QED  BY <1>1, <3>1, OtherWatchStepKeeps
  <2> QED  BY <2>1, <2>2
<1> QED  BY <1>2, <1>3 DEF AllPodsAreReady

LEMMA NextKeeps ==
  ASSUME RolloutInv, [Next]_vars  PROVE  RolloutInv'
<1>1. CASE RolloutNext /\ UNCHANGED <<podVars, events, watchVars>>
  BY <1>1, RolloutKeeps
<1>2. CASE Pods
  BY <1>2, PodsKeep
<1>3. CASE WatchPodsRestarting
  <2>1. /\ UNCHANGED <<clusterVars, callVars, podVars, podsList>> /\ watchPc' = "receive"
        /\ watchPc = "none" /\ Returned /\ wanted' = Response
    BY <1>3 DEF WatchPodsRestarting, Succeeded, rolloutVars, checkVars
  <2> QED  BY <2>1, WatchKeeps
<1>4. CASE AllPodsAreReady
  BY <1>4, CheckKeeps
<1>5. CASE \/ Relist \/ SourceEnds \/ PodsRequestFails \/ ClientReads \/ ReceivePodEvent \/ ReceiveEnd
           \/ EndWatch \/ UNCHANGED vars
  <2>1. UNCHANGED <<clusterVars, callVars, podVars>> /\ UNCHANGED wanted
    BY <1>5 DEF Relist, SourceEnds, PodsRequestFails, ClientReads, ReceivePodEvent, ReceiveEnd,
                EndWatch, vars, watchVars, rolloutVars
  <2>2. /\ watchPc' # "none" => watchPc # "none"
        /\ \/ UNCHANGED checkVars /\ (watchPc' = "get" => watchPc = "get")
           \/ podsList' = {} /\ watchPc' # "get"
    BY <1>5 DEF Relist, SourceEnds, PodsRequestFails, ClientReads, ReceivePodEvent, ReceiveEnd,
                EndWatch, vars, watchVars
  <2> QED  BY <2>1, <2>2, OtherWatchStepKeeps
<1> QED  BY <1>1, <1>2, <1>3, <1>4, <1>5 DEF Next, Goroutine

LEMMA InitRolloutInv == Init => RolloutInv
<1> SUFFICES ASSUME Init  PROVE RolloutInv
  OBVIOUS
<1>1. PICK before \in 0 .. 1 : template = [d \in All |-> IF d \in Configs THEN 1 ELSE before]
  BY DEF Init, RolloutInit
<1>2. now = 1 /\ revisions = [d \in All |-> <<template[d]>>] /\ task = [i \in DOMAIN batch |-> Queued]
  BY DEF Init, RolloutInit
<1>3. PICK c \in Calls : batch = c.names
  BY DEF Init, RolloutInit
<1>4. ClusterTypes
  <2>1. template \in [All -> Nat]
    BY <1>1
  <2>2. \A d \in All : <<template[d]>> \in Seq(Nat) /\ <<template[d]>> # <<>>
    BY <2>1
  <2> QED  BY <1>2, <2>1, <2>2 DEF ClusterTypes
<1>5. Queued \in Restart /\ Queued.pc = "queued" /\ Queued.outcome = "none" /\ ~Queued.quiet
  BY DEF Queued, Restart, Pcs, Sets, NoSet
<1>6. CallTypes
  BY <1>2, <1>3, <1>5, RolloutAssumption DEF CallTypes, All
<1>7. TasksOwn
  BY <1>2, <1>5 DEF TasksOwn, Undisturbed
<1>8. WatchOK /\ CheckOK
  BY DEF Init, WatchOK, CheckOK
<1>9. PodsOK
  <2>1. ready = pods /\ podsList = {} /\ pods = UNION {PodsOf(s) : s \in CurrentSets}
    BY DEF Init
  <2>2. ASSUME NEW p \in pods
        PROVE  p \in PodsOf(p.set) /\ p.set.of \in All /\ p.set.rev \in DOMAIN revisions[p.set.of]
    <3>1. PICK d \in Concerned : p \in PodsOf([of |-> d, rev |-> Len(revisions[d])])
      BY <2>1 DEF CurrentSets
    <3>2. p.set = [of |-> d, rev |-> Len(revisions[d])] /\ p \in PodsOf(p.set)
      BY <3>1 DEF PodsOf
    <3>3. d \in All /\ Len(revisions[d]) \in DOMAIN revisions[d]
      BY <1>4, ConcernedInAll, RevisionTypes
    <3> QED  BY <3>2, <3>3
  <2> QED  BY <2>1, <2>2 DEF PodsOK
<1> QED  BY <1>4, <1>6, <1>7, <1>8, <1>9 DEF RolloutInv

LEMMA AlwaysRolloutInv == Spec => []RolloutInv
BY InitRolloutInv, NextKeeps, PTL DEF Spec

(***************************************************************************)
(* RolloutDeployments (kubernetes/pod.go 87-173): the set that is answered *)
(* has the template of this very call, when nobody else restarts the       *)
(* deployment meanwhile and no longer name is taken for its own.           *)
(***************************************************************************)
THEOREM AnsweredSetIsOwn == Spec => []RollingIsOwn
<1>1. RolloutInv => RollingIsOwn
  BY DEF RolloutInv, TasksOwn, RollingIsOwn, Own
<1> QED  BY <1>1, AlwaysRolloutInv, PTL

\* As many ready pods of a set as it is to have are all its pods.
LEMMA ReadySetIsWhole ==
  ASSUME PodsOK, NEW s, PodsAreReady(s)
  PROVE  PodsOf(s) \subseteq podsList
<1> DEFINE numbers == 1 .. Replicas
           f == [n \in numbers |-> [set |-> s, n |-> n]]
           found == {p \in podsList : p.set = s}
<1>1. f \in Surjection(numbers, PodsOf(s))
  BY DEF PodsOf, Surjection
<1>2. IsFiniteSet(numbers) /\ Cardinality(numbers) = Replicas
  BY PodsAssumption, FS_Interval
<1>3. IsFiniteSet(PodsOf(s)) /\ Cardinality(PodsOf(s)) <= Replicas
  BY <1>1, <1>2, FS_Surjection
<1>4. found \subseteq PodsOf(s)
  BY DEF PodsOK
<1>5. Cardinality(found) = Replicas
  BY DEF PodsAreReady
<1>6. Cardinality(PodsOf(s)) = Cardinality(found)
  BY <1>3, <1>4, <1>5, FS_Subset, FS_CardinalityType, PodsAssumption
<1>7. PodsOf(s) = found
  BY <1>3, <1>4, <1>6, FS_Subset
<1> QED  BY <1>7

ClosesRolledOut ==
  watchPc # "close" /\ watchPc' = "close" =>
    \A i \in DOMAIN batch : task[i].outcome = "ok" /\ Undisturbed(i) => RolledOut(i)

LEMMA StepClosesRolledOut ==
  ASSUME RolloutInv, [Next]_vars  PROVE  ClosesRolledOut
<1> SUFFICES ASSUME watchPc # "close", watchPc' = "close", NEW i \in DOMAIN batch,
                    task[i].outcome = "ok", Undisturbed(i)
             PROVE  RolledOut(i)
  BY DEF ClosesRolledOut
<1> DEFINE set == task[i].rolling
<1>1. PICK s \in wanted : GetSet(s)
  BY DEF Next, Pods, CreatePod, PodIsReady, DeletePod, WatchPodsRestarting, Relist, SourceEnds,
         PodsRequestFails, ClientReads, Goroutine, ReceivePodEvent, ReceiveEnd, AllPodsAreReady,
         ListPods, EndWatch, vars, watchVars
<1>2. watchPc = "get" /\ PodsAreReady(s) /\ unchecked = {s}
  BY <1>1 DEF GetSet, IsLast
<1>3. set \in wanted
  BY <1>2 DEF RolloutInv, WatchOK, Response
<1>4. PodsAreReady(set)
  BY <1>2, <1>3 DEF RolloutInv, CheckOK
<1>5. PodsOf(set) \subseteq podsList
  BY <1>4, ReadySetIsWhole DEF RolloutInv
<1>6. set \in CurrentSets => PodsOf(set) \subseteq ready
  <2>1. \A p \in PodsOf(set) : p.set = set
    BY DEF PodsOf
  <2> QED  BY <1>5, <2>1 DEF RolloutInv, CheckOK
<1>7. revisions[batch[i]][set.rev] = task[i].stamp
  BY DEF RolloutInv, TasksOwn, Own
<1> QED  BY <1>5, <1>6, <1>7 DEF RolledOut

(***************************************************************************)
(* WatchPodsRestarting (kubernetes/pod.go 215-400): when the goroutine     *)
(* decides to close the watch, the set of every deployment of the batch    *)
(* has the template of this rollout, all its pods were ready when the pods *)
(* were listed, whatever came between that request and those for the sets, *)
(* and they still are unless a newer rollout takes them away.              *)
(***************************************************************************)
THEOREM ClosedWatchIsRolledOut == Spec => ClosedMeansRolledOut
<1>1. RolloutInv /\ [Next]_vars => [ClosesRolledOut]_vars
  BY StepClosesRolledOut
<1> QED  BY <1>1, AlwaysRolloutInv, PTL DEF Spec, ClosedMeansRolledOut, ClosesRolledOut

-----------------------------------------------------------------------------
(***************************************************************************)
(* The conversions of Entities.                                            *)
(***************************************************************************)
\* Through an entity and back, a record of known fields stays what it is.
LEMMA FillCopy ==
  ASSUME NEW known, NEW all, known \subseteq all, NEW r \in [all -> Fields], Plain(r, known)
  PROVE  Fill(Copy(r, known), known, all) = r
BY DEF Fill, Copy, Plain

LEMMA MetaSurvives ==
  ASSUME NEW meta \in ObjectMetas, Plain(meta, MetadataFields)
  PROVE  ToObjectMeta(FromObjectMeta(meta)) = meta
BY FillCopy DEF ObjectMetas, ObjectMetaFields, FromObjectMeta, ToObjectMeta

LEMMA CopySurvives ==
  ASSUME NEW fields, NEW r \in [fields -> Fields]
  PROVE  Copy(Copy(r, fields), fields) = r
BY DEF Copy

LEMMA AppendedSurvives ==
  ASSUME NEW s \in Slices, s # <<>>  PROVE  Appended(Appended(s)) = s
BY DEF Appended

LEMMA MaybeCopySurvives ==
  ASSUME NEW fields, NEW r \in [fields -> Fields] \cup {Nil}, Nil \notin [fields -> Fields]
  PROVE  MaybeCopy(MaybeCopy(r, fields), fields) = r
<1>1. CASE r = Nil
  BY <1>1 DEF MaybeCopy
<1>2. CASE r \in [fields -> Fields]
  <2>1. Copy(r, fields) = r
    BY <1>2 DEF Copy
  <2> QED  BY <1>2, <2>1 DEF MaybeCopy
<1> QED  BY <1>1, <1>2

LEMMA PortSurvives ==
  ASSUME NEW p \in [ServicePortFields -> Fields], Plain(p, PortFields), p["targetPort"] \in Numbers
  PROVE  ToServicePort(NewPort(p)) = p
<1>1. IntVal(p["targetPort"]) = p["targetPort"]
  BY DEF IntVal
<1>2. NewPort(p) = Copy(p, PortFields)
  BY <1>1 DEF NewPort, Copy
<1>3. PortFields \subseteq ServicePortFields
  BY DEF ServicePortFields
<1> QED  BY <1>2, <1>3, FillCopy DEF ToServicePort

LEMMA KeystoreSurvives ==
  ASSUME NEW ks \in Keystores, ks # Nil => Plain(ks, KeystoreFields)
  PROVE  MaybeFill(MaybeCopy(ks, KeystoreFields), KeystoreFields, KeystoreFields \cup {"profile"}) = ks
<1> DEFINE all == KeystoreFields \cup {"profile"}
<1>1. CASE ks = Nil
  BY <1>1 DEF MaybeFill, MaybeCopy
<1>2. CASE ks # Nil
  <2>1. ks \in [all -> Fields] /\ Plain(ks, KeystoreFields)
    BY <1>2 DEF Keystores
  <2>2. Fill(Copy(ks, KeystoreFields), KeystoreFields, all) = ks
    BY <2>1, FillCopy
  <2>3. Copy(ks, KeystoreFields) # Nil
    <3>1. Copy(ks, KeystoreFields) \in [KeystoreFields -> Fields]
      BY <2>1 DEF Copy
    <3> QED  BY <3>1, EntitiesAssumption
  <2> QED  BY <1>2, <2>2, <2>3 DEF MaybeFill, MaybeCopy
<1> QED  BY <1>1, <1>2

LEMMA KeystoresSurvive ==
  ASSUME NEW ck \in [{"jks", "pkcs12"} -> Keystores] \cup {Nil},
         ck # Nil => \A k \in {"jks", "pkcs12"} : ck[k] # Nil => Plain(ck[k], KeystoreFields)
  PROVE  ToCertificateKeystores(NewCertificateKeystores(ck)) = ck
<1> DEFINE both == {"jks", "pkcs12"}
           read == [k \in both |-> MaybeCopy(ck[k], KeystoreFields)]
<1>1. CASE ck = Nil
  BY <1>1 DEF ToCertificateKeystores, NewCertificateKeystores
<1>2. CASE ck # Nil
  <2>1. NewCertificateKeystores(ck) = read
    BY <1>2 DEF NewCertificateKeystores
  <2>2. ck \in [both -> Keystores]
    BY <1>2
  <2>3. read # Nil
    <3>1. ASSUME NEW k \in both PROVE MaybeCopy(ck[k], KeystoreFields) \in KeystoreEntities
      <4>1. CASE ck[k] = Nil
        BY <4>1 DEF MaybeCopy, KeystoreEntities
      <4>2. CASE ck[k] # Nil
        <5>1. ck[k] \in [KeystoreFields \cup {"profile"} -> Fields]
          BY <2>2, <4>2 DEF Keystores
        <5> QED  BY <4>2, <5>1 DEF MaybeCopy, Copy, KeystoreEntities
      <4> QED  BY <4>1, <4>2
    <3>2. read \in [both -> KeystoreEntities]
      BY <3>1
    <3> QED  BY <3>2, EntitiesAssumption
  <2>4. ASSUME NEW k \in both
        PROVE  MaybeFill(read[k], KeystoreFields, KeystoreFields \cup {"profile"}) = ck[k]
    <3>1. ck[k] \in Keystores /\ (ck[k] # Nil => Plain(ck[k], KeystoreFields))
      BY <1>2, <2>2
    <3>2. read[k] = MaybeCopy(ck[k], KeystoreFields)
      OBVIOUS
    <3> HIDE DEF read
    <3> QED  BY <3>1, <3>2, KeystoreSurvives
  <2> HIDE DEF read
  <2>5. ToCertificateKeystores(read)
          = [k \in both |-> MaybeFill(read[k], KeystoreFields, KeystoreFields \cup {"profile"})]
    BY <2>3 DEF ToCertificateKeystores
  <2>6. ToCertificateKeystores(read) = ck
    BY <2>2, <2>4, <2>5
  <2> QED  BY <2>1, <2>6
<1> QED  BY <1>1, <1>2

(***************************************************************************)
(* One kind after the other.                                               *)
(***************************************************************************)
LEMMA SecretSurvives ==
  ASSUME NEW o \in SecretObjects, PlainObject(o)  PROVE  ToSecret(NewSecret(o)) = o
<1>1. ToObjectMeta(FromObjectMeta(o.meta)) = o.meta
  BY MetaSurvives DEF PlainObject, SecretObjects, ObjectMetas
<1> QED  BY <1>1 DEF ToSecret, NewSecret, PlainObject, PlainSecret, SecretObjects

LEMMA ConfigMapSurvives ==
  ASSUME NEW o \in ConfigMapObjects, PlainObject(o)  PROVE  ToConfigMap(NewConfigMap(o)) = o
<1>1. ToObjectMeta(FromObjectMeta(o.meta)) = o.meta
  BY MetaSurvives DEF PlainObject, ConfigMapObjects, ObjectMetas
<1> QED  BY <1>1 DEF ToConfigMap, NewConfigMap, PlainObject, PlainConfigMap, ConfigMapObjects

LEMMA ServiceSurvives ==
  ASSUME NEW o \in ServiceObjects, PlainObject(o)  PROVE  ToService(NewService(o)) = o
<1> DEFINE e == NewService(o)
           ports == [i \in DOMAIN o.ports |-> NewPort(o.ports[i])]
<1>1. ToObjectMeta(FromObjectMeta(o.meta)) = o.meta
  BY MetaSurvives DEF PlainObject, ServiceObjects, ObjectMetas
<1>2. Fill(Copy(o.spec, ServiceFields), ServiceFields, ServiceSpecFields) = o.spec
  BY FillCopy DEF PlainObject, PlainService, ServiceObjects, ServiceSpecFields
<1>3. ASSUME NEW i \in DOMAIN o.ports PROVE ToServicePort(NewPort(o.ports[i])) = o.ports[i]
  <2>1. o.ports[i] \in [ServicePortFields -> Fields]
    BY DEF ServiceObjects
  <2>2. Plain(o.ports[i], PortFields) /\ o.ports[i]["targetPort"] \in Numbers
    BY DEF PlainObject, PlainService, ServiceObjects
  <2> QED  BY <2>1, <2>2, PortSurvives
<1>4. o.ports \in Seq([ServicePortFields -> Fields])
  BY DEF ServiceObjects
<1>5. o.ports = [i \in DOMAIN o.ports |-> o.ports[i]]
  BY <1>4
<1>6. DOMAIN ports = DOMAIN o.ports /\ \A i \in DOMAIN o.ports : ports[i] = NewPort(o.ports[i])
  OBVIOUS
<1>7. [i \in DOMAIN ports |-> ToServicePort(ports[i])] = o.ports
  <2> HIDE DEF ports
  <2> QED  BY <1>3, <1>5, <1>6
<1> QED  BY <1>1, <1>2, <1>7 DEF ToService, NewService, ServiceObjects

LEMMA SpecSurvives ==
  ASSUME NEW o \in CertificateObjects, PlainObject(o)
  PROVE  ToCertificateSpec(NewCertificateSpec(o.spec)) = o.spec
<1> DEFINE cs == o.spec
<1>1. /\ cs.fields \in [CertificateSpecFields -> Fields] /\ cs.issuerRef \in [IssuerFields -> Fields]
      /\ cs.usages \in Slices /\ cs.privateKey \in [PrivateKeyFields -> Fields] \cup {Nil}
      /\ cs.keystores \in [{"jks", "pkcs12"} -> Keystores] \cup {Nil}
      /\ cs.secretTemplate \in [TemplateFields -> Fields] \cup {Nil}
  BY DEF CertificateObjects
<1>2. /\ Plain(cs.fields, CertificateFields) /\ cs.usages # <<>>
      /\ cs.keystores # Nil =>
           \A k \in {"jks", "pkcs12"} : cs.keystores[k] # Nil => Plain(cs.keystores[k], KeystoreFields)
  BY DEF PlainObject, PlainCertificate, CertificateObjects
<1>3. Fill(Copy(cs.fields, CertificateFields), CertificateFields, CertificateSpecFields) = cs.fields
  BY <1>1, <1>2, FillCopy DEF CertificateSpecFields
<1>4. Copy(Copy(cs.issuerRef, IssuerFields), IssuerFields) = cs.issuerRef
  BY <1>1, CopySurvives
<1>5. Appended(Appended(cs.usages)) = cs.usages
  BY <1>1, <1>2, AppendedSurvives
<1>6. /\ MaybeCopy(MaybeCopy(cs.privateKey, PrivateKeyFields), PrivateKeyFields) = cs.privateKey
      /\ MaybeCopy(MaybeCopy(cs.secretTemplate, TemplateFields), TemplateFields) = cs.secretTemplate
  BY <1>1, MaybeCopySurvives, EntitiesAssumption
<1>7. ToCertificateKeystores(NewCertificateKeystores(cs.keystores)) = cs.keystores
  BY <1>1, <1>2, KeystoresSurvive
<1>8. cs = [fields |-> cs.fields, issuerRef |-> cs.issuerRef, usages |-> cs.usages,
            privateKey |-> cs.privateKey, keystores |-> cs.keystores,
            secretTemplate |-> cs.secretTemplate]
  BY DEF CertificateObjects
<1> HIDE DEF cs
<1> QED  BY <1>3, <1>4, <1>5, <1>6, <1>7, <1>8 DEF ToCertificateSpec, NewCertificateSpec, cs

LEMMA CertificateSurvives ==
  ASSUME NEW o \in CertificateObjects, PlainObject(o)
  PROVE  ToCertificate(NewCertificate(o)) = o
<1>1. ToObjectMeta(FromObjectMeta(o.meta)) = o.meta
  BY MetaSurvives DEF PlainObject, CertificateObjects, ObjectMetas
<1>2. ToCertificateSpec(NewCertificateSpec(o.spec)) = o.spec
  BY SpecSurvives
<1>3. Copy(Copy(o.status.fields, StatusFields), StatusFields) = o.status.fields
  BY CopySurvives DEF CertificateObjects
<1>4. Appended(Appended(o.status.conditions)) = o.status.conditions
  BY AppendedSurvives DEF CertificateObjects, PlainObject, PlainCertificate
<1>5. ToCertificateStatus(NewCertificateStatus(o.status)) = o.status
  BY <1>3, <1>4 DEF ToCertificateStatus, NewCertificateStatus, CertificateObjects
<1> QED  BY <1>1, <1>2, <1>5 DEF ToCertificate, NewCertificate, CertificateObjects

(***************************************************************************)
(* What is read is of the object, and what is written of what was read.    *)
(***************************************************************************)
Objecting == object \in Objects \cup {Nil}
Reading ==
  entity # Nil => /\ object \in Objects
                  /\ object.kind = "Secret" => entity = NewSecret(object)
                  /\ object.kind = "ConfigMap" => entity = NewConfigMap(object)
                  /\ object.kind = "Service" => entity = NewService(object)
                  /\ object.kind = "Certificate" => entity = NewCertificate(object)
EntityInv == Objecting /\ Reading /\ (written # Nil => object # Nil) /\ WriteBackKeeps

LEMMA WriteKeeps ==
  ASSUME EntityInv, WriteEntity  PROVE  WriteBackKeeps'
<1> SUFFICES ASSUME PlainObject(object)  PROVE  written' = object
  BY DEF WriteBackKeeps, WriteEntity
<1>1. object \in Objects /\ Reading /\ entity # Nil
  BY DEF EntityInv, Reading, WriteEntity
<1>2. CASE object \in SecretObjects
  <2>1. object.kind = "Secret" /\ entity = NewSecret(object)
    BY <1>1, <1>2 DEF SecretObjects, Reading
  <2>2. written' = ToSecret(entity)
    BY <2>1 DEF NewSecret, WriteEntity
  <2> QED  BY <1>2, <2>1, <2>2, SecretSurvives
<1>3. CASE object \in ConfigMapObjects
  <2>1. object.kind = "ConfigMap" /\ entity = NewConfigMap(object)
    BY <1>1, <1>3 DEF ConfigMapObjects, Reading
  <2>2. written' = ToConfigMap(entity)
    BY <2>1 DEF NewConfigMap, WriteEntity
  <2> QED  BY <1>3, <2>1, <2>2, ConfigMapSurvives
<1>4. CASE object \in ServiceObjects
  <2>1. object.kind = "Service" /\ entity = NewService(object)
    BY <1>1, <1>4 DEF ServiceObjects, Reading
  <2>2. written' = ToService(entity)
    BY <2>1 DEF NewService, WriteEntity
  <2> QED  BY <1>4, <2>1, <2>2, ServiceSurvives
<1>5. CASE object \in CertificateObjects
  <2>1. object.kind = "Certificate" /\ entity = NewCertificate(object)
    BY <1>1, <1>5 DEF CertificateObjects, Reading
  <2>2. written' = ToCertificate(entity)
    BY <2>1 DEF NewCertificate, WriteEntity
  <2> QED  BY <1>5, <2>1, <2>2, CertificateSurvives
<1> QED  BY <1>1, <1>2, <1>3, <1>4, <1>5, EntitiesAssumption

LEMMA EntityStep == EntityInv /\ [EntityNext]_entityVars => EntityInv'
<1> SUFFICES ASSUME EntityInv, [EntityNext]_entityVars  PROVE  EntityInv'
  OBVIOUS
<1>1. CASE Stored
  <2>1. entity = Nil /\ written = Nil
    BY <1>1, EntitiesAssumption DEF EntityInv, Reading, Stored
  <2> QED  BY <1>1, <2>1 DEF Stored, EntityInv, Objecting, Reading, WriteBackKeeps
<1>2. CASE ReadEntity
  <2>1. /\ object \in Objects /\ UNCHANGED <<object, written>> /\ written = Nil
    BY <1>2 DEF ReadEntity, EntityInv, Objecting
  <2>2. Reading'
    BY <1>2, <2>1 DEF ReadEntity, Reading
  <2> QED  BY <2>1, <2>2 DEF EntityInv, Objecting, WriteBackKeeps
<1>3. CASE WriteEntity
  <2>1. WriteBackKeeps'
    BY <1>3, WriteKeeps
  <2>2. entity' = Nil /\ object' = object /\ object \in Objects
    BY <1>3 DEF WriteEntity, EntityInv, Reading
  <2> QED  BY <2>1, <2>2, EntitiesAssumption DEF EntityInv, Objecting, Reading
<1>4. CASE UNCHANGED entityVars
  BY <1>4 DEF entityVars, EntityInv, Objecting, Reading, WriteBackKeeps
<1> QED  BY <1>1, <1>2, <1>3, <1>4 DEF EntityNext

\* Whatever the object: the conversions of a read and a write that follow each other
\* drop nothing that the entity has a place for (src/entity).
THEOREM NothingKnownIsDropped == EntitySpec => []WriteBackKeeps
<1>1. NoObject => EntityInv
  BY DEF NoObject, EntityInv, Objecting, Reading, WriteBackKeeps
<1>2. EntityInv => WriteBackKeeps
  BY DEF EntityInv
<1> QED  BY <1>1, <1>2, EntityStep, PTL DEF EntitySpec
=============================================================================
