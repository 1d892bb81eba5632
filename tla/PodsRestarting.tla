---------------------------- MODULE PodsRestarting ----------------------------
(***************************************************************************)
(* WatchPodsRestarting (kubernetes/pod.go): a client that has rolled out a *)
(* batch watches the pods of the rolling replica sets.  A goroutine        *)
(* forwards their events, lists the pods after each, asks for the sets one *)
(* by one, and closes the watch when all of them are ready.  The pods come *)
(* and go as the controllers of the cluster will; a ready pod of a current *)
(* set stays so.                                                           *)
(*                                                                         *)
(* The replica sets have distinct names, none the beginning of another;    *)
(* those that no name of the batch fits are left out.                      *)
(***************************************************************************)
EXTENDS Rollout

CONSTANT Replicas  \* the pods that every replica set is to have

ASSUME PodsAssumption == Replicas \in Nat \ {0}

VARIABLES
  pods, ready,  \* a pod is [set |-> replica set, n |-> number]
  events,       \* of the wanted sets' pods, under way to the goroutine
  source,       \* what the events end with: closed, or an error and closed
  wanted,       \* replicasMap
  watchPc,      \* of the goroutine
  podsList,     \* the ready pods of the wanted sets, when they were listed
  unchecked,    \* the sets that have not been asked for since
  proxyChannel, \* of capacity 1
  told          \* type of the last message that the client has read

podVars == <<pods, ready>>
checkVars == <<podsList, unchecked>>
watchVars == <<source, wanted, watchPc, checkVars, proxyChannel, told>>
vars == <<rolloutVars, podVars, events, watchVars>>

CurrentSets == {[of |-> d, rev |-> Len(revisions[d])] : d \in Concerned}
PodsOf(s) == [set : {s}, n : 1 .. Replicas]
PodEvent(type, p) == [type |-> type, pod |-> p]
Listing(sets) == SetToSeqs({PodEvent("ADDED", p) : p \in {q \in pods : q.set \in sets}})
CloseMessage == [type |-> "CLOSE", pod |-> "none"]
ErrorMessage == [type |-> "ERROR", pod |-> "none"]

Init ==
  /\ RolloutInit
  /\ pods = UNION {PodsOf(s) : s \in CurrentSets} /\ ready = pods
  /\ events = <<>> /\ source = "open" /\ wanted = {} /\ watchPc = "none"
  /\ podsList = {} /\ unchecked = {}
  /\ proxyChannel = <<>> /\ told = "none"

(***************************************************************************)
(* The pods.                                                               *)
(***************************************************************************)
\* Mutant: only a new pod is worth a look.
NewPodMutant(e) == e.pod.set \in wanted /\ e.type = "ADDED"

CorrectPod(e) == e.pod.set \in wanted

Watching == watchPc \in {"receive", "list", "get"} /\ source = "open"

\* What the goroutine drops, or does not receive any more, is left out of events.
Published(e) ==
  events' = IF Watching /\ CorrectPod(e) THEN Append(events, e) ELSE events

CreatePod(p) ==
  /\ p \notin pods /\ p.set \in CurrentSets
  /\ pods' = pods \cup {p} /\ Published(PodEvent("ADDED", p))
  /\ UNCHANGED <<rolloutVars, ready, watchVars>>

PodIsReady(p) ==
  /\ p \in pods \ ready
  /\ ready' = ready \cup {p} /\ Published(PodEvent("MODIFIED", p))
  /\ UNCHANGED <<rolloutVars, pods, watchVars>>

\* Of a set that was answered: nobody looks at the pods of the other old sets, which
\* are left.
DeletePod(p) ==
  /\ p \in pods /\ p.set \notin CurrentSets /\ p.set \in Response
  /\ pods' = pods \ {p} /\ ready' = ready \ {p} /\ Published(PodEvent("DELETED", p))
  /\ UNCHANGED <<rolloutVars, watchVars>>

(***************************************************************************)
(* The client and the goroutine.                                           *)
(***************************************************************************)
WatchPodsRestarting ==
  /\ watchPc = "none" /\ Succeeded /\ Response # {}
  /\ watchPc' = "receive" /\ wanted' = Response
  /\ events' \in Listing(Response)
  /\ UNCHANGED <<rolloutVars, podVars, source, checkVars, proxyChannel, told>>

\* The request ends before any BOOKMARK, and is repeated.
Relist ==
  /\ Watching
  /\ faultsLeft > 0 /\ faultsLeft' = faultsLeft - 1
  /\ events' \in Listing(wanted)
  /\ UNCHANGED <<clusterVars, callVars, podVars, watchVars>>

\* The loop that the events come from ends: an object of another kind, a cancelled
\* context, or a request that cannot be repeated.  The first events may still come.
SourceEnds ==
  /\ watchPc = "receive" /\ source = "open"
  /\ faultsLeft > 0 /\ faultsLeft' = faultsLeft - 1
  /\ source' \in {"closed", "error"}
  /\ \E n \in 0 .. Len(events) : events' = SubSeq(events, 1, n)
  /\ UNCHANGED <<clusterVars, callVars, podVars, wanted, watchPc, checkVars, proxyChannel, told>>

\* The send to proxyChannel that follows blocks: here the event is received when
\* there is room for it.
ReceivePodEvent ==
  /\ watchPc = "receive" /\ events # <<>> /\ events' = Tail(events)
  /\ proxyChannel = <<>> /\ proxyChannel' = <<Head(events)>>
  /\ watchPc' = "list"
  /\ UNCHANGED <<rolloutVars, podVars, source, wanted, checkVars, told>>

\* The goroutine returns and tells the client nothing; an error is not a pod, and
\* the conversion panics.
ReceiveEnd ==
  /\ watchPc = "receive" /\ events = <<>> /\ source # "open"
  /\ watchPc' = IF source = "closed" THEN "gone" ELSE "panic"
  /\ UNCHANGED <<rolloutVars, podVars, events, source, wanted, checkVars, proxyChannel, told>>

\* allPodsAreReady lists the pods once ...
ListPods ==
  /\ watchPc = "list" /\ watchPc' = "get"
  /\ podsList' = {p \in ready : p.set \in wanted} /\ unchecked' = wanted
  /\ UNCHANGED <<rolloutVars, podVars, events, source, wanted, proxyChannel, told>>

PodsAreReady(s) == Cardinality({p \in podsList : p.set = s}) = Replicas

\* The controllers first.
NextToGet(s) ==
  s \in unchecked /\ (s.of \in Configs \/ \A t \in unchecked : t.of \notin Configs)

\* Mutant: the pods of one set are enough.
OneSetMutant(s) == TRUE

IsLast(s) == unchecked = {s}

\* ... and asks for one set after the other, up to one that is not ready.
GetSet(s) ==
  /\ watchPc = "get" /\ NextToGet(s)
  /\ IF PodsAreReady(s) /\ ~IsLast(s)
     THEN unchecked' = unchecked \ {s} /\ UNCHANGED <<watchPc, podsList>>
     ELSE /\ watchPc' = IF PodsAreReady(s) THEN "close" ELSE "receive"
          /\ podsList' = {} /\ unchecked' = {}
  /\ UNCHANGED <<rolloutVars, podVars, events, source, wanted, proxyChannel, told>>

AllPodsAreReady == ListPods \/ \E s \in wanted : GetSet(s)

PodsRequestFails ==
  /\ watchPc \in {"list", "get"} /\ faultsLeft > 0 /\ faultsLeft' = faultsLeft - 1
  /\ watchPc' = "error" /\ podsList' = {} /\ unchecked' = {}
  /\ UNCHANGED <<clusterVars, callVars, podVars, events, source, wanted, proxyChannel, told>>

\* StopWatching ends the loop that the events come from.
EndWatch ==
  /\ watchPc \in {"close", "error"} /\ proxyChannel = <<>>
  /\ proxyChannel' = <<IF watchPc = "close" THEN CloseMessage ELSE ErrorMessage>>
  /\ watchPc' = "end" /\ events' = <<>>
  /\ UNCHANGED <<rolloutVars, podVars, source, wanted, checkVars, told>>

ClientReads ==
  /\ proxyChannel # <<>> /\ proxyChannel' = <<>>
  /\ told' = Head(proxyChannel).type
  /\ UNCHANGED <<rolloutVars, podVars, events, source, wanted, watchPc, checkVars>>

Goroutine == ReceivePodEvent \/ ReceiveEnd \/ AllPodsAreReady \/ EndWatch

Pods ==
  \E d \in Concerned : \E rev \in DOMAIN revisions[d] : \E p \in PodsOf([of |-> d, rev |-> rev]) :
    CreatePod(p) \/ PodIsReady(p) \/ DeletePod(p)

Next ==
  \/ RolloutNext /\ UNCHANGED <<podVars, events, watchVars>>
  \/ Pods
  \/ WatchPodsRestarting \/ Relist \/ SourceEnds \/ PodsRequestFails \/ ClientReads
  \/ Goroutine

\* Goroutines and controllers are scheduled; nobody has to fail or to restart
\* anything else.  A task, a controller takes finitely many steps: none starves
\* the others.
Tasks == \E i \in DOMAIN batch : Task(i)
Controllers == \E d \in Concerned : RollOut(d)
Fairness ==
  /\ WF_vars(Tasks /\ UNCHANGED <<podVars, events, watchVars>>)
  /\ WF_vars(Controllers /\ UNCHANGED <<podVars, events, watchVars>>)
  /\ WF_vars(Pods) /\ WF_vars(WatchPodsRestarting) /\ WF_vars(Goroutine) /\ WF_vars(ClientReads)

Spec == Init /\ [][Next]_vars /\ Fairness
=============================================================================
