----------------------------- MODULE CacheAdapter -----------------------------
(***************************************************************************)
(* A cache adapter (adapterForCache.go): one goroutine copies the events   *)
(* of a shared watch into the cache of its kind (cache.go), from which     *)
(* GetWrapper answers when the API server fails.  Routes write their       *)
(* caches themselves as well; that is in RouteOps.                         *)
(*                                                                         *)
(* The adapter is a client of the shared watch (kubeWatchServiceShared.go, *)
(* SharedWatch).  Its connection is a WatchStream, read by the notifier    *)
(* that serves the adapter; between the two an event may be skipped, lost, *)
(* or overtaken by one that the goroutine of an earlier connection sends   *)
(* late.  The version of a change is its place in the log.  The cache      *)
(* holds versions, 0 for nothing.                                          *)
(***************************************************************************)
EXTENDS WatchStream

CONSTANTS
  TooLarge,      \* versions that exceed the size of an item
  GatewayRoutes, \* is this the adapter of HTTPRoutes or GRPCRoutes?
  MaxVersion, MaxBreaks, MaxResumes,  \* bounds on the cluster and its connections
  MaxDisturbances                     \* bound: events that are lost, or sent late

ASSUME CacheAdapterAssumption ==
  /\ TooLarge \subseteq Nat \ {0} /\ GatewayRoutes \in BOOLEAN
  /\ MaxVersion \in Nat /\ MaxBreaks \in Nat /\ MaxResumes \in Nat /\ MaxDisturbances \in Nat

VARIABLES
  cache,      \* the entry of every object
  pc, hand,   \* the goroutine, and the MODIFIED event it is at work on
  ctxDone,
  heard,       \* processedVersions of the adapter's notifier, as it last sent them
  disturbed,   \* objects of which something was lost or late since the last Watch
  superseded,  \* has another client's Watch taken the connection over since?
  drained,     \* has a BOOKMARK brought other clients to the adapter's notifier since?
  breaksLeft, resumesLeft, disturbancesLeft

adapterVars == <<cache, pc, hand, ctxDone>>
notifierVars == <<heard, disturbed, superseded, drained>>
boundVars == <<breaksLeft, resumesLeft, disturbancesLeft>>
vars == <<streamVars, adapterVars, notifierVars, boundVars>>

NoEvent == Bookmark(0)

AdapterInit ==
  /\ Init
  /\ cache = [o \in Objects |-> 0]
  /\ pc = "start" /\ hand = NoEvent /\ ctxDone = FALSE
  /\ heard = [o \in Objects |-> 0] /\ disturbed = {} /\ superseded = FALSE /\ drained = FALSE
  /\ breaksLeft = MaxBreaks /\ resumesLeft = MaxResumes /\ disturbancesLeft = MaxDisturbances

(***************************************************************************)
(* The cluster and the connection.  A listing in the middle of the stream, *)
(* and its end, are breaks: what was deleted before is not told after.     *)
(* Another client's Watch starts the shared connection anew, with a        *)
(* listing that the adapter's notifier hears as well.                      *)
(***************************************************************************)
Cluster ==
  /\ \/ /\ Len(log) < MaxVersion
        /\ \E o \in Objects, type \in {"ADDED", "MODIFIED", "DELETED"} : Change(type, o)
     \/ SendBookmark /\ bookmark # Len(log) /\ ~Contains(stream, Bookmark(Len(log)))
  /\ UNCHANGED <<adapterVars, notifierVars, boundVars>>

ResumeStream ==
  /\ resumesLeft > 0 /\ resumesLeft' = resumesLeft - 1
  /\ Resume
  /\ UNCHANGED <<adapterVars, notifierVars, breaksLeft, disturbancesLeft>>

\* Of the old connection nothing is kept but what its goroutine sends late.
TakenOver ==
  /\ status = "open" /\ stream' \in Listings(store) /\ bookmark' = 0
  /\ superseded' = TRUE
  /\ UNCHANGED <<store, log, status>>

Break ==
  /\ breaksLeft > 0 /\ breaksLeft' = breaksLeft - 1
  /\ \/ TakenOver
     \/ (Relist \/ Close) /\ UNCHANGED superseded
  /\ UNCHANGED <<adapterVars, heard, disturbed, drained, resumesLeft, disturbancesLeft>>

(***************************************************************************)
(* The cache: ResourceCache, JSON and ristretto.  An entry that is there   *)
(* is replaced, a new one may be dropped, and any may be evicted or expire.*)
(***************************************************************************)
Deleted(o) == cache' = [cache EXCEPT ![o] = 0]
Set(o, version) ==
  IF version \in TooLarge THEN UNCHANGED cache
  ELSE \/ cache' = [cache EXCEPT ![o] = version]
       \/ cache[o] = 0 /\ UNCHANGED cache

Evict(o) ==
  cache[o] # 0 /\ Deleted(o) /\ UNCHANGED <<streamVars, pc, hand, ctxDone, notifierVars, boundVars>>

(***************************************************************************)
(* startWatching: the constructor waits for the first Watch.  Without an   *)
(* adapter for routes of a gateway the client goes on, without any other   *)
(* it is not built.                                                        *)
(***************************************************************************)
StartWatching ==
  /\ pc = "start" /\ pc' = "loop"
  /\ Open
  /\ UNCHANGED <<cache, hand, ctxDone, notifierVars, boundVars>>

StartFails ==
  /\ pc = "start"
  /\ \E forbidden \in BOOLEAN : pc' = IF forbidden /\ GatewayRoutes THEN "disabled" ELSE "failed"
  /\ UNCHANGED <<streamVars, cache, hand, ctxDone, notifierVars, boundVars>>

(***************************************************************************)
(* OnWatchEvent.  MODIFIED takes two steps.                                *)
(***************************************************************************)
\* Mutant: MODIFIED is only set, as ADDED is.
SetOnlyMutant(e) ==
  \/ e.type \in {"ADDED", "MODIFIED"} /\ Set(e.obj, e.rv) /\ UNCHANGED <<pc, hand>>
  \/ e.type = "DELETED" /\ Deleted(e.obj) /\ UNCHANGED <<pc, hand>>

\* Mutant: whatever is not MODIFIED is set too.
SetAllMutant(e) ==
  \/ e.type \in {"ADDED", "DELETED"} /\ Set(e.obj, e.rv) /\ UNCHANGED <<pc, hand>>
  \/ e.type = "MODIFIED" /\ Deleted(e.obj) /\ pc' = "set" /\ hand' = e

\* Mutant: the case of DELETED is missing.
NoDeletedMutant(e) ==
  \/ e.type = "ADDED" /\ Set(e.obj, e.rv) /\ UNCHANGED <<pc, hand>>
  \/ e.type = "MODIFIED" /\ Deleted(e.obj) /\ pc' = "set" /\ hand' = e
  \/ e.type = "DELETED" /\ UNCHANGED <<cache, pc, hand>>

OnWatchEvent(e) ==
  \/ e.type = "ADDED" /\ Set(e.obj, e.rv) /\ UNCHANGED <<pc, hand>>
  \/ e.type = "MODIFIED" /\ Deleted(e.obj) /\ pc' = "set" /\ hand' = e
  \/ e.type = "DELETED" /\ Deleted(e.obj) /\ UNCHANGED <<pc, hand>>

(***************************************************************************)
(* The notifier of the adapter, and the adapter's watchloop.  The channel  *)
(* has no buffer: an event is taken when it is sent.                       *)
(***************************************************************************)
As(e, type) == [e EXCEPT !.type = type]

\* A notifier that is not the newest resolves PREVIOUS by what was heard before, or
\* hears the type that an older one has found.
Arrivals(e) ==
  IF superseded /\ e.type = "ADDED" THEN {As(e, "ADDED"), As(e, "MODIFIED")} ELSE {e}

\* What superseded goroutines leave in the notifiers' memories of a disturbed object,
\* and in which of them, is left open.
TakeEvent ==
  /\ pc = "loop" /\ Receive
  /\ LET e == Head(stream) IN
       /\ e.type # "BOOKMARK" /\ (heard[e.obj] # e.rv \/ e.obj \in disturbed)
       /\ \E arrived \in Arrivals(e) : OnWatchEvent(arrived)
       /\ heard' = [heard EXCEPT ![e.obj] = e.rv]
  /\ UNCHANGED <<ctxDone, disturbed, superseded, drained, boundVars>>

\* A BOOKMARK is not for this client, and what was heard last is not sent again.
SkipEvent ==
  /\ Receive
  /\ LET e == Head(stream) IN
       /\ e.type # "BOOKMARK" => heard[e.obj] = e.rv \/ e.obj \in disturbed
       /\ drained' = (drained \/ e.type = "BOOKMARK")
  /\ UNCHANGED <<adapterVars, heard, disturbed, superseded, boundVars>>

\* The timer of another client of the notifier expires: sendToClients returns.
LoseEvent ==
  /\ drained /\ Receive
  /\ disturbancesLeft > 0 /\ disturbancesLeft' = disturbancesLeft - 1
  /\ LET e == Head(stream) IN
       /\ e.type # "BOOKMARK"
       /\ heard' = [heard EXCEPT ![e.obj] = e.rv]
       /\ disturbed' = disturbed \cup {e.obj}
  /\ UNCHANGED <<adapterVars, superseded, drained, breaksLeft, resumesLeft>>

\* The goroutine of a connection that was taken over sends what it had in its hands.
LateEvent ==
  /\ superseded /\ status = "open" /\ pc = "loop"
  /\ disturbancesLeft > 0 /\ disturbancesLeft' = disturbancesLeft - 1
  /\ \E i \in DOMAIN log :
       LET e == log[i] IN
       /\ \E type \in IF e.type = "DELETED" THEN {e.type} ELSE {"ADDED", "MODIFIED"} :
            OnWatchEvent(As(e, type))
       /\ heard' = [heard EXCEPT ![e.obj] = e.rv]
       /\ disturbed' = disturbed \cup {e.obj}
  /\ UNCHANGED <<streamVars, ctxDone, superseded, drained, breaksLeft, resumesLeft>>

SetModified ==
  /\ pc = "set" /\ pc' = "loop" /\ hand' = NoEvent
  /\ Set(hand.obj, hand.rv)
  /\ UNCHANGED <<streamVars, ctxDone, notifierVars, boundVars>>

SeeClosed ==
  /\ pc = "loop" /\ status = "closed" /\ stream = <<>>
  /\ pc' = "sleep"
  /\ UNCHANGED <<streamVars, cache, hand, ctxDone, notifierVars, boundVars>>

\* A new client, with a notifier of its own, and a connection that begins with a
\* listing; nobody looks at the context.
Rewatch ==
  /\ pc = "sleep" /\ pc' = "loop"
  /\ status' = "open" /\ stream' \in Listings(store) /\ bookmark' = 0
  /\ heard' = [o \in Objects |-> 0] /\ disturbed' = {} /\ superseded' = FALSE /\ drained' = FALSE
  /\ UNCHANGED <<store, log, cache, hand, ctxDone, boundVars>>

\* handler is nil now, and the next turn of the loop reads its Channel.
RewatchFails ==
  /\ pc = "sleep" /\ pc' = "noHandler"
  /\ UNCHANGED <<streamVars, cache, hand, ctxDone, notifierVars, boundVars>>

ReadNilHandler ==
  /\ pc = "noHandler" /\ pc' = "panic"
  /\ UNCHANGED <<streamVars, cache, hand, ctxDone, notifierVars, boundVars>>

Cancel ==
  /\ ~ctxDone /\ ctxDone' = TRUE
  /\ UNCHANGED <<streamVars, cache, pc, hand, notifierVars, boundVars>>

SeeDone ==
  /\ pc = "loop" /\ ctxDone /\ pc' = "done"
  /\ UNCHANGED <<streamVars, cache, hand, ctxDone, notifierVars, boundVars>>

Adapter ==
  \/ TakeEvent \/ SkipEvent \/ SetModified \/ SeeClosed \/ Rewatch \/ RewatchFails \/ ReadNilHandler
  \/ SeeDone

AdapterNext ==
  \/ Cluster \/ ResumeStream \/ Break \/ LoseEvent \/ LateEvent
  \/ Cancel \/ Adapter \/ StartWatching \/ StartFails
  \/ \E o \in Objects : Evict(o)

AdapterSpec == AdapterInit /\ [][AdapterNext]_vars

\* The goroutines of the adapter and of its connection run.
FairSpec == AdapterSpec /\ WF_vars(Adapter)
=============================================================================
