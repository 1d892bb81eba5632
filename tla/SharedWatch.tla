---------------------------- MODULE SharedWatch ----------------------------
(***************************************************************************)
(* The shared watch of one namespace and one kind                          *)
(* (kubeWatchServiceShared.go): all clients of a namespace share ONE watch *)
(* connection to the API server.  Each new client cancels the current      *)
(* connection and opens a new one, whose notifier keeps the superseded     *)
(* notifiers in a chain: an event of the new connection is offered to the  *)
(* clients of every notifier of the chain, the oldest first, until a       *)
(* BOOKMARK lets the new notifier take their clients over.                 *)
(*                                                                         *)
(* Client number i, its connection and its notifier have the same id, the  *)
(* value of clientCount.  Every id has three goroutines:                   *)
(*   server  processServerChannel, the reader of the connection;           *)
(*   stop    a call of the StopWatching function the client was given;     *)
(*   ctx     the goroutine that calls StopWatching when the client's own   *)
(*           context is cancelled.                                         *)
(* The only caller of Watch that matters at a time is the holder of the    *)
(* namespace mutex, so the callers need no identity.                       *)
(*                                                                         *)
(* The mutexes of the notifiers are taken down the chain, from a notifier  *)
(* to the previous one, and held until the recursive call returns:         *)
(* held[p] is the set of notifiers whose mutex goroutine p holds, and the  *)
(* innermost frame of p's recursion is its lowest one.                     *)
(***************************************************************************)
EXTENDS WatchEvents

CONSTANTS
  MaxWatches,      \* bound on the calls of Watch
  MaxVersion,      \* bound on the resource versions the cluster hands out
  HasGeneration,   \* does the kind maintain metadata.generation?
  StopKinds,       \* which of the two goroutines may stop a client
  SlowClients,     \* clients that may let the timer of a send expire
  BookmarkClients, \* clients whose filter has WatchBookmark
  FilteredOut,     \* <<client, object>>: labels or annotations do not match
  MaxBookmarks, MaxRelists, MaxResumes, MaxFailures  \* bounds on events of the
                                                     \* API server

ASSUME ConstantsAssumption ==
  /\ MaxWatches \in Nat
  /\ MaxVersion \in Nat
  /\ HasGeneration \in BOOLEAN
  /\ StopKinds \subseteq {"stop", "ctx"}
  /\ SlowClients \subseteq 1 .. MaxWatches
  /\ BookmarkClients \subseteq 1 .. MaxWatches
  /\ FilteredOut \subseteq (1 .. MaxWatches) \X Objects
  /\ MaxBookmarks \in Nat /\ MaxRelists \in Nat /\ MaxResumes \in Nat
  /\ MaxFailures \in Nat

Id == 1 .. MaxWatches
None == 0                            \* a nil notifier or handler
Server(k) == <<"server", k>>
Procs == ({"server"} \cup StopKinds) \X Id
Free == <<"free", None>>             \* nobody holds the namespace mutex
WatchCall == <<"watch", None>>       \* a call of Watch holds it

VARIABLES
  \* sharedNamespaceWatchHandler
  nsMutex, clientCount, currentNotifier, currentEventHandler,
  cancelled,          \* cancelled[k]: the handlerCtx of Watch call k is done
  \* resourceVersionAwareClientNotifier
  previousNotifier, clientsMap, processedVersions,
  \* goroutines: program counter, mutexes held, next notifier to lock
  pc, held, next,
  event,              \* the event goroutine Server(k) works on
  forwarded,          \* type in the copy of it shared by the lower notifiers
  pending,            \* clients the loop of sendToClients has not visited
  \* clients: their channels and what they received
  channel, received,
  \* the connections (RestWatchEventHandler): events under way, the version of
  \* the last BOOKMARK, channel closed by the sender, StopWatching called by us
  stream, bookmark, serverClosed, stopRequested,
  store, log,         \* the cluster's objects, and the history of their changes
  bookmarksLeft, relistsLeft, resumesLeft, failuresLeft,  \* what the bounds leave
  crash               \* a panic, which ends the process

nsVars == <<nsMutex, clientCount, currentNotifier, currentEventHandler, cancelled>>
notifierVars == <<previousNotifier, clientsMap, processedVersions>>
procVars == <<pc, held, next>>
workVars == <<event, forwarded, pending>>
clientVars == <<channel, received>>
connectionVars == <<stream, bookmark, serverClosed, stopRequested>>
boundVars == <<bookmarksLeft, relistsLeft, resumesLeft, failuresLeft>>
clusterVars == <<store, log, boundVars>>
vars == <<nsVars, notifierVars, procVars, workVars, clientVars,
          connectionVars, clusterVars, crash>>

NotProcessed == [rv |-> 0, type |-> "none"]
NoEvent == Bookmark(0)

Init ==
  /\ nsMutex = Free /\ clientCount = 0
  /\ currentNotifier = None /\ currentEventHandler = None
  /\ cancelled = [k \in Id |-> FALSE]
  /\ previousNotifier = [k \in Id |-> None]
  /\ clientsMap = [k \in Id |-> {}]
  /\ processedVersions = [k \in Id |-> [o \in Objects |-> NotProcessed]]
  /\ pc = [p \in Procs |-> "none"]
  /\ held = [p \in Procs |-> {}]
  /\ next = [p \in Procs |-> None]
  /\ event = [k \in Id |-> NoEvent]
  /\ forwarded = [k \in Id |-> "BOOKMARK"]
  /\ pending = [k \in Id |-> {}]
  /\ channel = [c \in Id |-> "none"]
  /\ received = [c \in Id |-> <<>>]
  /\ stream = [k \in Id |-> <<>>]
  /\ bookmark = [k \in Id |-> 0]
  /\ serverClosed = [k \in Id |-> FALSE]
  /\ stopRequested = [k \in Id |-> FALSE]
  /\ store = [o \in Objects |-> Absent]
  /\ log = <<>>
  /\ bookmarksLeft = MaxBookmarks /\ relistsLeft = MaxRelists
  /\ resumesLeft = MaxResumes /\ failuresLeft = MaxFailures
  /\ crash = "no"

(***************************************************************************)
(* The API server and the RestWatchEventHandler of each connection: an     *)
(* environment that turns the cluster's changes into a stream of events    *)
(* per connection, with the steps of WatchStream, which RestWatch          *)
(* implements.                                                             *)
(***************************************************************************)

\* The resource version of a change is its place in the history.
version == Len(log)

\* Connection k still delivers events that somebody reads.
Connected(k) == pc[Server(k)] \notin {"none", "done"} /\ ~serverClosed[k]

Offer(e) ==   \* every connected stream gets the event of a cluster change
  stream' = [k \in Id |-> IF Connected(k) THEN Append(stream[k], e) ELSE stream[k]]

\* metadata.generation counts the changes of the specification; a change of
\* the status, or of an object of a kind without one, leaves it as it is.
Change(type, o, gens) ==
  /\ version < MaxVersion
  /\ \E g \in gens :
       LET obj == [rv |-> version + 1, gen |-> IF HasGeneration THEN g ELSE 0]
       IN  /\ store' = [store EXCEPT ![o] = IF type = "DELETED" THEN Absent ELSE obj]
           /\ log' = Append(log, EventOf(type, o, obj))
           /\ Offer(EventOf(type, o, obj))
  /\ UNCHANGED <<nsVars, notifierVars, procVars, workVars, clientVars, bookmark,
                 serverClosed, stopRequested, boundVars, crash>>

Create(o) == store[o] = Absent /\ Change("ADDED", o, {1})
Modify(o) == /\ store[o] # Absent
             /\ Change("MODIFIED", o, {store[o].gen, store[o].gen + 1})
Delete(o) == store[o] # Absent /\ Change("DELETED", o, {store[o].gen})

SendBookmark(k) ==
  /\ Connected(k)
  /\ bookmarksLeft > 0 /\ bookmarksLeft' = bookmarksLeft - 1
  /\ stream' = [stream EXCEPT ![k] = Append(@, Bookmark(version))]
  /\ UNCHANGED <<nsVars, notifierVars, procVars, workVars, clientVars, bookmark,
                 serverClosed, stopRequested, store, log, relistsLeft, resumesLeft,
                 failuresLeft, crash>>

\* The request ended, by an ERROR or before any BOOKMARK, and is repeated
\* without a resource version: events of the gap are lost, every object is
\* listed again.
Relist(k) ==
  /\ Connected(k) /\ ~cancelled[k] /\ ~stopRequested[k]
  /\ relistsLeft > 0 /\ relistsLeft' = relistsLeft - 1
  /\ \E kept \in Buffered(stream[k]), list \in Listings(store) :
       stream' = [stream EXCEPT ![k] = Forgotten(kept) \o list]
  /\ bookmark' = [bookmark EXCEPT ![k] = 0]
  /\ UNCHANGED <<nsVars, notifierVars, procVars, workVars, clientVars,
                 serverClosed, stopRequested, store, log, bookmarksLeft, resumesLeft,
                 failuresLeft, crash>>

\* The request ended and is repeated from the last BOOKMARK, not from the last
\* event: what came after the BOOKMARK is sent again.
Resume(k) ==
  /\ Connected(k) /\ ~cancelled[k] /\ ~stopRequested[k]
  /\ resumesLeft > 0 /\ resumesLeft' = resumesLeft - 1
  /\ \E kept \in Buffered(stream[k]) :
       LET from == LastBookmark(kept, bookmark[k]) IN
       /\ from # 0
       /\ stream' = [stream EXCEPT ![k] = kept \o Replay(log, from)]
  /\ UNCHANGED <<nsVars, notifierVars, procVars, workVars, clientVars, bookmark,
                 serverClosed, stopRequested, store, log, bookmarksLeft, relistsLeft,
                 failuresLeft, crash>>

\* The watch loop ends, for a reason of its own (reconnect failed, wrong
\* object type) or because its context was cancelled.
CloseConnection(k) ==
  /\ Connected(k)
  /\ \E kept \in Buffered(stream[k]) : stream' = [stream EXCEPT ![k] = kept]
  /\ serverClosed' = [serverClosed EXCEPT ![k] = TRUE]
  /\ UNCHANGED <<nsVars, notifierVars, procVars, workVars, clientVars, bookmark,
                 stopRequested, clusterVars, crash>>

(***************************************************************************)
(* Watch: under the namespace mutex, from the cancellation of the previous *)
(* handler's context to the answer of the API server.                      *)
(***************************************************************************)
WatchBegin ==
  /\ nsMutex = Free /\ clientCount < MaxWatches
  /\ nsMutex' = WatchCall
  /\ clientCount' = clientCount + 1
  /\ cancelled' = [k \in Id |-> cancelled[k] \/ k = clientCount]
  /\ UNCHANGED <<currentNotifier, currentEventHandler, notifierVars, procVars,
                 workVars, clientVars, connectionVars, clusterVars, crash>>

WatchFail ==
  /\ nsMutex = WatchCall
  /\ failuresLeft > 0 /\ failuresLeft' = failuresLeft - 1
  /\ nsMutex' = Free
  /\ currentEventHandler' = None
  /\ UNCHANGED <<clientCount, currentNotifier, cancelled, notifierVars, procVars,
                 workVars, clientVars, connectionVars, store, log, bookmarksLeft,
                 relistsLeft, resumesLeft, crash>>

WatchSucceed ==
  /\ nsMutex = WatchCall
  /\ nsMutex' = Free
  /\ currentEventHandler' = clientCount
  /\ currentNotifier' = clientCount
  /\ previousNotifier' = [previousNotifier EXCEPT ![clientCount] = currentNotifier]
  /\ clientsMap' = [clientsMap EXCEPT ![clientCount] = {clientCount}]
  /\ channel' = [channel EXCEPT ![clientCount] = "open"]
  /\ pc' = [pc EXCEPT ![Server(clientCount)] = "select"]
  /\ \E list \in Listings(store) : stream' = [stream EXCEPT ![clientCount] = list]
  /\ UNCHANGED <<clientCount, cancelled, processedVersions, held, next, workVars,
                 received, bookmark, serverClosed, stopRequested, clusterVars, crash>>

(***************************************************************************)
(* Recursion down the chain of notifiers.                                  *)
(***************************************************************************)
Locked(n) == \E p \in Procs : n \in held[p]

\* p starts a recursive call at notifier n.
Call(p, where, n) ==
  /\ pc' = [pc EXCEPT ![p] = where]
  /\ next' = [next EXCEPT ![p] = n]

\* Mutant: the recursion looks the notifier up in the shared handler.
BelowMutant(n) == currentNotifier

Below(n) == previousNotifier[n]

\* The next frame locks its mutex.  acceptEvent does not recurse for a
\* BOOKMARK; every other method does while there is a previous notifier.
Descend(p) ==
  /\ next[p] # None /\ ~Locked(next[p])
  /\ held' = [held EXCEPT ![p] = @ \cup {next[p]}]
  /\ next' = [next EXCEPT ![p] =
                IF pc[p] = "accept" /\ event[p[2]].type = "BOOKMARK"
                THEN None ELSE Below(next[p])]
  /\ UNCHANGED <<nsVars, notifierVars, pc, workVars, clientVars, connectionVars,
                 clusterVars, crash>>

\* p runs in the frame of notifier n, the calls below it have returned.
InFrame(p, where, n) ==
  /\ pc[p] = where /\ next[p] = None
  /\ n \in held[p] /\ \A m \in held[p] : n <= m

\* The frame of n returns; the outermost one of Server(k) is that of k.
Return(k, n) ==
  /\ held' = [held EXCEPT ![Server(k)] = @ \ {n}]
  /\ pc' = [pc EXCEPT ![Server(k)] = IF n = k THEN "select" ELSE "accept"]

(***************************************************************************)
(* processServerChannel.                                                   *)
(***************************************************************************)
\* ADDED of an object changed since its creation: lower notifiers resolve it.
ForwardedType(e) == IF e.type = "ADDED" /\ e.gen > 1 THEN "PREVIOUS" ELSE e.type

\* The log line counts the clients of the whole chain before acceptEvent.
Receive(k) ==
  /\ pc[Server(k)] = "select" /\ stream[k] # <<>>
  /\ event' = [event EXCEPT ![k] = Head(stream[k])]
  /\ forwarded' = [forwarded EXCEPT ![k] = ForwardedType(Head(stream[k]))]
  /\ stream' = [stream EXCEPT ![k] = Tail(@)]
  /\ bookmark' = [bookmark EXCEPT ![k] = LastBookmark(stream[k], bookmark[k])]
  /\ Call(Server(k), "count", k)
  /\ UNCHANGED <<nsVars, notifierVars, held, pending, clientVars, serverClosed,
                 stopRequested, clusterVars, crash>>

Counted(k) ==
  /\ \E n \in Id : InFrame(Server(k), "count", n)
  /\ held' = [held EXCEPT ![Server(k)] = {}]
  /\ Call(Server(k), "accept", k)
  /\ UNCHANGED <<nsVars, notifierVars, workVars, clientVars, connectionVars,
                 clusterVars, crash>>

\* The goroutine is gone, and nobody reads its connection any more.
Exit(k) ==
  /\ pc' = [pc EXCEPT ![Server(k)] = "done"]
  /\ stream' = [stream EXCEPT ![k] = <<>>]

\* select prefers no branch: an event that is ready may be taken instead.
ExitCancelled(k) ==
  /\ pc[Server(k)] = "select" /\ cancelled[k]
  /\ Exit(k)
  /\ UNCHANGED <<nsVars, notifierVars, held, next, workVars, clientVars,
                 bookmark, serverClosed, stopRequested, clusterVars, crash>>

SeeClosed(k) ==
  /\ pc[Server(k)] = "select" /\ stream[k] = <<>> /\ serverClosed[k]
  /\ ~cancelled[k]
  /\ pc' = [pc EXCEPT ![Server(k)] = "closing"]
  /\ UNCHANGED <<nsVars, notifierVars, held, next, workVars, clientVars,
                 connectionVars, clusterVars, crash>>

(***************************************************************************)
(* acceptEvent, in the frame of notifier n.                                *)
(***************************************************************************)
\* Mutants: PREVIOUS is left to the client; the two outcomes are swapped.
ResolveNotMutant(type, processed) == type
ResolveSwappedMutant(type, processed) ==
  IF type # "PREVIOUS" THEN type
  ELSE IF processed.rv = 0 THEN "MODIFIED" ELSE "ADDED"

\* PREVIOUS becomes ADDED or MODIFIED, for the shared copy of the event.
Resolve(type, processed) ==
  IF type # "PREVIOUS" THEN type
  ELSE IF processed.rv = 0 THEN "ADDED" ELSE "MODIFIED"

\* Mutants: every event is new; an object is processed once, whatever version.
AlwaysNewMutant(n, e) == FALSE
SameNameMutant(n, e) == processedVersions[n][e.obj].rv # 0

AlreadyProcessed(n, e) == processedVersions[n][e.obj].rv = e.rv

Interested(n, e) == {c \in clientsMap[n] : <<c, e.obj>> \notin FilteredOut}

SkipEvent(k, n) ==
  /\ InFrame(Server(k), "accept", n)
  /\ event[k].type # "BOOKMARK" /\ AlreadyProcessed(n, event[k])
  /\ Return(k, n)
  /\ UNCHANGED <<nsVars, notifierVars, next, workVars, clientVars, connectionVars,
                 clusterVars, crash>>

ProcessEvent(k, n) ==
  LET e == event[k]
      type == IF n = k THEN e.type ELSE Resolve(forwarded[k], processedVersions[n][e.obj])
  IN
  /\ InFrame(Server(k), "accept", n)
  /\ e.type # "BOOKMARK" /\ ~AlreadyProcessed(n, e)
  /\ processedVersions' =
       [processedVersions EXCEPT ![n][e.obj] = [rv |-> e.rv, type |-> type]]
  /\ forwarded' = [forwarded EXCEPT ![k] = IF n = k THEN @ ELSE type]
  /\ pending' = [pending EXCEPT ![k] = Interested(n, e)]
  /\ pc' = [pc EXCEPT ![Server(k)] = "send"]
  /\ UNCHANGED <<nsVars, previousNotifier, clientsMap, held, next, event, clientVars,
                 connectionVars, clusterVars, crash>>

\* Notifier n and those below it, the smallest set closed under
\* previousNotifier: what drainPrevious visits.  It takes none of their mutexes.
Chain(n) ==
  {m \in Id : \A S \in SUBSET Id :
     /\ n \in S \cup {None} /\ \A i \in S : previousNotifier[i] \in S \cup {None}
     => m \in S}

Drained(n) == [m \in Id |-> IF m \in Chain(n) THEN None ELSE previousNotifier[m]]

DrainBookmark(k) ==
  /\ InFrame(Server(k), "accept", k) /\ event[k].type = "BOOKMARK"
  /\ clientsMap' = [clientsMap EXCEPT ![k] = UNION {clientsMap[n] : n \in Chain(k)}]
  /\ previousNotifier' = Drained(k)
  /\ processedVersions' = [processedVersions EXCEPT ![k] =
       [o \in Objects |-> IF @[o].type = "DELETED" THEN NotProcessed ELSE @[o]]]
  /\ pending' = [pending EXCEPT ![k] = clientsMap'[k] \cap BookmarkClients]
  /\ pc' = [pc EXCEPT ![Server(k)] = "send"]
  /\ UNCHANGED <<nsVars, held, next, event, forwarded, clientVars, connectionVars,
                 clusterVars, crash>>

(***************************************************************************)
(* sendToClients: visits the clients of the map in any order; the channels *)
(* have no buffer, so a send needs a client that receives.                 *)
(***************************************************************************)
Visits(k, n, c) ==
  /\ InFrame(Server(k), "send", n) /\ c \in pending[k] \cap clientsMap[n]

\* A client that asked to stop, or is slow, may not receive in time.
Reads(c) == c \notin SlowClients /\ \A s \in StopKinds : pc[<<s, c>>] = "none"
\* Mutant: the send has no timer.
NoTimerMutant(c) == FALSE
TimerExpires(c) == ~Reads(c)

\* What client c gets in the frame of n.  late: by a superseded goroutine.
Entry(k, n) ==
  [obj |-> event[k].obj, rv |-> event[k].rv, late |-> cancelled[k],
   type |-> IF n = k THEN event[k].type ELSE forwarded[k]]

SendOk(k, n, c) ==
  /\ Visits(k, n, c) /\ channel[c] = "open"
  /\ pending' = [pending EXCEPT ![k] = @ \ {c}]
  /\ received' = IF event[k].type = "BOOKMARK" THEN received
                 ELSE [received EXCEPT ![c] = Append(@, Entry(k, n))]
  /\ UNCHANGED <<nsVars, notifierVars, procVars, event, forwarded, channel,
                 connectionVars, clusterVars, crash>>

\* Mutant: the closed client stays in the map.
NotDeletedMutant(n, c) == clientsMap[n]

Without(n, c) == clientsMap[n] \ {c}

\* The timer expires: close, delete, and return without the other clients.
SendTimeout(k, n, c) ==
  /\ Visits(k, n, c) /\ channel[c] = "open" /\ TimerExpires(c)
  /\ channel' = [channel EXCEPT ![c] = "closed"]
  /\ clientsMap' = [clientsMap EXCEPT ![n] = Without(n, c)]
  /\ pending' = [pending EXCEPT ![k] = {}]
  /\ UNCHANGED <<nsVars, previousNotifier, processedVersions, procVars, event,
                 forwarded, received, connectionVars, clusterVars, crash>>

\* A send on a channel another goroutine closed panics.
SendClosed(k, n, c) ==
  /\ Visits(k, n, c) /\ channel[c] = "closed"
  /\ crash' = "closed channel"
  /\ UNCHANGED <<nsVars, notifierVars, procVars, workVars, clientVars,
                 connectionVars, clusterVars>>

SendDone(k, n) ==
  /\ InFrame(Server(k), "send", n) /\ pending[k] \cap clientsMap[n] = {}
  /\ pending' = [pending EXCEPT ![k] = {}]
  /\ Return(k, n)
  /\ UNCHANGED <<nsVars, notifierVars, next, event, forwarded, clientVars,
                 connectionVars, clusterVars, crash>>

(***************************************************************************)
(* cleanupOnHandlerClosed: under the namespace mutex, and without a look   *)
(* at ctx after waiting for it.                                            *)
(***************************************************************************)
CleanupBegin(k) ==
  /\ pc[Server(k)] = "closing" /\ nsMutex = Free
  /\ nsMutex' = Server(k)
  /\ Call(Server(k), "cleanup", k)
  /\ UNCHANGED <<clientCount, currentNotifier, currentEventHandler, cancelled,
                 notifierVars, held, workVars, clientVars, connectionVars,
                 clusterVars, crash>>

\* Mutant: what the comment on cleanup says, only the notifier's own clients.
OwnOnlyMutant(k) == {k}

\* The notifiers whose clients are closed: those of the whole chain.
CleanedUp(k) == held[Server(k)]

CleanupEnd(k) ==
  LET closing == UNION {clientsMap[n] : n \in CleanedUp(k)} IN
  /\ \E n \in Id : InFrame(Server(k), "cleanup", n)
  /\ crash' = IF \E c \in closing : channel[c] = "closed" THEN "closed channel" ELSE crash
  /\ channel' = [c \in Id |-> IF c \in closing THEN "closed" ELSE channel[c]]
  /\ clientsMap' = [n \in Id |-> IF n \in CleanedUp(k) THEN {} ELSE clientsMap[n]]
  /\ held' = [held EXCEPT ![Server(k)] = {}]
  /\ nsMutex' = Free
  /\ Exit(k)
  /\ UNCHANGED <<clientCount, currentNotifier, currentEventHandler, cancelled,
                 previousNotifier, processedVersions, next, workVars, received,
                 bookmark, serverClosed, stopRequested, clusterVars>>

(***************************************************************************)
(* StopWatching (delete), called by the client (s = "stop") or by the      *)
(* goroutine that waits for the client's context (s = "ctx").              *)
(***************************************************************************)
StopCalled(s, c) ==
  /\ channel[c] # "none" /\ pc[<<s, c>>] = "none"
  /\ pc' = [pc EXCEPT ![<<s, c>>] = "called"]
  /\ UNCHANGED <<nsVars, notifierVars, held, next, workVars, clientVars,
                 connectionVars, clusterVars, crash>>

StopBegin(s, c) ==
  /\ pc[<<s, c>>] = "called" /\ nsMutex = Free
  /\ nsMutex' = <<s, c>>
  /\ Call(<<s, c>>, "delete", currentNotifier)
  /\ UNCHANGED <<clientCount, currentNotifier, currentEventHandler, cancelled,
                 notifierVars, held, workVars, clientVars, connectionVars,
                 clusterVars, crash>>

\* Mutant: only the current notifier is visited, the older ones are not.
NewestOnlyMutant(p) == {Max(held[p])}

\* The notifiers of the chain, whose mutexes are all held in the last frame.
Visited(p) == held[p]

DeleteClient(s, c) ==
  /\ \E n \in Id : InFrame(<<s, c>>, "delete", n)
  /\ clientsMap' = [n \in Id |-> IF n \in Visited(<<s, c>>) THEN clientsMap[n] \ {c}
                                 ELSE clientsMap[n]]
  /\ held' = [held EXCEPT ![<<s, c>>] = {}]
  /\ Call(<<s, c>>, "count", currentNotifier)
  /\ UNCHANGED <<nsVars, previousNotifier, processedVersions, workVars, clientVars,
                 connectionVars, clusterVars, crash>>

\* The last client is gone: stop the shared connection.  After a failed Watch
\* currentEventHandler is nil, and the call panics instead of returning.
StopEnd(s, c) ==
  LET idle == \A n \in Visited(<<s, c>>) : clientsMap[n] = {}
      panics == idle /\ currentEventHandler = None
  IN
  /\ \E n \in Id : InFrame(<<s, c>>, "count", n)
  /\ crash' = IF panics THEN "nil handler" ELSE crash
  /\ stopRequested' = [k \in Id |-> stopRequested[k] \/ (idle /\ k = currentEventHandler)]
  /\ held' = [held EXCEPT ![<<s, c>>] = {}]
  /\ pc' = [pc EXCEPT ![<<s, c>>] = IF panics THEN "panicked" ELSE "returned"]
  /\ nsMutex' = Free
  /\ UNCHANGED <<clientCount, currentNotifier, currentEventHandler, cancelled,
                 notifierVars, next, workVars, clientVars, stream, bookmark, serverClosed,
                 clusterVars>>

-----------------------------------------------------------------------------
Cluster == \E o \in Objects : Create(o) \/ Modify(o) \/ Delete(o)
Connection(k) == SendBookmark(k) \/ Relist(k) \/ Resume(k) \/ CloseConnection(k)
Watch == WatchBegin \/ WatchFail \/ WatchSucceed

Sends(k, c) == \E n \in Id : SendOk(k, n, c)

ServerStep(k) ==   \* but for the sends
  \/ Descend(Server(k))
  \/ Receive(k) \/ Counted(k) \/ ExitCancelled(k) \/ SeeClosed(k)
  \/ \E n \in Id : SkipEvent(k, n) \/ ProcessEvent(k, n) \/ SendDone(k, n)
  \/ DrainBookmark(k)
  \/ \E n, c \in Id : SendTimeout(k, n, c) \/ SendClosed(k, n, c)
  \/ CleanupBegin(k) \/ CleanupEnd(k)

StopStep(s, c) ==
  Descend(<<s, c>>) \/ StopBegin(s, c) \/ DeleteClient(s, c) \/ StopEnd(s, c)

Next ==
  /\ crash = "no"
  /\ \/ Cluster
     \/ \E k \in Id : Connection(k)
     \/ Watch
     \/ \E k \in Id : ServerStep(k) \/ \E c \in Id : Sends(k, c)
     \/ \E s \in StopKinds, c \in Id : StopCalled(s, c) \/ StopStep(s, c)

Spec == Init /\ [][Next]_vars

\* Goroutines that can run do run, the Go mutex starves nobody, the API server
\* answers a Watch, a client that reads receives what is sent to it, and a
\* connection whose context is cancelled ends.
Fairness ==
  /\ WF_vars(crash = "no" /\ (WatchFail \/ WatchSucceed))
  /\ \A k \in Id :
       /\ WF_vars(crash = "no" /\ ServerStep(k))
       /\ WF_vars(crash = "no" /\ (cancelled[k] \/ stopRequested[k]) /\ CloseConnection(k))
       /\ \A c \in Id : WF_vars(crash = "no" /\ Reads(c) /\ Sends(k, c))
  /\ \A s \in StopKinds, c \in Id : WF_vars(crash = "no" /\ StopStep(s, c))

FairSpec == Spec /\ Fairness
=============================================================================
