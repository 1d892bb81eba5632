------------------------ MODULE SharedWatchProperties ------------------------
(***************************************************************************)
(* What the shared watch of SharedWatch promises to its clients.           *)
(***************************************************************************)
EXTENDS SharedWatch

EventTypes == {"ADDED", "MODIFIED", "DELETED", "BOOKMARK"}
PCs == {"none", "select", "count", "accept", "send", "closing", "cleanup", "done",
        "called", "delete", "returned", "panicked"}
Received == [obj : Objects \cup {NoObject}, rv : Nat, late : BOOLEAN, type : EventTypes]

NsTypeOK ==
  /\ nsMutex \in Procs \cup {Free, WatchCall}
  /\ clientCount \in 0 .. MaxWatches
  /\ currentNotifier \in 0 .. MaxWatches
  /\ currentEventHandler \in 0 .. MaxWatches
  /\ cancelled \in [Id -> BOOLEAN]

NotifierTypeOK ==
  /\ previousNotifier \in [Id -> 0 .. MaxWatches]
  /\ clientsMap \in [Id -> SUBSET Id]
  /\ processedVersions \in
       [Id -> [Objects -> [rv : Nat, type : EventTypes \cup {"none"}]]]

ProcTypeOK ==
  /\ pc \in [Procs -> PCs]
  /\ held \in [Procs -> SUBSET Id]
  /\ next \in [Procs -> 0 .. MaxWatches]

WorkTypeOK ==
  /\ event \in [Id -> Event]
  /\ forwarded \in [Id -> EventTypes \cup {"PREVIOUS"}]
  /\ pending \in [Id -> SUBSET Id]

ClientTypeOK ==
  /\ channel \in [Id -> {"none", "open", "closed"}]
  /\ received \in [Id -> Seq(Received)]

ConnectionTypeOK ==
  /\ stream \in [Id -> Seq(Event)]
  /\ bookmark \in [Id -> Nat]
  /\ serverClosed \in [Id -> BOOLEAN]
  /\ stopRequested \in [Id -> BOOLEAN]

ClusterTypeOK ==
  /\ store \in [Objects -> [rv : Nat, gen : Nat]]
  /\ log \in Seq(Ordinary)
  /\ bookmarksLeft \in Nat /\ relistsLeft \in Nat /\ resumesLeft \in Nat
  /\ failuresLeft \in Nat

\* The variables have their types.  No event reaches a client, and none is
\* remembered in processedVersions, with the internal type PREVIOUS.
TypeOK ==
  /\ NsTypeOK /\ NotifierTypeOK /\ ProcTypeOK /\ WorkTypeOK
  /\ ClientTypeOK /\ ConnectionTypeOK /\ ClusterTypeOK
  /\ crash \in {"no", "closed channel", "nil handler"}

\* The clients that the current notifier still answers for.
Served == UNION {clientsMap[n] : n \in Chain(currentNotifier)}

Stopping(c) == \E s \in StopKinds : pc[<<s, c>>] \notin {"none", "called"}
HasStopped(c) == \E s \in StopKinds : pc[<<s, c>>] = "returned"

\* The mutexes cannot deadlock: a goroutine waits for a notifier's mutex only
\* with the mutexes of newer notifiers in hand, for the namespace mutex with
\* none, and no notifier's mutex has two holders.
LockOrder ==
  /\ \A p \in Procs : next[p] # None => \A n \in held[p] : next[p] < n
  /\ \A p \in Procs : pc[p] \in {"closing", "called"} => held[p] = {}
  /\ \A p, q \in Procs : p # q => held[p] \cap held[q] = {}

\* No client is forgotten while its channel is open: it belongs to exactly one
\* notifier of the current chain, and the goroutine of that chain is alive,
\* whatever Watch, StopWatching, bookmarks and closed connections interleaved.
\* A failed Watch is the exception (CancelledMeansSubstituted).
EveryOpenClientIsServed ==
  \A c \in Id : channel[c] = "open" /\ ~Stopping(c) /\ crash = "no" =>
    /\ Cardinality({n \in Chain(currentNotifier) : c \in clientsMap[n]}) = 1
    /\ nsMutex # WatchCall /\ currentEventHandler # None =>
         pc[Server(currentNotifier)] \notin {"none", "done"}

\* A goroutine that ends because its context is cancelled leaves its clients
\* to another handler: kubeWatchServiceShared.go:265 "we were substituted by
\* another Handler" "do not clean up clients, just exit from this listen loop".
CancelledMeansSubstituted ==
  \A k \in Id :
    pc[Server(k)] = "done" /\ nsMutex # WatchCall /\ k = currentNotifier => Served = {}

NoResumeYet == resumesLeft = MaxResumes
Late(c) == \E i \in DOMAIN received[c] : received[c][i].late

\* A client that got no event from a superseded goroutine sees the versions of
\* every object in increasing order, each at most once, across all handovers
\* and all re-listings of the objects, until a connection is resumed.
InOrderUnlessLate ==
  NoResumeYet => \A c \in Id : ~Late(c) =>
    \A i, j \in DOMAIN received[c] :
      i < j /\ received[c][i].obj = received[c][j].obj
        => received[c][i].rv < received[c][j].rv

\* A client hears of an object first by ADDED.  kubeWatchServiceShared.go:324-325:
\* PREVIOUS is sent down the chain "so the type will be correctly substituted
\* depending on whether it was already handled or not".
ModifiedOnlyAfterAdded ==
  \A c \in Id : \A j \in DOMAIN received[c] :
    received[c][j].type # "ADDED" =>
      \E i \in 1 .. j - 1 : received[c][i].obj = received[c][j].obj

\* With two clients, a new connection hands its events to one older notifier,
\* and the type it resolves is that client's: PREVIOUS, re-listed or repeated
\* events bring nobody a MODIFIED or DELETED of an object it never saw.
TwoHearAddedFirst == clientCount <= 2 => ModifiedOnlyAfterAdded

\* The current connection has nothing under way.
Quiet ==
  /\ nsMutex = Free /\ currentNotifier # None
  /\ currentEventHandler = currentNotifier
  /\ pc[Server(currentNotifier)] = "select" /\ stream[currentNotifier] = <<>>
  /\ ~serverClosed[currentNotifier]

LastVersion(c, o) ==
  LET seen == {i \in DOMAIN received[c] : received[c][i].obj = o}
  IN  IF seen = {} THEN 0 ELSE received[c][Max(seen)].rv

\* When the connection is quiet every client, old or new, knows the current
\* version of every object its filter accepts, unless a superseded goroutine
\* disturbed it: no handover, bookmark, re-listing or resumption loses an update.
ConvergedUnlessLate ==
  Quiet => \A c \in Served : channel[c] = "open" /\ ~Late(c) =>
    \A o \in Objects :
      store[o] # Absent /\ <<c, o>> \notin FilteredOut =>
        LastVersion(c, o) = store[o].rv

NoBookmarkYet == bookmarksLeft = MaxBookmarks

\* Once StopWatching has returned, the client gets no event: not from the
\* goroutine of any notifier, superseded or not.  (After a BOOKMARK a superseded
\* goroutine may still hold the client.)
StoppedClientGetsNothing ==
  [][\A c \in Id : HasStopped(c) /\ NoBookmarkYet => received'[c] = received[c]]_vars

\* StopWatching of the last client stops the shared connection, and nothing
\* else does: clients of older notifiers count as well.  (A client removed by
\* an expired timer or a closed connection stops nothing.)
StoppedWhenIdle ==
  currentEventHandler # None /\ crash = "no" =>
    /\ stopRequested[currentEventHandler] => Served = {}
    /\ /\ nsMutex = Free /\ Served = {}
       /\ \A c \in Id : channel[c] # "closed"
       => stopRequested[currentEventHandler]

\* Before the first BOOKMARK, no goroutine sends on a client's channel that
\* another one closed, or closes it again: timers, closed connections and
\* handovers leave every client to one notifier.
NoClosedChannelUse == NoBookmarkYet => crash # "closed channel"

\* StopWatching returns: the client timeout bounds how long a notifier's mutex
\* is held, so that neither a slow client nor the caller itself, which no
\* longer reads, blocks it for ever.  The exception is a panic: after a failed
\* Watch the call for the last client dereferences the nil currentEventHandler
\* (kubeWatchServiceShared.go 246-249), and neither it nor any other returns.
StopReturns ==
  \A s \in StopKinds, c \in Id :
    pc[<<s, c>>] = "called" ~> (pc[<<s, c>>] = "returned" \/ crash = "nil handler")

\* When the connection of the current chain ends, every client's channel is
\* closed, so that the client can reconnect: kubeWatchServiceShared.go:285 "need
\* to close all clients, they all have to re-connect".  A Watch that came
\* between takes the clients over, a client that stops needs no notice.
ClosedConnectionClosesClients ==
  \A c, k \in Id :
    (k = currentNotifier /\ c \in Served /\ channel[c] = "open" /\ serverClosed[k])
      ~> (channel[c] = "closed" \/ Stopping(c) \/ cancelled[k])
=============================================================================
