# Specifications of the PaaS mediation client

TLA+ models of this library: its watches, its operations of several requests and
the conversions they rest on, the TLC runs that check them on small instances,
and TLAPS proofs of theorems about them. Source paths
below are relative to the repository root; `KWS` stands for
`service/internal/kubernetes/kubeWatchServiceShared.go` and `KW` for
`service/internal/kubernetes/kubeWatchService.go`.

    tlc -workers 2 -config SharedWatchVersions.cfg MCSharedWatch
    tlc -workers 2 -config RestWatch.cfg RestWatchProperties
    tlc -workers 2 -config Routes.cfg MCRoutes
    tlapm SharedWatchProofs.tla

`PROJECT.json` maps every definition to the lines it models and lists runs,
mutants, findings, hazards and theorems.

## Inventory

The library is a client of the Kubernetes and OpenShift API servers. It keeps
little state of its own; what is hard in it is the watching of resources, with
its goroutines, and the operations that take several API calls.

| Component | State | Operations | Hard behaviour | What makes it correct |
|---|---|---|---|---|
| Shared watch (`KWS`) | per namespace and kind: mutex, count of clients, current handler, cancel function, chain of notifiers; per notifier: mutex, clients, versions processed | `Watch`, `StopWatching`, event goroutine per connection, goroutine per client context, timers | handover between connections, locks down a chain, slow clients, closed connections, a failed `Watch` | every open client is served by one notifier; versions in order; nothing after `StopWatching`; no deadlock; the connection is stopped with its last client |
| REST watch loop (`KW`, `watch/executor.go`) | watcher, result channel, bookmark, state of the loop, channel of capacity 1 | `Watch`, the loop, `doWatchRequest` | reconnects, bookmarks, ERROR events, cancellation during a send | no gap on resumption, one request at a time, the channel is closed at the end |
| Worker pool (`exec/pool.go`, `exec/rollout.go`) | read-write lock, `stopped`, channel of tasks; per call a wait group and a channel of results | `Submit`, `Stop`, workers | `Stop` against feeders, a full queue, a panicking task | one result per task, no send on the closed channel, everyone is answered |
| Cache adapters and cache (`adapterForCache.go`, `cache/cache.go`) | one shared ristretto cache, keys of kind, namespace and name | watch loop per kind, `Set`, `Delete`, `Get` | a watch that ends and restarts, refused or evicted entries | an entry is the cluster's or about to be replaced, unless the watch broke |
| CRUD wrappers (`adapterForCrud.go`) | none | `GetWrapper`, `ListWrapper`, `DeleteWrapper`, `CreateWrapper`, `UpdateOrCreateWrapper` | fallback to the cache, 410 during pagination, races of get and create | a list is one state of the server, read-change-update loses nobody's change and revives nothing |
| Routes and policies (`route.go`, `backend_traffic_policy.go`, `gateway_system.go`) | objects in the API server, cached routes | create, update or create, get, list, delete, watch | two objects and a policy per route, failure of any of the calls | success means that every half is stored; an update repairs what failures left; a foreign policy is never overwritten; what is read can be stored again |
| Rollout and pod watch (`pod.go`, `openshiftV3/pod.go`) | none | `RolloutDeployments`, `WatchPodsRestarting` | wait for a new replica set, proxy goroutine over a watch | the answer is the replica set of this very restart; the call returns; the watch closes when, and only when, the pods run with it |
| Service account tokens (`secret.go`) | none | `GetOrCreateSecretWithServiceAccountToken`, before and from 1.24 on | polling with a bound, a secret that is deleted meanwhile | the answer has a token |
| Client construction (`platformservice.go`, `builder.go`, `kubeService.go`) | blue-green flag (atomic) | `Build`, login to Consul with retries | - | - |
| OpenShift client (`openshiftV3/`) | - | delegates to the Kubernetes client | its rollout | as above |
| Entities (`entity/`, `filter/`, `types/`) | none | conversions from and to the API server's objects | an update replaces the whole object with what both conversions kept | reading and writing back keeps what entities know |

How they interact: a client (or a cache adapter) calls `Watch` of the shared
watch; that opens a connection with the REST watch loop, whose channel its event
goroutine reads; events go down a chain of notifiers to the clients' channels.
Pods, namespaces and OpenShift's kinds use the REST watch loop directly. `Get`
falls back to the cache that the adapters fill. Rollouts submit one task per
deployment to a pool.

## Modules

    WatchEvents ── SharedWatch ── SharedWatchProperties ─┬─ MCSharedWatch
         │                                               └─ SharedWatchProofs ── DeliveryProofs
         ├──────── RestWatch ──── RestWatchProperties ──── RestWatchProofs
         │                                 │ INSTANCE (refines)
         └──────── WatchStream ────────────┘
    PoolContract ◄── INSTANCE (refines) ── PoolProperties ─── PoolProofs
                                                │
                                              Pool
    WatchStream ─── CacheAdapter ─── CacheAdapterProperties ─┬─ MCCacheAdapter
                                                             └─ CacheProofs
    RouteEntity ─── RouteOps ─── RouteProperties ─┬─ MCRoutes
                                                  └─ RouteProofs
    CrudOps ─── CrudProperties ─┬─ CrudProofs
                                ├─ MCCrud
    Entities ── EntityProperties┴─────────────────────┐
    Rollout ─── PodsRestarting ─── RolloutProperties ─┬┴ RolloutAndEntityProofs
                                                      └─ MCRollout

### SharedWatch

One `sharedNamespaceWatchHandler` with its notifiers, clients and connections.
Client number *i*, the connection that its `Watch` opened and the notifier made
for it have the same id. The variables carry the names of the fields; `pc`,
`held` and `next` describe goroutines: `held[p]` is the set of notifiers whose
mutexes goroutine *p* holds, `next[p]` the notifier its recursion enters next.
`acceptEvent`, `deleteClient`, `clientsCount` and `cleanup` all lock a notifier
and then call themselves on the previous one; `Descend` is one such step, taken
mutex by mutex, and interleaves with every other goroutine.

| Code | Actions |
|---|---|
| `Watch`, KWS 190-240 | `WatchBegin` (mutex, cancel the previous handler), `WatchFail`, `WatchSucceed` |
| `processServerChannel`, 260-292 | `Receive`, `Counted`, `ExitCancelled`, `SeeClosed` |
| `acceptEvent`, 294-360 | `Descend`, `SkipEvent`, `ProcessEvent`, `DrainBookmark` |
| `sendToClients`, 362-393 | `SendOk`, `SendTimeout`, `SendClosed`, `SendDone` |
| `cleanupOnHandlerClosed`, `cleanup`, 253-258, 427-444 | `CleanupBegin`, `Descend`, `CleanupEnd` |
| `delete`, `deleteClient`, `clientsCount`, 242-251, 413-425, 446-454 | `StopCalled`, `StopBegin`, `Descend`, `DeleteClient`, `StopEnd` |
| the connection, `KW` | `SendBookmark`, `Relist`, `Resume`, `CloseConnection` |
| API server | `Create`, `Modify`, `Delete` |

Abstractions. The mutex of the map of namespaces (KWS 177-188) is held around
the whole call and is part of it. The test for a previous notifier and its use
are one step. `deleteClient`, `clientsCount` and `cleanup` take effect when the
recursion has reached its end: all mutexes of the chain are held by then, and
nobody who honours them can tell. `drainPrevious` honours none; its race with a
goroutine below is a bookmark step before or after that goroutine's step. The
name of an object stands for namespace and name; a filter that does not match is
a pair in `FilteredOut`. `received` leaves bookmarks out. The version of a change
is its place in `log`.

### RestWatch and WatchStream

RestWatch is the goroutine of `RestWatchEventHandler.Watch` (KW 80-167) with the
API server's request, its result channel, and the reader of
`clientResultChannel`. `pc` is the place in the loop (`select`, `send`,
`connect`, `fail`, `close`, `stop`, `done`); `watcher` is the variable of that
name, 0 for nil; `alive` the set of requests that the server serves. The pause
after an ERROR is the time spent in `connect`. Not modelled: an executor that
answers a reconnect with the same channel (104-107) or with no watcher.

WatchStream says what such a loop promises: a stream of the cluster's changes
that starts with a listing, is listed again or resumed from the last bookmark
when a request ends, and keeps at most the one buffered event of the old
request. RestWatch implements it (`KeepsStream`): the abstract stream is what is
in the channel, in the loop's hand, in the result channel, and what the server
has still to send. SharedWatch uses the same operators (module WatchEvents) for
the same steps of its connections, so what it assumes of a connection is what
RestWatch is shown to do.

### Pool and PoolContract

Pool is the fixed-size pool with callers, feeders, workers and stops, the
read-write lock (a writer that waits keeps new readers out), the bounded channel
of tasks (buffered send or direct hand-over), the wait group and the channel of
results of every call. Channels are sets: no caller depends on the order of the
results. PoolContract is what its interface promises; `KeepsContract` maps a call
that holds the lock to an accepted one.

### CacheAdapter

The goroutine of `adapterForCache.go` is a client of the shared watch: what it reads
is its client's channel, not the connection. The connection is a `WatchStream`; the
notifier between the two is modelled by what it does to one client: it skips what
it heard last (`SkipEvent`, KWS 331-337), resolves ADDED by what was heard before when
another client's `Watch` has taken the connection over (`TakenOver`, `Arrivals`), sends
an older event late from the hands of a superseded goroutine (`LateEvent`, 263-277), and
loses one when the timer of another client expires (`LoseEvent`, 377-386; the adapter
must share its notifier with others for that, hence `drained`). An object that
something of the last two has happened to is `disturbed` until the adapter calls
`Watch` again; what the notifiers remember of it is left open. `Set` refuses an entry
that is too large, and may drop a new one; ristretto may evict any. The cache
holds versions, that is places in the log of the cluster.

| Code | Actions |
|---|---|
| `startGatewayRouteCacheAdapter`, `newCacheAdapter`, `startWatching`, 93-125 | `StartWatching`, `StartFails` |
| the shared watch, KWS 263-386 | `TakenOver`, `SkipEvent`, `LoseEvent`, `LateEvent` |
| `watchloop`, 127-149 | `TakeEvent`, `SeeClosed`, `Rewatch`, `RewatchFails`, `ReadNilHandler`, `SeeDone` |
| `OnWatchEvent`, 151-174, and `cache.go` | `OnWatchEvent` in `TakeEvent`, `SetModified`, `Set`, `Deleted`, `Evict` |

The adapter is the only writer of its kind's cache but for routes, whose create
and update set their entries themselves; that is in RouteOps.

### RouteEntity and RouteOps

RouteEntity has the conversions of `entity/route.go` between a Route and the
HTTPRoute, BackendTrafficPolicy and Ingress (either API group) that store it:
defaults of path, port, path type and class, timeouts of annotations, the session
persistence of an affinity cookie, and the policy merged back on reading. What
all of them copy (host, service, labels) is the route's id.

RouteOps has one name and, per caller, the requests of a call one after the
other, `pc` being the request that is next; `seen` is the object whose version
goes with an update. `system` is the configuration: which gateway systems are
enabled, the Ingress API, blue-green 2, whether the policies' kind is installed,
the default timeout, and whether somebody reads `WatchRoutes`.

| Code (`route.go` unless named) | Actions |
|---|---|
| `CreateRoute`, `UpdateOrCreateRoute`, `DeleteRoute`, and `resolve...Result` | `Start`, `Entry`, `Answer`, `Return` |
| the HTTPRoute of each | `HTTPGet`, `HTTPCreate`, `HTTPUpdate`, `HTTPDelete`, `HTTPCache` |
| `backend_traffic_policy.go` | `PolicyGet`, `PolicyCreate`, `PolicyUpdate`, `PolicyDelete` |
| the Ingress of each | `IngressGet`, `IngressCreate`, `IngressUpdate`, `IngressDelete`, `IngressCache` |
| `GetRoute`, `GetRouteList` | `GetHTTP`, `GetPolicy`, `ListPolicies`, `ListHTTP`, `GetIngress` |
| `WatchRoutes`, `routeFromWatchedHTTPRoute` | `Watch` |
| a failing request or cache | `RequestFails`, the second disjunct of `HTTPCache` and `IngressCache` |
| another owner of policies | `ForeignPut`, `ForeignDelete` |

### CrudOps

The wrappers of `adapterForCrud.go` for objects of one kind in one namespace,
numbered in the order of a list. The data of an object is the set of those who
contributed to it, so that a lost update is a contribution that is missing: `due`
is what must be there. Operation `change` is what a caller of the library does with
an object: Get, change, UpdateOrCreate; `put` writes a new entity. `token` and
`account` are the two branches of `GetOrCreateSecretWithServiceAccountToken`
(`secret.go` 54-132), made of the same requests.

| Code | Actions |
|---|---|
| `GetWrapper`, 18-41 | `Read`, `Fallback` (the cache, when the request failed) |
| `ListWrapper`, `listLimited`, 43-104 | `ListPage` (a page of a size that the server chooses), `Gone` (410: again, at most three attempts) |
| `UpdateOrCreateWrapper`, 134-160 | `Lookup`, `Create`, `Update` |
| `CreateWrapper`, `DeleteWrapper` | `Create`, `Delete` |
| `secret.go` | `Listed`, `Got`, `ReadAccount` |
| API server, token controller, cache adapter | the guards of `Create` and `Update` on versions, `TokenArrives`, `CacheFollows` |

`CacheFollows` lets the cache hold any earlier state of an object; what it may
hold exactly is CacheAdapter's question.

### Entities

The conversions of secrets, config maps, services, certificates and metadata,
record by record, with nil apart from empty, and a small machine: an object is
stored, read as an entity, written back as an object. A field of the object that
the entity has no place for is there by the name of one of them
(`ownerReferences`, `immutable`, `binaryData`, `sessionAffinity`, `appProtocol`,
`subject`, `profile`). The machine shares nothing with CrudOps; `MCCrud` runs
either, one at a time.

### Rollout and PodsRestarting

Rollout is `RolloutDeployments` of both platforms: a task per deployment, in the
order of the batch by the one worker of a pool or all at a time. (The pool is
PoolContract's: it answers when every task has its result; tasks here do not
panic.) The restart is the second that goes into the template, so two in one
second leave the template as it is. The replica sets of a deployment are the
sequence of its templates. `LongerNames` says which names begin with which, since
sets are found by prefix. PodsRestarting adds the pods, their events, and the
goroutine of `WatchPodsRestarting` over the answer of the call.

A check of the pods is several requests, each a step of its own: the list of the
pods (`ListPods`, 275), kept in `podsList`, then one GET per set (`GetSet`, 296 and
338), controllers first, up to one that is not ready; any of them may fail. Pods,
rollouts and events go on between them. The source of the events may end
(`SourceEnds`): on a closed channel the goroutine returns without a message and without
closing `proxyChannel` (234-236), on the ERROR of a failed reconnect it panics (237);
either is `ReceiveEnd`. Four things are coarser than the code. The two requests of
`Instantiate` (`openshiftV3/pod.go` 82 and, when it fails, 85) are one: a first one that
fails does nothing. Replica sets that nobody has answered keep their pods when they
are replaced, since nobody looks at them. A ready pod of a current set stays
ready. The event of a pod is received when `proxyChannel` has room for it.

| Code | Actions |
|---|---|
| `rolloutDeployments`, `pod.go` 55-85 | `Begin`, `Returned`, `Response` |
| `RolloutDeployment`, `pod.go` 87-130, `openshiftV3/pod.go` 58-111 | `Check`, `Lookup`, `ReadActive`, `Patch`, `Instantiate`, `ReadRolling`, `RequestFails` |
| `getLatestReplicaSet`, `correctLastReplicaSet`, `pod.go` 132-173 | `Latest`, `ReadRolling` |
| `WatchPodsRestarting`, `allPodsAreReady`, 215-333 | `WatchPodsRestarting`, `ReceivePodEvent`, `ReceiveEnd`, `AllPodsAreReady` (`ListPods`, `GetSet`), `PodsRequestFails`, `EndWatch`, `ClientReads` |
| controllers, pods, other clients, the REST watch | `RollOut`, `CreatePod`, `PodIsReady`, `DeletePod`, `OthersRestart`, `Relist`, `SourceEnds` |

## Runs

`CHECK_DEADLOCK FALSE` is set everywhere: bounds are exhausted, pools stop and a
panic ends the process; that goroutines do not block each other is `LockOrder`
and the liveness properties.

| Run | Instance | Shows |
|---|---|---|
| `SharedWatchStops` | 2 watches, 1 object, 1 version, a slow client, a client whose filter matches nothing, stops, 1 re-listing, 1 failed `Watch` (about 191 000 states) | `LockOrder`, `StoppedWhenIdle`, `NoClosedChannelUse`, `StoppedClientGetsNothing`, and with fairness `StopReturns`, `ClosedConnectionClosesClients` |
| `SharedWatchVersions` | 2 watches, 1 object, 2 versions, 1 bookmark, 1 re-listing, 1 resumption, 1 failed `Watch` (about 1.4 million states) | `TypeOK`, `EveryOpenClientIsServed`, `InOrderUnlessLate`, `TwoHearAddedFirst`, `ConvergedUnlessLate` |
| `RestWatch` | 1 object, 2 versions, 3 requests, 2 bookmarks, reader that asks for bookmarks (about 1 million states) | `OneRequest`, `ResumesWithoutGap`, `UpToDate`, `KeepsStream`, `CancelCloses` |
| `Pool` | 2 calls of up to 2 tasks, 2 stops, 2 workers, queue of 1, 1 panic | `TypeOK`, `NoSendOnClosedChannel`, `QuietWhenStopped`, `CollectNeverBlocks`, `KeepsContract`, and the two liveness properties |
| `Routes` | 2 callers, 3 calls, 3 routes (with a timeout and GRPC, plain, refused), 6 configurations, 1 fault (about 4.6 million states) | `SuccessKeepsRoute`, `UpdateRepairs`, `DeleteRemoves`, `ReadBackStores`, `ForeignPolicyKept` |
| `CacheAdapter` | 2 objects, 3 changes, one version too large, 1 break or takeover, 1 resumption, 1 event that is lost or late (about 264 000 states) | `TypeOK`, `StaleOnlyIfLost`, `StaleEntryLeaves` |
| `Crud` | 2 callers, 2 names, 3 calls, 2 failing requests, 1 token, 2 looks for it; or one object of every kind with all, no or only known fields set (about 546 000 states) | `NoUpdateLost`, `CreatedAfresh`, `ListIsSnapshot`, `TokenIsThere`, `WriteBackKeeps` |
| `Rollout` | a deployment, one whose name two configurations begin with, an unknown name, batches of one or two, 1 fault, 2 seconds, 1 replica (about 309 000 states) | `RollingIsOwn`, `RolloutEnds`, `ClosedMeansRolledOut`, `PodsWatchCloses` |

Why the bounds are enough. Two watches make one handover with a superseded
goroutine, a chain of two notifiers and two clients of one notifier after a
bookmark; a third is what `SharedWatchThreeClients` needs. (`InOrderUnlessLate`
and `ConvergedUnlessLate` hold for three watches with two versions and a bookmark,
too; at 35 minutes that search is too long for a run.) The run with stops has no
bookmark: two of its properties are about the time before the first one, `LockOrder`
and `StoppedWhenIdle` are theorems for any number of them, and what must eventually
happen need not once the panic that a bookmark makes possible (below) has ended the
process. One object suffices since no step relates two objects but a filter. Two
versions give ADDED, MODIFIED or DELETED on both sides of a handover. Three
requests are a first one, one that is resumed or listed again, and one after
both; two bookmarks make a bookmark stale. In Pool, four tasks for two workers and
a queue of one fill everything. Three calls about a route are one that fails half
way, one that repairs, and one that reads, or overlaps with either; one fault
leaves every half-written state, since each request can be the one that fails. Two
changes that overlap and a deletion are what an update can meet; with two names a
list has two pages, and expires between them. A break of an adapter's watch
loses what was deleted meanwhile; the changes after it find it again, or not. Two seconds and
one restart by others give the batch a template of before, of its own and of
after; more replicas only repeat the steps of one. Restarts by others end with the
call, and are shared with failing requests, re-listings and the end of the pods'
events (`MaxFaults`). The
theorems below hold without any of these bounds.

Some properties have a named exception, and the exception is a finding, a
divergence listed below or a documented effect: `TwoHearAddedFirst` is about two
clients because it fails for three (`SharedWatchThreeClients`); `InOrderUnlessLate` and
`ConvergedUnlessLate` leave out a client that got an event from a goroutine that
was already cancelled (KWS 263-269, `select` prefers no branch), the first of them
also resumed connections, which repeat events by themselves; these three are checked
without a slow client (`SharedWatchVersions`), since a timer that expires takes the
event from the others (385) and leaves it in `processedVersions` as if they had it;
`NoClosedChannelUse` and `StoppedClientGetsNothing` hold until the first bookmark, which may give a
client two owners, so that the race of `drainPrevious` (398) is not what they are
about; `StopReturns` leaves out the calls after a panic: `StopWatching` of the last
client after a failed `Watch` dereferences the nil handler (246-249), and returns as little
as any other; `EveryOpenClientIsServed` leaves out the time after a failed
`Watch` (`SharedWatchFailedWatch`); `StoppedWhenIdle` leaves out clients removed by
a timeout, which stop nothing; `UpToDate` promises that deleted objects are known
to be deleted only as long as nothing was listed again, and `StaleOnlyIfLost`
excepts the same of the cache, and an ADDED after a break that is too large to
replace an entry; it and `StaleEntryLeaves` also leave out an object of which an event
was sent late (KWS 263-269) or lost to another client's timer (385) since the last
`Watch`: then an older version may stay in the cache though nothing broke.
`ResumesWithoutGap` and `UpToDate` are about a log that is never compacted, and
`CancelCloses` about a reader that goes on reading. `SuccessKeepsRoute`, `UpdateRepairs`, `DeleteRemoves`
and `ReadBackStores` are about a call that had the server for itself, whatever the
calls before it left: two overlapping updates may each store one half, or see the
other's version and fail. `SuccessKeepsRoute` says of the cache what the call itself
wrote; its adapter writes it as well. `ReadBackStores` says nothing of the Ingress where
there is Gateway API too: the route is read from the HTTPRoute then, which keeps
neither nginx annotations (`entity/route.go` 361-376) nor a class, and whose
`PathPrefix` networking/v1 refuses. `RolloutEnds`, `RollingIsOwn` and
`ClosedMeansRolledOut` are about names that are not the beginning of another's
(`Unmistakable`), the first besides about a restart that changes the template, the
other two about a deployment that nobody else restarts meanwhile. `PodsWatchCloses`
leaves out a newer rollout that takes the pods away, and the end of the events, after
which the client waits for ever. `TokenIsThere` leaves out a secret that is deleted
during the wait.
`WriteBackKeeps` is about objects whose set fields entities know.

Runs that find what the code does not keep (`expect` is `violation`):

| Run | What happens |
|---|---|
| `SharedWatchFailedWatch` | `Watch` cancels the current handler first and fails then: the old clients have open channels and nobody who serves them |
| `SharedWatchThreeClients` | three clients in a row: PREVIOUS is resolved once, by the oldest notifier, in the one copy of the event (341), and the client in the middle hears MODIFIED without ADDED |
| `PoolPanic` | a panicking task leaves `Submit` waiting with the lock, and so `Stop` |
| `CacheAdapterRestart` | a watch that cannot be restarted is a nil handler, whose channel the adapter reads next: a panic |

Divergences met while modelling that have no run.

Shared watch:

* A bookmark moves the clients of a superseded notifier while its goroutine is
  sending to them (KWS 398-411, without that notifier's mutex): two owners, then a
  send on, or a close of, a closed channel.
* `return` in the timeout branch of `sendToClients` (385): the remaining clients
  miss the event. A client removed that way does not stop the connection (384).
* The comment on `cleanup` (435, the clients of previous notifiers "must be left
  along") against the code, which closes them, as TestServerChannelClosed expects.
* Kinds without a `generation` get ADDED twice after a handover (323).

REST watch loop:

* It blocks in a send when its reader is gone (KW 97, 140, 160): cancelled, it
  does not close its channel and never stops its request.
* It resumes from the last bookmark, not from the last event (121-123): what came
  after the bookmark is delivered twice.

Cache adapters (clients of the shared watch):

* An older version that a superseded goroutine sends late (KWS 263-269), or an event
  lost to another client's timer (385), leaves an entry stale, or brings a deleted one
  back, until the object changes again or the adapter calls `Watch` anew.

Routes (`route.go`):

* A route read in dual mode has the path type of the HTTPRoute, `PathPrefix`, which
  networking/v1 refuses when it is written back; the answer of a dual-mode write
  lacks the timeout of the policy; an affinity cookie is lost on reading.
* Two overlapping updates may leave the HTTPRoute of one and the Ingress of the
  other. An update takes the version that it reads itself, so that of what the
  caller read is overwritten.
* A cache entry that is set late brings a deleted route back into the cache; a
  delete that finds no HTTPRoute leaves its entry there.
* The policy is written after the HTTPRoute and makes no event of its own: a reader
  of `WatchRoutes` may be left with a route without it (385).
* The mark for the converter of Ingresses is put into the caller's map of
  annotations (657).

Other operations:

* UpdateOrCreate of an entity that was not read has no version: the last writer
  wins.
* A secret that is found is returned with or without a token (`secret.go` 71). A
  secret or account that is deleted meanwhile is a nil dereference (90, 114).
* A caller that reads, changes and writes a service turns named target ports into
  0; owner references, `binaryData`, `immutable`, `subject` and other fields that
  entities do not have are dropped.
* Adapters that were started before one whose watch fails keep their goroutines,
  though the client is not built.
* The second rollout of a deployment in one second changes nothing and waits for
  ever (`pod.go` 136, 147), as does one whose name begins the name of a set with a
  higher revision (160). A failed `instantiate` is answered with neither a result
  nor an error (`openshiftV3/pod.go` 94).
* The goroutine of `WatchPodsRestarting` converts the ERROR event of a failed
  reconnect to a pod (237): a panic. When the events end without one (an object of
  another kind, KW 150-158, or a cancelled context) it returns and tells nobody:
  `proxyChannel` is neither written nor closed (234-236), and its reader waits for ever.
  It never ends when its reader stops reading.

## Fairness

Goroutines that can run do run (weak fairness per goroutine), and Go's mutexes
starve nobody (their starvation mode), so weak fairness of the step that takes
one suffices. In SharedWatch the API server answers a `Watch`, a cancelled
connection ends, and a client that reads receives what is sent to it; slow
clients need not, for them the timer does, which is a step of the goroutine. In
RestWatch, `SeeDone` has strong fairness: Go's `select` picks at random among the
ready cases, so a cancelled context that stays ready is seen in the end, even if
events keep coming. A cancelled connection that ends is what `CancelCloses`
shows of RestWatch for a reader that goes on reading. The API server owes no
event, bookmark, end or answer there. In Pool a task that runs ends or panics;
nobody has to call `Stop`. In CacheAdapter only the adapter's goroutine is fair: the
cluster owes no change and the watch no end. In Rollout the tasks, the goroutine
and the client that reads are scheduled, and the controllers roll a new template
out and make its pods ready, which is what the code waits for; requests need not
fail and others need not restart anything. Routes, Crud have safety properties
only: each call is a finite sequence of requests.

## Proofs

Every theorem holds for all values of the constants.

* `SharedWatchProofs!TypeCorrect`, `LocksOrdered` (`LockOrder`),
  `NoPanicBeforeBookmark` (`NoClosedChannelUse`). `LockOrder` is not inductive:
  that a goroutine waits only for an older notifier needs that the chain leads
  from newer to older ones (`ChainOrder`), that a call of `Watch` makes a notifier
  newer than all (`WatchOrder`), that the mutexes of an event goroutine are not
  newer than its own notifier (`OwnRange`), that a goroutine outside of a
  recursion holds none (`Resting`), and that each step enters the notifier below
  the lowest mutex held (`Descending`). `Exclusive` is the mutual exclusion that
  `Descend` keeps. `ChannelInv` adds to it that before the first bookmark every
  notifier has no client but the one with its id, and that a client in a map has an
  open channel.
* `SharedWatchProofs!NobodyIsForgotten` (`EveryOpenClientIsServed`) and
  `StopsWithTheLastClient` (`StoppedWhenIdle`). `Reach` is the chain as a function of
  the values of `previousNotifier`, with a lemma for each thing the code does to it:
  `Watch` puts a notifier on top, a BOOKMARK takes over the clients of the one below
  and cuts it off (`CutIn`, `CutOff`). `PlaceInv` says that the notifiers form one line
  (`LinkInv`), that the holder of the namespace mutex is where it needs it
  (`MutexHolder`), and that whoever walks the chain under that mutex has locked or
  has yet to lock all of it (`Walks`): that is why the sum that `StopWatching` counts
  is about one state, and why a closed connection misses no client. `OwnerInv` then is
  about the clients: an open one has one owner in the chain (`Owned`), a goroutine that
  ended without being superseded and a stopped connection leave nobody behind
  (`DoneEmpty`, `StoppedEmpty`), and when nobody is left the connection is stopped or
  somebody is about to count (`IdleInv`). `Owned` and `IdleInv` speak of a program that
  has not panicked: a panic stops a walk half-way.
* `SharedWatchProofs!StoppedMeansSilent` (`StoppedClientGetsNothing`), an action
  property: before the first BOOKMARK every notifier stays in the chain (`InChain`), so
  `StopWatching` has passed the client's own, which no longer has it (`Gone`), and by
  `ChannelInv` no other ever did.
* `DeliveryProofs!DeliversTheNewestVersion` (`ConvergedUnlessLate`), for every number
  of clients, objects, versions, bookmarks, re-listings, resumptions and failed calls
  of `Watch`. The invariant, `DeliveryInv`, follows an update down to the clients.
  `Owed`: a client in the chain knows the version of an object, or an event about it is
  in the stream of the current connection or in the hand of its goroutine, which still
  has to pass the client's notifier. `Delivered`: the clients of a notifier that the
  goroutine has passed know the event in hand. `Synced`: what a notifier remembers in
  `processedVersions` is nothing, or what the clients at and below it know, or they are
  about to be told; this is why it may skip an event, and why a BOOKMARK may hand
  the clients of older notifiers to the newest. `Ground` has what these rest on: the
  mutexes that a goroutine holds are those of the chain from its own notifier down to
  where it is (`FrameInv`); a client has one notifier (`OneOwner`); streams agree with
  the history of the cluster, their events follow the BOOKMARKs (`StreamsInv`), and the
  last event about an object brings its current version (`LastInv`), through listings
  and replays alike; a goroutine other than the current connection's is cancelled
  (`Superseded`), so whatever it sends marks the client as late.
  The theorem is `Spec /\ [][Timely]_vars => []ConvergedUnlessLate`: no timer of a send
  expires. It is needed: at `kubeWatchServiceShared.go:385` the code returns from
  `sendToClients`, and the other clients of that notifier never get the event, although
  the notifier remembers it. `ReadersKnowTheNewest` draws the same conclusion from
  the constants, `SlowClients = {}` and `StopKinds = {}` as in the run
  `SharedWatchVersions`: clients that read let no timer expire.
* `RestWatchProofs!OneRequestOnly` (`OneRequest`). The strengthening says that
  the watcher is nil or that of the latest request, and that a closed result
  channel means that the server no longer serves it (`Over`).
* `RestWatchProofs!NothingIsSkipped` (`ResumesWithoutGap`) and `ReaderIsUpToDate`
  (`UpToDate`). Both speak of what was forwarded, which a step of the loop changes
  only by what is under way, so `WatchInv` is about both together. `GapInv`: while a
  request is read, everything that the server has sent is forwarded or in the result
  channel, from one listing on (`Covered`), and an older message about an object
  comes before a newer one (`NotStale`). Each BOOKMARK under way is such a place by
  itself, counting only what is before it (`Complete`), which is what makes it a
  version to resume from when it is taken (`MarkInv`).
* `RestWatchProofs!Implements` (`KeepsStream`), for a reader that asks for bookmarks,
  as `KWS` 214 does. The stream is concatenated from channel, hand, result channel
  and log (`Parts`), and an event that moves on leaves it the same. A request that is
  repeated drops all but the channel, which is a step of WatchStream because of
  `ShownInv`: the loop resumes from the last BOOKMARK that it forwarded
  (`LastMarkOK`), all older numbers of requests are below that of a new listing
  (`Numbers`), and no ERROR or object of a wrong type stands in the channel before
  the loop's end (`ControlsOK`).
* `PoolProofs!TypeCorrect`, `NoSendOnClosed`, `StoppedIsQuiet`, `CollectsAll`,
  and `Implements`, the refinement of PoolContract. The inductive invariant
  `PoolInv` says where a task can be: still to be sent, in the queue, with exactly
  one worker, or answered (`Sent`, `Working`, `Counted`, `Once`), what of that is
  excluded in which phase of its call (`Phases`), and that the pool stops only
  without readers. That the collected results are one per task when the loop over
  their number ends is a counting argument (`OneOfEach`).

* `RouteProofs!OnlyOursAreTouched` and `ForeignIsKept` (`ForeignPolicyKept`). The
  check for the label of a policy and the request that writes it are two steps.
  `RouteInv` says that what a call is about to update or delete bore the label when
  it was read (`SeenIsOurs`, with `CallShape` for the shape of `call`). An update
  carries the version that was read, so it fails on a policy that is another's by
  now; the deletion by name does not, which is the exception that the property
  names.
* `RouteProofs!SuccessIsKept` (`SuccessKeepsRoute`), `UpsertRepairs`
  (`UpdateRepairs`), `DeleteIsComplete` (`DeleteRemoves`) and `ReadIsStoredBack`
  (`ReadBackStores`) speak of the end of a call that was alone, so the invariant
  says what each place of such a call has achieved already (`ProgressInv`, itself the
  theorem `CallsProgress`): `Writing` for the halves that are kept as asked,
  `Repairing` for the requests that can not fail, `Deleting` for what is gone,
  `Reading` for what was read. Faults are only ever used up, so a call without
  one at its end had none before, and an undisturbed call stays the only one (`Solo`).
  What the API server holds was made from routes by the conversions (`ServerOK`);
  `ReadBackStores`, which leaves out the Ingress of a cluster with both, then rests on
  what the conversions do to every route
  (`RuleIsStable`, `PolicyIsStable`, `IdleIsStable`, `IngressIsStable`).
* `CrudProofs!NothingIsLost` (`NoUpdateLost`) and `NothingComesBack`
  (`CreatedAfresh`). `NoUpdateLost` speaks of the store only; an update keeps it
  because of what the call carries: `CrudInv` adds that equal versions are equal
  objects, in the cache too (`Versions`), and that an entity with the object's
  version contains all that this version does (`Pending`).
* `CrudProofs!ListIsOneState` (`ListIsSnapshot`) and `WaitFindsToken`
  (`TokenIsThere`), with an invariant of their own each: `ListInv` says that the
  pages so far are the first ones of one past state, `TokenInv` which request a
  waiting call can have under way and that what it waits for exists until
  somebody deletes it.
* `CacheProofs!CacheHoldsVersions` (`TypeOK`) and `StaleEntriesAreFollowed`
  (`StaleOnlyIfLost`). The property looks at the stale entry only; to be inductive
  it must say the same of every event under way and of the event in the adapter's
  hand, since each of them is an entry soon. `DeliveryOK` does, for every object that
  is not disturbed: as long as no connection broke, each of them is followed by all the
  later changes of its object, in their order (`Unbroken`); after a break or a takeover
  by the version that the cluster has, if that is neither absent nor too large
  (`Broken`). `HeardOK` ties what the notifier remembers to what the cache has, so that
  an event that is skipped is one the adapter need not hear again.
* `RolloutAndEntityProofs!AnsweredSetIsOwn` (`RollingIsOwn`) and `ClosedWatchIsRolledOut`
  (`ClosedMeansRolledOut`). `Own` follows a restart that nobody disturbs: up to its
  patch the deployment is rolled out as it was read, afterwards no template but
  that of the patch can come. The watch of the pods starts after the call has ended
  and waits for exactly the sets it answered (`WatchOK`). `CheckOK` carries the list of
  the pods over the requests that follow: what was listed is still ready, up to the
  pods of sets that were replaced since (a set that was replaced does not come back,
  which `PodsOK` is for), and every set that was asked for had all its pods in the list.
* `RolloutAndEntityProofs!NothingKnownIsDropped` (`WriteBackKeeps`), for every object and every
  length of its lists: one lemma per record (`MetaSurvives`, `KeystoresSurvive`, ...),
  one per kind.

Assumptions are the named ASSUMEs of the modules: finite sets, natural bounds,
distinct nil values. TLC evaluates them on every run.

Only model-checked: the liveness properties (`StopReturns`,
`ClosedConnectionClosesClients`, `CancelCloses`, `SubmitReturnsUnlessPanic`,
`StopEndsWorkersUnlessPanic`, `StaleEntryLeaves`, `RolloutEnds`, `PodsWatchCloses`),
since the prover has no fairness; and of SharedWatch the two about the order of
what a client receives (`InOrderUnlessLate`, `TwoHearAddedFirst`). The first needs
besides `DeliveryInv` that what is left in a stream is not older than what any client
knows, and that a notifier forgets a version only after its object was deleted, also
when a BOOKMARK moves clients to another notifier; and that no timer of a send expires,
for then a superseded goroutine may leave an older version in a notifier whose clients
it has not told. The second is false for more than two clients
(`ModifiedOnlyAfterAdded`).

## Plan

Done, in this order: SharedWatch; Pool; RestWatch and WatchStream; RouteEntity and
RouteOps; CacheAdapter over WatchStream; CrudOps with the waits for a token; Rollout
and PodsRestarting; Entities.

Left, the most useful first:

1. `InOrderUnlessLate` as a theorem, on top of `DeliveryInv`.
2. `ClientChannel`, an abstract specification of what one client of a shared watch
   sees (no channel, open, stopped, closed), refined by SharedWatch.
3. The pool composed with the tasks of Rollout, so that a panic of a task reaches the
   rollout.
4. The route lists and watches of the gateway kinds, and the grouping of
   deployments into families.

## Not modelled, and why

Construction and configuration (sequential, no state afterwards; logging in to
Consul), entities that are only read (one direction, nothing to keep), operations of
one request without a wrapper (namespaces, lists of pods and deployments,
OpenShift's projects), the lists and watches of HTTPRoutes and GRPCRoutes as such and
`GetBadRouteLists`, logging, label selectors (a filter is a set of pairs), generated
mocks. Of the REST watch loop: an executor that answers a reconnect with the same
channel or with no watcher. `watch/shared.go` is a stub that panics.
