------------------------ MODULE CacheAdapterProperties ------------------------
(***************************************************************************)
(* What a cache adapter promises to those who fall back to the cache.      *)
(***************************************************************************)
EXTENDS CacheAdapter

Pcs == {"start", "disabled", "failed", "loop", "set", "sleep", "noHandler", "panic", "done"}

\* The versions that object o has had.
Had(o) == {i \in DOMAIN log : log[i].obj = o /\ log[i].type # "DELETED"}

\* The type of the state; every entry is a version that its object once had, and
\* none is too large.
TypeOK ==
  /\ cache \in [Objects -> Nat] /\ \A o \in Objects : cache[o] \in ({0} \cup Had(o)) \ TooLarge
  /\ pc \in Pcs /\ ctxDone \in BOOLEAN
  /\ heard \in [Objects -> Nat] /\ disturbed \subseteq Objects
  /\ superseded \in BOOLEAN /\ drained \in BOOLEAN
  /\ breaksLeft \in 0 .. MaxBreaks /\ resumesLeft \in 0 .. MaxResumes
  /\ disturbancesLeft \in 0 .. MaxDisturbances
  /\ hand = NoEvent <=> pc # "set"

\* A later change of object o is on its way to the cache, and will not be skipped.
Coming(o, version) ==
  \/ pc = "set" /\ hand.obj = o /\ hand.rv > version
  \/ \E i \in DOMAIN stream : stream[i].obj = o /\ stream[i].rv > version /\ stream[i].rv # heard[o]

Listening == pc \in {"loop", "set"} /\ status = "open"

\* While the adapter listens, an entry that is not the cluster's is about to be
\* replaced or removed.  Two exceptions take a break of the connection: the object was
\* deleted meanwhile, or its ADDED is too large to replace the entry
\* (adapterForCache.go 151-174: MODIFIED removes the entry first for that).  Two are the
\* shared watch's: a goroutine of an earlier connection has sent an older version late
\* (kubeWatchServiceShared.go 263-269), or the event was lost to the timer of another
\* client of the notifier (385); until the next Watch nothing is said of such an object.
StaleOnlyIfLost ==
  Listening => \A o \in Objects \ disturbed :
    cache[o] \notin {0, store[o].rv} /\ ~Coming(o, cache[o])
      => breaksLeft # MaxBreaks /\ (store[o] = Absent \/ store[o].rv \in TooLarge)

\* As long as the connection neither breaks nor is taken over, and no event of the
\* object is lost to the timer of another client, no entry stays behind the cluster
\* (adapterForCache.go 127-174).
StaleEntryLeaves ==
  \A o \in Objects : \A v \in 1 .. MaxVersion :
    (cache[o] = v /\ store[o].rv # v)
      ~> (cache[o] # v \/ store[o].rv = v \/ breaksLeft # MaxBreaks \/ o \in disturbed \/ ctxDone)

\* Checked by a run that expects a violation.  A watch that cannot be restarted is
\* only logged, and the adapter goes on (adapterForCache.go 140-143).
RestartFailureIsSurvived == pc # "panic"
=============================================================================
