---------------------------- MODULE DeliveryProofs ----------------------------
(***************************************************************************)
(* That a shared watch loses no update (ConvergedUnlessLate), for any      *)
(* number of clients, objects, versions, bookmarks, re-listings and        *)
(* resumed connections, as long as no timer of a send expires.             *)
(*                                                                         *)
(*   stream --> event[k] --> the chain of notifiers --> a client           *)
(*                                                                         *)
(* Owed: a client knows the version of an object, or an event about it is  *)
(* in the stream or in hand.  Delivered: a notifier that the goroutine     *)
(* has left has told its clients.  Synced: so a notifier that skips an     *)
(* event, because it remembers the version, has told them before.  Ground  *)
(* is what these need of the chain, the streams and the goroutines.        *)
(***************************************************************************)
EXTENDS SharedWatchProofs

USE DEF Id, None, Server, Procs, Free, WatchCall

\* A client that got no event from a superseded goroutine, and an object that
\* its filter accepts.
Follows(c, o) == ~Late(c) /\ <<c, o>> \notin FilteredOut

\* Goroutine j has event[j] in hand; its calls return, down to notifier n.
Sending(j, n) == InFrame(Server(j), "send", n)
About(j, o) == pc[Server(j)] \in {"count", "accept", "send"} /\ event[j].obj = o
Returning(j) == pc[Server(j)] \in {"accept", "send"} /\ next[Server(j)] = None
Handles(j, o) == Returning(j) /\ event[j].obj = o

\* A goroutine of the chain holds the notifiers of the chain from its own down
\* to where it is, any other none of them.
FrameOK(j) ==
  IF j \in Current
  THEN /\ held[Server(j)] \subseteq Current
       /\ next[Server(j)] \in Current \cup {None}
       /\ \A i \in Current : i <= j /\ i \notin held[Server(j)] =>
            /\ \A n \in held[Server(j)] : i < n
            /\ next[Server(j)] # None => i <= next[Server(j)]
  ELSE held[Server(j)] \cap Current = {} /\ next[Server(j)] \notin Current
FrameInv == \A j \in Id : FrameOK(j)

LEMMA CurrentBelow ==
  TypeOK /\ LockInv => \A i \in Current : i \in Id /\ i <= currentNotifier
  <1> SUFFICES ASSUME TypeOK, LockInv PROVE \A i \in Current : i \in Id /\ i <= currentNotifier
    OBVIOUS
  <1>1. Linked(previousNotifier) /\ currentNotifier \in 0 .. MaxWatches
    BY Groups, ChainLinked DEF NsTypeOK
  <1>2. CASE currentNotifier = None
    BY <1>2, ChainIsReach, ReachNone DEF Current
  <1>3. CASE currentNotifier # None
    <2>1. currentNotifier \in Id
      BY <1>1, <1>3, ConstantsAssumption
    <2> QED  BY <1>1, <2>1, ChainIsReach, ReachBelow DEF Current
  <1> QED  BY <1>2, <1>3

\* Nothing of the chain lies between a notifier and its previous one.
LEMMA CurrentGap ==
  ASSUME TypeOK, LockInv, NEW x \in Current
  PROVE  /\ previousNotifier[x] = None => \A i \in Current : i >= x
         /\ previousNotifier[x] # None =>
              /\ previousNotifier[x] \in Current /\ previousNotifier[x] < x
              /\ \A i \in Current : i < x => i <= previousNotifier[x]
  <1> DEFINE P == previousNotifier
  <1>1. Linked(P) /\ currentNotifier \in Id /\ x \in Id /\ Current = Reach(P, currentNotifier)
    <2>1. Linked(P) /\ currentNotifier \in 0 .. MaxWatches /\ x \in Id
      BY Groups, ChainLinked, CurrentIds DEF NsTypeOK
    <2>2. currentNotifier # None
      BY ChainIsReach, ReachNone DEF Current
    <2> QED  BY <2>1, <2>2, ConstantsAssumption, ChainIsReach DEF Current
  <1> HIDE DEF P
  <1>2. P[x] \in 0 .. MaxWatches /\ P[x] < x
    BY <1>1 DEF Linked
  <1>3. ASSUME NEW i \in Current, i < x PROVE i \in Reach(P, P[x])
    <2>1. i \in Reach(P, x)
      <3>1. i <= x
        BY <1>1, <1>3, CurrentIds
      <3> QED  BY <1>1, <3>1, ReachLinear
    <2>2. Reach(P, x) = {x} \cup Reach(P, P[x])
      BY <1>1, ReachStep
    <2> QED  BY <1>1, <1>3, <2>1, <2>2, CurrentIds
  <1>4. CASE P[x] = None
    BY <1>1, <1>3, <1>4, ReachNone, CurrentIds DEF P
  <1>5. CASE P[x] # None
    <2>1. P[x] \in Current
      BY <1>1, <1>5, ReachClosed
    <2>2. \A i \in Reach(P, P[x]) : i <= P[x]
      BY <1>1, <1>2, <1>5, ReachBelow, ConstantsAssumption
    <2> QED  BY <1>2, <1>3, <1>5, <2>1, <2>2 DEF P
  <1> QED  BY <1>4, <1>5

\* What is not in the chain leads to nothing in it.
LEMMA CurrentApart ==
  ASSUME TypeOK, LockInv, LinkInv, NEW x \in Id, x \notin Current
  PROVE  previousNotifier[x] \notin Current
  <1> DEFINE P == previousNotifier
  <1>1. SUFFICES ASSUME P[x] \in Current PROVE FALSE
    OBVIOUS
  <1>2. /\ Linked(P) /\ OneAbove(P) /\ P[x] # None /\ x <= currentNotifier
        /\ currentNotifier \in Id /\ Current = Reach(P, currentNotifier)
    <2>1. Linked(P) /\ currentNotifier \in 0 .. MaxWatches /\ P[x] # None
      BY <1>1, Groups, ChainLinked, CurrentIds DEF NsTypeOK
    <2>2. currentNotifier # None
      BY <1>1, ChainIsReach, ReachNone DEF Current
    <2> QED  BY <2>1, <2>2, ConstantsAssumption, ChainIsReach DEF Current, LinkInv
  <1> HIDE DEF P
  <1>3. Reach(P, x) \cap Reach(P, currentNotifier) = {}
    BY <1>2, ReachDisjoint
  <1>4. P[x] \in Reach(P, x)
    BY <1>2, ReachSelf, ReachClosed
  <1> QED  BY <1>1, <1>2, <1>3, <1>4
-----------------------------------------------------------------------------
\* The steps, by what they do to the delivery of events.
ServerSame ==
  \A j \in Id : /\ pc'[Server(j)] = pc[Server(j)] /\ held'[Server(j)] = held[Server(j)]
                /\ next'[Server(j)] = next[Server(j)]
OtherServers(k) ==
  \A j \in Id \ {k} :
    /\ pc'[Server(j)] = pc[Server(j)] /\ held'[Server(j)] = held[Server(j)]
    /\ next'[Server(j)] = next[Server(j)]
ChainSame == UNCHANGED <<currentNotifier, previousNotifier>>

\* Steps that leave the delivery alone, and those of a goroutine that only moves.
Calm ==
  /\ ServerSame /\ ChainSame
  /\ UNCHANGED <<clientsMap, processedVersions, event, pending, received>>
Streams == Cluster \/ \E k \in Id : Connection(k)
Aside ==
  \/ WatchBegin \/ WatchFail \/ UNCHANGED vars
  \/ \E s \in StopKinds, c \in Id :
       StopCalled(s, c) \/ StopBegin(s, c) \/ StopEnd(s, c) \/ Descend(<<s, c>>)
  \/ \E k, n, c \in Id : SendClosed(k, n, c)
Moves(k) ==
  \/ Receive(k) \/ Counted(k) \/ ExitCancelled(k) \/ SeeClosed(k)
  \/ CleanupBegin(k) \/ CleanupEnd(k)

\* No timer of a send expires.
Timely == \A k, n, c \in Id : ~SendTimeout(k, n, c)

LEMMA DeliverySteps ==
  ASSUME [Next]_vars, Timely
  PROVE  \/ Streams \/ Aside \/ WatchSucceed
         \/ \E s \in StopKinds, c \in Id : DeleteClient(s, c)
         \/ \E k \in Id : Descend(Server(k)) \/ Moves(k) \/ DrainBookmark(k)
         \/ \E k, n \in Id : SkipEvent(k, n) \/ ProcessEvent(k, n) \/ SendDone(k, n)
         \/ \E k, n, c \in Id : SendOk(k, n, c)
  <1>1. ASSUME NEW k \in Id, ServerStep(k)
        PROVE  \/ Descend(Server(k)) \/ Moves(k) \/ DrainBookmark(k)
               \/ \E n \in Id : SkipEvent(k, n) \/ ProcessEvent(k, n) \/ SendDone(k, n)
               \/ \E n, c \in Id : SendClosed(k, n, c)
    BY <1>1 DEF ServerStep, Moves, Timely
  <1>2. ASSUME NEW s \in StopKinds, NEW c \in Id, StopCalled(s, c) \/ StopStep(s, c)
        PROVE  Aside \/ DeleteClient(s, c)
    BY <1>2 DEF StopStep, Aside
  <1>3. ASSUME NEW k \in Id, NEW c \in Id, Sends(k, c)
        PROVE  \E n \in Id : SendOk(k, n, c)
    BY <1>3 DEF Sends
  <1>4. CASE Watch
    BY <1>4 DEF Watch, Aside
  <1> QED  BY <1>1, <1>2, <1>3, <1>4 DEF Next, Streams, Aside

LEMMA StopFrames ==
  ASSUME NEW s \in StopKinds, NEW c \in Id
  PROVE  \A j \in Id : Server(j) # <<s, c>> \/ (s = "server" /\ c = j)
  OBVIOUS

LEMMA StopKindNames == "server" \notin StopKinds
  BY ConstantsAssumption

LEMMA AsideIsCalm ==
  ASSUME TypeOK, Streams \/ Aside
  PROVE  Calm
  <1>p. /\ pc \in [Procs -> PCs] /\ held \in [Procs -> SUBSET Id]
        /\ next \in [Procs -> 0 .. MaxWatches]
    BY Groups DEF ProcTypeOK
  <1>1. CASE Streams \/ WatchBegin \/ WatchFail \/ UNCHANGED vars
             \/ \E k, n, c \in Id : SendClosed(k, n, c)
    <2>1. UNCHANGED <<procVars, currentNotifier, notifierVars, workVars, received>>
      BY <1>1
      DEF Streams, Cluster, Create, Modify, Delete, Change, Connection, SendBookmark, Relist,
          Resume, CloseConnection, WatchBegin, WatchFail, SendClosed, vars, nsVars, clientVars
    <2> QED  BY <2>1 DEF Calm, ServerSame, ChainSame, procVars, notifierVars, workVars
  <1>2. ASSUME NEW s \in StopKinds, NEW c \in Id,
               StopCalled(s, c) \/ StopBegin(s, c) \/ StopEnd(s, c) \/ Descend(<<s, c>>)
        PROVE  Calm
    <2>1. UNCHANGED <<currentNotifier, notifierVars, workVars, received>>
      BY <1>2 DEF StopCalled, StopBegin, StopEnd, Descend, nsVars, clientVars
    <2>2. \A q \in Procs \ {<<s, c>>} : /\ pc'[q] = pc[q] /\ held'[q] = held[q]
                                        /\ next'[q] = next[q]
      BY <1>p, <1>2 DEF StopCalled, StopBegin, StopEnd, Descend, Call
    <2>3. ServerSame
      BY <2>2, StopKindNames DEF ServerSame
    <2> QED  BY <2>1, <2>3 DEF Calm, ChainSame, notifierVars, workVars
  <1> QED  BY <1>1, <1>2 DEF Aside

LEMMA DeleteClientFrames ==
  ASSUME TypeOK, NEW s \in StopKinds, NEW c \in Id, DeleteClient(s, c)
  PROVE  /\ ServerSame /\ ChainSame
         /\ UNCHANGED <<processedVersions, event, pending, received>>
         /\ \A n \in Id : clientsMap'[n] \subseteq clientsMap[n]
  <1>p. /\ pc \in [Procs -> PCs] /\ held \in [Procs -> SUBSET Id]
        /\ next \in [Procs -> 0 .. MaxWatches]
    BY Groups DEF ProcTypeOK
  <1>1. ServerSame
    BY <1>p, StopKindNames DEF DeleteClient, Call, ServerSame
  <1> QED  BY <1>1 DEF DeleteClient, ChainSame, nsVars, workVars, clientVars
LEMMA MovesFrames ==
  ASSUME TypeOK, LockInv, NEW k \in Id, Moves(k)
  PROVE  /\ OtherServers(k) /\ ChainSame
         /\ UNCHANGED <<processedVersions, pending, received>>
         /\ \A n \in Id : clientsMap'[n] \subseteq clientsMap[n]
         /\ \A j \in Id \ {k} : event'[j] = event[j]
         /\ ~Returning(k) /\ ~Returning(k)'
         /\ held'[Server(k)] = {} /\ next'[Server(k)] \in {None, k}
  <1>p. /\ pc \in [Procs -> PCs] /\ held \in [Procs -> SUBSET Id] /\ event \in [Id -> Event]
        /\ next \in [Procs -> 0 .. MaxWatches] /\ clientsMap \in [Id -> SUBSET Id]
        /\ Server(k) \in Procs /\ \A j \in Id \ {k} : Server(j) # Server(k)
    BY Groups, ServerIsProc DEF ProcTypeOK, WorkTypeOK, NotifierTypeOK
  <1>r. pc[Server(k)] \in {"select", "closing"} => held[Server(k)] = {} /\ next[Server(k)] = None
    BY <1>p DEF LockInv, Resting
  <1>1. CASE Receive(k)
    <2>1. /\ pc[Server(k)] = "select" /\ UNCHANGED <<nsVars, notifierVars, held, pending, clientVars>>
          /\ event' = [event EXCEPT ![k] = Head(stream[k])]
          /\ pc' = [pc EXCEPT ![Server(k)] = "count"] /\ next' = [next EXCEPT ![Server(k)] = k]
      BY <1>1 DEF Receive, Call
    <2> QED  BY <1>p, <1>r, <2>1 DEF OtherServers, ChainSame, nsVars, notifierVars, clientVars, Returning
  <1>2. CASE Counted(k)
    <2>1. /\ pc[Server(k)] = "count" /\ UNCHANGED <<nsVars, notifierVars, workVars, clientVars>>
          /\ held' = [held EXCEPT ![Server(k)] = {}]
          /\ pc' = [pc EXCEPT ![Server(k)] = "accept"] /\ next' = [next EXCEPT ![Server(k)] = k]
      BY <1>2 DEF Counted, Call, InFrame
    <2> QED
      BY <1>p, <2>1 DEF OtherServers, ChainSame, nsVars, notifierVars, workVars, clientVars, Returning
  <1>3. CASE ExitCancelled(k) \/ SeeClosed(k)
    <2>1. /\ pc[Server(k)] = "select"
          /\ UNCHANGED <<nsVars, notifierVars, workVars, clientVars, held, next>>
          /\ \E w \in {"done", "closing"} : pc' = [pc EXCEPT ![Server(k)] = w]
      BY <1>3 DEF ExitCancelled, SeeClosed, Exit
    <2> QED
      BY <1>p, <1>r, <2>1 DEF OtherServers, ChainSame, nsVars, notifierVars, workVars, clientVars, Returning
  <1>4. CASE CleanupBegin(k)
    <2>1. /\ pc[Server(k)] = "closing" /\ UNCHANGED <<notifierVars, workVars, clientVars, held, currentNotifier>>
          /\ pc' = [pc EXCEPT ![Server(k)] = "cleanup"] /\ next' = [next EXCEPT ![Server(k)] = k]
      BY <1>4 DEF CleanupBegin, Call
    <2> QED
      BY <1>p, <1>r, <2>1 DEF OtherServers, ChainSame, notifierVars, workVars, clientVars, Returning
  <1>5. CASE CleanupEnd(k)
    <2>1. /\ pc[Server(k)] = "cleanup" /\ next[Server(k)] = None
          /\ UNCHANGED <<previousNotifier, processedVersions, workVars, received, next, currentNotifier>>
          /\ held' = [held EXCEPT ![Server(k)] = {}] /\ pc' = [pc EXCEPT ![Server(k)] = "done"]
          /\ \A n \in Id : clientsMap'[n] = IF n \in CleanedUp(k) THEN {} ELSE clientsMap[n]
      BY <1>5 DEF CleanupEnd, InFrame, Exit
    <2> QED
      BY <1>p, <2>1 DEF OtherServers, ChainSame, workVars, Returning
  <1> QED  BY <1>1, <1>2, <1>3, <1>4, <1>5 DEF Moves

\* A step in the frame of notifier n: the calls below it have returned.
LEMMA ReturnFrames ==
  ASSUME TypeOK, LockInv, NEW k \in Id, NEW n \in Id, SkipEvent(k, n) \/ SendDone(k, n)
  PROVE  /\ OtherServers(k) /\ ChainSame /\ n \in held[Server(k)] /\ n <= k
         /\ UNCHANGED <<clientsMap, processedVersions, event, received, next>>
         /\ \A j \in Id \ {k} : pending'[j] = pending[j]
         /\ \A m \in held[Server(k)] : n <= m
         /\ held'[Server(k)] = held[Server(k)] \ {n} /\ next[Server(k)] = None
         /\ pc'[Server(k)] = IF n = k THEN "select" ELSE "accept"
         /\ Returning(k)
  <1>p. /\ pc \in [Procs -> PCs] /\ held \in [Procs -> SUBSET Id] /\ pending \in [Id -> SUBSET Id]
        /\ Server(k) \in Procs /\ \A j \in Id \ {k} : Server(j) # Server(k)
    BY Groups, ServerIsProc DEF ProcTypeOK, WorkTypeOK
  <1>1. /\ InFrame(Server(k), "accept", n) \/ InFrame(Server(k), "send", n)
        /\ Return(k, n) /\ ChainSame
        /\ UNCHANGED <<clientsMap, processedVersions, event, received, next>>
        /\ pending' = pending \/ pending' = [pending EXCEPT ![k] = {}]
    BY DEF SkipEvent, SendDone, ChainSame, nsVars, notifierVars, workVars, clientVars
  <1>2. n <= k
    BY <1>1 DEF LockInv, OwnRange, InFrame
  <1> QED  BY <1>p, <1>1, <1>2 DEF OtherServers, InFrame, Return, Returning

LEMMA FrameInvSteps ==
  ASSUME TypeOK, LockInv, LinkInv, FrameInv, NEW k \in Id, ChainSame, OtherServers(k),
         Current \subseteq Id,
         \/ held'[Server(k)] = {} /\ next'[Server(k)] \in {None, k}
         \/ \E n \in held[Server(k)] :
              /\ held'[Server(k)] = held[Server(k)] \ {n} /\ next'[Server(k)] = None
              /\ \A m \in held[Server(k)] : n <= m
         \/ held'[Server(k)] = held[Server(k)] /\ next'[Server(k)] = next[Server(k)]
  PROVE  FrameInv'
  <1>1. Current' = Current
    BY CurrentStays DEF ChainSame
  <1>h. held[Server(k)] \subseteq Id
    BY Groups, ServerIsProc DEF ProcTypeOK
  <1>2. FrameOK(k)'
    <2> DEFINE H == held[Server(k)]
               x == next[Server(k)]
    <2>1. CASE k \in Current
      <3>1. /\ H \subseteq Current /\ x \in Current \cup {None}
            /\ \A i \in Current : i <= k /\ i \notin H =>
                 /\ \A n \in H : i < n
                 /\ x # None => i <= x
        BY <2>1 DEF FrameInv, FrameOK
      <3>2. /\ H' \subseteq Current /\ x' \in Current \cup {None}
            /\ \A i \in Current : i <= k /\ i \notin H' =>
                 /\ \A n \in H' : i < n
                 /\ x' # None => i <= x'
        <4>1. CASE H' = {} /\ x' \in {None, k}
          BY <2>1, <4>1
        <4>2. CASE \E n \in H : H' = H \ {n} /\ x' = None /\ \A m \in H : n <= m
          <5>1. PICK n \in H : H' = H \ {n} /\ x' = None /\ \A m \in H : n <= m
            BY <4>2
          <5>2. ASSUME NEW i \in Current, i <= k, i \notin H', NEW m \in H' PROVE i < m
            <6>1. m \in Id /\ n \in Id /\ n <= m /\ m # n /\ m \in H
              BY <1>h, <5>1, <5>2
            <6>2. CASE i = n
              BY <6>1, <6>2, ConstantsAssumption
            <6>3. CASE i \notin H
              BY <3>1, <5>2, <6>1, <6>3
            <6> QED  BY <5>1, <5>2, <6>2, <6>3
          <5> QED  BY <3>1, <5>1, <5>2
        <4>3. CASE H' = H /\ x' = x
          BY <3>1, <4>3
        <4> QED  BY <4>1, <4>2, <4>3
      <3> QED  BY <1>1, <2>1, <3>2 DEF FrameOK
    <2>2. CASE k \notin Current
      <3>1. H \cap Current = {} /\ x \notin Current
        BY <2>2 DEF FrameInv, FrameOK
      <3>2. H' \subseteq H /\ x' \in {None, k, x}
        OBVIOUS
      <3>3. None \notin Current
        OBVIOUS
      <3> QED  BY <1>1, <2>2, <3>1, <3>2, <3>3 DEF FrameOK
    <2> QED  BY <2>1, <2>2
  <1>3. \A j \in Id \ {k} : FrameOK(j)'
    BY <1>1 DEF FrameInv, FrameOK, OtherServers
  <1> QED  BY <1>2, <1>3 DEF FrameInv
LEMMA DescendFrameInv ==
  ASSUME TypeOK, LockInv, LinkInv, FrameInv, NEW k \in Id, Descend(Server(k))
  PROVE  FrameInv'
  <1> DEFINE H == held[Server(k)]
             x == next[Server(k)]
  <1>p. /\ held \in [Procs -> SUBSET Id] /\ next \in [Procs -> 0 .. MaxWatches] /\ pc \in [Procs -> PCs]
        /\ Server(k) \in Procs /\ \A j \in Id \ {k} : Server(j) # Server(k)
    BY Groups, ServerIsProc DEF ProcTypeOK
  <1>1. /\ x \in Id /\ H' = H \cup {x} /\ x' \in {None, previousNotifier[x]}
        /\ \A n \in H : x < n
    <2>1. x # None /\ \A n \in H : x < n
      BY <1>p DEF LockInv, Descending, Descend
    <2>2. x \in Id
      BY <1>p, <2>1, ConstantsAssumption
    <2> QED  BY <1>p, <2>1, <2>2 DEF Descend, Below
  <1>2. ChainSame /\ OtherServers(k)
    BY <1>p DEF Descend, ChainSame, OtherServers, nsVars, notifierVars
  <1>3. Current' = Current
    BY <1>2, CurrentStays DEF ChainSame
  <1>o. \A j \in Id \ {k} : FrameOK(j)'
    BY <1>2, <1>3 DEF FrameInv, FrameOK, OtherServers
  <1>4. CASE k \in Current
    <2>1. /\ H \subseteq Current /\ x \in Current
          /\ \A i \in Current : i <= k /\ i \notin H => (\A n \in H : i < n) /\ i <= x
      BY <1>1, <1>4 DEF FrameInv, FrameOK
    <2>2. /\ x' \in Current \cup {None}
          /\ x' # None => \A i \in Current : i < x => i <= x'
      BY <1>1, <2>1, CurrentGap
    <2>3. ASSUME NEW i \in Current, i <= k, i \notin H' PROVE i < x /\ \A n \in H' : i < n
      <3>1. i \notin H /\ i # x /\ i \in Id
        BY <1>1, <2>3, CurrentIds
      <3>2. i < x
        BY <1>1, <2>1, <2>3, <3>1, ConstantsAssumption
      <3> QED  BY <1>1, <2>1, <2>3, <3>1, <3>2
    <2> QED
      <3>1. FrameOK(k)'
        BY <1>1, <1>3, <1>4, <2>1, <2>2, <2>3 DEF FrameOK
      <3> QED  BY <1>o, <3>1 DEF FrameInv
  <1>5. CASE k \notin Current
    <2>1. H \cap Current = {} /\ x \notin Current
      BY <1>5 DEF FrameInv, FrameOK
    <2>2. x' \notin Current
      BY <1>1, <2>1, CurrentApart, CurrentIds
    <2>3. FrameOK(k)'
      BY <1>1, <1>3, <1>5, <2>1, <2>2 DEF FrameOK
    <2> QED  BY <1>o, <2>3 DEF FrameInv
  <1> QED  BY <1>4, <1>5

LEMMA DrainFrames ==
  ASSUME TypeOK, LockInv, NEW k \in Id, DrainBookmark(k)
  PROVE  /\ OtherServers(k) /\ UNCHANGED <<currentNotifier, held, next, event, received>>
         /\ held[Server(k)] = {k} /\ next[Server(k)] = None
         /\ pc[Server(k)] = "accept" /\ pc'[Server(k)] = "send"
         /\ event[k].type = "BOOKMARK" /\ Returning(k)
         /\ \A j \in Id \ {k} : pending'[j] = pending[j]
         /\ \A j \in Id \ {k} : k \notin held[Server(j)]
  <1>p. /\ pc \in [Procs -> PCs] /\ held \in [Procs -> SUBSET Id] /\ pending \in [Id -> SUBSET Id]
        /\ Server(k) \in Procs /\ \A j \in Id \ {k} : Server(j) # Server(k) /\ Server(j) \in Procs
    BY Groups, ServerIsProc DEF ProcTypeOK, WorkTypeOK
  <1>1. /\ InFrame(Server(k), "accept", k) /\ event[k].type = "BOOKMARK"
        /\ UNCHANGED <<currentNotifier, held, next, event, received>>
        /\ pc' = [pc EXCEPT ![Server(k)] = "send"]
        /\ \E P : pending' = [pending EXCEPT ![k] = P]
    BY DEF DrainBookmark, nsVars, clientVars
  <1>2. held[Server(k)] = {k}
    <2>1. \A n \in held[Server(k)] : n \in Id /\ n <= k /\ k <= n
      BY <1>p, <1>1 DEF InFrame, LockInv, OwnRange
    <2> QED  BY <1>1, <2>1, ConstantsAssumption DEF InFrame
  <1>3. \A j \in Id \ {k} : k \notin held[Server(j)]
    BY <1>p, <1>2 DEF LockInv, Exclusive
  <1> QED  BY <1>p, <1>1, <1>2, <1>3 DEF OtherServers, InFrame, Returning

LEMMA DrainFrameInv ==
  ASSUME TypeOK, LockInv, LinkInv, FrameInv, NEW k \in Id, DrainBookmark(k)
  PROVE  FrameInv'
  <1>1. /\ UNCHANGED <<held, next>> /\ held[Server(k)] = {k} /\ next[Server(k)] = None
        /\ \A j \in Id \ {k} : k \notin held[Server(j)]
    BY DrainFrames
  <1>2. /\ Current \subseteq Id
        /\ \/ k \notin Current /\ Current' = Current
           \/ k \in Current /\ Current' = {i \in Current : i >= k}
    BY DrainCurrent, CurrentIds
  <1>r. \A j \in Id : /\ held[Server(j)] \subseteq Id /\ next[Server(j)] \in 0 .. MaxWatches
                      /\ next[Server(j)] <= j /\ \A n \in held[Server(j)] : n <= j
    BY Groups, ServerIsProc DEF LockInv, OwnRange, ProcTypeOK
  <1>3. CASE k \notin Current
    BY <1>1, <1>2, <1>3 DEF FrameInv, FrameOK
  <1>4. CASE k \in Current
    <2>1. Current' = {i \in Current : i >= k} /\ k \in Current'
      BY <1>2, <1>4, ConstantsAssumption
    <2>2. ASSUME NEW j \in Id, j \in Current', j # k PROVE FrameOK(j)'
      <3>1. j \in Current /\ k <= j /\ k \notin held[Server(j)]
        BY <1>1, <2>1, <2>2
      <3>2. /\ held[Server(j)] \subseteq Current /\ next[Server(j)] \in Current \cup {None}
            /\ \A i \in Current : i <= j /\ i \notin held[Server(j)] =>
                 /\ \A n \in held[Server(j)] : i < n
                 /\ next[Server(j)] # None => i <= next[Server(j)]
        BY <3>1 DEF FrameInv, FrameOK
      <3>3. (\A n \in held[Server(j)] : k < n) /\ (next[Server(j)] # None => k <= next[Server(j)])
        BY <1>4, <3>1, <3>2
      <3>4. held[Server(j)] \subseteq Current' /\ next[Server(j)] \in Current' \cup {None}
        BY <1>2, <1>r, <2>1, <3>2, <3>3
      <3> QED  BY <1>1, <2>1, <2>2, <3>2, <3>4 DEF FrameOK
    <2>3. FrameOK(k)'
      <3>1. \A i \in Current' : i <= k => i = k
        BY <1>2, <2>1
      <3> QED  BY <1>1, <2>1, <3>1 DEF FrameOK
    <2>4. ASSUME NEW j \in Id, j \notin Current' PROVE FrameOK(j)'
      <3>1. CASE j \in Current
        <4>1. j < k
          BY <2>1, <2>4, <3>1
        <4>2. \A i \in Current' : i \in Id /\ i >= k
          BY <1>2, <2>1
        <4>3. held[Server(j)] \cap Current' = {} /\ next[Server(j)] \notin Current'
          BY <1>r, <4>1, <4>2
        <4> QED  BY <1>1, <2>4, <4>3 DEF FrameOK
      <3>2. CASE j \notin Current
        BY <1>1, <2>1, <2>4, <3>2 DEF FrameInv, FrameOK
      <3> QED  BY <3>1, <3>2
    <2> QED  BY <2>2, <2>3, <2>4 DEF FrameInv
  <1> QED  BY <1>3, <1>4

LEMMA WatchFrames ==
  ASSUME TypeOK, LockInv, WatchSucceed
  PROVE  /\ clientCount \in Id /\ currentNotifier' = clientCount /\ currentNotifier < clientCount
         /\ OtherServers(clientCount)
         /\ UNCHANGED <<held, next, event, pending, received, processedVersions>>
         /\ held[Server(clientCount)] = {} /\ next[Server(clientCount)] = None
         /\ pc[Server(clientCount)] = "none" /\ pc'[Server(clientCount)] = "select"
         /\ \A n \in Id : clientsMap'[n] = IF n = clientCount THEN {n} ELSE clientsMap[n]
  <1> DEFINE w == clientCount
  <1>p. /\ pc \in [Procs -> PCs] /\ held \in [Procs -> SUBSET Id] /\ clientsMap \in [Id -> SUBSET Id]
        /\ currentNotifier \in 0 .. MaxWatches
    BY Groups DEF ProcTypeOK, NotifierTypeOK, NsTypeOK
  <1>1. w \in Id /\ currentNotifier < w
    BY WatchCount DEF WatchSucceed
  <1>2. /\ currentNotifier' = w /\ clientsMap' = [clientsMap EXCEPT ![w] = {w}]
        /\ pc' = [pc EXCEPT ![Server(w)] = "select"]
        /\ UNCHANGED <<held, next, event, pending, received, processedVersions>>
    BY DEF WatchSucceed, workVars
  <1>s. Server(w) \in Procs /\ \A j \in Id \ {w} : Server(j) # Server(w) /\ Server(j) \in Procs
    BY <1>1, ServerIsProc
  <1>3. pc[Server(w)] = "none"
    BY <1>p, <1>1, ConstantsAssumption DEF LockInv, WatchOrder
  <1>4. held[Server(w)] = {} /\ next[Server(w)] = None
    BY <1>s, <1>3 DEF LockInv, Resting
  <1> HIDE DEF w
  <1>5. OtherServers(w)
    BY <1>p, <1>2, <1>s DEF OtherServers
  <1> QED  BY <1>p, <1>1, <1>2, <1>3, <1>4, <1>5, <1>s DEF w

LEMMA WatchFrameInv ==
  ASSUME TypeOK, LockInv, FrameInv, WatchSucceed
  PROVE  FrameInv'
  <1>w. PICK w \in Id : w = clientCount
    BY WatchFrames
  <1>1. /\ w \in Id /\ currentNotifier < w /\ UNCHANGED <<held, next>>
        /\ held[Server(w)] = {} /\ next[Server(w)] = None
        /\ Current' = {w} \cup Current
    BY <1>w, WatchFrames, WatchExtends
  <1>c. currentNotifier \in 0 .. MaxWatches
    BY Groups DEF NsTypeOK
  <1>2. \A i \in Current : i \in Id /\ i < w
    BY <1>1, <1>c, CurrentBelow, ConstantsAssumption
  <1>r. \A j \in Id : /\ held[Server(j)] \subseteq Id /\ next[Server(j)] \in 0 .. MaxWatches
                      /\ next[Server(j)] <= j /\ \A n \in held[Server(j)] : n <= j
    BY Groups, ServerIsProc DEF LockInv, OwnRange, ProcTypeOK
  <1>a. ASSUME NEW j \in Id, j > currentNotifier
        PROVE  held[Server(j)] = {} /\ next[Server(j)] = None
    <2>1. pc[Server(j)] = "none"
      BY <1>a, <1>c, ConstantsAssumption DEF LockInv, WatchOrder
    <2> QED  BY <2>1, ServerIsProc DEF LockInv, Resting
  <1>n. None \notin Current /\ None # w
    BY <1>1, <1>2, ConstantsAssumption
  <1>3. FrameOK(w)'
    <2>1. w \in Current' /\ held'[Server(w)] = {} /\ next'[Server(w)] = None
      BY <1>1
    <2> QED  BY <2>1 DEF FrameOK
  <1>4. ASSUME NEW j \in Current PROVE FrameOK(j)'
    <2>1. \A i \in Current' : i <= j => i \in Current
      BY <1>1, <1>2
    <2>2. FrameOK(j)
      BY <1>2 DEF FrameInv
    <2> QED  BY <1>1, <2>1, <2>2 DEF FrameOK
  <1>5. ASSUME NEW j \in Id, j \notin Current, j # w PROVE FrameOK(j)'
    <2>1. w \notin held[Server(j)] /\ next[Server(j)] # w
      <3>1. CASE j > currentNotifier
        BY <1>n, <1>a, <3>1
      <3>2. CASE j <= currentNotifier
        <4>1. j < w
          BY <1>1, <1>c, <3>2
        <4> QED  BY <1>1, <1>r, <4>1
      <3> QED  BY <3>1, <3>2, <1>c
    <2>2. FrameOK(j) /\ j \notin Current'
      BY <1>1, <1>5 DEF FrameInv
    <2> QED  BY <1>1, <1>5, <2>1, <2>2 DEF FrameOK
  <1>6. \A j \in Id : j = w \/ j \in Current \/ (j # w /\ j \notin Current)
    OBVIOUS
  <1>7. \A j \in Id : FrameOK(j)'
    BY <1>3, <1>4, <1>5, <1>6
  <1> QED  BY <1>7 DEF FrameInv

\* A new event in the frame of notifier n.
LEMMA ProcessFrames ==
  ASSUME TypeOK, LockInv, NEW k \in Id, NEW n \in Id, ProcessEvent(k, n)
  PROVE  /\ ChainSame /\ n \in held[Server(k)] /\ n <= k /\ event[k].type # "BOOKMARK"
         /\ UNCHANGED <<clientsMap, event, received, held, next>>
         /\ \A j \in Id \ {k} : pending'[j] = pending[j] /\ pc'[Server(j)] = pc[Server(j)]
         /\ \A m \in held[Server(k)] : n <= m
         /\ next[Server(k)] = None /\ pc[Server(k)] = "accept" /\ pc'[Server(k)] = "send"
         /\ Returning(k) /\ ~AlreadyProcessed(n, event[k])
         /\ pending'[k] = Interested(n, event[k])
         /\ \A m \in Id, o \in Objects :
              processedVersions'[m][o].rv =
                IF m = n /\ o = event[k].obj THEN event[k].rv ELSE processedVersions[m][o].rv
  <1>p. /\ pc \in [Procs -> PCs] /\ pending \in [Id -> SUBSET Id]
        /\ processedVersions \in [Id -> [Objects -> [rv : Nat, type : EventTypes \cup {"none"}]]]
        /\ Server(k) \in Procs /\ \A j \in Id \ {k} : Server(j) # Server(k)
    BY Groups, ServerIsProc DEF ProcTypeOK, WorkTypeOK, NotifierTypeOK
  <1>1. /\ InFrame(Server(k), "accept", n) /\ ChainSame /\ event[k].type # "BOOKMARK"
        /\ ~AlreadyProcessed(n, event[k])
        /\ UNCHANGED <<clientsMap, event, received, held, next>>
        /\ \E t : processedVersions' =
                    [processedVersions EXCEPT ![n][event[k].obj] = [rv |-> event[k].rv, type |-> t]]
        /\ pending' = [pending EXCEPT ![k] = Interested(n, event[k])]
        /\ pc' = [pc EXCEPT ![Server(k)] = "send"]
    BY DEF ProcessEvent, ChainSame, nsVars, clientVars
  <1>2. n <= k
    BY <1>1 DEF LockInv, OwnRange, InFrame
  <1>3. \A m \in Id, o \in Objects :
          processedVersions'[m][o].rv =
            IF m = n /\ o = event[k].obj THEN event[k].rv ELSE processedVersions[m][o].rv
    BY <1>p, <1>1
  <1> QED  BY <1>p, <1>1, <1>2, <1>3 DEF InFrame, Returning

\* A client receives an event.
LEMMA SendFrames ==
  ASSUME TypeOK, LockInv, NEW k \in Id, NEW n \in Id, NEW c \in Id, SendOk(k, n, c)
  PROVE  /\ ServerSame /\ ChainSame /\ Sending(k, n) /\ n <= k
         /\ c \in pending[k] /\ c \in clientsMap[n]
         /\ UNCHANGED <<clientsMap, event, held, next, processedVersions>>
         /\ \A j \in Id \ {k} : pending'[j] = pending[j]
         /\ pending'[k] = pending[k] \ {c}
         /\ \A d \in Id \ {c} : received'[d] = received[d]
         /\ received'[c] = IF event[k].type = "BOOKMARK" THEN received[c]
                           ELSE Append(received[c], Entry(k, n))
  <1>p. /\ pending \in [Id -> SUBSET Id] /\ received \in [Id -> Seq(Received)]
    BY Groups DEF WorkTypeOK, ClientTypeOK
  <1>1. /\ Sending(k, n) /\ c \in pending[k] /\ c \in clientsMap[n] /\ ServerSame /\ ChainSame
        /\ UNCHANGED <<clientsMap, event, held, next, processedVersions>>
        /\ pending' = [pending EXCEPT ![k] = @ \ {c}]
        /\ received' = IF event[k].type = "BOOKMARK" THEN received
                       ELSE [received EXCEPT ![c] = Append(@, Entry(k, n))]
    BY DEF SendOk, Visits, Sending, ServerSame, ChainSame, procVars, nsVars, notifierVars
  <1>2. n <= k
    BY <1>1 DEF LockInv, OwnRange, InFrame, Sending
  <1> QED  BY <1>p, <1>1, <1>2

LEMMA DescendFrames ==
  ASSUME TypeOK, LockInv, NEW k \in Id, Descend(Server(k))
  PROVE  /\ ChainSame /\ OtherServers(k) /\ pc' = pc
         /\ UNCHANGED <<clientsMap, processedVersions, event, pending, received>>
         /\ next[Server(k)] \in Id /\ held'[Server(k)] = held[Server(k)] \cup {next[Server(k)]}
         /\ next'[Server(k)] = IF pc[Server(k)] = "accept" /\ event[k].type = "BOOKMARK"
                               THEN None ELSE previousNotifier[next[Server(k)]]
         /\ \A m \in held[Server(k)] : next[Server(k)] < m
  <1>p. /\ held \in [Procs -> SUBSET Id] /\ next \in [Procs -> 0 .. MaxWatches]
        /\ Server(k) \in Procs /\ \A j \in Id \ {k} : Server(j) # Server(k)
    BY Groups, ServerIsProc DEF ProcTypeOK
  <1>1. /\ next[Server(k)] # None /\ UNCHANGED <<nsVars, notifierVars, pc, workVars, clientVars>>
        /\ held' = [held EXCEPT ![Server(k)] = @ \cup {next[Server(k)]}]
        /\ next' = [next EXCEPT ![Server(k)] =
                      IF pc[Server(k)] = "accept" /\ event[k].type = "BOOKMARK"
                      THEN None ELSE previousNotifier[next[Server(k)]]]
    BY DEF Descend, Below
  <1>2. next[Server(k)] \in Id /\ \A m \in held[Server(k)] : next[Server(k)] < m
    BY <1>p, <1>1, ConstantsAssumption DEF LockInv, Descending
  <1>3. OtherServers(k) /\ ChainSame
    BY <1>p, <1>1 DEF OtherServers, ChainSame, nsVars, notifierVars
  <1> QED  BY <1>p, <1>1, <1>2, <1>3 DEF nsVars, notifierVars, workVars, clientVars

LEMMA NextFrameInv ==
  ASSUME TypeOK, LockInv, LinkInv, FrameInv, [Next]_vars, Timely
  PROVE  FrameInv'
  <1>c. Current \subseteq Id
    BY CurrentIds
  <1>1. CASE ServerSame /\ ChainSame
    <2>1. Current' = Current
      BY <1>1, CurrentStays DEF ChainSame
    <2> QED  BY <1>1, <2>1 DEF FrameInv, FrameOK, ServerSame
  <1>2. CASE Streams \/ Aside
    BY <1>1, <1>2, AsideIsCalm DEF Calm
  <1>3. CASE WatchSucceed
    BY <1>3, WatchFrameInv
  <1>4. CASE \E s \in StopKinds, c \in Id : DeleteClient(s, c)
    BY <1>1, <1>4, DeleteClientFrames
  <1>5. ASSUME NEW k \in Id, Descend(Server(k)) PROVE FrameInv'
    BY <1>5, DescendFrameInv
  <1>6. ASSUME NEW k \in Id, Moves(k) PROVE FrameInv'
    <2>1. ChainSame /\ OtherServers(k) /\ held'[Server(k)] = {} /\ next'[Server(k)] \in {None, k}
      BY <1>6, MovesFrames
    <2> QED  BY <1>c, <2>1, FrameInvSteps
  <1>7. ASSUME NEW k \in Id, DrainBookmark(k) PROVE FrameInv'
    BY <1>7, DrainFrameInv
  <1>8. ASSUME NEW k \in Id, NEW n \in Id, SkipEvent(k, n) \/ SendDone(k, n) PROVE FrameInv'
    <2>1. /\ ChainSame /\ OtherServers(k) /\ n \in held[Server(k)]
          /\ held'[Server(k)] = held[Server(k)] \ {n} /\ next'[Server(k)] = None
          /\ \A m \in held[Server(k)] : n <= m
      BY <1>8, ReturnFrames
    <2> QED  BY <1>c, <2>1, FrameInvSteps
  <1>9. ASSUME NEW k \in Id, NEW n \in Id, ProcessEvent(k, n) PROVE FrameInv'
    <2>1. ChainSame /\ UNCHANGED <<held, next>>
          /\ \A j \in Id \ {k} : pc'[Server(j)] = pc[Server(j)]
      BY <1>9, ProcessFrames
    <2>2. OtherServers(k)
      BY <2>1 DEF OtherServers
    <2> QED  BY <1>c, <2>1, <2>2, FrameInvSteps
  <1>10. ASSUME NEW k \in Id, NEW n \in Id, NEW c \in Id, SendOk(k, n, c) PROVE FrameInv'
    BY <1>1, <1>10, SendFrames
  <1> QED
    BY DeliverySteps, <1>2, <1>3, <1>4, <1>5, <1>6, <1>7, <1>8, <1>9, <1>10

\* No two notifiers of the chain have a client in common.
OneOwner == \A n, m \in Current : n # m => clientsMap[n] \cap clientsMap[m] = {}

LEMMA NextOneOwner ==
  ASSUME TypeOK, LockInv, LinkInv, Started, OneOwner, [Next]_vars, Timely
  PROVE  OneOwner'
  <1>c. Current \subseteq Id
    BY CurrentIds
  <1>1. CASE ChainSame /\ \A n \in Id : clientsMap'[n] \subseteq clientsMap[n]
    <2>1. Current' = Current
      BY <1>1, CurrentStays DEF ChainSame
    <2> QED  BY <1>c, <1>1, <2>1 DEF OneOwner
  <1>2. CASE Streams \/ Aside
    BY <1>1, <1>2, AsideIsCalm DEF Calm
  <1>3. CASE WatchSucceed
    <2>1. PICK w \in Id : w = clientCount
      BY <1>3, WatchFrames
    <2>2. /\ currentNotifier < w /\ Current' = {w} \cup Current /\ clientsMap'[w] = {w}
          /\ \A n \in Current : clientsMap'[n] = clientsMap[n]
      BY <1>3, <2>1, WatchExtends
    <2>3. \A n \in Current : w \notin clientsMap[n]
      <3>1. currentNotifier \in 0 .. MaxWatches
        BY Groups DEF NsTypeOK
      <3>2. ASSUME NEW n \in Id, w \in clientsMap[n] PROVE w <= currentNotifier
        BY <3>2 DEF Started
      <3> QED  BY <1>c, <2>2, <3>1, <3>2, ConstantsAssumption
    <2> QED  BY <2>2, <2>3 DEF OneOwner
  <1>4. CASE \E s \in StopKinds, c \in Id : DeleteClient(s, c)
    BY <1>1, <1>4, DeleteClientFrames
  <1>5. ASSUME NEW k \in Id, Descend(Server(k)) \/ Moves(k) PROVE OneOwner'
    BY <1>1, <1>5, DescendFrames, MovesFrames
  <1>6. ASSUME NEW k \in Id, DrainBookmark(k) PROVE OneOwner'
    <2>1. /\ clientsMap'[k] = UNION {clientsMap[n] : n \in Chain(k)}
          /\ \A n \in Id \ {k} : clientsMap'[n] = clientsMap[n]
          /\ \/ k \notin Current /\ Current' = Current
             \/ /\ k \in Current /\ Current' = {i \in Current : i >= k}
                /\ \A i \in Id : i \in Chain(k) <=> i \in Current /\ i <= k
      BY <1>6, DrainCurrent
    <2>2. CASE k \notin Current
      <3>1. Current' = Current /\ \A n \in Current : clientsMap'[n] = clientsMap[n]
        <4>1. \A n \in Current : n \in Id \ {k}
          BY <1>c, <2>2
        <4> QED  BY <2>1, <2>2, <4>1
      <3> QED  BY <3>1 DEF OneOwner
    <2>3. CASE k \in Current
      <3>1. \A n \in Current' : n # k => n \in Current /\ n > k /\ clientsMap'[n] = clientsMap[n]
        <4> SUFFICES ASSUME NEW n \in Current', n # k
                     PROVE  n \in Current /\ n > k /\ clientsMap'[n] = clientsMap[n]
          OBVIOUS
        <4>1. n \in Current /\ n >= k
          BY <2>1, <2>3
        <4>2. n \in Id
          BY <1>c, <4>1
        <4> QED  BY <2>1, <4>1, <4>2, ConstantsAssumption
      <3>2. ASSUME NEW n \in Current', n # k PROVE clientsMap'[k] \cap clientsMap'[n] = {}
        <4>1. n \in Current /\ n > k /\ clientsMap'[n] = clientsMap[n]
          BY <3>1, <3>2
        <4>2. ASSUME NEW m \in Chain(k) PROVE clientsMap[m] \cap clientsMap[n] = {}
          <5>1. m \in Id
            BY DEF Chain
          <5>2. m \in Current /\ m <= k
            BY <2>1, <2>3, <5>1
          <5>3. m # n
            BY <1>c, <2>3, <4>1, <5>1, <5>2, ConstantsAssumption
          <5> QED  BY <4>1, <5>2, <5>3 DEF OneOwner
        <4> QED  BY <2>1, <4>1, <4>2
      <3>3. ASSUME NEW n \in Current', NEW m \in Current', n # m, n # k, m # k
            PROVE  clientsMap'[n] \cap clientsMap'[m] = {}
        BY <3>1, <3>3 DEF OneOwner
      <3>4. ASSUME NEW n \in Current', NEW m \in Current', n # m
            PROVE  clientsMap'[n] \cap clientsMap'[m] = {}
        BY <3>2, <3>3, <3>4
      <3> QED  BY <3>4 DEF OneOwner
    <2> QED  BY <2>2, <2>3
  <1>7. ASSUME NEW k \in Id, NEW n \in Id,
               SkipEvent(k, n) \/ SendDone(k, n) \/ ProcessEvent(k, n)
        PROVE  OneOwner'
    BY <1>1, <1>7, ReturnFrames, ProcessFrames
  <1>8. ASSUME NEW k \in Id, NEW n \in Id, NEW c \in Id, SendOk(k, n, c) PROVE OneOwner'
    BY <1>1, <1>8, SendFrames
  <1> QED  BY DeliverySteps, <1>2, <1>3, <1>4, <1>5, <1>6, <1>7, <1>8

-----------------------------------------------------------------------------
(***************************************************************************)
(* The streams of the connections: what is in them, in relation to the     *)
(* history of the cluster.                                                 *)
(***************************************************************************)
\* L: the history of the cluster, S: its objects, b: the last BOOKMARK read.
EventOK(L, e) ==
  IF e.type = "BOOKMARK" THEN e.obj = NoObject /\ e.rv <= Len(L)
  ELSE e.obj \in Objects /\ e.rv \in DOMAIN L /\ L[e.rv].obj = e.obj

\* The version of a change is its place in the history, that of an object the
\* place of its last change.
LogOK(L, S) ==
  /\ \A i \in DOMAIN L : L[i].rv = i /\ L[i].obj \in Objects
  /\ \A o \in Objects : S[o] # Absent =>
       /\ S[o].rv \in DOMAIN L /\ L[S[o].rv].obj = o
       /\ \A i \in DOMAIN L : L[i].obj = o => i <= S[o].rv

\* An event that may follow BOOKMARK f.
After(f, e) ==
  f # 0 => IF e.type = "BOOKMARK" THEN e.rv = 0 \/ e.rv >= f ELSE e.rv > f

StreamOK(L, s, b) ==
  /\ b <= Len(L)
  /\ \A i \in DOMAIN s : EventOK(L, s[i]) /\ After(b, s[i])
  /\ \A i, j \in DOMAIN s : i < j /\ s[i].type = "BOOKMARK" => After(s[i].rv, s[j])

InStream(s, o) == \E i \in DOMAIN s : s[i].obj = o
LastIs(s, o, v) ==
  \A i \in DOMAIN s : s[i].obj = o /\ (\A j \in DOMAIN s : j > i => s[j].obj # o) => s[i].rv = v

LEMMA EventFields == \A e \in Event : e.rv \in Nat /\ (e \in Ordinary <=> e.type # "BOOKMARK")
  BY DEF Event, Ordinary

LEMMA BookmarkShape ==
  \A v \in Nat : /\ Bookmark(v) \in Event /\ Bookmark(v).type = "BOOKMARK"
                 /\ Bookmark(v).obj = NoObject /\ Bookmark(v).rv = v
  BY DEF Bookmark, Event

LEMMA NoObjectApart == NoObject \notin Objects
  BY ObjectsAssumption

\* The history only grows.
LEMMA EventOKGrows ==
  ASSUME NEW L \in Seq(Ordinary), NEW x \in Ordinary, NEW e \in Event, EventOK(L, e)
  PROVE  EventOK(Append(L, x), e)
  BY EventFields DEF EventOK

LEMMA StreamGrows ==
  ASSUME NEW L \in Seq(Ordinary), NEW x \in Ordinary, NEW s \in Seq(Event), NEW b \in Nat,
         StreamOK(L, s, b)
  PROVE  StreamOK(Append(L, x), s, b)
  <1>1. \A i \in DOMAIN s : s[i] \in Event
    OBVIOUS
  <1>2. \A i \in DOMAIN s : EventOK(Append(L, x), s[i])
    BY <1>1, EventOKGrows DEF StreamOK
  <1>3. b <= Len(Append(L, x))
    BY DEF StreamOK
  <1> QED  BY <1>2, <1>3 DEF StreamOK

\* An event whose version is the newest may follow everything.
LEMMA StreamAppend ==
  ASSUME NEW L \in Seq(Ordinary), NEW M \in Seq(Ordinary), NEW s \in Seq(Event), NEW b \in Nat,
         StreamOK(L, s, b), StreamOK(M, s, b),
         NEW e \in Event, EventOK(M, e), \A f \in 0 .. Len(L) : After(f, e)
  PROVE  StreamOK(M, Append(s, e), b)
  <1> DEFINE t == Append(s, e)
  <1>1. DOMAIN t = 1 .. Len(s) + 1 /\ DOMAIN s = 1 .. Len(s) /\ Len(s) \in Nat
    OBVIOUS
  <1>2. \A i \in DOMAIN t : IF i = Len(s) + 1 THEN t[i] = e ELSE i \in DOMAIN s /\ t[i] = s[i]
    BY <1>1
  <1>3. \A i \in DOMAIN s : s[i] \in Event /\ s[i].rv \in Nat
    BY EventFields
  <1> HIDE DEF t
  <1>4. b \in 0 .. Len(L) /\ After(b, e)
    BY DEF StreamOK
  <1>5. \A i \in DOMAIN s : s[i].type = "BOOKMARK" => After(s[i].rv, e)
    <2> SUFFICES ASSUME NEW i \in DOMAIN s, s[i].type = "BOOKMARK" PROVE After(s[i].rv, e)
      OBVIOUS
    <2>1. s[i].rv \in 0 .. Len(L)
      BY <1>3 DEF StreamOK, EventOK
    <2> QED  BY <2>1
  <1>6. ASSUME NEW i \in DOMAIN t PROVE EventOK(M, t[i]) /\ After(b, t[i])
    BY <1>2, <1>4 DEF StreamOK
  <1>7. ASSUME NEW i \in DOMAIN t, NEW j \in DOMAIN t, i < j, t[i].type = "BOOKMARK"
        PROVE  After(t[i].rv, t[j])
    <2>1. i \in DOMAIN s /\ t[i] = s[i]
      BY <1>1, <1>2, <1>7
    <2>2. CASE j = Len(s) + 1
      BY <1>2, <1>5, <1>7, <2>1, <2>2
    <2>3. CASE j # Len(s) + 1
      BY <1>2, <1>7, <2>1, <2>3 DEF StreamOK
    <2> QED  BY <2>2, <2>3
  <1>8. b <= Len(M)
    BY DEF StreamOK
  <1>9. StreamOK(M, t, b)
    BY <1>6, <1>7, <1>8 DEF StreamOK
  <1> QED  BY <1>9 DEF t

\* What is left of a stream is the head of it, or nothing.
LEMMA KeptShape ==
  ASSUME NEW s \in Seq(Event), NEW kept \in Buffered(s)
  PROVE  /\ kept \in Seq(Event) /\ Len(kept) \in 0 .. 1 /\ Len(kept) <= Len(s)
         /\ \A i \in DOMAIN kept : i = 1 /\ i \in DOMAIN s /\ kept[i] = s[i]
         /\ kept # <<>> => Len(kept) = 1 /\ Head(kept) = s[1]
  <1>1. PICK n \in {m \in 0 .. 1 : m <= Len(s)} : kept = SubSeq(s, 1, n)
    BY DEF Buffered
  <1>2. kept \in Seq(Event) /\ Len(kept) = n /\ \A i \in 1 .. n : kept[i] = s[i]
    BY <1>1
  <1> QED  BY <1>1, <1>2

LEMMA KeptOK ==
  ASSUME NEW L \in Seq(Ordinary), NEW s \in Seq(Event), NEW b \in Nat, StreamOK(L, s, b),
         NEW kept \in Buffered(s)
  PROVE  StreamOK(L, kept, b)
  <1>1. \A i \in DOMAIN kept : i \in DOMAIN s /\ kept[i] = s[i]
    BY KeptShape
  <1> QED  BY <1>1 DEF StreamOK

\* The version to resume from.
LEMMA ResumeFrom ==
  ASSUME NEW L \in Seq(Ordinary), NEW s \in Seq(Event), NEW b \in Nat, StreamOK(L, s, b),
         NEW kept \in Buffered(s), LastBookmark(kept, b) # 0
  PROVE  /\ LastBookmark(kept, b) \in 1 .. Len(L) /\ b <= LastBookmark(kept, b)
         /\ \A i \in DOMAIN kept : kept[i].type = "BOOKMARK" => kept[i].rv = LastBookmark(kept, b)
         /\ \A i \in DOMAIN s \ DOMAIN kept : s[i].type # "BOOKMARK" => s[i].rv > LastBookmark(kept, b)
         /\ \A i \in DOMAIN kept : kept[i].type # "BOOKMARK" => LastBookmark(kept, b) = b
  <1> DEFINE from == LastBookmark(kept, b)
  <1>k. /\ kept \in Seq(Event) /\ Len(kept) \in 0 .. 1
        /\ \A i \in DOMAIN kept : i = 1 /\ i \in DOMAIN s /\ kept[i] = s[i]
        /\ kept # <<>> => Len(kept) = 1 /\ Head(kept) = s[1]
    BY KeptShape
  <1>t. \A i \in DOMAIN s : s[i] \in Event /\ s[i].rv \in Nat /\ i \in Nat /\ i >= 1
    BY EventFields
  <1>b. b <= Len(L) /\ Len(L) \in Nat
    BY DEF StreamOK
  <1>1. CASE kept # <<>> /\ Head(kept).type = "BOOKMARK"
    <2>1. /\ from = s[1].rv /\ DOMAIN kept = {1} /\ 1 \in DOMAIN s /\ s[1].type = "BOOKMARK"
          /\ kept[1] = s[1]
      <3>1. DOMAIN kept = {1}
        BY <1>k, <1>1
      <3> QED  BY <1>k, <1>1, <3>1 DEF LastBookmark
    <2>2. from # 0 /\ from \in Nat /\ from <= Len(L)
      BY <1>t, <2>1 DEF StreamOK, EventOK
    <2>3. b <= from
      BY <1>b, <2>1, <2>2 DEF StreamOK, After
    <2>4. \A i \in DOMAIN s \ DOMAIN kept : s[i].type # "BOOKMARK" => s[i].rv > from
      <3> SUFFICES ASSUME NEW i \in DOMAIN s, i # 1, s[i].type # "BOOKMARK" PROVE s[i].rv > from
        BY <2>1
      <3>1. After(s[1].rv, s[i])
        BY <1>t, <2>1 DEF StreamOK
      <3> QED  BY <2>1, <2>2, <3>1 DEF After
    <2> QED  BY <2>1, <2>2, <2>3, <2>4
  <1>2. CASE ~(kept # <<>> /\ Head(kept).type = "BOOKMARK")
    <2>1. from = b
      BY <1>2 DEF LastBookmark
    <2>2. \A i \in DOMAIN kept : kept[i].type # "BOOKMARK"
      BY <1>k, <1>2
    <2>3. \A i \in DOMAIN s : s[i].type # "BOOKMARK" => s[i].rv > from
      BY <2>1 DEF StreamOK, After
    <2> QED  BY <1>b, <2>1, <2>2, <2>3
  <1> QED  BY <1>1, <1>2

LEMMA StreamTail ==
  ASSUME NEW L \in Seq(Ordinary), NEW s \in Seq(Event), NEW b \in Nat, StreamOK(L, s, b), s # <<>>
  PROVE  /\ StreamOK(L, Tail(s), LastBookmark(s, b)) /\ EventOK(L, Head(s)) /\ Head(s) = s[1]
         /\ \A i \in DOMAIN Tail(s) : i + 1 \in DOMAIN s /\ Tail(s)[i] = s[i + 1]
         /\ \A i \in DOMAIN s : i # 1 => i - 1 \in DOMAIN Tail(s) /\ Tail(s)[i - 1] = s[i]
  <1> DEFINE t == Tail(s)
             f == LastBookmark(s, b)
  <1>1. /\ t \in Seq(Event) /\ Len(t) = Len(s) - 1 /\ Len(s) \in Nat \ {0} /\ Head(s) = s[1]
        /\ \A i \in 1 .. Len(s) - 1 : t[i] = s[i + 1]
    BY HeadTailProperties, EmptySeq
  <1>2. /\ \A i \in DOMAIN t : i + 1 \in DOMAIN s /\ t[i] = s[i + 1]
        /\ \A i \in DOMAIN s : i # 1 => i - 1 \in DOMAIN t /\ t[i - 1] = s[i]
        /\ 1 \in DOMAIN s
    BY <1>1
  <1>3. s[1] \in Event /\ EventOK(L, s[1]) /\ s[1].rv \in Nat
    BY <1>2, EventFields DEF StreamOK
  <1>4. f = IF s[1].type = "BOOKMARK" THEN s[1].rv ELSE b
    BY <1>1 DEF LastBookmark
  <1> HIDE DEF t, f
  <1>5. f <= Len(L)
    BY <1>3, <1>4 DEF StreamOK, EventOK
  <1>6. \A i \in DOMAIN t : EventOK(L, t[i]) /\ After(f, t[i])
    <2> SUFFICES ASSUME NEW i \in DOMAIN t PROVE EventOK(L, s[i + 1]) /\ After(f, s[i + 1])
      BY <1>2
    <2>1. i + 1 \in DOMAIN s /\ 1 < i + 1
      BY <1>1, <1>2
    <2> QED  BY <1>2, <1>4, <2>1 DEF StreamOK
  <1>7. ASSUME NEW i \in DOMAIN t, NEW j \in DOMAIN t, i < j, t[i].type = "BOOKMARK"
        PROVE  After(t[i].rv, t[j])
    <2>1. i + 1 < j + 1
      BY <1>1, <1>7
    <2> QED  BY <1>2, <1>7, <2>1 DEF StreamOK
  <1>8. StreamOK(L, t, f)
    BY <1>5, <1>6, <1>7 DEF StreamOK
  <1> QED  BY <1>1, <1>2, <1>3, <1>8 DEF t, f

\* A listing: every object in its current version.
LEMMA ListingShape ==
  ASSUME ClusterTypeOK, LogOK(log, store), NEW list \in Listings(store)
  PROVE  /\ list \in Seq(Event)
         /\ \A i \in DOMAIN list :
              /\ EventOK(log, list[i]) /\ list[i].type = "ADDED"
              /\ list[i].obj \in Objects /\ list[i].rv = store[list[i].obj].rv
         /\ \A o \in Objects : store[o] # Absent => InStream(list, o)
  <1> DEFINE Present == {o \in Objects : store[o] # Absent}
             n == Cardinality(Present)
  <1>1. IsFiniteSet(Present)
    BY ObjectsAssumption, FS_Subset
  <1>2. n \in Nat
    BY <1>1, FS_CardinalityType
  <1>3. PICK names \in SetToSeqs(Present) :
          list = [i \in DOMAIN names |-> EventOf("ADDED", names[i], store[names[i]])]
    BY DEF Listings
  <1>4. /\ names \in [1 .. n -> Present]
        /\ \A i, j \in 1 .. n : i # j => names[i] # names[j]
    BY <1>3 DEF SetToSeqs
  <1>5. \A i \in 1 .. n : /\ names[i] \in Objects /\ store[names[i]].rv \in DOMAIN log
                          /\ log[store[names[i]].rv].obj = names[i]
    BY <1>4 DEF LogOK
  <1>6. DOMAIN list = 1 .. n /\ \A i \in 1 .. n : list[i] = EventOf("ADDED", names[i], store[names[i]])
    BY <1>3, <1>4
  <1>7. \A i \in 1 .. n : /\ list[i].type = "ADDED" /\ list[i].obj = names[i]
                          /\ list[i].rv = store[names[i]].rv
    BY <1>6 DEF EventOf
  <1>8. \A i \in 1 .. n : EventOK(log, list[i])
    BY <1>5, <1>7 DEF EventOK
  <1>9. \A o \in Present : \E i \in 1 .. n : names[i] = o
    <2>1. names \in Injection(1 .. n, Present)
      BY <1>4 DEF Injection, IsInjective
    <2>2. Cardinality(1 .. n) = n
      BY <1>2, FS_Interval
    <2>3. names \in Surjection(1 .. n, Present)
      BY <1>1, <2>1, <2>2, FS_Injection
    <2> QED  BY <2>3 DEF Surjection
  <1>10. \A o \in Objects : store[o] # Absent => InStream(list, o)
    BY <1>6, <1>7, <1>9 DEF InStream
  <1>11. list \in Seq(Event)
    BY ListingsType
  <1> HIDE DEF n
  <1> QED  BY <1>5, <1>6, <1>7, <1>8, <1>10, <1>11

\* A stream that starts from a listing.
LEMMA StreamUnmarked ==
  ASSUME NEW L \in Seq(Ordinary), NEW s \in Seq(Event),
         \A i \in DOMAIN s : EventOK(L, s[i]) /\ (s[i].type = "BOOKMARK" => s[i].rv = 0)
  PROVE  StreamOK(L, s, 0)
  BY DEF StreamOK, After

LEMMA RelistShape ==
  ASSUME ClusterTypeOK, LogOK(log, store), NEW s \in Seq(Event), NEW b \in Nat,
         StreamOK(log, s, b), NEW kept \in Buffered(s), NEW list \in Listings(store)
  PROVE  /\ StreamOK(log, Forgotten(kept) \o list, 0)
         /\ \A o \in Objects : store[o] # Absent =>
              /\ InStream(Forgotten(kept) \o list, o)
              /\ LastIs(Forgotten(kept) \o list, o, store[o].rv)
  <1> DEFINE F == Forgotten(kept)
  <1>l. log \in Seq(Ordinary)
    BY DEF ClusterTypeOK
  <1>1. /\ list \in Seq(Event)
        /\ \A i \in DOMAIN list :
             /\ EventOK(log, list[i]) /\ list[i].type = "ADDED"
             /\ list[i].obj \in Objects /\ list[i].rv = store[list[i].obj].rv
        /\ \A o \in Objects : store[o] # Absent => InStream(list, o)
    BY ListingShape
  <1>2. kept \in Seq(Event) /\ \A i \in DOMAIN kept : EventOK(log, kept[i])
    BY KeptShape, <1>l, KeptOK DEF StreamOK
  <1>3. /\ F \in Seq(Event)
        /\ \A i \in DOMAIN F : EventOK(log, F[i]) /\ (F[i].type = "BOOKMARK" => F[i].rv = 0)
    <2>1. F \in Seq(Event) /\ DOMAIN F = DOMAIN kept
      BY <1>2, ForgottenType DEF Forgotten
    <2>2. \A i \in DOMAIN kept :
            F[i] = IF kept[i].type = "BOOKMARK" THEN Bookmark(0) ELSE kept[i]
      BY DEF Forgotten
    <2> HIDE DEF F
    <2>3. EventOK(log, Bookmark(0)) /\ Bookmark(0).rv = 0
      BY <1>l, BookmarkShape DEF EventOK
    <2> QED  BY <1>2, <2>1, <2>2, <2>3
  <1> HIDE DEF F
  <1> DEFINE t == F \o list
  <1>4. /\ t \in Seq(Event) /\ Len(t) = Len(F) + Len(list) /\ Len(F) \in Nat /\ Len(list) \in Nat
        /\ DOMAIN t = 1 .. Len(t)
        /\ \A i \in 1 .. Len(t) : t[i] = IF i <= Len(F) THEN F[i] ELSE list[i - Len(F)]
    BY <1>1, <1>3
  <1> HIDE DEF t
  <1>5. \A i \in DOMAIN t : \/ i \in DOMAIN F /\ t[i] = F[i]
                            \/ i - Len(F) \in DOMAIN list /\ t[i] = list[i - Len(F)]
    BY <1>1, <1>3, <1>4
  <1>6. \A i \in DOMAIN list : i + Len(F) \in DOMAIN t /\ t[i + Len(F)] = list[i]
    BY <1>1, <1>3, <1>4
  <1>7. StreamOK(log, t, 0)
    <2>1. \A i \in DOMAIN t : EventOK(log, t[i]) /\ (t[i].type = "BOOKMARK" => t[i].rv = 0)
      BY <1>1, <1>3, <1>5
    <2> QED  BY <1>l, <1>4, <2>1, StreamUnmarked
  <1>8. ASSUME NEW o \in Objects, store[o] # Absent
        PROVE  InStream(t, o) /\ LastIs(t, o, store[o].rv)
    <2>1. PICK i \in DOMAIN list : list[i].obj = o
      BY <1>1, <1>8 DEF InStream
    <2>2. i + Len(F) \in DOMAIN t /\ t[i + Len(F)].obj = o
      BY <1>6, <2>1
    <2>3. ASSUME NEW j \in DOMAIN t, t[j].obj = o,
                 \A m \in DOMAIN t : m > j => t[m].obj # o
          PROVE  t[j].rv = store[o].rv
      <3>1. j \in Nat /\ i \in Nat /\ i >= 1 /\ j >= i + Len(F)
        BY <1>1, <1>4, <2>2, <2>3
      <3>2. j \notin DOMAIN F
        BY <1>3, <1>4, <3>1
      <3> QED  BY <1>1, <1>5, <2>3, <3>2
    <2> QED  BY <2>2, <2>3 DEF InStream, LastIs
  <1> QED  BY <1>7, <1>8 DEF t, F

LEMMA ResumeShape ==
  ASSUME ClusterTypeOK, LogOK(log, store), NEW s \in Seq(Event), NEW b \in Nat,
         StreamOK(log, s, b), NEW kept \in Buffered(s), LastBookmark(kept, b) # 0
  PROVE  /\ StreamOK(log, kept \o Replay(log, LastBookmark(kept, b)), b)
         /\ \A o \in Objects : store[o] # Absent /\ LastIs(s, o, store[o].rv) =>
              /\ LastIs(kept \o Replay(log, LastBookmark(kept, b)), o, store[o].rv)
              /\ InStream(s, o) => InStream(kept \o Replay(log, LastBookmark(kept, b)), o)
  <1> DEFINE from == LastBookmark(kept, b)
             R == Replay(log, from)
             t == kept \o R
  <1>l. log \in Seq(Ordinary) /\ Len(log) \in Nat /\ DOMAIN log = 1 .. Len(log)
    BY DEF ClusterTypeOK
  <1>1. /\ from \in 1 .. Len(log) /\ b <= from
        /\ \A i \in DOMAIN kept : kept[i].type = "BOOKMARK" => kept[i].rv = from
        /\ \A i \in DOMAIN s \ DOMAIN kept : s[i].type # "BOOKMARK" => s[i].rv > from
        /\ \A i \in DOMAIN kept : kept[i].type # "BOOKMARK" => from = b
    BY <1>l, ResumeFrom
  <1>k. /\ kept \in Seq(Event) /\ Len(kept) \in 0 .. 1
        /\ \A i \in DOMAIN kept : i = 1 /\ i \in DOMAIN s /\ kept[i] = s[i]
        /\ StreamOK(log, kept, b)
    BY <1>l, KeptShape, KeptOK
  <1> HIDE DEF from
  <1>2. R \in Seq(Ordinary) /\ R \in Seq(Event)
    <2>1. from \in Nat
      BY <1>1, <1>l
    <2> QED  BY <2>1, ReplayType
  <1>3. Len(R) = Len(log) - from /\ \A i \in 1 .. Len(R) : R[i] = log[i + from]
    <2>1. R = SubSeq(log, from + 1, Len(log))
      BY DEF Replay
    <2>2. from + 1 \in 1 .. Len(log) + 1 /\ from \in Nat
      BY <1>l, <1>1
    <2> HIDE DEF R
    <2>3. Len(R) = Len(log) - from
      <3>1. /\ from + 1 <= Len(log) => Len(R) = Len(log) - (from + 1) + 1
            /\ ~(from + 1 <= Len(log)) => Len(R) = 0
        <4>1. Len(R) = IF from + 1 <= Len(log) THEN Len(log) - (from + 1) + 1 ELSE 0
          BY <1>l, <2>1, <2>2, SubSeqProperties
        <4> QED  BY <4>1
      <3>2. from \in Nat /\ from <= Len(log) /\ Len(log) \in Nat
        BY <1>l, <2>2
      <3> QED  BY <3>1, <3>2
    <2>4. ASSUME NEW i \in 1 .. Len(R) PROVE R[i] = log[i + from]
      <3>1. (from + 1) + i - 1 = i + from /\ i \in 1 .. Len(log) - (from + 1) + 1
        BY <1>l, <2>2, <2>3
      <3> QED  BY <1>l, <2>1, <2>2, <3>1
    <2> QED  BY <2>3, <2>4
  <1>4. \A i \in 1 .. Len(R) : /\ R[i].rv = i + from /\ R[i].type # "BOOKMARK"
                               /\ R[i].obj \in Objects /\ EventOK(log, R[i])
    <2> SUFFICES ASSUME NEW i \in 1 .. Len(R)
                 PROVE  /\ R[i].rv = i + from /\ R[i].type # "BOOKMARK"
                        /\ R[i].obj \in Objects /\ EventOK(log, R[i])
      OBVIOUS
    <2>1. i + from \in DOMAIN log
      BY <1>l, <1>1, <1>3
    <2>2. log[i + from].rv = i + from /\ log[i + from].obj \in Objects /\ log[i + from].type # "BOOKMARK"
      BY <1>l, <2>1 DEF LogOK, Ordinary
    <2> QED  BY <1>3, <2>1, <2>2 DEF EventOK
  <1> HIDE DEF R
  <1>5. /\ t \in Seq(Event) /\ Len(t) = Len(kept) + Len(R) /\ Len(R) \in Nat
        /\ DOMAIN t = 1 .. Len(t) /\ DOMAIN kept = 1 .. Len(kept)
        /\ \A i \in 1 .. Len(t) : t[i] = IF i <= Len(kept) THEN kept[i] ELSE R[i - Len(kept)]
    BY <1>k, <1>2
  <1> HIDE DEF t
  <1>6. \A i \in DOMAIN t : \/ i \in DOMAIN kept /\ t[i] = kept[i]
                            \/ /\ i > Len(kept) /\ i - Len(kept) \in 1 .. Len(R)
                               /\ t[i] = R[i - Len(kept)]
    BY <1>k, <1>5
  <1>7. ASSUME NEW i \in 1 .. Len(R) PROVE i + Len(kept) \in DOMAIN t /\ t[i + Len(kept)] = R[i]
    BY <1>k, <1>5
  <1>8. \A i \in DOMAIN t, f \in 0 .. from : i \notin DOMAIN kept => After(f, t[i])
    <2> SUFFICES ASSUME NEW i \in DOMAIN t, NEW f \in 0 .. from, i \notin DOMAIN kept
                 PROVE  After(f, t[i])
      OBVIOUS
    <2>1. i - Len(kept) \in 1 .. Len(R) /\ t[i] = R[i - Len(kept)]
      BY <1>6
    <2>2. t[i].type # "BOOKMARK" /\ t[i].rv = (i - Len(kept)) + from
      BY <1>4, <2>1
    <2>3. t[i].rv \in Nat /\ t[i].rv > from /\ from \in Nat
      BY <1>1, <1>l, <2>1, <2>2
    <2>4. t[i].rv > f
      BY <2>3
    <2> QED  BY <2>2, <2>4 DEF After
  <1>9. StreamOK(log, t, b)
    <2>1. \A i \in DOMAIN t : EventOK(log, t[i]) /\ After(b, t[i])
      <3> SUFFICES ASSUME NEW i \in DOMAIN t PROVE EventOK(log, t[i]) /\ After(b, t[i])
        OBVIOUS
      <3>1. CASE i \in DOMAIN kept
        <4>1. t[i] = kept[i]
          BY <1>5, <1>6, <3>1
        <4> QED  BY <1>k, <3>1, <4>1 DEF StreamOK
      <3>2. CASE i \notin DOMAIN kept
        <4>1. EventOK(log, t[i])
          BY <1>4, <1>6, <3>2
        <4>2. b \in 0 .. from
          BY <1>1, <1>l
        <4> QED  BY <1>8, <3>2, <4>1, <4>2
      <3> QED  BY <3>1, <3>2
    <2>2. ASSUME NEW i \in DOMAIN t, NEW j \in DOMAIN t, i < j, t[i].type = "BOOKMARK"
          PROVE  After(t[i].rv, t[j])
      <3>1. i \in DOMAIN kept /\ t[i] = kept[i]
        BY <1>4, <1>6, <2>2
      <3>2. t[i].rv = from /\ i = 1
        BY <1>1, <1>k, <2>2, <3>1
      <3>3. j \notin DOMAIN kept
        BY <1>k, <2>2, <3>2
      <3>4. from \in 0 .. from
        BY <1>1, <1>l
      <3> QED  BY <1>8, <3>2, <3>3, <3>4
    <2>3. b <= Len(log)
      BY DEF StreamOK
    <2> QED  BY <2>1, <2>2, <2>3 DEF StreamOK
  <1>10. ASSUME NEW o \in Objects, store[o] # Absent, LastIs(s, o, store[o].rv)
         PROVE  LastIs(t, o, store[o].rv) /\ (InStream(s, o) => InStream(t, o))
    <2> DEFINE v == store[o].rv
    <2>1. v \in DOMAIN log /\ log[v].obj = o /\ \A i \in DOMAIN log : log[i].obj = o => i <= v
      BY <1>10 DEF LogOK
    <2> HIDE DEF v
    <2>2. ASSUME v > from
          PROVE  \E m \in DOMAIN t : m > Len(kept) /\ t[m].obj = o /\ t[m].rv = v
      <3>1. v - from \in 1 .. Len(R) /\ (v - from) + from = v
        BY <1>l, <1>1, <1>3, <2>1, <2>2
      <3>2. R[v - from].obj = o /\ R[v - from].rv = v
        BY <1>3, <1>4, <2>1, <3>1
      <3>3. (v - from) + Len(kept) > Len(kept)
        BY <1>k, <3>1
      <3> QED  BY <1>7, <3>1, <3>2, <3>3
    <2>3. ASSUME NEW i \in DOMAIN s, s[i].obj = o
          PROVE  s[i].type # "BOOKMARK" /\ s[i].rv <= v /\ s[i].rv \in Nat
      <3>1. s[i].type # "BOOKMARK"
        BY <2>3, NoObjectApart DEF StreamOK, EventOK
      <3> QED  BY <2>1, <2>3, <3>1, <1>l DEF StreamOK, EventOK
    <2>4. ASSUME InStream(s, o) PROVE InStream(t, o)
      <3>1. PICK i \in DOMAIN s : s[i].obj = o
        BY <2>4 DEF InStream
      <3>2. CASE i \in DOMAIN kept
        <4>1. i <= Len(kept) /\ i \in DOMAIN t /\ t[i] = s[i]
          BY <1>k, <1>5, <3>2
        <4> QED  BY <3>1, <4>1 DEF InStream
      <3>3. CASE i \notin DOMAIN kept
        <4>1. v > from
          BY <1>1, <1>l, <2>1, <2>3, <3>1, <3>3
        <4> QED  BY <2>2, <4>1 DEF InStream
      <3> QED  BY <3>2, <3>3
    <2>5. ASSUME NEW i \in DOMAIN t, t[i].obj = o, \A j \in DOMAIN t : j > i => t[j].obj # o
          PROVE  t[i].rv = v
      <3>1. CASE i \in DOMAIN kept
        <4>1. t[i] = kept[i] /\ i = 1 /\ i \in DOMAIN s /\ kept[i] = s[i] /\ i <= Len(kept)
          BY <1>k, <1>5, <1>6, <3>1
        <4>2. ~(v > from)
          <5> SUFFICES ASSUME v > from PROVE FALSE
            OBVIOUS
          <5>1. PICK m \in DOMAIN t : m > Len(kept) /\ t[m].obj = o
            BY <2>2
          <5>2. m > i
            BY <1>k, <1>5, <4>1, <5>1
          <5> QED  BY <2>5, <5>1, <5>2
        <4>3. s[i].type # "BOOKMARK" /\ s[i].rv <= v /\ s[i].rv \in Nat
          BY <2>3, <2>5, <4>1
        <4>4. from = b
          BY <1>1, <3>1, <4>1, <4>3
        <4>5. s[i].rv > b
          BY <1>1, <4>1, <4>3, <4>4, <1>l DEF StreamOK, After
        <4> QED  BY <1>l, <1>1, <2>1, <4>2, <4>3, <4>4, <4>5
      <3>2. CASE i \notin DOMAIN kept
        <4>1. /\ i > Len(kept) /\ i - Len(kept) \in 1 .. Len(R) /\ t[i] = R[i - Len(kept)]
              /\ i \in Nat
          BY <1>5, <1>6, <3>2
        <4>2. t[i].rv = (i - Len(kept)) + from /\ t[i].rv \in DOMAIN log /\ log[t[i].rv].obj = o
          <5>1. t[i].rv = (i - Len(kept)) + from /\ R[i - Len(kept)] = log[(i - Len(kept)) + from]
            BY <1>3, <1>4, <4>1
          <5>2. (i - Len(kept)) + from \in DOMAIN log
            BY <1>3, <1>l, <1>1, <4>1
          <5> QED  BY <2>5, <4>1, <5>1, <5>2
        <4>3. t[i].rv <= v
          BY <2>1, <4>2
        <4>4. CASE t[i].rv < v
          <5>1. v > from /\ v - from \in 1 .. Len(R) /\ v - from > i - Len(kept) /\ (v - from) + from = v
            <6>1. (i - Len(kept)) + from < v /\ v \in 1 .. Len(log) /\ from \in Nat
              BY <1>l, <1>1, <2>1, <4>2, <4>4
            <6>2. Len(kept) \in Nat /\ i - Len(kept) >= 1
              BY <1>k, <4>1
            <6> QED  BY <1>l, <1>3, <4>1, <6>1, <6>2
          <5>2. (v - from) + Len(kept) \in DOMAIN t /\ t[(v - from) + Len(kept)].obj = o
            BY <1>3, <1>7, <2>1, <5>1
          <5>3. (v - from) + Len(kept) > i
            BY <1>k, <1>1, <1>l, <2>1, <4>1, <5>1
          <5> QED  BY <2>5, <5>2, <5>3
        <4> QED  BY <1>l, <2>1, <4>2, <4>3, <4>4
      <3> QED  BY <3>1, <3>2
    <2>6. LastIs(t, o, v)
      BY <2>5 DEF LastIs
    <2> QED  BY <2>4, <2>6 DEF v
  <1> QED  BY <1>9, <1>10 DEF t, R, from

\* The other ways a stream changes.
LEMMA AppendShape ==
  ASSUME NEW s \in Seq(Event), NEW e \in Event, NEW o \in Objects, NEW v
  PROVE  /\ e.obj = o => InStream(Append(s, e), o) /\ LastIs(Append(s, e), o, e.rv)
         /\ e.obj # o => /\ InStream(s, o) => InStream(Append(s, e), o)
                         /\ InStream(Append(s, e), o) => InStream(s, o)
                         /\ LastIs(s, o, v) => LastIs(Append(s, e), o, v)
  <1> DEFINE t == Append(s, e)
  <1>1. DOMAIN t = 1 .. Len(s) + 1 /\ DOMAIN s = 1 .. Len(s) /\ Len(s) \in Nat
    OBVIOUS
  <1>2. /\ \A i \in DOMAIN s : i \in DOMAIN t /\ t[i] = s[i] /\ Len(s) + 1 > i
        /\ Len(s) + 1 \in DOMAIN t /\ t[Len(s) + 1] = e
        /\ \A i \in DOMAIN t : i = Len(s) + 1 \/ i \in DOMAIN s
    BY <1>1
  <1> HIDE DEF t
  <1>3. ASSUME e.obj = o PROVE InStream(t, o) /\ LastIs(t, o, e.rv)
    <2>1. InStream(t, o)
      BY <1>2, <1>3 DEF InStream
    <2>2. LastIs(t, o, e.rv)
      BY <1>2, <1>3 DEF LastIs
    <2> QED  BY <2>1, <2>2
  <1>4. ASSUME e.obj # o
        PROVE  /\ InStream(s, o) => InStream(t, o)
               /\ InStream(t, o) => InStream(s, o)
               /\ LastIs(s, o, v) => LastIs(t, o, v)
    <2>1. InStream(s, o) => InStream(t, o)
      BY <1>2 DEF InStream
    <2>2. InStream(t, o) => InStream(s, o)
      BY <1>2, <1>4 DEF InStream
    <2>3. LastIs(s, o, v) => LastIs(t, o, v)
      BY <1>2, <1>4 DEF LastIs
    <2> QED  BY <2>1, <2>2, <2>3
  <1> QED  BY <1>3, <1>4 DEF t

LEMMA TailShape ==
  ASSUME NEW L \in Seq(Ordinary), NEW s \in Seq(Event), NEW b \in Nat, StreamOK(L, s, b), s # <<>>,
         NEW o \in Objects, NEW v, LastIs(s, o, v)
  PROVE  /\ LastIs(Tail(s), o, v)
         /\ InStream(s, o) => InStream(Tail(s), o) \/ Head(s).obj = o
         /\ ~InStream(Tail(s), o) /\ Head(s).obj = o => Head(s).rv = v
  <1> DEFINE t == Tail(s)
  <1>1. /\ Head(s) = s[1]
        /\ \A i \in DOMAIN t : i + 1 \in DOMAIN s /\ t[i] = s[i + 1]
        /\ \A i \in DOMAIN s : i # 1 => i - 1 \in DOMAIN t /\ t[i - 1] = s[i]
    BY StreamTail
  <1>n. (\A i \in DOMAIN s : i \in Nat /\ i >= 1) /\ 1 \in DOMAIN s /\ t \in Seq(Event)
    BY EmptySeq, HeadTailProperties
  <1>i. \A i \in DOMAIN t : i \in Nat
    BY <1>n
  <1> HIDE DEF t
  <1>2. LastIs(t, o, v)
    <2> SUFFICES ASSUME NEW i \in DOMAIN t, t[i].obj = o,
                        \A j \in DOMAIN t : j > i => t[j].obj # o
                 PROVE  t[i].rv = v
      BY DEF LastIs
    <2>1. ASSUME NEW j \in DOMAIN s, j > i + 1 PROVE s[j].obj # o
      <3>1. j # 1 /\ j - 1 > i
        BY <1>n, <1>i, <2>1
      <3> QED  BY <1>1, <3>1
    <2> QED  BY <1>1, <2>1 DEF LastIs
  <1>3. InStream(s, o) => InStream(t, o) \/ Head(s).obj = o
    BY <1>1 DEF InStream
  <1>4. ASSUME ~InStream(t, o), Head(s).obj = o PROVE Head(s).rv = v
    <2>1. \A j \in DOMAIN s : j > 1 => s[j].obj # o
      BY <1>1, <1>n, <1>4 DEF InStream
    <2> QED  BY <1>1, <1>n, <1>4, <2>1 DEF LastIs
  <1> QED  BY <1>2, <1>3, <1>4 DEF t

-----------------------------------------------------------------------------
\* The steps, by what they do to the streams.
Working(k) == pc[Server(k)] \in {"count", "accept", "send"}
StreamSame ==
  /\ UNCHANGED <<stream, bookmark, log, store, event, serverClosed, currentNotifier>>
  /\ \A k \in Id : (Working(k)' => Working(k)) /\ (Connected(k)' => Connected(k))

LEMMA StreamSteps ==
  ASSUME TypeOK, [Next]_vars, Timely
  PROVE  \/ StreamSame \/ Cluster \/ WatchSucceed
         \/ \E k \in Id : Connection(k) \/ Receive(k) \/ ExitCancelled(k) \/ CleanupEnd(k)
  <1>p. pc \in [Procs -> PCs]
    BY Groups DEF ProcTypeOK
  <1>1. CASE Calm /\ UNCHANGED <<stream, bookmark, log, store, serverClosed>>
    BY <1>1 DEF Calm, ServerSame, ChainSame, StreamSame, Working, Connected
  <1>2. CASE Aside
    <2>1. UNCHANGED <<stream, bookmark, log, store, serverClosed>>
      BY <1>2
      DEF Aside, WatchBegin, WatchFail, StopCalled, StopBegin, StopEnd, Descend, SendClosed,
          connectionVars, clusterVars, vars
    <2> QED  BY <1>1, <1>2, <2>1, AsideIsCalm
  <1>3. ASSUME NEW s \in StopKinds, NEW c \in Id, DeleteClient(s, c) PROVE StreamSame
    <2>1. UNCHANGED <<stream, bookmark, log, store, serverClosed, currentNotifier, event>>
      BY <1>3 DEF DeleteClient, connectionVars, clusterVars, nsVars, workVars
    <2>2. ServerSame
      BY <1>3, DeleteClientFrames
    <2> QED  BY <2>1, <2>2 DEF ServerSame, StreamSame, Working, Connected
  <1>4. ASSUME NEW k \in Id, UNCHANGED <<stream, bookmark, log, store, serverClosed, currentNotifier, event>>,
               \E where \in {"select", "accept", "send", "closing", "cleanup"} :
                 /\ pc' = [pc EXCEPT ![Server(k)] = where]
                 /\ pc[Server(k)] \notin {"none", "done"}
                 /\ where \in {"accept", "send"} => Working(k)
        PROVE  StreamSame
    <2>1. Server(k) \in Procs /\ \A j \in Id \ {k} : Server(j) # Server(k)
      BY ServerIsProc
    <2>2. \A j \in Id : (Working(j)' => Working(j)) /\ (Connected(j)' => Connected(j))
      <3> SUFFICES ASSUME NEW j \in Id
                   PROVE  (Working(j)' => Working(j)) /\ (Connected(j)' => Connected(j))
        OBVIOUS
      <3>1. CASE j = k
        BY <1>p, <1>4, <2>1, <3>1 DEF Working, Connected
      <3>2. CASE j # k
        <4>1. pc'[Server(j)] = pc[Server(j)]
          BY <1>p, <1>4, <2>1, <3>2
        <4> QED  BY <1>4, <4>1 DEF Working, Connected
      <3> QED  BY <3>1, <3>2
    <2> QED  BY <1>4, <2>2 DEF StreamSame
  <1>5. ASSUME NEW k \in Id, Descend(Server(k)) PROVE StreamSame
    <2>1. UNCHANGED <<stream, bookmark, log, store, serverClosed, currentNotifier, event, pc>>
      BY <1>5 DEF Descend, connectionVars, clusterVars, nsVars, workVars
    <2> QED  BY <2>1 DEF StreamSame, Working, Connected
  <1>6. ASSUME NEW k \in Id, Counted(k) \/ SeeClosed(k) \/ CleanupBegin(k) PROVE StreamSame
    <2>1. UNCHANGED <<stream, bookmark, log, store, serverClosed, currentNotifier, event>>
      BY <1>6 DEF Counted, SeeClosed, CleanupBegin, connectionVars, clusterVars, nsVars, workVars
    <2>2. \E where \in {"select", "accept", "send", "closing", "cleanup"} :
            /\ pc' = [pc EXCEPT ![Server(k)] = where]
            /\ pc[Server(k)] \notin {"none", "done"}
            /\ where \in {"accept", "send"} => Working(k)
      BY <1>6 DEF Counted, SeeClosed, CleanupBegin, Call, InFrame, Working
    <2> QED  BY <1>4, <2>1, <2>2
  <1>7. ASSUME NEW k \in Id, NEW n \in Id, SkipEvent(k, n) \/ SendDone(k, n) \/ ProcessEvent(k, n)
        PROVE  StreamSame
    <2>1. UNCHANGED <<stream, bookmark, log, store, serverClosed, currentNotifier, event>>
      BY <1>7 DEF SkipEvent, SendDone, ProcessEvent, connectionVars, clusterVars, nsVars, workVars
    <2>2. \E where \in {"select", "accept", "send", "closing", "cleanup"} :
            /\ pc' = [pc EXCEPT ![Server(k)] = where]
            /\ pc[Server(k)] \notin {"none", "done"}
            /\ where \in {"accept", "send"} => Working(k)
      BY <1>7 DEF SkipEvent, SendDone, ProcessEvent, Return, InFrame, Working
    <2> QED  BY <1>4, <2>1, <2>2
  <1>8. ASSUME NEW k \in Id, DrainBookmark(k) PROVE StreamSame
    <2>1. UNCHANGED <<stream, bookmark, log, store, serverClosed, currentNotifier, event>>
      BY <1>8 DEF DrainBookmark, connectionVars, clusterVars, nsVars
    <2>2. \E where \in {"select", "accept", "send", "closing", "cleanup"} :
            /\ pc' = [pc EXCEPT ![Server(k)] = where]
            /\ pc[Server(k)] \notin {"none", "done"}
            /\ where \in {"accept", "send"} => Working(k)
      BY <1>8 DEF DrainBookmark, InFrame, Working
    <2> QED  BY <1>4, <2>1, <2>2
  <1>9. ASSUME NEW k \in Id, NEW n \in Id, NEW c \in Id, SendOk(k, n, c) PROVE StreamSame
    <2>1. UNCHANGED <<stream, bookmark, log, store, serverClosed, currentNotifier, event, pc>>
      BY <1>9 DEF SendOk, connectionVars, clusterVars, nsVars, procVars
    <2> QED  BY <2>1 DEF StreamSame, Working, Connected
  <1> QED
    BY DeliverySteps, <1>2, <1>3, <1>5, <1>6, <1>7, <1>8, <1>9 DEF Streams, Moves

\* A change of the cluster: one more event for every connected stream.
LEMMA ClusterShape ==
  ASSUME TypeOK, Cluster
  PROVE  /\ UNCHANGED <<bookmark, event, pc, serverClosed, currentNotifier>>
         /\ \E o \in Objects, e \in Ordinary :
              /\ e.obj = o /\ e.rv = Len(log) + 1 /\ log' = Append(log, e)
              /\ \A p \in Objects \ {o} : store'[p] = store[p]
              /\ store'[o] = Absent \/ store'[o].rv = Len(log) + 1
              /\ \A k \in Id :
                   stream'[k] = IF Connected(k) THEN Append(stream[k], e) ELSE stream[k]
  <1>g. store \in [Objects -> [rv : Nat, gen : Nat]] /\ log \in Seq(Ordinary)
    BY Groups DEF ClusterTypeOK
  <1>1. PICK o \in Objects, type \in {"ADDED", "MODIFIED", "DELETED"}, gens \in SUBSET Nat :
          Change(type, o, gens)
    <2>1. \A o \in Objects : {1} \in SUBSET Nat /\ {store[o].gen} \in SUBSET Nat
                             /\ {store[o].gen, store[o].gen + 1} \in SUBSET Nat
      BY <1>g
    <2> QED  BY <2>1 DEF Cluster, Create, Modify, Delete
  <1>2. PICK g \in gens : LET obj == [rv |-> version + 1, gen |-> IF HasGeneration THEN g ELSE 0]
       IN  /\ store' = [store EXCEPT ![o] = IF type = "DELETED" THEN Absent ELSE obj]
           /\ log' = Append(log, EventOf(type, o, obj))
           /\ Offer(EventOf(type, o, obj))
    BY <1>1 DEF Change
  <1> DEFINE obj == [rv |-> version + 1, gen |-> IF HasGeneration THEN g ELSE 0]
             e == EventOf(type, o, obj)
  <1>3. e \in Ordinary /\ e.obj = o /\ e.rv = Len(log) + 1
    BY <1>1, <1>2, <1>g DEF EventOf, Event, Ordinary, version
  <1>4. store' = [store EXCEPT ![o] = IF type = "DELETED" THEN Absent ELSE obj]
        /\ log' = Append(log, e) /\ Offer(e)
    BY <1>2
  <1>5. obj.rv = Len(log) + 1
    BY DEF version
  <1>6. UNCHANGED <<bookmark, event, pc, serverClosed, currentNotifier>>
    BY <1>1 DEF Change, procVars, workVars, nsVars
  <1> HIDE DEF e, obj
  <1>7. \A k \in Id : stream'[k] = IF Connected(k) THEN Append(stream[k], e) ELSE stream[k]
    BY <1>4 DEF Offer
  <1>8. (\A p \in Objects \ {o} : store'[p] = store[p])
        /\ (store'[o] = Absent \/ store'[o].rv = Len(log) + 1)
    BY <1>g, <1>4, <1>5
  <1> QED  BY <1>3, <1>4, <1>6, <1>7, <1>8

LEMMA ReceiveShape ==
  ASSUME TypeOK, NEW k \in Id, Receive(k)
  PROVE  /\ UNCHANGED <<log, store, serverClosed, currentNotifier>>
         /\ pc[Server(k)] = "select" /\ pc'[Server(k)] = "count" /\ stream[k] # <<>>
         /\ stream'[k] = Tail(stream[k]) /\ event'[k] = Head(stream[k])
         /\ bookmark'[k] = LastBookmark(stream[k], bookmark[k])
         /\ \A j \in Id \ {k} : /\ stream'[j] = stream[j] /\ bookmark'[j] = bookmark[j]
                                /\ event'[j] = event[j] /\ pc'[Server(j)] = pc[Server(j)]
  <1>g. /\ stream \in [Id -> Seq(Event)] /\ bookmark \in [Id -> Nat] /\ event \in [Id -> Event]
        /\ pc \in [Procs -> PCs] /\ Server(k) \in Procs /\ \A j \in Id \ {k} : Server(j) # Server(k)
    BY Groups, ServerIsProc DEF ConnectionTypeOK, WorkTypeOK, ProcTypeOK
  <1>1. /\ pc[Server(k)] = "select" /\ stream[k] # <<>>
        /\ event' = [event EXCEPT ![k] = Head(stream[k])]
        /\ stream' = [stream EXCEPT ![k] = Tail(stream[k])]
        /\ bookmark' = [bookmark EXCEPT ![k] = LastBookmark(stream[k], bookmark[k])]
        /\ pc' = [pc EXCEPT ![Server(k)] = "count"]
        /\ UNCHANGED <<log, store, serverClosed, currentNotifier>>
    BY <1>g DEF Receive, Call, nsVars, clusterVars
  <1> QED  BY <1>g, <1>1

LEMMA ExitShape ==
  ASSUME TypeOK, NEW k \in Id, ExitCancelled(k) \/ CleanupEnd(k)
  PROVE  /\ UNCHANGED <<log, store, serverClosed, currentNotifier, bookmark, event>>
         /\ stream'[k] = <<>> /\ pc'[Server(k)] = "done"
         /\ \A j \in Id \ {k} : stream'[j] = stream[j] /\ pc'[Server(j)] = pc[Server(j)]
  <1>g. /\ stream \in [Id -> Seq(Event)] /\ pc \in [Procs -> PCs]
        /\ Server(k) \in Procs /\ \A j \in Id \ {k} : Server(j) # Server(k)
    BY Groups, ServerIsProc DEF ConnectionTypeOK, ProcTypeOK
  <1>1. /\ stream' = [stream EXCEPT ![k] = <<>>] /\ pc' = [pc EXCEPT ![Server(k)] = "done"]
        /\ UNCHANGED <<log, store, serverClosed, currentNotifier, bookmark, event>>
    BY DEF ExitCancelled, CleanupEnd, Exit, nsVars, workVars, clusterVars
  <1> QED  BY <1>g, <1>1

\* What the connections do to their streams.
LEMMA ConnectionShape ==
  ASSUME TypeOK, NEW k \in Id, Connection(k)
  PROVE  /\ UNCHANGED <<log, store, currentNotifier, event, pc>>
         /\ \A j \in Id \ {k} : /\ stream'[j] = stream[j] /\ bookmark'[j] = bookmark[j]
                                /\ serverClosed'[j] = serverClosed[j]
         /\ \/ stream'[k] = Append(stream[k], Bookmark(Len(log))) /\ bookmark'[k] = bookmark[k]
               /\ UNCHANGED serverClosed
            \/ /\ \E kept \in Buffered(stream[k]), list \in Listings(store) :
                    stream'[k] = Forgotten(kept) \o list
               /\ bookmark'[k] = 0 /\ UNCHANGED serverClosed
            \/ /\ \E kept \in Buffered(stream[k]) :
                    /\ LastBookmark(kept, bookmark[k]) # 0
                    /\ stream'[k] = kept \o Replay(log, LastBookmark(kept, bookmark[k]))
               /\ bookmark'[k] = bookmark[k] /\ UNCHANGED serverClosed
            \/ stream'[k] \in Buffered(stream[k]) /\ bookmark'[k] = bookmark[k] /\ serverClosed'[k]
  <1>g. /\ stream \in [Id -> Seq(Event)] /\ bookmark \in [Id -> Nat] /\ serverClosed \in [Id -> BOOLEAN]
    BY Groups DEF ConnectionTypeOK
  <1>1. UNCHANGED <<log, store, currentNotifier, event, pc>>
    BY DEF Connection, SendBookmark, Relist, Resume, CloseConnection, nsVars, workVars, procVars,
           clusterVars
  <1>2. CASE SendBookmark(k)
    <2>1. stream' = [stream EXCEPT ![k] = Append(stream[k], Bookmark(Len(log)))]
          /\ UNCHANGED <<bookmark, serverClosed>>
      BY <1>g, <1>2 DEF SendBookmark, version
    <2> QED  BY <1>g, <1>1, <2>1
  <1>3. CASE Relist(k)
    <2>1. PICK kept \in Buffered(stream[k]), list \in Listings(store) :
            stream' = [stream EXCEPT ![k] = Forgotten(kept) \o list]
      BY <1>3 DEF Relist
    <2>2. bookmark' = [bookmark EXCEPT ![k] = 0] /\ UNCHANGED serverClosed
      BY <1>3 DEF Relist
    <2> QED  BY <1>g, <1>1, <2>1, <2>2
  <1>4. CASE Resume(k)
    <2>1. PICK kept \in Buffered(stream[k]) :
            /\ LastBookmark(kept, bookmark[k]) # 0
            /\ stream' = [stream EXCEPT ![k] = kept \o Replay(log, LastBookmark(kept, bookmark[k]))]
      BY <1>4 DEF Resume
    <2>2. UNCHANGED <<bookmark, serverClosed>>
      BY <1>4 DEF Resume
    <2> QED  BY <1>g, <1>1, <2>1, <2>2
  <1>5. CASE CloseConnection(k)
    <2>1. PICK kept \in Buffered(stream[k]) : stream' = [stream EXCEPT ![k] = kept]
      BY <1>5 DEF CloseConnection
    <2>2. serverClosed' = [serverClosed EXCEPT ![k] = TRUE] /\ UNCHANGED bookmark
      BY <1>5 DEF CloseConnection
    <2> QED  BY <1>g, <1>1, <2>1, <2>2
  <1> QED  BY <1>2, <1>3, <1>4, <1>5 DEF Connection

LEMMA WatchShape ==
  ASSUME TypeOK, LockInv, WatchSucceed
  PROVE  /\ clientCount \in Id /\ currentNotifier' = clientCount /\ clientCount > currentNotifier
         /\ stream'[clientCount] \in Listings(store)
         /\ UNCHANGED <<log, store, bookmark, event, serverClosed>>
         /\ pc'[Server(clientCount)] = "select"
         /\ \A j \in Id \ {clientCount} : stream'[j] = stream[j] /\ pc'[Server(j)] = pc[Server(j)]
  <1>g. /\ stream \in [Id -> Seq(Event)] /\ pc \in [Procs -> PCs] /\ currentNotifier \in 0 .. MaxWatches
    BY Groups DEF ConnectionTypeOK, ProcTypeOK, NsTypeOK
  <1>1. clientCount \in Id /\ currentNotifier' = clientCount /\ currentNotifier < clientCount
        /\ pc'[Server(clientCount)] = "select" /\ OtherServers(clientCount)
    BY WatchFrames
  <1>2. PICK list \in Listings(store) : stream' = [stream EXCEPT ![clientCount] = list]
    BY DEF WatchSucceed
  <1>3. UNCHANGED <<log, store, bookmark, event, serverClosed>>
    BY DEF WatchSucceed, workVars, clusterVars
  <1>4. clientCount > currentNotifier
    BY <1>g, <1>1, ConstantsAssumption
  <1> QED  BY <1>g, <1>1, <1>2, <1>3, <1>4 DEF OtherServers

\* A notifier that Watch has not made yet knows nothing.
Fresh ==
  \A n \in Id : n > currentNotifier =>
    bookmark[n] = 0 /\ \A o \in Objects : processedVersions[n][o].rv = 0
\* What is read from a connection is in the history of the cluster, after the
\* BOOKMARKs read before it.
StreamsInv ==
  /\ LogOK(log, store)
  /\ \A k \in Id : /\ StreamOK(log, stream[k], bookmark[k])
                   /\ Working(k) => EventOK(log, event[k])
\* The last event about an object, in the stream of the current connection or
\* in hand, brings its current version.
LastInv ==
  currentNotifier # None /\ Connected(currentNotifier) =>
    \A o \in Objects : store[o] # Absent =>
      /\ LastIs(stream[currentNotifier], o, store[o].rv)
      /\ ~InStream(stream[currentNotifier], o) /\ About(currentNotifier, o) =>
           event[currentNotifier].rv = store[o].rv

LEMMA LogOKGrows ==
  ASSUME NEW L \in Seq(Ordinary), NEW S \in [Objects -> [rv : Nat, gen : Nat]], LogOK(L, S),
         NEW S2, NEW o \in Objects, NEW e \in Ordinary, e.obj = o, e.rv = Len(L) + 1,
         \A p \in Objects \ {o} : S2[p] = S[p], S2[o] = Absent \/ S2[o].rv = Len(L) + 1
  PROVE  LogOK(Append(L, e), S2)
  <1> DEFINE M == Append(L, e)
  <1>1. /\ DOMAIN M = 1 .. Len(L) + 1 /\ DOMAIN L = 1 .. Len(L) /\ Len(L) \in Nat
        /\ M[Len(L) + 1] = e /\ \A i \in 1 .. Len(L) : M[i] = L[i]
    OBVIOUS
  <1>2. \A i \in DOMAIN M : i = Len(L) + 1 \/ i \in DOMAIN L
    BY <1>1
  <1> HIDE DEF M
  <1>3. \A i \in DOMAIN M : M[i].rv = i /\ M[i].obj \in Objects
    BY <1>1, <1>2 DEF LogOK
  <1>4. ASSUME NEW p \in Objects, S2[p] # Absent
        PROVE  /\ S2[p].rv \in DOMAIN M /\ M[S2[p].rv].obj = p
               /\ \A i \in DOMAIN M : M[i].obj = p => i <= S2[p].rv
    <2>1. CASE p = o
      BY <1>1, <1>4, <2>1
    <2>2. CASE p # o
      <3>1. S2[p] = S[p] /\ S[p] # Absent
        BY <1>4, <2>2
      <3>2. S[p].rv \in DOMAIN L /\ L[S[p].rv].obj = p /\ \A i \in DOMAIN L : L[i].obj = p => i <= S[p].rv
        BY <3>1 DEF LogOK
      <3>3. \A i \in DOMAIN M : M[i].obj = p => i \in DOMAIN L /\ L[i].obj = p
        BY <1>1, <1>2, <2>2
      <3>4. S[p].rv \in DOMAIN M /\ M[S[p].rv].obj = p
        BY <1>1, <3>2
      <3> QED  BY <3>1, <3>2, <3>3, <3>4
    <2> QED  BY <2>1, <2>2
  <1>5. LogOK(M, S2)
    BY <1>3, <1>4 DEF LogOK
  <1> QED  BY <1>5 DEF M

LEMMA NextFresh ==
  ASSUME TypeOK, LockInv, Fresh, [Next]_vars, Timely
  PROVE  Fresh'
  <1>g. /\ currentNotifier \in 0 .. MaxWatches /\ pc \in [Procs -> PCs]
        /\ held \in [Procs -> SUBSET Id]
    BY Groups DEF NsTypeOK, ProcTypeOK
  <1>1. \A k \in Id : pc[Server(k)] # "none" => k <= currentNotifier
    BY DEF LockInv, WatchOrder
  <1>2. ASSUME NEW n \in Id, n > currentNotifier' PROVE n > currentNotifier /\ bookmark'[n] = 0
    <2>1. CASE WatchSucceed
      <3>1. clientCount \in Id /\ currentNotifier' = clientCount /\ clientCount > currentNotifier
            /\ bookmark' = bookmark
        BY <2>1, WatchShape
      <3> QED  BY <1>2, <1>g, <3>1, ConstantsAssumption DEF Fresh
    <2>2. CASE StreamSame
      BY <1>2, <2>2 DEF StreamSame, Fresh
    <2>3. CASE Cluster
      BY <1>2, <2>3, ClusterShape DEF Fresh
    <2>4. ASSUME NEW k \in Id, Connection(k) PROVE n > currentNotifier /\ bookmark'[n] = 0
      <3>1. /\ currentNotifier' = currentNotifier
            /\ bookmark'[n] = bookmark[n] \/ bookmark'[n] = 0
        BY <2>4, ConnectionShape
      <3> QED  BY <1>2, <3>1 DEF Fresh
    <2>5. ASSUME NEW k \in Id, Receive(k) PROVE n > currentNotifier /\ bookmark'[n] = 0
      <3>1. /\ currentNotifier' = currentNotifier /\ pc[Server(k)] = "select"
            /\ \A j \in Id \ {k} : bookmark'[j] = bookmark[j]
        BY <2>5, ReceiveShape
      <3>2. n > currentNotifier /\ k <= currentNotifier
        BY <1>1, <1>2, <3>1
      <3>3. n # k
        BY <1>g, <3>2, ConstantsAssumption
      <3> QED  BY <3>1, <3>2, <3>3 DEF Fresh
    <2>6. ASSUME NEW k \in Id, ExitCancelled(k) \/ CleanupEnd(k)
          PROVE  n > currentNotifier /\ bookmark'[n] = 0
      BY <1>2, <2>6, ExitShape DEF Fresh
    <2> QED  BY StreamSteps, <2>1, <2>2, <2>3, <2>4, <2>5, <2>6
  <1>3. ASSUME NEW n \in Id, n > currentNotifier, NEW o \in Objects
        PROVE  processedVersions'[n][o].rv = 0
    <2>1. CASE UNCHANGED processedVersions
      BY <1>3, <2>1 DEF Fresh
    <2>2. CASE Streams \/ Aside \/ WatchSucceed \/ \E s \in StopKinds, c \in Id : DeleteClient(s, c)
      <3>1. UNCHANGED processedVersions
        BY <2>2, AsideIsCalm, WatchFrames, DeleteClientFrames DEF Calm
      <3> QED  BY <2>1, <3>1
    <2>3. ASSUME NEW k \in Id, Descend(Server(k)) \/ Moves(k)
                               \/ (\E m \in Id : SkipEvent(k, m) \/ SendDone(k, m))
                               \/ \E m, c \in Id : SendOk(k, m, c)
          PROVE  processedVersions'[n][o].rv = 0
      <3>1. UNCHANGED processedVersions
        BY <2>3, DescendFrames, MovesFrames, ReturnFrames, SendFrames
      <3> QED  BY <2>1, <3>1
    <2>4. ASSUME NEW k \in Id, DrainBookmark(k) PROVE processedVersions'[n][o].rv = 0
      <3>1. pc[Server(k)] = "accept"
            /\ processedVersions' = [processedVersions EXCEPT ![k] =
                 [p \in Objects |-> IF processedVersions[k][p].type = "DELETED" THEN NotProcessed
                                    ELSE processedVersions[k][p]]]
        BY <2>4, Groups DEF DrainBookmark, InFrame, NotifierTypeOK
      <3>2. n # k
        <4>1. k <= currentNotifier
          BY <1>1, <3>1
        <4> QED  BY <1>3, <1>g, <4>1, ConstantsAssumption
      <3>3. processedVersions'[n] = processedVersions[n]
        BY <3>1, <3>2, Groups DEF NotifierTypeOK
      <3> QED  BY <1>3, <3>3 DEF Fresh
    <2>5. ASSUME NEW k \in Id, NEW m \in Id, ProcessEvent(k, m) PROVE processedVersions'[n][o].rv = 0
      <3>1. /\ m <= k /\ pc[Server(k)] = "accept"
            /\ processedVersions'[n][o].rv =
                 IF n = m /\ o = event[k].obj THEN event[k].rv ELSE processedVersions[n][o].rv
        BY <2>5, ProcessFrames
      <3>2. n # m
        <4>1. k <= currentNotifier
          BY <1>1, <3>1
        <4> QED  BY <1>3, <1>g, <3>1, <4>1, ConstantsAssumption
      <3> QED  BY <1>3, <3>1, <3>2 DEF Fresh
    <2> QED
      BY DeliverySteps, <2>2, <2>3, <2>4, <2>5
  <1> QED  BY <1>2, <1>3 DEF Fresh

LEMMA NextStreamsInv ==
  ASSUME TypeOK, LockInv, Fresh, StreamsInv, [Next]_vars, Timely
  PROVE  StreamsInv'
  <1>g. /\ stream \in [Id -> Seq(Event)] /\ bookmark \in [Id -> Nat] /\ event \in [Id -> Event]
        /\ log \in Seq(Ordinary) /\ store \in [Objects -> [rv : Nat, gen : Nat]] /\ ClusterTypeOK
    BY Groups DEF ConnectionTypeOK, WorkTypeOK, ClusterTypeOK
  <1>i. /\ LogOK(log, store)
        /\ \A k \in Id : StreamOK(log, stream[k], bookmark[k]) /\ (Working(k) => EventOK(log, event[k]))
    BY DEF StreamsInv
  <1>1. CASE StreamSame
    BY <1>1 DEF StreamsInv, StreamSame
  <1>2. CASE Cluster
    <2>1. PICK o \in Objects, e \in Ordinary :
            /\ e.obj = o /\ e.rv = Len(log) + 1 /\ log' = Append(log, e)
            /\ \A p \in Objects \ {o} : store'[p] = store[p]
            /\ store'[o] = Absent \/ store'[o].rv = Len(log) + 1
            /\ \A k \in Id :
                 stream'[k] = IF Connected(k) THEN Append(stream[k], e) ELSE stream[k]
      BY <1>2, ClusterShape
    <2>2. UNCHANGED <<bookmark, event, pc>>
      BY <1>2, ClusterShape
    <2>3. LogOK(log', store')
      <3>1. LogOK(Append(log, e), store')
        <4>1. LogOK(log, store) /\ log \in Seq(Ordinary) /\ store \in [Objects -> [rv : Nat, gen : Nat]]
          BY <1>g, <1>i
        <4>2. /\ e.obj = o /\ e.rv = Len(log) + 1 /\ \A p \in Objects \ {o} : store'[p] = store[p]
              /\ store'[o] = Absent \/ store'[o].rv = Len(log) + 1
          BY <2>1
        <4>3. \A p \in Objects \ {o} : store'[p] = store[p]
          BY ONLY <4>2
        <4>4. e.obj = o /\ e.rv = Len(log) + 1 /\ (store'[o] = Absent \/ store'[o].rv = Len(log) + 1)
          BY ONLY <4>2
        <4> QED  BY ONLY <4>1, <4>3, <4>4, o \in Objects, e \in Ordinary, LogOKGrows, SMTT(40)
      <3> QED  BY <2>1, <3>1
    <2>e. e \in Event /\ e.type # "BOOKMARK"
      BY <2>1 DEF Ordinary
    <2>l. log' \in Seq(Ordinary) /\ Len(log') = Len(log) + 1 /\ Len(log) \in Nat
          /\ DOMAIN log' = 1 .. Len(log) + 1 /\ log'[Len(log) + 1] = e
      BY <1>g, <2>1
    <2>4. EventOK(log', e)
      BY <2>1, <2>e, <2>l DEF EventOK
    <2>5. \A f \in 0 .. Len(log) : After(f, e)
      BY <2>1, <2>e, <2>l DEF After
    <2>6. ASSUME NEW k \in Id PROVE StreamOK(log', stream'[k], bookmark'[k])
      <3>1. StreamOK(log', stream[k], bookmark[k])
        BY <1>g, <1>i, <2>1, StreamGrows
      <3>2. StreamOK(log', Append(stream[k], e), bookmark[k])
        BY <1>g, <1>i, <2>e, <2>l, <2>4, <2>5, <3>1, StreamAppend
      <3> QED  BY <2>1, <2>2, <3>1, <3>2
    <2>7. ASSUME NEW k \in Id, Working(k)' PROVE EventOK(log', event'[k])
      <3>1. EventOK(log, event[k])
        BY <1>i, <2>2, <2>7 DEF Working
      <3>2. EventOK(log', event[k])
        BY <1>g, <2>1, <3>1, EventOKGrows
      <3> QED  BY <2>2, <3>2
    <2> QED  BY <2>3, <2>6, <2>7 DEF StreamsInv
  <1>3. CASE WatchSucceed
    <2>1. PICK w \in Id : w = clientCount
      BY <1>3, WatchShape
    <2>2. /\ w > currentNotifier /\ stream'[w] \in Listings(store)
          /\ UNCHANGED <<log, store, bookmark, event>> /\ pc'[Server(w)] = "select"
          /\ \A j \in Id \ {w} : stream'[j] = stream[j] /\ pc'[Server(j)] = pc[Server(j)]
      BY <1>3, <2>1, WatchShape
    <2>3. bookmark[w] = 0
      BY <2>2 DEF Fresh
    <2>4. StreamOK(log, stream'[w], 0)
      <3>1. /\ stream'[w] \in Seq(Event)
            /\ \A i \in DOMAIN stream'[w] : EventOK(log, stream'[w][i]) /\ stream'[w][i].type = "ADDED"
        BY <1>g, <1>i, <2>2, ListingShape
      <3> QED  BY <1>g, <3>1, StreamUnmarked
    <2>5. ASSUME NEW k \in Id
          PROVE  StreamOK(log', stream'[k], bookmark'[k]) /\ (Working(k)' => EventOK(log', event'[k]))
      <3>1. CASE k = w
        BY <2>2, <2>3, <2>4, <3>1 DEF Working
      <3>2. CASE k # w
        BY <1>i, <2>2, <3>2 DEF Working
      <3> QED  BY <3>1, <3>2
    <2> QED  BY <1>i, <2>2, <2>5 DEF StreamsInv
  <1>4. ASSUME NEW k \in Id, Connection(k) PROVE StreamsInv'
    <2>1. /\ UNCHANGED <<log, store, event, pc>>
          /\ \A j \in Id \ {k} : stream'[j] = stream[j] /\ bookmark'[j] = bookmark[j]
      BY <1>4, ConnectionShape
    <2>2. StreamOK(log, stream'[k], bookmark'[k])
      <3>1. CASE stream'[k] = Append(stream[k], Bookmark(Len(log))) /\ bookmark'[k] = bookmark[k]
        <4>1. Len(log) \in Nat
          BY <1>g
        <4>2. Bookmark(Len(log)) \in Event /\ EventOK(log, Bookmark(Len(log)))
          BY <4>1, BookmarkShape DEF EventOK
        <4>3. \A f \in 0 .. Len(log) : After(f, Bookmark(Len(log)))
          BY <4>1, BookmarkShape DEF After
        <4> QED  BY <1>g, <1>i, <3>1, <4>2, <4>3, StreamAppend
      <3>2. CASE /\ \E kept \in Buffered(stream[k]), list \in Listings(store) :
                      stream'[k] = Forgotten(kept) \o list
                 /\ bookmark'[k] = 0
        BY <1>g, <1>i, <3>2, RelistShape
      <3>3. CASE /\ \E kept \in Buffered(stream[k]) :
                      /\ LastBookmark(kept, bookmark[k]) # 0
                      /\ stream'[k] = kept \o Replay(log, LastBookmark(kept, bookmark[k]))
                 /\ bookmark'[k] = bookmark[k]
        BY <1>g, <1>i, <3>3, ResumeShape
      <3>4. CASE stream'[k] \in Buffered(stream[k]) /\ bookmark'[k] = bookmark[k]
        BY <1>g, <1>i, <3>4, KeptOK
      <3> QED  BY <1>4, ConnectionShape, <3>1, <3>2, <3>3, <3>4
    <2> QED  BY <1>i, <2>1, <2>2 DEF StreamsInv, Working
  <1>5. ASSUME NEW k \in Id, Receive(k) PROVE StreamsInv'
    <2>1. /\ UNCHANGED <<log, store>> /\ stream[k] # <<>>
          /\ stream'[k] = Tail(stream[k]) /\ event'[k] = Head(stream[k])
          /\ bookmark'[k] = LastBookmark(stream[k], bookmark[k])
          /\ \A j \in Id \ {k} : /\ stream'[j] = stream[j] /\ bookmark'[j] = bookmark[j]
                                 /\ event'[j] = event[j] /\ pc'[Server(j)] = pc[Server(j)]
      BY <1>5, ReceiveShape
    <2>2. StreamOK(log, stream'[k], bookmark'[k]) /\ EventOK(log, event'[k])
      <3>1. stream[k] \in Seq(Event) /\ bookmark[k] \in Nat /\ StreamOK(log, stream[k], bookmark[k])
        BY <1>g, <1>i
      <3> QED  BY <1>g, <2>1, <3>1, StreamTail
    <2> QED  BY <1>i, <2>1, <2>2 DEF StreamsInv, Working
  <1>6. ASSUME NEW k \in Id, ExitCancelled(k) \/ CleanupEnd(k) PROVE StreamsInv'
    <2>1. /\ UNCHANGED <<log, store, bookmark, event>> /\ stream'[k] = <<>> /\ pc'[Server(k)] = "done"
          /\ \A j \in Id \ {k} : stream'[j] = stream[j] /\ pc'[Server(j)] = pc[Server(j)]
      BY <1>6, ExitShape
    <2>2. StreamOK(log, <<>>, bookmark[k])
      BY <1>i DEF StreamOK
    <2> QED  BY <1>i, <2>1, <2>2 DEF StreamsInv, Working
  <1> QED  BY StreamSteps, <1>1, <1>2, <1>3, <1>4, <1>5, <1>6

LEMMA NextLastInv ==
  ASSUME TypeOK, LockInv, StreamsInv, LastInv, [Next]_vars, Timely
  PROVE  LastInv'
  <1>g. /\ stream \in [Id -> Seq(Event)] /\ bookmark \in [Id -> Nat] /\ event \in [Id -> Event]
        /\ log \in Seq(Ordinary) /\ store \in [Objects -> [rv : Nat, gen : Nat]] /\ ClusterTypeOK
        /\ currentNotifier \in 0 .. MaxWatches
    BY Groups DEF ConnectionTypeOK, WorkTypeOK, ClusterTypeOK, NsTypeOK
  <1>i. /\ LogOK(log, store)
        /\ \A k \in Id : StreamOK(log, stream[k], bookmark[k])
    BY DEF StreamsInv
  <1>1. CASE StreamSame
    <2> SUFFICES ASSUME currentNotifier # None, Connected(currentNotifier)' PROVE
                   \A o \in Objects : store[o] # Absent =>
                     /\ LastIs(stream[currentNotifier], o, store[o].rv)
                     /\ ~InStream(stream[currentNotifier], o) /\ About(currentNotifier, o)' =>
                          event[currentNotifier].rv = store[o].rv
      BY <1>1 DEF StreamSame, LastInv
    <2>1. currentNotifier \in Id
      BY <1>g, ConstantsAssumption
    <2>2. Connected(currentNotifier) /\ (Working(currentNotifier)' => Working(currentNotifier))
      BY <1>1, <2>1 DEF StreamSame, Connected
    <2> QED  BY <1>1, <2>2 DEF LastInv, StreamSame, Working, About
  <1>2. CASE Cluster
    <2>1. PICK p \in Objects, e \in Ordinary :
            /\ e.obj = p /\ e.rv = Len(log) + 1 /\ log' = Append(log, e)
            /\ \A q \in Objects \ {p} : store'[q] = store[q]
            /\ store'[p] = Absent \/ store'[p].rv = Len(log) + 1
            /\ \A k \in Id :
                 stream'[k] = IF Connected(k) THEN Append(stream[k], e) ELSE stream[k]
      BY <1>2, ClusterShape
    <2>2. UNCHANGED <<bookmark, event, pc, serverClosed, currentNotifier>>
      BY <1>2, ClusterShape
    <2>e. e \in Event
      BY <2>1 DEF Ordinary
    <2> SUFFICES ASSUME currentNotifier # None, Connected(currentNotifier),
                        NEW o \in Objects, store'[o] # Absent
                 PROVE  /\ LastIs(stream'[currentNotifier], o, store'[o].rv)
                        /\ ~InStream(stream'[currentNotifier], o) /\ About(currentNotifier, o) =>
                             event[currentNotifier].rv = store'[o].rv
      BY <2>2 DEF LastInv, Connected, About
    <2>3. currentNotifier \in Id /\ stream'[currentNotifier] = Append(stream[currentNotifier], e)
      <3>1. currentNotifier \in Id
        BY <1>g, ConstantsAssumption
      <3> QED  BY <2>1, <3>1
    <2>4. CASE o = p
      <3>1. /\ InStream(stream'[currentNotifier], o) /\ LastIs(stream'[currentNotifier], o, e.rv)
        <4>1. stream[currentNotifier] \in Seq(Event) /\ e.obj = o
          BY <1>g, <2>1, <2>3, <2>4
        <4> QED  BY <2>e, <2>3, <4>1, AppendShape
      <3> QED  BY <2>1, <2>4, <3>1
    <2>5. CASE o # p
      <3>1. store'[o] = store[o]
        BY <2>1, <2>5
      <3>2. LastIs(stream[currentNotifier], o, store[o].rv)
            /\ (~InStream(stream[currentNotifier], o) /\ About(currentNotifier, o) =>
                  event[currentNotifier].rv = store[o].rv)
        BY <3>1 DEF LastInv
      <3>3. /\ InStream(stream[currentNotifier], o) => InStream(stream'[currentNotifier], o)
            /\ LastIs(stream'[currentNotifier], o, store[o].rv)
        BY <1>g, <2>1, <2>e, <2>3, <2>5, <3>2, AppendShape
      <3> QED  BY <3>1, <3>2, <3>3
    <2> QED  BY <2>4, <2>5
  <1>3. CASE WatchSucceed
    <2>1. PICK w \in Id : w = clientCount
      BY <1>3, WatchShape
    <2>2. /\ currentNotifier' = w /\ stream'[w] \in Listings(store)
          /\ UNCHANGED <<log, store, event>> /\ pc'[Server(w)] = "select"
      BY <1>3, <2>1, WatchShape
    <2>3. ASSUME NEW o \in Objects, store[o] # Absent PROVE LastIs(stream'[w], o, store[o].rv)
      BY <1>g, <1>i, <2>2, ListingShape DEF LastIs
    <2> QED  BY <2>2, <2>3 DEF LastInv, About
  <1>4. ASSUME NEW k \in Id, Connection(k) PROVE LastInv'
    <2>1. /\ UNCHANGED <<log, store, currentNotifier, event, pc>>
          /\ \A j \in Id \ {k} : /\ stream'[j] = stream[j] /\ serverClosed'[j] = serverClosed[j]
      BY <1>4, ConnectionShape
    <2> SUFFICES ASSUME currentNotifier # None, Connected(currentNotifier)',
                        NEW o \in Objects, store[o] # Absent
                 PROVE  /\ LastIs(stream'[currentNotifier], o, store[o].rv)
                        /\ ~InStream(stream'[currentNotifier], o) /\ About(currentNotifier, o) =>
                             event[currentNotifier].rv = store[o].rv
      BY <2>1 DEF LastInv, About
    <2>2. currentNotifier \in Id
      BY <1>g, ConstantsAssumption
    <2>3. CASE currentNotifier # k
      <3>1. stream'[currentNotifier] = stream[currentNotifier] /\ Connected(currentNotifier)
        BY <2>1, <2>2, <2>3 DEF Connected
      <3> QED  BY <3>1 DEF LastInv
    <2>4. CASE currentNotifier = k
      <3>1. ~serverClosed'[k]
        BY <2>1, <2>4 DEF Connected
      <3>2. CASE UNCHANGED serverClosed
        <4>1. Connected(k)
          BY <2>1, <2>4, <3>2 DEF Connected
        <4>2. LastIs(stream[k], o, store[o].rv)
              /\ (~InStream(stream[k], o) /\ About(k, o) => event[k].rv = store[o].rv)
          BY <2>4, <4>1 DEF LastInv
        <4>3. LastIs(stream'[k], o, store[o].rv) /\ (InStream(stream[k], o) => InStream(stream'[k], o))
          <5>1. CASE stream'[k] = Append(stream[k], Bookmark(Len(log)))
            <6>1. Len(log) \in Nat
              BY <1>g
            <6>2. Bookmark(Len(log)) \in Event /\ Bookmark(Len(log)).obj # o
              BY <6>1, BookmarkShape, NoObjectApart
            <6>3. stream[k] \in Seq(Event)
              BY <1>g
            <6> QED  BY <4>2, <5>1, <6>2, <6>3, AppendShape
          <5>2. CASE \E kept \in Buffered(stream[k]), list \in Listings(store) :
                       stream'[k] = Forgotten(kept) \o list
            BY <1>g, <1>i, <5>2, RelistShape
          <5>3. CASE \E kept \in Buffered(stream[k]) :
                       /\ LastBookmark(kept, bookmark[k]) # 0
                       /\ stream'[k] = kept \o Replay(log, LastBookmark(kept, bookmark[k]))
            BY <1>g, <1>i, <4>2, <5>3, ResumeShape
          <5> QED  BY <1>4, <3>1, ConnectionShape, <5>1, <5>2, <5>3
        <4> QED  BY <2>4, <4>2, <4>3
      <3> QED  BY <1>4, <3>1, <3>2, ConnectionShape
    <2> QED  BY <2>3, <2>4
  <1>5. ASSUME NEW k \in Id, Receive(k) PROVE LastInv'
    <2>1. /\ UNCHANGED <<log, store, serverClosed, currentNotifier>> /\ stream[k] # <<>>
          /\ pc[Server(k)] = "select"
          /\ stream'[k] = Tail(stream[k]) /\ event'[k] = Head(stream[k])
          /\ \A j \in Id \ {k} : /\ stream'[j] = stream[j]
                                 /\ event'[j] = event[j] /\ pc'[Server(j)] = pc[Server(j)]
      BY <1>5, ReceiveShape
    <2> SUFFICES ASSUME currentNotifier # None, Connected(currentNotifier)',
                        NEW o \in Objects, store[o] # Absent
                 PROVE  /\ LastIs(stream'[currentNotifier], o, store[o].rv)
                        /\ ~InStream(stream'[currentNotifier], o) /\ About(currentNotifier, o)' =>
                             event'[currentNotifier].rv = store[o].rv
      BY <2>1 DEF LastInv
    <2>2. currentNotifier \in Id
      BY <1>g, ConstantsAssumption
    <2>3. CASE currentNotifier # k
      <3>1. /\ stream'[currentNotifier] = stream[currentNotifier] /\ Connected(currentNotifier)
            /\ event'[currentNotifier] = event[currentNotifier]
            /\ About(currentNotifier, o)' => About(currentNotifier, o)
        BY <2>1, <2>2, <2>3 DEF Connected, About
      <3> QED  BY <3>1 DEF LastInv
    <2>4. CASE currentNotifier = k
      <3>1. Connected(k)
        BY <2>1, <2>4 DEF Connected
      <3>2. LastIs(stream[k], o, store[o].rv)
        BY <2>4, <3>1 DEF LastInv
      <3>3. /\ LastIs(Tail(stream[k]), o, store[o].rv)
            /\ ~InStream(Tail(stream[k]), o) /\ Head(stream[k]).obj = o =>
                 Head(stream[k]).rv = store[o].rv
        <4>1. stream[k] \in Seq(Event) /\ bookmark[k] \in Nat /\ StreamOK(log, stream[k], bookmark[k])
          BY <1>g, <1>i
        <4> QED  BY <1>g, <2>1, <3>2, <4>1, TailShape
      <3> QED  BY <2>1, <2>4, <3>3 DEF About
    <2> QED  BY <2>3, <2>4
  <1>6. ASSUME NEW k \in Id, ExitCancelled(k) \/ CleanupEnd(k) PROVE LastInv'
    <2>1. /\ UNCHANGED <<log, store, serverClosed, currentNotifier, event>> /\ pc'[Server(k)] = "done"
          /\ \A j \in Id \ {k} : stream'[j] = stream[j] /\ pc'[Server(j)] = pc[Server(j)]
      BY <1>6, ExitShape
    <2> SUFFICES ASSUME currentNotifier # None, Connected(currentNotifier)',
                        NEW o \in Objects, store[o] # Absent
                 PROVE  /\ LastIs(stream'[currentNotifier], o, store[o].rv)
                        /\ ~InStream(stream'[currentNotifier], o) /\ About(currentNotifier, o)' =>
                             event[currentNotifier].rv = store[o].rv
      BY <2>1 DEF LastInv
    <2>2. currentNotifier \in Id
      BY <1>g, ConstantsAssumption
    <2>3. currentNotifier # k
      BY <2>1 DEF Connected
    <2>4. /\ stream'[currentNotifier] = stream[currentNotifier] /\ Connected(currentNotifier)
          /\ About(currentNotifier, o)' => About(currentNotifier, o)
      BY <2>1, <2>2, <2>3 DEF Connected, About
    <2> QED  BY <2>4 DEF LastInv
  <1> QED  BY StreamSteps, <1>1, <1>2, <1>3, <1>4, <1>5, <1>6

-----------------------------------------------------------------------------
(***************************************************************************)
(* The delivery: what a client knows, in relation to what its notifier     *)
(* remembers and to the events under way.                                  *)
(***************************************************************************)
LEMMA SmallestOf ==
  ASSUME NEW T \in SUBSET Nat, T # {}
  PROVE  \E x \in T : \A y \in T : x <= y
  <1> DEFINE R == OpToRel(<, Nat)
  <1>1. IsWellFoundedOn(R, Nat)
    BY NatLessThanWellFounded
  <1>2. \A x, y \in Nat : x < y => <<x, y>> \in R
    BY DEF OpToRel
  <1> HIDE DEF R
  <1>3. PICK x \in T : \A y \in T : ~ (<<y, x>> \in R)
    BY <1>1, WFMin
  <1>4. \A y \in T : x \in Nat /\ y \in Nat /\ ~ (y < x)
    BY <1>2, <1>3
  <1> QED  BY <1>4

LEMMA GreatestOf ==
  ASSUME NEW n \in Nat, NEW S \in SUBSET (0 .. n), S # {}
  PROVE  Max(S) \in S /\ \A y \in S : Max(S) >= y
  <1> DEFINE T == {n - y : y \in S}
  <1>1. \A y \in S : y \in 0 .. n /\ n - y \in T /\ n - y \in Nat
    OBVIOUS
  <1>2. T \in SUBSET Nat /\ T # {}
    BY <1>1
  <1>3. PICK x \in T : \A y \in T : x <= y
    BY <1>2, SmallestOf
  <1>4. PICK s \in S : x = n - s
    BY <1>3
  <1> HIDE DEF T
  <1>5. \A y \in S : s >= y
    BY <1>1, <1>3, <1>4
  <1> QED  BY <1>5 DEF Max

\* The version that a client which got the events s has of an object.
Known(s, o) ==
  LET seen == {i \in DOMAIN s : s[i].obj = o}
  IN  IF seen = {} THEN 0 ELSE s[Max(seen)].rv

LEMMA LastVersionKnown ==
  \A c \in Id, o \in Objects : LastVersion(c, o) = Known(received[c], o)
  BY DEF LastVersion, Known

LEMMA KnownAppend ==
  ASSUME NEW s \in Seq(Received), NEW x \in Received, NEW o \in Objects
  PROVE  Known(Append(s, x), o) = IF x.obj = o THEN x.rv ELSE Known(s, o)
  <1> DEFINE t == Append(s, x)
             old == {i \in DOMAIN s : s[i].obj = o}
             new == {i \in DOMAIN t : t[i].obj = o}
             l == Len(s) + 1
  <1>1. /\ DOMAIN t = 1 .. l /\ DOMAIN s = 1 .. Len(s) /\ Len(s) \in Nat
        /\ t[l] = x /\ \A i \in 1 .. Len(s) : t[i] = s[i]
    OBVIOUS
  <1> HIDE DEF t
  <1>2. Known(t, o) = IF new = {} THEN 0 ELSE t[Max(new)].rv
    BY DEF Known
  <1>3. Known(s, o) = IF old = {} THEN 0 ELSE s[Max(old)].rv
    BY DEF Known
  <1>4. CASE x.obj = o
    <2>1. l \in new /\ new \in SUBSET (0 .. l) /\ l \in Nat
      BY <1>1, <1>4
    <2>2. Max(new) \in new /\ \A y \in new : Max(new) >= y
      BY <2>1, GreatestOf
    <2>3. Max(new) = l
      <3>1. Max(new) \in Nat /\ Max(new) <= l /\ Max(new) >= l
        BY <2>1, <2>2
      <3> QED  BY <2>1, <3>1
    <2> QED  BY <1>1, <1>2, <1>4, <2>1, <2>3 DEF t
  <1>5. CASE x.obj # o
    <2>1. new = old
      <3>1. \A i : i \in new <=> i \in old
        BY <1>1, <1>5
      <3> QED  BY <3>1
    <2>2. CASE old = {}
      BY <1>2, <1>3, <1>5, <2>1, <2>2 DEF t
    <2>3. CASE old # {}
      <3>1. old \in SUBSET (0 .. Len(s)) /\ old \subseteq DOMAIN s
        BY <1>1
      <3>2. Max(old) \in old
        BY <1>1, <2>3, <3>1, GreatestOf
      <3>3. t[Max(old)] = s[Max(old)]
        BY <1>1, <3>1, <3>2
      <3> QED  BY <1>2, <1>3, <1>5, <2>1, <2>3, <3>3 DEF t
    <2> QED  BY <2>2, <2>3
  <1> QED  BY <1>4, <1>5

\* Only the handler of the newest Watch is not cancelled.
Superseded == \A k \in Id : k < clientCount => cancelled[k]
\* The goroutine of j goes down from j, and up when it sends.
OwnFrame ==
  \A j \in Id :
    /\ pc[Server(j)] \in {"accept", "send"} => next[Server(j)] = j \/ j \in held[Server(j)]
    /\ pc[Server(j)] = "send" => next[Server(j)] = None
\* A notifier remembers the version that is being sent to its clients.
SendInv ==
  \A j, n \in Id : Sending(j, n) /\ event[j].obj \in Objects =>
    processedVersions[n][event[j].obj].rv = event[j].rv

LEMMA NextSuperseded ==
  ASSUME TypeOK, LockInv, Superseded, [Next]_vars
  PROVE  Superseded'
  <1>g. clientCount \in 0 .. MaxWatches
    BY Groups DEF NsTypeOK
  <1>1. CASE WatchBegin
    <2>1. clientCount' = clientCount + 1
          /\ cancelled' = [k \in Id |-> cancelled[k] \/ k = clientCount]
      BY <1>1 DEF WatchBegin
    <2> SUFFICES ASSUME NEW k \in Id, k < clientCount' PROVE cancelled'[k]
      BY DEF Superseded
    <2>2. k < clientCount \/ k = clientCount
      BY <1>g, <2>1, ConstantsAssumption
    <2> QED  BY <2>1, <2>2 DEF Superseded
  <1>2. CASE UNCHANGED <<clientCount, cancelled>>
    BY <1>2 DEF Superseded
  <1>3. ~WatchBegin => UNCHANGED <<clientCount, cancelled>>
    BY SameSteps DEF Same, Watch, WatchFail, WatchSucceed
  <1> QED  BY <1>1, <1>2, <1>3

\* A goroutine that the current connection's is not sends late.
LEMMA OthersAreLate ==
  ASSUME TypeOK, LockInv, Superseded, NEW k \in Id, pc[Server(k)] # "none"
  PROVE  k = currentNotifier \/ cancelled[k]
  <1>1. currentNotifier \in 0 .. MaxWatches /\ clientCount \in 0 .. MaxWatches
    BY Groups DEF NsTypeOK
  <1>2. k <= currentNotifier /\ currentNotifier <= clientCount
    BY DEF LockInv, WatchOrder
  <1>3. k = currentNotifier \/ k < clientCount
    BY <1>1, <1>2, ConstantsAssumption
  <1> QED  BY <1>3 DEF Superseded

LEMMA NextOwnFrame ==
  ASSUME TypeOK, LockInv, OwnFrame, [Next]_vars, Timely
  PROVE  OwnFrame'
  <1> DEFINE OK(j) == /\ pc[Server(j)] \in {"accept", "send"} =>
                           next[Server(j)] = j \/ j \in held[Server(j)]
                      /\ pc[Server(j)] = "send" => next[Server(j)] = None
  <1>1. CASE ServerSame
    BY <1>1 DEF ServerSame, OwnFrame
  <1>2. ASSUME NEW k \in Id, OtherServers(k), OK(k)' PROVE OwnFrame'
    BY <1>2 DEF OtherServers, OwnFrame
  <1>3. CASE Streams \/ Aside \/ \E s \in StopKinds, c \in Id : DeleteClient(s, c)
    BY <1>1, <1>3, AsideIsCalm, DeleteClientFrames DEF Calm
  <1>4. CASE WatchSucceed
    BY <1>2, <1>4, WatchFrames
  <1>5. ASSUME NEW k \in Id, Descend(Server(k)) PROVE OwnFrame'
    <2>1. /\ OtherServers(k) /\ pc' = pc /\ next[Server(k)] \in Id
          /\ held'[Server(k)] = held[Server(k)] \cup {next[Server(k)]}
      BY <1>5, DescendFrames
    <2>2. pc[Server(k)] # "send"
      BY <2>1, ConstantsAssumption DEF OwnFrame
    <2> QED  BY <1>2, <2>1, <2>2 DEF OwnFrame
  <1>6. ASSUME NEW k \in Id, Moves(k) PROVE OwnFrame'
    <2>1. OtherServers(k) /\ ~Returning(k)' /\ next'[Server(k)] \in {None, k}
      BY <1>6, MovesFrames
    <2>2. pc'[Server(k)] # "send"
      <3>1. /\ pc \in [Procs -> PCs] /\ Server(k) \in Procs
        BY Groups, ServerIsProc DEF ProcTypeOK
      <3> QED
        BY <1>6, <3>1 DEF Moves, Receive, Counted, ExitCancelled, SeeClosed, CleanupBegin, CleanupEnd,
                          Exit, Call
    <2>3. pc'[Server(k)] = "accept" => next'[Server(k)] = k
      BY <2>1 DEF Returning
    <2> QED  BY <1>2, <2>1, <2>2, <2>3
  <1>7. ASSUME NEW k \in Id, DrainBookmark(k) PROVE OwnFrame'
    <2>1. /\ OtherServers(k) /\ UNCHANGED <<held, next>>
          /\ held[Server(k)] = {k} /\ next[Server(k)] = None
      BY <1>7, DrainFrames
    <2> QED  BY <1>2, <2>1
  <1>8. ASSUME NEW k \in Id, NEW n \in Id, SkipEvent(k, n) \/ SendDone(k, n) PROVE OwnFrame'
    <2>1. /\ OtherServers(k) /\ held'[Server(k)] = held[Server(k)] \ {n}
          /\ next'[Server(k)] = None /\ next[Server(k)] = None /\ Returning(k)
          /\ pc'[Server(k)] = IF n = k THEN "select" ELSE "accept"
      BY <1>8, ReturnFrames
    <2>2. k \in held[Server(k)]
      BY <2>1, ConstantsAssumption DEF OwnFrame, Returning
    <2> QED  BY <1>2, <2>1, <2>2
  <1>9. ASSUME NEW k \in Id, NEW n \in Id, ProcessEvent(k, n) PROVE OwnFrame'
    <2>1. /\ UNCHANGED <<held, next>> /\ next[Server(k)] = None /\ Returning(k)
          /\ \A j \in Id \ {k} : pc'[Server(j)] = pc[Server(j)]
      BY <1>9, ProcessFrames
    <2>2. k \in held[Server(k)]
      BY <2>1, ConstantsAssumption DEF OwnFrame, Returning
    <2> QED  BY <1>2, <2>1, <2>2 DEF OtherServers
  <1>10. ASSUME NEW k \in Id, NEW n \in Id, NEW c \in Id, SendOk(k, n, c) PROVE OwnFrame'
    BY <1>1, <1>10, SendFrames
  <1> QED
    BY DeliverySteps, <1>3, <1>4, <1>5, <1>6, <1>7, <1>8, <1>9, <1>10

\* What a goroutine has in hand concerns an object unless it is a BOOKMARK.
LEMMA InHandOK ==
  ASSUME TypeOK, StreamsInv, NEW k \in Id, Working(k)
  PROVE  /\ event[k].type = "BOOKMARK" => event[k].obj \notin Objects
         /\ event[k].type # "BOOKMARK" => event[k].obj \in Objects /\ event[k].rv # 0
  <1>1. EventOK(log, event[k]) /\ log \in Seq(Ordinary)
    BY Groups DEF StreamsInv, ClusterTypeOK
  <1> QED  BY <1>1, NoObjectApart DEF EventOK

LEMMA NextSendInv ==
  ASSUME TypeOK, LockInv, OwnFrame, StreamsInv, SendInv, [Next]_vars, Timely
  PROVE  SendInv'
  <1>1. ASSUME \A m \in Id, o \in Objects : processedVersions'[m][o].rv = processedVersions[m][o].rv,
               \A j, n \in Id : Sending(j, n)' => Sending(j, n) /\ event'[j] = event[j]
        PROVE  SendInv'
    BY <1>1 DEF SendInv
  <1>2. CASE ServerSame /\ UNCHANGED <<processedVersions, event>>
    BY <1>1, <1>2 DEF ServerSame, Sending, InFrame
  <1>3. CASE Streams \/ Aside \/ \E s \in StopKinds, c \in Id : DeleteClient(s, c)
    BY <1>2, <1>3, AsideIsCalm, DeleteClientFrames DEF Calm
  <1>4. ASSUME NEW k \in Id, OtherServers(k), pc'[Server(k)] # "send", UNCHANGED processedVersions,
               \A j \in Id \ {k} : event'[j] = event[j]
        PROVE  SendInv'
    BY <1>1, <1>4 DEF OtherServers, Sending, InFrame
  <1>5. CASE WatchSucceed
    BY <1>4, <1>5, WatchFrames
  <1>6. ASSUME NEW k \in Id, Descend(Server(k)) PROVE SendInv'
    <2>1. /\ OtherServers(k) /\ pc' = pc /\ next[Server(k)] \in Id
          /\ UNCHANGED <<processedVersions, event>>
      BY <1>6, DescendFrames
    <2>2. pc[Server(k)] # "send"
      BY <2>1, ConstantsAssumption DEF OwnFrame
    <2> QED  BY <1>4, <2>1, <2>2
  <1>7. ASSUME NEW k \in Id, Moves(k) PROVE SendInv'
    <2>1. /\ OtherServers(k) /\ ~Returning(k)' /\ UNCHANGED processedVersions
          /\ \A j \in Id \ {k} : event'[j] = event[j]
      BY <1>7, MovesFrames
    <2>2. \A n \in Id : ~Sending(k, n)'
      BY <2>1 DEF Returning, Sending, InFrame
    <2> QED  BY <1>1, <2>1, <2>2 DEF OtherServers, Sending, InFrame
  <1>8. ASSUME NEW k \in Id, NEW n \in Id, SkipEvent(k, n) \/ SendDone(k, n) PROVE SendInv'
    <2>1. /\ OtherServers(k) /\ UNCHANGED <<processedVersions, event>>
          /\ pc'[Server(k)] = IF n = k THEN "select" ELSE "accept"
      BY <1>8, ReturnFrames
    <2> QED  BY <1>4, <2>1
  <1>9. ASSUME NEW k \in Id, NEW n \in Id, NEW c \in Id, SendOk(k, n, c) PROVE SendInv'
    BY <1>2, <1>9, SendFrames
  <1>10. ASSUME NEW k \in Id, NEW n \in Id, ProcessEvent(k, n) PROVE SendInv'
    <2>1. /\ UNCHANGED <<held, next, event>> /\ n \in held[Server(k)]
          /\ \A m \in held[Server(k)] : n <= m
          /\ \A j \in Id \ {k} : pc'[Server(j)] = pc[Server(j)]
          /\ \A m \in Id, o \in Objects :
               processedVersions'[m][o].rv =
                 IF m = n /\ o = event[k].obj THEN event[k].rv ELSE processedVersions[m][o].rv
      BY <1>10, ProcessFrames
    <2>h. held[Server(k)] \subseteq Id
      BY Groups, ServerIsProc DEF ProcTypeOK
    <2>2. ASSUME NEW j \in Id, NEW m \in Id, Sending(j, m)', event[j].obj \in Objects
          PROVE  processedVersions'[m][event[j].obj].rv = event[j].rv
      <3>1. CASE j = k
        <4>1. m \in held[Server(k)] /\ m <= n
          BY <2>1, <2>2, <3>1 DEF Sending, InFrame
        <4>2. m = n
          BY <2>1, <2>h, <4>1, ConstantsAssumption
        <4> QED  BY <2>1, <2>2, <3>1, <4>2
      <3>2. CASE j # k
        <4>1. Sending(j, m)
          BY <2>1, <2>2, <3>2 DEF Sending, InFrame
        <4>2. m # n
          BY <2>1, <3>2, <4>1, ServerIsProc DEF LockInv, Exclusive, Sending, InFrame
        <4> QED  BY <2>1, <2>2, <4>1, <4>2 DEF SendInv
      <3> QED  BY <3>1, <3>2
    <2> QED  BY <2>1, <2>2 DEF SendInv
  <1>11. ASSUME NEW k \in Id, DrainBookmark(k) PROVE SendInv'
    <2>1. /\ OtherServers(k) /\ UNCHANGED event /\ event[k].type = "BOOKMARK" /\ pc[Server(k)] = "accept"
          /\ \A j \in Id \ {k} : k \notin held[Server(j)]
      BY <1>11, DrainFrames
    <2>2. \A m \in Id \ {k} : processedVersions'[m] = processedVersions[m]
      BY <1>11, Groups DEF DrainBookmark, NotifierTypeOK
    <2>3. ASSUME NEW j \in Id, NEW m \in Id, Sending(j, m)', event[j].obj \in Objects
          PROVE  processedVersions'[m][event[j].obj].rv = event[j].rv
      <3>1. j # k
        BY <2>1, <2>3, InHandOK DEF Working
      <3>2. Sending(j, m)
        BY <2>1, <2>3, <3>1 DEF OtherServers, Sending, InFrame
      <3>3. m # k
        BY <2>1, <3>1, <3>2 DEF Sending, InFrame
      <3> QED  BY <2>2, <2>3, <3>2, <3>3 DEF SendInv
    <2> QED  BY <2>1, <2>3 DEF SendInv
  <1> QED
    BY DeliverySteps, <1>3, <1>5, <1>6, <1>7, <1>8, <1>9, <1>10, <1>11

\* What notifier k remembers of an object is what the clients at and below it
\* know, unless they are about to be told.
Coming(k, o) ==
  \E j \in Id : Handles(j, o) /\ k \in held[Server(j)] /\ ~Sending(j, k)
Told(k, c, o) == \E j \in Id : Sending(j, k) /\ event[j].obj = o /\ c \in pending[j]
SyncedAt(k, m, c, o) ==
  \/ processedVersions[k][o].rv \in {0, Known(received[c], o)}
  \/ m < k /\ Coming(k, o)
  \/ m = k /\ Told(k, c, o)
Synced ==
  \A k, m \in Current : m <= k =>
    \A c \in clientsMap[m], o \in Objects : Follows(c, o) => SyncedAt(k, m, c, o)

\* The clients of the notifiers that a goroutine has left know its event.
DeliveredAt(j, m, c, o) ==
  Known(received[c], o) = event[j].rv \/ (Sending(j, m) /\ c \in pending[j])
Delivered ==
  \A j, m \in Current : m <= j => \A o \in Objects :
    Handles(j, o) /\ (m \notin held[Server(j)] \/ Sending(j, m)) =>
      \A c \in clientsMap[m] : Follows(c, o) => DeliveredAt(j, m, c, o)

Ground ==
  /\ FrameInv /\ OneOwner /\ Fresh /\ StreamsInv /\ LastInv /\ Superseded /\ OwnFrame /\ SendInv

Untouched(j) ==
  /\ pc'[Server(j)] = pc[Server(j)] /\ held'[Server(j)] = held[Server(j)]
  /\ next'[Server(j)] = next[Server(j)] /\ event'[j] = event[j] /\ pending'[j] = pending[j]

LEMMA FollowsStays ==
  ASSUME NEW c \in Id, NEW o \in Objects, received'[c] = received[c]
  PROVE  Follows(c, o)' <=> Follows(c, o)
  BY DEF Follows, Late

LEMMA UntouchedStays ==
  ASSUME NEW j \in Id, Untouched(j)
  PROVE  /\ Returning(j)' <=> Returning(j)
         /\ \A n \in Id : Sending(j, n)' <=> Sending(j, n)
         /\ \A o \in Objects : Handles(j, o)' <=> Handles(j, o)
  BY DEF Untouched, Returning, Sending, InFrame, Handles

LEMMA SendingReturns ==
  \A j, n \in Id : Sending(j, n) => Returning(j) /\ n \in held[Server(j)]
  BY DEF Sending, InFrame, Returning

LEMMA OneHolder ==
  ASSUME LockInv, NEW i \in Id, NEW j \in Id, NEW n \in Id,
         n \in held[Server(i)], n \in held[Server(j)]
  PROVE  i = j
  BY ServerIsProc DEF LockInv, Exclusive

LEMMA ServerTypes ==
  ASSUME TypeOK
  PROVE  /\ Current \subseteq Id
         /\ \A j \in Id : held[Server(j)] \subseteq Id /\ clientsMap[j] \subseteq Id
                          /\ pending[j] \subseteq Id /\ received[j] \in Seq(Received)
         /\ currentNotifier \in 0 .. MaxWatches
  BY Groups, CurrentIds, ServerIsProc
  DEF ProcTypeOK, NotifierTypeOK, WorkTypeOK, ClientTypeOK, NsTypeOK

LEMMA QuietSynced ==
  ASSUME TypeOK, Synced, Current' = Current, \A n \in Current : clientsMap'[n] \subseteq clientsMap[n],
         UNCHANGED <<processedVersions, received>>, \A j \in Id : Returning(j) => Untouched(j)
  PROVE  Synced'
  <1>t. Current \subseteq Id /\ \A n \in Id : clientsMap[n] \subseteq Id
    BY ServerTypes
  <1> SUFFICES ASSUME NEW k \in Current, NEW m \in Current, m <= k,
                      NEW c \in clientsMap'[m], NEW o \in Objects, Follows(c, o)'
               PROVE  SyncedAt(k, m, c, o)'
    BY DEF Synced
  <1>1. k \in Id /\ m \in Id /\ c \in clientsMap[m] /\ c \in Id
    BY <1>t
  <1>2. SyncedAt(k, m, c, o)
    BY <1>1, FollowsStays DEF Synced
  <1>3. Coming(k, o) => Coming(k, o)'
    <2> SUFFICES ASSUME NEW j \in Id, Handles(j, o), k \in held[Server(j)], ~Sending(j, k)
                 PROVE  Coming(k, o)'
      BY DEF Coming
    <2>1. Untouched(j)
      BY DEF Handles
    <2>2. Handles(j, o)' /\ k \in held'[Server(j)] /\ ~Sending(j, k)'
      BY <1>1, <2>1, UntouchedStays DEF Untouched
    <2> QED  BY <2>2 DEF Coming
  <1>4. Told(k, c, o) => Told(k, c, o)'
    <2> SUFFICES ASSUME NEW j \in Id, Sending(j, k), event[j].obj = o, c \in pending[j]
                 PROVE  Told(k, c, o)'
      BY DEF Told
    <2>1. Untouched(j)
      BY <1>1, SendingReturns
    <2>2. Sending(j, k)' /\ event'[j].obj = o /\ c \in pending'[j]
      BY <1>1, <2>1, UntouchedStays DEF Untouched
    <2> QED  BY <2>2 DEF Told
  <1> QED  BY <1>2, <1>3, <1>4 DEF SyncedAt

LEMMA QuietDelivered ==
  ASSUME TypeOK, Delivered, Current' = Current, \A n \in Current : clientsMap'[n] \subseteq clientsMap[n],
         UNCHANGED received, \A j \in Id : Returning(j)' => Returning(j) /\ Untouched(j)
  PROVE  Delivered'
  <1>t. Current \subseteq Id /\ \A n \in Id : clientsMap[n] \subseteq Id
    BY ServerTypes
  <1> SUFFICES ASSUME NEW j \in Current, NEW m \in Current, m <= j, NEW o \in Objects,
                      Handles(j, o)', m \notin held'[Server(j)] \/ Sending(j, m)',
                      NEW c \in clientsMap'[m], Follows(c, o)'
               PROVE  DeliveredAt(j, m, c, o)'
    BY DEF Delivered
  <1>1. j \in Id /\ m \in Id /\ c \in clientsMap[m] /\ c \in Id
    BY <1>t
  <1>2. Untouched(j)
    BY <1>1 DEF Handles
  <1>3. Handles(j, o) /\ (m \notin held[Server(j)] \/ Sending(j, m)) /\ Follows(c, o)
    BY <1>1, <1>2, UntouchedStays, FollowsStays DEF Untouched
  <1>4. DeliveredAt(j, m, c, o)
    BY <1>1, <1>3 DEF Delivered
  <1> QED  BY <1>1, <1>2, <1>4, UntouchedStays DEF DeliveredAt, Untouched

\* A goroutine in the frame of n: everybody else is untouched.
LEMMA ReturnUntouched ==
  ASSUME TypeOK, LockInv, NEW i \in Id, NEW n \in Id, SkipEvent(i, n) \/ SendDone(i, n)
  PROVE  /\ \A j \in Id \ {i} : Untouched(j)
         /\ event' = event /\ Returning(i) /\ next'[Server(i)] = None
         /\ held'[Server(i)] = held[Server(i)] \ {n} /\ n \in held[Server(i)]
         /\ (\A m \in held[Server(i)] : n <= m) /\ n <= i
         /\ \A m \in Id : ~Sending(i, m)'
         /\ Returning(i)' => n # i
         /\ n # i => Returning(i)'
         /\ Current' = Current /\ UNCHANGED <<clientsMap, processedVersions, received>>
  <1>1. /\ OtherServers(i) /\ ChainSame /\ n \in held[Server(i)] /\ n <= i
        /\ UNCHANGED <<clientsMap, processedVersions, event, received, next>>
        /\ \A j \in Id \ {i} : pending'[j] = pending[j]
        /\ \A m \in held[Server(i)] : n <= m
        /\ held'[Server(i)] = held[Server(i)] \ {n} /\ next[Server(i)] = None
        /\ pc'[Server(i)] = IF n = i THEN "select" ELSE "accept"
        /\ Returning(i)
    BY ReturnFrames
  <1>2. Current' = Current
    BY <1>1, CurrentStays DEF ChainSame
  <1> QED  BY <1>1, <1>2 DEF OtherServers, Untouched, Sending, InFrame, Returning

\* A goroutine that holds a notifier of the chain belongs to the chain.
LEMMA HoldsCurrent ==
  ASSUME TypeOK, FrameInv, NEW i \in Id, NEW n \in Current, n \in held[Server(i)]
  PROVE  i \in Current /\ held[Server(i)] \subseteq Current
  BY DEF FrameInv, FrameOK

LEMMA ComingStays ==
  ASSUME NEW i \in Id, NEW k \in Id, NEW o \in Objects, \A j \in Id \ {i} : Untouched(j), Coming(k, o)
  PROVE  Coming(k, o)' \/ (Handles(i, o) /\ k \in held[Server(i)] /\ ~Sending(i, k))
  <1>1. PICK j \in Id : Handles(j, o) /\ k \in held[Server(j)] /\ ~Sending(j, k)
    BY DEF Coming
  <1>2. CASE j # i
    <2>1. Handles(j, o)' /\ k \in held'[Server(j)] /\ ~Sending(j, k)'
      BY <1>1, <1>2, UntouchedStays DEF Untouched
    <2> QED  BY <2>1 DEF Coming
  <1> QED  BY <1>1, <1>2

LEMMA ToldStays ==
  ASSUME NEW i \in Id, NEW k \in Id, NEW o \in Objects, NEW c \in Id,
         \A j \in Id \ {i} : Untouched(j), Told(k, c, o)
  PROVE  Told(k, c, o)' \/ (Sending(i, k) /\ event[i].obj = o /\ c \in pending[i])
  <1>1. PICK j \in Id : Sending(j, k) /\ event[j].obj = o /\ c \in pending[j]
    BY DEF Told
  <1>2. CASE j # i
    <2>1. Sending(j, k)' /\ event'[j].obj = o /\ c \in pending'[j]
      BY <1>1, <1>2, UntouchedStays DEF Untouched
    <2> QED  BY <2>1 DEF Told
  <1> QED  BY <1>1, <1>2

LEMMA SkipSynced ==
  ASSUME TypeOK, LockInv, Ground, Synced, Delivered, NEW i \in Id, NEW n \in Id, SkipEvent(i, n)
  PROVE  Synced'
  <1>t. /\ Current \subseteq Id /\ \A j \in Id : clientsMap[j] \subseteq Id /\ held[Server(j)] \subseteq Id
    BY ServerTypes
  <1>r. /\ \A j \in Id \ {i} : Untouched(j)
        /\ event' = event /\ Returning(i)
        /\ held'[Server(i)] = held[Server(i)] \ {n} /\ n \in held[Server(i)]
        /\ (\A m \in held[Server(i)] : n <= m) /\ n <= i
        /\ \A m \in Id : ~Sending(i, m)'
        /\ n # i => Returning(i)'
        /\ Current' = Current /\ UNCHANGED <<clientsMap, processedVersions, received>>
    BY ReturnUntouched
  <1>s. pc[Server(i)] = "accept" /\ AlreadyProcessed(n, event[i]) /\ \A m \in Id : ~Sending(i, m)
    BY DEF SkipEvent, InFrame, Sending
  <1>o. \A m \in held[Server(i)] : m <= i
    BY DEF LockInv, OwnRange
  <1> SUFFICES ASSUME NEW k \in Current, NEW m \in Current, m <= k,
                      NEW c \in clientsMap[m], NEW o \in Objects, Follows(c, o)
               PROVE  SyncedAt(k, m, c, o)'
    BY <1>r, <1>t, FollowsStays DEF Synced
  <1>1. k \in Id /\ m \in Id /\ c \in Id /\ SyncedAt(k, m, c, o)
    BY <1>t DEF Synced
  <1>2. CASE processedVersions[k][o].rv \in {0, Known(received[c], o)}
    BY <1>r, <1>2 DEF SyncedAt
  <1>3. CASE m = k /\ Told(k, c, o)
    BY <1>1, <1>3, <1>r, <1>s, ToldStays DEF SyncedAt
  <1>4. CASE m < k /\ Coming(k, o)
    <2>1. CASE Coming(k, o)'
      BY <1>4, <2>1 DEF SyncedAt
    <2>2. CASE Handles(i, o) /\ k \in held[Server(i)] /\ k # n
      <3>1. n # i
        BY <1>o, <1>r, <1>t, <2>2, ConstantsAssumption
      <3>2. Handles(i, o)' /\ k \in held'[Server(i)] /\ ~Sending(i, k)'
        BY <1>1, <1>r, <2>2, <3>1 DEF Handles
      <3>3. Coming(k, o)'
        BY <3>2 DEF Coming
      <3> QED  BY <2>1, <3>3
    <2>3. CASE Handles(i, o) /\ k = n
      <3>1. i \in Current
        BY <1>r, <2>3, HoldsCurrent DEF Ground
      <3>2. m \notin held[Server(i)] /\ m <= i
        BY <1>1, <1>r, <1>t, <1>4, <2>3, ConstantsAssumption
      <3>3. DeliveredAt(i, m, c, o)
        BY <2>3, <3>1, <3>2 DEF Delivered
      <3>4. Known(received[c], o) = event[i].rv
        BY <1>1, <1>s, <3>3 DEF DeliveredAt
      <3>5. processedVersions[n][o].rv = event[i].rv
        BY <1>s, <2>3 DEF AlreadyProcessed, Handles
      <3> QED  BY <1>2, <2>3, <3>4, <3>5
    <2> QED  BY <1>1, <1>4, <1>r, <2>1, <2>2, <2>3, ComingStays
  <1> QED  BY <1>1, <1>2, <1>3, <1>4 DEF SyncedAt

LEMMA SendDoneSynced ==
  ASSUME TypeOK, LockInv, Synced, NEW i \in Id, NEW n \in Id, SendDone(i, n)
  PROVE  Synced'
  <1>t. /\ Current \subseteq Id /\ \A j \in Id : clientsMap[j] \subseteq Id /\ held[Server(j)] \subseteq Id
    BY ServerTypes
  <1>r. /\ \A j \in Id \ {i} : Untouched(j)
        /\ event' = event /\ Returning(i)
        /\ held'[Server(i)] = held[Server(i)] \ {n} /\ n \in held[Server(i)]
        /\ (\A m \in held[Server(i)] : n <= m) /\ n <= i
        /\ \A m \in Id : ~Sending(i, m)'
        /\ n # i => Returning(i)'
        /\ Current' = Current /\ UNCHANGED <<clientsMap, processedVersions, received>>
    BY ReturnUntouched
  <1>s. Sending(i, n) /\ pending[i] \cap clientsMap[n] = {} /\ \A m \in Id : Sending(i, m) => m = n
    <2>1. Sending(i, n) /\ pending[i] \cap clientsMap[n] = {}
      BY DEF SendDone, Sending
    <2>2. ASSUME NEW m \in Id, Sending(i, m) PROVE m = n
      <3>1. m <= n /\ n <= m
        BY <2>1, <2>2 DEF Sending, InFrame
      <3> QED  BY <3>1, ConstantsAssumption
    <2> QED  BY <2>1, <2>2
  <1>o. \A m \in held[Server(i)] : m <= i
    BY DEF LockInv, OwnRange
  <1> SUFFICES ASSUME NEW k \in Current, NEW m \in Current, m <= k,
                      NEW c \in clientsMap[m], NEW o \in Objects, Follows(c, o)
               PROVE  SyncedAt(k, m, c, o)'
    BY <1>r, <1>t, FollowsStays DEF Synced
  <1>1. k \in Id /\ m \in Id /\ c \in Id /\ SyncedAt(k, m, c, o)
    BY <1>t DEF Synced
  <1>2. CASE processedVersions[k][o].rv \in {0, Known(received[c], o)}
    BY <1>r, <1>2 DEF SyncedAt
  <1>3. CASE m = k /\ Told(k, c, o)
    BY <1>1, <1>3, <1>r, <1>s, ToldStays DEF SyncedAt
  <1>4. CASE m < k /\ Coming(k, o)
    <2>1. CASE Coming(k, o)'
      BY <1>4, <2>1 DEF SyncedAt
    <2>2. CASE Handles(i, o) /\ k \in held[Server(i)] /\ ~Sending(i, k)
      <3>1. k # n
        BY <1>s, <2>2
      <3>2. n # i
        BY <1>o, <1>r, <1>t, <2>2, <3>1, ConstantsAssumption
      <3>3. Handles(i, o)' /\ k \in held'[Server(i)] /\ ~Sending(i, k)'
        BY <1>1, <1>r, <2>2, <3>1, <3>2 DEF Handles
      <3>4. Coming(k, o)'
        BY <3>3 DEF Coming
      <3> QED  BY <2>1, <3>4
    <2> QED  BY <1>1, <1>4, <1>r, <2>1, <2>2, ComingStays
  <1> QED  BY <1>1, <1>2, <1>3, <1>4 DEF SyncedAt

\* A new event in the frame of n, for everybody else.
LEMMA ProcessUntouched ==
  ASSUME TypeOK, LockInv, StreamsInv, NEW i \in Id, NEW n \in Id, ProcessEvent(i, n)
  PROVE  /\ \A j \in Id \ {i} : Untouched(j)
         /\ event' = event /\ held' = held /\ Returning(i) /\ Returning(i)'
         /\ n \in held[Server(i)] /\ (\A m \in held[Server(i)] : n <= m) /\ n <= i
         /\ \A m \in Id : ~Sending(i, m) /\ (Sending(i, m)' <=> m = n)
         /\ event[i].obj \in Objects /\ event[i].rv # 0
         /\ pending'[i] = Interested(n, event[i])
         /\ \A m \in Id, o \in Objects :
              processedVersions'[m][o].rv =
                IF m = n /\ o = event[i].obj THEN event[i].rv ELSE processedVersions[m][o].rv
         /\ Current' = Current /\ UNCHANGED <<clientsMap, received>>
  <1>1. /\ ChainSame /\ n \in held[Server(i)] /\ n <= i /\ event[i].type # "BOOKMARK"
        /\ UNCHANGED <<clientsMap, event, received, held, next>>
        /\ \A j \in Id \ {i} : pending'[j] = pending[j] /\ pc'[Server(j)] = pc[Server(j)]
        /\ \A m \in held[Server(i)] : n <= m
        /\ next[Server(i)] = None /\ pc[Server(i)] = "accept" /\ pc'[Server(i)] = "send"
        /\ Returning(i) /\ ~AlreadyProcessed(n, event[i])
        /\ pending'[i] = Interested(n, event[i])
        /\ \A m \in Id, o \in Objects :
             processedVersions'[m][o].rv =
               IF m = n /\ o = event[i].obj THEN event[i].rv ELSE processedVersions[m][o].rv
    BY ProcessFrames
  <1>2. Current' = Current
    BY <1>1, CurrentStays DEF ChainSame
  <1>3. event[i].obj \in Objects /\ event[i].rv # 0
    BY <1>1, InHandOK DEF Working
  <1>4. \A m \in Id : ~Sending(i, m) /\ (Sending(i, m)' <=> m = n)
    <2>1. held[Server(i)] \subseteq Id
      BY ServerTypes
    <2>2. ASSUME NEW m \in Id, Sending(i, m)' PROVE m = n
      <3>1. m \in held[Server(i)] /\ m <= n /\ n <= m
        BY <1>1, <2>2 DEF Sending, InFrame
      <3> QED  BY <3>1, ConstantsAssumption
    <2>3. Sending(i, n)'
      BY <1>1 DEF Sending, InFrame
    <2> QED  BY <1>1, <2>2, <2>3 DEF Sending, InFrame
  <1> QED  BY <1>1, <1>2, <1>3, <1>4 DEF Untouched, Returning

LEMMA ProcessSynced ==
  ASSUME TypeOK, LockInv, Ground, Synced, Delivered, NEW i \in Id, NEW n \in Id, ProcessEvent(i, n)
  PROVE  Synced'
  <1>t. /\ Current \subseteq Id /\ \A j \in Id : clientsMap[j] \subseteq Id /\ held[Server(j)] \subseteq Id
    BY ServerTypes
  <1>r. /\ \A j \in Id \ {i} : Untouched(j)
        /\ event' = event /\ held' = held /\ Returning(i) /\ Returning(i)'
        /\ n \in held[Server(i)] /\ (\A m \in held[Server(i)] : n <= m) /\ n <= i
        /\ \A m \in Id : ~Sending(i, m) /\ (Sending(i, m)' <=> m = n)
        /\ pending'[i] = Interested(n, event[i])
        /\ \A m \in Id, o \in Objects :
             processedVersions'[m][o].rv =
               IF m = n /\ o = event[i].obj THEN event[i].rv ELSE processedVersions[m][o].rv
        /\ Current' = Current /\ UNCHANGED <<clientsMap, received>>
    BY ProcessUntouched DEF Ground
  <1> SUFFICES ASSUME NEW k \in Current, NEW m \in Current, m <= k,
                      NEW c \in clientsMap[m], NEW o \in Objects, Follows(c, o)
               PROVE  SyncedAt(k, m, c, o)'
    BY <1>r, <1>t, FollowsStays DEF Synced
  <1>1. k \in Id /\ m \in Id /\ c \in Id /\ SyncedAt(k, m, c, o)
    BY <1>t DEF Synced
  <1>2. CASE k = n /\ o = event[i].obj /\ m = n
    <2>1. c \in pending'[i]
      BY <1>r, <1>2 DEF Interested, Follows
    <2>2. Told(n, c, o)'
      BY <1>2, <1>r, <2>1 DEF Told
    <2> QED  BY <1>2, <2>2 DEF SyncedAt
  <1>3. CASE k = n /\ o = event[i].obj /\ m # n
    <2>1. i \in Current
      BY <1>3, <1>r, HoldsCurrent DEF Ground
    <2>2. m \notin held[Server(i)] /\ m <= i
      BY <1>1, <1>3, <1>r, <1>t, ConstantsAssumption
    <2>3. Handles(i, o)
      BY <1>3, <1>r DEF Handles
    <2>4. DeliveredAt(i, m, c, o)
      BY <2>1, <2>2, <2>3 DEF Delivered
    <2>5. Known(received[c], o) = event[i].rv
      BY <1>1, <1>r, <2>4 DEF DeliveredAt
    <2> QED  BY <1>1, <1>3, <1>r, <2>5 DEF SyncedAt
  <1>4. CASE ~(k = n /\ o = event[i].obj)
    <2>1. processedVersions'[k][o].rv = processedVersions[k][o].rv
      BY <1>1, <1>4, <1>r
    <2>2. Told(k, c, o) => Told(k, c, o)'
      BY <1>1, <1>r, ToldStays
    <2>3. Coming(k, o) => Coming(k, o)'
      <3> SUFFICES ASSUME Handles(i, o), k \in held[Server(i)] PROVE Coming(k, o)'
        BY <1>1, <1>r, ComingStays
      <3>1. k # n
        BY <1>4 DEF Handles
      <3>2. Handles(i, o)' /\ k \in held'[Server(i)] /\ ~Sending(i, k)'
        BY <1>1, <1>r, <3>1 DEF Handles
      <3> QED  BY <3>2 DEF Coming
    <2> QED  BY <1>1, <1>r, <2>1, <2>2, <2>3 DEF SyncedAt
  <1> QED  BY <1>2, <1>3, <1>4

LEMMA NewestIsCurrent ==
  ASSUME TypeOK, LockInv
  PROVE  /\ currentNotifier # None => currentNotifier \in Current
         /\ \A i \in Current : i \in Id /\ i <= currentNotifier
  <1>1. currentNotifier \in 0 .. MaxWatches
    BY ServerTypes
  <1>2. currentNotifier # None => currentNotifier \in Current
    BY <1>1, ConstantsAssumption DEF Current, Chain
  <1> QED  BY <1>2, CurrentBelow

\* One goroutine is in one frame.
LEMMA OneFrame ==
  ASSUME TypeOK, NEW i \in Id, NEW n \in Id, Sending(i, n)
  PROVE  \A m \in Id : Sending(i, m) => m = n
  <1> SUFFICES ASSUME NEW m \in Id, Sending(i, m) PROVE m = n
    OBVIOUS
  <1>1. m <= n /\ n <= m
    BY DEF Sending, InFrame
  <1> QED  BY <1>1, ConstantsAssumption

\* What a send changes: what client c knows of the object of the event.
LEMMA SendKnown ==
  ASSUME TypeOK, Resolved, LockInv, Superseded, StreamsInv,
         NEW i \in Id, NEW n \in Id, NEW c \in Id, SendOk(i, n, c)
  PROVE  /\ \A d \in Id, o \in Objects : Follows(d, o)' => Follows(d, o)
         /\ \A d \in Id, o \in Objects :
              d # c \/ o # event[i].obj => Known(received'[d], o) = Known(received[d], o)
         /\ event[i].obj \in Objects => Known(received'[c], event[i].obj) = event[i].rv
         /\ \A o \in Objects : o = event[i].obj /\ Follows(c, o)' => i = currentNotifier
  <1>s. /\ Sending(i, n)
        /\ \A d \in Id \ {c} : received'[d] = received[d]
        /\ received'[c] = IF event[i].type = "BOOKMARK" THEN received[c]
                          ELSE Append(received[c], Entry(i, n))
    BY SendFrames
  <1>t. received[c] \in Seq(Received) /\ received'[c] \in Seq(Received) /\ cancelled[i] \in BOOLEAN
    <2>1. TypeOK'
      BY SendOkTypeOK
    <2>2. received' \in [Id -> Seq(Received)]
      BY <2>1 DEF TypeOK, ClientTypeOK
    <2> QED  BY <2>2, Groups DEF ClientTypeOK, NsTypeOK
  <1>h. /\ event[i].type = "BOOKMARK" => event[i].obj \notin Objects
        /\ event[i].type # "BOOKMARK" => event[i].obj \in Objects /\ event[i].rv # 0
    BY <1>s, InHandOK DEF Working, Sending, InFrame
  <1>1. CASE event[i].type = "BOOKMARK"
    BY <1>1, <1>h, <1>s, FollowsStays
  <1>2. CASE event[i].type # "BOOKMARK"
    <2> DEFINE x == Entry(i, n)
               s == received[c]
    <2>1. received'[c] = Append(s, x) /\ x.obj = event[i].obj /\ x.rv = event[i].rv /\ x.late = cancelled[i]
      BY <1>2, <1>s DEF Entry
    <2> HIDE DEF x
    <2>2. /\ Len(s) \in Nat /\ DOMAIN s = 1 .. Len(s) /\ DOMAIN Append(s, x) = 1 .. Len(s) + 1
          /\ Append(s, x)[Len(s) + 1] = x /\ \A j \in 1 .. Len(s) : Append(s, x)[j] = s[j]
      BY <1>t
    <2>3. x \in Received
      <3>1. received'[c][Len(s) + 1] \in Received
        BY <1>t, <2>1, <2>2
      <3> QED  BY <2>1, <2>2, <3>1
    <2>4. \A o \in Objects :
            Known(received'[c], o) = IF x.obj = o THEN x.rv ELSE Known(received[c], o)
      BY <1>t, <2>1, <2>3, KnownAppend
    <2>5. Late(c) \/ cancelled[i] => Late(c)'
      <3>1. ASSUME NEW j \in DOMAIN s, s[j].late PROVE Late(c)'
        <4>1. j \in DOMAIN received'[c] /\ received'[c][j] = s[j]
          BY <2>1, <2>2
        <4> QED  BY <3>1, <4>1 DEF Late
      <3>2. ASSUME cancelled[i] PROVE Late(c)'
        <4>1. Len(s) + 1 \in DOMAIN received'[c] /\ received'[c][Len(s) + 1] = x
          BY <2>1, <2>2
        <4> QED  BY <2>1, <3>2, <4>1 DEF Late
      <3> QED  BY <3>1, <3>2 DEF Late
    <2>6. i = currentNotifier \/ cancelled[i]
      <3>1. pc[Server(i)] # "none"
        BY <1>s DEF Sending, InFrame
      <3> QED  BY <3>1, OthersAreLate
    <2>7. \A d \in Id, o \in Objects : Follows(d, o)' => Follows(d, o)
      <3> SUFFICES ASSUME NEW d \in Id, NEW o \in Objects, Follows(d, o)' PROVE Follows(d, o)
        OBVIOUS
      <3>1. CASE d = c
        BY <2>5, <3>1 DEF Follows
      <3>2. CASE d # c
        BY <1>s, <3>2, FollowsStays
      <3> QED  BY <3>1, <3>2
    <2>8. \A o \in Objects : o = event[i].obj /\ Follows(c, o)' => i = currentNotifier
      BY <2>5, <2>6 DEF Follows
    <2> QED  BY <1>s, <2>1, <2>4, <2>7, <2>8
  <1> QED  BY <1>1, <1>2

\* Nobody else's hand changes in a send.
LEMMA SendHands ==
  ASSUME TypeOK, LockInv, NEW i \in Id, NEW n \in Id, NEW c \in Id, SendOk(i, n, c)
  PROVE  /\ \A j, m \in Id : Sending(j, m)' <=> Sending(j, m)
         /\ \A j \in Id, o \in Objects : Handles(j, o)' <=> Handles(j, o)
         /\ \A j, d \in Id : d \in pending[j] /\ ~(j = i /\ d = c) => d \in pending'[j]
         /\ UNCHANGED <<held, event, processedVersions, clientsMap>> /\ Current' = Current
         /\ Sending(i, n) /\ c \in clientsMap[n] /\ n \in held[Server(i)] /\ Returning(i)
  <1>1. /\ ServerSame /\ ChainSame /\ Sending(i, n) /\ c \in clientsMap[n]
        /\ UNCHANGED <<clientsMap, event, held, next, processedVersions>>
        /\ \A j \in Id \ {i} : pending'[j] = pending[j]
        /\ pending'[i] = pending[i] \ {c}
    BY SendFrames
  <1>2. Current' = Current
    BY <1>1, CurrentStays DEF ChainSame
  <1> QED  BY <1>1, <1>2, SendingReturns DEF ServerSame, Sending, InFrame, Handles, Returning

\* The current connection's goroutine sends in a frame of the chain, and has
\* in hand every notifier of the chain above it.
LEMMA NewestSends ==
  ASSUME TypeOK, LockInv, FrameInv, NEW i \in Id, i = currentNotifier, NEW n \in held[Server(i)]
  PROVE  /\ i \in Current /\ n \in Current
         /\ \A k \in Current : n <= k => k \in held[Server(i)]
  <1>1. i \in Current /\ \A k \in Current : k \in Id /\ k <= i
    BY NewestIsCurrent, ConstantsAssumption
  <1>2. n \in Id
    BY ServerTypes
  <1>3. /\ held[Server(i)] \subseteq Current
        /\ \A k \in Current : k <= i /\ k \notin held[Server(i)] => k < n
    BY <1>1 DEF FrameInv, FrameOK
  <1>4. ASSUME NEW k \in Current, n <= k PROVE k \in held[Server(i)]
    <2>1. ~(k < n)
      BY <1>1, <1>2, <1>4, ConstantsAssumption
    <2> QED  BY <1>1, <1>3, <2>1
  <1> QED  BY <1>1, <1>3, <1>4

LEMMA SendOkSynced ==
  ASSUME TypeOK, Resolved, LockInv, Ground, Synced,
         NEW i \in Id, NEW n \in Id, NEW c \in Id, SendOk(i, n, c)
  PROVE  Synced'
  <1>t. /\ Current \subseteq Id /\ \A j \in Id : clientsMap[j] \subseteq Id
    BY ServerTypes
  <1>k. /\ \A d \in Id, o \in Objects : Follows(d, o)' => Follows(d, o)
        /\ \A d \in Id, o \in Objects :
             d # c \/ o # event[i].obj => Known(received'[d], o) = Known(received[d], o)
        /\ event[i].obj \in Objects => Known(received'[c], event[i].obj) = event[i].rv
        /\ \A o \in Objects : o = event[i].obj /\ Follows(c, o)' => i = currentNotifier
    BY SendKnown DEF Ground
  <1>h. /\ \A j, m \in Id : Sending(j, m)' <=> Sending(j, m)
        /\ \A j \in Id, o \in Objects : Handles(j, o)' <=> Handles(j, o)
        /\ \A j, d \in Id : d \in pending[j] /\ ~(j = i /\ d = c) => d \in pending'[j]
        /\ UNCHANGED <<held, event, processedVersions, clientsMap>> /\ Current' = Current
        /\ Sending(i, n) /\ c \in clientsMap[n] /\ n \in held[Server(i)] /\ Returning(i)
    BY SendHands
  <1> SUFFICES ASSUME NEW k \in Current, NEW m \in Current, m <= k,
                      NEW d \in clientsMap[m], NEW o \in Objects, Follows(d, o)'
               PROVE  SyncedAt(k, m, d, o)'
    BY <1>h DEF Synced
  <1>1. k \in Id /\ m \in Id /\ d \in Id /\ SyncedAt(k, m, d, o)
    BY <1>k, <1>t DEF Synced
  <1>2. CASE d = c /\ o = event[i].obj
    <2>1. i = currentNotifier
      BY <1>2, <1>k
    <2>2. n \in Current /\ \A j \in Current : n <= j => j \in held[Server(i)]
      BY <1>h, <2>1, NewestSends DEF Ground
    <2>3. m = n
      BY <1>2, <1>h, <2>2 DEF Ground, OneOwner
    <2>4. CASE k = n
      <3>1. processedVersions[n][o].rv = event[i].rv
        BY <1>2, <1>h DEF Ground, SendInv
      <3> QED  BY <1>2, <1>h, <1>k, <2>4, <3>1 DEF SyncedAt
    <2>5. CASE k # n
      <3>1. m < k
        BY <1>1, <2>3, <2>5, ConstantsAssumption
      <3>2. k \in held[Server(i)]
        BY <2>2, <2>3
      <3>3. ~Sending(i, k)
        BY <1>1, <1>h, <2>5, OneFrame
      <3>4. Handles(i, o)
        BY <1>2, <1>h DEF Handles
      <3>5. Coming(k, o)'
        BY <1>1, <1>h, <3>2, <3>3, <3>4 DEF Coming
      <3> QED  BY <3>1, <3>5 DEF SyncedAt
    <2> QED  BY <2>4, <2>5
  <1>3. CASE ~(d = c /\ o = event[i].obj)
    <2>1. Known(received'[d], o) = Known(received[d], o)
      BY <1>1, <1>3, <1>k
    <2>2. Coming(k, o) => Coming(k, o)'
      BY <1>1, <1>h DEF Coming
    <2>3. Told(k, d, o) => Told(k, d, o)'
      <3> SUFFICES ASSUME NEW j \in Id, Sending(j, k), event[j].obj = o, d \in pending[j]
                   PROVE  Told(k, d, o)'
        BY DEF Told
      <3>1. d \in pending'[j]
        BY <1>1, <1>3, <1>h
      <3> QED  BY <1>1, <1>h, <3>1 DEF Told
    <2> QED  BY <1>1, <1>h, <2>1, <2>2, <2>3 DEF SyncedAt
  <1> QED  BY <1>2, <1>3

\* A BOOKMARK in the frame of notifier i, for everybody else.
LEMMA DrainHands ==
  ASSUME TypeOK, LockInv, LinkInv, StreamsInv, NEW i \in Id, DrainBookmark(i)
  PROVE  /\ \A j \in Id \ {i} : Untouched(j) /\ i \notin held[Server(j)]
         /\ UNCHANGED <<held, event, received>> /\ Returning(i) /\ event[i].obj \notin Objects
         /\ held[Server(i)] = {i}
         /\ \A n \in Id \ {i} : /\ processedVersions'[n] = processedVersions[n]
                                /\ clientsMap'[n] = clientsMap[n]
         /\ \A o \in Objects : processedVersions'[i][o].rv \in {0, processedVersions[i][o].rv}
         /\ \/ i \notin Current /\ Current' = Current
            \/ /\ i \in Current /\ Current' = {n \in Current : n >= i}
               /\ \A c \in clientsMap'[i] : \E n \in Current : n <= i /\ c \in clientsMap[n]
  <1>1. /\ OtherServers(i) /\ UNCHANGED <<held, next, event, received>>
        /\ held[Server(i)] = {i} /\ pc[Server(i)] = "accept"
        /\ event[i].type = "BOOKMARK" /\ Returning(i)
        /\ \A j \in Id \ {i} : pending'[j] = pending[j]
        /\ \A j \in Id \ {i} : i \notin held[Server(j)]
    BY DrainFrames
  <1>2. event[i].obj \notin Objects
    BY <1>1, InHandOK DEF Working
  <1>3. /\ \A n \in Id \ {i} : processedVersions'[n] = processedVersions[n]
        /\ \A o \in Objects : processedVersions'[i][o].rv \in {0, processedVersions[i][o].rv}
    <2>1. processedVersions \in [Id -> [Objects -> [rv : Nat, type : EventTypes \cup {"none"}]]]
      BY Groups DEF NotifierTypeOK
    <2>2. processedVersions' = [processedVersions EXCEPT ![i] =
            [o \in Objects |-> IF @[o].type = "DELETED" THEN NotProcessed ELSE @[o]]]
      BY DEF DrainBookmark
    <2>3. \A o \in Objects : processedVersions'[i][o] =
            IF processedVersions[i][o].type = "DELETED" THEN NotProcessed ELSE processedVersions[i][o]
      BY <2>1, <2>2
    <2> QED  BY <2>1, <2>2, <2>3 DEF NotProcessed
  <1>4. /\ clientsMap'[i] = UNION {clientsMap[n] : n \in Chain(i)}
        /\ \A n \in Id \ {i} : clientsMap'[n] = clientsMap[n]
        /\ \/ i \notin Current /\ Current' = Current
           \/ /\ i \in Current /\ Current' = {n \in Current : n >= i}
              /\ \A n \in Id : n \in Chain(i) <=> n \in Current /\ n <= i
    BY DrainCurrent
  <1>5. \A n \in Chain(i) : n \in Id
    BY DEF Chain
  <1> QED  BY <1>1, <1>2, <1>3, <1>4, <1>5 DEF OtherServers, Untouched

LEMMA DrainSynced ==
  ASSUME TypeOK, LockInv, LinkInv, Ground, Synced, NEW i \in Id, DrainBookmark(i)
  PROVE  Synced'
  <1>t. /\ Current \subseteq Id /\ \A j \in Id : clientsMap[j] \subseteq Id
    BY ServerTypes
  <1>h. /\ \A j \in Id \ {i} : Untouched(j) /\ i \notin held[Server(j)]
        /\ UNCHANGED <<held, event, received>> /\ Returning(i) /\ event[i].obj \notin Objects
        /\ held[Server(i)] = {i}
        /\ \A n \in Id \ {i} : /\ processedVersions'[n] = processedVersions[n]
                               /\ clientsMap'[n] = clientsMap[n]
        /\ \A o \in Objects : processedVersions'[i][o].rv \in {0, processedVersions[i][o].rv}
        /\ \/ i \notin Current /\ Current' = Current
           \/ /\ i \in Current /\ Current' = {n \in Current : n >= i}
              /\ \A c \in clientsMap'[i] : \E n \in Current : n <= i /\ c \in clientsMap[n]
    BY DrainHands DEF Ground
  <1> SUFFICES ASSUME NEW k \in Current', NEW m \in Current', m <= k,
                      NEW c \in clientsMap'[m], NEW o \in Objects, Follows(c, o)'
               PROVE  SyncedAt(k, m, c, o)'
    BY DEF Synced
  <1>1. k \in Current /\ m \in Current /\ k \in Id /\ m \in Id
    BY <1>h, <1>t
  <1>2. Coming(k, o) => Coming(k, o)'
    BY <1>1, <1>h, ComingStays DEF Handles
  <1>3. ASSUME c \in Id, Told(k, c, o) PROVE Told(k, c, o)'
    <2>1. event[i].obj # o
      BY <1>h
    <2>2. \A j \in Id \ {i} : Untouched(j)
      BY <1>h
    <2>3. Told(k, c, o)' \/ (Sending(i, k) /\ event[i].obj = o /\ c \in pending[i])
      BY <1>1, <1>3, <2>2, ToldStays
    <2> QED  BY <2>1, <2>3
  <1>4. CASE m # i
    <2>1. c \in clientsMap[m] /\ c \in Id
      BY <1>1, <1>4, <1>h, <1>t
    <2>2. SyncedAt(k, m, c, o)
      BY <1>1, <1>h, <2>1, FollowsStays DEF Synced
    <2>3. processedVersions'[k][o].rv \in {0, processedVersions[k][o].rv}
      BY <1>1, <1>h
    <2> QED  BY <1>2, <1>3, <1>h, <2>1, <2>2, <2>3 DEF SyncedAt
  <1>5. CASE m = i
    <2>1. PICK n \in Current : n <= i /\ c \in clientsMap[n]
      BY <1>1, <1>5, <1>h
    <2>2. n \in Id /\ c \in Id /\ n <= k
      BY <1>1, <1>5, <1>t, <2>1, ConstantsAssumption
    <2>3. SyncedAt(k, n, c, o)
      BY <1>1, <1>h, <2>1, <2>2, FollowsStays DEF Synced
    <2>4. CASE k = i
      <3>1. ~Coming(k, o)
        <4> SUFFICES ASSUME NEW j \in Id, Handles(j, o), k \in held[Server(j)] PROVE FALSE
          BY DEF Coming
        <4>1. j = i
          BY <1>h, <2>4
        <4> QED  BY <1>h, <4>1 DEF Handles
      <3>2. ~Told(k, c, o)
        <4> SUFFICES ASSUME NEW j \in Id, Sending(j, k), event[j].obj = o PROVE FALSE
          BY DEF Told
        <4>1. k \in held[Server(j)]
          BY <1>1, SendingReturns
        <4>2. j = i
          BY <1>h, <2>4, <4>1
        <4> QED  BY <1>h, <4>2
      <3>3. processedVersions[k][o].rv \in {0, Known(received[c], o)}
        BY <2>3, <3>1, <3>2 DEF SyncedAt
      <3>4. processedVersions'[k][o].rv \in {0, processedVersions[k][o].rv}
        BY <1>h, <2>4
      <3> QED  BY <1>h, <3>3, <3>4 DEF SyncedAt
    <2>5. CASE k # i
      <3>1. m < k /\ n # k
        BY <1>1, <1>5, <2>1, <2>2, <2>5, ConstantsAssumption
      <3>2. processedVersions'[k][o].rv = processedVersions[k][o].rv
        BY <1>1, <1>h, <2>5
      <3> QED  BY <1>2, <1>h, <2>3, <3>1, <3>2 DEF SyncedAt
    <2> QED  BY <2>4, <2>5
  <1> QED  BY <1>4, <1>5

\* A new notifier remembers nothing yet.
LEMMA WatchHands ==
  ASSUME TypeOK, LockInv, WatchSucceed
  PROVE  \E w \in Id :
           /\ w > currentNotifier /\ w \notin Current /\ Current' = {w} \cup Current
           /\ \A j \in Id \ {w} : Untouched(j)
           /\ ~Returning(w) /\ ~Returning(w)'
           /\ UNCHANGED <<processedVersions, received, held, event>>
           /\ \A n \in Current : clientsMap'[n] = clientsMap[n] /\ n < w
  <1>1. PICK w \in Id : w = clientCount
    BY WatchFrames
  <1>2. /\ currentNotifier < w /\ OtherServers(w)
        /\ UNCHANGED <<held, next, event, pending, received, processedVersions>>
        /\ pc[Server(w)] = "none" /\ pc'[Server(w)] = "select"
    BY <1>1, WatchFrames
  <1>3. /\ w \notin Current /\ Current' = {w} \cup Current
        /\ \A n \in Current : clientsMap'[n] = clientsMap[n]
    BY <1>1, WatchExtends
  <1>4. w > currentNotifier /\ \A n \in Current : n < w
    <2>1. \A n \in Current : n \in Id /\ n <= currentNotifier
      BY NewestIsCurrent
    <2>2. currentNotifier \in 0 .. MaxWatches
      BY ServerTypes
    <2> QED  BY <1>2, <2>1, <2>2, ConstantsAssumption
  <1>5. ~Returning(w) /\ ~Returning(w)'
    BY <1>2 DEF Returning
  <1> QED  BY <1>2, <1>3, <1>4, <1>5 DEF OtherServers, Untouched

LEMMA WatchSynced ==
  ASSUME TypeOK, LockInv, Ground, Synced, WatchSucceed
  PROVE  Synced'
  <1>t. /\ Current \subseteq Id /\ \A j \in Id : clientsMap[j] \subseteq Id
    BY ServerTypes
  <1>w. PICK w \in Id :
           /\ w > currentNotifier /\ w \notin Current /\ Current' = {w} \cup Current
           /\ \A j \in Id \ {w} : Untouched(j)
           /\ ~Returning(w)
           /\ UNCHANGED <<processedVersions, received, held, event>>
           /\ \A n \in Current : clientsMap'[n] = clientsMap[n] /\ n < w
    BY WatchHands
  <1> SUFFICES ASSUME NEW k \in Current', NEW m \in Current', m <= k,
                      NEW c \in clientsMap'[m], NEW o \in Objects, Follows(c, o)'
               PROVE  SyncedAt(k, m, c, o)'
    BY DEF Synced
  <1>1. CASE k = w
    <2>1. processedVersions[w][o].rv = 0
      BY <1>w DEF Ground, Fresh
    <2> QED  BY <1>1, <1>w, <2>1 DEF SyncedAt
  <1>2. CASE k # w
    <2>1. k \in Current /\ k \in Id /\ k < w
      BY <1>2, <1>t, <1>w
    <2>2. m # w
      BY <2>1, ConstantsAssumption
    <2>3. m \in Current /\ m \in Id /\ c \in clientsMap[m] /\ c \in Id
      BY <1>t, <1>w, <2>2
    <2>4. SyncedAt(k, m, c, o)
      BY <1>w, <2>1, <2>3, FollowsStays DEF Synced
    <2>5. Coming(k, o) => Coming(k, o)'
      BY <1>w, <2>1, ComingStays DEF Handles
    <2>6. Told(k, c, o) => Told(k, c, o)'
      BY <1>w, <2>1, <2>3, ToldStays, SendingReturns
    <2> QED  BY <1>w, <2>4, <2>5, <2>6 DEF SyncedAt
  <1> QED  BY <1>1, <1>2

LEMMA NextSynced ==
  ASSUME TypeOK, Resolved, LockInv, LinkInv, Ground, Synced, Delivered, [Next]_vars, Timely
  PROVE  Synced'
  <1>1. CASE Streams \/ Aside
    <2>1. Calm
      BY <1>1, AsideIsCalm
    <2>2. Current' = Current
      BY <2>1, CurrentStays DEF Calm, ChainSame
    <2>3. \A j \in Id : Untouched(j)
      BY <2>1 DEF Calm, ServerSame, Untouched
    <2> QED  BY <2>1, <2>2, <2>3, QuietSynced DEF Calm
  <1>2. CASE \E s \in StopKinds, c \in Id : DeleteClient(s, c)
    <2>1. /\ ServerSame /\ ChainSame
          /\ UNCHANGED <<processedVersions, event, pending, received>>
          /\ \A n \in Id : clientsMap'[n] \subseteq clientsMap[n]
      BY <1>2, DeleteClientFrames
    <2>2. Current' = Current /\ \A n \in Current : clientsMap'[n] \subseteq clientsMap[n]
      BY <2>1, CurrentStays, CurrentIds DEF ChainSame
    <2>3. \A j \in Id : Untouched(j)
      BY <2>1 DEF ServerSame, Untouched
    <2> QED  BY <2>1, <2>2, <2>3, QuietSynced
  <1>3. ASSUME NEW k \in Id, Descend(Server(k)) PROVE Synced'
    <2>1. /\ ChainSame /\ OtherServers(k)
          /\ UNCHANGED <<clientsMap, processedVersions, event, pending, received>>
          /\ next[Server(k)] \in Id
      BY <1>3, DescendFrames
    <2>2. Current' = Current /\ \A n \in Current : clientsMap'[n] \subseteq clientsMap[n]
      BY <2>1, CurrentStays DEF ChainSame
    <2>3. \A j \in Id : Returning(j) => Untouched(j)
      BY <2>1, ConstantsAssumption DEF OtherServers, Untouched, Returning
    <2> QED  BY <2>1, <2>2, <2>3, QuietSynced
  <1>4. ASSUME NEW k \in Id, Moves(k) PROVE Synced'
    <2>1. /\ OtherServers(k) /\ ChainSame
          /\ UNCHANGED <<processedVersions, pending, received>>
          /\ \A n \in Id : clientsMap'[n] \subseteq clientsMap[n]
          /\ \A j \in Id \ {k} : event'[j] = event[j]
          /\ ~Returning(k)
      BY <1>4, MovesFrames
    <2>2. Current' = Current /\ \A n \in Current : clientsMap'[n] \subseteq clientsMap[n]
      BY <2>1, CurrentStays, CurrentIds DEF ChainSame
    <2>3. \A j \in Id : Returning(j) => Untouched(j)
      BY <2>1 DEF OtherServers, Untouched
    <2> QED  BY <2>1, <2>2, <2>3, QuietSynced
  <1>5. CASE WatchSucceed
    BY <1>5, WatchSynced
  <1>6. ASSUME NEW k \in Id, DrainBookmark(k) PROVE Synced'
    BY <1>6, DrainSynced
  <1>7. ASSUME NEW k \in Id, NEW n \in Id, SkipEvent(k, n) \/ ProcessEvent(k, n) \/ SendDone(k, n)
        PROVE  Synced'
    BY <1>7, SkipSynced, ProcessSynced, SendDoneSynced
  <1>8. ASSUME NEW k \in Id, NEW n \in Id, NEW c \in Id, SendOk(k, n, c) PROVE Synced'
    BY <1>8, SendOkSynced
  <1> QED
    BY DeliverySteps, <1>1, <1>2, <1>3, <1>4, <1>5, <1>6, <1>7, <1>8

LEMMA DescendDelivered ==
  ASSUME TypeOK, LockInv, LinkInv, Ground, Delivered, Timely, [Next]_vars,
         NEW i \in Id, Descend(Server(i))
  PROVE  Delivered'
  <1>t. Current \subseteq Id /\ \A j \in Id : clientsMap[j] \subseteq Id
    BY ServerTypes
  <1>h. /\ ChainSame /\ OtherServers(i) /\ pc' = pc
        /\ UNCHANGED <<clientsMap, processedVersions, event, pending, received>>
        /\ next[Server(i)] \in Id /\ held'[Server(i)] = held[Server(i)] \cup {next[Server(i)]}
        /\ next'[Server(i)] = IF pc[Server(i)] = "accept" /\ event[i].type = "BOOKMARK"
                              THEN None ELSE previousNotifier[next[Server(i)]]
    BY DescendFrames
  <1>c. Current' = Current
    BY <1>h, CurrentStays DEF ChainSame
  <1> SUFFICES ASSUME NEW j \in Current, NEW m \in Current, m <= j, NEW o \in Objects,
                      Handles(j, o)', m \notin held'[Server(j)] \/ Sending(j, m)',
                      NEW c \in clientsMap[m], Follows(c, o)'
               PROVE  DeliveredAt(j, m, c, o)'
    BY <1>c, <1>h DEF Delivered
  <1>1. j \in Id /\ m \in Id /\ c \in Id
    BY <1>t
  <1>2. CASE j # i
    <2>1. Untouched(j)
      BY <1>1, <1>2, <1>h DEF OtherServers, Untouched
    <2>2. Handles(j, o) /\ (m \notin held[Server(j)] \/ Sending(j, m)) /\ Follows(c, o)
      BY <1>1, <1>h, <2>1, UntouchedStays, FollowsStays DEF Untouched
    <2>3. DeliveredAt(j, m, c, o)
      BY <2>2 DEF Delivered
    <2> QED  BY <1>1, <1>h, <2>1, <2>3, UntouchedStays DEF DeliveredAt, Untouched
  <1>3. CASE j = i
    <2> DEFINE x == next[Server(i)]
    <2>1. pc[Server(i)] = "accept"
      <3>1. pc[Server(i)] # "send"
        BY <1>h, ConstantsAssumption DEF Ground, OwnFrame
      <3> QED  BY <1>3, <1>h, <3>1 DEF Handles, Returning
    <2>2. event[i].type # "BOOKMARK"
      <3>1. event[i].obj \in Objects
        BY <1>3, <1>h DEF Handles
      <3>2. Working(i)
        BY <2>1 DEF Working
      <3> QED  BY <3>1, <3>2, InHandOK DEF Ground
    <2>3. previousNotifier[x] = None
      BY <1>3, <1>h, <2>1, <2>2 DEF Handles, Returning
    <2>4. x \in Current
      <3>1. x # None
        BY <1>h, ConstantsAssumption
      <3> QED  BY <1>3, <3>1 DEF Ground, FrameInv, FrameOK
    <2>5. \A n \in Current : n >= x
      BY <2>3, <2>4, CurrentGap
    <2>6. m \notin held'[Server(i)]
      BY <1>3, <1>h, <2>1 DEF Sending, InFrame
    <2>7. m < x
      <3>1. FrameInv'
        BY NextFrameInv DEF Ground
      <3>2. x \in held'[Server(i)]
        BY <1>h
      <3> QED  BY <1>1, <1>3, <1>c, <2>6, <3>1, <3>2 DEF FrameInv, FrameOK
    <2> QED  BY <1>1, <1>h, <2>5, <2>7, ConstantsAssumption
  <1> QED  BY <1>2, <1>3

LEMMA WatchDelivered ==
  ASSUME TypeOK, LockInv, Delivered, WatchSucceed
  PROVE  Delivered'
  <1>t. /\ Current \subseteq Id /\ \A j \in Id : clientsMap[j] \subseteq Id
    BY ServerTypes
  <1>w. PICK w \in Id :
           /\ w > currentNotifier /\ w \notin Current /\ Current' = {w} \cup Current
           /\ \A j \in Id \ {w} : Untouched(j)
           /\ ~Returning(w) /\ ~Returning(w)'
           /\ UNCHANGED <<processedVersions, received, held, event>>
           /\ \A n \in Current : clientsMap'[n] = clientsMap[n] /\ n < w
    BY WatchHands
  <1> SUFFICES ASSUME NEW j \in Current', NEW m \in Current', m <= j, NEW o \in Objects,
                      Handles(j, o)', m \notin held'[Server(j)] \/ Sending(j, m)',
                      NEW c \in clientsMap'[m], Follows(c, o)'
               PROVE  DeliveredAt(j, m, c, o)'
    BY DEF Delivered
  <1>1. j # w
    BY <1>w DEF Handles
  <1>2. j \in Current /\ j \in Id /\ j < w
    BY <1>1, <1>t, <1>w
  <1>3. m # w
    BY <1>2, ConstantsAssumption
  <1>4. m \in Current /\ m \in Id /\ c \in clientsMap[m] /\ c \in Id
    BY <1>3, <1>t, <1>w
  <1>5. Untouched(j)
    BY <1>1, <1>2, <1>w
  <1>6. Handles(j, o) /\ (m \notin held[Server(j)] \/ Sending(j, m)) /\ Follows(c, o)
    BY <1>2, <1>4, <1>5, <1>w, UntouchedStays, FollowsStays DEF Untouched
  <1>7. DeliveredAt(j, m, c, o)
    BY <1>2, <1>4, <1>6 DEF Delivered
  <1> QED  BY <1>2, <1>4, <1>5, <1>7, <1>w, UntouchedStays DEF DeliveredAt, Untouched

\* For the goroutines that the step does not touch.
LEMMA OthersDelivered ==
  ASSUME TypeOK, Delivered, NEW j \in Current, NEW m \in Current, m <= j, NEW o \in Objects,
         NEW c \in clientsMap[m], Untouched(j), Handles(j, o)',
         m \notin held'[Server(j)] \/ Sending(j, m)', Follows(c, o)', UNCHANGED received
  PROVE  DeliveredAt(j, m, c, o)'
  <1>1. j \in Id /\ m \in Id /\ c \in Id
    BY ServerTypes
  <1>2. Handles(j, o) /\ (m \notin held[Server(j)] \/ Sending(j, m)) /\ Follows(c, o)
    BY <1>1, UntouchedStays, FollowsStays DEF Untouched
  <1>3. DeliveredAt(j, m, c, o)
    BY <1>2 DEF Delivered
  <1> QED  BY <1>1, <1>3, UntouchedStays DEF DeliveredAt, Untouched

\* What notifier n remembers of an object, its clients know.
LEMMA SkipKnown ==
  ASSUME TypeOK, LockInv, Ground, Synced, NEW i \in Id, NEW n \in Current, SkipEvent(i, n),
         NEW c \in clientsMap[n], NEW o \in Objects, Follows(c, o), event[i].obj = o
  PROVE  Known(received[c], o) = event[i].rv
  <1>1. n \in Id
    BY CurrentIds
  <1>2. /\ pc[Server(i)] = "accept" /\ AlreadyProcessed(n, event[i]) /\ event[i].type # "BOOKMARK"
        /\ n \in held[Server(i)]
    BY DEF SkipEvent, InFrame
  <1>3. event[i].rv # 0
    BY <1>2, InHandOK DEF Working, Ground
  <1>4. SyncedAt(n, n, c, o)
    BY <1>1 DEF Synced
  <1>5. ~Told(n, c, o)
    <2> SUFFICES ASSUME NEW k \in Id, Sending(k, n) PROVE FALSE
      BY DEF Told
    <2>1. n \in held[Server(k)]
      BY <1>1, SendingReturns
    <2>2. k = i
      BY <1>1, <1>2, <2>1, OneHolder
    <2> QED  BY <1>2, <2>2 DEF Sending, InFrame
  <1>6. processedVersions[n][o].rv \in {0, Known(received[c], o)}
    BY <1>1, <1>4, <1>5 DEF SyncedAt
  <1>7. processedVersions[n][o].rv = event[i].rv
    BY <1>2 DEF AlreadyProcessed
  <1> QED  BY <1>3, <1>6, <1>7

LEMMA SkipDelivered ==
  ASSUME TypeOK, LockInv, Ground, Synced, Delivered, NEW i \in Id, NEW n \in Id, SkipEvent(i, n)
  PROVE  Delivered'
  <1>t. /\ Current \subseteq Id /\ \A j \in Id : clientsMap[j] \subseteq Id
    BY ServerTypes
  <1>r. /\ \A j \in Id \ {i} : Untouched(j)
        /\ event' = event /\ Returning(i)
        /\ held'[Server(i)] = held[Server(i)] \ {n} /\ n \in held[Server(i)] /\ n <= i
        /\ \A m \in Id : ~Sending(i, m)'
        /\ Current' = Current /\ UNCHANGED <<clientsMap, processedVersions, received>>
    BY ReturnUntouched
  <1>s. AlreadyProcessed(n, event[i]) /\ (\A m \in Id : ~Sending(i, m)) /\ event[i].rv # 0
    <2>1. pc[Server(i)] = "accept" /\ AlreadyProcessed(n, event[i]) /\ event[i].type # "BOOKMARK"
      BY DEF SkipEvent, InFrame
    <2>2. event[i].rv # 0
      BY <2>1, InHandOK DEF Working, Ground
    <2> QED  BY <2>1, <2>2 DEF Sending, InFrame
  <1> SUFFICES ASSUME NEW j \in Current, NEW m \in Current, m <= j, NEW o \in Objects,
                      Handles(j, o)', m \notin held'[Server(j)] \/ Sending(j, m)',
                      NEW c \in clientsMap[m], Follows(c, o)'
               PROVE  DeliveredAt(j, m, c, o)'
    BY <1>r DEF Delivered
  <1>1. j \in Id /\ m \in Id /\ c \in Id /\ Follows(c, o)
    BY <1>r, <1>t, FollowsStays
  <1>2. CASE j # i
    BY <1>1, <1>2, <1>r, OthersDelivered
  <1>3. CASE j = i /\ m # n
    <2>1. Handles(i, o) /\ m \notin held[Server(i)]
      BY <1>1, <1>3, <1>r DEF Handles
    <2>2. DeliveredAt(i, m, c, o)
      BY <1>1, <1>3, <2>1 DEF Delivered
    <2> QED  BY <1>1, <1>3, <1>r, <1>s, <2>2 DEF DeliveredAt
  <1>4. CASE j = i /\ m = n
    <2>1. event[i].obj = o
      BY <1>4, <1>r DEF Handles
    <2>2. Known(received[c], o) = event[i].rv
      BY <1>1, <1>4, <2>1, SkipKnown
    <2> QED  BY <1>4, <1>r, <2>2 DEF DeliveredAt
  <1> QED  BY <1>2, <1>3, <1>4

LEMMA SendDoneDelivered ==
  ASSUME TypeOK, LockInv, Delivered, NEW i \in Id, NEW n \in Id, SendDone(i, n)
  PROVE  Delivered'
  <1>t. /\ Current \subseteq Id /\ \A j \in Id : clientsMap[j] \subseteq Id
    BY ServerTypes
  <1>r. /\ \A j \in Id \ {i} : Untouched(j)
        /\ event' = event /\ Returning(i)
        /\ held'[Server(i)] = held[Server(i)] \ {n} /\ n \in held[Server(i)] /\ n <= i
        /\ \A m \in Id : ~Sending(i, m)'
        /\ Current' = Current /\ UNCHANGED <<clientsMap, processedVersions, received>>
    BY ReturnUntouched
  <1>s. Sending(i, n) /\ pending[i] \cap clientsMap[n] = {}
    BY DEF SendDone, Sending
  <1> SUFFICES ASSUME NEW j \in Current, NEW m \in Current, m <= j, NEW o \in Objects,
                      Handles(j, o)', m \notin held'[Server(j)] \/ Sending(j, m)',
                      NEW c \in clientsMap[m], Follows(c, o)'
               PROVE  DeliveredAt(j, m, c, o)'
    BY <1>r DEF Delivered
  <1>1. j \in Id /\ m \in Id /\ c \in Id /\ Follows(c, o)
    BY <1>r, <1>t, FollowsStays
  <1>2. CASE j # i
    BY <1>1, <1>2, <1>r, OthersDelivered
  <1>3. CASE j = i
    <2>1. Handles(i, o) /\ (m = n \/ m \notin held[Server(i)])
      BY <1>1, <1>3, <1>r DEF Handles
    <2>2. DeliveredAt(i, m, c, o)
      BY <1>1, <1>3, <1>s, <2>1 DEF Delivered
    <2>3. ~(Sending(i, m) /\ c \in pending[i])
      BY <1>1, <1>s, OneFrame
    <2> QED  BY <1>3, <1>r, <2>2, <2>3 DEF DeliveredAt
  <1> QED  BY <1>2, <1>3

LEMMA ProcessDelivered ==
  ASSUME TypeOK, LockInv, Ground, Delivered, NEW i \in Id, NEW n \in Id, ProcessEvent(i, n)
  PROVE  Delivered'
  <1>t. /\ Current \subseteq Id /\ \A j \in Id : clientsMap[j] \subseteq Id
    BY ServerTypes
  <1>r. /\ \A j \in Id \ {i} : Untouched(j)
        /\ event' = event /\ held' = held /\ Returning(i)
        /\ \A m \in Id : ~Sending(i, m) /\ (Sending(i, m)' <=> m = n)
        /\ pending'[i] = Interested(n, event[i])
        /\ Current' = Current /\ UNCHANGED <<clientsMap, received>>
    BY ProcessUntouched DEF Ground
  <1> SUFFICES ASSUME NEW j \in Current, NEW m \in Current, m <= j, NEW o \in Objects,
                      Handles(j, o)', m \notin held'[Server(j)] \/ Sending(j, m)',
                      NEW c \in clientsMap[m], Follows(c, o)'
               PROVE  DeliveredAt(j, m, c, o)'
    BY <1>r DEF Delivered
  <1>1. j \in Id /\ m \in Id /\ c \in Id /\ Follows(c, o)
    BY <1>r, <1>t, FollowsStays
  <1>2. CASE j # i
    BY <1>1, <1>2, <1>r, OthersDelivered
  <1>3. CASE j = i /\ m # n
    <2>1. Handles(i, o) /\ m \notin held[Server(i)]
      BY <1>1, <1>3, <1>r DEF Handles
    <2>2. DeliveredAt(i, m, c, o)
      BY <1>1, <1>3, <2>1 DEF Delivered
    <2> QED  BY <1>1, <1>3, <1>r, <2>2 DEF DeliveredAt
  <1>4. CASE j = i /\ m = n
    <2>1. event[i].obj = o
      BY <1>4, <1>r DEF Handles
    <2>2. c \in pending'[i]
      BY <1>1, <1>4, <1>r, <2>1 DEF Interested, Follows
    <2> QED  BY <1>1, <1>4, <1>r, <2>2 DEF DeliveredAt
  <1> QED  BY <1>2, <1>3, <1>4

LEMMA SendOkDelivered ==
  ASSUME TypeOK, Resolved, LockInv, Ground, Delivered,
         NEW i \in Id, NEW n \in Id, NEW c \in Id, SendOk(i, n, c)
  PROVE  Delivered'
  <1>t. /\ Current \subseteq Id /\ \A j \in Id : clientsMap[j] \subseteq Id
    BY ServerTypes
  <1>k. /\ \A d \in Id, o \in Objects : Follows(d, o)' => Follows(d, o)
        /\ \A d \in Id, o \in Objects :
             d # c \/ o # event[i].obj => Known(received'[d], o) = Known(received[d], o)
        /\ event[i].obj \in Objects => Known(received'[c], event[i].obj) = event[i].rv
        /\ \A o \in Objects : o = event[i].obj /\ Follows(c, o)' => i = currentNotifier
    BY SendKnown DEF Ground
  <1>h. /\ \A j, m \in Id : Sending(j, m)' <=> Sending(j, m)
        /\ \A j \in Id, o \in Objects : Handles(j, o)' <=> Handles(j, o)
        /\ \A j, d \in Id : d \in pending[j] /\ ~(j = i /\ d = c) => d \in pending'[j]
        /\ UNCHANGED <<held, event, processedVersions, clientsMap>> /\ Current' = Current
        /\ Sending(i, n) /\ c \in clientsMap[n] /\ n \in held[Server(i)] /\ Returning(i)
    BY SendHands
  <1> SUFFICES ASSUME NEW j \in Current, NEW m \in Current, m <= j, NEW o \in Objects,
                      Handles(j, o)', m \notin held'[Server(j)] \/ Sending(j, m)',
                      NEW d \in clientsMap[m], Follows(d, o)'
               PROVE  DeliveredAt(j, m, d, o)'
    BY <1>h DEF Delivered
  <1>1. j \in Id /\ m \in Id /\ d \in Id
    BY <1>t
  <1>2. Handles(j, o) /\ (m \notin held[Server(j)] \/ Sending(j, m)) /\ Follows(d, o)
    BY <1>1, <1>h, <1>k
  <1>3. DeliveredAt(j, m, d, o)
    BY <1>2 DEF Delivered
  <1>4. CASE ~(d = c /\ o = event[i].obj)
    <2>1. Known(received'[d], o) = Known(received[d], o)
      BY <1>1, <1>4, <1>k
    <2>2. d \in pending[j] => d \in pending'[j]
      BY <1>1, <1>2, <1>4, <1>h DEF Handles
    <2> QED  BY <1>1, <1>3, <1>h, <2>1, <2>2 DEF DeliveredAt
  <1>5. CASE d = c /\ o = event[i].obj
    <2>1. i = currentNotifier
      BY <1>5, <1>k
    <2>2. n \in Current /\ i \in Current /\ \A k \in Current : n <= k => k \in held[Server(i)]
      BY <1>h, <2>1, NewestSends DEF Ground
    <2>3. m = n
      BY <1>5, <1>h, <2>2 DEF Ground, OneOwner
    <2>4. j \in held[Server(j)]
      BY <1>1, <1>2, ConstantsAssumption DEF Handles, Returning, Ground, OwnFrame
    <2>5. j = i
      BY <1>1, <2>2, <2>3, <2>4, OneHolder
    <2> QED  BY <1>5, <1>h, <1>k, <2>5 DEF DeliveredAt
  <1> QED  BY <1>4, <1>5

LEMMA DrainDelivered ==
  ASSUME TypeOK, LockInv, LinkInv, Ground, Delivered, NEW i \in Id, DrainBookmark(i)
  PROVE  Delivered'
  <1>t. /\ Current \subseteq Id /\ \A j \in Id : clientsMap[j] \subseteq Id
    BY ServerTypes
  <1>h. /\ \A j \in Id \ {i} : Untouched(j) /\ i \notin held[Server(j)]
        /\ UNCHANGED <<held, event, received>> /\ event[i].obj \notin Objects
        /\ \A n \in Id \ {i} : clientsMap'[n] = clientsMap[n]
        /\ \/ i \notin Current /\ Current' = Current
           \/ /\ i \in Current /\ Current' = {n \in Current : n >= i}
              /\ \A c \in clientsMap'[i] : \E n \in Current : n <= i /\ c \in clientsMap[n]
    BY DrainHands DEF Ground
  <1> SUFFICES ASSUME NEW j \in Current', NEW m \in Current', m <= j, NEW o \in Objects,
                      Handles(j, o)', m \notin held'[Server(j)] \/ Sending(j, m)',
                      NEW c \in clientsMap'[m], Follows(c, o)'
               PROVE  DeliveredAt(j, m, c, o)'
    BY DEF Delivered
  <1>1. j \in Current /\ m \in Current /\ j \in Id /\ m \in Id
    BY <1>h, <1>t
  <1>2. j # i
    BY <1>h DEF Handles
  <1>3. Untouched(j) /\ i \notin held[Server(j)]
    BY <1>1, <1>2, <1>h
  <1>4. CASE m # i
    <2>1. c \in clientsMap[m]
      BY <1>1, <1>4, <1>h
    <2> QED  BY <1>1, <1>3, <1>h, <2>1, OthersDelivered
  <1>5. CASE m = i
    <2>1. PICK n \in Current : n <= i /\ c \in clientsMap[n]
      BY <1>1, <1>5, <1>h
    <2>2. n \in Id /\ n <= j /\ held[Server(j)] \subseteq Id
      BY <1>1, <1>5, <1>t, <2>1, ServerTypes, ConstantsAssumption
    <2>3. n \notin held'[Server(j)]
      <3>1. \A k \in held[Server(j)] : i < k
        BY <1>1, <1>3, <1>5 DEF Ground, FrameInv, FrameOK
      <3>2. n \notin held[Server(j)]
        BY <2>1, <2>2, <3>1, ConstantsAssumption
      <3> QED  BY <1>h, <3>2
    <2>4. DeliveredAt(j, n, c, o)'
      BY <1>1, <1>3, <1>h, <2>1, <2>2, <2>3, OthersDelivered
    <2>5. ~Sending(j, n)'
      BY <2>3 DEF Sending, InFrame
    <2> QED  BY <2>4, <2>5 DEF DeliveredAt
  <1> QED  BY <1>4, <1>5

LEMMA NextDelivered ==
  ASSUME TypeOK, Resolved, LockInv, LinkInv, Ground, Synced, Delivered, [Next]_vars, Timely
  PROVE  Delivered'
  <1>1. CASE Streams \/ Aside
    <2>1. Calm
      BY <1>1, AsideIsCalm
    <2>2. Current' = Current
      BY <2>1, CurrentStays DEF Calm, ChainSame
    <2>3. \A j \in Id : Untouched(j)
      BY <2>1 DEF Calm, ServerSame, Untouched
    <2> QED  BY <2>1, <2>2, <2>3, UntouchedStays, QuietDelivered DEF Calm
  <1>2. CASE \E s \in StopKinds, c \in Id : DeleteClient(s, c)
    <2>1. /\ ServerSame /\ ChainSame
          /\ UNCHANGED <<processedVersions, event, pending, received>>
          /\ \A n \in Id : clientsMap'[n] \subseteq clientsMap[n]
      BY <1>2, DeleteClientFrames
    <2>2. Current' = Current /\ \A n \in Current : clientsMap'[n] \subseteq clientsMap[n]
      BY <2>1, CurrentStays, CurrentIds DEF ChainSame
    <2>3. \A j \in Id : Untouched(j)
      BY <2>1 DEF ServerSame, Untouched
    <2> QED  BY <2>1, <2>2, <2>3, UntouchedStays, QuietDelivered
  <1>3. ASSUME NEW k \in Id, Descend(Server(k)) PROVE Delivered'
    BY <1>3, DescendDelivered
  <1>4. ASSUME NEW k \in Id, Moves(k) PROVE Delivered'
    <2>1. /\ OtherServers(k) /\ ChainSame
          /\ UNCHANGED <<processedVersions, pending, received>>
          /\ \A n \in Id : clientsMap'[n] \subseteq clientsMap[n]
          /\ \A j \in Id \ {k} : event'[j] = event[j]
          /\ ~Returning(k)'
      BY <1>4, MovesFrames
    <2>2. Current' = Current /\ \A n \in Current : clientsMap'[n] \subseteq clientsMap[n]
      BY <2>1, CurrentStays, CurrentIds DEF ChainSame
    <2>3. \A j \in Id : Returning(j)' => Returning(j) /\ Untouched(j)
      <3> SUFFICES ASSUME NEW j \in Id, Returning(j)' PROVE Returning(j) /\ Untouched(j)
        OBVIOUS
      <3>1. Untouched(j)
        BY <2>1 DEF OtherServers, Untouched
      <3> QED  BY <3>1, UntouchedStays
    <2> QED  BY <2>1, <2>2, <2>3, QuietDelivered
  <1>5. CASE WatchSucceed
    BY <1>5, WatchDelivered
  <1>6. ASSUME NEW k \in Id, DrainBookmark(k) PROVE Delivered'
    BY <1>6, DrainDelivered
  <1>7. ASSUME NEW k \in Id, NEW n \in Id, SkipEvent(k, n) \/ ProcessEvent(k, n) \/ SendDone(k, n)
        PROVE  Delivered'
    BY <1>7, SkipDelivered, ProcessDelivered, SendDoneDelivered
  <1>8. ASSUME NEW k \in Id, NEW n \in Id, NEW c \in Id, SendOk(k, n, c) PROVE Delivered'
    BY <1>8, SendOkDelivered
  <1> QED
    BY DeliverySteps, <1>1, <1>2, <1>3, <1>4, <1>5, <1>6, <1>7, <1>8

\* Goroutine k will offer event[k] to client c of notifier n.
InHand(k, n, c, o) ==
  /\ event[k].obj = o
  /\ \/ pc[Server(k)] = "count"
     \/ pc[Server(k)] = "accept" /\ (next[Server(k)] # None \/ n \in held[Server(k)])
     \/ /\ pc[Server(k)] = "send" /\ n \in held[Server(k)]
        /\ Sending(k, n) => c \in pending[k]

\* While the current connection works, a client knows the version of every
\* object, or an event about it is under way to it.
OwedAt(n, c, o) ==
  \/ InStream(stream[currentNotifier], o)
  \/ InHand(currentNotifier, n, c, o)
  \/ Known(received[c], o) = store[o].rv
Owed ==
  currentNotifier # None /\ Connected(currentNotifier) =>
    \A n \in Current : \A c \in clientsMap[n], o \in Objects :
      store[o] # Absent /\ Follows(c, o) => OwedAt(n, c, o)

LEMMA InHandStays ==
  ASSUME NEW k \in Id, Untouched(k), NEW n \in Id, NEW c \in Id, NEW o \in Objects, InHand(k, n, c, o)
  PROVE  InHand(k, n, c, o)'
  BY UntouchedStays DEF Untouched, InHand

\* A step that takes nothing from the stream of the current connection.
LEMMA QuietOwed ==
  ASSUME TypeOK, Owed, UNCHANGED <<store, currentNotifier, received>>, Current' = Current,
         \A n \in Current : clientsMap'[n] \subseteq clientsMap[n],
         currentNotifier # None /\ Connected(currentNotifier)' =>
           /\ Connected(currentNotifier) /\ stream'[currentNotifier] = stream[currentNotifier]
           /\ \A n \in Current : \A c \in clientsMap[n], o \in Objects :
                store[o] # Absent /\ Follows(c, o) /\ InHand(currentNotifier, n, c, o)
                  => OwedAt(n, c, o)'
  PROVE  Owed'
  <1>t. Current \subseteq Id /\ \A n \in Id : clientsMap[n] \subseteq Id
    BY ServerTypes
  <1> SUFFICES ASSUME currentNotifier # None, Connected(currentNotifier)',
                      NEW n \in Current, NEW c \in clientsMap'[n], NEW o \in Objects,
                      store[o] # Absent, Follows(c, o)'
               PROVE  OwedAt(n, c, o)'
    BY DEF Owed
  <1>1. n \in Id /\ c \in clientsMap[n] /\ c \in Id /\ Follows(c, o)
    BY <1>t, FollowsStays
  <1>2. OwedAt(n, c, o)
    BY <1>1 DEF Owed
  <1> QED  BY <1>1, <1>2 DEF OwedAt

\* The same, when the current connection's goroutine is left alone.
LEMMA AsideOwed ==
  ASSUME TypeOK, Owed, UNCHANGED <<store, currentNotifier, received, serverClosed>>, Current' = Current,
         \A n \in Current : clientsMap'[n] \subseteq clientsMap[n],
         currentNotifier # None =>
           Untouched(currentNotifier) /\ stream'[currentNotifier] = stream[currentNotifier]
  PROVE  Owed'
  <1>t. Current \subseteq Id /\ (\A n \in Id : clientsMap[n] \subseteq Id)
        /\ currentNotifier \in 0 .. MaxWatches
    BY ServerTypes
  <1>1. ASSUME currentNotifier # None, Connected(currentNotifier)'
        PROVE  /\ Connected(currentNotifier)
               /\ \A n \in Current : \A c \in clientsMap[n], o \in Objects :
                    InHand(currentNotifier, n, c, o) => OwedAt(n, c, o)'
    <2>1. currentNotifier \in Id
      BY <1>1, <1>t, ConstantsAssumption
    <2>2. Connected(currentNotifier)
      BY <1>1 DEF Connected, Untouched
    <2>3. ASSUME NEW n \in Current, NEW c \in clientsMap[n], NEW o \in Objects,
                 InHand(currentNotifier, n, c, o)
          PROVE  OwedAt(n, c, o)'
      <3>1. n \in Id /\ c \in Id
        BY <1>t
      <3>2. InHand(currentNotifier, n, c, o)'
        BY <1>1, <2>1, <2>3, <3>1, InHandStays
      <3> QED  BY <3>2 DEF OwedAt
    <2> QED  BY <2>2, <2>3
  <1> QED  BY <1>1, QuietOwed

LEMMA StreamsOwed ==
  ASSUME TypeOK, Ground, Owed, Streams
  PROVE  Owed'
  <1>t. /\ Current \subseteq Id /\ (\A n \in Id : clientsMap[n] \subseteq Id)
        /\ currentNotifier \in 0 .. MaxWatches
        /\ stream \in [Id -> Seq(Event)] /\ bookmark \in [Id -> Nat]
        /\ log \in Seq(Ordinary) /\ ClusterTypeOK
    BY ServerTypes, Groups DEF ConnectionTypeOK, ClusterTypeOK
  <1>c. Calm
    BY AsideIsCalm
  <1>u. Current' = Current /\ UNCHANGED <<currentNotifier, clientsMap, received>>
        /\ \A j \in Id : Untouched(j)
    BY <1>c, CurrentStays DEF Calm, ChainSame, ServerSame, Untouched
  <1> DEFINE N == currentNotifier
  <1> SUFFICES ASSUME N # None, Connected(N)',
                      NEW n \in Current, NEW c \in clientsMap[n], NEW o \in Objects,
                      store'[o] # Absent, Follows(c, o)'
               PROVE  OwedAt(n, c, o)'
    BY <1>u DEF Owed
  <1>1. N \in Id /\ n \in Id /\ c \in Id /\ Follows(c, o)
    BY <1>t, <1>u, FollowsStays, ConstantsAssumption
  <1>2. InHand(N, n, c, o) => InHand(N, n, c, o)'
    BY <1>1, <1>u, InHandStays
  <1>3. CASE Cluster
    <2>1. UNCHANGED <<pc, serverClosed>>
      BY <1>3, ClusterShape
    <2>2. PICK p \in Objects, e \in Ordinary :
            /\ e.obj = p
            /\ \A q \in Objects \ {p} : store'[q] = store[q]
            /\ \A k \in Id :
                 stream'[k] = IF Connected(k) THEN Append(stream[k], e) ELSE stream[k]
      BY <1>3, ClusterShape
    <2>3. Connected(N) /\ e \in Event /\ stream[N] \in Seq(Event)
      BY <1>1, <1>t, <1>u, <2>1 DEF Connected, Ordinary
    <2>4. stream'[N] = Append(stream[N], e)
      BY <1>1, <2>2, <2>3
    <2>5. CASE o = p
      <3>1. InStream(stream'[N], o)
        BY <2>2, <2>3, <2>4, <2>5, AppendShape
      <3> QED  BY <1>u, <3>1 DEF OwedAt
    <2>6. CASE o # p
      <3>1. store'[o] = store[o]
        BY <2>2, <2>6
      <3>3. e.obj # o
        BY <2>2, <2>6
      <3>4. InStream(stream[N], o) => InStream(Append(stream[N], e), o)
        BY <2>3, <3>3, AppendShape
      <3>2. OwedAt(n, c, o)
        BY <1>1, <2>3, <3>1 DEF Owed
      <3> QED  BY <1>2, <1>u, <2>4, <3>1, <3>2, <3>4 DEF OwedAt
    <2> QED  BY <2>5, <2>6
  <1>4. ASSUME NEW k \in Id, Connection(k) PROVE OwedAt(n, c, o)'
    <2>1. /\ UNCHANGED <<log, store, pc>>
          /\ \A j \in Id \ {k} : stream'[j] = stream[j] /\ serverClosed'[j] = serverClosed[j]
      BY <1>4, ConnectionShape
    <2>2. SUFFICES ASSUME Connected(N) PROVE InStream(stream[N], o) => InStream(stream'[N], o)
      <3>1. Connected(N)
        <4>1. CASE N # k
          BY <1>1, <1>u, <2>1, <4>1 DEF Connected
        <4>2. CASE N = k
          BY <1>4, <4>2 DEF Connection, SendBookmark, Relist, Resume, CloseConnection
        <4> QED  BY <4>1, <4>2
      <3>2. OwedAt(n, c, o)
        BY <1>1, <2>1, <3>1 DEF Owed
      <3> QED  BY <1>2, <1>u, <2>1, <2>2, <3>1, <3>2 DEF OwedAt
    <2>3. CASE k # N
      BY <1>1, <2>1, <2>3
    <2>4. CASE k = N
      <3>s. /\ stream[N] \in Seq(Event) /\ bookmark[N] \in Nat
            /\ LogOK(log, store) /\ StreamOK(log, stream[N], bookmark[N])
            /\ LastIs(stream[N], o, store[o].rv) /\ store[o] # Absent
        BY <1>1, <1>t, <2>1, <2>2 DEF Ground, StreamsInv, LastInv
      <3>1. CASE stream'[N] = Append(stream[N], Bookmark(Len(log)))
        <4>1. Len(log) \in Nat
          BY <1>t
        <4>2. Bookmark(Len(log)) \in Event /\ Bookmark(Len(log)).obj # o
          BY <4>1, BookmarkShape, NoObjectApart
        <4> QED  BY <3>1, <3>s, <4>2, AppendShape
      <3>2. ASSUME NEW kept \in Buffered(stream[N]), NEW list \in Listings(store),
                   stream'[N] = Forgotten(kept) \o list
            PROVE  InStream(stream'[N], o)
        BY <1>t, <3>2, <3>s, RelistShape
      <3>3. ASSUME NEW kept \in Buffered(stream[N]), LastBookmark(kept, bookmark[N]) # 0,
                   stream'[N] = kept \o Replay(log, LastBookmark(kept, bookmark[N]))
            PROVE  InStream(stream[N], o) => InStream(stream'[N], o)
        BY <1>t, <3>3, <3>s, ResumeShape
      <3>4. ~serverClosed'[N]
        BY <1>u DEF Connected
      <3> QED  BY <1>4, <2>4, <3>1, <3>2, <3>3, <3>4, ConnectionShape
    <2> QED  BY <2>3, <2>4
  <1> QED  BY <1>3, <1>4 DEF Streams

LEMMA WatchOwed ==
  ASSUME TypeOK, LockInv, StreamsInv, WatchSucceed
  PROVE  Owed'
  <1>w. PICK w \in Id : w = clientCount
    BY WatchShape
  <1>1. currentNotifier' = w /\ stream'[w] \in Listings(store) /\ UNCHANGED store
    BY <1>w, WatchShape
  <1>2. \A o \in Objects : store[o] # Absent => InStream(stream'[w], o)
    BY <1>1, Groups, ListingShape DEF StreamsInv
  <1> QED  BY <1>1, <1>2 DEF Owed, OwedAt

\* Aside, and the steps of the goroutines that move no event.
LEMMA MovesOwed ==
  ASSUME TypeOK, LockInv, Ground, Owed, NEW k \in Id, Moves(k)
  PROVE  Owed'
  <1>t. /\ Current \subseteq Id /\ currentNotifier \in 0 .. MaxWatches
        /\ stream \in [Id -> Seq(Event)] /\ bookmark \in [Id -> Nat] /\ log \in Seq(Ordinary)
        /\ pc \in [Procs -> PCs] /\ Server(k) \in Procs
        /\ \A n \in Id : clientsMap[n] \subseteq Id
    BY ServerTypes, Groups, ServerIsProc DEF ConnectionTypeOK, ClusterTypeOK, ProcTypeOK
  <1>m. /\ OtherServers(k) /\ ChainSame
        /\ UNCHANGED <<processedVersions, pending, received>>
        /\ \A n \in Id : clientsMap'[n] \subseteq clientsMap[n]
        /\ \A j \in Id \ {k} : event'[j] = event[j]
        /\ ~Returning(k) /\ ~Returning(k)' /\ next'[Server(k)] \in {None, k}
    BY MovesFrames
  <1>c. /\ Current' = Current /\ \A n \in Current : clientsMap'[n] \subseteq clientsMap[n]
        /\ UNCHANGED <<currentNotifier, received>>
        /\ \A j \in Id \ {k} : Untouched(j)
    BY <1>m, <1>t, CurrentStays DEF ChainSame, OtherServers, Untouched
  <1>s. /\ UNCHANGED <<store, serverClosed>>
        /\ \A j \in Id \ {k} : stream'[j] = stream[j]
        /\ ~(Receive(k) \/ ExitCancelled(k) \/ CleanupEnd(k)) => stream'[k] = stream[k]
    <2>1. CASE Receive(k)
      BY <2>1, ReceiveShape
    <2>2. CASE ExitCancelled(k) \/ CleanupEnd(k)
      BY <2>2, ExitShape
    <2>3. CASE Counted(k) \/ SeeClosed(k) \/ CleanupBegin(k)
      BY <2>3 DEF Counted, SeeClosed, CleanupBegin, connectionVars, clusterVars
    <2> QED  BY <2>1, <2>2, <2>3 DEF Moves
  <1>1. CASE k # currentNotifier
    <2>1. currentNotifier # None => currentNotifier \in Id \ {k}
      BY <1>t, <1>1, ConstantsAssumption
    <2> QED  BY <1>c, <1>s, <2>1, AsideOwed
  <1>2. CASE k = currentNotifier
    <2>1. CASE Receive(k)
      <3>r. /\ pc[Server(k)] = "select" /\ pc'[Server(k)] = "count" /\ stream[k] # <<>>
            /\ stream'[k] = Tail(stream[k]) /\ event'[k] = Head(stream[k])
        BY <2>1, ReceiveShape
      <3> SUFFICES ASSUME Connected(k)', NEW n \in Current, NEW c \in clientsMap'[n],
                          NEW o \in Objects, store[o] # Absent, Follows(c, o)'
                   PROVE  OwedAt(n, c, o)'
        BY <1>2, <1>c, <1>s DEF Owed
      <3>1. n \in Id /\ c \in clientsMap[n] /\ c \in Id /\ Follows(c, o) /\ Connected(k)
        BY <1>c, <1>s, <1>t, <3>r, FollowsStays DEF Connected
      <3>2. OwedAt(n, c, o) /\ k # None
        BY <1>2, <3>1, ConstantsAssumption DEF Owed
      <3>3. ~InHand(k, n, c, o)
        BY <3>r DEF InHand
      <3>4. CASE InStream(stream[k], o)
        <4>1. /\ stream[k] \in Seq(Event) /\ bookmark[k] \in Nat
              /\ StreamOK(log, stream[k], bookmark[k]) /\ LastIs(stream[k], o, store[o].rv)
          BY <1>2, <1>t, <3>1, <3>2 DEF Ground, StreamsInv, LastInv
        <4>2. InStream(Tail(stream[k]), o) \/ Head(stream[k]).obj = o
          BY <1>t, <3>4, <3>r, <4>1, TailShape
        <4>3. CASE Head(stream[k]).obj = o
          BY <1>2, <1>c, <3>r, <4>3 DEF OwedAt, InHand
        <4> QED  BY <1>2, <1>c, <3>r, <4>2, <4>3 DEF OwedAt
      <3> QED  BY <1>2, <1>c, <1>s, <3>2, <3>3, <3>4 DEF OwedAt
    <2>2. CASE ExitCancelled(k) \/ CleanupEnd(k)
      <3>1. pc'[Server(k)] = "done"
        BY <2>2, ExitShape
      <3> QED  BY <1>2, <1>c, <3>1 DEF Owed, Connected
    <2>3. CASE SeeClosed(k)
      <3>1. serverClosed'[k]
        BY <1>s, <2>3 DEF SeeClosed
      <3> QED  BY <1>2, <1>c, <3>1 DEF Owed, Connected
    <2>4. CASE CleanupBegin(k)
      <3>1. pc[Server(k)] = "closing"
        BY <2>4 DEF CleanupBegin
      <3>2. Connected(k)' => Connected(k)
        BY <1>s, <3>1 DEF Connected
      <3>3. \A n \in Current : \A c \in clientsMap[n], o \in Objects : ~InHand(k, n, c, o)
        BY <3>1 DEF InHand
      <3>4. stream'[k] = stream[k]
        BY <2>4 DEF CleanupBegin, connectionVars
      <3> QED  BY <1>2, <1>c, <1>s, <3>2, <3>3, <3>4, QuietOwed
    <2>5. CASE Counted(k)
      <3>1. /\ pc[Server(k)] = "count" /\ pc'[Server(k)] = "accept" /\ next'[Server(k)] = k
            /\ UNCHANGED <<event, stream>>
        <4>1. next \in [Procs -> 0 .. MaxWatches]
          BY Groups DEF ProcTypeOK
        <4> QED  BY <1>t, <2>5, <4>1 DEF Counted, Call, InFrame, workVars, connectionVars
      <3>2. Connected(k)' => Connected(k)
        BY <1>s, <3>1 DEF Connected
      <3>3. \A n \in Current : \A c \in clientsMap[n], o \in Objects :
              InHand(k, n, c, o) => InHand(k, n, c, o)'
        BY <3>1, ConstantsAssumption DEF InHand
      <3>4. \A n \in Current : \A c \in clientsMap[n], o \in Objects :
              InHand(k, n, c, o) => OwedAt(n, c, o)'
        BY <1>2, <1>c, <3>3 DEF OwedAt
      <3> QED  BY <1>2, <1>c, <1>s, <3>1, <3>2, <3>4, QuietOwed
    <2> QED  BY <2>1, <2>2, <2>3, <2>4, <2>5 DEF Moves
  <1> QED  BY <1>1, <1>2

LEMMA DescendOwed ==
  ASSUME TypeOK, LockInv, LinkInv, Ground, Owed, Timely, [Next]_vars,
         NEW i \in Id, Descend(Server(i))
  PROVE  Owed'
  <1>t. /\ Current \subseteq Id /\ currentNotifier \in 0 .. MaxWatches
        /\ \A n \in Id : clientsMap[n] \subseteq Id
    BY ServerTypes
  <1>h. /\ ChainSame /\ OtherServers(i) /\ pc' = pc
        /\ UNCHANGED <<clientsMap, processedVersions, event, pending, received>>
        /\ next[Server(i)] \in Id /\ held'[Server(i)] = held[Server(i)] \cup {next[Server(i)]}
        /\ next'[Server(i)] = IF pc[Server(i)] = "accept" /\ event[i].type = "BOOKMARK"
                              THEN None ELSE previousNotifier[next[Server(i)]]
    BY DescendFrames
  <1>c. Current' = Current /\ UNCHANGED currentNotifier
    BY <1>h, CurrentStays DEF ChainSame
  <1>s. UNCHANGED <<stream, store, serverClosed>>
    BY DEF Descend, connectionVars, clusterVars
  <1>1. CASE i # currentNotifier
    <2>1. currentNotifier # None => currentNotifier \in Id \ {i}
      BY <1>t, <1>1, ConstantsAssumption
    <2>2. currentNotifier # None => Untouched(currentNotifier)
      BY <1>h, <2>1 DEF OtherServers, Untouched
    <2> QED  BY <1>c, <1>h, <1>s, <2>2, AsideOwed
  <1>2. CASE i = currentNotifier
    <2>1. Connected(i)' => Connected(i)
      BY <1>h, <1>s DEF Connected
    <2> SUFFICES ASSUME NEW n \in Current, NEW c \in clientsMap[n], NEW o \in Objects,
                        InHand(i, n, c, o)
                 PROVE  InHand(i, n, c, o)'
      BY <1>2, <1>c, <1>h, <1>s, <2>1, QuietOwed DEF OwedAt
    <2>2. pc[Server(i)] # "send"
      BY <1>h, ConstantsAssumption DEF Ground, OwnFrame
    <2>3. CASE pc[Server(i)] = "count"
      BY <1>h, <2>3 DEF InHand
    <2>4. CASE pc[Server(i)] = "accept"
      <3>1. event[i].type # "BOOKMARK"
        <4>1. event[i].obj \in Objects
          BY DEF InHand
        <4>2. Working(i)
          BY <2>4 DEF Working
        <4> QED  BY <4>1, <4>2, InHandOK DEF Ground
      <3> DEFINE x == next[Server(i)]
      <3>2. CASE previousNotifier[x] = None
        <4>1. i \in Current /\ n \in Id /\ n <= i /\ x \in Id
          BY <1>2, <1>h, <1>t, NewestIsCurrent, ConstantsAssumption
        <4>2. x \in Current
          BY <4>1, ConstantsAssumption DEF Ground, FrameInv, FrameOK
        <4>3. n >= x
          BY <3>2, <4>2, CurrentGap
        <4>4. n \notin held'[Server(i)] => n < x
          <5>1. FrameInv'
            BY NextFrameInv DEF Ground
          <5>2. x \in held'[Server(i)]
            BY <1>h
          <5> QED  BY <1>c, <4>1, <5>1, <5>2 DEF FrameInv, FrameOK
        <4>5. n \in held'[Server(i)]
          BY <4>1, <4>3, <4>4, ConstantsAssumption
        <4> QED  BY <1>h, <2>4, <4>5 DEF InHand
      <3>3. CASE previousNotifier[x] # None
        BY <1>h, <2>4, <3>1, <3>3 DEF InHand
      <3> QED  BY <3>2, <3>3
    <2> QED  BY <2>2, <2>3, <2>4 DEF InHand
  <1> QED  BY <1>1, <1>2

LEMMA WorkOwed ==
  ASSUME TypeOK, LockInv, Ground, Synced, Owed, NEW i \in Id, NEW n \in Id,
         SkipEvent(i, n) \/ SendDone(i, n) \/ ProcessEvent(i, n)
  PROVE  Owed'
  <1>t. /\ Current \subseteq Id /\ currentNotifier \in 0 .. MaxWatches
        /\ held[Server(i)] \subseteq Id /\ \A m \in Id : clientsMap[m] \subseteq Id
    BY ServerTypes
  <1>s. UNCHANGED <<stream, store, serverClosed, currentNotifier>>
    BY DEF SkipEvent, SendDone, ProcessEvent, connectionVars, clusterVars, nsVars
  <1>c. /\ Current' = Current /\ UNCHANGED <<clientsMap, received, event>>
        /\ \A j \in Id \ {i} : Untouched(j)
        /\ Returning(i)
    BY ReturnUntouched, ProcessUntouched DEF Ground
  <1>d. \A m \in Current : clientsMap'[m] \subseteq clientsMap[m]
    BY <1>c
  <1>1. CASE i # currentNotifier
    <2>1. currentNotifier # None => currentNotifier \in Id \ {i}
      BY <1>t, <1>1, ConstantsAssumption
    <2> QED  BY <1>c, <1>d, <1>s, <2>1, AsideOwed
  <1>2. CASE i = currentNotifier
    <2>1. Connected(i)' => Connected(i)
      BY <1>c, <1>s DEF Connected, Returning
    <2> SUFFICES ASSUME Connected(i), NEW m \in Current, NEW c \in clientsMap[m], NEW o \in Objects,
                        store[o] # Absent, Follows(c, o), InHand(i, m, c, o)
                 PROVE  OwedAt(m, c, o)'
      BY <1>2, <1>c, <1>d, <1>s, <2>1, QuietOwed
    <2>2. m \in Id /\ c \in Id /\ event[i].obj = o /\ m \in held[Server(i)] /\ i # None
      BY <1>c, <1>t, ConstantsAssumption DEF InHand, Returning
    <2>o. \A k \in held[Server(i)] : k <= i
      BY DEF LockInv, OwnRange
    <2>3. CASE SkipEvent(i, n) \/ SendDone(i, n)
      <3>1. /\ held'[Server(i)] = held[Server(i)] \ {n} /\ next'[Server(i)] = None
            /\ \A k \in held[Server(i)] : n <= k
            /\ pc'[Server(i)] = IF n = i THEN "select" ELSE "accept"
        BY <2>3, ReturnFrames, ReturnUntouched
      <3>2. CASE m # n
        <4>1. n # i
          BY <2>2, <2>o, <3>1, <3>2, ConstantsAssumption
        <4>2. InHand(i, m, c, o)'
          BY <1>c, <2>2, <3>1, <3>2, <4>1 DEF InHand
        <4> QED  BY <1>2, <1>s, <4>2 DEF OwedAt
      <3>3. CASE m = n /\ SkipEvent(i, n)
        <4>1. Known(received[c], o) = event[i].rv
          BY <2>2, <3>3, SkipKnown
        <4>2. InStream(stream[i], o) \/ event[i].rv = store[o].rv
          <5>1. About(i, o)
            BY <1>c, <2>2 DEF About, Returning
          <5> QED  BY <1>2, <2>2, <5>1 DEF Ground, LastInv
        <4> QED  BY <1>2, <1>c, <1>s, <4>1, <4>2 DEF OwedAt
      <3>4. CASE m = n /\ SendDone(i, n)
        <4>1. Sending(i, n) /\ pending[i] \cap clientsMap[n] = {} /\ pc[Server(i)] = "send"
          BY <3>4 DEF SendDone, Sending, InFrame
        <4> QED  BY <3>4, <4>1 DEF InHand
      <3> QED  BY <2>3, <3>2, <3>3, <3>4
    <2>4. CASE ProcessEvent(i, n)
      <3>1. /\ held' = held /\ pending'[i] = Interested(n, event[i])
            /\ \A k \in Id : Sending(i, k)' <=> k = n
        BY <2>4, ProcessUntouched DEF Ground
      <3>2. pc'[Server(i)] = "send"
        BY <2>4, ProcessFrames
      <3>3. m = n => c \in pending'[i]
        BY <2>2, <3>1 DEF Interested, Follows
      <3>4. InHand(i, m, c, o)'
        BY <1>c, <2>2, <3>1, <3>2, <3>3 DEF InHand
      <3> QED  BY <1>2, <1>s, <3>4 DEF OwedAt
    <2> QED  BY <2>3, <2>4
  <1> QED  BY <1>1, <1>2

LEMMA SendOkOwed ==
  ASSUME TypeOK, Resolved, LockInv, Ground, Owed,
         NEW i \in Id, NEW n \in Id, NEW c \in Id, SendOk(i, n, c)
  PROVE  Owed'
  <1>t. /\ Current \subseteq Id /\ currentNotifier \in 0 .. MaxWatches
        /\ \A m \in Id : clientsMap[m] \subseteq Id
    BY ServerTypes
  <1>k. /\ \A d \in Id, o \in Objects : Follows(d, o)' => Follows(d, o)
        /\ \A d \in Id, o \in Objects :
             d # c \/ o # event[i].obj => Known(received'[d], o) = Known(received[d], o)
        /\ event[i].obj \in Objects => Known(received'[c], event[i].obj) = event[i].rv
        /\ \A o \in Objects : o = event[i].obj /\ Follows(c, o)' => i = currentNotifier
    BY SendKnown DEF Ground
  <1>h. /\ \A j, m \in Id : Sending(j, m)' <=> Sending(j, m)
        /\ \A j, d \in Id : d \in pending[j] /\ ~(j = i /\ d = c) => d \in pending'[j]
        /\ UNCHANGED <<held, event, processedVersions, clientsMap>> /\ Current' = Current
        /\ Sending(i, n) /\ c \in clientsMap[n] /\ n \in held[Server(i)] /\ Returning(i)
    BY SendHands
  <1>s. UNCHANGED <<stream, store, serverClosed, currentNotifier, pc, next>>
    BY DEF SendOk, connectionVars, clusterVars, nsVars, procVars
  <1> SUFFICES ASSUME currentNotifier # None, Connected(currentNotifier),
                      NEW m \in Current, NEW d \in clientsMap[m],
                      NEW o \in Objects, store[o] # Absent, Follows(d, o)'
               PROVE  OwedAt(m, d, o)'
    BY <1>h, <1>s DEF Owed, Connected
  <1>n. PICK N \in Id : N = currentNotifier
    BY <1>t, ConstantsAssumption
  <1>1. m \in Id /\ d \in Id /\ OwedAt(m, d, o)
    BY <1>k, <1>t DEF Owed
  <1>2. CASE d = c /\ o = event[i].obj
    <2>1. i = currentNotifier
      BY <1>2, <1>k
    <2>2. InStream(stream[i], o) \/ event[i].rv = store[o].rv
      <3>1. About(i, o)
        BY <1>2, <1>h DEF About, Returning
      <3> QED  BY <2>1, <3>1 DEF Ground, LastInv
    <2> QED  BY <1>2, <1>k, <1>s, <2>1, <2>2 DEF OwedAt
  <1>3. CASE ~(d = c /\ o = event[i].obj)
    <2>1. Known(received'[d], o) = Known(received[d], o)
      BY <1>1, <1>3, <1>k
    <2>2. InHand(N, m, d, o) => InHand(N, m, d, o)'
      <3> SUFFICES ASSUME InHand(N, m, d, o) PROVE InHand(N, m, d, o)'
        OBVIOUS
      <3>1. d \in pending[N] => d \in pending'[N]
        BY <1>1, <1>3, <1>h DEF InHand
      <3>2. Sending(N, m)' <=> Sending(N, m)
        <4>1. \A j, k \in Id : Sending(j, k)' <=> Sending(j, k)
          BY <1>h
        <4> QED  BY <1>1, <4>1
      <3> QED  BY <1>h, <1>s, <3>1, <3>2 DEF InHand
    <2> QED  BY <1>1, <1>n, <1>s, <2>1, <2>2 DEF OwedAt
  <1> QED  BY <1>2, <1>3

LEMMA DrainOwed ==
  ASSUME TypeOK, LockInv, LinkInv, Ground, Owed, NEW i \in Id, DrainBookmark(i)
  PROVE  Owed'
  <1>t. /\ Current \subseteq Id /\ currentNotifier \in 0 .. MaxWatches
        /\ \A m \in Id : clientsMap[m] \subseteq Id /\ held[Server(m)] \subseteq Id
    BY ServerTypes
  <1>h. /\ \A j \in Id \ {i} : Untouched(j) /\ i \notin held[Server(j)]
        /\ UNCHANGED <<held, event, received>> /\ event[i].obj \notin Objects
        /\ \A n \in Id \ {i} : clientsMap'[n] = clientsMap[n]
        /\ \/ i \notin Current /\ Current' = Current
           \/ /\ i \in Current /\ Current' = {n \in Current : n >= i}
              /\ \A c \in clientsMap'[i] : \E n \in Current : n <= i /\ c \in clientsMap[n]
    BY DrainHands DEF Ground
  <1>s. UNCHANGED <<stream, store, serverClosed, currentNotifier>>
    BY DEF DrainBookmark, connectionVars, clusterVars, nsVars
  <1>p. pc[Server(i)] = "accept" /\ pc'[Server(i)] = "send"
    BY DrainFrames
  <1> SUFFICES ASSUME currentNotifier # None, Connected(currentNotifier)',
                      NEW n \in Current', NEW c \in clientsMap'[n],
                      NEW o \in Objects, store[o] # Absent, Follows(c, o)'
               PROVE  OwedAt(n, c, o)'
    BY <1>s DEF Owed
  <1>n. PICK N \in Id : N = currentNotifier
    BY <1>t, ConstantsAssumption
  <1>1. n \in Current /\ n \in Id
    <2>1. n \in Current
      BY <1>h
    <2> QED  BY <1>t, <2>1, ConstantsAssumption
  <1>2. Connected(N)
    <2>1. CASE N = i
      BY <1>p, <1>n, <1>s, <2>1 DEF Connected
    <2>2. CASE N # i
      BY <1>h, <1>n, <1>s, <2>2 DEF Connected, Untouched
    <2> QED  BY <2>1, <2>2
  <1>3. \A m \in Current : c \in clientsMap[m] => c \in Id /\ OwedAt(m, c, o)
    <2> SUFFICES ASSUME NEW m \in Current, c \in clientsMap[m] PROVE c \in Id /\ OwedAt(m, c, o)
      OBVIOUS
    <2>1. c \in Id
      BY <1>t
    <2>2. Follows(c, o)
      BY <1>h, <2>1, FollowsStays
    <2> QED  BY <1>2, <1>n, <2>1, <2>2 DEF Owed
  <1>4. CASE N = i
    <2>1. PICK m \in Current : c \in clientsMap[m]
      BY <1>1, <1>h
    <2>2. ~InHand(i, m, c, o)
      BY <1>h DEF InHand
    <2> QED  BY <1>3, <1>4, <1>h, <1>n, <1>s, <2>1, <2>2 DEF OwedAt
  <1>5. CASE N # i
    <2>u. Untouched(N) /\ i \notin held[Server(N)] /\ n <= N
      BY <1>1, <1>5, <1>h, <1>n, NewestIsCurrent
    <2>1. CASE n # i
      <3>1. c \in clientsMap[n]
        BY <1>1, <1>h, <2>1
      <3>2. InHand(N, n, c, o) => InHand(N, n, c, o)'
        <4>1. c \in Id
          BY <1>1, <1>3, <3>1
        <4> QED  BY <1>1, <2>u, <4>1, InHandStays
      <3> QED  BY <1>1, <1>3, <1>h, <1>n, <1>s, <3>1, <3>2 DEF OwedAt
    <2>2. CASE n = i
      <3>1. PICK m \in Current : m <= i /\ c \in clientsMap[m]
        BY <1>1, <1>h, <2>2
      <3>2. m \in Id /\ c \in Id /\ OwedAt(m, c, o)
        BY <1>3, <1>t, <3>1
      <3>3. m \notin held[Server(N)]
        <4>1. N \in Current
          BY <1>n, NewestIsCurrent
        <4>2. \A k \in held[Server(N)] : i < k
          BY <1>1, <2>2, <2>u, <4>1 DEF Ground, FrameInv, FrameOK
        <4> QED  BY <1>t, <1>1, <3>1, <3>2, <4>2, ConstantsAssumption
      <3>4. InHand(N, m, c, o) => InHand(N, n, c, o)'
        <4>1. /\ pc'[Server(N)] = pc[Server(N)] /\ next'[Server(N)] = next[Server(N)]
              /\ event'[N] = event[N]
          BY <2>u DEF Untouched
        <4> SUFFICES ASSUME InHand(N, m, c, o) PROVE InHand(N, n, c, o)'
          OBVIOUS
        <4>2. /\ event[N].obj = o
              /\ \/ pc[Server(N)] = "count"
                 \/ pc[Server(N)] = "accept" /\ next[Server(N)] # None
          BY <3>3 DEF InHand
        <4> QED  BY <1>s, <4>1, <4>2 DEF InHand
      <3> QED  BY <1>h, <1>n, <1>s, <3>2, <3>4 DEF OwedAt
    <2> QED  BY <2>1, <2>2
  <1> QED  BY <1>4, <1>5

LEMMA NextOwed ==
  ASSUME TypeOK, Resolved, LockInv, LinkInv, Ground, Synced, Owed, [Next]_vars, Timely
  PROVE  Owed'
  <1>1. CASE Streams
    BY <1>1, StreamsOwed
  <1>2. CASE Aside
    <2>1. UNCHANGED <<stream, store, serverClosed>>
      BY <1>2
      DEF Aside, WatchBegin, WatchFail, StopCalled, StopBegin, StopEnd, Descend, SendClosed,
          connectionVars, clusterVars, vars
    <2>2. Calm
      BY <1>2, AsideIsCalm
    <2>3. Current' = Current /\ UNCHANGED <<currentNotifier, received, clientsMap>>
          /\ \A j \in Id : Untouched(j)
      BY <2>2, CurrentStays DEF Calm, ChainSame, ServerSame, Untouched
    <2>4. currentNotifier # None => currentNotifier \in Id
      BY ServerTypes, ConstantsAssumption
    <2> QED  BY <2>1, <2>3, <2>4, AsideOwed
  <1>3. ASSUME NEW s \in StopKinds, NEW c \in Id, DeleteClient(s, c) PROVE Owed'
    <2>1. /\ ServerSame /\ ChainSame
          /\ UNCHANGED <<processedVersions, event, pending, received>>
          /\ \A n \in Id : clientsMap'[n] \subseteq clientsMap[n]
      BY <1>3, DeleteClientFrames
    <2>2. UNCHANGED <<stream, store, serverClosed>>
      BY <1>3 DEF DeleteClient, connectionVars, clusterVars
    <2>3. /\ Current' = Current /\ UNCHANGED currentNotifier
          /\ \A n \in Current : clientsMap'[n] \subseteq clientsMap[n]
      BY <2>1, CurrentStays, CurrentIds DEF ChainSame
    <2>4. currentNotifier # None => currentNotifier \in Id
      BY ServerTypes, ConstantsAssumption
    <2>5. \A j \in Id : Untouched(j)
      BY <2>1 DEF ServerSame, Untouched
    <2> QED  BY <2>1, <2>2, <2>3, <2>4, <2>5, AsideOwed
  <1>4. ASSUME NEW k \in Id, Descend(Server(k)) PROVE Owed'
    BY <1>4, DescendOwed
  <1>5. ASSUME NEW k \in Id, Moves(k) PROVE Owed'
    BY <1>5, MovesOwed
  <1>6. CASE WatchSucceed
    BY <1>6, WatchOwed DEF Ground
  <1>7. ASSUME NEW k \in Id, DrainBookmark(k) PROVE Owed'
    BY <1>7, DrainOwed
  <1>8. ASSUME NEW k \in Id, NEW n \in Id, SkipEvent(k, n) \/ ProcessEvent(k, n) \/ SendDone(k, n)
        PROVE  Owed'
    BY <1>8, WorkOwed
  <1>9. ASSUME NEW k \in Id, NEW n \in Id, NEW c \in Id, SendOk(k, n, c) PROVE Owed'
    BY <1>9, SendOkOwed
  <1> QED
    BY DeliverySteps, <1>1, <1>2, <1>3, <1>4, <1>5, <1>6, <1>7, <1>8, <1>9

-----------------------------------------------------------------------------
(***************************************************************************)
(* When the current connection is quiet, what is owed has been delivered.  *)
(***************************************************************************)
DeliveryInv ==
  /\ TypeOK /\ Resolved /\ LockInv /\ PlaceInv /\ OwnerInv
  /\ Ground /\ Synced /\ Delivered /\ Owed

LEMMA InitDelivery == Init => DeliveryInv
  <1> SUFFICES ASSUME Init PROVE DeliveryInv
    OBVIOUS
  <1>1. TypeOK /\ LockInv /\ PlaceInv /\ OwnerInv
    BY InitTypeOK, InitLocks, InitPlaces DEF LockInv
  <1>2. Resolved
    BY DEF Init, Resolved
  <1>3. Current = {}
    BY ChainIsReach, ReachNone DEF Init, Current
  <1>4. \A j \in Id : pc[Server(j)] = "none" /\ held[Server(j)] = {} /\ next[Server(j)] = None
    BY ServerIsProc DEF Init
  <1>5. FrameInv /\ OneOwner /\ Synced /\ Delivered
    BY <1>3, <1>4 DEF FrameInv, FrameOK, OneOwner, Synced, Delivered
  <1>6. Fresh
    BY DEF Init, Fresh, NotProcessed
  <1>7. StreamsInv
    <2>1. log = <<>> /\ \A o \in Objects : store[o] = Absent
      BY DEF Init
    <2>2. \A k \in Id : stream[k] = <<>> /\ bookmark[k] = 0
      BY DEF Init
    <2> QED  BY <1>4, <2>1, <2>2 DEF StreamsInv, LogOK, StreamOK, Working
  <1>8. LastInv /\ Owed
    BY DEF Init, LastInv, Owed
  <1>9. Superseded
    BY ConstantsAssumption DEF Init, Superseded
  <1>10. OwnFrame /\ SendInv
    BY <1>4 DEF OwnFrame, SendInv, Sending, InFrame
  <1> QED
    BY <1>1, <1>2, <1>5, <1>6, <1>7, <1>8, <1>9, <1>10 DEF DeliveryInv, Ground

LEMMA NextDelivery ==
  ASSUME DeliveryInv, [Next]_vars, Timely
  PROVE  DeliveryInv'
  <1>1. TypeOK /\ Resolved /\ LockInv /\ PlaceInv /\ OwnerInv /\ LinkInv /\ Started
    BY DEF DeliveryInv, PlaceInv
  <1>2. TypeOK' /\ Resolved' /\ LockInv'
    BY <1>1, NextTypeOK, NextResolved, NextLockInv
  <1>3. PlaceInv' /\ OwnerInv'
    BY <1>1, NextPlaces
  <1>4. FrameInv' /\ OneOwner' /\ Fresh' /\ StreamsInv' /\ LastInv'
    BY <1>1, NextFrameInv, NextOneOwner, NextFresh, NextStreamsInv, NextLastInv
    DEF DeliveryInv, Ground
  <1>5. Superseded' /\ OwnFrame' /\ SendInv'
    BY <1>1, NextSuperseded, NextOwnFrame, NextSendInv DEF DeliveryInv, Ground
  <1>6. Synced' /\ Delivered' /\ Owed'
    BY <1>1, NextSynced, NextDelivered, NextOwed DEF DeliveryInv
  <1> QED  BY <1>2, <1>3, <1>4, <1>5, <1>6 DEF DeliveryInv, Ground

LEMMA DeliveryConverges == DeliveryInv => ConvergedUnlessLate
  <1> SUFFICES ASSUME DeliveryInv, Quiet,
                      NEW c \in Served, ~Late(c), NEW o \in Objects,
                      store[o] # Absent, <<c, o>> \notin FilteredOut
               PROVE  LastVersion(c, o) = store[o].rv
    BY DEF ConvergedUnlessLate
  <1>t. TypeOK /\ Current \subseteq Id /\ \A n \in Id : clientsMap[n] \subseteq Id
    BY ServerTypes DEF DeliveryInv
  <1>1. PICK n \in Current : c \in clientsMap[n]
    BY DEF Served, Current
  <1>2. c \in Id
    BY <1>t, <1>1
  <1>3. Connected(currentNotifier) /\ currentNotifier # None
    BY DEF Quiet, Connected
  <1>4. OwedAt(n, c, o)
    BY <1>1, <1>3 DEF DeliveryInv, Owed, Follows
  <1>5. ~InStream(stream[currentNotifier], o)
    BY DEF Quiet, InStream
  <1>6. ~InHand(currentNotifier, n, c, o)
    BY DEF Quiet, InHand
  <1> QED  BY <1>2, <1>4, <1>5, <1>6, LastVersionKnown DEF OwedAt

\* When the current connection is quiet, every client with an open channel, old
\* or new, knows the current version of every object that its filter accepts,
\* but for clients that a superseded goroutine sent to: handovers by Watch,
\* drained BOOKMARKs, re-listings and resumed connections lose no update
\* (kubeWatchServiceShared.go, acceptEvent and sendToClients).  No timer of a
\* send expires: where one does (384-385) the code returns, and the event is
\* lost for the other clients of that notifier.
THEOREM DeliversTheNewestVersion == Spec /\ [][Timely]_vars => []ConvergedUnlessLate
  <1>1. DeliveryInv /\ [Next]_vars /\ [Timely]_vars => DeliveryInv'
    <2>1. CASE UNCHANGED vars
      <3> SUFFICES ASSUME DeliveryInv, UNCHANGED vars PROVE DeliveryInv'
        BY <2>1
      <3>1. channel \in [Id -> {"none", "open", "closed"}]
        BY Groups DEF DeliveryInv, ClientTypeOK
      <3>2. Timely
        <4> SUFFICES ASSUME NEW k \in Id, NEW n \in Id, NEW c \in Id, SendTimeout(k, n, c) PROVE FALSE
          BY DEF Timely
        <4>1. channel[c] = "open" /\ channel' = [channel EXCEPT ![c] = "closed"]
          BY DEF SendTimeout
        <4>2. channel' = channel
          BY DEF vars, clientVars
        <4> QED  BY <3>1, <4>1, <4>2
      <3> QED  BY <3>2, NextDelivery
    <2>2. ASSUME DeliveryInv, [Next]_vars, Timely PROVE DeliveryInv'
      BY <2>2, NextDelivery
    <2> QED  BY <2>1, <2>2
  <1> QED  BY <1>1, InitDelivery, DeliveryConverges, PTL DEF Spec

\* The same for clients that all read what they are sent and do not stop: their
\* timers never expire (kubeWatchServiceShared.go:376-386).
THEOREM ReadersKnowTheNewest ==
  ASSUME SlowClients = {}, StopKinds = {}
  PROVE  Spec => []ConvergedUnlessLate
  <1>1. Timely
    BY DEF Timely, SendTimeout, TimerExpires, Reads
  <1>2. [Next]_vars => [Timely]_vars
    BY <1>1
  <1> QED  BY <1>2, DeliversTheNewestVersion, PTL DEF Spec
=============================================================================
