---------------------------- MODULE RestWatchProofs ----------------------------
(***************************************************************************)
(* What holds of the watch loop for any objects and any bounds on the      *)
(* server: it never leaves a request behind, it forwards without a gap,    *)
(* and it implements the stream that SharedWatch reads.                    *)
(***************************************************************************)
EXTENDS RestWatchProperties, FiniteSetTheorems, SequenceTheorems, TLAPS

\* The requests are numbered, and the watcher is nil or that of the latest.
Numbered == requests \in Nat /\ watcher \in {0, requests}

\* Only the watcher's request is served.
Latest == alive \subseteq {watcher} \ {0}

\* A request whose result channel is closed is not served any more, and the
\* loop asks for the next one only then.
Over ==
  /\ ~apiOpen => alive = {}
  /\ pc \in {"none", "connect", "fail", "done"} => alive = {}

RequestInv == Numbered /\ Latest /\ Over

LEMMA RequestInit == Init => RequestInv
BY DEF Init, RequestInv, Numbered, Latest, Over

\* A new request, made when none is served.
LEMMA RequestedOne ==
  ASSUME RequestInv, alive = {}, NEW version, Requested(version), pc' = "select"
  PROVE  RequestInv'
BY DEF RequestInv, Numbered, Latest, Over, Requested

\* The steps that touch neither the requests nor the loop's place.
LEMMA RequestElsewhere ==
  ASSUME RequestInv,
         UNCHANGED <<requests, watcher, alive, apiOpen, pc>>
  PROVE  RequestInv'
BY DEF RequestInv, Numbered, Latest, Over

LEMMA RequestNext == RequestInv /\ [Next]_vars => RequestInv'
<1> SUFFICES ASSUME RequestInv, [Next]_vars PROVE RequestInv'
  OBVIOUS
<1>1. CASE Server
  <2>1. CASE EndRequest
    BY <2>1 DEF EndRequest, loopVars, RequestInv, Numbered, Latest, Over
  <2>2. CASE ~EndRequest
    BY <1>1, <2>2, RequestElsewhere
       DEF Server, Change, Transmit, SendBookmark, SendControl, serverVars, apiVars, loopVars
  <2> QED BY <2>1, <2>2
<1>2. CASE Watch
  BY <1>2, RequestedOne DEF Watch, RequestInv, Over
<1>3. CASE WatchError
  BY <1>3 DEF WatchError, serverVars, apiVars, RequestInv, Numbered, Latest, Over
<1>4. CASE Loop
  <2>1. CASE SeeDone \/ TakeInvalid
    BY <2>1 DEF SeeDone, TakeInvalid, NextIs, serverVars, apiVars,
                RequestInv, Numbered, Latest, Over
  <2>2. CASE TakeEvent
    BY <2>2 DEF TakeEvent, Take, serverVars, RequestInv, Numbered, Latest, Over
  <2>3. CASE TakeBookmark
    BY <2>3 DEF TakeBookmark, NextIs, Take, serverVars, RequestInv, Numbered, Latest, Over
  <2>4. CASE TakeUnsupported
    BY <2>4, RequestElsewhere DEF TakeUnsupported, serverVars
  <2>5. CASE TakeError
    BY <2>5 DEF TakeError, Stopped, RequestInv, Numbered, Latest, Over
  <2>6. CASE SeeEnd
    BY <2>6 DEF SeeEnd, serverVars, apiVars, RequestInv, Numbered, Latest, Over
  <2>7. CASE Reconnect
    BY <2>7, RequestedOne DEF Reconnect, RequestInv, Over
  <2>8. CASE ReconnectError
    BY <2>8 DEF ReconnectError, serverVars, apiVars, RequestInv, Numbered, Latest, Over
  <2>9. CASE Send
    BY <2>9 DEF Send, serverVars, apiVars, RequestInv, Numbered, Latest, Over
  <2>10. CASE CloseChannel
    BY <2>10 DEF CloseChannel, serverVars, apiVars, RequestInv, Numbered, Latest, Over
  <2>11. CASE StopWatcher
    BY <2>11 DEF StopWatcher, Stopped, apiVars, RequestInv, Numbered, Latest, Over
  <2> QED BY <1>4, <2>1, <2>2, <2>3, <2>4, <2>5, <2>6, <2>7, <2>8, <2>9, <2>10, <2>11 DEF Loop
<1>5. CASE Reader
  BY <1>5, RequestElsewhere DEF Reader, Cancel, Leave, Receive, serverVars, apiVars, loopVars
<1>6. CASE UNCHANGED vars
  BY <1>6, RequestElsewhere DEF vars, serverVars, apiVars, loopVars
<1> QED BY <1>1, <1>2, <1>3, <1>4, <1>5, <1>6 DEF Next

\* The API server serves at most the loop's latest request, none while the loop
\* reconnects, and none after its end: no watch connection is ever leaked by a
\* loop that ends (kubeWatchService.go 83-114, 128-135).
THEOREM OneRequestOnly == Spec => []OneRequest
<1>1. RequestInv => OneRequest
  BY DEF RequestInv, Latest, Over, OneRequest
<1> QED BY <1>1, RequestInit, RequestNext, PTL DEF Spec

(***************************************************************************)
(* What has been forwarded and is under way.                               *)
(*                                                                         *)
(* Below, L is a log, G a sequence of forwarded messages and A one of      *)
(* events in a result channel; b is the request with the last listing.     *)
(***************************************************************************)
Changes == {"ADDED", "MODIFIED", "DELETED"}
ApiEvent == [type : Changes \cup {"BOOKMARK"} \cup Controls,
             obj : Objects \cup {NoObject}, rv : Nat, gen : Nat]
Message == [event : ApiEvent, req : Nat]

IsChange(L, e) ==
  /\ e.type \in Changes /\ e.obj \in Objects /\ e.gen = 0
  /\ e.rv \in DOMAIN L /\ L[e.rv].obj = e.obj
  /\ (e.type = "DELETED" <=> L[e.rv].type = "DELETED")

IsItem(L, e) ==
  \/ IsChange(L, e)
  \/ e = Bookmark(e.rv)
  \/ e = Control(e.type) /\ e.type \in Controls

LogOK(L) ==
  /\ L \in Seq(Event)
  /\ \A i \in DOMAIN L : L[i].type \in Changes /\ L[i].obj \in Objects /\ L[i].rv = i /\ L[i].gen = 0

\* The last change of object o up to version v is that to version l.
LastChange(L, o, v, l) ==
  /\ l \in 1 .. v /\ L[l].obj = o
  /\ \A i \in l + 1 .. v : L[i].obj # o

Reached(G, A, k, e) ==
  \/ \E j \in DOMAIN G : G[j].event = e
  \/ \E n \in DOMAIN A : n <= k /\ A[n] = e

Has(e, o, l) == e.obj = o /\ e.rv = l
Listed(G, A, k, b, o, l) ==
  \/ \E j \in DOMAIN G : Has(G[j].event, o, l) /\ G[j].req >= b
  \/ \E n \in DOMAIN A : n <= k /\ Has(A[n], o, l)

\* Everything up to version v has been forwarded, or is in the first k places of
\* A: what was there at version first by a listing, and the changes after that.
Covered(L, G, A, b, first, v, k) ==
  /\ \A i \in first + 1 .. v : Reached(G, A, k, L[i])
  /\ \A o \in Objects : \A l \in 1 .. first :
       LastChange(L, o, first, l) /\ L[l].type # "DELETED" => Listed(G, A, k, b, o, l)

Older(e, o, l) == e.obj = o /\ e.rv < l
Newer(e, o, l) == e.obj = o /\ e.rv >= l

\* What is older than version l of object o comes before something newer.
Passed(G, A, o, l) ==
  /\ \A n \in DOMAIN G : Older(G[n].event, o, l) =>
       \/ \E m \in DOMAIN G : m > n /\ Newer(G[m].event, o, l)
       \/ \E m \in DOMAIN A : Newer(A[m], o, l)
  /\ \A n \in DOMAIN A : Older(A[n], o, l) => \E m \in DOMAIN A : m > n /\ Newer(A[m], o, l)

NotStale(L, G, A, b, v) ==
  \A o \in Objects : \A l \in 1 .. v :
    LastChange(L, o, v, l) /\ (b = 1 \/ L[l].type # "DELETED") => Passed(G, A, o, l)

\* A BOOKMARK under way is a place to resume from when it is taken.
Complete(L, G, A, b, v) ==
  /\ NotStale(L, G, A, b, v)
  /\ \E first \in 0 .. v :
       /\ Covered(L, G, A, b, first, v, Len(A))
       /\ \A k \in DOMAIN A : A[k].type = "BOOKMARK" =>
            /\ A[k].rv \in first .. v
            /\ Covered(L, G, A, b, first, A[k].rv, k - 1) /\ NotStale(L, G, A, b, A[k].rv)

Marked(L, G, b, v) == \E first \in 0 .. v : Covered(L, G, <<>>, b, first, v, 0)

(***************************************************************************)
(* The changes of the cluster.                                             *)
(***************************************************************************)
LEMMA LogGrows ==
  ASSUME NEW L, LogOK(L), NEW e \in Event, e.type \in Changes, e.obj \in Objects,
         e.rv = Len(L) + 1, e.gen = 0
  PROVE  /\ LogOK(Append(L, e)) /\ Len(Append(L, e)) = Len(L) + 1
         /\ \A i \in 1 .. Len(L) : Append(L, e)[i] = L[i]
         /\ Append(L, e)[Len(L) + 1] = e
<1>1. L \in Seq(Event) /\ Len(L) \in Nat /\ DOMAIN L = 1 .. Len(L)
  BY DEF LogOK
<1>2. /\ Append(L, e) \in Seq(Event) /\ Len(Append(L, e)) = Len(L) + 1
      /\ DOMAIN Append(L, e) = 1 .. Len(L) + 1
      /\ \A i \in 1 .. Len(L) : Append(L, e)[i] = L[i]
      /\ Append(L, e)[Len(L) + 1] = e
  BY <1>1, AppendProperties
<1> QED  BY <1>1, <1>2 DEF LogOK

\* L2 has the changes of L and perhaps more.
Extends(L, L2) ==
  Len(L) \in Nat /\ Len(L2) \in Nat /\ Len(L) <= Len(L2) /\ DOMAIN L = 1 .. Len(L) /\ DOMAIN L2 = 1 .. Len(L2)
  /\ \A i \in 1 .. Len(L) : L2[i] = L[i]

LEMMA ItemStays ==
  ASSUME NEW L, NEW L2, Extends(L, L2), NEW e, IsItem(L, e)
  PROVE  IsItem(L2, e)
BY DEF Extends, IsItem, IsChange

LEMMA ChangeStays ==
  ASSUME NEW L, NEW L2, Extends(L, L2), NEW o, NEW v \in 0 .. Len(L), NEW l
  PROVE  LastChange(L2, o, v, l) <=> LastChange(L, o, v, l)
BY DEF Extends, LastChange

LEMMA CoveredGrows ==
  ASSUME NEW L, NEW L2, Extends(L, L2), NEW G, NEW A, NEW b,
         NEW v \in 0 .. Len(L), NEW first \in 0 .. v, NEW k, Covered(L, G, A, b, first, v, k)
  PROVE  Covered(L2, G, A, b, first, v, k)
<1>1. \A i \in 1 .. v : L2[i] = L[i]
  BY DEF Extends
<1>2. \A o, l : LastChange(L2, o, first, l) <=> LastChange(L, o, first, l)
  BY ChangeStays
<1> QED  BY <1>1, <1>2 DEF Covered

LEMMA NotStaleGrows ==
  ASSUME NEW L, NEW L2, Extends(L, L2), NEW G, NEW A, NEW b,
         NEW v \in 0 .. Len(L), NotStale(L, G, A, b, v)
  PROVE  NotStale(L2, G, A, b, v)
<1>1. \A i \in 1 .. v : L2[i] = L[i]
  BY DEF Extends
<1>2. \A o, l : LastChange(L2, o, v, l) <=> LastChange(L, o, v, l)
  BY ChangeStays
<1> QED  BY <1>1, <1>2 DEF NotStale

LEMMA CompleteGrows ==
  ASSUME NEW L, NEW L2, Extends(L, L2), NEW G, NEW A, NEW b,
         NEW v \in 0 .. Len(L), Complete(L, G, A, b, v)
  PROVE  Complete(L2, G, A, b, v)
<1>1. NotStale(L2, G, A, b, v)
  BY NotStaleGrows DEF Complete
<1>2. PICK first \in 0 .. v :
        /\ Covered(L, G, A, b, first, v, Len(A))
        /\ \A k \in DOMAIN A : A[k].type = "BOOKMARK" =>
             /\ A[k].rv \in first .. v
             /\ Covered(L, G, A, b, first, A[k].rv, k - 1) /\ NotStale(L, G, A, b, A[k].rv)
  BY DEF Complete
<1>3. Covered(L2, G, A, b, first, v, Len(A))
  BY <1>2, CoveredGrows
<1>4. ASSUME NEW k \in DOMAIN A, A[k].type = "BOOKMARK"
      PROVE  /\ A[k].rv \in first .. v
             /\ Covered(L2, G, A, b, first, A[k].rv, k - 1) /\ NotStale(L2, G, A, b, A[k].rv)
  <2>1. A[k].rv \in first .. v /\ A[k].rv \in 0 .. Len(L) /\ first \in 0 .. A[k].rv
    BY <1>2, <1>4 DEF Extends
  <2> QED  BY <1>2, <1>4, <2>1, CoveredGrows, NotStaleGrows
<1> QED  BY <1>1, <1>2, <1>3, <1>4 DEF Complete

LEMMA MarkedGrows ==
  ASSUME NEW L, NEW L2, Extends(L, L2), NEW G, NEW b, NEW v \in 0 .. Len(L), Marked(L, G, b, v)
  PROVE  Marked(L2, G, b, v)
BY CoveredGrows DEF Marked

(***************************************************************************)
(* Another event in the result channel.                                    *)
(***************************************************************************)
LEMMA AppendShape ==
  ASSUME NEW S, NEW s \in Seq(S), NEW e \in S
  PROVE  /\ Append(s, e) \in Seq(S) /\ Len(Append(s, e)) = Len(s) + 1 /\ Len(s) \in Nat
         /\ DOMAIN s = 1 .. Len(s) /\ DOMAIN Append(s, e) = 1 .. Len(s) + 1
         /\ \A i \in 1 .. Len(s) : Append(s, e)[i] = s[i]
         /\ Append(s, e)[Len(s) + 1] = e
BY AppendProperties

LEMMA CoveredSent ==
  ASSUME NEW L, NEW G, NEW A \in Seq(ApiEvent), NEW e \in ApiEvent, NEW b, NEW first, NEW v,
         NEW k \in Nat, NEW n \in Nat, k <= n, Covered(L, G, A, b, first, v, k)
  PROVE  Covered(L, G, Append(A, e), b, first, v, n)
<1>1. \A i \in DOMAIN A : i \in DOMAIN Append(A, e) /\ Append(A, e)[i] = A[i] /\ (i <= k => i <= n)
  BY AppendShape
<1> HIDE DEF ApiEvent
<1>2. ASSUME NEW x, Reached(G, A, k, x)  PROVE Reached(G, Append(A, e), n, x)
  BY <1>1, <1>2 DEF Reached
<1>3. ASSUME NEW o, NEW l, Listed(G, A, k, b, o, l)  PROVE Listed(G, Append(A, e), n, b, o, l)
  BY <1>1, <1>3 DEF Listed
<1> QED  BY <1>2, <1>3 DEF Covered

LEMMA NotStaleSent ==
  ASSUME NEW L, NEW G, NEW A \in Seq(ApiEvent), NEW e \in ApiEvent, NEW b, NEW v \in Nat,
         e.obj \in Objects => e.rv >= v, NotStale(L, G, A, b, v)
  PROVE  NotStale(L, G, Append(A, e), b, v)
<1> SUFFICES ASSUME NEW o \in Objects, NEW l \in 1 .. v, Passed(G, A, o, l)
             PROVE  Passed(G, Append(A, e), o, l)
  BY DEF NotStale
<1>1. /\ \A i \in DOMAIN A : i \in DOMAIN Append(A, e) /\ Append(A, e)[i] = A[i]
      /\ \A i \in DOMAIN Append(A, e) : i \in DOMAIN A \/ Append(A, e)[i] = e
  BY AppendShape
<1>2. ~Older(e, o, l)
  BY DEF Older, ApiEvent
<1> HIDE DEF ApiEvent
<1>3. \A n \in DOMAIN Append(A, e) : Older(Append(A, e)[n], o, l) => n \in DOMAIN A /\ Older(A[n], o, l)
  BY <1>1, <1>2
<1> QED  BY <1>1, <1>3 DEF Passed

LEMMA CompleteSent ==
  ASSUME NEW L, LogOK(L), NEW G, NEW A \in Seq(ApiEvent), NEW e \in ApiEvent, NEW b, NEW v \in 0 .. Len(L),
         Complete(L, G, A, b, v), NEW w \in v .. Len(L),
         \/ w = v + 1 /\ e = L[w]
         \/ w = v /\ e = Bookmark(v)
         \/ w = v /\ e.type \in Controls /\ e.obj = NoObject
  PROVE  Complete(L, G, Append(A, e), b, w)
<1>1. /\ Len(Append(A, e)) = Len(A) + 1 /\ Len(A) \in Nat /\ DOMAIN Append(A, e) = 1 .. Len(A) + 1
      /\ DOMAIN A = 1 .. Len(A)
      /\ \A i \in DOMAIN A : Append(A, e)[i] = A[i]
      /\ Append(A, e)[Len(A) + 1] = e
  BY AppendShape
<1>2. /\ e.obj \in Objects => w = v + 1 /\ e.rv = w
      /\ e.type = "BOOKMARK" => w = v /\ e.rv = v
      /\ Len(L) \in Nat
  BY ObjectsAssumption DEF LogOK, Bookmark, Controls, Changes
<1>3. PICK first \in 0 .. v :
        /\ Covered(L, G, A, b, first, v, Len(A))
        /\ \A k \in DOMAIN A : A[k].type = "BOOKMARK" =>
             /\ A[k].rv \in first .. v
             /\ Covered(L, G, A, b, first, A[k].rv, k - 1) /\ NotStale(L, G, A, b, A[k].rv)
  BY DEF Complete
<1>4. NotStale(L, G, Append(A, e), b, v)
  BY <1>2, NotStaleSent DEF Complete
<1>5. NotStale(L, G, Append(A, e), b, w)
  <2>1. CASE w = v
    BY <1>4, <2>1
  <2>2. CASE w = v + 1 /\ e = L[w]
    <3> SUFFICES ASSUME NEW o \in Objects, NEW l \in 1 .. w, LastChange(L, o, w, l),
                        b = 1 \/ L[l].type # "DELETED"
                 PROVE  Passed(G, Append(A, e), o, l)
      BY DEF NotStale
    <3>1. CASE l = w
      <4>1. e.obj = o /\ e.rv = l
        BY <2>2, <3>1 DEF LastChange, LogOK
      <4>2. Newer(e, o, l) /\ ~Older(e, o, l)
        BY <4>1 DEF Newer, Older
      <4>3. \A n \in DOMAIN Append(A, e) : Older(Append(A, e)[n], o, l) => Len(A) + 1 > n
        BY <1>1, <4>2
      <4> QED  BY <1>1, <4>2, <4>3 DEF Passed
    <3>2. CASE l # w
      <4>1. LastChange(L, o, v, l) /\ l \in 1 .. v
        BY <2>2, <3>2 DEF LastChange
      <4> QED  BY <1>4, <4>1 DEF NotStale
    <3> QED  BY <3>1, <3>2
  <2> QED  BY <2>1, <2>2
<1>6. Covered(L, G, Append(A, e), b, first, v, Len(A) + 1)
  BY <1>1, <1>3, CoveredSent
<1>7. Covered(L, G, Append(A, e), b, first, w, Len(A) + 1)
  <2>1. CASE w = v
    BY <1>6, <2>1
  <2>2. CASE w = v + 1 /\ e = L[w]
    <3>1. Reached(G, Append(A, e), Len(A) + 1, L[w])
      BY <1>1, <2>2 DEF Reached
    <3> QED  BY <1>6, <2>2, <3>1 DEF Covered
  <2> QED  BY <2>1, <2>2
<1>8. ASSUME NEW k \in DOMAIN Append(A, e), Append(A, e)[k].type = "BOOKMARK"
      PROVE  /\ Append(A, e)[k].rv \in first .. w
             /\ Covered(L, G, Append(A, e), b, first, Append(A, e)[k].rv, k - 1)
             /\ NotStale(L, G, Append(A, e), b, Append(A, e)[k].rv)
  <2>1. CASE k \in DOMAIN A
    <3>1. Append(A, e)[k] = A[k] /\ A[k].rv \in first .. v /\ k - 1 \in Nat
      BY <1>1, <1>3, <1>8, <2>1
    <3>2. e.obj \in Objects => e.rv >= A[k].rv
      BY <1>2, <3>1
    <3>3. Covered(L, G, Append(A, e), b, first, A[k].rv, k - 1)
      BY <1>3, <1>8, <2>1, <3>1, CoveredSent
    <3>4. NotStale(L, G, Append(A, e), b, A[k].rv)
      BY <1>3, <1>8, <2>1, <3>1, <3>2, NotStaleSent
    <3> QED  BY <3>1, <3>3, <3>4
  <2>2. CASE k = Len(A) + 1
    <3>1. Append(A, e)[k].rv = v /\ w = v
      BY <1>1, <1>2, <1>8, <2>2
    <3>2. Covered(L, G, Append(A, e), b, first, v, Len(A))
      BY <1>1, <1>3, CoveredSent
    <3> QED  BY <1>1, <1>4, <2>2, <3>1, <3>2
  <2> QED  BY <1>1, <2>1, <2>2
<1> QED  BY <1>1, <1>5, <1>7, <1>8, SMTT(20) DEF Complete

(***************************************************************************)
(* The loop takes the first event of the result channel.                   *)
(***************************************************************************)
LEMMA TailShape ==
  ASSUME NEW S, NEW s \in Seq(S), s # <<>>
  PROVE  /\ Tail(s) \in Seq(S) /\ Len(s) \in Nat /\ Len(s) >= 1 /\ Len(Tail(s)) = Len(s) - 1
         /\ DOMAIN s = 1 .. Len(s) /\ DOMAIN Tail(s) = 1 .. Len(s) - 1
         /\ Head(s) = s[1] /\ Head(s) \in S
         /\ \A i \in 1 .. Len(s) - 1 : Tail(s)[i] = s[i + 1]
BY EmptySeq, HeadTailProperties

\* What is taken has been forwarded, or was not for the reader.
Taken(G, A, b, G2) ==
  \/ \E r \in Nat : r >= b /\ G2 = Append(G, [event |-> Head(A), req |-> r])
  \/ G2 = G /\ Head(A).type \notin Changes /\ Head(A).obj = NoObject

LEMMA TakenShape ==
  ASSUME NEW G \in Seq(Message), NEW A \in Seq(ApiEvent), A # <<>>, NEW b, NEW G2, Taken(G, A, b, G2)
  PROVE  /\ G2 \in Seq(Message) /\ Len(G) \in Nat /\ DOMAIN G = 1 .. Len(G)
         /\ DOMAIN G2 \in {1 .. Len(G), 1 .. Len(G) + 1}
         /\ \A i \in 1 .. Len(G) : G2[i] = G[i]
         /\ Len(G) + 1 \in DOMAIN G2 => G2[Len(G) + 1].event = Head(A) /\ G2[Len(G) + 1].req >= b
         /\ Len(G) + 1 \notin DOMAIN G2 => Head(A).type \notin Changes /\ Head(A).obj = NoObject
<1>1. Head(A) \in ApiEvent
  BY TailShape
<1> HIDE DEF ApiEvent
<1>2. CASE G2 = G /\ Head(A).type \notin Changes /\ Head(A).obj = NoObject
  BY <1>2
<1>3. CASE \E r \in Nat : r >= b /\ G2 = Append(G, [event |-> Head(A), req |-> r])
  <2>1. PICK r \in Nat : r >= b /\ G2 = Append(G, [event |-> Head(A), req |-> r])
    BY <1>3
  <2> DEFINE m == [event |-> Head(A), req |-> r]
  <2>2. m \in Message /\ m.event = Head(A) /\ m.req = r
    BY <1>1 DEF Message
  <2> HIDE DEF m, Message
  <2>3. G2 = Append(G, m)
    BY <2>1 DEF m
  <2> QED  BY <2>1, <2>2, <2>3, AppendShape
<1> QED  BY <1>2, <1>3 DEF Taken

LEMMA CoveredTaken ==
  ASSUME NEW L, LogOK(L), NEW G \in Seq(Message), NEW A \in Seq(ApiEvent), A # <<>>, NEW b, NEW G2,
         Taken(G, A, b, G2), NEW v \in 0 .. Len(L), NEW first \in 0 .. v, NEW k \in Nat,
         Covered(L, G, A, b, first, v, k)
  PROVE  Covered(L, G2, Tail(A), b, first, v, k - 1)
<1>1. /\ DOMAIN A = 1 .. Len(A) /\ DOMAIN Tail(A) = 1 .. Len(A) - 1 /\ Head(A) = A[1] /\ Len(A) \in Nat
      /\ \A i \in 1 .. Len(A) - 1 : Tail(A)[i] = A[i + 1]
  BY TailShape
<1>2. /\ G2 \in Seq(Message) /\ Len(G) \in Nat /\ DOMAIN G = 1 .. Len(G)
      /\ DOMAIN G2 \in {1 .. Len(G), 1 .. Len(G) + 1}
      /\ \A i \in 1 .. Len(G) : G2[i] = G[i]
      /\ Len(G) + 1 \in DOMAIN G2 => G2[Len(G) + 1].event = Head(A) /\ G2[Len(G) + 1].req >= b
      /\ Len(G) + 1 \notin DOMAIN G2 => Head(A).type \notin Changes /\ Head(A).obj = NoObject
  BY TakenShape, Zenon
<1>3. \A n \in DOMAIN A : n # 1 => n - 1 \in DOMAIN Tail(A) /\ Tail(A)[n - 1] = A[n] /\ (n <= k => n - 1 <= k - 1)
  BY <1>1
<1>4. ASSUME NEW x, x.type \in Changes, Reached(G, A, k, x)  PROVE Reached(G2, Tail(A), k - 1, x)
  <2>1. CASE \E j \in DOMAIN G : G[j].event = x
    BY <1>2, <2>1 DEF Reached
  <2>2. CASE \E n \in DOMAIN A : n <= k /\ A[n] = x
    <3>1. PICK n \in DOMAIN A : n <= k /\ A[n] = x
      BY <2>2
    <3>2. CASE n = 1
      BY <1>1, <1>2, <1>4, <3>1, <3>2 DEF Reached
    <3>3. CASE n # 1
      BY <1>3, <3>1, <3>3 DEF Reached
    <3> QED  BY <3>2, <3>3
  <2> QED  BY <1>4, <2>1, <2>2 DEF Reached
<1>5. ASSUME NEW o \in Objects, NEW l, Listed(G, A, k, b, o, l)  PROVE Listed(G2, Tail(A), k - 1, b, o, l)
  <2>1. CASE \E j \in DOMAIN G : Has(G[j].event, o, l) /\ G[j].req >= b
    BY <1>2, <2>1 DEF Listed
  <2>2. CASE \E n \in DOMAIN A : n <= k /\ Has(A[n], o, l)
    <3>1. PICK n \in DOMAIN A : n <= k /\ Has(A[n], o, l)
      BY <2>2
    <3>2. CASE n = 1
      <4>1. Head(A).obj # NoObject
        BY <1>1, <3>1, <3>2, ObjectsAssumption DEF Has
      <4> QED  BY <1>1, <1>2, <3>1, <3>2, <4>1 DEF Listed
    <3>3. CASE n # 1
      BY <1>3, <3>1, <3>3 DEF Listed
    <3> QED  BY <3>2, <3>3
  <2> QED  BY <1>5, <2>1, <2>2 DEF Listed
<1>6. \A i \in first + 1 .. v : L[i].type \in Changes
  BY DEF LogOK
<1> QED  BY <1>4, <1>5, <1>6 DEF Covered

LEMMA NotStaleTaken ==
  ASSUME NEW L, NEW G \in Seq(Message), NEW A \in Seq(ApiEvent), A # <<>>, NEW b, NEW G2,
         Taken(G, A, b, G2), NEW v, NotStale(L, G, A, b, v)
  PROVE  NotStale(L, G2, Tail(A), b, v)
<1>1. /\ DOMAIN A = 1 .. Len(A) /\ DOMAIN Tail(A) = 1 .. Len(A) - 1 /\ Head(A) = A[1] /\ Len(A) \in Nat /\ Len(A) >= 1
      /\ \A i \in 1 .. Len(A) - 1 : Tail(A)[i] = A[i + 1]
  BY TailShape
<1>2. /\ Len(G) \in Nat /\ DOMAIN G = 1 .. Len(G)
      /\ DOMAIN G2 \in {1 .. Len(G), 1 .. Len(G) + 1}
      /\ \A i \in 1 .. Len(G) : G2[i] = G[i]
      /\ Len(G) + 1 \in DOMAIN G2 => G2[Len(G) + 1].event = Head(A) /\ G2[Len(G) + 1].req >= b
      /\ Len(G) + 1 \notin DOMAIN G2 => Head(A).type \notin Changes /\ Head(A).obj = NoObject
  BY TakenShape
<1> SUFFICES ASSUME NEW o \in Objects, NEW l \in 1 .. v, Passed(G, A, o, l)
             PROVE  Passed(G2, Tail(A), o, l)
  BY DEF NotStale
<1>3. \A m \in DOMAIN A : m # 1 => m - 1 \in DOMAIN Tail(A) /\ Tail(A)[m - 1] = A[m]
  BY <1>1
<1>4. Newer(A[1], o, l) => Len(G) + 1 \in DOMAIN G2 /\ Newer(G2[Len(G) + 1].event, o, l)
  BY <1>1, <1>2, ObjectsAssumption DEF Newer
<1>5. ASSUME NEW n \in DOMAIN G2, Older(G2[n].event, o, l)
      PROVE  \/ \E m \in DOMAIN G2 : m > n /\ Newer(G2[m].event, o, l)
             \/ \E m \in DOMAIN Tail(A) : Newer(Tail(A)[m], o, l)
  <2>1. CASE n \in 1 .. Len(G)
    <3>1. \/ \E m \in DOMAIN G : m > n /\ Newer(G[m].event, o, l)
          \/ \E m \in DOMAIN A : Newer(A[m], o, l)
      BY <1>2, <1>5, <2>1 DEF Passed
    <3>2. CASE \E m \in DOMAIN G : m > n /\ Newer(G[m].event, o, l)
      BY <1>2, <3>2
    <3>3. CASE \E m \in DOMAIN A : m # 1 /\ Newer(A[m], o, l)
      BY <1>3, <3>3
    <3>4. CASE Newer(A[1], o, l)
      <4>1. Len(G) + 1 > n
        BY <1>2, <2>1
      <4> QED  BY <1>4, <3>4, <4>1
    <3> QED  BY <3>1, <3>2, <3>3, <3>4
  <2>2. CASE n = Len(G) + 1
    <3>1. Older(A[1], o, l) /\ 1 \in DOMAIN A
      BY <1>1, <1>2, <1>5, <2>2
    <3>2. PICK m \in DOMAIN A : m > 1 /\ Newer(A[m], o, l)
      BY <3>1 DEF Passed
    <3> QED  BY <1>3, <3>2
  <2> QED  BY <1>2, <2>1, <2>2
<1>6. ASSUME NEW n \in DOMAIN Tail(A), Older(Tail(A)[n], o, l)
      PROVE  \E m \in DOMAIN Tail(A) : m > n /\ Newer(Tail(A)[m], o, l)
  <2>1. n + 1 \in DOMAIN A /\ Older(A[n + 1], o, l) /\ n \in Nat
    BY <1>1, <1>6
  <2>2. PICK m \in DOMAIN A : m > n + 1 /\ Newer(A[m], o, l)
    BY <2>1 DEF Passed
  <2>3. m \in Nat /\ m # 1 /\ m - 1 > n
    BY <1>1, <2>1, <2>2
  <2> QED  BY <1>3, <2>2, <2>3
<1> QED  BY <1>5, <1>6 DEF Passed

LEMMA CompleteTaken ==
  ASSUME NEW L, LogOK(L), NEW G \in Seq(Message), NEW A \in Seq(ApiEvent), A # <<>>, NEW b, NEW G2,
         Taken(G, A, b, G2), NEW v \in 0 .. Len(L), Complete(L, G, A, b, v)
  PROVE  /\ Complete(L, G2, Tail(A), b, v)
         /\ Head(A).type = "BOOKMARK" =>
              /\ Head(A).rv \in 0 .. v /\ NotStale(L, G2, Tail(A), b, Head(A).rv)
              /\ Marked(L, G2, b, Head(A).rv)
<1>1. /\ DOMAIN A = 1 .. Len(A) /\ DOMAIN Tail(A) = 1 .. Len(A) - 1 /\ Head(A) = A[1] /\ Len(A) \in Nat /\ Len(A) >= 1
      /\ \A i \in 1 .. Len(A) - 1 : Tail(A)[i] = A[i + 1] /\ Len(Tail(A)) = Len(A) - 1
      /\ Len(Tail(A)) = Len(A) - 1
  BY TailShape
<1>2. PICK first \in 0 .. v :
        /\ Covered(L, G, A, b, first, v, Len(A))
        /\ \A k \in DOMAIN A : A[k].type = "BOOKMARK" =>
             /\ A[k].rv \in first .. v
             /\ Covered(L, G, A, b, first, A[k].rv, k - 1) /\ NotStale(L, G, A, b, A[k].rv)
  BY DEF Complete
<1>3. NotStale(L, G2, Tail(A), b, v)
  BY NotStaleTaken DEF Complete
<1>4. Covered(L, G2, Tail(A), b, first, v, Len(Tail(A)))
  BY <1>1, <1>2, CoveredTaken
<1>5. Len(L) \in Nat
  BY DEF LogOK
<1>6. ASSUME NEW k \in DOMAIN A, A[k].type = "BOOKMARK"
      PROVE  /\ A[k].rv \in first .. v /\ A[k].rv \in 0 .. Len(L) /\ first \in 0 .. A[k].rv
             /\ Covered(L, G2, Tail(A), b, first, A[k].rv, k - 2)
             /\ NotStale(L, G2, Tail(A), b, A[k].rv)
  <2>1. A[k].rv \in first .. v /\ A[k].rv \in 0 .. Len(L) /\ first \in 0 .. A[k].rv /\ k - 1 \in Nat
    BY <1>1, <1>2, <1>5, <1>6
  <2>2. Covered(L, G2, Tail(A), b, first, A[k].rv, (k - 1) - 1)
    BY <1>2, <1>6, <2>1, CoveredTaken
  <2>3. (k - 1) - 1 = k - 2
    BY <1>1
  <2>4. NotStale(L, G2, Tail(A), b, A[k].rv)
    BY <1>2, <1>6, NotStaleTaken
  <2> QED  BY <2>1, <2>2, <2>3, <2>4
<1>7. ASSUME NEW k \in DOMAIN Tail(A), Tail(A)[k].type = "BOOKMARK"
      PROVE  /\ Tail(A)[k].rv \in first .. v
             /\ Covered(L, G2, Tail(A), b, first, Tail(A)[k].rv, k - 1)
             /\ NotStale(L, G2, Tail(A), b, Tail(A)[k].rv)
  <2>1. k + 1 \in DOMAIN A /\ Tail(A)[k] = A[k + 1] /\ (k + 1) - 2 = k - 1
    BY <1>1
  <2> QED  BY <1>6, <1>7, <2>1
<1>8. ASSUME Head(A).type = "BOOKMARK"
      PROVE  /\ Head(A).rv \in 0 .. v /\ NotStale(L, G2, Tail(A), b, Head(A).rv)
             /\ Marked(L, G2, b, Head(A).rv)
  <2>1. 1 \in DOMAIN A /\ 1 - 2 = -1
    BY <1>1
  <2>2. /\ Head(A).rv \in first .. v /\ first \in 0 .. Head(A).rv
        /\ Covered(L, G2, Tail(A), b, first, Head(A).rv, -1) /\ NotStale(L, G2, Tail(A), b, Head(A).rv)
    BY <1>1, <1>6, <1>8, <2>1
  <2>3. \A n \in DOMAIN Tail(A) : ~(n <= -1)
    BY <1>1
  <2>4. Covered(L, G2, <<>>, b, first, Head(A).rv, 0)
    <3>1. ASSUME NEW x, Reached(G2, Tail(A), -1, x)  PROVE Reached(G2, <<>>, 0, x)
      BY <2>3, <3>1 DEF Reached
    <3>2. ASSUME NEW o, NEW l, Listed(G2, Tail(A), -1, b, o, l)  PROVE Listed(G2, <<>>, 0, b, o, l)
      BY <2>3, <3>2 DEF Listed
    <3> QED  BY <2>2, <3>1, <3>2 DEF Covered
  <2> QED  BY <2>2, <2>4 DEF Marked
<1> QED  BY <1>2, <1>3, <1>4, <1>7, <1>8 DEF Complete

(***************************************************************************)
(* The state of the loop and its surroundings.                             *)
(***************************************************************************)
Versions == [rv : Nat, gen : {0}]

\* The store has the last version of every object.
StoreOK ==
  /\ store \in [Objects -> Versions]
  /\ \A o \in Objects :
       /\ \A l \in 1 .. Len(log) :
            LastChange(log, o, Len(log), l) /\ log[l].type # "DELETED" => store[o] = [rv |-> l, gen |-> 0]
       /\ store[o] # Absent =>
            /\ store[o].rv \in 1 .. Len(log) /\ LastChange(log, o, Len(log), store[o].rv)
            /\ log[store[o].rv].type # "DELETED"

Items(messages) == \A i \in DOMAIN messages : IsItem(log, messages[i].event)

WatchTypes ==
  /\ received \in Seq(Message) /\ Items(received)
  /\ channel \in Seq(Message) /\ Len(channel) <= 1 /\ Items(channel)
  /\ hand \in Message /\ IsItem(log, hand.event)
  /\ api \in Seq(ApiEvent) /\ \A i \in DOMAIN api : IsItem(log, api[i])
  /\ sent \in 0 .. Len(log) /\ bookmark \in 0 .. Len(log) /\ base \in 0 .. requests

Pcs == {"none", "refused", "select", "send", "connect", "fail", "close", "stop", "done"}

Phases ==
  /\ pc \in Pcs
  /\ pc \in {"none", "refused"} =>
       requests = 0 /\ received = <<>> /\ channel = <<>> /\ api = <<>> /\ bookmark = 0
  /\ pc \notin {"none", "refused"} => base > 0
  /\ pc \in {"connect", "fail"} => api = <<>>

GapInv == pc \in {"select", "send"} => Complete(log, Got, api, base, sent)

MarkInv ==
  bookmark # 0 =>
    /\ Marked(log, Got, base, bookmark)
    /\ pc \in {"select", "send", "connect"} =>
         bookmark <= sent /\ NotStale(log, Got, api, base, bookmark)

WatchInv == RequestInv /\ LogOK(log) /\ StoreOK /\ WatchTypes /\ Phases /\ GapInv /\ MarkInv

\* What the loop is about to send, if anything.
InHand == IF pc = "send" THEN <<hand>> ELSE <<>>

LEMMA LogTypes ==
  ASSUME LogOK(log)
  PROVE  log \in Seq(Event) /\ Len(log) \in Nat /\ DOMAIN log = 1 .. Len(log) /\ Extends(log, log)
BY DEF LogOK, Extends

LEMMA GotTypes ==
  ASSUME WatchTypes
  PROVE  /\ Got = received \o channel \o InHand
         /\ Got \in Seq(Message) /\ InHand \in Seq(Message)
         /\ \A i \in DOMAIN Got : IsItem(log, Got[i].event)
<1> DEFINE front == received \o channel
<1>1. /\ received \in Seq(Message) /\ channel \in Seq(Message) /\ hand \in Message
      /\ \A i \in DOMAIN received : IsItem(log, received[i].event)
      /\ \A i \in DOMAIN channel : IsItem(log, channel[i].event)
      /\ IsItem(log, hand.event)
  BY DEF WatchTypes, Items
<1> HIDE DEF Message, Event
<1>2. /\ front \in Seq(Message) /\ Len(front) = Len(received) + Len(channel)
      /\ \A i \in 1 .. Len(front) :
           front[i] = IF i <= Len(received) THEN received[i] ELSE channel[i - Len(received)]
  BY <1>1, ConcatProperties
<1>3. \A i \in DOMAIN front : IsItem(log, front[i].event)
  <2> SUFFICES ASSUME NEW i \in DOMAIN front  PROVE IsItem(log, front[i].event)
    OBVIOUS
  <2>1. i \in 1 .. Len(front) /\ Len(received) \in Nat /\ Len(channel) \in Nat
    BY <1>1, <1>2
  <2>2. CASE i <= Len(received)
    <3>1. i \in DOMAIN received /\ front[i] = received[i]
      BY <1>1, <1>2, <2>1, <2>2
    <3> QED  BY <1>1, <3>1
  <2>3. CASE ~ (i <= Len(received))
    <3>1. i - Len(received) \in DOMAIN channel /\ front[i] = channel[i - Len(received)]
      BY <1>1, <1>2, <2>1, <2>3
    <3> QED  BY <1>1, <3>1
  <2> QED  BY <2>2, <2>3
<1>4. InHand \in Seq(Message) /\ \A i \in DOMAIN InHand : IsItem(log, InHand[i].event)
  BY <1>1 DEF InHand
<1> HIDE DEF front
<1>5. Got = front \o InHand
  BY DEF Got, front, InHand
<1>6. /\ Got \in Seq(Message) /\ Len(Got) = Len(front) + Len(InHand)
      /\ \A i \in 1 .. Len(Got) :
           Got[i] = IF i <= Len(front) THEN front[i] ELSE InHand[i - Len(front)]
  <2>1. front \in Seq(Message) /\ InHand \in Seq(Message)
    BY <1>2, <1>4
  <2> HIDE DEF InHand
  <2> QED  BY <2>1, <1>5, ConcatProperties
<1>7. \A i \in DOMAIN Got : IsItem(log, Got[i].event)
  <2> SUFFICES ASSUME NEW i \in DOMAIN Got  PROVE IsItem(log, Got[i].event)
    OBVIOUS
  <2>1. i \in 1 .. Len(Got) /\ Len(front) \in Nat /\ Len(InHand) \in Nat
    BY <1>2, <1>4, <1>6
  <2>2. CASE i <= Len(front)
    <3>1. i \in DOMAIN front /\ Got[i] = front[i]
      BY <1>2, <1>6, <2>1, <2>2
    <3> QED  BY <1>3, <3>1
  <2>3. CASE ~ (i <= Len(front))
    <3>1. i - Len(front) \in DOMAIN InHand /\ Got[i] = InHand[i - Len(front)]
      BY <1>4, <1>6, <2>1, <2>3
    <3> QED  BY <1>4, <3>1
  <2> QED  BY <2>2, <2>3
<1> QED  BY <1>4, <1>5, <1>6, <1>7 DEF front

(***************************************************************************)
(* A listing has every object in its last version.                         *)
(***************************************************************************)
LEMMA ListingShape ==
  ASSUME LogOK(log), StoreOK, NEW list \in Listings(store)
  PROVE  /\ list \in Seq(ApiEvent)
         /\ \A i \in DOMAIN list :
              /\ list[i].type = "ADDED" /\ list[i].obj \in Objects
              /\ store[list[i].obj] # Absent /\ list[i].rv = store[list[i].obj].rv
              /\ IsItem(log, list[i])
         /\ \A o \in Objects : store[o] # Absent => \E i \in DOMAIN list : list[i].obj = o
<1> DEFINE Present == {o \in Objects : store[o] # Absent}
           n == Cardinality(Present)
<1>1. IsFiniteSet(Present)
  BY ObjectsAssumption, FS_Subset
<1>2. n \in Nat
  BY <1>1, FS_CardinalityType
<1>3. PICK names \in SetToSeqs(Present) :
        list = [i \in DOMAIN names |-> EventOf("ADDED", names[i], store[names[i]])]
  BY DEF Listings
<1>4. /\ names \in [1 .. n -> Present]
      /\ \A i, j \in 1 .. n : i # j => names[i] # names[j]
  BY <1>3 DEF SetToSeqs
<1>5. \A i \in 1 .. n :
        /\ names[i] \in Objects /\ store[names[i]] # Absent
        /\ store[names[i]] \in Versions
  BY <1>4 DEF StoreOK
<1>6. \A i \in 1 .. n : EventOf("ADDED", names[i], store[names[i]]) \in ApiEvent
  BY <1>5 DEF Versions, EventOf, ApiEvent, Changes
<1>7. \A i \in 1 .. n : IsChange(log, EventOf("ADDED", names[i], store[names[i]]))
  BY <1>5, LogTypes DEF StoreOK, Versions, EventOf, IsChange, Changes, LastChange
<1>8. list \in [1 .. n -> ApiEvent] /\ DOMAIN list = 1 .. n
  BY <1>3, <1>4, <1>6
<1>9. list \in Seq(ApiEvent)
  BY <1>2, <1>8, SeqDef
<1>10. \A i \in 1 .. n :
         /\ list[i].type = "ADDED" /\ list[i].obj = names[i] /\ list[i].rv = store[names[i]].rv
         /\ IsItem(log, list[i])
  BY <1>3, <1>4, <1>7 DEF EventOf, IsItem
<1>11. \A o \in Present : \E i \in 1 .. n : names[i] = o
  <2>1. names \in Injection(1 .. n, Present)
    BY <1>4 DEF Injection, IsInjective
  <2>2. Cardinality(1 .. n) = n
    BY <1>2, FS_Interval
  <2>3. names \in Surjection(1 .. n, Present)
    BY <1>1, <2>1, <2>2, FS_Injection
  <2> QED  BY <2>3 DEF Surjection
<1> HIDE DEF n
<1> QED  BY <1>4, <1>5, <1>8, <1>9, <1>10, <1>11

LEMMA LastIsOne ==
  ASSUME NEW L, NEW o, NEW v \in Nat, NEW l, NEW m, LastChange(L, o, v, l), LastChange(L, o, v, m)
  PROVE  l = m
BY DEF LastChange

LEMMA CompleteListed ==
  ASSUME LogOK(log), StoreOK, NEW list \in Listings(store), NEW G \in Seq(Message), NEW b \in Nat,
         b = 1 => G = <<>>
  PROVE  Complete(log, G, list, b, Len(log))
<1>1. /\ list \in Seq(ApiEvent)
      /\ \A i \in DOMAIN list :
           /\ list[i].type = "ADDED" /\ list[i].obj \in Objects
           /\ store[list[i].obj] # Absent /\ list[i].rv = store[list[i].obj].rv
      /\ \A o \in Objects : store[o] # Absent => \E i \in DOMAIN list : list[i].obj = o
  BY ListingShape
<1>2. Len(log) \in Nat
  BY LogTypes
<1>3. ASSUME NEW o \in Objects, NEW l \in 1 .. Len(log), LastChange(log, o, Len(log), l), log[l].type # "DELETED"
      PROVE  \E i \in DOMAIN list : Has(list[i], o, l)
  <2>1. store[o] # Absent /\ store[o].rv = l
    BY <1>3 DEF StoreOK, Absent
  <2> QED  BY <1>1, <2>1 DEF Has
<1>4. ASSUME NEW o \in Objects, NEW l \in 1 .. Len(log), LastChange(log, o, Len(log), l),
             NEW i \in DOMAIN list
      PROVE  ~Older(list[i], o, l)
  <2>1. SUFFICES ASSUME list[i].obj = o  PROVE list[i].rv = l
    BY DEF Older
  <2> QED  BY <1>1, <1>2, <1>4, <2>1, LastIsOne DEF StoreOK
<1>5. NotStale(log, G, list, b, Len(log))
  <2> SUFFICES ASSUME NEW o \in Objects, NEW l \in 1 .. Len(log), LastChange(log, o, Len(log), l),
                      b = 1 \/ log[l].type # "DELETED"
               PROVE  Passed(G, list, o, l)
    BY DEF NotStale
  <2>1. \A i \in DOMAIN list : ~Older(list[i], o, l)
    BY <1>4
  <2>2. CASE b = 1
    <3>1. DOMAIN G = {}
      BY <2>2
    <3> QED  BY <2>1, <3>1 DEF Passed
  <2>3. CASE log[l].type # "DELETED"
    <3>1. \E i \in DOMAIN list : Newer(list[i], o, l)
      BY <1>3, <2>3 DEF Has, Newer
    <3> QED  BY <2>1, <3>1 DEF Passed
  <2> QED  BY <2>2, <2>3
<1>6. Covered(log, G, list, b, Len(log), Len(log), Len(list))
  <2>1. \A i \in DOMAIN list : i <= Len(list)
    BY <1>1
  <2>2. \A i \in Len(log) + 1 .. Len(log) : FALSE
    BY <1>2
  <2> QED  BY <1>3, <2>1, <2>2 DEF Covered, Listed
<1>7. \A k \in DOMAIN list : list[k].type # "BOOKMARK"
  BY <1>1
<1> QED  BY <1>2, <1>5, <1>6, <1>7 DEF Complete

LEMMA CompleteResumed ==
  ASSUME NEW L, NEW G, NEW b, NEW v \in Nat, Marked(L, G, b, v), NotStale(L, G, <<>>, b, v)
  PROVE  Complete(L, G, <<>>, b, v)
BY DEF Marked, Complete

(***************************************************************************)
(* What the steps do to what has been forwarded.                           *)
(***************************************************************************)
LEMMA GotSame ==
  ASSUME UNCHANGED <<received, channel>>, InHand' = InHand
  PROVE  Got' = Got
BY DEF Got, InHand

LEMMA GotTaken ==
  ASSUME WatchTypes, pc = "select", pc' = "send", hand' \in Message, UNCHANGED <<received, channel>>
  PROVE  Got' = Append(Got, hand')
<1>1. received \o channel \in Seq(Message)
  BY ConcatProperties DEF WatchTypes
<1>2. Got = (received \o channel) \o <<>> /\ Got' = (received \o channel) \o <<hand'>>
  BY DEF Got
<1> HIDE DEF Message
<1>3. Got = received \o channel
  BY <1>1, <1>2, ConcatEmptySeq
<1> QED  BY <1>1, <1>2, <1>3, AppendIsConcat

LEMMA GotSent ==
  ASSUME WatchTypes, channel = <<>>, channel' = <<hand>>, UNCHANGED received, pc' \notin {"send"}
  PROVE  /\ pc = "send" => Got' = Got
         /\ pc # "send" => Got' = Append(Got, hand)
<1>1. received \in Seq(Message) /\ <<hand>> \in Seq(Message) /\ hand \in Message
  BY DEF WatchTypes
<1> HIDE DEF Message
<1>2. received \o <<>> = received
  BY <1>1, ConcatEmptySeq
<1>3. received \o <<hand>> = Append(received, hand) /\ received \o <<hand>> \in Seq(Message)
  BY <1>1, AppendIsConcat, ConcatProperties
<1>4. Got' = (received \o <<hand>>) \o <<>>
  BY DEF Got
<1>5. Got' = received \o <<hand>>
  BY <1>3, <1>4, ConcatEmptySeq
<1>6. CASE pc = "send"
  BY <1>2, <1>5, <1>6 DEF Got
<1>7. CASE pc # "send"
  <2>1. Got = received
    BY <1>2, <1>7 DEF Got
  <2> QED  BY <1>3, <1>5, <1>7, <2>1
<1> QED  BY <1>6, <1>7

LEMMA OneInChannel ==
  ASSUME NEW S, NEW s \in Seq(S), Len(s) <= 1, s # <<>>
  PROVE  s = <<s[1]>> /\ s[1] \in S /\ 1 \in DOMAIN s
<1>1. Len(s) \in Nat /\ Len(s) # 0
  BY EmptySeq
<1>2. Len(s) = 1 /\ DOMAIN s = 1 .. 1
  BY <1>1
<1> QED  BY <1>2

LEMMA GotReceived ==
  ASSUME WatchTypes, Receive
  PROVE  Got' = Got /\ received' = Append(received, channel[1]) /\ channel' = <<>>
         /\ channel[1] \in Message /\ 1 \in DOMAIN channel
<1>1. received \in Seq(Message) /\ channel \in Seq(Message) /\ Len(channel) <= 1 /\ channel # <<>>
  BY DEF WatchTypes, Receive
<1> HIDE DEF Message
<1>2. channel = <<channel[1]>> /\ channel[1] \in Message /\ 1 \in DOMAIN channel
  BY <1>1, OneInChannel
<1>3. received' = Append(received, channel[1]) /\ channel' = <<>> /\ InHand' = InHand
  BY DEF Receive, loopVars, InHand
<1>4. received \o channel = Append(received, channel[1]) /\ Append(received, channel[1]) \in Seq(Message)
  BY <1>1, <1>2, AppendIsConcat, AppendProperties
<1>5. received' \o channel' = Append(received, channel[1])
  BY <1>3, <1>4, ConcatEmptySeq
<1>6. Got = (received \o channel) \o InHand /\ Got' = (received' \o channel') \o InHand'
  BY DEF Got, InHand
<1> QED  BY <1>2, <1>3, <1>4, <1>5, <1>6

(***************************************************************************)
(* The steps that leave the events alone.                                  *)
(***************************************************************************)
LEMMA IdleKeeps ==
  ASSUME WatchInv, RequestInv', Phases',
         UNCHANGED <<store, log, received, channel, api, sent, bookmark, base, requests>>,
         hand' \in Message, IsItem(log, hand'.event), InHand' = InHand,
         pc' \in {"select", "send"} => pc' = pc,
         pc' = "connect" => pc \in {"select", "connect"}
  PROVE  WatchInv'
<1>1. Got' = Got
  BY GotSame
<1>2. LogOK(log)' /\ StoreOK'
  BY DEF WatchInv, StoreOK
<1>3. WatchTypes'
  BY DEF WatchInv, WatchTypes, Items
<1>4. GapInv' /\ MarkInv'
  BY <1>1 DEF WatchInv, GapInv, MarkInv
<1> QED  BY <1>2, <1>3, <1>4 DEF WatchInv

\* Parts of the invariant that nothing but a change of the cluster disturbs.
LEMMA ClusterStays ==
  ASSUME WatchInv, UNCHANGED <<store, log>>
  PROVE  LogOK(log)' /\ StoreOK' /\ LogOK(log) /\ StoreOK /\ Len(log) \in Nat /\ DOMAIN log = 1 .. Len(log)
BY LogTypes DEF WatchInv, StoreOK

LEMMA ControlIsItem ==
  ASSUME NEW type \in Controls
  PROVE  /\ Control(type) \in ApiEvent /\ IsItem(log, Control(type))
         /\ Control(type).obj = NoObject /\ Control(type).type = type
BY DEF Control, ApiEvent, IsItem

LEMMA BookmarkIsItem ==
  ASSUME NEW v \in Nat
  PROVE  Bookmark(v) \in ApiEvent /\ IsItem(log, Bookmark(v)) /\ Bookmark(v).obj = NoObject
BY DEF Bookmark, ApiEvent, IsItem

LEMMA ChangeIsItem ==
  ASSUME LogOK(log), NEW v \in DOMAIN log
  PROVE  log[v] \in ApiEvent /\ IsItem(log, log[v])
<1>1. /\ log[v] \in Event /\ log[v].type \in Changes /\ log[v].obj \in Objects
      /\ log[v].rv = v /\ log[v].gen = 0
  BY DEF LogOK
<1>2. IsItem(log, log[v])
  BY <1>1 DEF IsItem, IsChange
<1>3. log[v] \in ApiEvent
  BY <1>1 DEF Event, ApiEvent, Changes
<1> QED  BY <1>2, <1>3

(***************************************************************************)
(* The API server sends.                                                   *)
(***************************************************************************)
LEMMA SentKeeps ==
  ASSUME WatchInv, RequestInv', Serving, NEW e \in ApiEvent, IsItem(log, e), api' = Append(api, e),
         UNCHANGED <<store, log, loopVars, readerVars>>, sent' \in sent .. Len(log),
         \/ sent' = sent + 1 /\ e = log[sent']
         \/ sent' = sent /\ e = Bookmark(sent)
         \/ sent' = sent /\ e.type \in Controls /\ e.obj = NoObject
  PROVE  WatchInv'
<1>1. LogOK(log)' /\ StoreOK' /\ LogOK(log) /\ Len(log) \in Nat /\ DOMAIN log = 1 .. Len(log)
  BY ClusterStays
<1>2. Got' = Got /\ sent \in 0 .. Len(log) /\ bookmark \in 0 .. Len(log) /\ api \in Seq(ApiEvent)
  BY GotSame DEF WatchInv, WatchTypes, loopVars, readerVars, InHand
<1>3. pc \notin {"none", "refused", "connect", "fail"}
  <2>1. requests \in alive
    BY DEF Serving
  <2> QED  BY <2>1 DEF WatchInv, RequestInv, Numbered, Latest, Over, Phases
<1>4. Phases'
  BY <1>3 DEF WatchInv, Phases, loopVars, readerVars
<1>5. api' \in Seq(ApiEvent) /\ \A i \in DOMAIN api' : IsItem(log, api'[i])
  <2>1. /\ DOMAIN api = 1 .. Len(api) /\ DOMAIN api' = 1 .. Len(api) + 1 /\ api' \in Seq(ApiEvent)
        /\ \A i \in 1 .. Len(api) : api'[i] = api[i]
        /\ api'[Len(api) + 1] = e /\ Len(api) \in Nat
    BY <1>2, AppendShape
  <2> QED  BY <2>1 DEF WatchInv, WatchTypes
<1>6. WatchTypes'
  BY <1>1, <1>2, <1>5 DEF WatchInv, WatchTypes, Items, loopVars, readerVars
<1>7. GapInv'
  <2>1. SUFFICES ASSUME pc \in {"select", "send"}  PROVE Complete(log, Got, Append(api, e), base, sent')
    BY <1>2 DEF GapInv, loopVars
  <2>2. Complete(log, Got, api, base, sent)
    BY <2>1 DEF WatchInv, GapInv
  <2> QED  BY <1>1, <1>2, <2>2, CompleteSent
<1>8. MarkInv'
  <2>1. SUFFICES ASSUME bookmark # 0, pc \in {"select", "send"}, bookmark <= sent,
                        NotStale(log, Got, api, base, bookmark)
                 PROVE  bookmark <= sent' /\ NotStale(log, Got, Append(api, e), base, bookmark)
    BY <1>2, <1>3 DEF WatchInv, MarkInv, loopVars
  <2>2. e.obj \in Objects => e.rv >= bookmark
    BY <1>1, <1>2, <2>1, ObjectsAssumption DEF LogOK, Bookmark
  <2> QED  BY <1>1, <1>2, <2>1, <2>2, NotStaleSent
<1> QED  BY <1>1, <1>4, <1>6, <1>7, <1>8 DEF WatchInv

LEMMA ServerKeeps ==
  ASSUME WatchInv, RequestInv', Transmit \/ SendBookmark \/ SendControl
  PROVE  WatchInv'
<1>1. LogOK(log) /\ Len(log) \in Nat /\ DOMAIN log = 1 .. Len(log) /\ sent \in 0 .. Len(log)
  BY LogTypes DEF WatchInv, WatchTypes
<1>2. CASE Transmit
  <2>1. sent + 1 \in DOMAIN log /\ sent' = sent + 1 /\ api' = Append(api, log[sent + 1])
    BY <1>1, <1>2 DEF Transmit
  <2> QED  BY <1>1, <1>2, <2>1, ChangeIsItem, SentKeeps DEF Transmit
<1>3. CASE SendBookmark
  <2>1. /\ sent' = sent /\ sent' \in sent .. Len(log) /\ UNCHANGED <<store, log, loopVars, readerVars>>
        /\ Serving /\ api' = Append(api, Bookmark(sent))
    BY <1>1, <1>3 DEF SendBookmark
  <2>2. Bookmark(sent) \in ApiEvent /\ IsItem(log, Bookmark(sent))
    BY <1>1, BookmarkIsItem
  <2> QED  BY <2>1, <2>2, SentKeeps
<1>4. CASE SendControl
  <2>1. PICK type \in Controls : api' = Append(api, Control(type))
    BY <1>4 DEF SendControl
  <2>2. sent' = sent /\ sent' \in sent .. Len(log) /\ UNCHANGED <<store, log, loopVars, readerVars>> /\ Serving
    BY <1>1, <1>4 DEF SendControl, serverVars
  <2> QED  BY <2>1, <2>2, ControlIsItem, SentKeeps
<1> QED  BY <1>2, <1>3, <1>4

(***************************************************************************)
(* The cluster changes.                                                    *)
(***************************************************************************)
LEMMA ChangeGrows ==
  ASSUME LogOK(log), NEW o \in Objects, NEW type \in Changes, Change(type, o)
  PROVE  /\ LogOK(log)' /\ Extends(log, log') /\ Len(log') = Len(log) + 1 /\ Len(log) \in Nat
         /\ log'[Len(log) + 1].obj = o /\ log'[Len(log) + 1].type = type
<1> DEFINE e == EventOf(type, o, [rv |-> Len(log) + 1, gen |-> 0])
<1>1. Len(log) \in Nat /\ DOMAIN log = 1 .. Len(log)
  BY LogTypes
<1>2. e \in Event /\ e.rv = Len(log) + 1 /\ e.obj = o /\ e.type = type /\ e.gen = 0
  BY <1>1 DEF EventOf, Event, Changes
<1>3. log' = Append(log, e)
  BY DEF Change
<1> HIDE DEF e
<1>4. /\ LogOK(Append(log, e)) /\ Len(Append(log, e)) = Len(log) + 1
      /\ \A i \in 1 .. Len(log) : Append(log, e)[i] = log[i]
      /\ Append(log, e)[Len(log) + 1] = e
  BY <1>2, LogGrows
<1>5. LogOK(log') /\ DOMAIN log' = 1 .. Len(log')
  BY <1>3, <1>4 DEF LogOK
<1> QED  BY <1>1, <1>2, <1>3, <1>4, <1>5 DEF Extends

LEMMA ChangeKeepsStore ==
  ASSUME LogOK(log), StoreOK, NEW o \in Objects, NEW type \in Changes, Change(type, o)
  PROVE  StoreOK'
<1> DEFINE n == Len(log) + 1
<1>1. /\ Extends(log, log') /\ Len(log') = n /\ Len(log) \in Nat
      /\ log'[n].obj = o /\ log'[n].type = type /\ DOMAIN log = 1 .. Len(log)
  BY ChangeGrows, LogTypes
<1>2. /\ store \in [Objects -> Versions]
      /\ store' = [store EXCEPT ![o] = IF type = "DELETED" THEN Absent ELSE [rv |-> n, gen |-> 0]]
  BY DEF Change, StoreOK
<1>3. store' \in [Objects -> Versions]
  BY <1>1, <1>2 DEF Versions, Absent
<1>4. ASSUME NEW x \in Objects
      PROVE  /\ \A l \in 1 .. n :
                  LastChange(log', x, n, l) /\ log'[l].type # "DELETED" => store'[x] = [rv |-> l, gen |-> 0]
             /\ store'[x] # Absent =>
                  /\ store'[x].rv \in 1 .. n /\ LastChange(log', x, n, store'[x].rv)
                  /\ log'[store'[x].rv].type # "DELETED"
  <2>1. CASE x # o
    <3>1. store'[x] = store[x]
      BY <1>2, <2>1
    <3>2. \A l : LastChange(log', x, n, l) <=> LastChange(log, x, Len(log), l)
      BY <1>1, <2>1 DEF LastChange, Extends
    <3>3. \A l \in 1 .. Len(log) : log'[l] = log[l]
      BY <1>1 DEF Extends
    <3>4. \A l : LastChange(log, x, Len(log), l) => l \in 1 .. Len(log)
      BY DEF LastChange
    <3>5. store[x] # Absent => store[x].rv \in 1 .. n
      BY <1>1 DEF StoreOK
    <3> QED  BY <3>1, <3>2, <3>3, <3>4, <3>5 DEF StoreOK
  <2>2. CASE x = o
    <3>1. \A l : LastChange(log', x, n, l) <=> l = n
      BY <1>1, <2>2 DEF LastChange
    <3>2. store'[x] = IF type = "DELETED" THEN Absent ELSE [rv |-> n, gen |-> 0]
      BY <1>2, <2>2
    <3>3. n \in 1 .. n
      BY <1>1
    <3>4. CASE type = "DELETED"
      BY <1>1, <3>1, <3>2, <3>4
    <3>5. CASE type # "DELETED"
      <4>1. store'[x] = [rv |-> n, gen |-> 0] /\ store'[x].rv = n
        BY <3>2, <3>5
      <4> QED  BY <1>1, <3>1, <3>3, <3>5, <4>1
    <3> QED  BY <3>4, <3>5
  <2> QED  BY <2>1, <2>2
<1> QED  BY <1>1, <1>3, <1>4 DEF StoreOK

LEMMA ChangeKeeps ==
  ASSUME WatchInv, RequestInv', NEW o \in Objects, NEW type \in Changes, Change(type, o)
  PROVE  WatchInv'
<1>1. /\ LogOK(log)' /\ Extends(log, log') /\ Len(log') = Len(log) + 1 /\ Len(log) \in Nat
      /\ LogOK(log) /\ StoreOK
  BY ChangeGrows DEF WatchInv
<1>2. UNCHANGED <<received, channel, hand, api, sent, bookmark, base, requests, pc>>
  BY DEF Change, apiVars, loopVars, readerVars
<1>3. Got' = Got /\ sent \in 0 .. Len(log) /\ bookmark \in 0 .. Len(log)
  BY <1>2, GotSame DEF WatchInv, WatchTypes, InHand
<1>4. Phases'
  BY <1>2 DEF WatchInv, Phases
<1>5. WatchTypes'
  <2>1. WatchTypes
    BY DEF WatchInv
  <2>2. \A i \in DOMAIN received : IsItem(log', received[i].event)
    BY <1>1, <2>1, ItemStays DEF WatchTypes, Items
  <2>3. \A i \in DOMAIN channel : IsItem(log', channel[i].event)
    BY <1>1, <2>1, ItemStays DEF WatchTypes, Items
  <2>4. IsItem(log', hand.event) /\ \A i \in DOMAIN api : IsItem(log', api[i])
    BY <1>1, <2>1, ItemStays DEF WatchTypes
  <2>5. sent \in 0 .. Len(log') /\ bookmark \in 0 .. Len(log')
    BY <1>1, <1>3
  <2> QED  BY <1>2, <2>1, <2>2, <2>3, <2>4, <2>5 DEF WatchTypes, Items
<1>6. GapInv'
  BY <1>1, <1>2, <1>3, CompleteGrows DEF WatchInv, GapInv
<1>7. MarkInv'
  BY <1>1, <1>2, <1>3, MarkedGrows, NotStaleGrows DEF WatchInv, MarkInv
<1> QED  BY <1>1, <1>4, <1>5, <1>6, <1>7, ChangeKeepsStore DEF WatchInv

(***************************************************************************)
(* The loop asks.                                                          *)
(***************************************************************************)
LEMMA RequestedKeeps ==
  ASSUME WatchInv, RequestInv', pc \in {"none", "connect"}, pc' = "select", Requested(bookmark),
         UNCHANGED <<store, log, hand, bookmark, readerVars>>
  PROVE  WatchInv'
<1>1. LogOK(log)' /\ StoreOK' /\ LogOK(log) /\ StoreOK /\ Len(log) \in Nat /\ DOMAIN log = 1 .. Len(log)
  BY ClusterStays
<1>2. /\ api = <<>> /\ Got' = Got /\ bookmark \in 0 .. Len(log) /\ requests \in Nat /\ base \in 0 .. requests
      /\ Got \in Seq(Message) /\ requests' = requests + 1
  BY GotSame, GotTypes DEF WatchInv, WatchTypes, Phases, readerVars, InHand, RequestInv, Numbered, Requested
<1>3. CASE bookmark = 0
  <2>1. api' \in Listings(store) /\ sent' = Len(log) /\ base' = requests + 1
    BY <1>3 DEF Requested, FirstEvents
  <2>2. api' \in Seq(ApiEvent) /\ \A i \in DOMAIN api' : IsItem(log, api'[i])
    BY <1>1, <2>1, ListingShape
  <2>3. WatchTypes' /\ Phases'
    BY <1>1, <1>2, <1>3, <2>1, <2>2 DEF WatchInv, WatchTypes, Phases, Pcs, Items, readerVars
  <2>4. base' = 1 => Got = <<>>
    <3>1. SUFFICES ASSUME requests = 0  PROVE Got = <<>>
      BY <1>2, <2>1
    <3>2. pc = "none"
      BY <1>2, <3>1 DEF WatchInv, Phases
    <3>3. received = <<>> /\ channel = <<>>
      BY <3>2 DEF WatchInv, Phases
    <3> QED  BY <3>2, <3>3 DEF Got
  <2>5. Complete(log, Got, api', base', Len(log))
    BY <1>1, <1>2, <2>1, <2>4, CompleteListed
  <2>6. GapInv' /\ MarkInv'
    BY <1>2, <1>3, <2>1, <2>5 DEF GapInv, MarkInv
  <2> QED  BY <1>1, <2>3, <2>6 DEF WatchInv
<1>4. CASE bookmark # 0
  <2>1. api' = <<>> /\ sent' = bookmark /\ base' = base
    BY <1>4 DEF Requested, FirstEvents
  <2>2. pc = "connect"
    BY <1>4 DEF WatchInv, Phases
  <2>3. <<>> \in Seq(ApiEvent) /\ DOMAIN <<>> = {}
    OBVIOUS
  <2>4. WatchTypes' /\ Phases'
    BY <1>1, <1>2, <1>4, <2>1, <2>2, <2>3 DEF WatchInv, WatchTypes, Phases, Pcs, Items, readerVars
  <2>5. Marked(log, Got, base, bookmark) /\ NotStale(log, Got, <<>>, base, bookmark)
    BY <1>2, <1>4, <2>2 DEF WatchInv, MarkInv
  <2>6. Complete(log, Got, <<>>, base, bookmark)
    BY <1>2, <2>5, CompleteResumed
  <2>7. GapInv' /\ MarkInv'
    BY <1>2, <2>1, <2>5, <2>6 DEF GapInv, MarkInv
  <2> QED  BY <1>1, <2>4, <2>7 DEF WatchInv
<1> QED  BY <1>3, <1>4

(***************************************************************************)
(* The loop takes and sends.                                               *)
(***************************************************************************)
LEMMA MarkedForwarded ==
  ASSUME NEW L, NEW G \in Seq(Message), NEW m \in Message, NEW b, NEW v, Marked(L, G, b, v)
  PROVE  Marked(L, Append(G, m), b, v)
<1>1. \A i \in DOMAIN G : i \in DOMAIN Append(G, m) /\ Append(G, m)[i] = G[i]
  BY AppendShape
<1> HIDE DEF Message
<1>2. ASSUME NEW x, Reached(G, <<>>, 0, x)  PROVE Reached(Append(G, m), <<>>, 0, x)
  BY <1>1, <1>2 DEF Reached
<1>3. ASSUME NEW o, NEW l, Listed(G, <<>>, 0, b, o, l)  PROVE Listed(Append(G, m), <<>>, 0, b, o, l)
  BY <1>1, <1>3 DEF Listed
<1> QED  BY <1>2, <1>3 DEF Marked, Covered

LEMMA TakenTypes ==
  ASSUME WatchInv, api # <<>>
  PROVE  /\ Head(api) \in ApiEvent /\ IsItem(log, Head(api)) /\ Tail(api) \in Seq(ApiEvent)
         /\ \A i \in DOMAIN Tail(api) : IsItem(log, Tail(api)[i])
         /\ [event |-> Head(api), req |-> requests] \in Message
<1>1. api \in Seq(ApiEvent) /\ \A i \in DOMAIN api : IsItem(log, api[i])
  BY DEF WatchInv, WatchTypes
<1>2. requests \in Nat
  BY DEF WatchInv, RequestInv, Numbered
<1> HIDE DEF ApiEvent
<1>3. /\ Tail(api) \in Seq(ApiEvent) /\ Len(api) \in Nat /\ Len(api) >= 1
      /\ DOMAIN api = 1 .. Len(api) /\ DOMAIN Tail(api) = 1 .. Len(api) - 1
      /\ Head(api) = api[1] /\ Head(api) \in ApiEvent
      /\ \A i \in 1 .. Len(api) - 1 : Tail(api)[i] = api[i + 1]
  BY <1>1, TailShape
<1>4. 1 \in DOMAIN api /\ \A i \in 1 .. Len(api) - 1 : i + 1 \in DOMAIN api
  BY <1>3
<1>5. IsItem(log, Head(api)) /\ \A i \in DOMAIN Tail(api) : IsItem(log, Tail(api)[i])
  BY <1>1, <1>3, <1>4
<1>6. [event |-> Head(api), req |-> requests] \in Message
  BY <1>2, <1>3 DEF Message
<1> QED  BY <1>3, <1>5, <1>6

LEMMA TakenKeeps ==
  ASSUME WatchInv, RequestInv', pc = "select", pc' \in {"select", "send"}, api # <<>>, api' = Tail(api),
         UNCHANGED <<store, log, received, channel, sent, base, requests>>,
         \/ pc' = "send" /\ hand' = [event |-> Head(api), req |-> requests]
         \/ pc' = "select" /\ hand' = hand /\ Head(api).type \notin Changes /\ Head(api).obj = NoObject,
         \/ bookmark' = bookmark \/ bookmark' = 0
         \/ Head(api).type = "BOOKMARK" /\ bookmark' = Head(api).rv
  PROVE  WatchInv'
<1>1. LogOK(log)' /\ StoreOK' /\ LogOK(log) /\ StoreOK /\ Len(log) \in Nat /\ DOMAIN log = 1 .. Len(log)
  BY ClusterStays
<1>2. WatchTypes /\ Phases /\ GapInv /\ MarkInv /\ requests \in Nat
  BY DEF WatchInv, RequestInv, Numbered
<1>3. /\ Head(api) \in ApiEvent /\ IsItem(log, Head(api)) /\ Tail(api) \in Seq(ApiEvent)
      /\ \A i \in DOMAIN Tail(api) : IsItem(log, Tail(api)[i])
      /\ [event |-> Head(api), req |-> requests] \in Message
  BY TakenTypes
<1>4. /\ api \in Seq(ApiEvent) /\ sent \in 0 .. Len(log) /\ base \in 0 .. requests
      /\ Got \in Seq(Message) /\ bookmark \in 0 .. Len(log)
  BY <1>2, GotTypes DEF WatchTypes
<1>5. Taken(Got, api, base, Got')
  <2>1. CASE pc' = "send" /\ hand' = [event |-> Head(api), req |-> requests]
    <3>1. Got' = Append(Got, [event |-> Head(api), req |-> requests])
      BY <1>2, <1>3, <2>1, GotTaken
    <3> QED  BY <1>2, <1>4, <3>1 DEF Taken
  <2>2. CASE pc' = "select" /\ Head(api).type \notin Changes /\ Head(api).obj = NoObject
    <3>1. Got' = Got
      BY <2>2, GotSame DEF InHand
    <3> QED  BY <2>2, <3>1 DEF Taken
  <2> QED  BY <2>1, <2>2
<1>6. /\ Complete(log, Got', Tail(api), base, sent)
      /\ Head(api).type = "BOOKMARK" =>
           /\ Head(api).rv \in 0 .. sent /\ NotStale(log, Got', Tail(api), base, Head(api).rv)
           /\ Marked(log, Got', base, Head(api).rv)
  BY <1>1, <1>2, <1>4, <1>5, CompleteTaken DEF GapInv
<1>7. GapInv'
  BY <1>6 DEF GapInv
<1>8. MarkInv'
  <2>1. CASE bookmark' = bookmark
    <3>1. SUFFICES ASSUME bookmark # 0  PROVE Marked(log, Got', base, bookmark) /\ bookmark <= sent
                                              /\ NotStale(log, Got', Tail(api), base, bookmark)
      BY <2>1 DEF MarkInv
    <3>2. Marked(log, Got, base, bookmark) /\ bookmark <= sent /\ NotStale(log, Got, api, base, bookmark)
      BY <1>2, <3>1 DEF MarkInv
    <3>3. Got' = Got \/ \E m \in Message : Got' = Append(Got, m)
      BY <1>2, <1>3, GotTaken, GotSame DEF InHand
    <3>4. Marked(log, Got', base, bookmark)
      BY <1>4, <3>2, <3>3, MarkedForwarded
    <3> QED  BY <1>4, <1>5, <3>2, <3>4, NotStaleTaken
  <2>2. CASE bookmark' = 0
    BY <2>2 DEF MarkInv
  <2>3. CASE Head(api).type = "BOOKMARK" /\ bookmark' = Head(api).rv
    BY <1>4, <1>6, <2>3 DEF MarkInv
  <2> QED  BY <2>1, <2>2, <2>3
<1>9. Phases'
  BY <1>2 DEF Phases, Pcs
<1>10. WatchTypes'
  <2>1. bookmark' \in 0 .. Len(log)
    BY <1>1, <1>4, <1>6
  <2>2. hand' \in Message /\ IsItem(log, hand'.event)
    <3>1. hand \in Message /\ IsItem(log, hand.event)
      BY <1>2 DEF WatchTypes
    <3>2. [event |-> Head(api), req |-> requests].event = Head(api)
      OBVIOUS
    <3> QED  BY <1>3, <3>1, <3>2
  <2> QED  BY <1>2, <1>3, <2>1, <2>2 DEF WatchTypes, Items
<1> QED  BY <1>1, <1>7, <1>8, <1>9, <1>10 DEF WatchInv

\* What is no change is about no object.
LEMMA NoChangeNoObject ==
  ASSUME NEW L, NEW e, IsItem(L, e), e.type \notin Changes
  PROVE  e.obj = NoObject
BY DEF IsItem, IsChange, Bookmark, Control

LEMMA TakesKeep ==
  ASSUME WatchInv, RequestInv', TakeEvent \/ TakeBookmark \/ TakeUnsupported
  PROVE  WatchInv'
<1>1. pc = "select" /\ api # <<>> /\ api' = Tail(api) /\ pc' \in {"select", "send"}
  BY DEF TakeEvent, TakeBookmark, TakeUnsupported, NextIs, Take
<1>2. IsItem(log, Head(api))
  BY <1>1, TakenTypes
<1>3. CASE TakeEvent
  BY <1>1, <1>3, TakenKeeps DEF TakeEvent, Take, serverVars, readerVars
<1>4. CASE TakeBookmark
  <2>1. Head(api).type = "BOOKMARK" /\ Head(api).type \notin Changes /\ bookmark' = Head(api).rv
    BY <1>4 DEF TakeBookmark, NextIs, VersionOf, Changes
  <2>2. Head(api).obj = NoObject
    BY <1>2, <2>1, NoChangeNoObject
  <2>3. UNCHANGED <<store, log, received, channel, sent, base, requests>>
    BY <1>4 DEF TakeBookmark, serverVars, readerVars
  <2>4. \/ pc' = "send" /\ hand' = [event |-> Head(api), req |-> requests]
        \/ pc' = "select" /\ hand' = hand
    BY <1>1, <1>4 DEF TakeBookmark, Take
  <2> QED  BY <1>1, <2>1, <2>2, <2>3, <2>4, TakenKeeps
<1>5. CASE TakeUnsupported
  <2>1. Head(api).type \notin Changes /\ bookmark' = 0 /\ pc' = "select" /\ hand' = hand
    BY <1>5 DEF TakeUnsupported, NextIs, Changes
  <2>2. Head(api).obj = NoObject
    BY <1>2, <2>1, NoChangeNoObject
  <2>3. UNCHANGED <<store, log, received, channel, sent, base, requests>>
    BY <1>5 DEF TakeUnsupported, serverVars, readerVars
  <2> QED  BY <1>1, <2>1, <2>2, <2>3, TakenKeeps
<1> QED  BY <1>3, <1>4, <1>5

LEMMA BreaksKeep ==
  ASSUME WatchInv, RequestInv', TakeInvalid \/ TakeError
  PROVE  WatchInv'
<1>1. LogOK(log)' /\ StoreOK' /\ Len(log) \in Nat
  BY ClusterStays DEF TakeInvalid, TakeError, serverVars
<1>2. WatchTypes /\ Phases /\ MarkInv
  BY DEF WatchInv
<1>3. /\ pc = "select" /\ api # <<>> /\ Got' = Got
      /\ UNCHANGED <<store, log, received, channel, hand, sent, base, requests>>
  BY GotSame DEF TakeInvalid, TakeError, NextIs, InHand, serverVars, readerVars
<1>4. CASE TakeInvalid
  <2>1. api' = Tail(api) /\ pc' = "close" /\ bookmark' = bookmark
    BY <1>4 DEF TakeInvalid
  <2>2. Tail(api) \in Seq(ApiEvent) /\ \A i \in DOMAIN Tail(api) : IsItem(log, Tail(api)[i])
    BY <1>3, TakenTypes
  <2>3. WatchTypes' /\ Phases'
    BY <1>2, <1>3, <2>1, <2>2 DEF WatchTypes, Items, Phases, Pcs
  <2>4. GapInv' /\ MarkInv'
    BY <1>2, <1>3, <2>1 DEF GapInv, MarkInv
  <2> QED  BY <1>1, <2>3, <2>4 DEF WatchInv
<1>5. CASE TakeError
  <2>1. api' = <<>> /\ pc' = "connect" /\ bookmark' = 0
    BY <1>5 DEF TakeError
  <2>2. <<>> \in Seq(ApiEvent) /\ DOMAIN <<>> = {}
    OBVIOUS
  <2>3. WatchTypes' /\ Phases'
    BY <1>1, <1>2, <1>3, <2>1, <2>2 DEF WatchTypes, Items, Phases, Pcs
  <2>4. GapInv' /\ MarkInv'
    BY <2>1 DEF GapInv, MarkInv
  <2> QED  BY <1>1, <2>3, <2>4 DEF WatchInv
<1> QED  BY <1>4, <1>5

LEMMA SendKeeps ==
  ASSUME WatchInv, RequestInv', Send
  PROVE  WatchInv'
<1>1. LogOK(log)' /\ StoreOK'
  BY ClusterStays DEF Send, serverVars
<1>2. WatchTypes /\ Phases /\ GapInv /\ MarkInv /\ Got \in Seq(Message) /\ hand \in Message
  BY GotTypes DEF WatchInv, WatchTypes
<1>3. /\ pc \in {"send", "fail"} /\ channel = <<>> /\ channel' = <<hand>>
      /\ pc' = IF pc = "send" THEN "select" ELSE "close"
      /\ UNCHANGED <<store, log, received, hand, api, sent, bookmark, base, requests>>
  BY DEF Send, serverVars, apiVars
<1>4. /\ pc = "send" => Got' = Got
      /\ pc # "send" => Got' = Append(Got, hand)
  BY <1>2, <1>3, GotSent
<1>5. WatchTypes' /\ Phases'
  <2>1. <<hand>> \in Seq(Message) /\ Len(<<hand>>) <= 1
    BY <1>2
  <2>2. \A i \in DOMAIN <<hand>> : IsItem(log, <<hand>>[i].event)
    BY <1>2 DEF WatchTypes
  <2>3. Phases'
    BY <1>2, <1>3 DEF Phases, Pcs
  <2> QED  BY <1>2, <1>3, <2>1, <2>2, <2>3 DEF WatchTypes, Items
<1>6. CASE pc = "send"
  <2>1. GapInv' /\ MarkInv'
    BY <1>2, <1>3, <1>4, <1>6 DEF GapInv, MarkInv
  <2> QED  BY <1>1, <1>5, <2>1 DEF WatchInv
<1>7. CASE pc = "fail"
  <2>1. bookmark # 0 => Marked(log, Append(Got, hand), base, bookmark)
    BY <1>2, MarkedForwarded DEF MarkInv
  <2>2. GapInv' /\ MarkInv'
    BY <1>3, <1>4, <1>7, <2>1 DEF GapInv, MarkInv
  <2> QED  BY <1>1, <1>5, <2>2 DEF WatchInv
<1> QED  BY <1>3, <1>6, <1>7

LEMMA ReceiveKeeps ==
  ASSUME WatchInv, RequestInv', Receive
  PROVE  WatchInv'
<1>1. LogOK(log)' /\ StoreOK'
  BY ClusterStays DEF Receive, serverVars
<1>2. WatchTypes /\ Phases /\ GapInv /\ MarkInv
  BY DEF WatchInv
<1>3. /\ Got' = Got /\ received' = Append(received, channel[1]) /\ channel' = <<>>
      /\ channel[1] \in Message /\ 1 \in DOMAIN channel
  BY <1>2, GotReceived
<1>4. UNCHANGED <<store, log, hand, pc, api, sent, bookmark, base, requests>> /\ channel # <<>>
  BY DEF Receive, serverVars, apiVars, loopVars
<1>5. received \in Seq(Message) /\ IsItem(log, channel[1].event)
  BY <1>2, <1>3 DEF WatchTypes, Items
<1>6. received' \in Seq(Message) /\ \A i \in DOMAIN received' : IsItem(log, received'[i].event)
  <2>1. /\ DOMAIN received = 1 .. Len(received) /\ DOMAIN received' = 1 .. Len(received) + 1
        /\ \A i \in 1 .. Len(received) : received'[i] = received[i]
        /\ received'[Len(received) + 1] = channel[1] /\ Len(received) \in Nat /\ received' \in Seq(Message)
    BY <1>3, <1>5, AppendShape
  <2> QED  BY <1>2, <1>5, <2>1, SMTT(20) DEF WatchTypes, Items
<1>7. <<>> \in Seq(Message) /\ DOMAIN <<>> = {} /\ Len(<<>>) <= 1
  OBVIOUS
<1>8. WatchTypes'
  BY <1>2, <1>3, <1>4, <1>6, <1>7 DEF WatchTypes, Items
<1>9. Phases'
  BY <1>2, <1>4 DEF Phases
<1>10. GapInv' /\ MarkInv'
  BY <1>2, <1>3, <1>4 DEF GapInv, MarkInv
<1> QED  BY <1>1, <1>8, <1>9, <1>10 DEF WatchInv

(***************************************************************************)
(* What the reader of the channel gets.                                    *)
(***************************************************************************)
LEMMA SmallestOf ==
  ASSUME NEW T \in SUBSET Nat, T # {}
  PROVE  \E x \in T : \A y \in T : x <= y
<1> DEFINE R == OpToRel(<, Nat)
<1>1. IsWellFoundedOn(R, Nat)
  BY NatLessThanWellFounded
<1>2. \A x, y \in Nat : x < y => <<x, y>> \in R
  BY DEF OpToRel
<1> HIDE DEF R
<1>3. PICK x \in T : \A y \in T : ~ (<<y, x>> \in R)
  BY <1>1, WFMin
<1>4. \A y \in T : x \in Nat /\ y \in Nat /\ ~ (y < x)
  BY <1>2, <1>3
<1> QED  BY <1>4

LEMMA HasMax ==
  ASSUME NEW n \in Nat, NEW S \in SUBSET (0 .. n), S # {}
  PROVE  Max(S) \in S /\ \A y \in S : Max(S) >= y
<1> DEFINE T == {n - y : y \in S}
<1>1. \A y \in S : y \in 0 .. n /\ n - y \in T /\ n - y \in Nat
  OBVIOUS
<1>2. T \in SUBSET Nat /\ T # {}
  BY <1>1
<1>3. PICK x \in T : \A y \in T : x <= y
  BY <1>2, SmallestOf
<1>4. PICK s \in S : x = n - s
  BY <1>3
<1> HIDE DEF T
<1>5. \A y \in S : s >= y
  BY <1>1, <1>3, <1>4
<1> QED BY <1>5 DEF Max
LEMMA NextKeeps == WatchInv /\ RequestInv' /\ [Next]_vars => WatchInv'
<1> SUFFICES ASSUME WatchInv, RequestInv', [Next]_vars  PROVE WatchInv'
  OBVIOUS
<1>0. WatchTypes /\ Phases
  BY DEF WatchInv
<1>1. CASE Server
  <2>1. CASE \E o \in Objects, type \in {"ADDED", "MODIFIED", "DELETED"} : Change(type, o)
    BY <2>1, ChangeKeeps DEF Changes
  <2>2. CASE Transmit \/ SendBookmark \/ SendControl
    BY <2>2, ServerKeeps
  <2>3. CASE EndRequest
    <3>1. /\ UNCHANGED <<store, log, received, channel, hand, pc, api, sent, bookmark, base, requests>>
          /\ InHand' = InHand
      BY <2>3 DEF EndRequest, loopVars, readerVars, InHand
    <3>2. Phases'
      BY <1>0, <3>1 DEF Phases
    <3> QED  BY <1>0, <3>1, <3>2, IdleKeeps DEF WatchTypes
  <2> QED  BY <1>1, <2>1, <2>2, <2>3 DEF Server
<1>2. CASE Watch
  <2>1. bookmark = 0 /\ pc = "none"
    BY <1>0, <1>2 DEF Watch, Phases
  <2> QED  BY <1>2, <2>1, RequestedKeeps DEF Watch
<1>3. CASE WatchError \/ SeeDone \/ SeeEnd \/ CloseChannel \/ StopWatcher \/ Cancel \/ Leave \/ UNCHANGED vars
  <2>1. /\ UNCHANGED <<store, log, received, channel, hand, api, sent, bookmark, base, requests>>
        /\ \/ pc' = pc
           \/ pc = "none" /\ pc' = "refused"
           \/ pc = "select" /\ pc' = "close"
           \/ pc = "select" /\ pc' = "connect" /\ api = <<>>
           \/ pc = "close" /\ pc' = "stop"
           \/ pc = "stop" /\ pc' = "done"
    <3>1. CASE WatchError \/ SeeDone
      BY <3>1 DEF WatchError, SeeDone, serverVars, apiVars, readerVars
    <3>2. CASE SeeEnd
      BY <3>2 DEF SeeEnd, serverVars, apiVars, readerVars
    <3>3. CASE CloseChannel \/ StopWatcher
      BY <3>3 DEF CloseChannel, StopWatcher, serverVars, apiVars, readerVars
    <3>4. CASE Cancel \/ Leave \/ UNCHANGED vars
      BY <3>4 DEF Cancel, Leave, vars, serverVars, apiVars, loopVars, readerVars
    <3> QED  BY <1>3, <3>1, <3>2, <3>3, <3>4
  <2>2. InHand' = InHand
    BY <2>1 DEF InHand
  <2>3. Phases'
    BY <1>0, <2>1 DEF Phases, Pcs
  <2> QED  BY <1>0, <2>1, <2>2, <2>3, IdleKeeps DEF WatchTypes
<1>4. CASE ReconnectError
  <2>1. /\ UNCHANGED <<store, log, received, channel, api, sent, bookmark, base, requests>>
        /\ pc = "connect" /\ pc' = "fail" /\ hand' = [event |-> Control("ERROR"), req |-> requests]
    BY <1>4 DEF ReconnectError, serverVars, apiVars, readerVars
  <2>2. InHand' = InHand
    BY <2>1 DEF InHand
  <2>3. Phases'
    BY <1>0, <2>1 DEF Phases, Pcs
  <2>4. requests \in Nat /\ Control("ERROR") \in ApiEvent /\ IsItem(log, Control("ERROR"))
    BY ControlIsItem DEF WatchInv, RequestInv, Numbered, Controls
  <2>5. hand' \in Message /\ IsItem(log, hand'.event)
    BY <2>1, <2>4 DEF Message
  <2> QED  BY <2>1, <2>2, <2>3, <2>5, IdleKeeps
<1>5. CASE TakeEvent \/ TakeBookmark \/ TakeUnsupported
  BY <1>5, TakesKeep
<1>6. CASE TakeInvalid \/ TakeError
  BY <1>6, BreaksKeep
<1>7. CASE Reconnect
  BY <1>7, RequestedKeeps DEF Reconnect
<1>8. CASE Send
  BY <1>8, SendKeeps
<1>9. CASE Receive
  BY <1>9, ReceiveKeeps
<1> QED  BY <1>1, <1>2, <1>3, <1>4, <1>5, <1>6, <1>7, <1>8, <1>9 DEF Next, Loop, Reader

LEMMA InitWatchInv == Init => WatchInv
<1> SUFFICES ASSUME Init  PROVE WatchInv
  OBVIOUS
<1>1. RequestInv
  BY RequestInit
<1>2. LogOK(log) /\ Len(log) = 0
  BY DEF Init, LogOK
<1>3. StoreOK
  BY <1>2 DEF Init, StoreOK, Versions, Absent
<1>4. WatchTypes
  <2>1. <<>> \in Seq(Message) /\ <<>> \in Seq(ApiEvent) /\ DOMAIN <<>> = {} /\ Len(<<>>) = 0
    OBVIOUS
  <2>2. Nothing \in Message /\ IsItem(log, Nothing.event)
    BY ControlIsItem DEF Nothing, Message, Controls
  <2> QED  BY <1>2, <2>1, <2>2 DEF Init, WatchTypes, Items
<1>5. Phases /\ GapInv /\ MarkInv
  BY DEF Init, Phases, Pcs, GapInv, MarkInv
<1> QED  BY <1>1, <1>2, <1>3, <1>4, <1>5 DEF WatchInv

LEMMA AlwaysWatchInv == Spec => []WatchInv
<1>1. WatchInv => RequestInv
  BY DEF WatchInv
<1> QED  BY <1>1, InitWatchInv, RequestNext, NextKeeps, PTL DEF Spec

LEMMA MarkedIsDelivered ==
  ASSUME LogOK(log), NEW v \in 0 .. Len(log), Marked(log, Got, base, v)
  PROVE  Delivered(v)
<1>1. PICK first \in 0 .. v : Covered(log, Got, <<>>, base, first, v, 0)
  BY DEF Marked
<1>2. \A i \in first + 1 .. v : \E j \in DOMAIN Got : Got[j].event = log[i]
  BY <1>1 DEF Covered, Reached
<1>3. ASSUME NEW o \in Objects, {i \in 1 .. first : log[i].obj = o} # {},
             log[Max({i \in 1 .. first : log[i].obj = o})].type # "DELETED"
      PROVE  \E j \in DOMAIN Got :
               /\ Got[j].event.obj = o /\ Got[j].req >= base
               /\ Got[j].event.rv = Max({i \in 1 .. first : log[i].obj = o})
  <2> DEFINE before == {i \in 1 .. first : log[i].obj = o}
  <2>1. first \in Nat /\ before \in SUBSET (0 .. first)
    BY LogTypes
  <2>2. Max(before) \in before /\ \A y \in before : Max(before) >= y
    BY <1>3, <2>1, HasMax
  <2> DEFINE l == Max(before)
  <2>3. l \in 1 .. first /\ log[l].obj = o /\ log[l].type # "DELETED"
    BY <1>3, <2>2
  <2>4. \A i \in l + 1 .. first : log[i].obj # o
    <3> SUFFICES ASSUME NEW i \in l + 1 .. first, log[i].obj = o  PROVE FALSE
      OBVIOUS
    <3>1. i \in before
      BY <2>1, <2>3
    <3> QED  BY <2>1, <2>2, <2>3, <3>1
  <2> HIDE DEF l, before
  <2>5. Listed(Got, <<>>, 0, base, o, l)
    BY <1>1, <2>3, <2>4 DEF Covered, LastChange
  <2>6. \E j \in DOMAIN Got : Got[j].event.obj = o /\ Got[j].req >= base /\ Got[j].event.rv = l
    BY <2>5 DEF Listed, Has
  <2> QED  BY <2>6 DEF l, before
<1> QED  BY <1>1, <1>2, <1>3 DEF Delivered

\* A request that resumes after a lost connection leaves no change out: up to its
\* version, everything since the last listing was forwarded (kubeWatchService.go 98-107,
\* 128-169), for any number of reconnects, objects and changes.
THEOREM NothingIsSkipped == Spec => []ResumesWithoutGap
<1>1. WatchInv => ResumesWithoutGap
  BY MarkedIsDelivered, LogTypes DEF WatchInv, WatchTypes, MarkInv, ResumesWithoutGap
<1> QED  BY <1>1, AlwaysWatchInv, PTL

\* The last of the messages about object o.
SeenOf(o) == {i \in DOMAIN received : received[i].event.obj = o}

LEMMA LastSeen ==
  ASSUME WatchInv, NEW o \in Objects, SeenOf(o) # {}
  PROVE  /\ Max(SeenOf(o)) \in DOMAIN received /\ received[Max(SeenOf(o))].event.obj = o
         /\ IsChange(log, received[Max(SeenOf(o))].event)
         /\ \A j \in DOMAIN received : j > Max(SeenOf(o)) => received[j].event.obj # o
<1>1. received \in Seq(Message) /\ Items(received)
  BY DEF WatchInv, WatchTypes
<1>2. Len(received) \in Nat /\ DOMAIN received = 1 .. Len(received)
  BY <1>1
<1>3. SeenOf(o) \in SUBSET (0 .. Len(received))
  BY <1>2 DEF SeenOf
<1>4. Max(SeenOf(o)) \in SeenOf(o) /\ \A y \in SeenOf(o) : Max(SeenOf(o)) >= y
  BY <1>2, <1>3, HasMax
<1> DEFINE m == Max(SeenOf(o))
<1>5. m \in DOMAIN received /\ received[m].event.obj = o
  BY <1>4 DEF SeenOf
<1>6. IsItem(log, received[m].event)
  BY <1>1, <1>5 DEF Items
<1>7. IsChange(log, received[m].event)
  BY <1>5, <1>6, ObjectsAssumption DEF IsItem, Bookmark, Control
<1>8. \A j \in DOMAIN received : j > m => received[j].event.obj # o
  <2> SUFFICES ASSUME NEW j \in DOMAIN received, j > m, received[j].event.obj = o  PROVE FALSE
    OBVIOUS
  <2>1. j \in SeenOf(o)
    BY DEF SeenOf
  <2> QED  BY <1>2, <1>4, <1>5, <2>1
<1> QED  BY <1>5, <1>7, <1>8

\* A reader that has received everything has the last version as the last message.
LEMMA SeesLast ==
  ASSUME WatchInv, Quiet, NEW o \in Objects, NEW l \in 1 .. Len(log), LastChange(log, o, Len(log), l),
         base = 1 \/ log[l].type # "DELETED"
  PROVE  /\ SeenOf(o) # {} => received[Max(SeenOf(o))].event.rv = l
         /\ log[l].type # "DELETED" => SeenOf(o) # {}
<1>1. WatchTypes /\ LogOK(log) /\ Len(log) \in Nat /\ DOMAIN log = 1 .. Len(log)
  BY LogTypes DEF WatchInv
<1>2. Got = received
  <2>1. received \in Seq(Message)
    BY <1>1 DEF WatchTypes
  <2>2. Got = (received \o <<>>) \o <<>>
    BY DEF Quiet, Got
  <2> HIDE DEF Message
  <2> QED  BY <2>1, <2>2, ConcatEmptySeq
<1>3. Complete(log, received, <<>>, base, Len(log))
  BY <1>2 DEF Quiet, WatchInv, GapInv
<1>4. SeenOf(o) # {} => received[Max(SeenOf(o))].event.rv = l
  <2> SUFFICES ASSUME SeenOf(o) # {}  PROVE received[Max(SeenOf(o))].event.rv = l
    OBVIOUS
  <2> DEFINE m == Max(SeenOf(o))
  <2>1. /\ m \in DOMAIN received /\ received[m].event.obj = o
        /\ IsChange(log, received[m].event)
        /\ \A j \in DOMAIN received : j > m => received[j].event.obj # o
    BY LastSeen
  <2> HIDE DEF m
  <2>2. received[m].event.rv \in 1 .. Len(log) /\ log[received[m].event.rv].obj = o
    BY <1>1, <2>1 DEF IsChange
  <2>3. received[m].event.rv <= l
    <3>1. CASE received[m].event.rv \in l + 1 .. Len(log)
      BY <2>2, <3>1 DEF LastChange
    <3> QED  BY <1>1, <2>2, <3>1
  <2>4. ~ (received[m].event.rv < l)
    <3> SUFFICES ASSUME received[m].event.rv < l  PROVE FALSE
      OBVIOUS
    <3>1. Passed(received, <<>>, o, l)
      BY <1>3 DEF Complete, NotStale
    <3>2. Older(received[m].event, o, l)
      BY <2>1 DEF Older
    <3>3. \E j \in DOMAIN received : j > m /\ Newer(received[j].event, o, l)
      BY <2>1, <3>1, <3>2 DEF Passed
    <3> QED  BY <2>1, <3>3 DEF Newer
  <2>5. received[m].event.rv = l
    BY <1>1, <2>2, <2>3, <2>4
  <2> QED  BY <2>5 DEF m
<1>5. log[l].type # "DELETED" => SeenOf(o) # {}
  <2> SUFFICES ASSUME log[l].type # "DELETED"
               PROVE  \E j \in DOMAIN received : received[j].event.obj = o
    BY DEF SeenOf
  <2>1. PICK first \in 0 .. Len(log) : Covered(log, received, <<>>, base, first, Len(log), 0)
    BY <1>3 DEF Complete
  <2>2. CASE l \in first + 1 .. Len(log)
    <3>1. Reached(received, <<>>, 0, log[l])
      BY <2>1, <2>2 DEF Covered
    <3> QED  BY <3>1 DEF Reached, LastChange
  <2>3. CASE l \in 1 .. first
    <3>1. LastChange(log, o, first, l)
      BY <1>1, <2>3 DEF LastChange
    <3>2. Listed(received, <<>>, 0, base, o, l)
      BY <2>1, <2>3, <3>1 DEF Covered
    <3> QED  BY <3>2 DEF Listed, Has
  <2> QED  BY <1>1, <2>2, <2>3
<1> QED  BY <1>4, <1>5

LEMMA QuietKnows ==
  ASSUME WatchInv, Quiet, NEW o \in Objects
  PROVE  /\ store[o] # Absent => Known(o) = store[o]
         /\ base = 1 => Known(o) = store[o]
<1>1. LogOK(log) /\ StoreOK /\ Len(log) \in Nat /\ DOMAIN log = 1 .. Len(log)
  BY LogTypes DEF WatchInv
<1> DEFINE m == Max(SeenOf(o))
           e == received[m].event
<1>2. Known(o) = IF SeenOf(o) = {} THEN Absent
                 ELSE IF e.type = "DELETED" THEN Absent ELSE [rv |-> e.rv, gen |-> e.gen]
  BY DEF Known, SeenOf
<1>3. SeenOf(o) # {} => IsChange(log, e) /\ e.obj = o
  BY LastSeen
<1> HIDE DEF m, e
<1>4. CASE \E i \in 1 .. Len(log) : log[i].obj = o
  <2> DEFINE all == {i \in 1 .. Len(log) : log[i].obj = o}
  <2>1. all \in SUBSET (0 .. Len(log)) /\ all # {}
    BY <1>1, <1>4
  <2>2. Max(all) \in all /\ \A y \in all : Max(all) >= y
    BY <1>1, <2>1, HasMax
  <2>3. PICK l \in 1 .. Len(log) : log[l].obj = o /\ \A y \in all : l >= y
    BY <2>2
  <2>4. LastChange(log, o, Len(log), l)
    BY <1>1, <2>3 DEF LastChange
  <2>5. base = 1 \/ log[l].type # "DELETED" =>
          /\ SeenOf(o) # {} => e.rv = l
          /\ log[l].type # "DELETED" => SeenOf(o) # {}
    BY <2>4, SeesLast DEF e, m
  <2>6. CASE log[l].type # "DELETED"
    <3>1. store[o] = [rv |-> l, gen |-> 0]
      BY <1>1, <2>4, <2>6 DEF StoreOK
    <3>2. SeenOf(o) # {} /\ e.rv = l /\ e.gen = 0 /\ e.type # "DELETED"
      BY <1>3, <2>5, <2>6 DEF IsChange
    <3> QED  BY <1>2, <3>1, <3>2
  <2>7. CASE log[l].type = "DELETED"
    <3>1. store[o] = Absent
      <4> SUFFICES ASSUME store[o] # Absent  PROVE FALSE
        OBVIOUS
      <4>1. LastChange(log, o, Len(log), store[o].rv) /\ log[store[o].rv].type # "DELETED"
        BY <1>1 DEF StoreOK
      <4>2. store[o].rv = l
        BY <1>1, <2>4, <4>1, LastIsOne
      <4> QED  BY <2>7, <4>1, <4>2
    <3>2. base = 1 /\ SeenOf(o) # {} => e.type = "DELETED"
      BY <1>3, <2>5, <2>7 DEF IsChange
    <3> QED  BY <1>2, <3>1, <3>2
  <2> QED  BY <2>6, <2>7
<1>5. CASE ~ \E i \in 1 .. Len(log) : log[i].obj = o
  <2>1. SeenOf(o) = {}
    BY <1>1, <1>3, <1>5 DEF IsChange
  <2>2. store[o] = Absent
    BY <1>1, <1>5 DEF StoreOK, LastChange
  <2> QED  BY <1>2, <2>1, <2>2
<1> QED  BY <1>4, <1>5

\* A reader that has received everything knows every object in its last version,
\* however often the request ended, failed or was repeated in between, and no
\* object that is gone unless everything was listed again (kubeWatchService.go
\* 93-169: a repeated request delivers older events a second time).
THEOREM ReaderIsUpToDate == Spec => []UpToDate
<1>1. WatchInv => UpToDate
  BY QuietKnows DEF UpToDate
<1> QED  BY <1>1, AlwaysWatchInv, PTL

(***************************************************************************)
(* What the reader sees of a result channel.                               *)
(***************************************************************************)
OneControl(A) == \A i, j \in DOMAIN A : A[i].type \in Controls /\ A[j].type \in Controls => i = j
NoControl(A) == \A i \in DOMAIN A : A[i].type \notin Controls

LEMMA VisibleAll ==
  ASSUME NEW A, NoControl(A)
  PROVE  Visible(A) = A
BY DEF NoControl, Visible

LEMMA VisibleBut ==
  ASSUME NEW A \in Seq(ApiEvent), OneControl(A), NEW k \in DOMAIN A, A[k].type \in Controls
  PROVE  /\ Visible(A) \in Seq(ApiEvent) /\ Len(Visible(A)) = Len(A) - 1
         /\ \A i \in 1 .. Len(A) - 1 : Visible(A)[i] = IF i < k THEN A[i] ELSE A[i + 1]
<1>1. Visible(A) = RemoveAt(A, k)
  BY DEF Visible, OneControl
<1> DEFINE s == SubSeq(A, 1, k - 1)
           t == SubSeq(A, k + 1, Len(A))
<1>2. Len(A) \in Nat /\ k \in 1 .. Len(A) /\ \A i \in 1 .. Len(A) : A[i] \in ApiEvent
  OBVIOUS
<1> HIDE DEF ApiEvent
<1>3. s \in Seq(ApiEvent) /\ Len(s) = k - 1 /\ \A i \in 1 .. k - 1 : s[i] = A[i]
  <2>1. k - 1 \in Int /\ 1 \in Int /\ \A i \in 1 .. k - 1 : A[i] \in ApiEvent
    BY <1>2
  <2>2. /\ SubSeq(A, 1, k - 1) \in Seq(ApiEvent)
        /\ Len(SubSeq(A, 1, k - 1)) = IF 1 <= k - 1 THEN (k - 1) - 1 + 1 ELSE 0
        /\ \A i \in 1 .. (k - 1) - 1 + 1 : SubSeq(A, 1, k - 1)[i] = A[1 + i - 1]
    BY <2>1, SubSeqProperties
  <2> QED  BY <1>2, <2>2
<1>4. t \in Seq(ApiEvent) /\ Len(t) = Len(A) - k /\ \A i \in 1 .. Len(A) - k : t[i] = A[k + i]
  <2>1. k + 1 \in Int /\ Len(A) \in Int /\ \A i \in k + 1 .. Len(A) : A[i] \in ApiEvent
    BY <1>2
  <2>2. /\ SubSeq(A, k + 1, Len(A)) \in Seq(ApiEvent)
        /\ Len(SubSeq(A, k + 1, Len(A))) = IF k + 1 <= Len(A) THEN Len(A) - (k + 1) + 1 ELSE 0
        /\ \A i \in 1 .. Len(A) - (k + 1) + 1 : SubSeq(A, k + 1, Len(A))[i] = A[k + 1 + i - 1]
    BY <2>1, SubSeqProperties
  <2> QED  BY <1>2, <2>2
<1> HIDE DEF s, t
<1>5. Visible(A) = s \o t
  BY <1>1 DEF s, t, RemoveAt
<1>6. /\ Visible(A) \in Seq(ApiEvent) /\ Len(Visible(A)) = (k - 1) + (Len(A) - k)
      /\ \A i \in 1 .. (k - 1) + (Len(A) - k) : Visible(A)[i] = IF i <= k - 1 THEN s[i] ELSE t[i - (k - 1)]
  <2>1. /\ s \o t \in Seq(ApiEvent) /\ Len(s \o t) = Len(s) + Len(t)
        /\ \A i \in 1 .. Len(s) + Len(t) : (s \o t)[i] = IF i <= Len(s) THEN s[i] ELSE t[i - Len(s)]
    BY <1>3, <1>4, ConcatProperties
  <2> QED  BY <1>3, <1>4, <1>5, <2>1
<1>7. ASSUME NEW i \in 1 .. Len(A) - 1  PROVE Visible(A)[i] = IF i < k THEN A[i] ELSE A[i + 1]
  <2>1. i \in 1 .. (k - 1) + (Len(A) - k)
    BY <1>2
  <2>2. CASE i < k
    <3>1. Visible(A)[i] = s[i] /\ i \in 1 .. k - 1
      BY <1>2, <1>6, <2>1, <2>2
    <3> QED  BY <1>3, <2>2, <3>1
  <2>3. CASE ~ (i < k)
    <3>1. Visible(A)[i] = t[i - (k - 1)] /\ i - (k - 1) \in 1 .. Len(A) - k
      BY <1>2, <1>6, <2>1, <2>3
    <3>2. t[i - (k - 1)] = A[k + (i - (k - 1))] /\ k + (i - (k - 1)) = i + 1
      BY <1>2, <1>4, <3>1
    <3> QED  BY <2>3, <3>1, <3>2
  <2> QED  BY <2>2, <2>3
<1>8. Len(Visible(A)) = Len(A) - 1
  <2>1. \A l, m \in Nat : (m - 1) + (l - m) = l - 1
    OBVIOUS
  <2> QED  BY <1>2, <1>6, <2>1
<1>9. Visible(A) \in Seq(ApiEvent)
  BY <1>6
<1> QED  BY ONLY <1>7, <1>8, <1>9

LEMMA VisibleType ==
  ASSUME NEW A \in Seq(ApiEvent), OneControl(A)
  PROVE  Visible(A) \in Seq(ApiEvent)
<1>1. CASE NoControl(A)
  BY <1>1, VisibleAll
<1>2. CASE ~NoControl(A)
  BY <1>2, VisibleBut DEF NoControl
<1> QED  BY <1>1, <1>2

LEMMA VisibleSent ==
  ASSUME NEW A \in Seq(ApiEvent), OneControl(A), NEW e \in ApiEvent,
         e.type \in Controls => NoControl(A)
  PROVE  /\ OneControl(Append(A, e))
         /\ Visible(Append(A, e)) = IF e.type \in Controls THEN Visible(A) ELSE Append(Visible(A), e)
<1> DEFINE B == Append(A, e)
<1>1. /\ B \in Seq(ApiEvent) /\ Len(B) = Len(A) + 1 /\ Len(A) \in Nat
      /\ DOMAIN A = 1 .. Len(A) /\ DOMAIN B = 1 .. Len(A) + 1
      /\ \A i \in 1 .. Len(A) : B[i] = A[i]
      /\ B[Len(A) + 1] = e
  BY AppendShape
<1> HIDE DEF B, ApiEvent
<1>2. OneControl(B)
  BY <1>1 DEF OneControl, NoControl
<1>3. CASE e.type \in Controls
  <2>1. /\ Visible(B) \in Seq(ApiEvent) /\ Len(Visible(B)) = Len(A)
        /\ \A i \in 1 .. Len(A) : Visible(B)[i] = IF i < Len(A) + 1 THEN B[i] ELSE B[i + 1]
    <3>1. Len(A) + 1 \in DOMAIN B /\ B[Len(A) + 1].type \in Controls /\ (Len(A) + 1) - 1 = Len(A)
      BY <1>1, <1>3
    <3>2. /\ Visible(B) \in Seq(ApiEvent) /\ Len(Visible(B)) = Len(B) - 1
          /\ \A i \in 1 .. Len(B) - 1 : Visible(B)[i] = IF i < Len(A) + 1 THEN B[i] ELSE B[i + 1]
      BY <1>1, <1>2, <3>1, VisibleBut
    <3>3. Len(B) - 1 = Len(A)
      BY <1>1
    <3> QED  BY <3>2, <3>3
  <2>2. \A i \in 1 .. Len(A) : Visible(B)[i] = A[i]
    BY <1>1, <2>1
  <2>3. Visible(B) = A
    BY <2>1, <2>2, SeqEqual
  <2>4. Visible(A) = A
    BY <1>3, VisibleAll
  <2> QED  BY <1>2, <1>3, <2>3, <2>4 DEF B
<1>4. CASE e.type \notin Controls /\ NoControl(A)
  <2>1. NoControl(B)
    BY <1>1, <1>4 DEF NoControl
  <2> QED  BY <1>2, <1>4, <2>1, VisibleAll DEF B
<1>5. CASE e.type \notin Controls /\ ~NoControl(A)
  <2>1. PICK k \in DOMAIN A : A[k].type \in Controls
    BY <1>5 DEF NoControl
  <2>2. /\ Visible(A) \in Seq(ApiEvent) /\ Len(Visible(A)) = Len(A) - 1
        /\ \A i \in 1 .. Len(A) - 1 : Visible(A)[i] = IF i < k THEN A[i] ELSE A[i + 1]
    BY <2>1, VisibleBut
  <2>3. k \in DOMAIN B /\ B[k].type \in Controls /\ Len(B) - 1 = Len(A)
    BY <1>1, <2>1
  <2>4. /\ Visible(B) \in Seq(ApiEvent) /\ Len(Visible(B)) = Len(A)
        /\ \A i \in 1 .. Len(A) : Visible(B)[i] = IF i < k THEN B[i] ELSE B[i + 1]
    BY <1>1, <1>2, <2>3, VisibleBut
  <2> DEFINE V == Append(Visible(A), e)
  <2>5. /\ V \in Seq(ApiEvent) /\ Len(V) = Len(A) /\ V[Len(A)] = e
        /\ \A i \in 1 .. Len(A) - 1 : V[i] = Visible(A)[i]
    <3>1. /\ V \in Seq(ApiEvent) /\ Len(V) = Len(Visible(A)) + 1 /\ V[Len(Visible(A)) + 1] = e
          /\ \A i \in 1 .. Len(Visible(A)) : V[i] = Visible(A)[i]
      BY <2>2, AppendProperties
    <3> QED  BY <1>1, <2>2, <3>1
  <2> HIDE DEF V
  <2>6. ASSUME NEW i \in 1 .. Len(A)  PROVE Visible(B)[i] = V[i]
    <3>1. CASE i = Len(A)
      <4>1. ~ (i < k) /\ Visible(B)[i] = B[Len(A) + 1]
        BY <1>1, <2>1, <2>4, <3>1
      <4> QED  BY <1>1, <2>5, <3>1, <4>1
    <3>2. CASE i \in 1 .. Len(A) - 1 /\ i < k
      <4>1. Visible(B)[i] = B[i] /\ V[i] = A[i] /\ B[i] = A[i]
        BY <1>1, <2>2, <2>4, <2>5, <3>2
      <4> QED  BY <4>1
    <3>3. CASE i \in 1 .. Len(A) - 1 /\ ~ (i < k)
      <4>1. Visible(B)[i] = B[i + 1] /\ V[i] = A[i + 1] /\ i + 1 \in 1 .. Len(A)
        BY <1>1, <2>2, <2>4, <2>5, <3>3
      <4> QED  BY <1>1, <4>1
    <3>4. i = Len(A) \/ i \in 1 .. Len(A) - 1
      <4>1. Len(A) \in Nat /\ i \in 1 .. Len(A)
        BY <2>6
      <4> QED  BY <4>1
    <3> QED  BY <3>1, <3>2, <3>3, <3>4
  <2>7. Visible(B) = V
    BY <2>4, <2>5, <2>6, SeqEqual
  <2> QED  BY <1>2, <1>5, <2>7 DEF B, V
<1> QED  BY <1>3, <1>4, <1>5

LEMMA VisibleTaken ==
  ASSUME NEW A \in Seq(ApiEvent), OneControl(A), A # <<>>
  PROVE  /\ OneControl(Tail(A))
         /\ Visible(A) = IF Head(A).type \in Controls THEN Visible(Tail(A)) ELSE <<Head(A)>> \o Visible(Tail(A))
<1> DEFINE T == Tail(A)
<1>1. /\ T \in Seq(ApiEvent) /\ Len(A) \in Nat /\ Len(A) >= 1 /\ Len(T) = Len(A) - 1
      /\ DOMAIN A = 1 .. Len(A) /\ DOMAIN T = 1 .. Len(A) - 1
      /\ Head(A) = A[1] /\ Head(A) \in ApiEvent
      /\ \A i \in 1 .. Len(A) - 1 : T[i] = A[i + 1]
  BY TailShape
<1> HIDE DEF T, ApiEvent
<1>2. OneControl(T)
  <2> SUFFICES ASSUME NEW i \in DOMAIN T, NEW j \in DOMAIN T, T[i].type \in Controls, T[j].type \in Controls
               PROVE  i = j
    BY DEF OneControl
  <2>1. i + 1 \in DOMAIN A /\ j + 1 \in DOMAIN A /\ A[i + 1].type \in Controls /\ A[j + 1].type \in Controls
    BY <1>1
  <2>2. i + 1 = j + 1
    BY <2>1 DEF OneControl
  <2> QED  BY <1>1, <2>2
<1>3. CASE Head(A).type \in Controls
  <2>1. 1 \in DOMAIN A /\ A[1].type \in Controls
    BY <1>1, <1>3
  <2>2. /\ Visible(A) \in Seq(ApiEvent) /\ Len(Visible(A)) = Len(A) - 1
        /\ \A i \in 1 .. Len(A) - 1 : Visible(A)[i] = IF i < 1 THEN A[i] ELSE A[i + 1]
    BY <2>1, VisibleBut
  <2>3. \A i \in 1 .. Len(A) - 1 : Visible(A)[i] = T[i]
    BY <1>1, <2>2
  <2>4. Visible(A) = T
    BY <1>1, <2>2, <2>3, SeqEqual
  <2>5. NoControl(T)
    <3> SUFFICES ASSUME NEW i \in DOMAIN T, T[i].type \in Controls  PROVE FALSE
      BY DEF NoControl
    <3>1. i + 1 \in DOMAIN A /\ A[i + 1].type \in Controls /\ i + 1 # 1
      BY <1>1
    <3> QED  BY <2>1, <3>1 DEF OneControl
  <2>6. Visible(T) = T
    BY <2>5, VisibleAll
  <2> QED  BY <1>2, <1>3, <2>4, <2>6 DEF T
<1>4. ASSUME NEW V \in Seq(ApiEvent)
      PROVE  /\ <<Head(A)>> \o V \in Seq(ApiEvent) /\ Len(<<Head(A)>> \o V) = Len(V) + 1
             /\ \A i \in 1 .. Len(V) + 1 : (<<Head(A)>> \o V)[i] = IF i = 1 THEN A[1] ELSE V[i - 1]
  <2>1. <<Head(A)>> \in Seq(ApiEvent) /\ Len(<<Head(A)>>) = 1 /\ <<Head(A)>>[1] = A[1]
    BY <1>1
  <2>2. Len(V) \in Nat
    OBVIOUS
  <2> QED  BY <2>1, <2>2, ConcatProperties
<1>5. CASE Head(A).type \notin Controls /\ NoControl(A)
  <2>1. NoControl(T)
    BY <1>1, <1>5 DEF NoControl
  <2>2. Visible(T) = T /\ Visible(A) = A
    BY <1>5, <2>1, VisibleAll
  <2>3. /\ <<Head(A)>> \o T \in Seq(ApiEvent) /\ Len(<<Head(A)>> \o T) = Len(T) + 1
        /\ \A i \in 1 .. Len(T) + 1 : (<<Head(A)>> \o T)[i] = IF i = 1 THEN A[1] ELSE T[i - 1]
    BY <1>1, <1>4
  <2>4. Len(A) = Len(<<Head(A)>> \o T) /\ \A i \in 1 .. Len(A) : A[i] = (<<Head(A)>> \o T)[i]
    BY <1>1, <2>3
  <2>5. A = <<Head(A)>> \o T
    BY <2>3, <2>4, SeqEqual
  <2> QED  BY <1>2, <1>5, <2>2, <2>5 DEF T
<1>6. CASE Head(A).type \notin Controls /\ ~NoControl(A)
  <2>1. PICK k \in DOMAIN A : A[k].type \in Controls
    BY <1>6 DEF NoControl
  <2>2. k # 1 /\ k - 1 \in DOMAIN T /\ T[k - 1].type \in Controls
    BY <1>1, <1>6, <2>1
  <2>3. /\ Visible(A) \in Seq(ApiEvent) /\ Len(Visible(A)) = Len(A) - 1
        /\ \A i \in 1 .. Len(A) - 1 : Visible(A)[i] = IF i < k THEN A[i] ELSE A[i + 1]
    BY <2>1, VisibleBut
  <2>4. /\ Visible(T) \in Seq(ApiEvent) /\ Len(Visible(T)) = Len(T) - 1
        /\ \A i \in 1 .. Len(T) - 1 : Visible(T)[i] = IF i < k - 1 THEN T[i] ELSE T[i + 1]
    BY <1>1, <1>2, <2>2, VisibleBut
  <2> DEFINE W == <<Head(A)>> \o Visible(T)
  <2>5. /\ W \in Seq(ApiEvent) /\ Len(W) = Len(Visible(T)) + 1
        /\ \A i \in 1 .. Len(Visible(T)) + 1 : W[i] = IF i = 1 THEN A[1] ELSE Visible(T)[i - 1]
    BY <1>4, <2>4
  <2> HIDE DEF W
  <2>6. Len(W) = Len(Visible(A))
    BY <1>1, <2>3, <2>4, <2>5
  <2>7. ASSUME NEW i \in 1 .. Len(Visible(A))  PROVE Visible(A)[i] = W[i]
    <3>1. i \in 1 .. Len(A) - 1 /\ k \in 2 .. Len(A)
      BY <1>1, <2>1, <2>2, <2>3
    <3>2. CASE i = 1
      BY <1>1, <2>3, <2>5, <2>6, <3>1, <3>2
    <3>3. CASE i # 1
      <4>1. W[i] = Visible(T)[i - 1] /\ i - 1 \in 1 .. Len(T) - 1
        BY <1>1, <2>3, <2>5, <2>6, <3>1, <3>3
      <4>2. CASE i < k
        <5>1. Visible(T)[i - 1] = T[i - 1] /\ Visible(A)[i] = A[i]
          BY <1>1, <2>3, <2>4, <3>1, <4>1, <4>2
        <5>2. T[i - 1] = A[i]
          BY <1>1, <3>1, <3>3
        <5> QED  BY <4>1, <5>1, <5>2
      <4>3. CASE ~ (i < k)
        <5>1. Visible(T)[i - 1] = T[i] /\ Visible(A)[i] = A[i + 1]
          BY <1>1, <2>3, <2>4, <3>1, <4>1, <4>3
        <5>2. T[i] = A[i + 1]
          BY <1>1, <3>1
        <5> QED  BY <4>1, <5>1, <5>2
      <4> QED  BY <4>2, <4>3
    <3> QED  BY <3>2, <3>3
  <2>8. Visible(A) = W
    BY <2>3, <2>5, <2>6, <2>7, SeqEqual
  <2> QED  BY <1>2, <1>6, <2>8 DEF T, W
<1> QED  BY <1>3, <1>5, <1>6

LEMMA VisibleOne ==
  ASSUME NEW e \in ApiEvent
  PROVE  Visible(<<e>>) = IF e.type \in Controls THEN <<>> ELSE <<e>>
<1>1. <<e>> \in Seq(ApiEvent) /\ Len(<<e>>) = 1 /\ DOMAIN <<e>> = 1 .. 1 /\ <<e>>[1] = e
  OBVIOUS
<1>2. CASE e.type \notin Controls
  <2>1. NoControl(<<e>>)
    BY <1>1, <1>2 DEF NoControl
  <2> QED  BY <1>2, <2>1, VisibleAll
<1>3. CASE e.type \in Controls
  <2>1. OneControl(<<e>>) /\ 1 \in DOMAIN <<e>>
    BY <1>1 DEF OneControl
  <2>2. <<e>>[1].type \in Controls
    BY <1>1, <1>3
  <2>3. Visible(<<e>>) \in Seq(ApiEvent) /\ Len(Visible(<<e>>)) = Len(<<e>>) - 1
    BY <1>1, <2>1, <2>2, VisibleBut
  <2>4. Len(Visible(<<e>>)) = 0
    BY <1>1, <2>3
  <2> QED  BY <1>3, <2>3, <2>4, EmptySeq
<1> QED  BY <1>2, <1>3

(***************************************************************************)
(* What the reader sees of the loop: no control before its end, and as the *)
(* last BOOKMARK the one from which the loop resumes.                      *)
(***************************************************************************)
ControlsOK ==
  /\ OneControl(api) /\ \A i \in DOMAIN api : api[i].type = "ERROR" => i = Len(api)
  /\ pc = "send" => hand.req = requests /\ hand.event.type \notin Controls
  /\ pc = "fail" => hand.event.type \in Controls
  /\ pc \notin {"close", "stop", "done"} =>
       \A i \in DOMAIN channel : channel[i].event.type \notin Controls

Numbers ==
  /\ \A i \in DOMAIN received : received[i].req <= requests
  /\ \A i \in DOMAIN channel : channel[i].req <= requests
  /\ hand.req <= requests

IsLastMark(G, b, v, n) ==
  /\ n \in DOMAIN G /\ G[n].event = Bookmark(v) /\ G[n].req >= b
  /\ \A m \in DOMAIN G : m > n => G[m].event.type # "BOOKMARK"

LastMarkOK ==
  WatchBookmark /\ pc \in {"select", "send", "connect"} /\ bookmark # 0 =>
    \E n : IsLastMark(Got, base, bookmark, n)

ShownInv == ControlsOK /\ Numbers /\ LastMarkOK

LEMMA SentKeepsShown ==
  ASSUME WatchInv, ShownInv, Serving, NEW e \in ApiEvent, api' = Append(api, e),
         e.type \in Controls => NoControl(api),
         UNCHANGED <<received, channel, hand, pc, requests, base, bookmark>>
  PROVE  ShownInv'
<1>1. api \in Seq(ApiEvent) /\ Got' = Got /\ ControlsOK
  BY GotSame DEF WatchInv, WatchTypes, InHand, ShownInv
<1>2. OneControl(api')
  BY <1>1, VisibleSent DEF ControlsOK
<1>3. \A i \in DOMAIN api' : api'[i].type = "ERROR" => i = Len(api')
  <2>1. /\ DOMAIN api = 1 .. Len(api) /\ DOMAIN api' = 1 .. Len(api) + 1 /\ Len(api') = Len(api) + 1
        /\ \A i \in 1 .. Len(api) : api'[i] = api[i]
        /\ Len(api) \in Nat
    BY <1>1, AppendShape
  <2> QED  BY <2>1 DEF Serving
<1>4. ControlsOK'
  BY <1>1, <1>2, <1>3 DEF ControlsOK
<1> QED  BY <1>1, <1>4 DEF ShownInv, Numbers, LastMarkOK

LEMMA TakesKeepShown ==
  ASSUME WatchInv, ShownInv, TakeEvent \/ TakeBookmark \/ TakeUnsupported
  PROVE  ShownInv'
<1>1. /\ pc = "select" /\ api # <<>> /\ api' = Tail(api) /\ pc' \in {"select", "send"}
      /\ UNCHANGED <<received, channel, requests, base>>
  BY DEF TakeEvent, TakeBookmark, TakeUnsupported, NextIs, Take, readerVars
<1>2. /\ Head(api) \in ApiEvent /\ IsItem(log, Head(api))
      /\ [event |-> Head(api), req |-> requests] \in Message
  BY <1>1, TakenTypes
<1>3. api \in Seq(ApiEvent) /\ Got \in Seq(Message) /\ requests \in Nat /\ base \in 0 .. requests /\ ControlsOK
  BY GotTypes DEF WatchInv, WatchTypes, RequestInv, Numbered, ShownInv
<1>4. OneControl(api')
  BY <1>1, <1>3, VisibleTaken DEF ControlsOK
<1>5. \A i \in DOMAIN api' : api'[i].type = "ERROR" => i = Len(api')
  <2>1. /\ Len(api) \in Nat /\ Len(api) >= 1 /\ Len(api') = Len(api) - 1
        /\ DOMAIN api = 1 .. Len(api) /\ DOMAIN api' = 1 .. Len(api) - 1
        /\ \A i \in 1 .. Len(api) - 1 : api'[i] = api[i + 1]
    BY <1>1, <1>3, TailShape
  <2> SUFFICES ASSUME NEW i \in DOMAIN api', api'[i].type = "ERROR"  PROVE i = Len(api')
    OBVIOUS
  <2>2. i + 1 \in DOMAIN api /\ api[i + 1].type = "ERROR" /\ i \in Nat
    BY <2>1
  <2>3. i + 1 = Len(api)
    BY <1>3, <2>2 DEF ControlsOK
  <2> QED  BY <2>1, <2>2, <2>3
<1>6. CASE pc' = "select" /\ hand' = hand
  <2>1. Got' = Got
    BY <1>1, <1>6, GotSame DEF InHand
  <2>2. ControlsOK'
    BY <1>1, <1>3, <1>4, <1>5, <1>6 DEF ControlsOK
  <2>3. WatchBookmark => bookmark' = 0
    BY <1>1, <1>6 DEF TakeEvent, TakeBookmark, TakeUnsupported, Take
  <2> QED  BY <1>1, <1>6, <2>2, <2>3 DEF ShownInv, Numbers, LastMarkOK
<1>7. CASE pc' = "send" /\ hand' = [event |-> Head(api), req |-> requests]
  <2>1. Head(api).type \notin Controls /\ (Head(api).type = "BOOKMARK" => bookmark' = Head(api).rv)
        /\ (Head(api).type # "BOOKMARK" => bookmark' = bookmark)
    BY <1>1, <1>7 DEF TakeEvent, TakeBookmark, TakeUnsupported, NextIs, VersionOf, Controls
  <2> DEFINE m == [event |-> Head(api), req |-> requests]
  <2>2. m \in Message /\ m.event = Head(api) /\ m.req = requests /\ hand' = m
    BY <1>2, <1>7
  <2> HIDE DEF m
  <2>3. Got' = Append(Got, m)
    BY <1>1, <1>7, <2>2, GotTaken DEF WatchInv
  <2>4. ControlsOK'
    BY <1>1, <1>3, <1>4, <1>5, <1>7, <2>1, <2>2 DEF ControlsOK
  <2>5. Numbers'
    BY <1>1, <1>3, <2>2 DEF ShownInv, Numbers
  <2>6. /\ DOMAIN Got = 1 .. Len(Got) /\ DOMAIN Got' = 1 .. Len(Got) + 1 /\ Len(Got) \in Nat
        /\ \A i \in 1 .. Len(Got) : Got'[i] = Got[i]
        /\ Got'[Len(Got) + 1] = m
    BY <1>3, <2>2, <2>3, AppendShape
  <2>7. LastMarkOK'
    <3>1. CASE Head(api).type = "BOOKMARK"
      <4>1. Head(api) = Bookmark(bookmark')
        BY <1>2, <2>1, <3>1 DEF IsItem, IsChange, Changes, Controls
      <4>2. IsLastMark(Got', base, bookmark', Len(Got) + 1)
        BY <1>3, <2>2, <2>6, <4>1 DEF IsLastMark
      <4> QED  BY <1>1, <4>2 DEF LastMarkOK
    <3>2. CASE Head(api).type # "BOOKMARK"
      <4> SUFFICES ASSUME WatchBookmark, bookmark # 0  PROVE \E n : IsLastMark(Got', base, bookmark, n)
        BY <1>1, <2>1, <3>2 DEF LastMarkOK
      <4>1. PICK n : IsLastMark(Got, base, bookmark, n)
        BY <1>1 DEF ShownInv, LastMarkOK
      <4>2. IsLastMark(Got', base, bookmark, n)
        BY <2>2, <2>6, <3>2, <4>1 DEF IsLastMark
      <4> QED  BY <4>2
    <3> QED  BY <3>1, <3>2
  <2> QED  BY <2>4, <2>5, <2>7 DEF ShownInv
<1>8. \/ pc' = "select" /\ hand' = hand
      \/ pc' = "send" /\ hand' = [event |-> Head(api), req |-> requests]
  BY <1>1 DEF TakeEvent, TakeBookmark, TakeUnsupported, Take
<1> QED  BY <1>6, <1>7, <1>8

LEMMA RequestedKeepsShown ==
  ASSUME WatchInv, ShownInv, pc \in {"none", "connect"}, pc' = "select", Requested(bookmark),
         UNCHANGED <<store, log, hand, bookmark, readerVars>>
  PROVE  ShownInv'
<1>1. /\ requests' = requests + 1 /\ requests \in Nat /\ Got' = Got
      /\ UNCHANGED <<received, channel>>
  BY GotSame DEF Requested, WatchInv, RequestInv, Numbered, InHand, readerVars
<1>2. \A i \in DOMAIN api' : api'[i].type \notin Controls
  <2>1. CASE bookmark = 0
    <3>1. api' \in Listings(store)
      BY <2>1 DEF Requested, FirstEvents
    <3>2. \A i \in DOMAIN api' : api'[i].type = "ADDED"
      BY <3>1, ListingShape DEF WatchInv
    <3> QED  BY <3>2 DEF Controls
  <2>2. CASE bookmark # 0
    BY <2>2 DEF Requested, FirstEvents
  <2> QED  BY <2>1, <2>2
<1>3. ControlsOK'
  BY <1>1, <1>2 DEF ShownInv, ControlsOK, OneControl, Controls
<1>4. Numbers'
  <2>1. /\ received \in Seq(Message) /\ channel \in Seq(Message) /\ hand \in Message
    BY DEF WatchInv, WatchTypes
  <2>2. /\ \A i \in DOMAIN received : received[i] \in Message
        /\ \A i \in DOMAIN channel : channel[i] \in Message
    BY <2>1
  <2>3. \A m \in Message : m.req \in Nat
    BY DEF Message
  <2> QED  BY <1>1, <2>1, <2>2, <2>3 DEF ShownInv, Numbers
<1>5. LastMarkOK'
  <2> SUFFICES ASSUME WatchBookmark, bookmark # 0  PROVE \E n : IsLastMark(Got, base', bookmark, n)
    BY <1>1 DEF LastMarkOK
  <2>1. base' = base /\ pc = "connect"
    BY DEF Requested, WatchInv, Phases
  <2> QED  BY <2>1 DEF ShownInv, LastMarkOK
<1> QED  BY <1>3, <1>4, <1>5 DEF ShownInv

LEMMA OthersKeepShown ==
  ASSUME WatchInv, ShownInv,
         UNCHANGED <<received, channel, hand, requests, base>>,
         api' = api \/ api' = <<>> \/ pc' = "close",
         api' = api \/ (OneControl(api') /\ \A i \in DOMAIN api' : api'[i].type = "ERROR" => i = Len(api')),
         InHand' = InHand, bookmark' \in {bookmark, 0},
         pc' = "send" => pc = "send", pc' = "fail" => pc = "fail",
         pc' \in {"select", "connect"} => pc \in {"select", "connect"},
         pc \in {"close", "stop", "done"} => pc' \in {"close", "stop", "done"}
  PROVE  ShownInv'
<1>1. Got' = Got
  BY GotSame
<1>2. ControlsOK'
  BY DEF ShownInv, ControlsOK
<1> QED  BY <1>1, <1>2 DEF ShownInv, Numbers, LastMarkOK

LEMMA SendKeepsShown ==
  ASSUME WatchInv, ShownInv, Send
  PROVE  ShownInv'
<1>1. /\ pc \in {"send", "fail"} /\ channel = <<>> /\ channel' = <<hand>>
      /\ pc' = IF pc = "send" THEN "select" ELSE "close"
      /\ UNCHANGED <<received, hand, api, bookmark, base, requests>>
  BY DEF Send, serverVars, apiVars
<1>2. pc = "send" => Got' = Got
  BY <1>1, GotSent DEF WatchInv
<1>3. ControlsOK'
  BY <1>1 DEF ShownInv, ControlsOK
<1>4. Numbers'
  BY <1>1 DEF ShownInv, Numbers
<1>5. LastMarkOK'
  BY <1>1, <1>2 DEF ShownInv, LastMarkOK
<1> QED  BY <1>3, <1>4, <1>5 DEF ShownInv

LEMMA ReceiveKeepsShown ==
  ASSUME WatchInv, ShownInv, Receive
  PROVE  ShownInv'
<1>1. /\ Got' = Got /\ received' = Append(received, channel[1]) /\ channel' = <<>>
      /\ channel[1] \in Message /\ 1 \in DOMAIN channel
  BY GotReceived DEF WatchInv
<1>2. UNCHANGED <<hand, pc, api, bookmark, base, requests>>
  BY DEF Receive, apiVars, loopVars
<1>3. ControlsOK'
  BY <1>1, <1>2 DEF ShownInv, ControlsOK
<1>4. Numbers'
  <2>1. received \in Seq(Message)
    BY DEF WatchInv, WatchTypes
  <2>2. /\ DOMAIN received = 1 .. Len(received) /\ DOMAIN received' = 1 .. Len(received) + 1
        /\ \A i \in 1 .. Len(received) : received'[i] = received[i]
        /\ received'[Len(received) + 1] = channel[1] /\ Len(received) \in Nat
    BY <1>1, <2>1, AppendShape
  <2>3. channel[1].req <= requests
    BY <1>1 DEF ShownInv, Numbers
  <2>4. \A i \in DOMAIN received' : received'[i].req <= requests
    BY <2>2, <2>3 DEF ShownInv, Numbers
  <2> QED  BY <1>1, <1>2, <2>4 DEF ShownInv, Numbers
<1> QED  BY <1>1, <1>2, <1>3, <1>4 DEF ShownInv, LastMarkOK

LEMMA ReconnectErrorKeepsShown ==
  ASSUME WatchInv, ShownInv, ReconnectError
  PROVE  ShownInv'
<1>1. /\ pc = "connect" /\ pc' = "fail" /\ hand' = [event |-> Control("ERROR"), req |-> requests]
      /\ UNCHANGED <<received, channel, api, bookmark, base, requests>>
  BY DEF ReconnectError, apiVars, readerVars
<1>2. requests \in Nat /\ hand'.req = requests /\ hand'.event.type \in Controls
  BY <1>1 DEF WatchInv, RequestInv, Numbered, Control, Controls
<1>3. ControlsOK'
  BY <1>1, <1>2 DEF ShownInv, ControlsOK
<1>4. Numbers'
  BY <1>1, <1>2 DEF ShownInv, Numbers
<1> QED  BY <1>1, <1>3, <1>4 DEF ShownInv, LastMarkOK

LEMMA TakenKeepsControls ==
  ASSUME api \in Seq(ApiEvent), ControlsOK, api # <<>>
  PROVE  /\ OneControl(Tail(api))
         /\ \A i \in DOMAIN Tail(api) : Tail(api)[i].type = "ERROR" => i = Len(Tail(api))
<1> DEFINE T == Tail(api)
<1>1. OneControl(T)
  BY VisibleTaken DEF ControlsOK
<1>2. /\ Len(api) \in Nat /\ Len(api) >= 1 /\ Len(T) = Len(api) - 1
      /\ DOMAIN api = 1 .. Len(api) /\ DOMAIN T = 1 .. Len(api) - 1
      /\ \A i \in 1 .. Len(api) - 1 : T[i] = api[i + 1]
  BY TailShape
<1> HIDE DEF T
<1>3. ASSUME NEW i \in DOMAIN T, T[i].type = "ERROR"  PROVE i = Len(T)
  <2>1. i + 1 \in DOMAIN api /\ api[i + 1].type = "ERROR" /\ i \in Nat
    BY <1>2, <1>3
  <2>2. i + 1 = Len(api)
    BY <2>1 DEF ControlsOK
  <2> QED  BY <1>2, <2>1, <2>2
<1> QED  BY <1>1, <1>3 DEF T

LEMMA BreaksKeepShown ==
  ASSUME WatchInv, ShownInv, TakeInvalid \/ TakeError
  PROVE  ShownInv'
<1>1. api \in Seq(ApiEvent) /\ ControlsOK
  BY DEF WatchInv, WatchTypes, ShownInv
<1>2. CASE TakeInvalid
  <2>1. /\ UNCHANGED <<received, channel, hand, requests, base, bookmark>>
        /\ pc = "select" /\ pc' = "close" /\ api # <<>> /\ api' = Tail(api)
    BY <1>2 DEF TakeInvalid, NextIs, serverVars, readerVars
  <2>2. /\ OneControl(api')
        /\ \A i \in DOMAIN api' : api'[i].type = "ERROR" => i = Len(api')
    BY <1>1, <2>1, TakenKeepsControls
  <2>3. InHand' = InHand
    BY <2>1 DEF InHand
  <2> QED  BY <2>1, <2>2, <2>3, OthersKeepShown
<1>3. CASE TakeError
  <2>1. /\ UNCHANGED <<received, channel, hand, requests, base>>
        /\ pc = "select" /\ pc' = "connect" /\ api' = <<>> /\ bookmark' = 0
    BY <1>3 DEF TakeError, NextIs, readerVars
  <2>2. OneControl(api') /\ \A i \in DOMAIN api' : api'[i].type = "ERROR" => i = Len(api')
    BY <2>1 DEF OneControl
  <2>3. InHand' = InHand
    BY <2>1 DEF InHand
  <2> QED  BY <2>1, <2>2, <2>3, OthersKeepShown
<1> QED  BY <1>2, <1>3

LEMMA ServerKeepsShown ==
  ASSUME WatchInv, ShownInv, Transmit \/ SendBookmark \/ SendControl
  PROVE  ShownInv'
<1>1. Serving /\ UNCHANGED <<received, channel, hand, pc, requests, base, bookmark>>
  BY DEF Transmit, SendBookmark, SendControl, loopVars, readerVars
<1>2. LogOK(log) /\ Len(log) \in Nat /\ DOMAIN log = 1 .. Len(log) /\ sent \in 0 .. Len(log)
  BY LogTypes DEF WatchInv, WatchTypes
<1>3. \E e \in ApiEvent : api' = Append(api, e) /\ (e.type \in Controls => NoControl(api))
  <2>1. CASE Transmit
    <3>1. sent + 1 \in DOMAIN log /\ api' = Append(api, log[sent + 1])
      BY <1>2, <2>1 DEF Transmit
    <3>2. log[sent + 1] \in ApiEvent /\ log[sent + 1].type \notin Controls
      BY <1>2, <3>1, ChangeIsItem DEF LogOK, Changes, Controls
    <3> QED  BY <3>1, <3>2
  <2>2. CASE SendBookmark
    <3>1. Bookmark(sent) \in ApiEvent /\ Bookmark(sent).type \notin Controls
      BY <1>2, BookmarkIsItem DEF Bookmark, Controls
    <3> QED  BY <2>2, <3>1 DEF SendBookmark
  <2>3. CASE SendControl
    <3>1. PICK type \in Controls : api' = Append(api, Control(type))
      BY <2>3 DEF SendControl
    <3> QED  BY <2>3, <3>1, ControlIsItem DEF SendControl, NoControl
  <2> QED  BY <2>1, <2>2, <2>3
<1> QED  BY <1>1, <1>3, SentKeepsShown

LEMMA NextKeepsShown == WatchInv /\ ShownInv /\ [Next]_vars => ShownInv'
<1> SUFFICES ASSUME WatchInv, ShownInv, [Next]_vars  PROVE ShownInv'
  OBVIOUS
<1>1. CASE Transmit \/ SendBookmark \/ SendControl
  BY <1>1, ServerKeepsShown
<1>2. CASE Watch
  <2>1. bookmark = 0 /\ pc = "none"
    BY <1>2 DEF Watch, WatchInv, Phases
  <2> QED  BY <1>2, <2>1, RequestedKeepsShown DEF Watch
<1>3. CASE Reconnect
  BY <1>3, RequestedKeepsShown DEF Reconnect
<1>4. CASE \/ \E o \in Objects, type \in {"ADDED", "MODIFIED", "DELETED"} : Change(type, o)
           \/ EndRequest \/ WatchError \/ SeeDone \/ SeeEnd \/ CloseChannel \/ StopWatcher \/ Cancel
           \/ Leave \/ UNCHANGED vars
  <2>1. /\ UNCHANGED <<received, channel, hand, requests, base, bookmark, api>>
        /\ \/ pc' = pc
           \/ pc = "none" /\ pc' = "refused"
           \/ pc = "select" /\ pc' \in {"close", "connect"}
           \/ pc = "close" /\ pc' = "stop"
           \/ pc = "stop" /\ pc' = "done"
    <3>1. CASE EndRequest \/ \E o \in Objects, type \in {"ADDED", "MODIFIED", "DELETED"} : Change(type, o)
      BY <3>1 DEF Change, EndRequest, apiVars, loopVars, readerVars
    <3>2. CASE WatchError \/ SeeDone
      BY <3>2 DEF WatchError, SeeDone, serverVars, apiVars, readerVars
    <3>3. CASE SeeEnd
      BY <3>3 DEF SeeEnd, serverVars, apiVars, readerVars
    <3>4. CASE CloseChannel \/ StopWatcher
      BY <3>4 DEF CloseChannel, StopWatcher, serverVars, apiVars, readerVars
    <3>5. CASE Cancel \/ Leave \/ UNCHANGED vars
      BY <3>5 DEF Cancel, Leave, vars, serverVars, apiVars, loopVars, readerVars
    <3> QED  BY <1>4, <3>1, <3>2, <3>3, <3>4, <3>5
  <2>2. InHand' = InHand
    BY <2>1 DEF InHand
  <2>3. /\ pc' = "send" => pc = "send"
        /\ pc' = "fail" => pc = "fail"
        /\ pc' \in {"select", "connect"} => pc \in {"select", "connect"}
        /\ pc \in {"close", "stop", "done"} => pc' \in {"close", "stop", "done"}
    BY <2>1
  <2>4. UNCHANGED <<received, channel, hand, requests, base, bookmark, api>>
    BY <2>1
  <2> QED  BY <2>2, <2>3, <2>4, OthersKeepShown
<1>5. CASE ReconnectError
  BY <1>5, ReconnectErrorKeepsShown
<1>6. CASE TakeEvent \/ TakeBookmark \/ TakeUnsupported
  BY <1>6, TakesKeepShown
<1>7. CASE TakeInvalid \/ TakeError
  BY <1>7, BreaksKeepShown
<1>8. CASE Send
  BY <1>8, SendKeepsShown
<1>9. CASE Receive
  BY <1>9, ReceiveKeepsShown
<1> QED
  BY <1>1, <1>2, <1>3, <1>4, <1>5, <1>6, <1>7, <1>8, <1>9 DEF Next, Server, Loop, Reader

LEMMA AlwaysShownInv == Spec => [](WatchInv /\ ShownInv)
<1>1. Init => ShownInv
  BY DEF Init, Nothing, ShownInv, ControlsOK, OneControl, Numbers, LastMarkOK
<1> QED  BY <1>1, AlwaysWatchInv, NextKeepsShown, PTL DEF Spec

(***************************************************************************)
(* The stream in its parts: what the reader sees of the channel c, of the  *)
(* loop's hand H, and of the result channel V, and what is left of the log *)
(* R.                                                                      *)
(***************************************************************************)
Sight(m, b) == IF m.event.type = "BOOKMARK" /\ m.req < b THEN Bookmark(0) ELSE m.event
ShownIn(c, b) == Visible([i \in DOMAIN c |-> Sight(c[i], b)])
Parts(F, H, V, R) == ((F \o H) \o V) \o R
HandSeen == IF pc = "send" THEN <<hand.event>> ELSE <<>>

StreamOK ==
  stream = IF status # "open" THEN ShownIn(channel, base)
           ELSE Parts(ShownIn(channel, base), HandSeen, Visible(api), Replay(log, sent))

LEMMA StreamParts == StreamOK /\ StreamOK'
BY DEF StreamOK, stream, Seen, Sight, ShownIn, Parts, HandSeen

\* A change of the cluster, or a BOOKMARK, comes last.
LEMMA PartsAppend ==
  ASSUME NEW S, NEW X \in Seq(S), NEW V \in Seq(S), NEW e \in S
  PROVE  X \o Append(V, e) = Append(X \o V, e) /\ X \o V \in Seq(S)
<1>1. X \o V \in Seq(S) /\ <<e>> \in Seq(S)
  BY ConcatProperties
<1>2. X \o (V \o <<e>>) = (X \o V) \o <<e>>
  BY <1>1, ConcatAssociative
<1> QED  BY <1>1, <1>2, AppendIsConcat

LEMMA PartsMark ==
  ASSUME NEW S, NEW F \in Seq(S), NEW H \in Seq(S), NEW V \in Seq(S), NEW e \in S
  PROVE  Parts(F, H, Append(V, e), <<>>) = Append(Parts(F, H, V, <<>>), e)
<1> DEFINE X == F \o H
           Y == X \o V
<1>1. X \in Seq(S)
  BY ConcatProperties
<1> HIDE DEF X
<1>2. X \o Append(V, e) = Append(Y, e) /\ Y \in Seq(S)
  BY <1>1, PartsAppend
<1> HIDE DEF Y
<1>3. Append(Y, e) \in Seq(S)
  BY <1>2, AppendProperties
<1>4. Append(Y, e) \o <<>> = Append(Y, e) /\ Y \o <<>> = Y
  BY <1>2, <1>3, ConcatEmptySeq
<1> QED  BY <1>2, <1>4 DEF Parts, X, Y

\* An event moves on from the log to the result channel, to the hand, and to
\* the channel.
LEMMA PartsSend ==
  ASSUME NEW S, NEW F \in Seq(S), NEW H \in Seq(S), NEW V \in Seq(S), NEW R \in Seq(S), NEW e \in S
  PROVE  Parts(F, H, Append(V, e), R) = Parts(F, H, V, <<e>> \o R)
<1> DEFINE X == F \o H
           Y == X \o V
<1>1. X \in Seq(S) /\ <<e>> \in Seq(S)
  BY ConcatProperties
<1> HIDE DEF X
<1>2. X \o Append(V, e) = Append(Y, e) /\ Y \in Seq(S)
  BY <1>1, PartsAppend
<1> HIDE DEF Y
<1>3. Append(Y, e) = Y \o <<e>>
  BY <1>2, AppendIsConcat
<1>4. (Y \o <<e>>) \o R = Y \o (<<e>> \o R)
  BY <1>1, <1>2, ConcatAssociative, SMTT(20)
<1> QED  BY <1>2, <1>3, <1>4 DEF Parts, X, Y

LEMMA PartsTake ==
  ASSUME NEW S, NEW F \in Seq(S), NEW V \in Seq(S), NEW R, NEW e \in S
  PROVE  Parts(F, <<>>, <<e>> \o V, R) = Parts(F, <<e>>, V, R)
<1>1. <<e>> \in Seq(S)
  OBVIOUS
<1>2. F \o <<>> = F
  BY ConcatEmptySeq
<1>3. F \o (<<e>> \o V) = (F \o <<e>>) \o V
  BY <1>1, ConcatAssociative
<1> QED  BY <1>2, <1>3 DEF Parts

LEMMA PartsForward ==
  ASSUME NEW S, NEW H \in Seq(S), NEW V, NEW R
  PROVE  Parts(<<>>, H, V, R) = Parts(H, <<>>, V, R)
<1>1. <<>> \o H = H /\ H \o <<>> = H
  BY ConcatEmptySeq
<1> QED  BY <1>1 DEF Parts

LEMMA PartsAnew ==
  ASSUME NEW S, NEW F \in Seq(S), NEW V \in Seq(S)
  PROVE  Parts(F, <<>>, <<>>, V) = F \o V /\ Parts(F, <<>>, V, <<>>) = F \o V
<1>1. F \o <<>> = F
  BY ConcatEmptySeq
<1>2. F \o V \in Seq(S) /\ (F \o V) \o <<>> = F \o V
  BY ConcatProperties, ConcatEmptySeq
<1> QED  BY <1>1, <1>2 DEF Parts

LEMMA HeadTaken ==
  ASSUME NEW S, NEW e \in S, NEW s \in Seq(S)
  PROVE  /\ <<e>> \o s \in Seq(S) /\ <<e>> \o s # <<>>
         /\ Head(<<e>> \o s) = e /\ Tail(<<e>> \o s) = s
<1>1. <<e>> \in Seq(S) /\ Len(<<e>>) = 1 /\ <<e>>[1] = e /\ Len(s) \in Nat
  OBVIOUS
<1> DEFINE t == <<e>> \o s
<1>2. /\ t \in Seq(S) /\ Len(t) = 1 + Len(s)
      /\ \A i \in 1 .. 1 + Len(s) : t[i] = IF i <= 1 THEN <<e>>[i] ELSE s[i - 1]
  BY <1>1, ConcatProperties
<1> HIDE DEF t
<1>3. t # <<>>
  BY <1>1, <1>2
<1>4. Head(t) = t[1] /\ t[1] = e
  BY <1>1, <1>2, <1>3
<1>5. /\ Tail(t) \in Seq(S) /\ Len(Tail(t)) = Len(s)
      /\ \A i \in 1 .. Len(s) : Tail(t)[i] = t[i + 1]
  BY <1>1, <1>2, <1>3, HeadTailProperties
<1>6. \A i \in 1 .. Len(s) : Tail(t)[i] = s[i]
  BY <1>1, <1>2, <1>5
<1>7. Tail(t) = s
  BY <1>5, <1>6, SeqEqual
<1> QED  BY <1>2, <1>3, <1>4, <1>7 DEF t

\* What the reader sees of the channel may outlive the request.
LEMMA BufferedFront ==
  ASSUME NEW S, NEW s \in Seq(S), NEW t \in Seq(S), Len(s) <= 1
  PROVE  s \in Buffered(s \o t)
<1>1. Len(s) \in Nat /\ Len(t) \in Nat /\ Len(s) \in 0 .. 1 /\ Len(s \o t) = Len(s) + Len(t)
  <2>1. Len(s) \in Nat /\ Len(t) \in Nat
    OBVIOUS
  <2>2. Len(s \o t) = Len(s) + Len(t)
    BY ConcatProperties
  <2>3. \A n \in Nat : n <= 1 => n \in 0 .. 1
    OBVIOUS
  <2> QED  BY <2>1, <2>2, <2>3
<1>2. SubSeq(s \o t, 1, Len(s)) = s
  <2>1. CASE Len(s) = 0
    BY <2>1, SubSeqEmpty, EmptySeq
  <2>2. CASE Len(s) = 1
    <3>1. SubSeq(s \o t, 1, Len(s)) = SubSeq(s, 1, Len(s))
      <4>1. 1 \in 1 .. Len(s) /\ Len(s) \in 1 .. Len(s)
        BY <2>2
      <4> QED  BY <4>1, SubSeqOfConcat1
    <3> QED  BY <3>1, SubSeqFull
  <2> QED  BY <1>1, <2>1, <2>2
<1>3. Len(s) \in {m \in 0 .. 1 : m <= Len(s \o t)}
  BY <1>1
<1> QED  BY <1>2, <1>3 DEF Buffered

LEMMA ShownNone == ASSUME NEW b  PROVE ShownIn(<<>>, b) = <<>>
<1>1. DOMAIN <<>> = {} /\ <<>> = [i \in {} |-> Sight(<<>>[i], b)]
  OBVIOUS
<1>2. NoControl(<<>>)
  BY DEF NoControl
<1> QED  BY <1>1, <1>2, VisibleAll DEF ShownIn

LEMMA ShownOne ==
  ASSUME NEW m \in Message, NEW b
  PROVE  /\ Sight(m, b) \in ApiEvent /\ Sight(m, b).type = m.event.type
         /\ ShownIn(<<m>>, b) = IF m.event.type \in Controls THEN <<>> ELSE <<Sight(m, b)>>
<1>1. Sight(m, b) \in ApiEvent /\ Sight(m, b).type = m.event.type
  <2>1. m.event \in ApiEvent
    BY DEF Message
  <2> QED  BY <2>1, BookmarkIsItem DEF Sight, Bookmark
<1>2. [i \in DOMAIN <<m>> |-> Sight(<<m>>[i], b)] = <<Sight(m, b)>>
  OBVIOUS
<1> QED  BY <1>1, <1>2, VisibleOne DEF ShownIn

LEMMA ReplaySteps ==
  ASSUME NEW L, LogOK(L), NEW s \in 0 .. Len(L)
  PROVE  /\ Replay(L, s) \in Seq(ApiEvent)
         /\ s = Len(L) => Replay(L, s) = <<>>
         /\ s < Len(L) => Replay(L, s) = <<L[s + 1]>> \o Replay(L, s + 1)
         /\ \A e \in Event : Replay(Append(L, e), s) = Append(Replay(L, s), e)
<1>1. /\ L \in Seq(Event) /\ Len(L) \in Nat /\ DOMAIN L = 1 .. Len(L)
      /\ \A i \in 1 .. Len(L) : L[i] \in ApiEvent
  <2>1. L \in Seq(Event) /\ Len(L) \in Nat /\ DOMAIN L = 1 .. Len(L)
    BY DEF LogOK
  <2>2. ASSUME NEW i \in 1 .. Len(L)  PROVE L[i] \in ApiEvent
    <3>1. L[i] \in Event /\ L[i].type \in Changes
      BY <2>1, <2>2 DEF LogOK
    <3> QED  BY <3>1 DEF Event, ApiEvent, Changes
  <2> QED  BY <2>1, <2>2
<1>2. Replay(L, s) \in Seq(ApiEvent)
  <2>1. s + 1 \in Int /\ Len(L) \in Int /\ \A i \in s + 1 .. Len(L) : L[i] \in ApiEvent
    BY <1>1
  <2> QED  BY <2>1, SubSeqProperties DEF Replay
<1>3. s = Len(L) => Replay(L, s) = <<>>
  BY <1>1, SubSeqEmpty DEF Replay
<1>4. s < Len(L) => Replay(L, s) = <<L[s + 1]>> \o Replay(L, s + 1)
  <2> SUFFICES ASSUME s < Len(L)  PROVE Replay(L, s) = <<L[s + 1]>> \o Replay(L, s + 1)
    OBVIOUS
  <2>1. s + 1 \in 1 .. Len(L) /\ Len(L) \in s + 1 .. Len(L)
    BY <1>1
  <2> QED  BY <1>1, <2>1, SubSeqRecursiveFirst DEF Replay
<1>5. ASSUME NEW e \in Event  PROVE Replay(Append(L, e), s) = Append(Replay(L, s), e)
  <2> DEFINE M == Append(L, e)
  <2>1. /\ M \in Seq(Event) /\ Len(M) = Len(L) + 1 /\ M[Len(L) + 1] = e
        /\ \A i \in 1 .. Len(L) : M[i] = L[i]
    BY <1>1, AppendProperties
  <2> HIDE DEF M
  <2>2. /\ Replay(M, s) \in Seq(Event) /\ Len(Replay(M, s)) = Len(L) + 1 - s
        /\ \A i \in 1 .. Len(L) + 1 - s : Replay(M, s)[i] = M[s + i]
    <3>1. s + 1 \in Int /\ Len(M) \in Int /\ \A i \in s + 1 .. Len(M) : M[i] \in Event
      BY <1>1, <2>1
    <3>2. /\ SubSeq(M, s + 1, Len(M)) \in Seq(Event)
          /\ Len(SubSeq(M, s + 1, Len(M))) = IF s + 1 <= Len(M) THEN Len(M) - (s + 1) + 1 ELSE 0
          /\ \A i \in 1 .. Len(M) - (s + 1) + 1 : SubSeq(M, s + 1, Len(M))[i] = M[s + 1 + i - 1]
      BY <3>1, SubSeqProperties
    <3> QED  BY <1>1, <2>1, <3>2 DEF Replay
  <2>3. /\ Replay(L, s) \in Seq(Event) /\ Len(Replay(L, s)) = Len(L) - s
        /\ \A i \in 1 .. Len(L) - s : Replay(L, s)[i] = L[s + i]
    <3>1. s + 1 \in Int /\ Len(L) \in Int /\ \A i \in s + 1 .. Len(L) : L[i] \in Event
      BY <1>1
    <3>2. /\ SubSeq(L, s + 1, Len(L)) \in Seq(Event)
          /\ Len(SubSeq(L, s + 1, Len(L))) = IF s + 1 <= Len(L) THEN Len(L) - (s + 1) + 1 ELSE 0
          /\ \A i \in 1 .. Len(L) - (s + 1) + 1 : SubSeq(L, s + 1, Len(L))[i] = L[s + 1 + i - 1]
      BY <3>1, SubSeqProperties
    <3>3. Len(Replay(L, s)) = Len(L) - s
      <4>1. CASE s = Len(L)
        <5>1. Replay(L, s) = <<>> /\ Len(L) - s = 0
          BY <1>1, <1>3, <4>1
        <5> QED  BY <5>1
      <4>2. CASE s # Len(L)
        <5>1. s + 1 <= Len(L) /\ Len(L) - (s + 1) + 1 = Len(L) - s
          <6>1. \A n \in Nat : \A k \in 0 .. n : k # n => k + 1 <= n /\ n - (k + 1) + 1 = n - k
            OBVIOUS
          <6>2. Len(L) \in Nat
            BY <1>1
          <6> QED  BY <4>2, <6>1, <6>2
        <5> QED  BY <3>2, <5>1 DEF Replay
      <4> QED  BY <4>1, <4>2
    <3>4. ASSUME NEW i \in 1 .. Len(L) - s  PROVE Replay(L, s)[i] = L[s + i]
      <4>1. i \in 1 .. Len(L) - (s + 1) + 1 /\ s + 1 + i - 1 = s + i
        BY <1>1
      <4> QED  BY <3>2, <4>1 DEF Replay
    <3> QED  BY <3>2, <3>3, <3>4 DEF Replay
  <2> DEFINE N == Append(Replay(L, s), e)
  <2>4. /\ N \in Seq(Event) /\ Len(N) = Len(L) - s + 1 /\ N[Len(L) - s + 1] = e
        /\ \A i \in 1 .. Len(L) - s : N[i] = Replay(L, s)[i]
    BY <2>3, AppendProperties
  <2> HIDE DEF N
  <2>5. ASSUME NEW i \in 1 .. Len(L) + 1 - s  PROVE Replay(M, s)[i] = N[i]
    <3>1. CASE i = Len(L) - s + 1
      BY <1>1, <2>1, <2>2, <2>4, <3>1
    <3>2. CASE i # Len(L) - s + 1
      <4>1. i \in 1 .. Len(L) - s /\ s + i \in 1 .. Len(L)
        BY <1>1, <3>2
      <4> QED  BY <2>1, <2>2, <2>3, <2>4, <4>1
    <3> QED  BY <3>1, <3>2
  <2>6. Len(Replay(M, s)) = Len(N)
    BY <1>1, <2>2, <2>4
  <2>7. \A i \in 1 .. Len(Replay(M, s)) : Replay(M, s)[i] = N[i]
    BY <2>2, <2>5
  <2> QED  BY <2>2, <2>4, <2>6, <2>7, SeqEqual DEF M, N
<1> QED  BY <1>2, <1>3, <1>4, <1>5

(***************************************************************************)
(* Every step of the loop, of its server and of its reader is one of the   *)
(* stream, or none.                                                        *)
(***************************************************************************)
LEMMA StatusIs ==
  /\ status = "open" <=> pc \notin {"none", "refused", "close", "stop", "done"}
  /\ status = "closed" <=> pc \in {"close", "stop", "done"}
  /\ status = "none" <=> pc \in {"none", "refused"}
BY DEF status

LEMMA StatusNext ==
  /\ status' = "open" <=> pc' \notin {"none", "refused", "close", "stop", "done"}
  /\ status' = "closed" <=> pc' \in {"close", "stop", "done"}
  /\ status' = "none" <=> pc' \in {"none", "refused"}
BY DEF status

LEMMA PartTypes ==
  ASSUME WatchInv, ShownInv
  PROVE  /\ channel = <<>> \/ \E m \in Message : channel = <<m>>
         /\ ShownIn(channel, base) \in Seq(ApiEvent) /\ Len(ShownIn(channel, base)) <= 1
         /\ HandSeen \in Seq(ApiEvent) /\ Visible(api) \in Seq(ApiEvent)
         /\ Replay(log, sent) \in Seq(ApiEvent)
<1>1. /\ channel \in Seq(Message) /\ Len(channel) <= 1 /\ hand \in Message /\ api \in Seq(ApiEvent)
      /\ sent \in 0 .. Len(log) /\ LogOK(log) /\ OneControl(api)
  BY DEF WatchInv, WatchTypes, ShownInv, ControlsOK
<1>2. channel = <<>> \/ \E m \in Message : channel = <<m>>
  <2> HIDE DEF Message
  <2> QED  BY <1>1, OneInChannel
<1>3. ShownIn(channel, base) \in Seq(ApiEvent) /\ Len(ShownIn(channel, base)) <= 1
  <2>1. CASE channel = <<>>
    <3>1. <<>> \in Seq(ApiEvent) /\ Len(<<>>) <= 1
      OBVIOUS
    <3> QED  BY <2>1, <3>1, ShownNone
  <2>2. ASSUME NEW m \in Message, channel = <<m>>
        PROVE  ShownIn(channel, base) \in Seq(ApiEvent) /\ Len(ShownIn(channel, base)) <= 1
    <3>1. /\ Sight(m, base) \in ApiEvent
          /\ ShownIn(<<m>>, base) = IF m.event.type \in Controls THEN <<>> ELSE <<Sight(m, base)>>
      BY ShownOne
    <3>2. \A e \in ApiEvent : <<e>> \in Seq(ApiEvent) /\ Len(<<e>>) <= 1
      OBVIOUS
    <3>3. <<>> \in Seq(ApiEvent) /\ Len(<<>>) <= 1
      OBVIOUS
    <3> QED  BY <2>2, <3>1, <3>2, <3>3
  <2> QED  BY <1>2, <2>1, <2>2
<1>4. HandSeen \in Seq(ApiEvent)
  <2>1. hand.event \in ApiEvent
    BY <1>1 DEF Message
  <2> HIDE DEF ApiEvent
  <2> QED  BY <2>1 DEF HandSeen
<1>5. Visible(api) \in Seq(ApiEvent) /\ Replay(log, sent) \in Seq(ApiEvent)
  BY <1>1, VisibleType, ReplaySteps
<1> QED  BY <1>2, <1>3, <1>4, <1>5

LEMMA MarkStays ==
  ASSUME UNCHANGED <<received, base>>
  PROVE  readerBookmark' = readerBookmark
BY DEF readerBookmark, Seen

LEMMA StreamStays ==
  ASSUME UNCHANGED <<store, log, channel, received, base>>, status' = status,
         status = "open" =>
           Parts(ShownIn(channel, base), HandSeen', Visible(api'), Replay(log, sent')) =
             Parts(ShownIn(channel, base), HandSeen, Visible(api), Replay(log, sent))
  PROVE  UNCHANGED Stream!streamVars
<1>1. stream' = stream
  BY StreamParts DEF StreamOK
<1> QED  BY <1>1, MarkStays DEF Stream!streamVars

LEMMA StreamIdles ==
  ASSUME \/ EndRequest \/ WatchError \/ SeeEnd \/ ReconnectError \/ CloseChannel \/ StopWatcher
         \/ Cancel \/ Leave \/ UNCHANGED vars
  PROVE  UNCHANGED Stream!streamVars
<1>1. /\ UNCHANGED <<store, log, channel, received, base, api, sent>>
      /\ \/ UNCHANGED <<hand, pc>>
         \/ pc = "none" /\ pc' = "refused"
         \/ pc = "select" /\ pc' = "connect"
         \/ pc = "connect" /\ pc' = "fail"
         \/ pc = "close" /\ pc' = "stop"
         \/ pc = "stop" /\ pc' = "done"
  <2>1. CASE EndRequest \/ WatchError
    BY <2>1 DEF EndRequest, WatchError, serverVars, apiVars, loopVars, readerVars
  <2>2. CASE SeeEnd \/ ReconnectError
    BY <2>2 DEF SeeEnd, ReconnectError, serverVars, apiVars, readerVars
  <2>3. CASE CloseChannel \/ StopWatcher
    BY <2>3 DEF CloseChannel, StopWatcher, serverVars, apiVars, readerVars
  <2>4. CASE Cancel \/ Leave \/ UNCHANGED vars
    BY <2>4 DEF Cancel, Leave, vars, serverVars, apiVars, loopVars, readerVars
  <2> QED  BY <2>1, <2>2, <2>3, <2>4
<1>2. status' = status
  BY <1>1 DEF status
<1>3. HandSeen' = HandSeen
  BY <1>1 DEF HandSeen
<1> QED  BY <1>1, <1>2, <1>3, StreamStays

\* A change on its way from the server.
LEMMA StreamTransmits ==
  ASSUME WatchInv, ShownInv, Transmit \/ SendControl
  PROVE  UNCHANGED Stream!streamVars
<1> DEFINE F == ShownIn(channel, base)
           V == Visible(api)
<1>1. /\ F \in Seq(ApiEvent) /\ HandSeen \in Seq(ApiEvent) /\ V \in Seq(ApiEvent)
      /\ Replay(log, sent) \in Seq(ApiEvent)
  BY PartTypes
<1>2. /\ api \in Seq(ApiEvent) /\ OneControl(api) /\ LogOK(log) /\ sent \in 0 .. Len(log)
      /\ Len(log) \in Nat /\ DOMAIN log = 1 .. Len(log)
  BY LogTypes DEF WatchInv, WatchTypes, ShownInv, ControlsOK
<1>3. /\ UNCHANGED <<store, log, channel, received, base, pc, hand>>
      /\ HandSeen' = HandSeen /\ status' = status
  BY DEF Transmit, SendControl, serverVars, loopVars, readerVars, HandSeen, status
<1> HIDE DEF F, V, ApiEvent
<1>4. Parts(F, HandSeen, Visible(api'), Replay(log, sent')) = Parts(F, HandSeen, V, Replay(log, sent))
  <2>1. CASE Transmit
    <3> DEFINE e == log[sent + 1]
    <3>1. sent' = sent + 1 /\ sent < Len(log) /\ api' = Append(api, e) /\ sent + 1 \in DOMAIN log
      BY <1>2, <2>1 DEF Transmit
    <3>2. e \in ApiEvent /\ e.type \notin Controls
      <4>1. e.type \in Changes
        BY <1>2, <3>1 DEF LogOK
      <4> QED  BY <1>2, <3>1, <4>1, ChangeIsItem DEF Changes, Controls
    <3> HIDE DEF e
    <3>3. Visible(api') = Append(V, e)
      BY <1>2, <3>1, <3>2, VisibleSent DEF V
    <3>4. Replay(log, sent) = <<e>> \o Replay(log, sent')
      BY <1>2, <3>1, ReplaySteps DEF e
    <3>5. Replay(log, sent') \in Seq(ApiEvent)
      <4>1. sent' \in 0 .. Len(log)
        BY <1>2, <3>1
      <4> QED  BY <1>2, <4>1, ReplaySteps
    <3> QED  BY <1>1, <3>2, <3>3, <3>4, <3>5, PartsSend
  <2>2. CASE SendControl
    <3>1. PICK type \in Controls : api' = Append(api, Control(type))
      BY <2>2 DEF SendControl
    <3>2. NoControl(api) /\ sent' = sent
      BY <2>2 DEF SendControl, NoControl, serverVars
    <3>3. Control(type) \in ApiEvent /\ Control(type).type \in Controls
      BY <3>1, ControlIsItem
    <3>4. Visible(api') = V
      BY <1>2, <3>1, <3>2, <3>3, VisibleSent DEF V
    <3> QED  BY <3>2, <3>4
  <2> QED  BY <2>1, <2>2
<1> QED  BY <1>3, <1>4, StreamStays DEF F, V

\* An event on its way from the result channel.
LEMMA StreamTakes ==
  ASSUME WatchInv, ShownInv, WatchBookmark, TakeEvent \/ TakeBookmark \/ TakeUnsupported \/ TakeError
  PROVE  UNCHANGED Stream!streamVars
<1> DEFINE F == ShownIn(channel, base)
           R == Replay(log, sent)
<1>1. F \in Seq(ApiEvent) /\ Visible(api) \in Seq(ApiEvent) /\ R \in Seq(ApiEvent)
  BY PartTypes
<1>2. /\ pc = "select" /\ api # <<>> /\ pc' \in {"select", "send", "connect"}
      /\ UNCHANGED <<store, log, channel, received, base, sent>>
  BY DEF TakeEvent, TakeBookmark, TakeUnsupported, TakeError, NextIs, Take, serverVars, readerVars
<1>3. status' = status /\ HandSeen = <<>>
  BY <1>2 DEF status, HandSeen
<1>4. api \in Seq(ApiEvent) /\ OneControl(api) /\ Head(api) \in ApiEvent /\ ControlsOK
  BY <1>2, TakenTypes DEF WatchInv, WatchTypes, ShownInv, ControlsOK
<1>5. /\ Visible(api) = IF Head(api).type \in Controls THEN Visible(Tail(api))
                        ELSE <<Head(api)>> \o Visible(Tail(api))
      /\ Visible(Tail(api)) \in Seq(ApiEvent)
  <2>1. OneControl(Tail(api)) /\ Tail(api) \in Seq(ApiEvent)
    BY <1>2, <1>4, VisibleTaken, TailShape
  <2> QED  BY <1>2, <1>4, <2>1, VisibleTaken, VisibleType
<1> HIDE DEF F, R, ApiEvent
<1>6. Parts(F, HandSeen', Visible(api'), R) = Parts(F, <<>>, Visible(api), R)
  <2>1. CASE TakeEvent \/ TakeBookmark
    <3>1. /\ Head(api).type \in {"ADDED", "MODIFIED", "DELETED", "BOOKMARK"} /\ api' = Tail(api)
          /\ hand' = [event |-> Head(api), req |-> requests] /\ pc' = "send"
      BY <2>1 DEF TakeEvent, TakeBookmark, NextIs, Take
    <3>2. HandSeen' = <<Head(api)>> /\ Head(api).type \notin Controls
      BY <3>1 DEF HandSeen, Controls
    <3> QED  BY <1>1, <1>4, <1>5, <3>1, <3>2, PartsTake
  <2>2. CASE TakeUnsupported
    <3>1. Head(api).type \in Controls /\ api' = Tail(api) /\ HandSeen' = <<>>
      BY <1>2, <2>2 DEF TakeUnsupported, NextIs, Controls, HandSeen
    <3> QED  BY <1>5, <3>1
  <2>3. CASE TakeError
    <3>1. Head(api).type = "ERROR" /\ api' = <<>> /\ HandSeen' = <<>>
      BY <1>2, <2>3 DEF TakeError, NextIs, HandSeen
    <3>2. Tail(api) = <<>>
      <4>1. /\ Tail(api) \in Seq(ApiEvent) /\ Len(Tail(api)) = Len(api) - 1 /\ Len(api) >= 1
            /\ DOMAIN api = 1 .. Len(api) /\ Head(api) = api[1] /\ Len(api) \in Nat
        BY <1>2, <1>4, TailShape
      <4>2. 1 \in DOMAIN api /\ api[1].type = "ERROR"
        BY <3>1, <4>1
      <4>3. 1 = Len(api)
        BY <1>4, <4>2 DEF ControlsOK
      <4>4. Len(Tail(api)) = 0
        <5>1. Len(Tail(api)) = 1 - 1
          BY <4>1, <4>3
        <5> QED  BY <5>1
      <4> QED  BY <4>1, <4>4, EmptySeq
    <3>3. Head(api).type \in Controls
      BY <3>1 DEF Controls
    <3> QED  BY <1>5, <3>1, <3>2, <3>3
  <2> QED  BY <2>1, <2>2, <2>3
<1> QED  BY <1>2, <1>3, <1>6, StreamStays DEF F, R

LEMMA StreamForwards ==
  ASSUME WatchInv, ShownInv, Send, pc = "send"
  PROVE  UNCHANGED Stream!streamVars
<1>1. /\ pc' = "select" /\ channel = <<>> /\ channel' = <<hand>>
      /\ UNCHANGED <<store, log, received, base, api, sent, hand>>
  BY DEF Send, serverVars, apiVars
<1>2. status' = status /\ status = "open"
  BY <1>1 DEF status
<1>3. /\ hand \in Message /\ hand.req = requests /\ hand.event.type \notin Controls
      /\ requests \in Nat /\ base \in 0 .. requests
  BY DEF WatchInv, RequestInv, Numbered, WatchTypes, ShownInv, ControlsOK
<1>4. Sight(hand, base) = hand.event
  BY <1>3 DEF Sight
<1>5. ShownIn(channel, base) = <<>> /\ ShownIn(channel', base) = <<hand.event>>
  BY <1>1, <1>3, <1>4, ShownNone, ShownOne
<1>6. HandSeen = <<hand.event>> /\ HandSeen' = <<>>
  BY <1>1 DEF HandSeen
<1>7. HandSeen \in Seq(ApiEvent) /\ Visible(api) \in Seq(ApiEvent) /\ Replay(log, sent) \in Seq(ApiEvent)
  BY PartTypes
<1>8. Parts(<<>>, HandSeen, Visible(api), Replay(log, sent)) = Parts(HandSeen, <<>>, Visible(api), Replay(log, sent))
  <2> HIDE DEF ApiEvent, HandSeen
  <2> QED  BY <1>7, PartsForward
<1>9. stream' = stream
  <2>1. stream = Parts(<<>>, HandSeen, Visible(api), Replay(log, sent))
    BY <1>2, <1>5, StreamParts DEF StreamOK
  <2>2. stream' = Parts(HandSeen, <<>>, Visible(api), Replay(log, sent))
    BY <1>1, <1>2, <1>5, <1>6, StreamParts DEF StreamOK
  <2> QED  BY <1>8, <2>1, <2>2
<1> QED  BY <1>1, <1>2, <1>9, MarkStays DEF Stream!streamVars

LEMMA StreamChanges ==
  ASSUME WatchInv, ShownInv, NEW o \in Objects, NEW type \in Changes, Change(type, o)
  PROVE  Stream!Change(type, o)
<1> DEFINE obj == [rv |-> Len(log) + 1, gen |-> 0]
           e == EventOf(type, o, obj)
           F == ShownIn(channel, base)
           V == Visible(api)
<1>1. /\ type = "ADDED" <=> store[o] = Absent
      /\ store' = [store EXCEPT ![o] = IF type = "DELETED" THEN Absent ELSE obj]
      /\ log' = Append(log, e)
      /\ UNCHANGED <<sent, api, channel, received, base, pc, hand>>
  BY DEF Change, apiVars, loopVars, readerVars
<1>2. LogOK(log) /\ Len(log) \in Nat /\ sent \in 0 .. Len(log)
  BY LogTypes DEF WatchInv, WatchTypes
<1>3. e \in Event /\ e \in ApiEvent
  BY <1>2 DEF EventOf, Event, ApiEvent, Changes
<1>4. /\ F \in Seq(ApiEvent) /\ HandSeen \in Seq(ApiEvent) /\ V \in Seq(ApiEvent)
      /\ Replay(log, sent) \in Seq(ApiEvent)
  BY PartTypes
<1>5. status' = status /\ HandSeen' = HandSeen /\ readerBookmark' = readerBookmark
  BY <1>1, MarkStays DEF status, HandSeen
<1>6. stream' = IF status = "open" THEN Append(stream, e) ELSE stream
  <2> HIDE DEF e, F, V, ApiEvent
  <2>1. Replay(log', sent') = Append(Replay(log, sent), e)
    BY <1>1, <1>2, <1>3, ReplaySteps
  <2>2. CASE status = "open"
    <3>1. stream = Parts(F, HandSeen, V, Replay(log, sent))
      BY <2>2, StreamParts DEF StreamOK, F, V
    <3>2. stream' = Parts(F, HandSeen, V, Append(Replay(log, sent), e))
      BY <1>1, <1>5, <2>1, <2>2, StreamParts DEF StreamOK, F, V
    <3>3. Parts(F, HandSeen, V, Append(Replay(log, sent), e)) = Append(Parts(F, HandSeen, V, Replay(log, sent)), e)
      <4> DEFINE Y == (F \o HandSeen) \o V
      <4>1. Y \in Seq(ApiEvent)
        BY <1>4, ConcatProperties
      <4>2. Y \o Append(Replay(log, sent), e) = Append(Y \o Replay(log, sent), e)
        <5> HIDE DEF Y
        <5> QED  BY <1>3, <1>4, <4>1, PartsAppend
      <4> QED  BY <4>2 DEF Parts
    <3> QED  BY <2>2, <3>1, <3>2, <3>3
  <2>3. CASE status # "open"
    BY <1>1, <1>5, <2>3, StreamParts DEF StreamOK
  <2> QED  BY <2>2, <2>3
<1> QED  BY <1>1, <1>5, <1>6 DEF Stream!Change, Stream!EventOf, EventOf, Stream!Absent, Absent

LEMMA StreamMarks ==
  ASSUME WatchInv, ShownInv, SendBookmark
  PROVE  [Stream!SendBookmark]_(Stream!streamVars)
<1> DEFINE F == ShownIn(channel, base)
           V == Visible(api)
           e == Bookmark(sent)
<1>1. /\ sent = Len(log) /\ api' = Append(api, e)
      /\ UNCHANGED <<store, log, sent, channel, received, base, pc, hand>>
  BY DEF SendBookmark, loopVars, readerVars
<1>2. /\ LogOK(log) /\ Len(log) \in Nat /\ sent \in 0 .. Len(log) /\ api \in Seq(ApiEvent) /\ OneControl(api)
  BY LogTypes DEF WatchInv, WatchTypes, ShownInv, ControlsOK
<1>3. e \in ApiEvent /\ e.type \notin Controls
  BY <1>2, BookmarkIsItem DEF Bookmark, Controls
<1>4. F \in Seq(ApiEvent) /\ HandSeen \in Seq(ApiEvent) /\ V \in Seq(ApiEvent) /\ <<>> \in Seq(ApiEvent)
  BY PartTypes
<1>5. status' = status /\ HandSeen' = HandSeen /\ readerBookmark' = readerBookmark
  BY <1>1, MarkStays DEF status, HandSeen
<1> HIDE DEF e, F, V, ApiEvent
<1>6. CASE status # "open"
  BY <1>1, <1>5, <1>6, StreamStays
<1>7. CASE status = "open"
  <2>1. Visible(api') = Append(V, e)
    BY <1>1, <1>2, <1>3, VisibleSent DEF V
  <2>2. Replay(log, sent) = <<>>
    BY <1>1, <1>2, ReplaySteps
  <2>3. stream = Parts(F, HandSeen, V, <<>>)
    BY <1>7, <2>2, StreamParts DEF StreamOK, F, V
  <2>4. stream' = Parts(F, HandSeen, Append(V, e), <<>>)
    BY <1>1, <1>5, <1>7, <2>1, <2>2, StreamParts DEF StreamOK, F, V
  <2>5. Parts(F, HandSeen, Append(V, e), <<>>) = Append(Parts(F, HandSeen, V, <<>>), e)
    BY <1>3, <1>4, PartsMark
  <2>6. stream' = Append(stream, Bookmark(Len(log)))
    BY <1>1, <2>3, <2>4, <2>5 DEF e
  <2> QED  BY <1>1, <1>5, <1>7, <2>6 DEF Stream!SendBookmark, Stream!Bookmark, Bookmark
<1> QED  BY <1>6, <1>7

\* What the reader sees of the channel is what may be left of the stream.
LEMMA FrontIsBuffered ==
  ASSUME WatchInv, ShownInv, status = "open"
  PROVE  ShownIn(channel, base) \in Buffered(stream)
<1> DEFINE F == ShownIn(channel, base)
           V == Visible(api)
           R == Replay(log, sent)
           rest == (HandSeen \o V) \o R
<1>1. /\ F \in Seq(ApiEvent) /\ Len(F) <= 1 /\ HandSeen \in Seq(ApiEvent) /\ V \in Seq(ApiEvent)
      /\ R \in Seq(ApiEvent)
  BY PartTypes
<1>2. stream = Parts(F, HandSeen, V, R)
  BY StreamParts DEF StreamOK
<1> HIDE DEF F, V, R, ApiEvent
<1>3. PICK S, f, h, v, r, w, p, q :
        /\ S = ApiEvent /\ f = F /\ h = HandSeen /\ v = V /\ r = R
        /\ w = h \o v /\ q = w \o r /\ p = ((f \o h) \o v) \o r
  OBVIOUS
<1>4. /\ f \in Seq(S) /\ h \in Seq(S) /\ v \in Seq(S) /\ r \in Seq(S)
      /\ w = h \o v /\ q = w \o r /\ p = ((f \o h) \o v) \o r
  BY ONLY <1>1, <1>3, Zenon
<1>5. p = f \o q /\ q \in Seq(S)
  <2> SUFFICES ASSUME f \in Seq(S), h \in Seq(S), v \in Seq(S), r \in Seq(S)
               PROVE  p = f \o q /\ q \in Seq(S)
    BY <1>4, Zenon
  <2>1. w = h \o v
    BY ONLY <1>4, Zenon
  <2>2. w \in Seq(S)
    <3>1. h \o v \in Seq(S)
      BY ONLY h \in Seq(S), v \in Seq(S), ConcatProperties
    <3> QED  BY ONLY <2>1, <3>1, Zenon
  <2>3. w \o r \in Seq(S)
    BY ONLY <2>2, r \in Seq(S), ConcatProperties
  <2>4. (f \o h) \o v = f \o w
    BY ONLY f \in Seq(S), h \in Seq(S), v \in Seq(S), <2>1, ConcatAssociative
  <2>5. (f \o w) \o r = f \o (w \o r)
    BY ONLY f \in Seq(S), r \in Seq(S), <2>2, ConcatAssociative
  <2> QED  BY ONLY <1>4, <2>3, <2>4, <2>5, Zenon
<1>6. p = Parts(F, HandSeen, V, R) /\ q = rest
  BY ONLY <1>3 DEF Parts
<1> HIDE DEF rest
<1>7. F \in Buffered(F \o rest)
  BY <1>1, <1>3, <1>5, <1>6, BufferedFront
<1> QED  BY <1>2, <1>3, <1>5, <1>6, <1>7 DEF F

LEMMA StreamCloses ==
  ASSUME WatchInv, ShownInv, SeeDone \/ TakeInvalid \/ (Send /\ pc = "fail")
  PROVE  Stream!Close
<1>1. /\ pc \in {"select", "fail"} /\ pc' = "close" /\ UNCHANGED <<store, log, received, base>>
      /\ channel' = channel \/ (pc = "fail" /\ channel = <<>> /\ channel' = <<hand>>)
  <2>1. CASE SeeDone
    BY <2>1 DEF SeeDone, serverVars, readerVars
  <2>2. CASE TakeInvalid
    BY <2>2 DEF TakeInvalid, NextIs, serverVars, readerVars
  <2>3. CASE Send /\ pc = "fail"
    BY <2>3 DEF Send, serverVars
  <2> QED  BY <2>1, <2>2, <2>3
<1>2. status = "open" /\ status' = "closed" /\ readerBookmark' = readerBookmark
  BY <1>1, StatusIs, StatusNext, MarkStays
<1>3. ShownIn(channel', base) = ShownIn(channel, base)
  <2>1. CASE channel' = channel
    BY <2>1
  <2>2. CASE pc = "fail" /\ channel = <<>> /\ channel' = <<hand>>
    <3>1. hand \in Message /\ hand.event.type \in Controls
      BY <2>2 DEF WatchInv, WatchTypes, ShownInv, ControlsOK
    <3> QED  BY <2>2, <3>1, ShownNone, ShownOne
  <2> QED  BY <1>1, <2>1, <2>2
<1>4. stream' = ShownIn(channel, base)
  BY <1>1, <1>2, <1>3, StreamParts DEF StreamOK
<1>5. stream' \in Buffered(stream)
  BY <1>2, <1>4, FrontIsBuffered
<1> QED  BY <1>1, <1>2, <1>5 DEF Stream!Close, Stream!Buffered, Buffered

\* A new request: what it starts with follows what the reader sees of the channel.
LEMMA StreamAnew ==
  ASSUME WatchInv, ShownInv, pc \in {"none", "connect"}, pc' = "select", Requested(bookmark),
         UNCHANGED <<store, log, hand, bookmark, readerVars>>
  PROVE  /\ ShownIn(channel', base') \in Seq(ApiEvent)
         /\ bookmark = 0 => \E list \in Listings(store) : stream' = ShownIn(channel', base') \o list
         /\ bookmark # 0 => stream' = ShownIn(channel', base') \o Replay(log, bookmark)
<1>1. /\ requests' = requests + 1 /\ api' \in FirstEvents(bookmark)
      /\ sent' = (IF bookmark = 0 THEN Len(log) ELSE bookmark)
      /\ UNCHANGED <<log, channel>>
  BY DEF Requested, readerVars
<1>2. LogOK(log) /\ StoreOK /\ Len(log) \in Nat /\ bookmark \in 0 .. Len(log)
  BY LogTypes DEF WatchInv, WatchTypes
<1>3. HandSeen' = <<>> /\ status' = "open"
  BY StatusNext DEF HandSeen
<1> DEFINE F == ShownIn(channel', base')
<1>4. F \in Seq(ApiEvent)
  <2>1. CASE channel = <<>>
    <3>1. F = <<>>
      BY <1>1, <2>1, ShownNone
    <3> QED  BY <3>1
  <2>2. ASSUME NEW m \in Message, channel = <<m>>  PROVE F \in Seq(ApiEvent)
    <3>1. /\ Sight(m, base') \in ApiEvent
          /\ F = IF m.event.type \in Controls THEN <<>> ELSE <<Sight(m, base')>>
      BY <1>1, <2>2, ShownOne
    <3> HIDE DEF F, ApiEvent
    <3>2. \A e \in ApiEvent : <<e>> \in Seq(ApiEvent)
      OBVIOUS
    <3>3. <<>> \in Seq(ApiEvent)
      OBVIOUS
    <3> QED  BY <3>1, <3>2, <3>3
  <2> QED  BY <2>1, <2>2, PartTypes
<1>5. stream' = Parts(F, <<>>, Visible(api'), Replay(log, sent'))
  BY <1>1, <1>3, StreamParts DEF StreamOK
<1> HIDE DEF F, ApiEvent
<1>6. CASE bookmark = 0
  <2>1. api' \in Listings(store) /\ sent' = Len(log)
    BY <1>1, <1>6 DEF FirstEvents
  <2>2. api' \in Seq(ApiEvent) /\ \A i \in DOMAIN api' : api'[i].type = "ADDED"
    BY <1>2, <2>1, ListingShape
  <2>3. Visible(api') = api'
    BY <2>2, VisibleAll DEF NoControl, Controls
  <2>4. Replay(log, sent') = <<>>
    <3>1. Len(log) \in 0 .. Len(log)
      BY <1>2
    <3> QED  BY <1>2, <2>1, <3>1, ReplaySteps
  <2>5. Parts(F, <<>>, api', <<>>) = F \o api'
    BY <1>4, <2>2, PartsAnew
  <2> QED  BY <1>4, <1>5, <1>6, <2>1, <2>3, <2>4, <2>5 DEF F
<1>7. CASE bookmark # 0
  <2>1. api' = <<>> /\ sent' = bookmark
    BY <1>1, <1>7 DEF FirstEvents
  <2>2. Visible(<<>>) = <<>>
    BY VisibleAll DEF NoControl
  <2>3. Replay(log, bookmark) \in Seq(ApiEvent)
    BY <1>2, ReplaySteps
  <2>4. Parts(F, <<>>, <<>>, Replay(log, bookmark)) = F \o Replay(log, bookmark)
    BY <1>4, <2>3, PartsAnew
  <2> QED  BY <1>4, <1>5, <1>7, <2>1, <2>2, <2>4 DEF F
<1> QED  BY <1>6, <1>7

\* The last BOOKMARK that the reader has received.
LEMMA LastMark ==
  ASSUME received \in Seq(Message)
  PROVE  \/ /\ \A i \in DOMAIN received : received[i].event.type # "BOOKMARK"
            /\ readerBookmark = 0
         \/ \E n \in DOMAIN received :
              /\ received[n].event.type = "BOOKMARK" /\ readerBookmark = Seen(received[n]).rv
              /\ \A m \in DOMAIN received : m > n => received[m].event.type # "BOOKMARK"
<1> DEFINE marks == {i \in DOMAIN received : received[i].event.type = "BOOKMARK"}
<1>1. Len(received) \in Nat /\ DOMAIN received = 1 .. Len(received)
  OBVIOUS
<1>2. readerBookmark = IF marks = {} THEN 0 ELSE Seen(received[Max(marks)]).rv
  BY DEF readerBookmark
<1>3. CASE marks = {}
  BY <1>2, <1>3
<1>4. CASE marks # {}
  <2>1. marks \in SUBSET (0 .. Len(received))
    BY <1>1
  <2>2. Max(marks) \in marks /\ \A y \in marks : Max(marks) >= y
    <3> HIDE DEF marks
    <3> QED  BY <1>1, <1>4, <2>1, HasMax
  <2>3. PICK n \in marks : n = Max(marks) /\ \A y \in marks : n >= y
    BY <2>2
  <2>4. readerBookmark = Seen(received[n]).rv
    BY <1>2, <1>4, <2>3
  <2>5. ASSUME NEW m \in DOMAIN received, m > n  PROVE received[m].event.type # "BOOKMARK"
    <3>1. m \in marks => n >= m
      BY <2>3
    <3>2. m \in Nat /\ n \in Nat
      BY <1>1, <2>1, <2>3
    <3>3. m \notin marks
      BY <2>5, <3>1, <3>2
    <3> QED  BY <3>3
  <2> QED  BY <2>3, <2>4, <2>5
<1> QED  BY <1>3, <1>4

LEMMA SameListings == Stream!Listings(store) = Listings(store)
<1> DEFINE there == {o \in Objects : store[o] # Absent}
<1>1. Stream!Cardinality(there) = Cardinality(there)
  BY DEF Stream!Cardinality, Cardinality
<1>2. Stream!SetToSeqs(there) = SetToSeqs(there)
  BY <1>1 DEF Stream!SetToSeqs, SetToSeqs
<1> QED  BY <1>2 DEF Stream!Listings, Listings, Stream!EventOf, EventOf, Stream!Absent, Absent

LEMMA StreamOpens ==
  ASSUME WatchInv, ShownInv, Watch
  PROVE  Stream!Open
<1>1. /\ pc = "none" /\ pc' = "select" /\ bookmark = 0 /\ Requested(bookmark)
      /\ received = <<>> /\ channel = <<>>
      /\ UNCHANGED <<store, log, hand, bookmark, readerVars>>
  BY DEF Watch, WatchInv, Phases
<1>2. channel' = <<>> /\ received' = <<>>
  BY <1>1 DEF readerVars
<1>3. PICK list \in Listings(store) : stream' = <<>> \o list
  BY <1>1, <1>2, StreamAnew, ShownNone
<1>4. stream' \in Listings(store)
  <2>1. list \in Seq(ApiEvent)
    BY ListingShape DEF WatchInv
  <2>2. <<>> \o list = list
    BY <2>1, ConcatEmptySeq
  <2> QED  BY <1>3, <2>2
<1>5. readerBookmark = 0 /\ readerBookmark' = 0
  BY <1>1, <1>2 DEF readerBookmark
<1>6. status = "none" /\ status' = "open"
  BY <1>1, StatusIs, StatusNext
<1> QED  BY <1>1, <1>4, <1>5, <1>6, SameListings DEF Stream!Open

\* Before its end the loop puts no control in the channel.
LEMMA ChannelIsSeen ==
  ASSUME WatchInv, ShownInv, pc = "connect"
  PROVE  channel = <<>> \/ \E m \in Message : channel = <<m>> /\ m.event.type \notin Controls /\ m.req <= requests
<1>1. channel = <<>> \/ \E m \in Message : channel = <<m>>
  BY PartTypes
<1>2. ASSUME NEW m \in Message, channel = <<m>>
      PROVE  m.event.type \notin Controls /\ m.req <= requests
  <2>1. 1 \in DOMAIN channel /\ channel[1] = m
    BY <1>2
  <2> QED  BY <2>1 DEF ShownInv, ControlsOK, Numbers
<1> QED  BY <1>1, <1>2

LEMMA StreamRelists ==
  ASSUME WatchInv, ShownInv, Reconnect, bookmark = 0
  PROVE  Stream!Relist
<1>1. /\ pc = "connect" /\ pc' = "select" /\ Requested(bookmark)
      /\ UNCHANGED <<store, log, hand, bookmark, readerVars>>
  BY DEF Reconnect
<1>2. /\ base' = requests + 1 /\ UNCHANGED <<channel, received>>
      /\ requests \in Nat /\ received \in Seq(Message)
  BY <1>1 DEF Requested, readerVars, WatchInv, WatchTypes, RequestInv, Numbered
<1>3. status = "open" /\ status' = "open"
  BY <1>1, StatusIs, StatusNext
<1> DEFINE F == ShownIn(channel, base)
<1>4. F \in Buffered(stream)
  BY <1>3, FrontIsBuffered
<1>5. ShownIn(channel', base') = Forgotten(F)
  <2>1. CASE channel = <<>>
    <3>1. F = <<>> /\ ShownIn(channel', base') = <<>>
      BY <1>2, <2>1, ShownNone
    <3>2. Forgotten(<<>>) = <<>>
      BY DEF Forgotten
    <3> QED  BY <3>1, <3>2
  <2>2. ASSUME NEW m \in Message, channel = <<m>>, m.event.type \notin Controls, m.req <= requests
        PROVE  ShownIn(channel', base') = Forgotten(F)
    <3>1. m.req \in Nat /\ m.req < base'
      BY <1>2, <2>2 DEF Message
    <3>2. F = <<Sight(m, base)>> /\ ShownIn(channel', base') = <<Sight(m, base')>>
      BY <1>2, <2>2, ShownOne
    <3>3. Sight(m, base).type = m.event.type
      BY ShownOne
    <3>4. Sight(m, base') = IF Sight(m, base).type = "BOOKMARK" THEN Bookmark(0) ELSE Sight(m, base)
      BY <3>1, <3>3 DEF Sight
    <3>5. \A e : Forgotten(<<e>>) = <<IF e.type = "BOOKMARK" THEN Bookmark(0) ELSE e>>
      BY DEF Forgotten
    <3> QED  BY <3>2, <3>4, <3>5
  <2> QED  BY <1>1, <2>1, <2>2, ChannelIsSeen
<1>6. \E list \in Listings(store) : stream' = Forgotten(F) \o list
  BY <1>1, <1>5, StreamAnew
<1>7. readerBookmark' = 0
  <2>1. \A n \in DOMAIN received : received[n].req < base'
    <3>1. \A n \in DOMAIN received : received[n] \in Message
      BY <1>2
    <3>2. \A m \in Message : m.req \in Nat
      BY DEF Message
    <3> QED  BY <1>2, <3>1, <3>2 DEF ShownInv, Numbers
  <2> DEFINE marks == {i \in DOMAIN received : received[i].event.type = "BOOKMARK"}
  <2>2. readerBookmark' = IF marks = {} THEN 0 ELSE Sight(received[Max(marks)], base').rv
    BY <1>2 DEF readerBookmark, Seen, Sight
  <2>3. CASE marks # {}
    <3>1. marks \in SUBSET (0 .. Len(received)) /\ Len(received) \in Nat
      BY <1>2
    <3>2. Max(marks) \in marks
      <4> HIDE DEF marks
      <4> QED  BY <2>3, <3>1, HasMax
    <3>3. Sight(received[Max(marks)], base') = Bookmark(0)
      BY <2>1, <3>2 DEF Sight
    <3> QED  BY <2>2, <2>3, <3>3 DEF Bookmark
  <2> QED  BY <2>2, <2>3
<1> HIDE DEF F
<1>8. \E kept \in Stream!Buffered(stream), list \in Stream!Listings(store) :
        stream' = Stream!Forgotten(kept) \o list
  BY <1>4, <1>6, SameListings
     DEF Stream!Buffered, Buffered, Stream!Forgotten, Forgotten, Stream!Bookmark, Bookmark
<1> QED  BY <1>1, <1>3, <1>7, <1>8 DEF Stream!Relist

LEMMA StreamResumes ==
  ASSUME WatchInv, ShownInv, WatchBookmark, Reconnect, bookmark # 0
  PROVE  Stream!Resume
<1>1. /\ pc = "connect" /\ pc' = "select" /\ Requested(bookmark)
      /\ UNCHANGED <<store, log, hand, bookmark, readerVars>>
  BY DEF Reconnect
<1>2. /\ UNCHANGED <<base, channel, received>>
      /\ received \in Seq(Message) /\ base \in Nat
  BY <1>1 DEF Requested, readerVars, WatchInv, WatchTypes, RequestInv, Numbered
<1>3. status = "open" /\ status' = "open" /\ readerBookmark' = readerBookmark
  BY <1>1, <1>2, StatusIs, StatusNext, MarkStays
<1> DEFINE F == ShownIn(channel, base)
<1>4. F \in Buffered(stream) /\ stream' = F \o Replay(log, bookmark)
  BY <1>1, <1>2, <1>3, FrontIsBuffered, StreamAnew
<1>5. PICK n : IsLastMark(Got, base, bookmark, n)
  BY <1>1 DEF ShownInv, LastMarkOK
\* The last BOOKMARK that the loop has forwarded has been received already.
<1>6. ASSUME n \in DOMAIN received, received[n].event = Bookmark(bookmark), received[n].req >= base,
             \A m \in DOMAIN received : m > n => received[m].event.type # "BOOKMARK"
      PROVE  readerBookmark = bookmark
  <2>1. received[n].event.type = "BOOKMARK"
    BY <1>6 DEF Bookmark
  <2>2. PICK k \in DOMAIN received :
          /\ received[k].event.type = "BOOKMARK" /\ readerBookmark = Seen(received[k]).rv
          /\ \A m \in DOMAIN received : m > k => received[m].event.type # "BOOKMARK"
    BY <1>2, <1>6, <2>1, LastMark
  <2>3. k = n
    <3>1. DOMAIN received = 1 .. Len(received) /\ Len(received) \in Nat
      BY <1>2
    <3>2. ~ (k > n) /\ ~ (n > k)
      BY <1>6, <2>1, <2>2
    <3> QED  BY <1>6, <3>1, <3>2
  <2>4. received[n].req \in Nat
    <3>1. received[n] \in Message
      BY <1>2, <1>6
    <3> QED  BY <3>1 DEF Message
  <2>5. Seen(received[n]) = Bookmark(bookmark)
    BY <1>2, <1>6, <2>4 DEF Seen
  <2> QED  BY <2>2, <2>3, <2>5 DEF Bookmark
<1>7. LastBookmark(F, readerBookmark) = bookmark
  <2>1. CASE channel = <<>>
    <3>1. Got = received
      <4>1. Got = (received \o <<>>) \o <<>>
        BY <1>1, <2>1 DEF Got
      <4> HIDE DEF Message
      <4> QED  BY <1>2, <4>1, ConcatEmptySeq
    <3>2. readerBookmark = bookmark
      BY <1>5, <1>6, <3>1 DEF IsLastMark
    <3>3. F = <<>>
      BY <2>1, ShownNone
    <3> QED  BY <3>2, <3>3 DEF LastBookmark
  <2>2. ASSUME NEW m \in Message, channel = <<m>>, m.event.type \notin Controls
        PROVE  LastBookmark(F, readerBookmark) = bookmark
    <3>1. Got = Append(received, m)
      <4>1. Got = (received \o <<m>>) \o <<>>
        BY <1>1, <2>2 DEF Got
      <4> HIDE DEF Message
      <4>2. received \o <<m>> = Append(received, m) /\ Append(received, m) \in Seq(Message)
        BY <1>2, AppendIsConcat, AppendProperties
      <4> QED  BY <4>1, <4>2, ConcatEmptySeq
    <3>2. /\ DOMAIN received = 1 .. Len(received) /\ Len(received) \in Nat
          /\ DOMAIN Got = 1 .. Len(received) + 1
          /\ \A i \in 1 .. Len(received) : Got[i] = received[i]
          /\ Got[Len(received) + 1] = m
      BY <1>2, <3>1, AppendShape
    <3>3. F = <<Sight(m, base)>> /\ Sight(m, base).type = m.event.type
      BY <2>2, ShownOne
    <3>4. F # <<>> /\ Head(F) = Sight(m, base)
      <4> HIDE DEF F
      <4> QED  BY <3>3
    <3>5. CASE m.event.type = "BOOKMARK"
      <4>1. n = Len(received) + 1
        BY <1>5, <3>2, <3>5 DEF IsLastMark
      <4>2. m.event = Bookmark(bookmark) /\ m.req >= base /\ m.req \in Nat
        BY <1>5, <3>2, <4>1 DEF IsLastMark, Message
      <4>3. Sight(m, base) = Bookmark(bookmark)
        BY <1>2, <4>2 DEF Sight
      <4> HIDE DEF F
      <4> QED  BY <3>4, <4>3 DEF LastBookmark, Bookmark
    <3>6. CASE m.event.type # "BOOKMARK"
      <4>1. n # Len(received) + 1
        BY <1>5, <3>2, <3>6 DEF IsLastMark, Bookmark
      <4>2. n \in 1 .. Len(received)
        BY <1>5, <3>2, <4>1 DEF IsLastMark
      <4>3. /\ received[n].event = Bookmark(bookmark) /\ received[n].req >= base
            /\ \A i \in DOMAIN received : i > n => received[i].event.type # "BOOKMARK"
        BY <1>5, <3>2, <4>2 DEF IsLastMark
      <4>4. readerBookmark = bookmark
        BY <1>6, <3>2, <4>2, <4>3
      <4> HIDE DEF F
      <4> QED  BY <3>3, <3>4, <3>6, <4>4 DEF LastBookmark
    <3> QED  BY <3>5, <3>6
  <2> QED  BY <1>1, <2>1, <2>2, ChannelIsSeen
<1> HIDE DEF F
<1>8. \E kept \in Stream!Buffered(stream) :
        /\ Stream!LastBookmark(kept, readerBookmark) # 0
        /\ stream' = kept \o Stream!Replay(log, Stream!LastBookmark(kept, readerBookmark))
  <2>1. F \in Stream!Buffered(stream)
    BY <1>4 DEF Stream!Buffered, Buffered
  <2>2. Stream!LastBookmark(F, readerBookmark) = bookmark
    BY <1>7 DEF Stream!LastBookmark, LastBookmark
  <2>3. Stream!Replay(log, bookmark) = Replay(log, bookmark)
    BY DEF Stream!Replay, Replay
  <2> QED  BY <1>4, <2>1, <2>2, <2>3
<1> QED  BY <1>1, <1>3, <1>8 DEF Stream!Resume

\* The reader receives a message: its next BOOKMARK is the one that it then has.
LEMMA MarkReceived ==
  ASSUME received \in Seq(Message), base \in Nat, NEW m \in Message, received' = Append(received, m),
         base' = base
  PROVE  readerBookmark' = IF m.event.type = "BOOKMARK" THEN Sight(m, base).rv ELSE readerBookmark
<1> DEFINE marks == {i \in DOMAIN received : received[i].event.type = "BOOKMARK"}
           marks2 == {i \in DOMAIN received' : received'[i].event.type = "BOOKMARK"}
           n == Len(received) + 1
<1>1. /\ DOMAIN received = 1 .. Len(received) /\ Len(received) \in Nat /\ DOMAIN received' = 1 .. n
      /\ \A i \in 1 .. Len(received) : received'[i] = received[i]
      /\ received'[n] = m
  <2> HIDE DEF Message
  <2> QED  BY AppendShape
<1>2. /\ readerBookmark = IF marks = {} THEN 0 ELSE Sight(received[Max(marks)], base).rv
      /\ readerBookmark' = IF marks2 = {} THEN 0 ELSE Sight(received'[Max(marks2)], base).rv
  BY DEF readerBookmark, Seen, Sight
<1>3. CASE m.event.type = "BOOKMARK"
  <2>1. marks2 \in SUBSET (0 .. n) /\ n \in Nat /\ n \in marks2
    BY <1>1, <1>3
  <2>2. Max(marks2) \in marks2 /\ Max(marks2) >= n
    <3> HIDE DEF marks2, n
    <3>1. marks2 # {}
      BY <2>1
    <3> QED  BY <2>1, <3>1, HasMax
  <2>3. Max(marks2) = n
    <3>1. Max(marks2) \in 1 .. n
      BY <1>1, <2>2
    <3> HIDE DEF marks2
    <3> QED  BY <1>1, <2>2, <3>1
  <2>4. marks2 # {}
    BY <2>1
  <2> HIDE DEF marks2
  <2> QED  BY <1>1, <1>2, <1>3, <2>3, <2>4
<1>4. CASE m.event.type # "BOOKMARK"
  <2>1. marks2 = marks
    BY <1>1, <1>4
  <2>2. CASE marks = {}
    BY <1>2, <1>4, <2>1, <2>2
  <2>3. CASE marks # {}
    <3>1. marks \in SUBSET (0 .. Len(received))
      BY <1>1
    <3>2. Max(marks) \in marks
      <4> HIDE DEF marks
      <4> QED  BY <1>1, <2>3, <3>1, HasMax
    <3>3. received'[Max(marks)] = received[Max(marks)]
      BY <1>1, <3>2
    <3> HIDE DEF marks, marks2
    <3> QED  BY <1>2, <1>4, <2>1, <2>3, <3>3
  <2> QED  BY <2>2, <2>3
<1> QED  BY <1>3, <1>4

LEMMA StreamReceives ==
  ASSUME WatchInv, ShownInv, Receive
  PROVE  [Stream!Receive]_(Stream!streamVars)
<1> DEFINE m == channel[1]
           V == Visible(api)
           R == Replay(log, sent)
           rest == (HandSeen \o V) \o R
<1>1. /\ channel = <<m>> /\ m \in Message /\ channel' = <<>> /\ received' = Append(received, m)
      /\ received \in Seq(Message) /\ base \in Nat
      /\ UNCHANGED <<store, log, sent, api, base, pc, hand>>
  <2>1. channel' = <<>> /\ received' = Append(received, m) /\ m \in Message /\ 1 \in DOMAIN channel
    BY GotReceived DEF WatchInv
  <2>2. channel = <<m>>
    <3>1. PICK x \in Message : channel = <<x>>
      BY PartTypes DEF Receive
    <3> QED  BY <3>1
  <2> QED  BY <2>1, <2>2
       DEF Receive, serverVars, apiVars, loopVars, WatchInv, WatchTypes, RequestInv, Numbered
<1>2. status' = status /\ HandSeen' = HandSeen
  BY <1>1 DEF status, HandSeen
<1>3. /\ HandSeen \in Seq(ApiEvent) /\ V \in Seq(ApiEvent) /\ R \in Seq(ApiEvent)
  BY PartTypes
<1> HIDE DEF m
<1>4. ShownIn(channel', base') = <<>>
  BY <1>1, ShownNone
<1>5. readerBookmark' = IF m.event.type = "BOOKMARK" THEN Sight(m, base).rv ELSE readerBookmark
  BY <1>1, MarkReceived
<1>6. CASE m.event.type \in Controls
  <2>1. pc \in {"close", "stop", "done"}
    <3>1. 1 \in DOMAIN channel /\ channel[1] = m
      BY <1>1
    <3> QED  BY <1>6, <3>1 DEF ShownInv, ControlsOK
  <2>2. status # "open"
    BY <2>1, StatusIs
  <2>3. ShownIn(channel, base) = <<>>
    BY <1>1, <1>6, ShownOne
  <2>4. stream' = stream
    BY <1>2, <1>4, <2>2, <2>3, StreamParts DEF StreamOK
  <2>5. readerBookmark' = readerBookmark
    BY <1>5, <1>6 DEF Controls
  <2> QED  BY <1>1, <1>2, <2>4, <2>5 DEF Stream!streamVars
<1>7. CASE m.event.type \notin Controls
  <2> DEFINE e == Sight(m, base)
  <2>1. e \in ApiEvent /\ e.type = m.event.type /\ ShownIn(channel, base) = <<e>>
    BY <1>1, <1>7, ShownOne
  <2> HIDE DEF e, V, R, ApiEvent
  <2>2. \E s \in Seq(ApiEvent) : stream = <<e>> \o s /\ stream' = s
    <3>1. CASE status = "open"
      <4>1. stream = Parts(<<e>>, HandSeen, V, R)
        BY <2>1, <3>1, StreamParts DEF StreamOK, V, R
      <4>2. stream' = Parts(<<>>, HandSeen, V, R)
        BY <1>1, <1>2, <1>4, <3>1, StreamParts DEF StreamOK, V, R
      <4>3. <<e>> \in Seq(ApiEvent)
        BY <2>1
      <4>4. (<<e>> \o HandSeen) \o V = <<e>> \o (HandSeen \o V) /\ HandSeen \o V \in Seq(ApiEvent)
        BY <1>3, <4>3, ConcatAssociative, ConcatProperties
      <4> DEFINE W == HandSeen \o V
      <4>5. W \in Seq(ApiEvent)
        BY <4>4
      <4>6. <<>> \o HandSeen = HandSeen
        BY <1>3, ConcatEmptySeq
      <4>7. stream' = W \o R
        BY <4>2, <4>6 DEF Parts
      <4>8. stream = (<<e>> \o W) \o R
        BY <4>1, <4>4 DEF Parts
      <4> HIDE DEF W
      <4>9. (<<e>> \o W) \o R = <<e>> \o (W \o R) /\ W \o R \in Seq(ApiEvent)
        BY <1>3, <4>3, <4>5, ConcatAssociative, ConcatProperties
      <4> QED  BY <4>7, <4>8, <4>9
    <3>2. CASE status # "open"
      <4>1. stream = <<e>> /\ stream' = <<>>
        BY <1>2, <1>4, <2>1, <3>2, StreamParts DEF StreamOK
      <4>2. <<e>> \in Seq(ApiEvent) /\ <<>> \in Seq(ApiEvent)
        BY <2>1
      <4>3. <<e>> \o <<>> = <<e>>
        BY <4>2, ConcatEmptySeq
      <4> QED  BY <4>1, <4>2, <4>3
    <3> QED  BY <3>1, <3>2
  <2>3. stream # <<>> /\ stream' = Tail(stream) /\ Head(stream) = e
    BY <2>1, <2>2, HeadTaken
  <2>4. readerBookmark' = LastBookmark(stream, readerBookmark)
    BY <1>5, <2>1, <2>3 DEF LastBookmark, e
  <2> QED  BY <1>1, <1>2, <2>3, <2>4 DEF Stream!Receive, Stream!LastBookmark, LastBookmark
<1> QED  BY <1>6, <1>7

LEMMA StreamInit == Init => Stream!Init
<1> SUFFICES ASSUME Init  PROVE Stream!Init
  OBVIOUS
<1>1. store = [o \in Objects |-> Absent] /\ log = <<>> /\ channel = <<>> /\ received = <<>> /\ pc = "none"
  BY DEF Init
<1>2. status = "none"
  BY <1>1, StatusIs
<1>3. stream = <<>>
  BY <1>1, <1>2, ShownNone, StreamParts DEF StreamOK
<1>4. readerBookmark = 0
  BY <1>1 DEF readerBookmark
<1> QED  BY <1>1, <1>2, <1>3, <1>4 DEF Stream!Init, Stream!Absent, Absent

LEMMA StreamNext ==
  ASSUME WatchBookmark
  PROVE  WatchInv /\ ShownInv /\ [Next]_vars => [Stream!Next]_(Stream!streamVars)
<1> SUFFICES ASSUME WatchInv, ShownInv, [Next]_vars  PROVE [Stream!Next]_(Stream!streamVars)
  OBVIOUS
<1>1. CASE \E o \in Objects, type \in {"ADDED", "MODIFIED", "DELETED"} : Change(type, o)
  <2>1. PICK o \in Objects, type \in {"ADDED", "MODIFIED", "DELETED"} : Change(type, o)
    BY <1>1
  <2>2. Stream!Change(type, o)
    BY <2>1, StreamChanges DEF Changes
  <2> QED  BY <2>2 DEF Stream!Next
<1>2. CASE Transmit \/ SendControl
  BY <1>2, StreamTransmits
<1>3. CASE SendBookmark
  BY <1>3, StreamMarks DEF Stream!Next
<1>4. CASE \/ EndRequest \/ WatchError \/ SeeEnd \/ ReconnectError \/ CloseChannel \/ StopWatcher
           \/ Cancel \/ Leave \/ UNCHANGED vars
  BY <1>4, StreamIdles
<1>5. CASE Watch
  BY <1>5, StreamOpens DEF Stream!Next
<1>6. CASE TakeEvent \/ TakeBookmark \/ TakeUnsupported \/ TakeError
  BY <1>6, StreamTakes
<1>7. CASE SeeDone \/ TakeInvalid \/ (Send /\ pc = "fail")
  BY <1>7, StreamCloses DEF Stream!Next
<1>8. CASE Send /\ pc = "send"
  BY <1>8, StreamForwards
<1>9. CASE Reconnect /\ bookmark = 0
  BY <1>9, StreamRelists DEF Stream!Next
<1>10. CASE Reconnect /\ bookmark # 0
  BY <1>10, StreamResumes DEF Stream!Next
<1>11. CASE Receive
  BY <1>11, StreamReceives DEF Stream!Next
<1>12. CASE Send
  BY <1>7, <1>8, <1>12 DEF Send
<1> QED
  BY <1>1, <1>2, <1>3, <1>4, <1>5, <1>6, <1>7, <1>9, <1>10, <1>11, <1>12 DEF Next, Server, Loop, Reader

\* For a reader that asks for BOOKMARK events the loop is a connection of the
\* kind that SharedWatch reads: whatever ends a request, its reader gets a
\* stream that goes on where the loop's last BOOKMARK says, or a new listing
\* (kubeWatchService.go 65-172).
THEOREM Implements == ASSUME WatchBookmark  PROVE Spec => KeepsStream
<1>1. Spec => Stream!Init /\ [][Stream!Next]_(Stream!streamVars)
  BY StreamInit, StreamNext, AlwaysShownInv, PTL DEF Spec
<1> QED  BY <1>1 DEF KeepsStream, Stream!Spec
=============================================================================
