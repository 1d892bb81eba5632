----------------------------- MODULE CacheProofs -----------------------------
(***************************************************************************)
(* Proofs about CacheAdapter, for any objects, versions and breaks.        *)
(***************************************************************************)
EXTENDS CacheAdapterProperties, FiniteSetTheorems, SequenceTheorems, TLAPS

LEMMA DomainOfSeq ==
  ASSUME NEW S, NEW s \in Seq(S)
  PROVE  DOMAIN s = 1 .. Len(s) /\ Len(s) \in Nat /\ \A i \in DOMAIN s : s[i] \in S
OBVIOUS

(***************************************************************************)
(* The cluster: a change of an object follows all its earlier ones.        *)
(***************************************************************************)
Versions == [rv : Nat, gen : {0}]

LogOK ==
  /\ log \in Seq(Event)
  /\ \A i \in DOMAIN log : log[i].rv = i /\ log[i].obj \in Objects /\ log[i].type # "BOOKMARK"

\* An object that is not there has been deleted after its last version.
StoreOK ==
  /\ store \in [Objects -> Versions]
  /\ \A o \in Objects :
       /\ store[o] = Absent => \A v \in Had(o) : \E p \in DOMAIN log : p > v /\ log[p].obj = o
       /\ store[o] # Absent =>
            store[o].rv \in Had(o) /\ \A p \in DOMAIN log : log[p].obj = o => p <= store[o].rv

\* Something has happened to an object between a version of it and its next ADDED.
AddedOK ==
  \A k \in DOMAIN log : log[k].type = "ADDED" =>
    \A v \in Had(log[k].obj) : v < k =>
      \E p \in DOMAIN log : v < p /\ p < k /\ log[p].obj = log[k].obj

ClusterOK == LogOK /\ StoreOK /\ AddedOK

(***************************************************************************)
(* The stream: its events are those of the log, and those after a BOOKMARK *)
(* are of later versions.                                                  *)
(***************************************************************************)
EventOK(i) ==
  LET e == stream[i] IN
    /\ e.type = "BOOKMARK" =>
         /\ e.obj = NoObject /\ bookmark <= e.rv /\ e.rv <= Len(log)
         /\ \A j \in DOMAIN stream : j < i /\ stream[j].type = "BOOKMARK" => stream[j].rv <= e.rv
    /\ e.type # "BOOKMARK" =>
         /\ e.obj \in Objects /\ e.rv \in DOMAIN log
         /\ log[e.rv].obj = e.obj /\ (e.type = "DELETED" <=> log[e.rv].type = "DELETED")
         /\ e.rv > bookmark
         /\ \A j \in DOMAIN stream : j < i /\ stream[j].type = "BOOKMARK" => stream[j].rv < e.rv

StreamOK ==
  /\ stream \in Seq(Event) /\ bookmark \in 0 .. Len(log) /\ status \in {"none", "open", "closed"}
  /\ \A i \in DOMAIN stream : EventOK(i)

PhaseOK ==
  /\ status = "none" <=> pc \in {"start", "disabled", "failed"}
  /\ status = "none" =>
       stream = <<>> /\ bookmark = 0 /\ \A o \in Objects : cache[o] = 0 /\ heard[o] = 0
  /\ pc = "sleep" => status = "closed"
  /\ breaksLeft = MaxBreaks => status # "closed"
  /\ pc = "set" => hand \in Event /\ hand.obj \in Objects /\ hand.rv \in Had(hand.obj) /\ cache[hand.obj] = 0

Held(o) == pc = "set" /\ hand.obj = o

(***************************************************************************)
(* As long as the connection does not break, the stream has all the        *)
(* changes of an object after version v, from place i on, each before the  *)
(* later ones.                                                             *)
(***************************************************************************)
Follows(o, v, i) ==
  \A p \in DOMAIN log : log[p].obj = o /\ p > v =>
    \E n \in DOMAIN stream :
      /\ n > i /\ stream[n].obj = o /\ stream[n].rv = p
      /\ \A m \in DOMAIN stream : i < m /\ m < n /\ stream[m].obj = o => stream[m].rv <= p

\* An event of the listing is the first of its object.
Unbroken(o) ==
  /\ cache[o] # 0 => Follows(o, cache[o], 0)
  /\ Held(o) => Follows(o, hand.rv, 0)
  /\ \A i \in DOMAIN stream : stream[i].obj = o => Follows(o, stream[i].rv, i)
  /\ \A i \in DOMAIN stream : stream[i].obj = o /\ stream[i].type = "ADDED" =>
       \/ log[stream[i].rv].type = "ADDED"
       \/ cache[o] = 0 /\ ~Held(o) /\ \A j \in DOMAIN stream : j < i => stream[j].obj # o

(***************************************************************************)
(* After a break the stream has the version of the store at least.         *)
(***************************************************************************)
Reached(o, v, i) ==
  v = store[o].rv \/ \E n \in DOMAIN stream : n > i /\ stream[n].obj = o /\ stream[n].rv = store[o].rv

Broken(o) ==
  store[o] # Absent /\ store[o].rv \notin TooLarge =>
    /\ cache[o] # 0 => Reached(o, cache[o], 0)
    /\ Held(o) => Reached(o, hand.rv, 0)
    /\ \A i \in DOMAIN stream : stream[i].obj = o => Reached(o, stream[i].rv, i)

(***************************************************************************)
(* What the notifier remembers as sent is what the adapter has got, but    *)
(* for an ADDED that was too large to replace the entry: to skip it again  *)
(* leaves nothing behind.                                                  *)
(***************************************************************************)
HeardOK(o) ==
  /\ heard[o] # 0 /\ heard[o] \notin TooLarge => cache[o] \in {0, heard[o]}
  /\ breaksLeft = MaxBreaks /\ cache[o] # 0 => heard[o] <= cache[o]
  /\ Held(o) => hand.rv = heard[o]

\* Of a disturbed object nothing is claimed.
DeliveryOK ==
  status = "open" => \A o \in Objects \ disturbed :
    HeardOK(o) /\ IF breaksLeft = MaxBreaks THEN Unbroken(o) ELSE Broken(o)

CacheInv == ClusterOK /\ StreamOK /\ PhaseOK /\ TypeOK /\ DeliveryOK

(***************************************************************************)
(* What the operators on streams return.                                   *)
(***************************************************************************)
LEMMA ListingShape ==
  ASSUME StoreOK, NEW list \in Listings(store)
  PROVE  /\ list \in Seq(Event)
         /\ \A i \in DOMAIN list :
              /\ list[i].type = "ADDED" /\ list[i].obj \in Objects
              /\ store[list[i].obj] # Absent /\ list[i].rv = store[list[i].obj].rv
              /\ \A j \in DOMAIN list : j # i => list[j].obj # list[i].obj
         /\ \A o \in Objects : store[o] # Absent => \E i \in DOMAIN list : list[i].obj = o
<1> DEFINE Present == {o \in Objects : store[o] # Absent}
           n == Cardinality(Present)
<1>1. IsFiniteSet(Present)
  BY ObjectsAssumption, FS_Subset
<1>2. n \in Nat
  BY <1>1, FS_CardinalityType
<1>3. PICK names \in SetToSeqs(Present) :
        list = [i \in DOMAIN names |-> EventOf("ADDED", names[i], store[names[i]])]
  BY DEF Listings
<1>4. /\ names \in [1 .. n -> Present]
      /\ \A i, j \in 1 .. n : i # j => names[i] # names[j]
  BY <1>3 DEF SetToSeqs
<1>5. \A i \in 1 .. n : EventOf("ADDED", names[i], store[names[i]]) \in Event
  BY <1>4 DEF StoreOK, Versions, EventOf, Event
<1>6. list \in [1 .. n -> Event] /\ DOMAIN list = 1 .. n
  BY <1>3, <1>4, <1>5
<1>7. list \in Seq(Event)
  BY <1>2, <1>6, SeqDef
<1>8. \A i \in 1 .. n :
        /\ names[i] \in Objects /\ store[names[i]] # Absent
        /\ list[i].type = "ADDED" /\ list[i].obj = names[i] /\ list[i].rv = store[names[i]].rv
  BY <1>3, <1>4 DEF EventOf
<1>9. \A o \in Present : \E i \in 1 .. n : names[i] = o
  <2>1. names \in Injection(1 .. n, Present)
    BY <1>4 DEF Injection, IsInjective
  <2>2. Cardinality(1 .. n) = n
    BY <1>2, FS_Interval
  <2>3. names \in Surjection(1 .. n, Present)
    BY <1>1, <2>1, <2>2, FS_Injection
  <2> QED  BY <2>3 DEF Surjection
<1> HIDE DEF n
<1> QED  BY <1>4, <1>6, <1>7, <1>8, <1>9

LEMMA KeptShape ==
  ASSUME NEW s \in Seq(Event), NEW kept \in Buffered(s)
  PROVE  /\ kept \in Seq(Event) /\ Len(kept) \in {0, 1} /\ Len(kept) <= Len(s)
         /\ \A i \in 1 .. Len(kept) : i = 1 /\ kept[i] = s[i]
<1>1. PICK n \in 0 .. 1 : n <= Len(s) /\ kept = SubSeq(s, 1, n)
  BY DEF Buffered
<1> QED  BY <1>1, SubSeqProperties

LEMMA ForgottenShape ==
  ASSUME NEW kept \in Seq(Event)
  PROVE  /\ Forgotten(kept) \in Seq(Event) /\ Len(Forgotten(kept)) = Len(kept)
         /\ \A i \in 1 .. Len(kept) :
              Forgotten(kept)[i] = IF kept[i].type = "BOOKMARK" THEN Bookmark(0) ELSE kept[i]
<1>1. Bookmark(0) \in Event
  BY DEF Bookmark, Event
<1>2. Forgotten(kept) \in [1 .. Len(kept) -> Event]
  BY <1>1 DEF Forgotten
<1> QED  BY <1>2, SeqDef DEF Forgotten

(***************************************************************************)
(* A change in the cluster.                                                *)
(***************************************************************************)
LEMMA ChangeShape ==
  ASSUME CacheInv, NEW o \in Objects, NEW type \in {"ADDED", "MODIFIED", "DELETED"}, Change(type, o)
  PROVE  /\ log' \in Seq(Event) /\ Len(log') = Len(log) + 1 /\ DOMAIN log' = 1 .. Len(log) + 1
         /\ \A i \in 1 .. Len(log) : log'[i] = log[i]
         /\ log'[Len(log) + 1].rv = Len(log) + 1 /\ log'[Len(log) + 1].obj = o
         /\ log'[Len(log) + 1].type = type
         /\ IF status = "open"
            THEN /\ stream' \in Seq(Event) /\ DOMAIN stream' = 1 .. Len(stream) + 1
                 /\ \A i \in 1 .. Len(stream) : stream'[i] = stream[i]
                 /\ stream'[Len(stream) + 1] = log'[Len(log) + 1]
            ELSE stream' = stream
<1> DEFINE e == EventOf(type, o, [rv |-> Len(log) + 1, gen |-> 0])
<1>1. log \in Seq(Event) /\ stream \in Seq(Event) /\ Len(log) \in Nat
  BY DEF CacheInv, ClusterOK, LogOK, StreamOK
<1>2. e \in Event /\ e.rv = Len(log) + 1 /\ e.obj = o /\ e.type = type
  BY <1>1 DEF EventOf, Event
<1>3. log' = Append(log, e) /\ stream' = IF status = "open" THEN Append(stream, e) ELSE stream
  BY DEF Change
<1> HIDE DEF e
<1>4. /\ log' \in Seq(Event) /\ Len(log') = Len(log) + 1 /\ DOMAIN log' = 1 .. Len(log) + 1
      /\ \A i \in 1 .. Len(log) : log'[i] = log[i]
      /\ log'[Len(log) + 1] = e
  BY <1>1, <1>2, <1>3, AppendProperties
<1>5. CASE status = "open"
  <2>1. /\ stream' \in Seq(Event) /\ DOMAIN stream' = 1 .. Len(stream) + 1
        /\ \A i \in 1 .. Len(stream) : stream'[i] = stream[i]
        /\ stream'[Len(stream) + 1] = e
    BY <1>1, <1>2, <1>3, <1>5, AppendProperties
  <2> QED  BY <1>2, <1>4, <1>5, <2>1
<1>6. CASE status # "open"
  BY <1>2, <1>3, <1>4, <1>6
<1> QED  BY <1>5, <1>6

\* The versions of an object are those it had, and the new one.
LEMMA ChangeHad ==
  ASSUME CacheInv, NEW o \in Objects, NEW type \in {"ADDED", "MODIFIED", "DELETED"}, Change(type, o)
  PROVE  \A x \in Objects :
           /\ Had(x)' = IF x = o /\ type # "DELETED" THEN Had(x) \cup {Len(log) + 1} ELSE Had(x)
           /\ Had(x) \subseteq 1 .. Len(log)
<1>1. DOMAIN log = 1 .. Len(log) /\ Len(log) \in Nat
  BY DEF CacheInv, ClusterOK, LogOK
<1> QED  BY <1>1, ChangeShape DEF Had

LEMMA ChangeKeepsCluster ==
  ASSUME CacheInv, NEW o \in Objects, NEW type \in {"ADDED", "MODIFIED", "DELETED"}, Change(type, o)
  PROVE  ClusterOK'
<1> DEFINE n == Len(log) + 1
<1>1. DOMAIN log = 1 .. Len(log) /\ Len(log) \in Nat
  BY DEF CacheInv, ClusterOK, LogOK
<1>2. LogOK'
  BY <1>1, ChangeShape DEF CacheInv, ClusterOK, LogOK
<1>3. StoreOK'
  <2>1. /\ store \in [Objects -> Versions]
        /\ store' = [store EXCEPT ![o] = IF type = "DELETED" THEN Absent ELSE [rv |-> n, gen |-> 0]]
    BY DEF Change, CacheInv, ClusterOK, StoreOK
  <2>2. store' \in [Objects -> Versions]
    BY <1>1, <2>1 DEF Versions, Absent
  <2>3. ASSUME NEW x \in Objects
        PROVE  /\ store'[x] = Absent => \A v \in Had(x)' : \E p \in DOMAIN log' : p > v /\ log'[p].obj = x
               /\ store'[x] # Absent =>
                    store'[x].rv \in Had(x)' /\ \A p \in DOMAIN log' : log'[p].obj = x => p <= store'[x].rv
    <3>1. CASE x # o
      <4>1. store'[x] = store[x] /\ Had(x)' = Had(x)
        BY <2>1, <3>1, ChangeHad
      <4> QED  BY <1>1, <3>1, <4>1, ChangeShape DEF CacheInv, ClusterOK, StoreOK
    <3>2. CASE x = o /\ type = "DELETED"
      <4>1. store'[x] = Absent
        BY <2>1, <3>2
      <4>2. Had(x)' = Had(x) /\ Had(x) \subseteq 1 .. Len(log)
        BY <3>2, ChangeHad
      <4>3. n \in DOMAIN log' /\ log'[n].obj = x /\ \A v \in 1 .. Len(log) : n > v
        BY <1>1, <3>2, ChangeShape
      <4> QED  BY <4>1, <4>2, <4>3
    <3>3. CASE x = o /\ type # "DELETED"
      <4>1. store'[x] # Absent /\ store'[x].rv = n
        BY <1>1, <2>1, <3>3 DEF Absent
      <4>2. n \in Had(x)' /\ \A p \in DOMAIN log' : p <= n
        BY <1>1, <3>3, ChangeHad, ChangeShape
      <4> QED  BY <4>1, <4>2
    <3> QED  BY <3>1, <3>2, <3>3
  <2> QED  BY <2>2, <2>3 DEF StoreOK
<1>4. AddedOK'
  <2> SUFFICES ASSUME NEW k \in DOMAIN log', log'[k].type = "ADDED", NEW v \in DOMAIN log',
                      log'[v].obj = log'[k].obj, log'[v].type # "DELETED", v < k
               PROVE  \E p \in DOMAIN log' : v < p /\ p < k /\ log'[p].obj = log'[k].obj
    BY DEF AddedOK, Had
  <2>1. CASE k = n
    <3>1. log'[k].obj = o /\ type = "ADDED"
      BY <2>1, ChangeShape
    <3>2. store[o] = Absent /\ v \in Had(o)
      BY <1>1, <2>1, <3>1, ChangeShape DEF Change, Had
    <3>3. PICK p \in DOMAIN log : p > v /\ log[p].obj = o
      BY <3>2 DEF CacheInv, ClusterOK, StoreOK
    <3>4. p \in DOMAIN log' /\ p < k /\ log'[p].obj = o
      BY <1>1, <2>1, <3>3, ChangeShape
    <3>5. v < p
      BY <1>1, <3>2, <3>3 DEF Had
    <3> QED  BY <3>1, <3>4, <3>5
  <2>2. CASE k # n
    <3>1. k \in DOMAIN log /\ log'[k] = log[k] /\ log[k].obj \in Objects
      BY <1>1, <2>2, ChangeShape DEF CacheInv, ClusterOK, LogOK
    <3>2. v \in Had(log[k].obj)
      BY <1>1, <2>2, <3>1, ChangeShape DEF Had
    <3>3. PICK p \in DOMAIN log : v < p /\ p < k /\ log[p].obj = log[k].obj
      BY <3>1, <3>2 DEF CacheInv, ClusterOK, AddedOK
    <3>4. p \in DOMAIN log' /\ log'[p] = log[p]
      BY <1>1, ChangeShape
    <3> QED  BY <3>1, <3>3, <3>4
  <2> QED  BY <2>1, <2>2
<1> QED  BY <1>2, <1>3, <1>4 DEF ClusterOK

LEMMA ChangeKeepsStream ==
  ASSUME CacheInv, NEW o \in Objects, NEW type \in {"ADDED", "MODIFIED", "DELETED"}, Change(type, o)
  PROVE  StreamOK'
<1>1. /\ DOMAIN log = 1 .. Len(log) /\ Len(log) \in Nat /\ log \in Seq(Event)
      /\ DOMAIN stream = 1 .. Len(stream) /\ Len(stream) \in Nat /\ stream \in Seq(Event)
      /\ bookmark' = bookmark /\ status' = status /\ bookmark \in 0 .. Len(log)
      /\ status \in {"none", "open", "closed"}
  BY DEF CacheInv, ClusterOK, LogOK, StreamOK, Change
<1>2. stream' \in Seq(Event) /\ Len(log') = Len(log) + 1
  BY <1>1, ChangeShape
<1>3. ASSUME NEW i \in DOMAIN stream  PROVE EventOK(i)'
  <2>1. EventOK(i) /\ stream'[i] = stream[i] /\ \A j \in DOMAIN stream : stream'[j] = stream[j]
    BY <1>1, ChangeShape DEF CacheInv, StreamOK
  <2>2. \A k \in DOMAIN log : k \in DOMAIN log' /\ log'[k] = log[k]
    BY <1>1, ChangeShape
  <2>3. \A j \in DOMAIN stream' : j < i => j \in DOMAIN stream
    BY <1>1, ChangeShape
  <2>4. stream[i].rv \in Nat /\ stream[i].rv <= Len(log) => stream[i].rv <= Len(log')
    BY <1>1, <1>2
  <2>5. stream[i].rv \in Nat
    <3>1. stream[i] \in Event
      BY <1>1
    <3> QED  BY <3>1 DEF Event
  <2> QED  BY <1>1, <2>1, <2>2, <2>3, <2>4, <2>5 DEF EventOK
<1>4. ASSUME NEW i \in DOMAIN stream', i \notin DOMAIN stream  PROVE EventOK(i)'
  <2>1. status = "open" /\ i = Len(stream) + 1
    BY <1>1, <1>4, ChangeShape
  <2>2. /\ stream'[i].rv = Len(log) + 1 /\ stream'[i].obj = o /\ stream'[i].type = type
        /\ log'[Len(log) + 1] = stream'[i] /\ Len(log) + 1 \in DOMAIN log'
    BY <1>1, <2>1, ChangeShape
  <2>3. ASSUME NEW j \in DOMAIN stream', j < i, stream'[j].type = "BOOKMARK"
        PROVE  stream'[j].rv < Len(log) + 1
    <3>1. j \in DOMAIN stream /\ stream'[j] = stream[j] /\ EventOK(j)
      BY <1>1, <2>1, <2>3, ChangeShape DEF CacheInv, StreamOK
    <3>2. stream[j].rv \in Nat
      <4>1. stream[j] \in Event
        BY <1>1, <3>1
      <4> QED  BY <4>1 DEF Event
    <3> QED  BY <1>1, <2>3, <3>1, <3>2 DEF EventOK
  <2>4. Len(log) + 1 > bookmark'
    BY <1>1
  <2> QED  BY <2>2, <2>3, <2>4 DEF EventOK
<1>5. bookmark' \in 0 .. Len(log')
  BY <1>1, <1>2
<1> QED  BY <1>1, <1>2, <1>3, <1>4, <1>5 DEF StreamOK

\* What the step of an action needs of the types of the state.
LEMMA StateTypes ==
  ASSUME CacheInv
  PROVE  /\ log \in Seq(Event) /\ Len(log) \in Nat /\ DOMAIN log = 1 .. Len(log)
         /\ stream \in Seq(Event) /\ Len(stream) \in Nat /\ DOMAIN stream = 1 .. Len(stream)
         /\ bookmark \in Nat /\ bookmark <= Len(log)
         /\ cache \in [Objects -> Nat] /\ \A o \in Objects : cache[o] # 0 => cache[o] \in Had(o)
         /\ store \in [Objects -> Versions] /\ NoObject \notin Objects
         /\ heard \in [Objects -> Nat] /\ disturbed \subseteq Objects
         /\ \A i \in DOMAIN stream : stream[i].rv \in Nat
         /\ \A i \in DOMAIN stream : stream[i].obj \in Objects =>
              /\ stream[i].type # "BOOKMARK" /\ stream[i].rv \in DOMAIN log
              /\ log[stream[i].rv].obj = stream[i].obj /\ stream[i].rv > bookmark
         /\ \A i \in DOMAIN stream : stream[i].obj \notin Objects => stream[i].type = "BOOKMARK"
<1>1. /\ log \in Seq(Event) /\ Len(log) \in Nat /\ DOMAIN log = 1 .. Len(log)
      /\ stream \in Seq(Event) /\ Len(stream) \in Nat /\ DOMAIN stream = 1 .. Len(stream)
      /\ bookmark \in Nat /\ bookmark <= Len(log)
      /\ store \in [Objects -> Versions]
  BY DEF CacheInv, ClusterOK, LogOK, StoreOK, StreamOK
<1>2. /\ cache \in [Objects -> Nat] /\ \A o \in Objects : cache[o] # 0 => cache[o] \in Had(o)
      /\ heard \in [Objects -> Nat] /\ disturbed \subseteq Objects
  BY DEF CacheInv, TypeOK
<1>3. NoObject \notin Objects
  BY ObjectsAssumption
<1>4. \A i \in DOMAIN stream : stream[i] \in Event
  BY <1>1
<1>5. \A i \in DOMAIN stream : stream[i].rv \in Nat
  BY <1>4 DEF Event
<1>6. \A i \in DOMAIN stream : EventOK(i)
  BY DEF CacheInv, StreamOK
<1> QED  BY <1>1, <1>2, <1>3, <1>5, <1>6 DEF EventOK

LEMMA ChangeFollows ==
  ASSUME CacheInv, NEW o \in Objects, NEW type \in {"ADDED", "MODIFIED", "DELETED"}, Change(type, o),
         status = "open",
         NEW x \in Objects, NEW v \in Nat, NEW i \in 0 .. Len(stream), Follows(x, v, i)
  PROVE  Follows(x, v, i)'
<1>1. /\ DOMAIN log' = 1 .. Len(log) + 1 /\ \A k \in DOMAIN log : log'[k] = log[k]
      /\ DOMAIN stream' = 1 .. Len(stream) + 1 /\ \A k \in DOMAIN stream : stream'[k] = stream[k]
      /\ stream'[Len(stream) + 1].rv = Len(log) + 1
      /\ stream'[Len(stream) + 1].obj = log'[Len(log) + 1].obj
  BY StateTypes, ChangeShape
<1> SUFFICES ASSUME NEW p \in DOMAIN log', log'[p].obj = x, p > v
             PROVE  \E n \in DOMAIN stream' :
                      /\ n > i /\ stream'[n].obj = x /\ stream'[n].rv = p
                      /\ \A m \in DOMAIN stream' :
                           i < m /\ m < n /\ stream'[m].obj = x => stream'[m].rv <= p
  BY DEF Follows
<1>2. CASE p \in DOMAIN log
  <2>1. PICK n \in DOMAIN stream :
          /\ n > i /\ stream[n].obj = x /\ stream[n].rv = p
          /\ \A m \in DOMAIN stream : i < m /\ m < n /\ stream[m].obj = x => stream[m].rv <= p
    BY <1>1, <1>2 DEF Follows
  <2>2. \A m \in DOMAIN stream' : m < n => m \in DOMAIN stream
    BY <1>1, StateTypes
  <2>3. n \in DOMAIN stream'
    BY <1>1, StateTypes
  <2> QED  BY <1>1, <2>1, <2>2, <2>3
<1>3. CASE p = Len(log) + 1
  <2> DEFINE n == Len(stream) + 1
  <2>1. n \in DOMAIN stream' /\ n > i /\ stream'[n].obj = x /\ stream'[n].rv = p
    BY <1>1, <1>3, StateTypes
  <2>2. ASSUME NEW m \in DOMAIN stream', m < n, stream'[m].obj = x
        PROVE  stream'[m].rv <= p
    <3>1. m \in DOMAIN stream /\ stream'[m] = stream[m]
      BY <1>1, <2>2, StateTypes
    <3>2. stream[m].rv \in 1 .. Len(log)
      BY <2>2, <3>1, StateTypes
    <3> QED  BY <1>3, <3>1, <3>2, StateTypes
  <2> HIDE DEF n
  <2> QED  BY <2>1, <2>2
<1> QED  BY <1>1, <1>2, <1>3, StateTypes

LEMMA ChangeReached ==
  ASSUME CacheInv, NEW o \in Objects, NEW type \in {"ADDED", "MODIFIED", "DELETED"}, Change(type, o),
         status = "open",
         NEW x \in Objects, NEW v \in Nat, NEW i \in 0 .. Len(stream),
         x # o => Reached(x, v, i), store'[x] # Absent
  PROVE  Reached(x, v, i)'
<1>1. /\ DOMAIN stream' = 1 .. Len(stream) + 1 /\ \A k \in DOMAIN stream : stream'[k] = stream[k]
      /\ stream'[Len(stream) + 1].rv = Len(log) + 1
      /\ stream'[Len(stream) + 1].obj = o
  BY StateTypes, ChangeShape
<1>2. store' = [store EXCEPT ![o] = IF type = "DELETED" THEN Absent ELSE [rv |-> Len(log) + 1, gen |-> 0]]
  BY DEF Change
<1>3. CASE x = o
  <2>1. store'[x].rv = Len(log) + 1
    BY <1>2, <1>3, StateTypes
  <2>2. Len(stream) + 1 \in DOMAIN stream' /\ Len(stream) + 1 > i
    BY <1>1, StateTypes
  <2> QED  BY <1>1, <1>3, <2>1, <2>2 DEF Reached
<1>4. CASE x # o
  <2>1. store'[x] = store[x]
    BY <1>2, <1>4, StateTypes
  <2>2. \A k \in DOMAIN stream : k \in DOMAIN stream'
    BY <1>1, StateTypes
  <2> QED  BY <1>1, <1>4, <2>1, <2>2 DEF Reached
<1> QED  BY <1>3, <1>4

LEMMA ChangeKeeps ==
  ASSUME CacheInv, NEW o \in Objects, NEW type \in {"ADDED", "MODIFIED", "DELETED"}, Change(type, o),
         UNCHANGED <<adapterVars, notifierVars, boundVars>>
  PROVE  CacheInv'
<1>1. /\ cache' = cache /\ pc' = pc /\ hand' = hand /\ ctxDone' = ctxDone
      /\ breaksLeft' = breaksLeft /\ resumesLeft' = resumesLeft /\ disturbancesLeft' = disturbancesLeft
      /\ heard' = heard /\ disturbed' = disturbed /\ superseded' = superseded /\ drained' = drained
      /\ status' = status /\ bookmark' = bookmark
  BY DEF adapterVars, notifierVars, boundVars, Change
<1>2. \A x \in Objects : Had(x) \subseteq Had(x)'
  BY ChangeHad
<1>3. ClusterOK' /\ StreamOK'
  BY ChangeKeepsCluster, ChangeKeepsStream
<1>4. PhaseOK'
  <2>1. status = "none" => stream' = stream
    BY ChangeShape
  <2> QED  BY <1>1, <1>2, <2>1 DEF CacheInv, PhaseOK
<1>5. TypeOK'
  <2>1. \A x \in Objects : cache[x] \in ({0} \cup Had(x)') \ TooLarge
    BY <1>2 DEF CacheInv, TypeOK
  <2> QED  BY <1>1, <2>1 DEF CacheInv, TypeOK
<1>6. ASSUME status = "open", NEW x \in Objects, x \notin disturbed, breaksLeft = MaxBreaks
      PROVE  Unbroken(x)'
  <2>1. Unbroken(x)
    BY <1>6 DEF CacheInv, DeliveryOK
  <2>2. cache'[x] # 0 => Follows(x, cache[x], 0)'
    BY <1>1, <1>6, <2>1, StateTypes, ChangeFollows DEF Unbroken
  <2>3. Held(x)' => Follows(x, hand.rv, 0)'
    <3>1. Held(x) => hand.rv \in Nat
      BY DEF Held, CacheInv, PhaseOK, Event
    <3> QED  BY <1>1, <1>6, <2>1, <3>1, StateTypes, ChangeFollows DEF Unbroken, Held
  <2>4. ASSUME NEW i \in DOMAIN stream', stream'[i].obj = x
        PROVE  /\ Follows(x, stream[i].rv, i)'
               /\ stream'[i].type = "ADDED" =>
                    \/ log'[stream'[i].rv].type = "ADDED"
                    \/ cache'[x] = 0 /\ ~Held(x)' /\ \A j \in DOMAIN stream' : j < i => stream'[j].obj # x
    <3>0. /\ DOMAIN log' = 1 .. Len(log) + 1 /\ \A k \in DOMAIN log : log'[k] = log[k]
          /\ DOMAIN stream' = 1 .. Len(stream) + 1 /\ \A k \in DOMAIN stream : stream'[k] = stream[k]
          /\ stream'[Len(stream) + 1].rv = Len(log) + 1
          /\ stream'[Len(stream) + 1] = log'[Len(log) + 1]
      BY <1>6, StateTypes, ChangeShape
    <3>1. CASE i \in DOMAIN stream
      <4>1. stream'[i] = stream[i] /\ \A j \in DOMAIN stream' : j < i => j \in DOMAIN stream
        BY <3>0, <3>1, StateTypes
      <4>2. stream[i].rv \in Nat /\ i \in 0 .. Len(stream) /\ stream[i].rv \in DOMAIN log
        BY <2>4, <3>1, <4>1, StateTypes
      <4>3. Follows(x, stream[i].rv, i)
        BY <2>1, <2>4, <3>1, <4>1 DEF Unbroken
      <4>4. Follows(x, stream[i].rv, i)'
        <5>1. PICK rv \in Nat : rv = stream[i].rv
          BY <4>2
        <5>2. Follows(x, rv, i)'
          BY <1>6, <4>2, <4>3, <5>1, ChangeFollows
        <5> QED  BY <4>1, <5>1, <5>2 DEF Follows
      <4>5. stream'[i].type = "ADDED" =>
              \/ log[stream[i].rv].type = "ADDED"
              \/ cache[x] = 0 /\ ~Held(x) /\ \A j \in DOMAIN stream : j < i => stream[j].obj # x
        BY <2>1, <2>4, <3>1, <4>1 DEF Unbroken
      <4> QED  BY <1>1, <3>0, <4>1, <4>2, <4>4, <4>5 DEF Held
    <3>2. CASE i = Len(stream) + 1
      <4>1. \A p \in DOMAIN log' : ~(p > stream'[i].rv)
        BY <3>0, <3>2, StateTypes
      <4>2. log'[stream'[i].rv] = stream'[i]
        BY <3>0, <3>2
      <4> QED  BY <4>1, <4>2 DEF Follows
    <3> QED  BY <3>0, <3>1, <3>2, StateTypes
  <2> QED  BY <1>1, <2>2, <2>3, <2>4 DEF Unbroken
<1>7. ASSUME status = "open", NEW x \in Objects, x \notin disturbed, breaksLeft # MaxBreaks
      PROVE  Broken(x)'
  <2> SUFFICES ASSUME store'[x] # Absent, store'[x].rv \notin TooLarge
               PROVE  /\ cache'[x] # 0 => Reached(x, cache[x], 0)'
                      /\ Held(x)' => Reached(x, hand.rv, 0)'
                      /\ \A i \in DOMAIN stream' : stream'[i].obj = x => Reached(x, stream[i].rv, i)'
    BY DEF Broken
  <2>1. x # o => Broken(x) /\ store[x] # Absent /\ store[x].rv \notin TooLarge
    BY <1>7, StateTypes DEF CacheInv, DeliveryOK, Change
  <2>2. cache'[x] # 0 => Reached(x, cache[x], 0)'
    BY <1>1, <1>7, <2>1, StateTypes, ChangeReached DEF Broken
  <2>3. Held(x)' => Reached(x, hand.rv, 0)'
    <3>1. Held(x) => hand.rv \in Nat
      BY DEF Held, CacheInv, PhaseOK, Event
    <3> QED  BY <1>1, <1>7, <2>1, <3>1, StateTypes, ChangeReached DEF Broken, Held
  <2>4. ASSUME NEW i \in DOMAIN stream', stream'[i].obj = x
        PROVE  Reached(x, stream[i].rv, i)'
    <3>0. /\ DOMAIN stream' = 1 .. Len(stream) + 1 /\ \A k \in DOMAIN stream : stream'[k] = stream[k]
          /\ stream'[Len(stream) + 1].rv = Len(log) + 1 /\ stream'[Len(stream) + 1].obj = o
      <4>1. DOMAIN stream = 1 .. Len(stream)
        BY StateTypes
      <4>2. /\ DOMAIN stream' = 1 .. Len(stream) + 1 /\ \A k \in 1 .. Len(stream) : stream'[k] = stream[k]
            /\ stream'[Len(stream) + 1] = log'[Len(log) + 1]
            /\ log'[Len(log) + 1].rv = Len(log) + 1 /\ log'[Len(log) + 1].obj = o
        BY <1>7, ChangeShape
      <4> QED  BY <4>1, <4>2
    <3>1. CASE i \in DOMAIN stream
      <4>1. PICK rv \in Nat : rv = stream[i].rv
        BY <3>1, StateTypes
      <4>2. i \in 0 .. Len(stream) /\ stream'[i].rv = rv
        BY <3>0, <3>1, <4>1, StateTypes
      <4>3. x # o => Reached(x, rv, i)
        BY <2>1, <2>4, <3>0, <3>1, <4>1 DEF Broken
      <4>4. Reached(x, rv, i)'
        BY <1>7, <4>2, <4>3, ChangeReached
      <4> QED  BY <4>2, <4>4 DEF Reached
    <3>2. CASE i = Len(stream) + 1
      <4>1. store'[x].rv = stream'[i].rv
        BY <2>4, <3>0, <3>2, StateTypes DEF Change, Absent
      <4> QED  BY <4>1 DEF Reached
    <3> QED  BY <3>0, <3>1, <3>2, StateTypes
  <2> QED  BY <2>2, <2>3, <2>4
<1>8. DeliveryOK'
  BY <1>1, <1>6, <1>7 DEF CacheInv, DeliveryOK, HeardOK, Held
<1> QED  BY <1>3, <1>4, <1>5, <1>8 DEF CacheInv

(***************************************************************************)
(* Steps that leave the stream and the cache alone.                        *)
(***************************************************************************)
LEMMA QuietKeeps ==
  ASSUME CacheInv, UNCHANGED <<streamVars, cache, hand, notifierVars, boundVars>>,
         ctxDone' \in BOOLEAN, pc' \in Pcs,
         pc' = "set" <=> pc = "set",
         status = "none" <=> pc' \in {"start", "disabled", "failed"},
         pc' = "sleep" => status = "closed"
  PROVE  CacheInv'
<1>1. ClusterOK' /\ StreamOK'
  BY DEF CacheInv, ClusterOK, LogOK, StoreOK, AddedOK, StreamOK, EventOK, Had, streamVars
<1>2. PhaseOK' /\ TypeOK'
  BY DEF CacheInv, PhaseOK, TypeOK, Had, streamVars, notifierVars, boundVars, NoEvent
<1>3. DeliveryOK'
  BY DEF CacheInv, DeliveryOK, HeardOK, Unbroken, Broken, Follows, Reached, Held, streamVars,
         notifierVars, boundVars
<1> QED  BY <1>1, <1>2, <1>3 DEF CacheInv

(***************************************************************************)
(* Steps that only take entries away, or put one that the stream follows.  *)
(***************************************************************************)
LEMMA EntryKeeps ==
  ASSUME CacheInv, UNCHANGED <<streamVars, ctxDone, notifierVars, boundVars>>, cache' \in [Objects -> Nat],
         \/ pc' = pc /\ hand' = hand
         \/ pc = "set" /\ pc' = "loop" /\ hand' = NoEvent,
         \A o \in Objects : cache'[o] \in {0, cache[o]} \/ (Held(o) /\ ~Held(o)' /\ cache'[o] = hand.rv),
         \A o \in Objects : cache'[o] \notin TooLarge
  PROVE  CacheInv'
<1>1. ClusterOK' /\ StreamOK'
  BY DEF CacheInv, ClusterOK, LogOK, StoreOK, AddedOK, StreamOK, EventOK, Had, streamVars
<1>2. /\ log' = log /\ store' = store /\ stream' = stream /\ status' = status
      /\ breaksLeft' = breaksLeft /\ resumesLeft' = resumesLeft /\ disturbancesLeft' = disturbancesLeft
      /\ heard' = heard /\ disturbed' = disturbed /\ superseded' = superseded /\ drained' = drained
      /\ \A o \in Objects : Had(o)' = Had(o)
  BY DEF streamVars, notifierVars, boundVars, Had
<1>3. \A o \in Objects : Held(o) => hand.rv \in Had(o) /\ cache[o] = 0
  BY DEF CacheInv, PhaseOK, Held
<1>4. PhaseOK'
  BY <1>2, <1>3 DEF CacheInv, PhaseOK, Held, streamVars
<1>5. \A o \in Objects : cache'[o] \in {0} \cup Had(o)
  BY <1>3 DEF CacheInv, TypeOK
<1>6. TypeOK'
  BY <1>2, <1>5 DEF CacheInv, TypeOK, Pcs
<1>7. ASSUME status = "open", breaksLeft = MaxBreaks, NEW o \in Objects, o \notin disturbed
      PROVE  Unbroken(o)'
  <2>1. Unbroken(o)
    BY <1>7 DEF CacheInv, DeliveryOK
  <2>2. cache'[o] # 0 => Follows(o, cache'[o], 0)
    BY <2>1 DEF Unbroken
  <2>3. Held(o)' => Held(o) /\ hand' = hand
    BY DEF Held
  <2>4. cache[o] = 0 /\ ~Held(o) => cache'[o] = 0 /\ ~Held(o)'
    BY <2>3
  <2> QED  BY <1>2, <2>1, <2>2, <2>3, <2>4 DEF Unbroken, Follows
<1>8. ASSUME status = "open", breaksLeft # MaxBreaks, NEW o \in Objects, o \notin disturbed
      PROVE  Broken(o)'
  <2> SUFFICES ASSUME store[o] # Absent, store[o].rv \notin TooLarge
               PROVE  /\ cache'[o] # 0 => Reached(o, cache'[o], 0)
                      /\ Held(o)' => Reached(o, hand'.rv, 0)
                      /\ \A i \in DOMAIN stream : stream[i].obj = o => Reached(o, stream[i].rv, i)
    BY <1>2 DEF Broken, Reached
  <2>1. Broken(o)
    BY <1>8 DEF CacheInv, DeliveryOK
  <2>2. cache'[o] # 0 => Reached(o, cache'[o], 0)
    BY <2>1 DEF Broken
  <2>3. Held(o)' => Held(o) /\ hand' = hand
    BY DEF Held
  <2> QED  BY <2>1, <2>2, <2>3 DEF Broken
<1>9. ASSUME status = "open", NEW o \in Objects, o \notin disturbed  PROVE HeardOK(o)'
  <2>1. HeardOK(o)
    BY <1>9 DEF CacheInv, DeliveryOK
  <2>2. Held(o)' => Held(o) /\ hand' = hand
    BY DEF Held
  <2>3. heard[o] \in Nat /\ cache[o] \in Nat
    BY StateTypes
  <2> QED  BY <1>2, <2>1, <2>2, <2>3 DEF HeardOK
<1>10. DeliveryOK'
  BY <1>2, <1>7, <1>8, <1>9 DEF DeliveryOK
<1> QED  BY <1>1, <1>4, <1>6, <1>10 DEF CacheInv

LEMMA EvictKeeps ==
  ASSUME CacheInv, NEW o \in Objects, Evict(o)  PROVE  CacheInv'
<1>1. cache' = [cache EXCEPT ![o] = 0]
  BY DEF Evict, Deleted
<1>2. cache' \in [Objects -> Nat] /\ \A x \in Objects : cache'[x] \in {0, cache[x]}
  BY <1>1, StateTypes
<1>3. \A x \in Objects : cache'[x] \notin TooLarge
  BY <1>2, CacheAdapterAssumption DEF CacheInv, TypeOK
<1>4. UNCHANGED <<streamVars, ctxDone, notifierVars, boundVars>> /\ pc' = pc /\ hand' = hand
  BY DEF Evict
<1>5. \A x \in Objects : cache'[x] \in {0, cache[x]} \/ (Held(x) /\ ~Held(x)' /\ cache'[x] = hand.rv)
  BY <1>2
<1> QED  BY <1>2, <1>3, <1>4, <1>5, EntryKeeps, Zenon

LEMMA SetModifiedKeeps ==
  ASSUME CacheInv, SetModified  PROVE  CacheInv'
<1>1. /\ hand.obj \in Objects /\ hand.rv \in Had(hand.obj) /\ cache[hand.obj] = 0 /\ pc = "set"
      /\ pc' = "loop" /\ hand' = NoEvent /\ hand.rv \in Nat
  BY DEF CacheInv, PhaseOK, SetModified, Event
<1>2. \/ cache' = cache
      \/ hand.rv \notin TooLarge /\ cache' = [cache EXCEPT ![hand.obj] = hand.rv]
  BY DEF SetModified, Set
<1>3. /\ cache' \in [Objects -> Nat]
      /\ \A o \in Objects : cache'[o] \in {0, cache[o]} \/ (Held(o) /\ cache'[o] = hand.rv)
  BY <1>1, <1>2, StateTypes DEF Held
<1>4. \A o \in Objects : cache[o] \notin TooLarge
  BY DEF CacheInv, TypeOK
<1>5. \A o \in Objects : cache'[o] \notin TooLarge
  BY <1>1, <1>2, <1>4, StateTypes
<1>6. \A o \in Objects : ~Held(o)'
  BY <1>1 DEF Held
<1>7. UNCHANGED <<streamVars, ctxDone, notifierVars, boundVars>>
  BY DEF SetModified
<1>8. \A o \in Objects : cache'[o] \in {0, cache[o]} \/ (Held(o) /\ ~Held(o)' /\ cache'[o] = hand.rv)
  BY <1>3, <1>6
<1> QED  BY <1>1, <1>3, <1>5, <1>7, <1>8, EntryKeeps, Zenon

(***************************************************************************)
(* The adapter takes an event.                                             *)
(***************************************************************************)
LEMMA TakeShape ==
  ASSUME CacheInv, Receive
  PROVE  /\ 1 \in DOMAIN stream /\ stream[1] = Head(stream)
         /\ stream' \in Seq(Event) /\ DOMAIN stream' = 1 .. Len(stream) - 1
         /\ \A i \in DOMAIN stream' : i + 1 \in DOMAIN stream /\ stream'[i] = stream[i + 1]
         /\ \A i \in DOMAIN stream : i > 1 => i - 1 \in DOMAIN stream' /\ stream'[i - 1] = stream[i]
         /\ bookmark' = IF stream[1].type = "BOOKMARK" THEN stream[1].rv ELSE bookmark
         /\ UNCHANGED <<store, log, status>>
<1>1. stream \in Seq(Event) /\ stream # <<>> /\ stream' = Tail(stream) /\ DOMAIN stream = 1 .. Len(stream)
  BY StateTypes DEF Receive
<1>2. /\ stream' \in Seq(Event) /\ Len(stream') = Len(stream) - 1 /\ Len(stream) \in Nat \ {0}
      /\ \A i \in 1 .. Len(stream') : stream'[i] = stream[i + 1]
      /\ Head(stream) = stream[1]
  BY <1>1, HeadTailProperties, EmptySeq
<1>3. DOMAIN stream' = 1 .. Len(stream) - 1
  BY <1>2
<1>4. bookmark' = IF stream[1].type = "BOOKMARK" THEN stream[1].rv ELSE bookmark
  BY <1>1, <1>2 DEF Receive, LastBookmark
<1> QED  BY <1>1, <1>2, <1>3, <1>4 DEF Receive

LEMMA TakeKeepsStream ==
  ASSUME CacheInv, Receive  PROVE  StreamOK'
<1>1. bookmark' \in 0 .. Len(log')
  <2>1. stream[1].type = "BOOKMARK" => stream[1].rv \in Nat /\ stream[1].rv <= Len(log)
    BY TakeShape, StateTypes DEF CacheInv, StreamOK, EventOK
  <2> QED  BY <2>1, TakeShape, StateTypes
<1>2. ASSUME NEW i \in DOMAIN stream'  PROVE EventOK(i)'
  <2>1. EventOK(i + 1) /\ stream'[i] = stream[i + 1]
    BY TakeShape DEF CacheInv, StreamOK
  <2>2. stream[i + 1].type # "BOOKMARK" => stream[i + 1].rv > bookmark'
    <3>1. 1 \in DOMAIN stream /\ 1 < i + 1
      BY TakeShape, StateTypes
    <3> QED  BY <2>1, <3>1, TakeShape DEF EventOK
  <2>3. \A j \in DOMAIN stream' : j < i => j + 1 \in DOMAIN stream /\ j + 1 < i + 1 /\ stream'[j] = stream[j + 1]
    BY TakeShape, StateTypes
  <2> QED  BY <2>1, <2>2, <2>3, TakeShape DEF EventOK
<1> QED  BY <1>1, <1>2, TakeShape DEF StreamOK, CacheInv

LEMMA TakeFollows ==
  ASSUME CacheInv, Receive, NEW x \in Objects, NEW v \in Nat, NEW i \in 0 .. Len(stream), Follows(x, v, i),
         i = 0 => stream[1].obj # x \/ stream[1].rv <= v
  PROVE  Follows(x, v, IF i = 0 THEN 0 ELSE i - 1)'
<1> DEFINE k == IF i = 0 THEN 0 ELSE i - 1
<1> SUFFICES ASSUME NEW p \in DOMAIN log, log[p].obj = x, p > v
             PROVE  \E n \in DOMAIN stream' :
                      /\ n > k /\ stream'[n].obj = x /\ stream'[n].rv = p
                      /\ \A m \in DOMAIN stream' :
                           k < m /\ m < n /\ stream'[m].obj = x => stream'[m].rv <= p
  BY TakeShape DEF Follows
<1>1. PICK n \in DOMAIN stream :
        /\ n > i /\ stream[n].obj = x /\ stream[n].rv = p
        /\ \A m \in DOMAIN stream : i < m /\ m < n /\ stream[m].obj = x => stream[m].rv <= p
  BY DEF Follows
<1>2. n > 1
  BY <1>1, StateTypes
<1>3. n - 1 \in DOMAIN stream' /\ stream'[n - 1] = stream[n] /\ n - 1 > k
  BY <1>1, <1>2, TakeShape, StateTypes
<1>4. ASSUME NEW m \in DOMAIN stream', k < m, m < n - 1, stream'[m].obj = x
      PROVE  stream'[m].rv <= p
  <2>1. m + 1 \in DOMAIN stream /\ i < m + 1 /\ m + 1 < n /\ stream'[m] = stream[m + 1]
    BY <1>4, TakeShape, StateTypes
  <2> QED  BY <1>1, <1>4, <2>1
<1> QED  BY <1>1, <1>3, <1>4

LEMMA TakeReached ==
  ASSUME CacheInv, Receive, NEW x \in Objects, NEW v \in Nat, NEW i \in 0 .. Len(stream), Reached(x, v, i),
         i = 0 => stream[1].obj # x \/ stream[1].rv # store[x].rv
  PROVE  Reached(x, v, IF i = 0 THEN 0 ELSE i - 1)'
<1>1. CASE v = store[x].rv
  BY <1>1, TakeShape DEF Reached
<1>2. CASE v # store[x].rv
  <2>1. PICK n \in DOMAIN stream : n > i /\ stream[n].obj = x /\ stream[n].rv = store[x].rv
    BY <1>2 DEF Reached
  <2>2. n > 1
    BY <2>1, StateTypes
  <2>3. n - 1 \in DOMAIN stream' /\ stream'[n - 1] = stream[n] /\ n - 1 > IF i = 0 THEN 0 ELSE i - 1
    BY <2>1, <2>2, TakeShape, StateTypes
  <2> QED  BY <2>1, <2>3, TakeShape DEF Reached
<1> QED  BY <1>1, <1>2

\* What OnWatchEvent makes of the entry of an object.
LEMMA EventEntry ==
  ASSUME CacheInv, pc = "loop", NEW e, e.obj \in Objects, e.rv \in Nat, OnWatchEvent(e)
  PROVE  /\ cache' \in [Objects -> Nat] /\ pc' \in {"loop", "set"}
         /\ pc' = "loop" => hand' = hand
         /\ pc' = "set" => hand' = e /\ e.type = "MODIFIED" /\ cache'[e.obj] = 0
         /\ \A x \in Objects :
              \/ ~Held(x)' /\ cache'[x] \in {0, cache[x]}
                   /\ (e.obj = x => \/ cache'[x] = 0
                                    \/ e.type = "ADDED" /\ e.rv \in TooLarge)
              \/ ~Held(x)' /\ e.obj = x /\ e.type = "ADDED" /\ cache'[x] = e.rv /\ e.rv \notin TooLarge
              \/ Held(x)' /\ e.obj = x /\ hand' = e /\ cache'[x] = 0
<1>1. cache \in [Objects -> Nat]
  BY StateTypes
<1>2. CASE e.type = "ADDED" /\ e.rv \in TooLarge
  <2>1. pc' = "loop" /\ hand' = hand /\ cache' = cache
    BY <1>2 DEF OnWatchEvent, Set
  <2> QED  BY <1>1, <1>2, <2>1 DEF Held
<1>3. CASE e.type = "ADDED" /\ e.rv \notin TooLarge
  <2>1. pc' = "loop" /\ hand' = hand
    BY <1>3 DEF OnWatchEvent
  <2>2. \/ cache' = [cache EXCEPT ![e.obj] = e.rv]
        \/ cache[e.obj] = 0 /\ cache' = cache
    BY <1>3 DEF OnWatchEvent, Set
  <2> QED  BY <1>1, <1>3, <2>1, <2>2 DEF Held
<1>4. CASE e.type = "MODIFIED"
  <2>1. pc' = "set" /\ hand' = e /\ cache' = [cache EXCEPT ![e.obj] = 0]
    BY <1>4 DEF OnWatchEvent, Deleted
  <2> QED  BY <1>1, <1>4, <2>1 DEF Held
<1>5. CASE e.type = "DELETED"
  <2>1. pc' = "loop" /\ hand' = hand /\ cache' = [cache EXCEPT ![e.obj] = 0]
    BY <1>5 DEF OnWatchEvent, Deleted
  <2> QED  BY <1>1, <1>5, <2>1 DEF Held
<1>6. e.type \in {"ADDED", "MODIFIED", "DELETED"}
  BY DEF OnWatchEvent
<1> QED  BY <1>2, <1>3, <1>4, <1>5, <1>6

\* It leaves the state as it should be, if its event is of a version that was.
LEMMA EventKeepsTypes ==
  ASSUME CacheInv, pc = "loop", NEW e \in Event, e.obj \in Objects, OnWatchEvent(e),
         e.type # "DELETED" => e.rv \in Had(e.obj),
         UNCHANGED <<log, status, ctxDone, superseded, breaksLeft, resumesLeft>>,
         heard' \in [Objects -> Nat], disturbed' \subseteq Objects, drained' \in BOOLEAN,
         disturbancesLeft' \in 0 .. MaxDisturbances
  PROVE  PhaseOK' /\ TypeOK'
<1>1. \A o \in Objects : Had(o)' = Had(o)
  BY DEF Had
<1>2. e.rv \in Nat
  BY DEF Event
<1>3. /\ cache' \in [Objects -> Nat] /\ pc' \in {"loop", "set"}
      /\ pc' = "loop" => hand' = hand
      /\ pc' = "set" => hand' = e /\ e.type = "MODIFIED" /\ cache'[e.obj] = 0
      /\ \A x \in Objects :
           \/ cache'[x] \in {0, cache[x]}
           \/ e.obj = x /\ e.type = "ADDED" /\ cache'[x] = e.rv /\ e.rv \notin TooLarge
  BY <1>2, EventEntry
<1>4. PhaseOK'
  BY <1>1, <1>3 DEF CacheInv, PhaseOK
<1>5. \A x \in Objects : cache[x] \in ({0} \cup Had(x)) \ TooLarge
  BY DEF CacheInv, TypeOK
<1>6. \A x \in Objects : cache'[x] \in ({0} \cup Had(x)) \ TooLarge
  <2>1. 0 \notin TooLarge
    BY CacheAdapterAssumption
  <2> QED  BY <1>3, <1>5, <2>1
<1>7. hand' = NoEvent <=> pc' # "set"
  <2>1. hand = NoEvent
    BY DEF CacheInv, TypeOK
  <2>2. e # NoEvent
    BY StateTypes DEF NoEvent, Bookmark
  <2> QED  BY <1>3, <2>1, <2>2
<1>8. TypeOK'
  BY <1>1, <1>3, <1>6, <1>7 DEF CacheInv, TypeOK, Pcs
<1> QED  BY <1>4, <1>8

\* The version of the first event is one that its object had.
LEMMA FirstHad ==
  ASSUME CacheInv, Receive, stream[1].type # "BOOKMARK"
  PROVE  /\ stream[1] \in Event /\ stream[1].obj \in Objects /\ stream[1].rv \in Nat
         /\ stream[1].type # "DELETED" => stream[1].rv \in Had(stream[1].obj)
<1>1. 1 \in DOMAIN stream /\ stream[1] \in Event
  BY TakeShape, StateTypes
<1>2. EventOK(1)
  BY <1>1 DEF CacheInv, StreamOK
<1> QED  BY <1>1, <1>2, StateTypes DEF EventOK, Had

LEMMA ArrivalShape ==
  ASSUME NEW e \in Event, NEW arrived \in Arrivals(e)
  PROVE  /\ arrived \in Event /\ arrived.obj = e.obj /\ arrived.rv = e.rv
         /\ arrived.type = e.type \/ (e.type = "ADDED" /\ arrived.type = "MODIFIED")
<1>1. arrived = e \/ (e.type = "ADDED" /\ \E type \in {"ADDED", "MODIFIED"} : arrived = As(e, type))
  BY DEF Arrivals
<1>2. CASE arrived = e
  BY <1>2
<1>3. CASE e.type = "ADDED" /\ \E type \in {"ADDED", "MODIFIED"} : arrived = As(e, type)
  <2>1. PICK type \in {"ADDED", "MODIFIED"} : arrived = [e EXCEPT !.type = type]
    BY <1>3 DEF As
  <2>2. arrived \in Event /\ arrived.obj = e.obj /\ arrived.rv = e.rv /\ arrived.type = type
    BY <2>1 DEF Event
  <2> QED  BY <1>3, <2>2
<1> QED  BY <1>1, <1>2, <1>3

\* What it makes of the first event of the stream.
LEMMA TakeEntry ==
  ASSUME CacheInv, TakeEvent
  PROVE  LET e == stream[1] IN
         /\ e.obj \in Objects /\ e.rv \in Nat /\ heard' = [heard EXCEPT ![e.obj] = e.rv]
         /\ cache' \in [Objects -> Nat] /\ PhaseOK' /\ TypeOK'
         /\ \A x \in Objects :
              \/ ~Held(x)' /\ cache'[x] \in {0, cache[x]}
                   /\ (e.obj = x => \/ cache'[x] = 0
                                    \/ e.type = "ADDED" /\ e.rv \in TooLarge)
              \/ ~Held(x)' /\ e.obj = x /\ cache'[x] = e.rv /\ e.rv \notin TooLarge
              \/ Held(x)' /\ e.obj = x /\ hand'.rv = e.rv /\ cache'[x] = 0
<1> DEFINE e == stream[1]
<1>1. /\ pc = "loop" /\ Receive /\ e.type # "BOOKMARK"
      /\ heard' = [heard EXCEPT ![e.obj] = e.rv]
      /\ \E arrived \in Arrivals(e) : OnWatchEvent(arrived)
      /\ UNCHANGED <<ctxDone, disturbed, superseded, drained, boundVars>>
  BY TakeShape DEF TakeEvent
<1>2. /\ e \in Event /\ e.obj \in Objects /\ e.rv \in Nat
      /\ e.type # "DELETED" => e.rv \in Had(e.obj)
  BY <1>1, FirstHad
<1>3. PICK arrived \in Arrivals(e) : OnWatchEvent(arrived)
  BY <1>1
<1> HIDE DEF e
<1>4. /\ arrived \in Event /\ arrived.obj = e.obj /\ arrived.rv = e.rv
      /\ arrived.type = e.type \/ (e.type = "ADDED" /\ arrived.type = "MODIFIED")
  BY <1>2, ArrivalShape
<1>5. PhaseOK' /\ TypeOK'
  <2>1. UNCHANGED <<log, status, ctxDone, superseded, breaksLeft, resumesLeft>>
    BY <1>1, TakeShape DEF boundVars
  <2>2. heard' \in [Objects -> Nat]
    BY <1>1, <1>2, StateTypes
  <2>3. /\ disturbed' \subseteq Objects /\ drained' \in BOOLEAN
        /\ disturbancesLeft' \in 0 .. MaxDisturbances
    BY <1>1 DEF CacheInv, TypeOK, boundVars
  <2>4. arrived.type # "DELETED" => arrived.rv \in Had(arrived.obj)
    BY <1>2, <1>4
  <2>5. arrived.obj \in Objects
    BY <1>2, <1>4
  <2> QED  BY <1>1, <1>3, <1>4, <2>1, <2>2, <2>3, <2>4, <2>5, EventKeepsTypes
<1>6. /\ cache' \in [Objects -> Nat]
      /\ \A x \in Objects :
           \/ ~Held(x)' /\ cache'[x] \in {0, cache[x]}
                /\ (e.obj = x => \/ cache'[x] = 0
                                 \/ arrived.type = "ADDED" /\ e.rv \in TooLarge)
           \/ ~Held(x)' /\ e.obj = x /\ cache'[x] = e.rv /\ e.rv \notin TooLarge
           \/ Held(x)' /\ e.obj = x /\ hand' = arrived /\ cache'[x] = 0
  BY <1>1, <1>2, <1>3, <1>4, EventEntry
<1>7. arrived.type = "ADDED" => e.type = "ADDED"
  BY <1>4
<1> QED  BY <1>1, <1>2, <1>4, <1>5, <1>6, <1>7 DEF e

\* An ADDED is not newer than an entry that is there already.
LEMMA TakeOlder ==
  ASSUME CacheInv, Receive, NEW x \in Objects, Unbroken(x), stream[1].obj = x, stream[1].type = "ADDED",
         cache[x] # 0
  PROVE  stream[1].rv <= cache[x]
<1> DEFINE e == stream[1]  v == cache[x]
<1>1. /\ 1 \in DOMAIN stream /\ e.rv \in Nat /\ v \in Nat /\ v \in Had(x)
      /\ e.rv \in DOMAIN log /\ log[e.rv].obj = x
  BY TakeShape, StateTypes
<1>2. Follows(x, v, 0) /\ log[e.rv].type = "ADDED"
  BY <1>1 DEF Unbroken
<1> HIDE DEF e, v
<1> SUFFICES ASSUME e.rv > v  PROVE FALSE
  BY <1>1 DEF e, v
<1>3. v < e.rv
  BY <1>1
<1>4. PICK p \in DOMAIN log : v < p /\ p < e.rv /\ log[p].obj = x
  BY <1>1, <1>2, <1>3 DEF CacheInv, ClusterOK, AddedOK
<1>5. p > v /\ p \in Nat
  BY <1>1, <1>4, StateTypes
<1>6. PICK n \in DOMAIN stream :
        /\ n > 0 /\ stream[n].obj = x /\ stream[n].rv = p
        /\ \A m \in DOMAIN stream : 0 < m /\ m < n /\ stream[m].obj = x => stream[m].rv <= p
  BY <1>2, <1>4, <1>5 DEF Follows
<1>7. n # 1
  BY <1>1, <1>4, <1>5, <1>6 DEF e
<1>8. e.rv <= p
  <2>1. 1 \in DOMAIN stream /\ 0 < 1 /\ 1 < n
    BY <1>1, <1>6, <1>7, StateTypes
  <2> QED  BY <1>6, <2>1 DEF e
<1> QED  BY <1>1, <1>4, <1>5, <1>8

\* What comes after the first event is followed as before.
LEMMA RestUnbroken ==
  ASSUME CacheInv, Receive, NEW x \in Objects, Unbroken(x),
         cache[x] = 0 /\ ~Held(x) /\ stream[1].obj # x => cache'[x] = 0 /\ ~Held(x)',
         NEW i \in DOMAIN stream', stream'[i].obj = x
  PROVE  /\ Follows(x, stream[i].rv, i)'
         /\ stream'[i].type = "ADDED" =>
              \/ log'[stream'[i].rv].type = "ADDED"
              \/ cache'[x] = 0 /\ ~Held(x)' /\ \A j \in DOMAIN stream' : j < i => stream'[j].obj # x
<1>1. /\ i + 1 \in DOMAIN stream /\ stream'[i] = stream[i + 1] /\ i + 1 \in 0 .. Len(stream) /\ i \in Nat
      /\ 1 < i + 1 /\ 1 \in DOMAIN stream
  BY TakeShape, StateTypes
<1>2. PICK v \in Nat : v = stream[i + 1].rv
  BY <1>1, StateTypes
<1>3. Follows(x, v, i + 1)
  BY <1>1, <1>2 DEF Unbroken
<1>4. Follows(x, v, i)'
  <2>1. (IF i + 1 = 0 THEN 0 ELSE (i + 1) - 1) = i /\ i + 1 # 0
    BY <1>1
  <2>2. Follows(x, v, IF i + 1 = 0 THEN 0 ELSE (i + 1) - 1)'
    BY <1>1, <1>3, <2>1, TakeFollows
  <2> QED  BY <2>1, <2>2 DEF Follows
<1>5. Follows(x, stream[i].rv, i)'
  BY <1>1, <1>2, <1>4 DEF Follows
<1>6. ASSUME stream'[i].type = "ADDED", log'[stream'[i].rv].type # "ADDED"
      PROVE  cache'[x] = 0 /\ ~Held(x)' /\ \A j \in DOMAIN stream' : j < i => stream'[j].obj # x
  <2>1. cache[x] = 0 /\ ~Held(x) /\ \A j \in DOMAIN stream : j < i + 1 => stream[j].obj # x
    BY <1>1, <1>6, TakeShape DEF Unbroken
  <2>2. stream[1].obj # x
    BY <1>1, <2>1
  <2>3. \A j \in DOMAIN stream' : j < i => j + 1 \in DOMAIN stream /\ j + 1 < i + 1 /\ stream'[j] = stream[j + 1]
    BY <1>1, TakeShape, StateTypes
  <2> QED  BY <2>1, <2>2, <2>3
<1> QED  BY <1>5, <1>6

LEMMA RestBroken ==
  ASSUME CacheInv, Receive, NEW x \in Objects, Broken(x), store[x] # Absent, store[x].rv \notin TooLarge,
         NEW i \in DOMAIN stream', stream'[i].obj = x
  PROVE  Reached(x, stream[i].rv, i)'
<1>1. i + 1 \in DOMAIN stream /\ stream'[i] = stream[i + 1] /\ i + 1 \in 0 .. Len(stream) /\ i \in Nat
  BY TakeShape, StateTypes
<1>2. PICK v \in Nat : v = stream[i + 1].rv
  BY <1>1, StateTypes
<1>3. Reached(x, v, i + 1)
  BY <1>1, <1>2 DEF Broken
<1>4. (IF i + 1 = 0 THEN 0 ELSE (i + 1) - 1) = i /\ i + 1 # 0
  BY <1>1
<1>5. Reached(x, v, IF i + 1 = 0 THEN 0 ELSE (i + 1) - 1)'
  BY <1>1, <1>3, <1>4, TakeReached
<1> QED  BY <1>1, <1>2, <1>4, <1>5 DEF Reached

LEMMA TakeUnbroken ==
  ASSUME CacheInv, TakeEvent, NEW x \in Objects, Unbroken(x)
  PROVE  Unbroken(x)'
<1> DEFINE e == stream[1]
<1>1. Receive /\ pc = "loop"
  BY DEF TakeEvent
<1>2. /\ 1 \in DOMAIN stream /\ 1 \in 0 .. Len(stream) /\ 0 \in 0 .. Len(stream) /\ e.rv \in Nat
      /\ DOMAIN stream = 1 .. Len(stream) /\ Len(stream) \in Nat
  BY <1>1, TakeShape, StateTypes, SMTT(20)
<1>3. cache'[x] # 0 => Follows(x, cache[x], 0)'
  <2> SUFFICES ASSUME cache'[x] # 0  PROVE Follows(x, cache[x], 0)'
    OBVIOUS
  <2>1. PICK v \in Nat : v = cache'[x]
    BY TakeEntry
  <2>2. CASE e.obj = x /\ v = e.rv
    <3>1. Follows(x, v, 1)
      BY <1>2, <2>2 DEF Unbroken
    <3>2. Follows(x, v, 0)'
      BY <1>1, <1>2, <3>1, TakeFollows
    <3> QED  BY <2>1, <3>2 DEF Follows
  <2>3. CASE v = cache[x] /\ (e.obj # x \/ e.type = "ADDED")
    <3>1. Follows(x, v, 0) /\ cache[x] # 0
      BY <2>1, <2>3 DEF Unbroken
    <3>2. e.obj # x \/ e.rv <= v
      BY <1>1, <2>3, <3>1, TakeOlder
    <3>3. Follows(x, v, 0)'
      BY <1>1, <1>2, <3>1, <3>2, TakeFollows
    <3> QED  BY <2>1, <3>3 DEF Follows
  <2> QED  BY <2>1, <2>2, <2>3, TakeEntry
<1>4. Held(x)' => Follows(x, hand.rv, 0)'
  <2> SUFFICES ASSUME Held(x)'  PROVE Follows(x, hand.rv, 0)'
    OBVIOUS
  <2>1. PICK v \in Nat : v = e.rv
    BY <1>2
  <2>2. hand'.rv = v /\ e.obj = x
    BY <2>1, TakeEntry
  <2>3. Follows(x, v, 1)
    BY <1>2, <2>1, <2>2 DEF Unbroken
  <2>4. Follows(x, v, 0)'
    BY <1>1, <1>2, <2>3, TakeFollows
  <2> QED  BY <2>2, <2>4 DEF Follows
<1>5. cache[x] = 0 /\ e.obj # x => cache'[x] = 0 /\ ~Held(x)'
  BY TakeEntry
<1>6. ASSUME NEW i \in DOMAIN stream', stream'[i].obj = x
      PROVE  /\ Follows(x, stream[i].rv, i)'
             /\ stream'[i].type = "ADDED" =>
                  \/ log'[stream'[i].rv].type = "ADDED"
                  \/ cache'[x] = 0 /\ ~Held(x)' /\ \A j \in DOMAIN stream' : j < i => stream'[j].obj # x
  BY <1>1, <1>5, <1>6, RestUnbroken
<1> QED  BY <1>3, <1>4, <1>6 DEF Unbroken

LEMMA TakeBroken ==
  ASSUME CacheInv, TakeEvent, NEW x \in Objects, Broken(x)
  PROVE  Broken(x)'
<1> DEFINE e == stream[1]
<1>1. Receive /\ UNCHANGED store
  BY TakeShape DEF TakeEvent
<1>2. /\ 1 \in DOMAIN stream /\ 1 \in 0 .. Len(stream) /\ 0 \in 0 .. Len(stream) /\ e.rv \in Nat
      /\ DOMAIN stream = 1 .. Len(stream) /\ Len(stream) \in Nat
  BY <1>1, TakeShape, StateTypes
<1> SUFFICES ASSUME store[x] # Absent, store[x].rv \notin TooLarge
             PROVE  /\ cache'[x] # 0 => Reached(x, cache[x], 0)'
                    /\ Held(x)' => Reached(x, hand.rv, 0)'
                    /\ \A i \in DOMAIN stream' : stream'[i].obj = x => Reached(x, stream[i].rv, i)'
  BY <1>1 DEF Broken
<1>3. ASSUME cache'[x] # 0  PROVE Reached(x, cache[x], 0)'
  <2>1. PICK v \in Nat : v = cache'[x]
    BY TakeEntry
  <2>2. CASE e.obj = x /\ v = e.rv
    <3>1. Reached(x, v, 1)
      BY <1>2, <2>2 DEF Broken
    <3>2. Reached(x, v, 0)'
      BY <1>1, <1>2, <3>1, TakeReached
    <3> QED  BY <2>1, <3>2 DEF Reached
  <2>3. CASE v = cache[x] /\ (e.obj # x \/ e.rv \in TooLarge)
    <3>1. Reached(x, v, 0)
      BY <1>3, <2>1, <2>3 DEF Broken
    <3>2. Reached(x, v, 0)'
      BY <1>1, <1>2, <2>3, <3>1, TakeReached
    <3> QED  BY <2>1, <3>2 DEF Reached
  <2> QED  BY <1>3, <2>1, <2>2, <2>3, TakeEntry
<1>4. ASSUME Held(x)'  PROVE Reached(x, hand.rv, 0)'
  <2>1. PICK v \in Nat : v = e.rv
    BY <1>2
  <2>2. hand'.rv = v /\ e.obj = x
    BY <1>4, <2>1, TakeEntry
  <2>3. Reached(x, v, 1)
    BY <1>2, <2>1, <2>2 DEF Broken
  <2>4. Reached(x, v, 0)'
    BY <1>1, <1>2, <2>3, TakeReached
  <2> QED  BY <2>2, <2>4 DEF Reached
<1>5. \A i \in DOMAIN stream' : stream'[i].obj = x => Reached(x, stream[i].rv, i)'
  BY <1>1, RestBroken
<1> QED  BY <1>3, <1>4, <1>5

LEMMA TakeHeard ==
  ASSUME CacheInv, TakeEvent, NEW x \in Objects, HeardOK(x), breaksLeft = MaxBreaks => Unbroken(x)
  PROVE  HeardOK(x)'
<1> DEFINE e == stream[1]
<1>1. /\ Receive /\ breaksLeft' = breaksLeft
      /\ e.obj \in Objects /\ e.rv \in Nat /\ heard' = [heard EXCEPT ![e.obj] = e.rv]
      /\ \/ ~Held(x)' /\ cache'[x] \in {0, cache[x]}
              /\ (e.obj = x => \/ cache'[x] = 0
                               \/ e.type = "ADDED" /\ e.rv \in TooLarge)
         \/ ~Held(x)' /\ e.obj = x /\ cache'[x] = e.rv /\ e.rv \notin TooLarge
         \/ Held(x)' /\ e.obj = x /\ hand'.rv = e.rv /\ cache'[x] = 0
  BY TakeEntry DEF TakeEvent, boundVars
<1>2. heard'[x] = (IF e.obj = x THEN e.rv ELSE heard[x]) /\ heard[x] \in Nat /\ cache[x] \in Nat
  BY <1>1, StateTypes
<1>3. breaksLeft = MaxBreaks /\ e.obj = x /\ e.type = "ADDED" /\ cache[x] # 0 => e.rv <= cache[x]
  BY <1>1, TakeOlder
<1> HIDE DEF e
<1> QED  BY <1>1, <1>2, <1>3 DEF HeardOK

LEMMA TakeKeeps ==
  ASSUME CacheInv, TakeEvent  PROVE  CacheInv'
<1>1. Receive /\ UNCHANGED <<store, log, status, breaksLeft, disturbed>>
  BY TakeShape DEF TakeEvent, boundVars
<1>2. ClusterOK'
  BY <1>1 DEF CacheInv, ClusterOK, LogOK, StoreOK, AddedOK, Had
<1>3. PhaseOK' /\ TypeOK'
  BY TakeEntry
<1>4. ASSUME status = "open", NEW x \in Objects, x \notin disturbed
      PROVE  HeardOK(x)' /\ IF breaksLeft = MaxBreaks THEN Unbroken(x)' ELSE Broken(x)'
  <2>1. HeardOK(x) /\ IF breaksLeft = MaxBreaks THEN Unbroken(x) ELSE Broken(x)
    BY <1>4 DEF CacheInv, DeliveryOK
  <2> QED  BY <2>1, TakeUnbroken, TakeBroken, TakeHeard
<1>5. DeliveryOK'
  BY <1>1, <1>4 DEF DeliveryOK
<1> QED  BY <1>1, <1>2, <1>3, <1>5, TakeKeepsStream DEF CacheInv

(***************************************************************************)
(* An event that does not reach the adapter: what it repeats is in the     *)
(* cache or in the adapter's hands already.                                *)
(***************************************************************************)
LEMMA PassUnbroken ==
  ASSUME CacheInv, Receive, UNCHANGED adapterVars, breaksLeft = MaxBreaks, NEW x \in Objects,
         HeardOK(x), Unbroken(x), stream[1].obj = x => heard[x] = stream[1].rv
  PROVE  Unbroken(x)'
<1>1. cache' = cache /\ pc' = pc /\ hand' = hand /\ 0 \in 0 .. Len(stream) /\ heard[x] \in Nat
  BY StateTypes DEF adapterVars
<1>2. cache'[x] # 0 => Follows(x, cache[x], 0)'
  <2>1. PICK v \in Nat : v = cache[x]
    BY StateTypes
  <2>2. v # 0 => Follows(x, v, 0) /\ (stream[1].obj # x \/ stream[1].rv <= v)
    BY <2>1 DEF Unbroken, HeardOK
  <2>3. v # 0 => Follows(x, v, 0)'
    BY <1>1, <2>2, TakeFollows
  <2> QED  BY <1>1, <2>1, <2>3 DEF Follows
<1>3. Held(x)' => Follows(x, hand.rv, 0)'
  <2> SUFFICES ASSUME Held(x)  PROVE Follows(x, hand.rv, 0)'
    BY <1>1 DEF Held
  <2>1. PICK v \in Nat : v = hand.rv
    BY DEF Held, CacheInv, PhaseOK, Event
  <2>2. Follows(x, v, 0) /\ (stream[1].obj # x \/ stream[1].rv <= v)
    BY <1>1, <2>1 DEF Unbroken, HeardOK
  <2>3. Follows(x, v, 0)'
    BY <1>1, <2>2, TakeFollows
  <2> QED  BY <1>1, <2>1, <2>3 DEF Follows
<1>4. cache[x] = 0 /\ ~Held(x) => cache'[x] = 0 /\ ~Held(x)'
  BY <1>1 DEF Held
<1>5. ASSUME NEW i \in DOMAIN stream', stream'[i].obj = x
      PROVE  /\ Follows(x, stream[i].rv, i)'
             /\ stream'[i].type = "ADDED" =>
                  \/ log'[stream'[i].rv].type = "ADDED"
                  \/ cache'[x] = 0 /\ ~Held(x)' /\ \A j \in DOMAIN stream' : j < i => stream'[j].obj # x
  BY <1>4, <1>5, RestUnbroken
<1> QED  BY <1>2, <1>3, <1>5 DEF Unbroken

LEMMA PassBroken ==
  ASSUME CacheInv, Receive, UNCHANGED adapterVars, NEW x \in Objects,
         HeardOK(x), Broken(x), stream[1].obj = x => heard[x] = stream[1].rv
  PROVE  Broken(x)'
<1>1. /\ cache' = cache /\ pc' = pc /\ hand' = hand /\ store' = store /\ 0 \in 0 .. Len(stream)
      /\ heard[x] \in Nat
  BY StateTypes, TakeShape DEF adapterVars
<1> SUFFICES ASSUME store[x] # Absent, store[x].rv \notin TooLarge
             PROVE  /\ cache'[x] # 0 => Reached(x, cache[x], 0)'
                    /\ Held(x)' => Reached(x, hand.rv, 0)'
                    /\ \A i \in DOMAIN stream' : stream'[i].obj = x => Reached(x, stream[i].rv, i)'
  BY <1>1 DEF Broken
<1>2. store[x].rv # 0
  BY StateTypes DEF CacheInv, ClusterOK, StoreOK, Had
<1>3. ASSUME NEW v \in Nat, Reached(x, v, 0), stream[1].obj = x /\ stream[1].rv = store[x].rv => v = store[x].rv
      PROVE  Reached(x, v, 0)'
  <2>1. CASE v = store[x].rv
    BY <1>1, <2>1 DEF Reached
  <2>2. CASE v # store[x].rv
    BY <1>1, <1>3, <2>2, TakeReached
  <2> QED  BY <2>1, <2>2
<1>4. cache'[x] # 0 => Reached(x, cache[x], 0)'
  <2>1. PICK v \in Nat : v = cache[x]
    BY StateTypes
  <2>2. v # 0 => Reached(x, v, 0) /\ (stream[1].obj = x /\ stream[1].rv = store[x].rv => v = store[x].rv)
    BY <1>2, <2>1 DEF Broken, HeardOK
  <2>3. v # 0 => Reached(x, v, 0)'
    BY <1>3, <2>2
  <2> QED  BY <1>1, <2>1, <2>3 DEF Reached
<1>5. Held(x)' => Reached(x, hand.rv, 0)'
  <2> SUFFICES ASSUME Held(x)  PROVE Reached(x, hand.rv, 0)'
    BY <1>1 DEF Held
  <2>1. PICK v \in Nat : v = hand.rv
    BY DEF Held, CacheInv, PhaseOK, Event
  <2>2. Reached(x, v, 0) /\ (stream[1].obj = x /\ stream[1].rv = store[x].rv => v = store[x].rv)
    BY <2>1 DEF Broken, HeardOK
  <2>3. Reached(x, v, 0)'
    BY <1>3, <2>2
  <2> QED  BY <1>1, <2>1, <2>3 DEF Reached
<1>6. \A i \in DOMAIN stream' : stream'[i].obj = x => Reached(x, stream[i].rv, i)'
  BY RestBroken
<1> QED  BY <1>4, <1>5, <1>6

LEMMA PassKeeps ==
  ASSUME CacheInv, Receive, UNCHANGED <<adapterVars, superseded, breaksLeft, resumesLeft>>,
         heard' \in [Objects -> Nat], disturbed \subseteq disturbed', disturbed' \subseteq Objects,
         drained' \in BOOLEAN, disturbancesLeft' \in 0 .. MaxDisturbances,
         \A x \in Objects \ disturbed' :
           heard'[x] = heard[x] /\ (stream[1].obj = x => heard[x] = stream[1].rv)
  PROVE  CacheInv'
<1>1. /\ UNCHANGED <<store, log, status, cache, pc, hand, ctxDone>>
      /\ \A o \in Objects : Had(o)' = Had(o)
  BY TakeShape DEF adapterVars, Had
<1>2. ClusterOK'
  BY <1>1 DEF CacheInv, ClusterOK, LogOK, StoreOK, AddedOK
<1>3. status # "none"
  BY EmptySeq DEF CacheInv, PhaseOK, Receive
<1>4. PhaseOK' /\ TypeOK'
  BY <1>1, <1>3 DEF CacheInv, PhaseOK, TypeOK, NoEvent
<1>5. ASSUME status = "open", NEW x \in Objects, x \notin disturbed'
      PROVE  HeardOK(x)' /\ IF breaksLeft = MaxBreaks THEN Unbroken(x)' ELSE Broken(x)'
  <2>1. HeardOK(x) /\ IF breaksLeft = MaxBreaks THEN Unbroken(x) ELSE Broken(x)
    BY <1>5 DEF CacheInv, DeliveryOK
  <2>2. HeardOK(x)'
    BY <1>1, <1>5, <2>1 DEF HeardOK, Held
  <2> QED  BY <1>5, <2>1, <2>2, PassUnbroken, PassBroken
<1>6. DeliveryOK'
  BY <1>1, <1>5 DEF DeliveryOK
<1> QED  BY <1>2, <1>4, <1>6, TakeKeepsStream DEF CacheInv

LEMMA SkipKeeps ==
  ASSUME CacheInv, SkipEvent  PROVE  CacheInv'
<1>1. /\ Receive /\ UNCHANGED <<adapterVars, superseded, breaksLeft, resumesLeft>>
      /\ heard' = heard /\ disturbed' = disturbed /\ disturbancesLeft' = disturbancesLeft
      /\ stream[1].type # "BOOKMARK" => heard[stream[1].obj] = stream[1].rv \/ stream[1].obj \in disturbed
      /\ drained' = (drained \/ stream[1].type = "BOOKMARK")
  BY TakeShape DEF SkipEvent, boundVars
<1>2. \A x \in Objects : stream[1].obj = x => stream[1].type # "BOOKMARK"
  BY <1>1, TakeShape, StateTypes
<1>3. /\ heard' \in [Objects -> Nat] /\ disturbed' \subseteq Objects /\ drained' \in BOOLEAN
      /\ disturbancesLeft' \in 0 .. MaxDisturbances
  BY <1>1 DEF CacheInv, TypeOK
<1>4. \A x \in Objects \ disturbed' :
        heard'[x] = heard[x] /\ (stream[1].obj = x => heard[x] = stream[1].rv)
  BY <1>1, <1>2
<1> QED  BY <1>1, <1>3, <1>4, PassKeeps

LEMMA LoseKeeps ==
  ASSUME CacheInv, LoseEvent  PROVE  CacheInv'
<1>1. /\ Receive /\ UNCHANGED <<adapterVars, superseded, drained, breaksLeft, resumesLeft>>
      /\ stream[1].type # "BOOKMARK" /\ heard' = [heard EXCEPT ![stream[1].obj] = stream[1].rv]
      /\ disturbed' = disturbed \cup {stream[1].obj}
      /\ disturbancesLeft > 0 /\ disturbancesLeft' = disturbancesLeft - 1
  BY TakeShape DEF LoseEvent
<1>2. stream[1].obj \in Objects /\ stream[1].rv \in Nat
  BY <1>1, FirstHad
<1>3. /\ heard' \in [Objects -> Nat] /\ disturbed' \subseteq Objects /\ drained' \in BOOLEAN
      /\ disturbancesLeft' \in 0 .. MaxDisturbances /\ disturbed \subseteq disturbed'
  BY <1>1, <1>2, StateTypes, CacheAdapterAssumption DEF CacheInv, TypeOK
<1>4. \A x \in Objects \ disturbed' :
        heard'[x] = heard[x] /\ (stream[1].obj = x => heard[x] = stream[1].rv)
  BY <1>1, StateTypes
<1> QED  BY <1>1, <1>3, <1>4, PassKeeps

(***************************************************************************)
(* An event that comes late: it only changes the entry of its own object.  *)
(***************************************************************************)
LEMMA LateKeeps ==
  ASSUME CacheInv, LateEvent  PROVE  CacheInv'
<1>1. PICK i \in DOMAIN log, type \in {"ADDED", "MODIFIED", "DELETED"} :
        /\ type = "DELETED" <=> log[i].type = "DELETED"
        /\ OnWatchEvent(As(log[i], type))
        /\ heard' = [heard EXCEPT ![log[i].obj] = log[i].rv]
        /\ disturbed' = disturbed \cup {log[i].obj}
  BY DEF LateEvent
<1> DEFINE e == As(log[i], type)
<1>2. /\ pc = "loop" /\ UNCHANGED <<streamVars, ctxDone, superseded, drained, breaksLeft, resumesLeft>>
      /\ disturbancesLeft > 0 /\ disturbancesLeft' = disturbancesLeft - 1
  BY DEF LateEvent
<1>3. log[i] \in Event /\ log[i].rv = i /\ log[i].obj \in Objects /\ i \in Nat
  BY StateTypes DEF CacheInv, ClusterOK, LogOK
<1>4. e \in Event /\ e.obj = log[i].obj /\ e.rv = i /\ e.type = type /\ OnWatchEvent(e)
  BY <1>1, <1>3 DEF As, Event
<1> HIDE DEF e
<1>5. e.type # "DELETED" => e.rv \in Had(e.obj)
  BY <1>1, <1>4 DEF Had
<1>6. /\ UNCHANGED <<store, log, stream, bookmark, status>> /\ \A o \in Objects : Had(o)' = Had(o)
  BY <1>2 DEF streamVars, Had
<1>7. ClusterOK' /\ StreamOK'
  BY <1>6 DEF CacheInv, ClusterOK, LogOK, StoreOK, AddedOK, StreamOK, EventOK, Had
<1>8. PhaseOK' /\ TypeOK'
  <2>1. /\ heard' \in [Objects -> Nat] /\ disturbed' \subseteq Objects
    BY <1>1, <1>3, StateTypes
  <2>2. drained' \in BOOLEAN /\ disturbancesLeft' \in 0 .. MaxDisturbances
    BY <1>2, CacheAdapterAssumption DEF CacheInv, TypeOK
  <2>3. e.obj \in Objects
    BY <1>3, <1>4
  <2>4. UNCHANGED <<log, status, ctxDone, superseded, breaksLeft, resumesLeft>>
    BY <1>2, <1>6
  <2> QED  BY <1>2, <1>4, <1>5, <2>1, <2>2, <2>3, <2>4, EventKeepsTypes
<1>9. ASSUME status = "open", NEW x \in Objects, x \notin disturbed'
      PROVE  HeardOK(x)' /\ IF breaksLeft = MaxBreaks THEN Unbroken(x)' ELSE Broken(x)'
  <2>1. HeardOK(x) /\ IF breaksLeft = MaxBreaks THEN Unbroken(x) ELSE Broken(x)
    BY <1>1, <1>9 DEF CacheInv, DeliveryOK
  <2>2. x # e.obj /\ heard'[x] = heard[x]
    BY <1>1, <1>4, <1>9, StateTypes
  <2>3. ~Held(x)' /\ ~Held(x) /\ cache'[x] \in {0, cache[x]}
    BY <1>2, <1>3, <1>4, <2>2, EventEntry DEF Held
  <2>4. HeardOK(x)'
    BY <1>2, <2>1, <2>2, <2>3 DEF HeardOK
  <2>5. Unbroken(x) => Unbroken(x)'
    BY <1>6, <2>3 DEF Unbroken, Follows
  <2>6. Broken(x) => Broken(x)'
    BY <1>6, <2>3 DEF Broken, Reached
  <2> QED  BY <2>1, <2>4, <2>5, <2>6
<1>10. DeliveryOK'
  BY <1>2, <1>6, <1>9 DEF DeliveryOK
<1> QED  BY <1>7, <1>8, <1>10 DEF CacheInv

(***************************************************************************)
(* Steps of the connection.                                                *)
(***************************************************************************)
NotifierTypes ==
  /\ heard' \in [Objects -> Nat] /\ disturbed' \subseteq Objects
  /\ superseded' \in BOOLEAN /\ drained' \in BOOLEAN
  /\ disturbancesLeft' \in 0 .. MaxDisturbances

LEMMA StreamKeeps ==
  ASSUME CacheInv, UNCHANGED <<store, log, cache, hand, ctxDone>>, StreamOK', DeliveryOK',
         pc' = pc \/ (pc \in {"start", "sleep"} /\ pc' = "loop"), pc' \notin {"start", "disabled", "failed", "sleep"},
         breaksLeft' \in 0 .. MaxBreaks, resumesLeft' \in 0 .. MaxResumes,
         NotifierTypes, status' # "none", breaksLeft' = MaxBreaks => status' # "closed"
  PROVE  CacheInv'
<1>1. \A o \in Objects : Had(o)' = Had(o)
  BY DEF Had
<1>2. ClusterOK'
  BY DEF CacheInv, ClusterOK, LogOK, StoreOK, AddedOK, Had
<1>3. PhaseOK'
  BY <1>1 DEF CacheInv, PhaseOK
<1>4. TypeOK'
  BY <1>1 DEF CacheInv, TypeOK, NotifierTypes, Pcs, NoEvent
<1> QED  BY <1>2, <1>3, <1>4 DEF CacheInv

\* After a break, what is claimed of an object does not depend on the notifier's memory
\* of the rest.
LEMMA BrokenHeard ==
  ASSUME CacheInv, UNCHANGED <<cache, hand, pc>>, NEW x \in Objects, breaksLeft' # MaxBreaks,
         heard'[x] = heard[x], HeardOK(x)
  PROVE  HeardOK(x)'
BY DEF HeardOK, Held

LEMMA SendBookmarkKeeps ==
  ASSUME CacheInv, SendBookmark, UNCHANGED <<adapterVars, notifierVars, boundVars>>
  PROVE  CacheInv'
<1> DEFINE b == Bookmark(Len(log))
<1>1. b \in Event /\ b.type = "BOOKMARK" /\ b.obj = NoObject /\ b.rv = Len(log)
  BY StateTypes DEF Bookmark, Event
<1>2. stream' = Append(stream, b)
  BY DEF SendBookmark
<1> HIDE DEF b
<1>3. /\ stream' \in Seq(Event) /\ DOMAIN stream' = 1 .. Len(stream) + 1
      /\ \A i \in DOMAIN stream : i \in DOMAIN stream' /\ stream'[i] = stream[i]
      /\ stream'[Len(stream) + 1] = b
      /\ \A i \in DOMAIN stream' : i \in DOMAIN stream \/ i = Len(stream) + 1
      /\ \A i \in DOMAIN stream' : \A j \in DOMAIN stream' : j < i => j \in DOMAIN stream
  BY <1>1, <1>2, StateTypes, AppendProperties
<1>4. /\ status = "open" /\ UNCHANGED <<store, log, bookmark, status, cache, hand, pc, ctxDone>>
      /\ breaksLeft' = breaksLeft /\ resumesLeft' = resumesLeft /\ disturbancesLeft' = disturbancesLeft
      /\ UNCHANGED <<heard, disturbed, superseded, drained>>
  BY DEF SendBookmark, adapterVars, notifierVars, boundVars
<1>5. StreamOK'
  <2>1. ASSUME NEW i \in DOMAIN stream  PROVE EventOK(i)'
    <3>1. EventOK(i)
      BY DEF CacheInv, StreamOK
    <3> QED  BY <1>3, <1>4, <3>1 DEF EventOK
  <2>2. ASSUME NEW i \in DOMAIN stream', i = Len(stream) + 1  PROVE EventOK(i)'
    <3>1. ASSUME NEW j \in DOMAIN stream, stream[j].type = "BOOKMARK"
          PROVE  stream[j].rv <= Len(log)
      BY <3>1 DEF CacheInv, StreamOK, EventOK
    <3>2. /\ stream'[i] = b /\ bookmark' = bookmark /\ log' = log
          /\ bookmark <= Len(log) /\ Len(log) \in Nat
      BY <1>3, <1>4, <2>2, StateTypes
    <3>3. \A j \in DOMAIN stream' : j < i => j \in DOMAIN stream /\ stream'[j] = stream[j]
      BY <1>3
    <3> QED  BY <1>1, <3>1, <3>2, <3>3 DEF EventOK
  <2>3. bookmark' \in 0 .. Len(log') /\ status' \in {"none", "open", "closed"}
    BY <1>4 DEF CacheInv, StreamOK
  <2> QED  BY <1>3, <2>1, <2>2, <2>3 DEF StreamOK
<1>6. ASSUME NEW x \in Objects, NEW v, NEW i \in 0 .. Len(stream), Follows(x, v, i)
      PROVE  Follows(x, v, i)'
  BY <1>3, <1>4, <1>6 DEF Follows
<1>7. ASSUME NEW x \in Objects, NEW v, NEW i \in 0 .. Len(stream), Reached(x, v, i)
      PROVE  Reached(x, v, i)'
  BY <1>3, <1>4, <1>7 DEF Reached
<1>8. ASSUME NEW x \in Objects, NEW i \in DOMAIN stream', stream'[i].obj = x
      PROVE  i \in DOMAIN stream /\ i \in 0 .. Len(stream) /\ stream'[i] = stream[i]
  BY <1>1, <1>3, <1>8, StateTypes
<1>9. 0 \in 0 .. Len(stream)
  BY StateTypes
<1>10. ASSUME NEW x \in Objects, Unbroken(x)
       PROVE  Unbroken(x)'
  <2>1. cache'[x] # 0 => Follows(x, cache[x], 0)'
    <3>1. PICK v : v = cache[x]
      OBVIOUS
    <3>2. v # 0 => Follows(x, v, 0)'
      BY <1>6, <1>9, <1>10, <3>1 DEF Unbroken
    <3> QED  BY <1>4, <3>1, <3>2 DEF Follows
  <2>2. Held(x)' => Follows(x, hand.rv, 0)'
    <3>1. PICK v : v = hand.rv
      OBVIOUS
    <3>2. Held(x) => Follows(x, v, 0)'
      BY <1>6, <1>9, <1>10, <3>1 DEF Unbroken
    <3> QED  BY <1>4, <3>1, <3>2 DEF Follows, Held
  <2>3. ASSUME NEW i \in DOMAIN stream', stream'[i].obj = x
        PROVE  /\ Follows(x, stream[i].rv, i)'
               /\ stream'[i].type = "ADDED" =>
                    \/ log'[stream'[i].rv].type = "ADDED"
                    \/ cache'[x] = 0 /\ ~Held(x)' /\ \A j \in DOMAIN stream' : j < i => stream'[j].obj # x
    <3>1. PICK v : v = stream[i].rv
      OBVIOUS
    <3>2. Follows(x, v, i)'
      BY <1>6, <1>8, <1>10, <2>3, <3>1 DEF Unbroken
    <3>3. Follows(x, stream[i].rv, i)'
      BY <1>8, <2>3, <3>1, <3>2 DEF Follows
    <3> QED  BY <1>3, <1>4, <1>8, <1>10, <2>3, <3>3 DEF Unbroken, Held
  <2> QED  BY <2>1, <2>2, <2>3 DEF Unbroken
<1>11. ASSUME NEW x \in Objects, Broken(x)
       PROVE  Broken(x)'
  <2> SUFFICES ASSUME store[x] # Absent, store[x].rv \notin TooLarge
               PROVE  /\ cache'[x] # 0 => Reached(x, cache[x], 0)'
                      /\ Held(x)' => Reached(x, hand.rv, 0)'
                      /\ \A i \in DOMAIN stream' : stream'[i].obj = x => Reached(x, stream[i].rv, i)'
    BY <1>4 DEF Broken
  <2>1. cache'[x] # 0 => Reached(x, cache[x], 0)'
    <3>1. PICK v : v = cache[x]
      OBVIOUS
    <3>2. v # 0 => Reached(x, v, 0)'
      BY <1>7, <1>9, <1>11, <3>1 DEF Broken
    <3> QED  BY <1>4, <3>1, <3>2 DEF Reached
  <2>2. Held(x)' => Reached(x, hand.rv, 0)'
    <3>1. PICK v : v = hand.rv
      OBVIOUS
    <3>2. Held(x) => Reached(x, v, 0)'
      BY <1>7, <1>9, <1>11, <3>1 DEF Broken
    <3> QED  BY <1>4, <3>1, <3>2 DEF Reached, Held
  <2>3. ASSUME NEW i \in DOMAIN stream', stream'[i].obj = x
        PROVE  Reached(x, stream[i].rv, i)'
    <3>1. PICK v : v = stream[i].rv
      OBVIOUS
    <3>2. Reached(x, v, i)'
      BY <1>7, <1>8, <1>11, <2>3, <3>1 DEF Broken
    <3> QED  BY <1>8, <2>3, <3>1, <3>2 DEF Reached
  <2> QED  BY <2>1, <2>2, <2>3
<1>12. DeliveryOK'
  <2>1. \A x \in Objects : HeardOK(x) => HeardOK(x)'
    BY <1>4 DEF HeardOK, Held
  <2> QED  BY <1>4, <1>10, <1>11, <2>1 DEF CacheInv, DeliveryOK
<1>13. /\ pc \notin {"start", "disabled", "failed", "sleep"}
       /\ breaksLeft \in 0 .. MaxBreaks /\ resumesLeft \in 0 .. MaxResumes /\ NotifierTypes
  BY <1>4 DEF CacheInv, PhaseOK, TypeOK, NotifierTypes
<1> QED  BY <1>4, <1>5, <1>12, <1>13, StreamKeeps

LEMMA CloseKeeps ==
  ASSUME CacheInv, Close, UNCHANGED <<adapterVars, notifierVars, resumesLeft, disturbancesLeft>>,
         breaksLeft > 0, breaksLeft' = breaksLeft - 1
  PROVE  CacheInv'
<1>1. /\ status = "open" /\ status' = "closed"
      /\ UNCHANGED <<store, log, bookmark, cache, hand, pc, ctxDone, resumesLeft>>
      /\ UNCHANGED <<heard, disturbed, superseded, drained, disturbancesLeft>>
  BY DEF Close, adapterVars, notifierVars
<1>2. /\ stream' \in Seq(Event) /\ DOMAIN stream' = 1 .. Len(stream')
      /\ \A i \in DOMAIN stream' : i = 1 /\ i \in DOMAIN stream /\ stream'[i] = stream[i]
  BY KeptShape, StateTypes DEF Close
<1>3. StreamOK'
  <2>1. ASSUME NEW i \in DOMAIN stream'  PROVE EventOK(i)'
    <3>1. EventOK(i)
      BY <1>2 DEF CacheInv, StreamOK
    <3>2. \A j \in DOMAIN stream' : ~(j < i)
      BY <1>2
    <3> QED  BY <1>1, <1>2, <3>1, <3>2 DEF EventOK
  <2> QED  BY <1>1, <1>2, <2>1 DEF CacheInv, StreamOK
<1>4. DeliveryOK'
  BY <1>1 DEF DeliveryOK
<1>5. /\ pc \notin {"start", "disabled", "failed", "sleep"}
      /\ breaksLeft \in 0 .. MaxBreaks /\ resumesLeft \in 0 .. MaxResumes /\ NotifierTypes
  BY <1>1 DEF CacheInv, PhaseOK, TypeOK, NotifierTypes
<1>6. breaksLeft' \in 0 .. MaxBreaks /\ breaksLeft' # MaxBreaks
  BY <1>5, CacheAdapterAssumption
<1> QED  BY <1>1, <1>3, <1>4, <1>5, <1>6, StreamKeeps

(***************************************************************************)
(* A request that resumes: what was buffered, and the log after a version. *)
(***************************************************************************)
LEMMA JoinShape ==
  ASSUME NEW a \in Seq(Event), NEW b \in Seq(Event), NEW s, s = a \o b
  PROVE  /\ s \in Seq(Event) /\ Len(a) \in Nat
         /\ \A i \in DOMAIN s : i \in Nat /\ i > 0
         /\ \A i \in DOMAIN s : i <= Len(a) => i \in DOMAIN a /\ s[i] = a[i]
         /\ \A i \in DOMAIN s : i > Len(a) => i - Len(a) \in DOMAIN b /\ s[i] = b[i - Len(a)]
         /\ \A i \in DOMAIN a : i \in DOMAIN s /\ s[i] = a[i] /\ i <= Len(a)
         /\ \A j \in DOMAIN b : Len(a) + j \in DOMAIN s /\ Len(a) + j > Len(a) /\ s[Len(a) + j] = b[j]
<1> DEFINE la == Len(a)  lb == Len(b)
<1>1. la \in Nat /\ lb \in Nat /\ DOMAIN a = 1 .. la /\ DOMAIN b = 1 .. lb
  OBVIOUS
<1>2. /\ s \in Seq(Event) /\ Len(s) = la + lb
      /\ \A i \in 1 .. la + lb : s[i] = IF i <= la THEN a[i] ELSE b[i - la]
  BY ConcatProperties
<1>3. DOMAIN s = 1 .. la + lb
  BY <1>2
<1> HIDE DEF la, lb
<1>4. \A i \in 1 .. la + lb : IF i <= la THEN i \in 1 .. la ELSE i - la \in 1 .. lb
  BY <1>1
<1>5. \A i \in 1 .. la : i \in 1 .. la + lb /\ i <= la
  BY <1>1
<1>6. \A j \in 1 .. lb : la + j \in 1 .. la + lb /\ la + j > la /\ ~(la + j <= la) /\ (la + j) - la = j
  BY <1>1
<1>7. \A i \in 1 .. la + lb : i > la => ~(i <= la)
  BY <1>1
<1>8. \A i \in DOMAIN s : i <= la => i \in DOMAIN a /\ s[i] = a[i]
  BY <1>1, <1>2, <1>3, <1>4
<1>9. \A i \in DOMAIN s : i > la => i - la \in DOMAIN b /\ s[i] = b[i - la]
  BY <1>1, <1>2, <1>3, <1>4, <1>7
<1>10. \A i \in DOMAIN a : i \in DOMAIN s /\ s[i] = a[i] /\ i <= la
  BY <1>1, <1>2, <1>3, <1>5
<1>11. \A j \in DOMAIN b : la + j \in DOMAIN s /\ la + j > la /\ s[la + j] = b[j]
  BY <1>1, <1>2, <1>3, <1>6
<1>12. \A i \in DOMAIN s : i \in Nat /\ i > 0
  BY <1>1, <1>3
<1> QED  BY <1>1, <1>2, <1>8, <1>9, <1>10, <1>11, <1>12 DEF la, lb

LEMMA ReplayShape ==
  ASSUME NEW s \in Seq(Event), NEW from \in Nat, from <= Len(s)
  PROVE  /\ Replay(s, from) \in Seq(Event)
         /\ \A j \in DOMAIN Replay(s, from) :
              j \in Nat /\ from + j \in DOMAIN s /\ from + j > from /\ Replay(s, from)[j] = s[from + j]
         /\ \A p \in DOMAIN s : p > from =>
              p - from \in DOMAIN Replay(s, from) /\ from + (p - from) = p
<1> DEFINE r == Replay(s, from)  n == Len(s)
<1>1. n \in Nat /\ DOMAIN s = 1 .. n
  OBVIOUS
<1>2. \A i \in from + 1 .. n : i \in 1 .. n
  BY <1>1
<1>3. \A i \in from + 1 .. n : s[i] \in Event
  BY <1>1, <1>2
<1>4. /\ r \in Seq(Event) /\ Len(r) = IF from + 1 <= n THEN n - (from + 1) + 1 ELSE 0
      /\ \A j \in 1 .. n - (from + 1) + 1 : r[j] = s[from + 1 + j - 1]
  <2> HIDE DEF n
  <2>1. from + 1 \in Int /\ n \in Int
    BY <1>1
  <2>2. r = SubSeq(s, from + 1, n)
    BY DEF Replay, n
  <2> HIDE DEF r
  <2> QED  BY <1>3, <2>1, <2>2, SubSeqProperties
<1> HIDE DEF r, n
<1>5. Len(r) = n - from
  <2>1. from <= n
    BY DEF n
  <2>2. CASE from + 1 <= n
    BY <1>1, <1>4, <2>2
  <2>3. CASE ~(from + 1 <= n)
    BY <1>1, <1>4, <2>1, <2>3
  <2> QED  BY <2>2, <2>3
<1>6. DOMAIN r = 1 .. n - from
  BY <1>4, <1>5
<1>7. \A j \in 1 .. n - from : /\ j \in 1 .. n - (from + 1) + 1 /\ from + 1 + j - 1 = from + j
                               /\ j \in Nat /\ from + j \in 1 .. n /\ from + j > from
  BY <1>1
<1>8. \A j \in DOMAIN r : j \in Nat /\ from + j \in DOMAIN s /\ from + j > from /\ r[j] = s[from + j]
  BY <1>1, <1>4, <1>6, <1>7
<1>9. \A p \in 1 .. n : p > from => p - from \in 1 .. n - from /\ from + (p - from) = p
  BY <1>1
<1> QED  BY <1>1, <1>4, <1>6, <1>8, <1>9 DEF r

\* Up to place k an event is the buffered one, after it they are the changes after
\* version from in their order; what was under way is among them or was later.
Resumed(from, k) ==
  /\ from \in Nat /\ k \in Nat /\ bookmark <= from /\ stream' \in Seq(Event)
  /\ \A i \in DOMAIN stream' : i \in Nat /\ i > 0
  /\ \A i \in DOMAIN stream' : i <= k => i = 1 /\ 1 \in DOMAIN stream /\ stream'[1] = stream[1]
  /\ \A i \in DOMAIN stream' : i > k =>
       /\ stream'[i].rv > from /\ stream'[i].rv \in DOMAIN log /\ stream'[i] = log[stream'[i].rv]
  /\ \A i, j \in DOMAIN stream' : i > k /\ i < j => stream'[i].rv < stream'[j].rv
  /\ \A p \in DOMAIN log : p > from => \E n \in DOMAIN stream' : n > k /\ stream'[n] = log[p]
  /\ \A n \in DOMAIN stream : stream[n].obj \in Objects => stream[n].rv > from
  /\ 1 \in DOMAIN stream' /\ 1 <= k /\ stream[1].type = "BOOKMARK" => stream[1].rv <= from

LEMMA ResumeShape ==
  ASSUME CacheInv, Resume
  PROVE  /\ status = "open" /\ UNCHANGED <<store, log, bookmark, status>>
         /\ \E from, k \in Nat : Resumed(from, k)
<1>1. PICK kept \in Buffered(stream) :
        LastBookmark(kept, bookmark) # 0 /\ stream' = kept \o Replay(log, LastBookmark(kept, bookmark))
  BY DEF Resume
<1> DEFINE from == LastBookmark(kept, bookmark)
           replay == Replay(log, from)
           k == Len(kept)
<1>2. /\ stream \in Seq(Event) /\ Len(stream) \in Nat /\ DOMAIN stream = 1 .. Len(stream)
      /\ log \in Seq(Event) /\ Len(log) \in Nat /\ bookmark \in Nat /\ bookmark <= Len(log)
  BY StateTypes
<1>3. /\ kept \in Seq(Event) /\ Len(kept) \in {0, 1} /\ Len(kept) <= Len(stream)
      /\ \A i \in 1 .. Len(kept) : i = 1 /\ kept[i] = stream[i]
  BY <1>2, KeptShape
<1>4. k \in {0, 1} /\ (k = 1 => kept[1] = stream[1] /\ 1 \in DOMAIN stream) /\ DOMAIN kept = 1 .. k
  BY <1>2, <1>3
<1>5. from = IF k = 1 /\ stream[1].type = "BOOKMARK" THEN stream[1].rv ELSE bookmark
  <2>1. k = 0 => kept = <<>>
    BY <1>3, EmptySeq
  <2>2. k = 1 => kept # <<>> /\ Head(kept) = kept[1]
    <3>1. Len(<<>>) = 0
      BY EmptySeq
    <3>2. kept # <<>> => Head(kept) = kept[1]
      BY <1>3
    <3> QED  BY <3>1, <3>2
  <2> QED  BY <1>4, <2>1, <2>2 DEF LastBookmark
<1> HIDE DEF from, k
<1>6. k = 1 => EventOK(1) /\ stream[1].rv \in Nat
  BY <1>4, StateTypes DEF CacheInv, StreamOK
<1>7. from \in Nat /\ from <= Len(log) /\ bookmark <= from
  BY <1>2, <1>5, <1>6 DEF EventOK
<1>8. \A n \in DOMAIN stream : stream[n].obj \in Objects => stream[n].rv > from
  <2> SUFFICES ASSUME NEW n \in DOMAIN stream, stream[n].obj \in Objects
               PROVE  stream[n].rv > from
    OBVIOUS
  <2>1. EventOK(n) /\ stream[n].type # "BOOKMARK" /\ stream[n].rv > bookmark /\ stream[n].rv \in Nat
    BY StateTypes DEF CacheInv, StreamOK
  <2>2. CASE k = 1 /\ stream[1].type = "BOOKMARK"
    <3>1. 1 < n /\ 1 \in DOMAIN stream
      BY <1>2, <1>4, <2>1, <2>2
    <3>2. stream[1].rv < stream[n].rv
      BY <2>1, <2>2, <3>1 DEF EventOK
    <3> QED  BY <1>5, <1>6, <2>1, <2>2, <3>2
  <2>3. CASE ~(k = 1 /\ stream[1].type = "BOOKMARK")
    BY <1>5, <2>1, <2>3
  <2> QED  BY <2>2, <2>3
<1>9. /\ replay \in Seq(Event)
      /\ \A j \in DOMAIN replay : j \in Nat /\ from + j \in DOMAIN log /\ from + j > from /\ replay[j] = log[from + j]
      /\ \A p \in DOMAIN log : p > from => p - from \in DOMAIN replay /\ from + (p - from) = p
  BY <1>2, <1>7, ReplayShape
<1>10. stream' = kept \o replay
  BY <1>1 DEF from
<1> HIDE DEF replay
<1>11. /\ stream' \in Seq(Event)
       /\ \A i \in DOMAIN stream' : i \in Nat /\ i > 0
       /\ \A i \in DOMAIN stream' : i <= k => i \in DOMAIN kept /\ stream'[i] = kept[i]
       /\ \A i \in DOMAIN stream' : i > k => i - k \in DOMAIN replay /\ stream'[i] = replay[i - k]
       /\ \A j \in DOMAIN replay : k + j \in DOMAIN stream' /\ k + j > k /\ stream'[k + j] = replay[j]
  <2>1. kept \in Seq(Event) /\ replay \in Seq(Event)
    BY <1>3, <1>9
  <2>2. PICK s : s = kept \o replay
    OBVIOUS
  <2>3. /\ s \in Seq(Event)
        /\ \A i \in DOMAIN s : i \in Nat /\ i > 0
        /\ \A i \in DOMAIN s : i <= k => i \in DOMAIN kept /\ s[i] = kept[i]
        /\ \A i \in DOMAIN s : i > k => i - k \in DOMAIN replay /\ s[i] = replay[i - k]
        /\ \A j \in DOMAIN replay : k + j \in DOMAIN s /\ k + j > k /\ s[k + j] = replay[j]
    <3>1. k = Len(kept)
      BY DEF k
    <3>2. /\ s \in Seq(Event)
          /\ \A i \in DOMAIN s : i \in Nat /\ i > 0
      BY <2>1, <2>2, JoinShape
    <3>3. \A i \in DOMAIN s : i <= Len(kept) => i \in DOMAIN kept /\ s[i] = kept[i]
      BY <2>1, <2>2, JoinShape
    <3>4. \A i \in DOMAIN s : i > Len(kept) => i - Len(kept) \in DOMAIN replay /\ s[i] = replay[i - Len(kept)]
      BY <2>1, <2>2, JoinShape
    <3>5. \A j \in DOMAIN replay :
            Len(kept) + j \in DOMAIN s /\ Len(kept) + j > Len(kept) /\ s[Len(kept) + j] = replay[j]
      BY <2>1, <2>2, JoinShape
    <3> QED  BY <3>1, <3>2, <3>3, <3>4, <3>5
  <2>4. stream' = s
    BY <1>10, <2>2
  <2> QED  BY <2>3, <2>4, Zenon
<1>12. \A i \in DOMAIN stream' : i <= k => i = 1 /\ 1 \in DOMAIN stream /\ stream'[1] = stream[1]
  BY <1>4, <1>11
<1>13. \A p \in DOMAIN log : log[p].rv = p
  BY DEF CacheInv, ClusterOK, LogOK
<1>14. \A i \in DOMAIN stream' : i > k =>
         /\ stream'[i].rv = from + (i - k) /\ stream'[i].rv > from
         /\ stream'[i].rv \in DOMAIN log /\ stream'[i] = log[stream'[i].rv]
  BY <1>9, <1>11, <1>13
<1>15. ASSUME NEW i \in DOMAIN stream', NEW j \in DOMAIN stream', i > k, i < j
       PROVE  stream'[i].rv < stream'[j].rv
  <2>1. i \in Nat /\ j \in Nat /\ k \in Nat /\ j > k
    BY <1>4, <1>11, <1>15
  <2>2. from + (i - k) < from + (j - k)
    BY <1>7, <1>15, <2>1
  <2> QED  BY <1>14, <1>15, <2>1, <2>2
<1>16. \A p \in DOMAIN log : p > from => \E n \in DOMAIN stream' : n > k /\ stream'[n] = log[p]
  <2> TAKE p \in DOMAIN log
  <2> HAVE p > from
  <2>1. p - from \in DOMAIN replay /\ replay[p - from] = log[p]
    BY <1>9
  <2> QED  BY <1>11, <2>1
<1>17. 1 \in DOMAIN stream' /\ 1 <= k /\ stream[1].type = "BOOKMARK" => stream[1].rv <= from
  BY <1>4, <1>5, <1>7
<1>18. Resumed(from, k)
  BY <1>4, <1>7, <1>8, <1>11, <1>12, <1>14, <1>15, <1>16, <1>17 DEF Resumed
<1> QED  BY <1>4, <1>7, <1>18 DEF Resume

LEMMA ResumeKeepsStream ==
  ASSUME CacheInv, Resume  PROVE  StreamOK'
<1>1. PICK from, k \in Nat : Resumed(from, k)
  BY ResumeShape
<1>2. UNCHANGED <<log, bookmark, status>>
  BY ResumeShape
<1>3. ASSUME NEW i \in DOMAIN stream'  PROVE EventOK(i)'
  <2>1. CASE i <= k
    <3>1. i = 1 /\ 1 \in DOMAIN stream /\ stream'[1] = stream[1]
      BY <1>1, <2>1 DEF Resumed
    <3>2. EventOK(1) /\ \A j \in DOMAIN stream' : ~(j < i)
      BY <1>1, <3>1 DEF CacheInv, StreamOK, Resumed
    <3> QED  BY <1>2, <3>1, <3>2 DEF EventOK
  <2>2. CASE i > k
    <3>1. PICK v \in DOMAIN log : v > from /\ stream'[i].rv = v /\ stream'[i] = log[v]
      BY <1>1, <2>2 DEF Resumed
    <3>2. log[v].obj \in Objects /\ log[v].type # "BOOKMARK"
      BY DEF CacheInv, ClusterOK, LogOK
    <3>3. v > bookmark /\ v \in Nat
      BY <1>1, <3>1, StateTypes DEF Resumed
    <3>4. ASSUME NEW j \in DOMAIN stream', j < i, stream'[j].type = "BOOKMARK"
          PROVE  stream'[j].rv < v
      <4>1. CASE j > k
        <5>1. stream'[j].rv \in DOMAIN log /\ stream'[j] = log[stream'[j].rv]
          BY <1>1, <4>1 DEF Resumed
        <5> QED  BY <3>4, <5>1 DEF CacheInv, ClusterOK, LogOK
      <4>2. CASE j <= k
        <5>1. j = 1 /\ 1 \in DOMAIN stream /\ stream'[1] = stream[1]
          BY <1>1, <4>2 DEF Resumed
        <5>2. stream[1].rv <= from /\ stream[1].rv \in Nat
          BY <1>1, <3>4, <4>2, <5>1, StateTypes DEF Resumed
        <5> QED  BY <1>1, <3>1, <3>3, <5>1, <5>2
      <4>3. j \in Nat
        BY <1>1 DEF Resumed
      <4> QED  BY <1>1, <4>1, <4>2, <4>3
    <3> QED  BY <1>2, <3>1, <3>2, <3>3, <3>4 DEF EventOK
  <2>3. i \in Nat
    BY <1>1 DEF Resumed
  <2> QED  BY <1>1, <2>1, <2>2, <2>3
<1> QED  BY <1>1, <1>2, <1>3 DEF CacheInv, StreamOK, Resumed

\* An event after version from comes before the later ones of its object.
LEMMA ResumeOrder ==
  ASSUME CacheInv, NEW from \in Nat, NEW k \in Nat, Resumed(from, k), NEW p \in DOMAIN log, p > from
  PROVE  \E n \in DOMAIN stream' :
           /\ n > k /\ n > 0 /\ stream'[n] = log[p] /\ stream'[n].rv = p
           /\ \A m \in DOMAIN stream' : m > k /\ m < n => stream'[m].rv <= p
           /\ \A m \in DOMAIN stream' : m > k /\ stream'[m].rv < p => m < n
<1>1. PICK n \in DOMAIN stream' : n > k /\ stream'[n] = log[p]
  BY DEF Resumed
<1>2. log[p].rv = p /\ n \in Nat /\ n > 0 /\ p \in Nat
  BY StateTypes DEF CacheInv, ClusterOK, LogOK, Resumed
<1>3. ASSUME NEW m \in DOMAIN stream', m > k
      PROVE  (m < n => stream'[m].rv <= p) /\ (stream'[m].rv < p => m < n)
  <2>1. stream'[m].rv \in Nat /\ m \in Nat
    BY <1>3, StateTypes DEF Resumed
  <2>2. m < n => stream'[m].rv < p
    BY <1>1, <1>2, <1>3 DEF Resumed
  <2>3. n < m => p < stream'[m].rv
    BY <1>1, <1>2, <1>3 DEF Resumed
  <2>4. n = m => stream'[m].rv = p
    BY <1>1, <1>2
  <2> QED  BY <1>2, <2>1, <2>2, <2>3, <2>4
<1> QED  BY <1>1, <1>2, <1>3

LEMMA ResumeFollows ==
  ASSUME CacheInv, Resume, NEW x \in Objects, NEW v \in Nat, Follows(x, v, 0)
  PROVE  Follows(x, v, 0)'
<1>1. PICK from, k \in Nat : Resumed(from, k)
  BY ResumeShape
<1> SUFFICES ASSUME NEW p \in DOMAIN log, log[p].obj = x, p > v
             PROVE  \E n \in DOMAIN stream' :
                      /\ n > 0 /\ stream'[n].obj = x /\ stream'[n].rv = p
                      /\ \A m \in DOMAIN stream' :
                           0 < m /\ m < n /\ stream'[m].obj = x => stream'[m].rv <= p
  BY ResumeShape DEF Follows
<1>2. PICK n \in DOMAIN stream :
        /\ n > 0 /\ stream[n].obj = x /\ stream[n].rv = p
        /\ \A m \in DOMAIN stream : 0 < m /\ m < n /\ stream[m].obj = x => stream[m].rv <= p
  BY DEF Follows
<1>3. p > from /\ p \in Nat /\ n \in Nat
  BY <1>1, <1>2, StateTypes DEF Resumed
<1>4. PICK new \in DOMAIN stream' :
        /\ new > k /\ new > 0 /\ stream'[new] = log[p] /\ stream'[new].rv = p
        /\ \A m \in DOMAIN stream' : m > k /\ m < new => stream'[m].rv <= p
  BY <1>1, <1>3, ResumeOrder
<1>5. ASSUME NEW m \in DOMAIN stream', m <= k, stream'[m].obj = x
      PROVE  stream'[m].rv <= p
  <2>1. m = 1 /\ 1 \in DOMAIN stream /\ stream'[1] = stream[1]
    BY <1>1, <1>5 DEF Resumed
  <2>2. CASE n = 1
    BY <1>2, <1>3, <2>1, <2>2
  <2>3. CASE n # 1
    BY <1>2, <1>3, <1>5, <2>1, <2>3
  <2> QED  BY <2>2, <2>3
<1>6. \A m \in DOMAIN stream' : m > k \/ m <= k
  BY <1>1 DEF Resumed
<1> QED  BY <1>4, <1>5, <1>6

LEMMA ResumeReached ==
  ASSUME CacheInv, Resume, NEW x \in Objects, NEW v \in Nat, store[x] # Absent, Reached(x, v, 0)
  PROVE  Reached(x, v, 0)'
<1>1. PICK from, k \in Nat : Resumed(from, k)
  BY ResumeShape
<1>2. CASE v = store[x].rv
  BY <1>2, ResumeShape DEF Reached
<1>3. CASE v # store[x].rv
  <2>1. PICK n \in DOMAIN stream : n > 0 /\ stream[n].obj = x /\ stream[n].rv = store[x].rv
    BY <1>3 DEF Reached
  <2>2. PICK p \in DOMAIN log : p > from /\ p = store[x].rv /\ log[p].obj = x
    BY <1>1, <2>1, StateTypes DEF Resumed
  <2>3. PICK new \in DOMAIN stream' : new > 0 /\ stream'[new] = log[p] /\ stream'[new].rv = p
    BY <1>1, <2>2, ResumeOrder
  <2> QED  BY <2>2, <2>3, ResumeShape DEF Reached
<1> QED  BY <1>2, <1>3

LEMMA ResumeKeeps ==
  ASSUME CacheInv, ResumeStream  PROVE  CacheInv'
<1>1. /\ Resume /\ UNCHANGED <<cache, hand, pc, ctxDone, breaksLeft>>
      /\ UNCHANGED <<heard, disturbed, superseded, drained, disturbancesLeft>>
      /\ resumesLeft > 0 /\ resumesLeft' = resumesLeft - 1
  BY DEF ResumeStream, adapterVars, notifierVars
<1>2. status = "open" /\ UNCHANGED <<store, log, bookmark, status>>
  BY <1>1, ResumeShape
<1>3. PICK from, k \in Nat : Resumed(from, k)
  BY <1>1, ResumeShape
\* An event is older than those of its object in the repeated part, or among them.
<1>4. ASSUME NEW x \in Objects, NEW i \in DOMAIN stream', stream'[i].obj = x, NEW p \in DOMAIN log,
             log[p].obj = x, p > stream'[i].rv
      PROVE  \E n \in DOMAIN stream' :
               /\ n > i /\ stream'[n].obj = x /\ stream'[n].rv = p
               /\ \A m \in DOMAIN stream' : i < m /\ m < n /\ stream'[m].obj = x => stream'[m].rv <= p
  <2>0. i \in Nat /\ i > 0 /\ (i <= k => i = 1) /\ \A m \in DOMAIN stream' : m \in Nat /\ (m <= k => m = 1)
    BY <1>3 DEF Resumed
  <2>1. stream'[i].rv > from /\ stream'[i].rv \in Nat
    <3>1. CASE i > k
      BY <1>3, <3>1, StateTypes DEF Resumed
    <3>2. CASE i <= k
      <4>1. i = 1 /\ stream'[i] = stream[1] /\ 1 \in DOMAIN stream
        BY <1>3, <3>2 DEF Resumed
      <4> QED  BY <1>3, <1>4, <4>1, StateTypes DEF Resumed
    <3> QED  BY <2>0, <3>1, <3>2
  <2>2. p > from /\ p \in Nat
    BY <1>3, <1>4, <2>1, StateTypes
  <2>3. PICK n \in DOMAIN stream' :
          /\ n > k /\ n > 0 /\ stream'[n] = log[p] /\ stream'[n].rv = p
          /\ \A m \in DOMAIN stream' : m > k /\ m < n => stream'[m].rv <= p
          /\ \A m \in DOMAIN stream' : m > k /\ stream'[m].rv < p => m < n
    BY <1>3, <2>2, ResumeOrder
  <2>4. n > i
    <3>1. CASE i > k
      BY <1>4, <2>0, <2>1, <2>2, <2>3, <3>1
    <3>2. CASE i <= k
      BY <2>0, <2>3, <3>2
    <3> QED  BY <2>0, <3>1, <3>2
  <2>5. \A m \in DOMAIN stream' : i < m => m > k
    BY <2>0
  <2> QED  BY <1>4, <2>3, <2>4, <2>5
<1>5. ASSUME NEW x \in Objects, Unbroken(x)
      PROVE  Unbroken(x)'
  <2>1. cache'[x] # 0 => Follows(x, cache[x], 0)'
    <3>1. PICK v \in Nat : v = cache[x]
      BY StateTypes
    <3>2. v # 0 => Follows(x, v, 0)'
      BY <1>1, <1>5, <3>1, ResumeFollows DEF Unbroken
    <3> QED  BY <1>1, <3>1, <3>2 DEF Follows
  <2>2. Held(x)' => Follows(x, hand.rv, 0)'
    <3> SUFFICES ASSUME Held(x)  PROVE Follows(x, hand.rv, 0)'
      BY <1>1 DEF Held
    <3>1. PICK v \in Nat : v = hand.rv
      BY DEF Held, CacheInv, PhaseOK, Event
    <3>2. Follows(x, v, 0)'
      BY <1>1, <1>5, <3>1, ResumeFollows DEF Unbroken
    <3> QED  BY <1>1, <3>1, <3>2 DEF Follows
  <2>3. \A i \in DOMAIN stream' : stream'[i].obj = x => Follows(x, stream[i].rv, i)'
    BY <1>2, <1>4 DEF Follows
  <2>4. ASSUME NEW i \in DOMAIN stream', stream'[i].obj = x, stream'[i].type = "ADDED",
               log[stream'[i].rv].type # "ADDED"
        PROVE  cache'[x] = 0 /\ ~Held(x)' /\ \A j \in DOMAIN stream' : j < i => stream'[j].obj # x
    <3>1. ~(i > k) /\ i \in Nat
      BY <1>3, <2>4 DEF Resumed
    <3>2. i = 1 /\ stream'[i] = stream[1] /\ 1 \in DOMAIN stream
      BY <1>3, <3>1 DEF Resumed
    <3>3. cache[x] = 0 /\ ~Held(x)
      BY <1>5, <2>4, <3>2 DEF Unbroken
    <3>4. \A j \in DOMAIN stream' : ~(j < i)
      BY <1>3, <3>2 DEF Resumed
    <3> QED  BY <1>1, <3>3, <3>4 DEF Held
  <2> QED  BY <1>2, <2>1, <2>2, <2>3, <2>4 DEF Unbroken
<1>6. ASSUME NEW x \in Objects, Broken(x)
      PROVE  Broken(x)'
  <2> SUFFICES ASSUME store[x] # Absent, store[x].rv \notin TooLarge
               PROVE  /\ cache'[x] # 0 => Reached(x, cache[x], 0)'
                      /\ Held(x)' => Reached(x, hand.rv, 0)'
                      /\ \A i \in DOMAIN stream' : stream'[i].obj = x => Reached(x, stream[i].rv, i)'
    BY <1>2 DEF Broken
  <2>1. cache'[x] # 0 => Reached(x, cache[x], 0)'
    <3>1. PICK v \in Nat : v = cache[x]
      BY StateTypes
    <3>2. v # 0 => Reached(x, v, 0)'
      BY <1>1, <1>6, <3>1, ResumeReached DEF Broken
    <3> QED  BY <1>1, <3>1, <3>2 DEF Reached
  <2>2. Held(x)' => Reached(x, hand.rv, 0)'
    <3> SUFFICES ASSUME Held(x)  PROVE Reached(x, hand.rv, 0)'
      BY <1>1 DEF Held
    <3>1. PICK v \in Nat : v = hand.rv
      BY DEF Held, CacheInv, PhaseOK, Event
    <3>2. Reached(x, v, 0)'
      BY <1>1, <1>6, <3>1, ResumeReached DEF Broken
    <3> QED  BY <1>1, <3>1, <3>2 DEF Reached
  <2>3. ASSUME NEW i \in DOMAIN stream', stream'[i].obj = x
        PROVE  Reached(x, stream[i].rv, i)'
    <3>1. store[x].rv \in DOMAIN log /\ log[store[x].rv].obj = x
      BY DEF CacheInv, ClusterOK, StoreOK, Had
    <3>2. CASE store[x].rv > stream'[i].rv
      BY <1>2, <1>4, <2>3, <3>1, <3>2 DEF Reached
    <3>3. CASE ~(store[x].rv > stream'[i].rv)
      <4>1. StreamOK'
        BY <1>1, ResumeKeepsStream
      <4>2. EventOK(i)' /\ stream' \in Seq(Event)
        BY <4>1 DEF StreamOK
      <4>3. stream'[i].type # "BOOKMARK"
        BY <2>3, <4>2, StateTypes DEF EventOK
      <4>4. stream'[i].rv \in DOMAIN log /\ log[stream'[i].rv].obj = x
        BY <1>2, <2>3, <4>2, <4>3 DEF EventOK
      <4>5. stream'[i].rv <= store[x].rv
        BY <4>4 DEF CacheInv, ClusterOK, StoreOK
      <4>6. stream'[i].rv = store[x].rv
        BY <3>1, <3>3, <4>4, <4>5, StateTypes
      <4> QED  BY <1>2, <4>6 DEF Reached
    <3> QED  BY <3>2, <3>3
  <2> QED  BY <2>1, <2>2, <2>3
<1>7. DeliveryOK'
  <2>1. \A x \in Objects : HeardOK(x) => HeardOK(x)'
    BY <1>1 DEF HeardOK, Held
  <2> QED  BY <1>1, <1>2, <1>5, <1>6, <2>1 DEF CacheInv, DeliveryOK
<1>8. /\ pc \notin {"start", "disabled", "failed", "sleep"} /\ resumesLeft' \in 0 .. MaxResumes
      /\ breaksLeft \in 0 .. MaxBreaks /\ NotifierTypes
  BY <1>1, <1>2, CacheAdapterAssumption DEF CacheInv, PhaseOK, TypeOK, NotifierTypes
<1>9. StreamOK'
  BY <1>1, ResumeKeepsStream
<1>10. /\ UNCHANGED <<store, log, cache, hand, ctxDone>> /\ pc' = pc /\ pc' \notin {"start", "disabled", "failed", "sleep"}
       /\ breaksLeft' \in 0 .. MaxBreaks /\ status' # "none" /\ status' # "closed"
  BY <1>1, <1>2, <1>8
<1> QED  BY <1>7, <1>8, <1>9, <1>10, StreamKeeps

(***************************************************************************)
(* A listing: the first one, that of a new watch, and one in the middle.   *)
(***************************************************************************)
\* Up to place k the event is the buffered one, without the version of its BOOKMARK;
\* after it every object of the store comes once.
Listed(k) ==
  /\ k \in Nat /\ stream' \in Seq(Event)
  /\ \A i \in DOMAIN stream' : i \in Nat /\ i > 0
  /\ \A i \in DOMAIN stream' : i <= k =>
       /\ i = 1 /\ 1 \in DOMAIN stream
       /\ stream'[1] = IF stream[1].type = "BOOKMARK" THEN Bookmark(0) ELSE stream[1]
  /\ \A i \in DOMAIN stream' : i > k =>
       /\ stream'[i].type = "ADDED" /\ stream'[i].obj \in Objects
       /\ store[stream'[i].obj] # Absent /\ stream'[i].rv = store[stream'[i].obj].rv
  /\ \A i, j \in DOMAIN stream' : i > k /\ j > k /\ i # j => stream'[i].obj # stream'[j].obj
  /\ \A o \in Objects : store[o] # Absent => \E i \in DOMAIN stream' : i > k /\ stream'[i].obj = o

LEMMA ListedShape ==
  ASSUME CacheInv, NEW kept \in Buffered(stream), NEW list \in Listings(store),
         stream' = Forgotten(kept) \o list
  PROVE  \E k \in Nat : Listed(k)
<1> DEFINE a == Forgotten(kept)  k == Len(a)
<1>1. /\ list \in Seq(Event)
      /\ \A i \in DOMAIN list :
           /\ list[i].type = "ADDED" /\ list[i].obj \in Objects
           /\ store[list[i].obj] # Absent /\ list[i].rv = store[list[i].obj].rv
           /\ \A j \in DOMAIN list : j # i => list[j].obj # list[i].obj
      /\ \A o \in Objects : store[o] # Absent => \E i \in DOMAIN list : list[i].obj = o
  BY ListingShape DEF CacheInv, ClusterOK
<1>2. /\ kept \in Seq(Event) /\ Len(kept) \in {0, 1} /\ Len(kept) <= Len(stream)
      /\ \A i \in 1 .. Len(kept) : i = 1 /\ kept[i] = stream[i]
  BY StateTypes, KeptShape
<1>3. /\ a \in Seq(Event) /\ Len(a) = Len(kept)
      /\ \A i \in 1 .. Len(kept) : a[i] = IF kept[i].type = "BOOKMARK" THEN Bookmark(0) ELSE kept[i]
  BY <1>2, ForgottenShape
<1> HIDE DEF a
<1>4. DOMAIN a = 1 .. Len(kept) /\ Len(stream) \in Nat /\ DOMAIN stream = 1 .. Len(stream)
  BY <1>3, StateTypes
<1>5. \A i \in DOMAIN a : /\ i = 1 /\ 1 \in DOMAIN stream
                          /\ a[1] = IF stream[1].type = "BOOKMARK" THEN Bookmark(0) ELSE stream[1]
  BY <1>2, <1>3, <1>4
<1>6. PICK s : s = a \o list
  OBVIOUS
<1>7. /\ s \in Seq(Event)
      /\ \A i \in DOMAIN s : i \in Nat /\ i > 0
  BY <1>1, <1>3, <1>6, JoinShape
<1>8. \A i \in DOMAIN s : i <= Len(a) => i \in DOMAIN a /\ s[i] = a[i]
  BY <1>1, <1>3, <1>6, JoinShape
<1>9. \A i \in DOMAIN s : i > Len(a) => i - Len(a) \in DOMAIN list /\ s[i] = list[i - Len(a)]
  BY <1>1, <1>3, <1>6, JoinShape
<1>10. \A j \in DOMAIN list : Len(a) + j \in DOMAIN s /\ Len(a) + j > Len(a) /\ s[Len(a) + j] = list[j]
  BY <1>1, <1>3, <1>6, JoinShape
<1>11. stream' = s
  BY <1>6 DEF a
<1>12. k \in Nat
  BY <1>3
<1> HIDE DEF k
<1>13. k = Len(a)
  BY DEF k
<1>14. \A i \in DOMAIN s : i <= k =>
         /\ i = 1 /\ 1 \in DOMAIN stream
         /\ s[1] = IF stream[1].type = "BOOKMARK" THEN Bookmark(0) ELSE stream[1]
  BY <1>5, <1>8, <1>13
<1>15. \A i \in DOMAIN s : i > k =>
         /\ s[i].type = "ADDED" /\ s[i].obj \in Objects
         /\ store[s[i].obj] # Absent /\ s[i].rv = store[s[i].obj].rv
  BY <1>1, <1>9, <1>13
<1>16. ASSUME NEW i \in DOMAIN s, NEW j \in DOMAIN s, i > k, j > k, i # j
       PROVE  s[i].obj # s[j].obj
  <2>1. i - k # j - k
    BY <1>7, <1>12, <1>16
  <2>2. /\ i - k \in DOMAIN list /\ s[i] = list[i - k]
        /\ j - k \in DOMAIN list /\ s[j] = list[j - k]
    BY <1>9, <1>13, <1>16
  <2> QED  BY <1>1, <2>1, <2>2
<1>17. \A o \in Objects : store[o] # Absent => \E i \in DOMAIN s : i > k /\ s[i].obj = o
  BY <1>1, <1>10, <1>13
<1>18. Listed(k)
  BY <1>7, <1>11, <1>12, <1>14, <1>15, <1>16, <1>17 DEF Listed
<1> QED  BY <1>12, <1>18

\* A stream that is only a listing.
LEMMA OnlyListed ==
  ASSUME CacheInv, stream' \in Listings(store)
  PROVE  \E k \in Nat : Listed(k)
<1>1. SubSeq(stream, 1, 0) = <<>> /\ 0 <= Len(stream)
  BY StateTypes, SubSeqEmpty
<1>2. <<>> \in Buffered(stream)
  BY <1>1 DEF Buffered
<1>3. Forgotten(<<>>) \in Seq(Event) /\ Len(Forgotten(<<>>)) = 0
  BY EmptySeq, ForgottenShape
<1>4. Forgotten(<<>>) = <<>>
  BY <1>3, EmptySeq
<1>5. stream' \in Seq(Event)
  BY ListingShape DEF CacheInv, ClusterOK
<1>6. stream' = Forgotten(<<>>) \o stream'
  BY <1>4, <1>5, ConcatEmptySeq
<1>7. PICK list \in Listings(store) : list = stream'
  OBVIOUS
<1>8. stream' = Forgotten(<<>>) \o list
  BY <1>6, <1>7
<1> QED  BY <1>2, <1>8, ListedShape

LEMMA ListedStored ==
  ASSUME CacheInv, NEW o \in Objects, store[o] # Absent
  PROVE  /\ store[o].rv \in DOMAIN log /\ store[o].rv \in Nat /\ store[o].rv > 0
         /\ log[store[o].rv].obj = o /\ log[store[o].rv].type # "DELETED"
         /\ \A p \in DOMAIN log : log[p].obj = o => p <= store[o].rv
BY StateTypes DEF CacheInv, ClusterOK, StoreOK, Had

LEMMA ListedKeepsStream ==
  ASSUME CacheInv, NEW k \in Nat, Listed(k), UNCHANGED <<store, log>>, bookmark' = 0, status' = "open"
  PROVE  StreamOK'
<1>1. ASSUME NEW i \in DOMAIN stream'  PROVE EventOK(i)'
  <2>1. i \in Nat /\ i > 0 /\ \A j \in DOMAIN stream' : j \in Nat /\ j > 0
    BY DEF Listed
  <2>2. CASE i <= k
    <3>1. /\ i = 1 /\ 1 \in DOMAIN stream
          /\ stream'[1] = IF stream[1].type = "BOOKMARK" THEN Bookmark(0) ELSE stream[1]
      BY <2>2 DEF Listed
    <3>2. EventOK(1) /\ \A j \in DOMAIN stream' : ~(j < i)
      BY <2>1, <3>1 DEF CacheInv, StreamOK
    <3>3. CASE stream[1].type = "BOOKMARK"
      <4>1. stream'[i].type = "BOOKMARK" /\ stream'[i].obj = NoObject /\ stream'[i].rv = 0
        BY <3>1, <3>3 DEF Bookmark
      <4>2. 0 <= Len(log)
        BY StateTypes
      <4> QED  BY <3>2, <4>1, <4>2 DEF EventOK
    <3>4. CASE stream[1].type # "BOOKMARK"
      <4>1. stream'[i] = stream[1] /\ stream[1].rv \in DOMAIN log
        BY <3>1, <3>2, <3>4 DEF EventOK
      <4>2. stream[1].rv > 0
        BY <4>1, StateTypes
      <4> QED  BY <3>2, <3>4, <4>1, <4>2 DEF EventOK
    <3> QED  BY <3>3, <3>4
  <2>3. CASE i > k
    <3>1. /\ stream'[i].type = "ADDED" /\ stream'[i].obj \in Objects
          /\ store[stream'[i].obj] # Absent /\ stream'[i].rv = store[stream'[i].obj].rv
      BY <2>3 DEF Listed
    <3>2. /\ stream'[i].rv \in DOMAIN log /\ stream'[i].rv > 0 /\ log[stream'[i].rv].obj = stream'[i].obj
          /\ log[stream'[i].rv].type # "DELETED"
      BY <3>1, ListedStored
    <3>3. ASSUME NEW j \in DOMAIN stream', stream'[j].type = "BOOKMARK"
          PROVE  stream'[j].rv = 0
      <4>1. j <= k
        BY <2>1, <3>3 DEF Listed
      <4>2. /\ j = 1
            /\ stream'[1] = IF stream[1].type = "BOOKMARK" THEN Bookmark(0) ELSE stream[1]
        BY <4>1 DEF Listed
      <4>3. stream'[j] = Bookmark(0)
        BY <3>3, <4>2
      <4> QED  BY <4>3 DEF Bookmark
    <3> QED  BY <3>1, <3>2, <3>3 DEF EventOK
  <2> QED  BY <2>1, <2>2, <2>3
<1> QED  BY <1>1, StateTypes DEF StreamOK, Listed

LEMMA ListedBroken ==
  ASSUME CacheInv, NEW k \in Nat, Listed(k), UNCHANGED <<store, log>>, NEW x \in Objects
  PROVE  Broken(x)'
<1> SUFFICES ASSUME store[x] # Absent
             PROVE  /\ cache'[x] # 0 => Reached(x, cache[x], 0)'
                    /\ Held(x)' => Reached(x, hand.rv, 0)'
                    /\ \A i \in DOMAIN stream' : stream'[i].obj = x => Reached(x, stream[i].rv, i)'
  BY DEF Broken
<1>1. PICK n \in DOMAIN stream' : n > k /\ stream'[n].obj = x
  BY DEF Listed
<1>2. stream'[n].rv = store[x].rv /\ n \in Nat /\ n > 0
  BY <1>1 DEF Listed
<1>3. cache'[x] # 0 => Reached(x, cache[x], 0)'
  BY <1>1, <1>2 DEF Reached
<1>4. Held(x)' => Reached(x, hand.rv, 0)'
  BY <1>1, <1>2 DEF Reached
<1>5. ASSUME NEW i \in DOMAIN stream', stream'[i].obj = x  PROVE Reached(x, stream[i].rv, i)'
  <2>1. i \in Nat
    BY DEF Listed
  <2>2. CASE i > k
    BY <1>5, <2>2 DEF Listed, Reached
  <2>3. CASE i <= k
    <3>1. n > i
      BY <1>1, <1>2, <2>1, <2>3
    <3> QED  BY <1>1, <1>2, <3>1 DEF Reached
  <2> QED  BY <2>1, <2>2, <2>3
<1> QED  BY <1>3, <1>4, <1>5

LEMMA ListedUnbroken ==
  ASSUME CacheInv, NEW k \in Nat, Listed(k), UNCHANGED <<store, log, cache>>, NEW x \in Objects,
         stream = <<>>, cache[x] = 0, ~Held(x)'
  PROVE  Unbroken(x)'
<1>1. \A i \in DOMAIN stream' : i > k
  BY EmptySeq DEF Listed
<1>2. ASSUME NEW i \in DOMAIN stream', stream'[i].obj = x  PROVE Follows(x, stream[i].rv, i)'
  <2>1. store[x] # Absent /\ stream'[i].rv = store[x].rv
    BY <1>1, <1>2 DEF Listed
  <2>2. \A p \in DOMAIN log : log[p].obj = x => ~(p > stream'[i].rv)
    BY <2>1, ListedStored, StateTypes
  <2> QED  BY <2>2 DEF Follows
<1>3. ASSUME NEW i \in DOMAIN stream', stream'[i].obj = x
      PROVE  \A j \in DOMAIN stream' : j < i => stream'[j].obj # x
  <2>1. \A j \in DOMAIN stream' : j < i => j # i
    BY DEF Listed
  <2> QED  BY <1>1, <1>3, <2>1 DEF Listed
<1> QED  BY <1>2, <1>3 DEF Unbroken

LEMMA StartWatchingKeeps ==
  ASSUME CacheInv, StartWatching  PROVE  CacheInv'
<1>1. /\ pc = "start" /\ pc' = "loop" /\ status = "none" /\ status' = "open"
      /\ stream' \in Listings(store)
      /\ UNCHANGED <<store, log, bookmark, cache, hand, ctxDone, breaksLeft, resumesLeft>>
      /\ UNCHANGED <<heard, disturbed, superseded, drained, disturbancesLeft>>
  BY DEF StartWatching, Open, boundVars, notifierVars
<1>2. stream = <<>> /\ bookmark' = 0 /\ \A o \in Objects : cache[o] = 0 /\ heard[o] = 0
  BY <1>1 DEF CacheInv, PhaseOK
<1>3. PICK k \in Nat : Listed(k)
  BY <1>1, OnlyListed
<1>4. StreamOK'
  BY <1>1, <1>2, <1>3, ListedKeepsStream
<1>5. \A x \in Objects : Unbroken(x)' /\ Broken(x)'
  <2>1. \A x \in Objects : ~Held(x)'
    BY <1>1 DEF Held
  <2> QED  BY <1>1, <1>2, <1>3, <2>1, ListedUnbroken, ListedBroken
<1>6. DeliveryOK'
  <2>1. \A x \in Objects : HeardOK(x)'
    BY <1>1, <1>2 DEF HeardOK, Held
  <2> QED  BY <1>5, <2>1 DEF DeliveryOK
<1>7. breaksLeft' \in 0 .. MaxBreaks /\ resumesLeft' \in 0 .. MaxResumes /\ NotifierTypes
  BY <1>1 DEF CacheInv, TypeOK, NotifierTypes
<1> QED  BY <1>1, <1>4, <1>6, <1>7, StreamKeeps

LEMMA RewatchKeeps ==
  ASSUME CacheInv, Rewatch  PROVE  CacheInv'
<1>1. /\ pc = "sleep" /\ pc' = "loop" /\ status' = "open" /\ bookmark' = 0
      /\ stream' \in Listings(store)
      /\ UNCHANGED <<store, log, cache, hand, ctxDone, breaksLeft, resumesLeft, disturbancesLeft>>
      /\ heard' = [o \in Objects |-> 0] /\ disturbed' = {} /\ superseded' = FALSE /\ drained' = FALSE
  BY DEF Rewatch, boundVars
<1>2. breaksLeft' # MaxBreaks
  BY <1>1 DEF CacheInv, PhaseOK
<1>3. PICK k \in Nat : Listed(k)
  BY <1>1, OnlyListed
<1>4. StreamOK'
  BY <1>1, <1>3, ListedKeepsStream
<1>5. \A x \in Objects : Broken(x)'
  BY <1>1, <1>3, ListedBroken
<1>6. DeliveryOK'
  <2>1. \A x \in Objects : HeardOK(x)'
    BY <1>1, <1>2 DEF HeardOK, Held
  <2> QED  BY <1>2, <1>5, <2>1 DEF DeliveryOK
<1>7. breaksLeft' \in 0 .. MaxBreaks /\ resumesLeft' \in 0 .. MaxResumes /\ NotifierTypes
  BY <1>1 DEF CacheInv, TypeOK, NotifierTypes
<1> QED  BY <1>1, <1>4, <1>6, <1>7, StreamKeeps

\* A listing in the middle, and the one of a connection that was taken over.
LEMMA RelistKeeps ==
  ASSUME CacheInv, (Relist /\ superseded' = superseded) \/ TakenOver,
         UNCHANGED <<adapterVars, heard, disturbed, drained, resumesLeft, disturbancesLeft>>,
         breaksLeft > 0, breaksLeft' = breaksLeft - 1
  PROVE  CacheInv'
<1>1. /\ status = "open" /\ status' = "open" /\ bookmark' = 0
      /\ UNCHANGED <<store, log, cache, hand, pc, ctxDone, resumesLeft>>
  BY DEF Relist, TakenOver, adapterVars
<1>2. /\ breaksLeft' \in 0 .. MaxBreaks /\ breaksLeft' # MaxBreaks /\ resumesLeft' \in 0 .. MaxResumes
      /\ NotifierTypes
  <2>1. superseded' \in BOOLEAN
    BY Zenon DEF CacheInv, TypeOK, TakenOver
  <2>2. /\ breaksLeft \in 0 .. MaxBreaks /\ resumesLeft \in 0 .. MaxResumes
        /\ disturbancesLeft \in 0 .. MaxDisturbances
        /\ heard \in [Objects -> Nat] /\ disturbed \subseteq Objects
    BY DEF CacheInv, TypeOK
  <2>3. drained \in BOOLEAN
    BY Zenon DEF CacheInv, TypeOK
  <2>4. breaksLeft' \in 0 .. MaxBreaks /\ breaksLeft' # MaxBreaks
    BY <2>2, CacheAdapterAssumption
  <2> QED  BY <1>1, <2>1, <2>2, <2>3, <2>4 DEF NotifierTypes
<1>3. PICK k \in Nat : Listed(k)
  BY ListedShape, OnlyListed DEF Relist, TakenOver
<1>4. StreamOK'
  BY <1>1, <1>3, ListedKeepsStream
<1>5. \A x \in Objects : Broken(x)'
  BY <1>1, <1>3, ListedBroken
<1>6. DeliveryOK'
  <2>1. \A x \in Objects : HeardOK(x) => HeardOK(x)'
    BY <1>1, <1>2, BrokenHeard
  <2> QED  BY <1>1, <1>2, <1>5, <2>1 DEF CacheInv, DeliveryOK
<1>7. pc' \notin {"start", "disabled", "failed", "sleep"}
  BY <1>1 DEF CacheInv, PhaseOK
<1> QED  BY <1>1, <1>2, <1>4, <1>6, <1>7, StreamKeeps

(***************************************************************************)
(* Every step of the adapter and of its cluster.                           *)
(***************************************************************************)
LEMMA InitCacheInv == AdapterInit => CacheInv
<1> SUFFICES ASSUME AdapterInit  PROVE CacheInv
  OBVIOUS
<1>1. /\ log = <<>> /\ stream = <<>> /\ store = [o \in Objects |-> Absent] /\ bookmark = 0
      /\ status = "none" /\ cache = [o \in Objects |-> 0] /\ pc = "start" /\ hand = NoEvent
      /\ ctxDone = FALSE /\ breaksLeft = MaxBreaks /\ resumesLeft = MaxResumes
      /\ heard = [o \in Objects |-> 0] /\ disturbed = {} /\ superseded = FALSE /\ drained = FALSE
      /\ disturbancesLeft = MaxDisturbances
  BY DEF AdapterInit, Init
<1>2. DOMAIN log = {} /\ DOMAIN stream = {} /\ log \in Seq(Event) /\ stream \in Seq(Event) /\ Len(log) = 0
  BY <1>1, EmptySeq
<1>3. LogOK /\ AddedOK
  BY <1>2 DEF LogOK, AddedOK
<1>4. StoreOK
  <2>1. Absent \in Versions
    BY DEF Absent, Versions
  <2>2. \A o \in Objects : Had(o) = {}
    BY <1>2 DEF Had
  <2>3. store \in [Objects -> Versions] /\ \A o \in Objects : store[o] = Absent
    BY <1>1, <2>1
  <2> QED  BY <2>2, <2>3 DEF StoreOK
<1>5. StreamOK
  BY <1>1, <1>2 DEF StreamOK
<1>6. PhaseOK
  BY <1>1 DEF PhaseOK
<1>7. TypeOK
  <2>1. cache \in [Objects -> Nat] /\ \A o \in Objects : cache[o] \in ({0} \cup Had(o)) \ TooLarge
    BY <1>1, CacheAdapterAssumption
  <2>2. /\ breaksLeft \in 0 .. MaxBreaks /\ resumesLeft \in 0 .. MaxResumes
        /\ disturbancesLeft \in 0 .. MaxDisturbances
    BY <1>1, CacheAdapterAssumption
  <2> QED  BY <1>1, <2>1, <2>2 DEF TypeOK, Pcs
<1>8. DeliveryOK
  BY <1>1 DEF DeliveryOK
<1> QED  BY <1>3, <1>4, <1>5, <1>6, <1>7, <1>8 DEF CacheInv, ClusterOK

LEMMA StepKeeps == CacheInv /\ [AdapterNext]_vars => CacheInv'
<1> SUFFICES ASSUME CacheInv, [AdapterNext]_vars  PROVE CacheInv'
  OBVIOUS
<1>0. /\ pc \in Pcs /\ ctxDone \in BOOLEAN /\ (status = "none" <=> pc \in {"start", "disabled", "failed"})
      /\ pc = "sleep" => status = "closed"
  BY DEF CacheInv, TypeOK, PhaseOK
<1>1. CASE Cluster
  <2>1. CASE \E o \in Objects, type \in {"ADDED", "MODIFIED", "DELETED"} : Change(type, o)
    BY <1>1, <2>1, ChangeKeeps DEF Cluster
  <2>2. CASE SendBookmark
    BY <1>1, <2>2, SendBookmarkKeeps DEF Cluster
  <2> QED  BY <1>1, <2>1, <2>2 DEF Cluster
<1>2. CASE ResumeStream
  BY <1>2, ResumeKeeps
<1>3. CASE Break
  BY <1>3, RelistKeeps, CloseKeeps DEF Break, notifierVars
<1>4. CASE Cancel
  <2>1. UNCHANGED <<streamVars, cache, hand, notifierVars, boundVars>> /\ ctxDone' \in BOOLEAN /\ pc' = pc
    BY <1>4 DEF Cancel
  <2> QED  BY <1>0, <2>1, QuietKeeps
<1>5. CASE Adapter
  <2>1. CASE TakeEvent
    BY <2>1, TakeKeeps
  <2>2. CASE SetModified
    BY <2>2, SetModifiedKeeps
  <2>3. CASE SeeClosed
    <3>1. /\ UNCHANGED <<streamVars, cache, hand, ctxDone, notifierVars, boundVars>>
          /\ pc = "loop" /\ pc' = "sleep" /\ status = "closed"
      BY <2>3 DEF SeeClosed
    <3> QED  BY <1>0, <3>1, QuietKeeps DEF Pcs
  <2>4. CASE Rewatch
    BY <2>4, RewatchKeeps
  <2>5. CASE RewatchFails
    <3>1. /\ UNCHANGED <<streamVars, cache, hand, ctxDone, notifierVars, boundVars>>
          /\ pc = "sleep" /\ pc' = "noHandler"
      BY <2>5 DEF RewatchFails
    <3> QED  BY <1>0, <3>1, QuietKeeps DEF Pcs
  <2>6. CASE ReadNilHandler
    <3>1. /\ UNCHANGED <<streamVars, cache, hand, ctxDone, notifierVars, boundVars>>
          /\ pc = "noHandler" /\ pc' = "panic"
      BY <2>6 DEF ReadNilHandler
    <3> QED  BY <1>0, <3>1, QuietKeeps DEF Pcs
  <2>7. CASE SeeDone
    <3>1. /\ UNCHANGED <<streamVars, cache, hand, ctxDone, notifierVars, boundVars>>
          /\ pc = "loop" /\ pc' = "done"
      BY <2>7 DEF SeeDone
    <3> QED  BY <1>0, <3>1, QuietKeeps DEF Pcs
  <2>8. CASE SkipEvent
    BY <2>8, SkipKeeps
  <2> QED  BY <1>5, <2>1, <2>2, <2>3, <2>4, <2>5, <2>6, <2>7, <2>8 DEF Adapter
<1>6. CASE StartWatching
  BY <1>6, StartWatchingKeeps
<1>7. CASE StartFails
  <2>1. /\ UNCHANGED <<streamVars, cache, hand, ctxDone, notifierVars, boundVars>>
        /\ pc = "start" /\ pc' \in {"disabled", "failed"}
    BY <1>7 DEF StartFails
  <2> QED  BY <1>0, <2>1, QuietKeeps DEF Pcs
<1>8. CASE \E o \in Objects : Evict(o)
  BY <1>8, EvictKeeps
<1>9. CASE UNCHANGED vars
  <2>1. UNCHANGED <<streamVars, cache, hand, notifierVars, boundVars>> /\ ctxDone' = ctxDone /\ pc' = pc
    BY <1>9 DEF vars, adapterVars
  <2> QED  BY <1>0, <2>1, QuietKeeps
<1>10. CASE LoseEvent \/ LateEvent
  BY <1>10, LoseKeeps, LateKeeps
<1> QED  BY <1>1, <1>2, <1>3, <1>4, <1>5, <1>6, <1>7, <1>8, <1>9, <1>10 DEF AdapterNext

LEMMA AlwaysCacheInv == AdapterSpec => []CacheInv
BY InitCacheInv, StepKeeps, PTL DEF AdapterSpec

(***************************************************************************)
(* What the cache holds (cache.go): only versions that an object has had,  *)
(* never one that is too large, however the connection breaks.             *)
(***************************************************************************)
THEOREM CacheHoldsVersions == AdapterSpec => []TypeOK
<1>1. CacheInv => TypeOK
  BY DEF CacheInv
<1> QED  BY <1>1, AlwaysCacheInv, PTL

(***************************************************************************)
(* An entry that differs from the cluster is about to be replaced or       *)
(* removed (adapterForCache.go 127-174) by an event that the notifier will *)
(* not skip, unless the connection broke or was taken over and the object  *)
(* was deleted meanwhile or is too large now.  Nothing is said of an       *)
(* object of which, since the last Watch, an older event came late or one  *)
(* was lost to the timer of another client (kubeWatchServiceShared.go      *)
(* 263-269, 385).                                                          *)
(***************************************************************************)
THEOREM StaleEntriesAreFollowed == AdapterSpec => []StaleOnlyIfLost
<1>1. CacheInv => StaleOnlyIfLost
  <2> SUFFICES ASSUME CacheInv, Listening, NEW o \in Objects \ disturbed,
                      cache[o] \notin {0, store[o].rv}, ~Coming(o, cache[o])
               PROVE  breaksLeft # MaxBreaks /\ (store[o] = Absent \/ store[o].rv \in TooLarge)
    BY DEF StaleOnlyIfLost
  <2>1. HeardOK(o) /\ IF breaksLeft = MaxBreaks THEN Unbroken(o) ELSE Broken(o)
    BY DEF Listening, CacheInv, DeliveryOK
  <2>2. cache[o] \in Nat /\ cache[o] \in Had(o) /\ \A i \in DOMAIN stream : stream[i].rv \in Nat
    BY StateTypes
  <2>3. store[o] # Absent => store[o].rv \in DOMAIN log /\ log[store[o].rv].obj = o /\ store[o].rv > cache[o]
    <3> SUFFICES ASSUME store[o] # Absent
                 PROVE  store[o].rv \in DOMAIN log /\ log[store[o].rv].obj = o /\ store[o].rv > cache[o]
      OBVIOUS
    <3>1. /\ store[o].rv \in DOMAIN log /\ store[o].rv \in Nat /\ log[store[o].rv].obj = o
          /\ \A p \in DOMAIN log : log[p].obj = o => p <= store[o].rv
      BY ListedStored
    <3>2. cache[o] \in DOMAIN log /\ log[cache[o]].obj = o
      BY <2>2 DEF Had
    <3> QED  BY <2>2, <3>1, <3>2
  <2>4. breaksLeft # MaxBreaks
    <3> SUFFICES ASSUME breaksLeft = MaxBreaks  PROVE FALSE
      OBVIOUS
    <3>1. PICK p \in DOMAIN log : p > cache[o] /\ log[p].obj = o
      BY <2>2, <2>3 DEF CacheInv, ClusterOK, StoreOK
    <3>2. Follows(o, cache[o], 0)
      BY <2>1 DEF Unbroken
    <3>3. \E n \in DOMAIN stream : stream[n].obj = o /\ stream[n].rv = p
      BY <3>1, <3>2 DEF Follows
    <3>4. p # heard[o]
      BY <2>1, <2>2, <3>1, StateTypes DEF HeardOK
    <3> QED  BY <3>1, <3>3, <3>4 DEF Coming
  <2>5. store[o] = Absent \/ store[o].rv \in TooLarge
    <3> SUFFICES ASSUME store[o] # Absent, store[o].rv \notin TooLarge  PROVE FALSE
      OBVIOUS
    <3>1. Reached(o, cache[o], 0)
      BY <2>1, <2>4 DEF Broken
    <3>2. \E n \in DOMAIN stream : stream[n].obj = o /\ stream[n].rv = store[o].rv
      BY <3>1 DEF Reached
    <3>3. store[o].rv # heard[o]
      BY <2>1, <2>2, <2>3 DEF HeardOK
    <3> QED  BY <2>3, <3>2, <3>3 DEF Coming
  <2> QED  BY <2>4, <2>5
<1> QED  BY <1>1, AlwaysCacheInv, PTL
=============================================================================
