-------------------------- MODULE SharedWatchProofs --------------------------
(***************************************************************************)
(* Theorems about SharedWatch, for any number of Watch calls, objects,     *)
(* versions and stopping goroutines.                                       *)
(***************************************************************************)
EXTENDS SharedWatchProperties, FiniteSetTheorems, SequenceTheorems, TLAPS

USE DEF Id, None, Server, Procs, Free, WatchCall

-----------------------------------------------------------------------------
(***************************************************************************)
(* Type correctness.                                                       *)
(***************************************************************************)
LEMMA NsStays == NsTypeOK /\ UNCHANGED nsVars => NsTypeOK'
  BY DEF NsTypeOK, nsVars
LEMMA NotifierStays == NotifierTypeOK /\ UNCHANGED notifierVars => NotifierTypeOK'
  BY DEF NotifierTypeOK, notifierVars
LEMMA ProcStays == ProcTypeOK /\ UNCHANGED procVars => ProcTypeOK'
  BY DEF ProcTypeOK, procVars
LEMMA WorkStays == WorkTypeOK /\ UNCHANGED workVars => WorkTypeOK'
  BY DEF WorkTypeOK, workVars
LEMMA ClientStays == ClientTypeOK /\ UNCHANGED clientVars => ClientTypeOK'
  BY DEF ClientTypeOK, clientVars
LEMMA ConnectionStays == ConnectionTypeOK /\ UNCHANGED connectionVars => ConnectionTypeOK'
  BY DEF ConnectionTypeOK, connectionVars
LEMMA ClusterStays == ClusterTypeOK /\ UNCHANGED clusterVars => ClusterTypeOK'
  BY DEF ClusterTypeOK, clusterVars, boundVars

LEMMA InitTypeOK == Init => TypeOK
  <1> SUFFICES ASSUME Init PROVE TypeOK
    OBVIOUS
  <1> USE ConstantsAssumption DEF Init
  <1>1. NsTypeOK  BY DEF NsTypeOK
  <1>2. NotifierTypeOK  BY DEF NotifierTypeOK, NotProcessed
  <1>3. ProcTypeOK  BY DEF ProcTypeOK, PCs
  <1>4. WorkTypeOK  BY DEF WorkTypeOK, NoEvent, Bookmark, Event, EventTypes
  <1>5. ClientTypeOK  BY DEF ClientTypeOK
  <1>6. ConnectionTypeOK  BY DEF ConnectionTypeOK
  <1>7. ClusterTypeOK  BY DEF ClusterTypeOK, Absent
  <1> QED  BY <1>1, <1>2, <1>3, <1>4, <1>5, <1>6, <1>7 DEF TypeOK

\* A listing is a sequence of events, none of them a BOOKMARK.
LEMMA ListingsType ==
  ASSUME ClusterTypeOK, NEW list \in Listings(store)
  PROVE  list \in Seq(Event) /\ list \in Seq(Ordinary)
  <1> DEFINE Present == {o \in Objects : store[o] # Absent}
  <1>1. IsFiniteSet(Present)  BY ObjectsAssumption, FS_Subset
  <1>2. Cardinality(Present) \in Nat  BY <1>1, FS_CardinalityType
  <1>3. PICK names \in SetToSeqs(Present) :
          list = [i \in DOMAIN names |-> EventOf("ADDED", names[i], store[names[i]])]
    BY DEF Listings
  <1>4. names \in [1 .. Cardinality(Present) -> Present]  BY <1>3 DEF SetToSeqs
  <1>5. \A i \in 1 .. Cardinality(Present) :
          EventOf("ADDED", names[i], store[names[i]]) \in Ordinary
    BY <1>4 DEF ClusterTypeOK, EventOf, Event, Ordinary
  <1>6. list \in [1 .. Cardinality(Present) -> Ordinary]  BY <1>3, <1>4, <1>5
  <1>7. list \in [1 .. Cardinality(Present) -> Event]  BY <1>6 DEF Ordinary
  <1> QED  BY <1>2, <1>6, <1>7, SeqDef, ZenonT(30)

\* What is left of a stream is a stream.
LEMMA BufferedType ==
  ASSUME ConnectionTypeOK, NEW k \in Id, NEW kept \in Buffered(stream[k])
  PROVE  kept \in Seq(Event)
  <1>1. PICK n \in {m \in 0 .. 1 : m <= Len(stream[k])} : kept = SubSeq(stream[k], 1, n)
    BY DEF Buffered
  <1>2. stream[k] \in Seq(Event)  BY DEF ConnectionTypeOK
  <1> QED  BY <1>1, <1>2

\* So is what is left of it without its BOOKMARK, and what is sent again.
LEMMA ForgottenType ==
  ASSUME NEW kept \in Seq(Event)
  PROVE  /\ Forgotten(kept) \in Seq(Event)
         /\ kept \in Seq(Ordinary) => Forgotten(kept) \in Seq(Ordinary)
  <1>1. Bookmark(0) \in Event  BY DEF Bookmark, Event
  <1>2. Forgotten(kept) \in Seq(Event)  BY <1>1 DEF Forgotten
  <1>3. ASSUME kept \in Seq(Ordinary) PROVE Forgotten(kept) \in Seq(Ordinary)
    BY <1>3 DEF Forgotten, Ordinary
  <1> QED  BY <1>2, <1>3

LEMMA ReplayType ==
  ASSUME ClusterTypeOK, NEW b \in Nat
  PROVE  Replay(log, b) \in Seq(Event) /\ Replay(log, b) \in Seq(Ordinary)
  <1>1. log \in Seq(Ordinary) /\ log \in Seq(Event)
    BY DEF ClusterTypeOK, Ordinary
  <1> QED  BY <1>1 DEF Replay

LEMMA LastBookmarkType ==
  ASSUME NEW kept \in Seq(Event), NEW b \in Nat PROVE LastBookmark(kept, b) \in Nat
  <1>1. kept # <<>> => Head(kept) \in Event
    BY HeadTailProperties
  <1> QED  BY <1>1 DEF LastBookmark, Event

LEMMA Groups ==
  ASSUME TypeOK
  PROVE  /\ NsTypeOK /\ NotifierTypeOK /\ ProcTypeOK /\ WorkTypeOK
         /\ ClientTypeOK /\ ConnectionTypeOK /\ ClusterTypeOK
  BY DEF TypeOK

LEMMA ServerIsProc == \A k \in Id : Server(k) \in Procs
  OBVIOUS
LEMMA StopIsProc == \A s \in StopKinds, c \in Id : <<s, c>> \in Procs
  OBVIOUS

\* The cluster and the connections.
LEMMA ChangeTypeOK ==
  ASSUME TypeOK, NEW o \in Objects, NEW type \in EventTypes \ {"BOOKMARK"}, NEW gens \in SUBSET Nat,
         Change(type, o, gens)
  PROVE  TypeOK'
  <1>1. PICK g \in gens :
          LET obj == [rv |-> version + 1, gen |-> IF HasGeneration THEN g ELSE 0]
          IN  /\ store' = [store EXCEPT ![o] = IF type = "DELETED" THEN Absent ELSE obj]
              /\ log' = Append(log, EventOf(type, o, obj))
              /\ Offer(EventOf(type, o, obj))
    BY DEF Change
  <1> DEFINE obj == [rv |-> version + 1, gen |-> IF HasGeneration THEN g ELSE 0]
  <1>2. version \in Nat /\ g \in Nat
    BY LenProperties DEF TypeOK, ClusterTypeOK, version
  <1>3. obj \in [rv : Nat, gen : Nat]
    BY <1>2
  <1>4. EventOf(type, o, obj) \in Event /\ EventOf(type, o, obj) \in Ordinary
    BY <1>3 DEF EventOf, Event, EventTypes, Ordinary
  <1>5. ClusterTypeOK'
    <2>1. log' \in Seq(Ordinary)
      BY <1>1, <1>4, AppendProperties DEF TypeOK, ClusterTypeOK
    <2>2. store' \in [Objects -> [rv : Nat, gen : Nat]]
      BY <1>1, <1>3 DEF TypeOK, ClusterTypeOK, Absent
    <2> QED  BY <2>1, <2>2 DEF TypeOK, ClusterTypeOK, Change, boundVars
  <1>6. ConnectionTypeOK'
    <2>1. \A k \in Id : Append(stream[k], EventOf(type, o, obj)) \in Seq(Event)
      BY <1>4, AppendProperties DEF TypeOK, ConnectionTypeOK
    <2>2. stream' \in [Id -> Seq(Event)]
      BY <1>1, <2>1 DEF Offer, TypeOK, ConnectionTypeOK
    <2> QED  BY <2>2 DEF TypeOK, ConnectionTypeOK, Change
  <1> QED
    BY <1>5, <1>6, NsStays, NotifierStays, ProcStays, WorkStays, ClientStays
    DEF TypeOK, Change

LEMMA ClusterStepTypeOK == TypeOK /\ Cluster => TypeOK'
  <1> SUFFICES ASSUME TypeOK, NEW o \in Objects, Create(o) \/ Modify(o) \/ Delete(o)
               PROVE  TypeOK'
    BY DEF Cluster
  <1>0. store[o] \in [rv : Nat, gen : Nat]
    BY DEF TypeOK, ClusterTypeOK
  <1>1. {1} \in SUBSET Nat /\ {store[o].gen, store[o].gen + 1} \in SUBSET Nat
        /\ {store[o].gen} \in SUBSET Nat
    BY <1>0
  <1>2. \E type \in EventTypes \ {"BOOKMARK"}, gens \in SUBSET Nat : Change(type, o, gens)
    BY <1>1 DEF Create, Modify, Delete, EventTypes
  <1> QED  BY <1>2, ChangeTypeOK

LEMMA SendBookmarkTypeOK ==
  ASSUME TypeOK, NEW k \in Id, SendBookmark(k) PROVE TypeOK'
  <1>g. /\ NsTypeOK /\ NotifierTypeOK /\ ProcTypeOK /\ WorkTypeOK
        /\ ClientTypeOK /\ ConnectionTypeOK /\ ClusterTypeOK
    BY Groups
  <1>1. Bookmark(version) \in Event
    BY <1>g, LenProperties DEF Bookmark, Event, ClusterTypeOK, version
  <1>2. ConnectionTypeOK'
    BY <1>g, <1>1, AppendProperties DEF SendBookmark, ConnectionTypeOK
  <1>3. ClusterTypeOK'
    <2>1. ClusterTypeOK  BY DEF TypeOK
    <2> QED  BY <2>1 DEF SendBookmark, ClusterTypeOK
  <1> QED
    BY <1>2, <1>3, NsStays, NotifierStays, ProcStays, WorkStays, ClientStays
    DEF SendBookmark, TypeOK

LEMMA RelistTypeOK ==
  ASSUME TypeOK, NEW k \in Id, Relist(k) PROVE TypeOK'
  <1>g. /\ NsTypeOK /\ NotifierTypeOK /\ ProcTypeOK /\ WorkTypeOK
        /\ ClientTypeOK /\ ConnectionTypeOK /\ ClusterTypeOK
    BY Groups
  <1>1. PICK kept \in Buffered(stream[k]), list \in Listings(store) :
          stream' = [stream EXCEPT ![k] = Forgotten(kept) \o list]
    BY DEF Relist
  <1>2. Forgotten(kept) \o list \in Seq(Event)
    BY ListingsType, BufferedType, ForgottenType, ConcatProperties DEF TypeOK
  <1>3. ConnectionTypeOK'  BY <1>g, <1>1, <1>2 DEF Relist, ConnectionTypeOK
  <1>4. ClusterTypeOK'
    <2>1. ClusterTypeOK  BY DEF TypeOK
    <2> QED  BY <2>1 DEF Relist, ClusterTypeOK
  <1> QED
    BY <1>3, <1>4, NsStays, NotifierStays, ProcStays, WorkStays, ClientStays
    DEF Relist, TypeOK

LEMMA ResumeTypeOK ==
  ASSUME TypeOK, NEW k \in Id, Resume(k) PROVE TypeOK'
  <1>g. /\ NsTypeOK /\ NotifierTypeOK /\ ProcTypeOK /\ WorkTypeOK
        /\ ClientTypeOK /\ ConnectionTypeOK /\ ClusterTypeOK
    BY Groups
  <1>1. PICK kept \in Buffered(stream[k]) :
          stream' = [stream EXCEPT ![k] =
                       kept \o Replay(log, LastBookmark(kept, bookmark[k]))]
    BY DEF Resume
  <1>2. kept \o Replay(log, LastBookmark(kept, bookmark[k])) \in Seq(Event)
    BY <1>g, BufferedType, LastBookmarkType, ReplayType, ConcatProperties
    DEF ConnectionTypeOK
  <1>3. ConnectionTypeOK'  BY <1>g, <1>1, <1>2 DEF Resume, ConnectionTypeOK
  <1>4. ClusterTypeOK'
    <2>1. ClusterTypeOK  BY DEF TypeOK
    <2> QED  BY <2>1 DEF Resume, ClusterTypeOK
  <1> QED
    BY <1>3, <1>4, NsStays, NotifierStays, ProcStays, WorkStays, ClientStays
    DEF Resume, TypeOK

LEMMA CloseConnectionTypeOK ==
  ASSUME TypeOK, NEW k \in Id, CloseConnection(k) PROVE TypeOK'
  <1>g. /\ NsTypeOK /\ NotifierTypeOK /\ ProcTypeOK /\ WorkTypeOK
        /\ ClientTypeOK /\ ConnectionTypeOK /\ ClusterTypeOK
    BY Groups
  <1>1. ConnectionTypeOK'
    BY <1>g, BufferedType DEF CloseConnection, ConnectionTypeOK
  <1> QED
    BY <1>1, NsStays, NotifierStays, ProcStays, WorkStays, ClientStays, ClusterStays
    DEF CloseConnection, TypeOK

\* Watch.
LEMMA WatchTypeOK ==
  ASSUME TypeOK, Watch PROVE TypeOK'
  <1>g. /\ NsTypeOK /\ NotifierTypeOK /\ ProcTypeOK /\ WorkTypeOK
        /\ ClientTypeOK /\ ConnectionTypeOK /\ ClusterTypeOK
    BY Groups
  <1>1. CASE WatchBegin
    <2>1. NsTypeOK'  BY <1>g, <1>1, ConstantsAssumption DEF WatchBegin, NsTypeOK
    <2> QED
      BY <1>1, <2>1, NotifierStays, ProcStays, WorkStays, ClientStays,
         ConnectionStays, ClusterStays
      DEF WatchBegin, TypeOK
  <1>2. CASE WatchFail
    <2>1. NsTypeOK'  BY <1>g, <1>2, ConstantsAssumption DEF WatchFail, NsTypeOK
    <2>2. ClusterTypeOK'  BY <1>g, <1>2 DEF WatchFail, ClusterTypeOK
    <2> QED
      BY <1>2, <2>1, <2>2, NotifierStays, ProcStays, WorkStays, ClientStays,
         ConnectionStays
      DEF WatchFail, TypeOK
  <1>3. CASE WatchSucceed
    <2>1. NsTypeOK'  BY <1>g, <1>3, ConstantsAssumption DEF WatchSucceed, NsTypeOK
    <2>2. NotifierTypeOK'
      BY <1>g, <1>3, ConstantsAssumption DEF WatchSucceed, NsTypeOK, NotifierTypeOK
    <2>3. ProcTypeOK'  BY <1>g, <1>3 DEF WatchSucceed, ProcTypeOK, PCs
    <2>4. ClientTypeOK'  BY <1>g, <1>3 DEF WatchSucceed, ClientTypeOK
    <2>5. ConnectionTypeOK'
      BY <1>g, <1>3, ListingsType DEF WatchSucceed, ConnectionTypeOK
    <2> QED
      BY <1>3, <2>1, <2>2, <2>3, <2>4, <2>5, WorkStays, ClusterStays
      DEF WatchSucceed, TypeOK
  <1> QED  BY <1>1, <1>2, <1>3 DEF Watch

\* The recursion, for the goroutines of both kinds.
LEMMA DescendTypeOK ==
  ASSUME TypeOK, NEW p \in Procs, Descend(p) PROVE TypeOK'
  <1>g. /\ NsTypeOK /\ NotifierTypeOK /\ ProcTypeOK /\ WorkTypeOK
        /\ ClientTypeOK /\ ConnectionTypeOK /\ ClusterTypeOK
    BY Groups
  <1>1. next[p] \in Id
    BY <1>g, ConstantsAssumption DEF Descend, ProcTypeOK
  <1>2. Below(next[p]) \in 0 .. MaxWatches
    BY <1>g, <1>1 DEF Below, NotifierTypeOK
  <1>3. ProcTypeOK'
    BY <1>g, <1>1, <1>2, ConstantsAssumption DEF Descend, ProcTypeOK
  <1> QED
    BY <1>3, NsStays, NotifierStays, WorkStays, ClientStays, ConnectionStays, ClusterStays
    DEF Descend, TypeOK

-----------------------------------------------------------------------------
\* The reader of a connection.
LEMMA ReceiveTypeOK ==
  ASSUME TypeOK, NEW k \in Id, Receive(k) PROVE TypeOK'
  <1>g. /\ NsTypeOK /\ NotifierTypeOK /\ ProcTypeOK /\ WorkTypeOK
        /\ ClientTypeOK /\ ConnectionTypeOK /\ ClusterTypeOK
    BY Groups
  <1>1. stream[k] \in Seq(Event) /\ stream[k] # <<>>
    BY <1>g DEF Receive, ConnectionTypeOK
  <1>2. Head(stream[k]) \in Event /\ Tail(stream[k]) \in Seq(Event)
    BY <1>1, HeadTailProperties
  <1>3. ForwardedType(Head(stream[k])) \in EventTypes \cup {"PREVIOUS"}
    BY <1>2 DEF ForwardedType, Event, EventTypes
  <1>4. WorkTypeOK'
    BY <1>g, <1>2, <1>3 DEF Receive, WorkTypeOK
  <1>5. ConnectionTypeOK'
    <2>1. LastBookmark(stream[k], bookmark[k]) \in Nat
      BY <1>g, <1>1, LastBookmarkType DEF ConnectionTypeOK
    <2> QED  BY <1>g, <1>2, <2>1 DEF Receive, ConnectionTypeOK
  <1>6. ProcTypeOK'
    BY <1>g, ConstantsAssumption DEF Receive, Call, ProcTypeOK, PCs
  <1> QED
    BY <1>4, <1>5, <1>6, NsStays, NotifierStays, ClientStays, ClusterStays
    DEF Receive, TypeOK

LEMMA CountedTypeOK ==
  ASSUME TypeOK, NEW k \in Id, Counted(k) PROVE TypeOK'
  <1>g. /\ NsTypeOK /\ NotifierTypeOK /\ ProcTypeOK /\ WorkTypeOK
        /\ ClientTypeOK /\ ConnectionTypeOK /\ ClusterTypeOK
    BY Groups
  <1>1. ProcTypeOK'
    BY <1>g, ConstantsAssumption DEF Counted, Call, ProcTypeOK, PCs
  <1> QED
    BY <1>1, NsStays, NotifierStays, WorkStays, ClientStays, ConnectionStays, ClusterStays
    DEF Counted, TypeOK

LEMMA ExitCancelledTypeOK ==
  ASSUME TypeOK, NEW k \in Id, ExitCancelled(k) PROVE TypeOK'
  <1>g. /\ NsTypeOK /\ NotifierTypeOK /\ ProcTypeOK /\ WorkTypeOK
        /\ ClientTypeOK /\ ConnectionTypeOK /\ ClusterTypeOK
    BY Groups
  <1>1. ProcTypeOK'
    BY <1>g DEF ExitCancelled, Exit, ProcTypeOK, PCs
  <1>2. ConnectionTypeOK'
    BY <1>g, EmptySeq DEF ExitCancelled, Exit, ConnectionTypeOK
  <1> QED
    BY <1>1, <1>2, NsStays, NotifierStays, WorkStays, ClientStays, ClusterStays
    DEF ExitCancelled, TypeOK

LEMMA SeeClosedTypeOK ==
  ASSUME TypeOK, NEW k \in Id, SeeClosed(k) PROVE TypeOK'
  <1>g. /\ NsTypeOK /\ NotifierTypeOK /\ ProcTypeOK /\ WorkTypeOK
        /\ ClientTypeOK /\ ConnectionTypeOK /\ ClusterTypeOK
    BY Groups
  <1>1. ProcTypeOK'
    BY <1>g DEF SeeClosed, ProcTypeOK, PCs
  <1> QED
    BY <1>1, NsStays, NotifierStays, WorkStays, ClientStays, ConnectionStays, ClusterStays
    DEF SeeClosed, TypeOK

\* acceptEvent.
LEMMA ReturnTypeOK ==
  ASSUME ProcTypeOK, NEW k \in Id, NEW n \in Id, Return(k, n), next' = next
  PROVE  ProcTypeOK'
  BY DEF Return, ProcTypeOK, PCs

LEMMA SkipEventTypeOK ==
  ASSUME TypeOK, NEW k \in Id, NEW n \in Id, SkipEvent(k, n) PROVE TypeOK'
  <1>g. /\ NsTypeOK /\ NotifierTypeOK /\ ProcTypeOK /\ WorkTypeOK
        /\ ClientTypeOK /\ ConnectionTypeOK /\ ClusterTypeOK
    BY Groups
  <1>1. ProcTypeOK'  BY ReturnTypeOK DEF SkipEvent, TypeOK
  <1> QED
    BY <1>1, NsStays, NotifierStays, WorkStays, ClientStays, ConnectionStays, ClusterStays
    DEF SkipEvent, TypeOK

\* An event that is not a BOOKMARK names an object.
LEMMA ProcessEventTypeOK ==
  ASSUME TypeOK, NEW k \in Id, NEW n \in Id, ProcessEvent(k, n) PROVE TypeOK'
  <1>g. /\ NsTypeOK /\ NotifierTypeOK /\ ProcTypeOK /\ WorkTypeOK
        /\ ClientTypeOK /\ ConnectionTypeOK /\ ClusterTypeOK
    BY Groups
  <1> DEFINE e == event[k]
             type == IF n = k THEN e.type
                     ELSE Resolve(forwarded[k], processedVersions[n][e.obj])
  <1>1. e \in Event /\ forwarded[k] \in EventTypes \cup {"PREVIOUS"}
    BY <1>g DEF WorkTypeOK
  <1>2. type \in EventTypes
    BY <1>1 DEF Resolve, Event, EventTypes
  <1>3. e.rv \in Nat /\ e.obj \in Objects \cup {NoObject}
    BY <1>1 DEF Event
  <1>4. processedVersions' =
          [processedVersions EXCEPT ![n][e.obj] = [rv |-> e.rv, type |-> type]]
    BY DEF ProcessEvent
  <1>5. processedVersions' \in
          [Id -> [Objects -> [rv : Nat, type : EventTypes \cup {"none"}]]]
    BY <1>g, <1>2, <1>3, <1>4 DEF NotifierTypeOK
  <1>6. NotifierTypeOK'
    BY <1>g, <1>5 DEF ProcessEvent, NotifierTypeOK
  <1>7. WorkTypeOK'
    <2>1. Interested(n, e) \in SUBSET Id
      BY <1>g DEF Interested, NotifierTypeOK
    <2> QED
      BY <1>g, <1>2, <2>1 DEF ProcessEvent, WorkTypeOK
  <1>8. ProcTypeOK'
    BY <1>g DEF ProcessEvent, ProcTypeOK, PCs
  <1> QED
    BY <1>6, <1>7, <1>8, NsStays, ClientStays, ConnectionStays, ClusterStays
    DEF ProcessEvent, TypeOK

LEMMA DrainBookmarkTypeOK ==
  ASSUME TypeOK, NEW k \in Id, DrainBookmark(k) PROVE TypeOK'
  <1>g. /\ NsTypeOK /\ NotifierTypeOK /\ ProcTypeOK /\ WorkTypeOK
        /\ ClientTypeOK /\ ConnectionTypeOK /\ ClusterTypeOK
    BY Groups
  <1>1. clientsMap' \in [Id -> SUBSET Id]
    <2>1. Chain(k) \subseteq Id  BY DEF Chain
    <2>2. UNION {clientsMap[n] : n \in Chain(k)} \in SUBSET Id
      BY <1>g, <2>1 DEF NotifierTypeOK
    <2> QED  BY <1>g, <2>2 DEF DrainBookmark, NotifierTypeOK
  <1>2. previousNotifier' \in [Id -> 0 .. MaxWatches]
    BY <1>g, ConstantsAssumption DEF DrainBookmark, Drained, NotifierTypeOK
  <1>3. processedVersions' \in
          [Id -> [Objects -> [rv : Nat, type : EventTypes \cup {"none"}]]]
    BY <1>g DEF DrainBookmark, NotifierTypeOK, NotProcessed
  <1>4. NotifierTypeOK'
    BY <1>1, <1>2, <1>3 DEF NotifierTypeOK
  <1>5. WorkTypeOK'
    BY <1>g, <1>1 DEF DrainBookmark, WorkTypeOK
  <1>6. ProcTypeOK'
    BY <1>g DEF DrainBookmark, ProcTypeOK, PCs
  <1> QED
    BY <1>4, <1>5, <1>6, NsStays, ClientStays, ConnectionStays, ClusterStays
    DEF DrainBookmark, TypeOK

\* sendToClients.  The internal type PREVIOUS has been resolved when an older
\* notifier sends: what TypeOK needs to be inductive.
Resolved ==
  \A k, n \in Id :
    pc[Server(k)] = "send" =>
      /\ next[Server(k)] = None
      /\ InFrame(Server(k), "send", n) /\ n # k => forwarded[k] # "PREVIOUS"

LEMMA SendOkTypeOK ==
  ASSUME TypeOK, Resolved, NEW k \in Id, NEW n \in Id, NEW c \in Id, SendOk(k, n, c)
  PROVE  TypeOK'
  <1>g. /\ NsTypeOK /\ NotifierTypeOK /\ ProcTypeOK /\ WorkTypeOK
        /\ ClientTypeOK /\ ConnectionTypeOK /\ ClusterTypeOK
    BY Groups
  <1>1. InFrame(Server(k), "send", n) /\ pc[Server(k)] = "send"
    BY DEF SendOk, Visits, InFrame
  <1>2. event[k] \in Event /\ forwarded[k] \in EventTypes \cup {"PREVIOUS"}
    BY <1>g DEF WorkTypeOK
  <1>3. n # k => forwarded[k] \in EventTypes
    BY <1>1, <1>2 DEF Resolved
  <1>4. cancelled[k] \in BOOLEAN
    BY <1>g DEF NsTypeOK
  <1>5. Entry(k, n) \in Received
    BY <1>2, <1>3, <1>4 DEF Entry, Event, Received, EventTypes
  <1>6. \A d \in Id : Append(received[d], Entry(k, n)) \in Seq(Received)
    BY <1>g, <1>5, AppendProperties DEF ClientTypeOK
  <1>7. ClientTypeOK'
    BY <1>g, <1>6 DEF SendOk, ClientTypeOK
  <1>8. WorkTypeOK'
    BY <1>g DEF SendOk, WorkTypeOK
  <1> QED
    BY <1>7, <1>8, NsStays, NotifierStays, ProcStays, ConnectionStays, ClusterStays
    DEF SendOk, TypeOK

LEMMA SendTimeoutTypeOK ==
  ASSUME TypeOK, NEW k \in Id, NEW n \in Id, NEW c \in Id, SendTimeout(k, n, c)
  PROVE  TypeOK'
  <1>g. /\ NsTypeOK /\ NotifierTypeOK /\ ProcTypeOK /\ WorkTypeOK
        /\ ClientTypeOK /\ ConnectionTypeOK /\ ClusterTypeOK
    BY Groups
  <1>1. ClientTypeOK'  BY <1>g DEF SendTimeout, ClientTypeOK
  <1>2. NotifierTypeOK'  BY <1>g DEF SendTimeout, Without, NotifierTypeOK
  <1>3. WorkTypeOK'  BY <1>g DEF SendTimeout, WorkTypeOK
  <1> QED
    BY <1>1, <1>2, <1>3, NsStays, ProcStays, ConnectionStays, ClusterStays
    DEF SendTimeout, TypeOK

LEMMA SendClosedTypeOK ==
  ASSUME TypeOK, NEW k \in Id, NEW n \in Id, NEW c \in Id, SendClosed(k, n, c)
  PROVE  TypeOK'
  BY NsStays, NotifierStays, ProcStays, WorkStays, ClientStays, ConnectionStays,
     ClusterStays
  DEF SendClosed, TypeOK

LEMMA SendDoneTypeOK ==
  ASSUME TypeOK, NEW k \in Id, NEW n \in Id, SendDone(k, n) PROVE TypeOK'
  <1>g. /\ NsTypeOK /\ NotifierTypeOK /\ ProcTypeOK /\ WorkTypeOK
        /\ ClientTypeOK /\ ConnectionTypeOK /\ ClusterTypeOK
    BY Groups
  <1>1. WorkTypeOK'  BY <1>g DEF SendDone, WorkTypeOK
  <1>2. ProcTypeOK'  BY <1>g, ReturnTypeOK DEF SendDone
  <1> QED
    BY <1>1, <1>2, NsStays, NotifierStays, ClientStays, ConnectionStays, ClusterStays
    DEF SendDone, TypeOK

\* cleanupOnHandlerClosed.
LEMMA CleanupBeginTypeOK ==
  ASSUME TypeOK, NEW k \in Id, CleanupBegin(k) PROVE TypeOK'
  <1>g. /\ NsTypeOK /\ NotifierTypeOK /\ ProcTypeOK /\ WorkTypeOK
        /\ ClientTypeOK /\ ConnectionTypeOK /\ ClusterTypeOK
    BY Groups
  <1>1. NsTypeOK'  BY <1>g DEF CleanupBegin, NsTypeOK
  <1>2. ProcTypeOK'
    BY <1>g, ConstantsAssumption DEF CleanupBegin, Call, ProcTypeOK, PCs
  <1> QED
    BY <1>1, <1>2, NotifierStays, WorkStays, ClientStays, ConnectionStays, ClusterStays
    DEF CleanupBegin, TypeOK

LEMMA CleanupEndTypeOK ==
  ASSUME TypeOK, NEW k \in Id, CleanupEnd(k) PROVE TypeOK'
  <1>g. /\ NsTypeOK /\ NotifierTypeOK /\ ProcTypeOK /\ WorkTypeOK
        /\ ClientTypeOK /\ ConnectionTypeOK /\ ClusterTypeOK
    BY Groups
  <1>1. NsTypeOK'  BY <1>g DEF CleanupEnd, NsTypeOK
  <1>2. ProcTypeOK'  BY <1>g DEF CleanupEnd, Exit, ProcTypeOK, PCs
  <1>3. ClientTypeOK'  BY <1>g DEF CleanupEnd, ClientTypeOK
  <1>4. NotifierTypeOK'  BY <1>g DEF CleanupEnd, NotifierTypeOK
  <1>5. ConnectionTypeOK'  BY <1>g, EmptySeq DEF CleanupEnd, Exit, ConnectionTypeOK
  <1>6. crash' \in {"no", "closed channel", "nil handler"}
    BY DEF CleanupEnd, TypeOK
  <1> QED
    BY <1>1, <1>2, <1>3, <1>4, <1>5, <1>6, WorkStays, ClusterStays
    DEF CleanupEnd, TypeOK

\* StopWatching.
LEMMA StopCalledTypeOK ==
  ASSUME TypeOK, NEW s \in StopKinds, NEW c \in Id, StopCalled(s, c) PROVE TypeOK'
  <1>g. /\ NsTypeOK /\ NotifierTypeOK /\ ProcTypeOK /\ WorkTypeOK
        /\ ClientTypeOK /\ ConnectionTypeOK /\ ClusterTypeOK
    BY Groups
  <1>1. ProcTypeOK'  BY <1>g DEF StopCalled, ProcTypeOK, PCs
  <1> QED
    BY <1>1, NsStays, NotifierStays, WorkStays, ClientStays, ConnectionStays, ClusterStays
    DEF StopCalled, TypeOK

LEMMA StopBeginTypeOK ==
  ASSUME TypeOK, NEW s \in StopKinds, NEW c \in Id, StopBegin(s, c) PROVE TypeOK'
  <1>g. /\ NsTypeOK /\ NotifierTypeOK /\ ProcTypeOK /\ WorkTypeOK
        /\ ClientTypeOK /\ ConnectionTypeOK /\ ClusterTypeOK
    BY Groups
  <1>1. NsTypeOK'  BY <1>g DEF StopBegin, NsTypeOK
  <1>2. ProcTypeOK'  BY <1>g DEF StopBegin, Call, NsTypeOK, ProcTypeOK, PCs
  <1> QED
    BY <1>1, <1>2, NotifierStays, WorkStays, ClientStays, ConnectionStays, ClusterStays
    DEF StopBegin, TypeOK

LEMMA DeleteClientTypeOK ==
  ASSUME TypeOK, NEW s \in StopKinds, NEW c \in Id, DeleteClient(s, c) PROVE TypeOK'
  <1>g. /\ NsTypeOK /\ NotifierTypeOK /\ ProcTypeOK /\ WorkTypeOK
        /\ ClientTypeOK /\ ConnectionTypeOK /\ ClusterTypeOK
    BY Groups
  <1>1. NotifierTypeOK'  BY <1>g DEF DeleteClient, NotifierTypeOK
  <1>2. ProcTypeOK'  BY <1>g DEF DeleteClient, Call, NsTypeOK, ProcTypeOK, PCs
  <1> QED
    BY <1>1, <1>2, NsStays, WorkStays, ClientStays, ConnectionStays, ClusterStays
    DEF DeleteClient, TypeOK

LEMMA StopEndTypeOK ==
  ASSUME TypeOK, NEW s \in StopKinds, NEW c \in Id, StopEnd(s, c) PROVE TypeOK'
  <1>g. /\ NsTypeOK /\ NotifierTypeOK /\ ProcTypeOK /\ WorkTypeOK
        /\ ClientTypeOK /\ ConnectionTypeOK /\ ClusterTypeOK
    BY Groups
  <1>1. NsTypeOK'  BY <1>g DEF StopEnd, NsTypeOK
  <1>2. ProcTypeOK'  BY <1>g DEF StopEnd, ProcTypeOK, PCs
  <1>3. ConnectionTypeOK'  BY <1>g DEF StopEnd, ConnectionTypeOK
  <1>4. crash' \in {"no", "closed channel", "nil handler"}
    BY DEF StopEnd, TypeOK
  <1> QED
    BY <1>1, <1>2, <1>3, <1>4, NotifierStays, WorkStays, ClientStays, ClusterStays
    DEF StopEnd, TypeOK

\* TypeOK is inductive together with Resolved.
LEMMA NextTypeOK == TypeOK /\ Resolved /\ [Next]_vars => TypeOK'
  <1>0. SUFFICES ASSUME TypeOK, Resolved, [Next]_vars PROVE TypeOK'
    OBVIOUS
  <1>1. CASE UNCHANGED vars
    BY <1>0, <1>1, NsStays, NotifierStays, ProcStays, WorkStays, ClientStays,
       ConnectionStays, ClusterStays
    DEF vars, TypeOK
  <1>2. CASE Cluster  BY <1>0, <1>2, ClusterStepTypeOK
  <1>3. ASSUME NEW k \in Id, Connection(k) PROVE TypeOK'
    BY <1>0, <1>3, SendBookmarkTypeOK, RelistTypeOK, ResumeTypeOK,
       CloseConnectionTypeOK DEF Connection
  <1>4. CASE Watch  BY <1>0, <1>4, WatchTypeOK
  <1>5. ASSUME NEW k \in Id, ServerStep(k) PROVE TypeOK'
    BY <1>0, <1>5, DescendTypeOK, ReceiveTypeOK, CountedTypeOK, ExitCancelledTypeOK,
       SeeClosedTypeOK, SkipEventTypeOK, ProcessEventTypeOK, SendDoneTypeOK,
       DrainBookmarkTypeOK, SendTimeoutTypeOK, SendClosedTypeOK, CleanupBeginTypeOK,
       CleanupEndTypeOK, ServerIsProc
    DEF ServerStep
  <1>6. ASSUME NEW k \in Id, NEW c \in Id, Sends(k, c) PROVE TypeOK'
    BY <1>0, <1>6, SendOkTypeOK DEF Sends
  <1>7. ASSUME NEW s \in StopKinds, NEW c \in Id, StopCalled(s, c) \/ StopStep(s, c)
        PROVE  TypeOK'
    BY <1>0, <1>7, DescendTypeOK, StopCalledTypeOK, StopBeginTypeOK, DeleteClientTypeOK,
       StopEndTypeOK, StopIsProc
    DEF StopStep
  <1> QED  BY <1>0, <1>1, <1>2, <1>3, <1>4, <1>5, <1>6, <1>7 DEF Next

\* A step that leaves the goroutine of connection k alone.
LEMMA ResolvedStays ==
  ASSUME Resolved, NEW k \in Id, NEW n \in Id,
         pc'[Server(k)] = pc[Server(k)], held'[Server(k)] = held[Server(k)],
         next'[Server(k)] = next[Server(k)], forwarded'[k] = forwarded[k],
         pc'[Server(k)] = "send"
  PROVE  /\ next'[Server(k)] = None
         /\ InFrame(Server(k), "send", n)' /\ n # k => forwarded'[k] # "PREVIOUS"
  BY DEF Resolved, InFrame

LEMMA NextResolved == TypeOK /\ Resolved /\ [Next]_vars => Resolved'
  <1>0. SUFFICES ASSUME TypeOK, Resolved, [Next]_vars,
                        NEW k \in Id, NEW n \in Id, pc'[Server(k)] = "send"
                 PROVE  /\ next'[Server(k)] = None
                        /\ InFrame(Server(k), "send", n)' /\ n # k
                             => forwarded'[k] # "PREVIOUS"
    BY DEF Resolved
  <1>g. ProcTypeOK /\ WorkTypeOK
    BY <1>0, Groups
  <1>p. /\ pc \in [Procs -> PCs] /\ next \in [Procs -> 0 .. MaxWatches]
        /\ held \in [Procs -> SUBSET Id]
        /\ forwarded \in [Id -> EventTypes \cup {"PREVIOUS"}]
    BY <1>g DEF ProcTypeOK, WorkTypeOK
  <1>c. \A s \in StopKinds, c \in Id : <<s, c>> # Server(k)
    BY ConstantsAssumption
  <1>1. CASE UNCHANGED <<procVars, forwarded>>
    BY <1>0, <1>1, ResolvedStays DEF procVars
  <1>2. CASE WatchSucceed
    BY <1>0, <1>p, <1>2, ResolvedStays DEF WatchSucceed, workVars
  <1>3. ASSUME NEW p \in Procs, Descend(p)
        PROVE  UNCHANGED forwarded /\ pc'[Server(k)] = pc[Server(k)] /\ p # Server(k)
    <2>1. UNCHANGED <<pc, forwarded>> /\ next[p] # None
      BY <1>3 DEF Descend, workVars
    <2> QED  BY <1>0, <2>1 DEF Resolved
  <1>4. ASSUME NEW p \in Procs, Descend(p)
        PROVE  held'[Server(k)] = held[Server(k)] /\ next'[Server(k)] = next[Server(k)]
    BY <1>3, <1>4, <1>p DEF Descend
  <1>5. ASSUME NEW j \in Id, NEW m \in Id, ProcessEvent(j, m), j = k
        PROVE  next'[Server(k)] = None /\ (InFrame(Server(k), "send", n)' /\ n # k
                                            => forwarded'[k] # "PREVIOUS")
    <2>1. next'[Server(k)] = None /\ UNCHANGED held /\ m \in held[Server(k)]
          /\ \A i \in held[Server(k)] : m <= i
      BY <1>5 DEF ProcessEvent, InFrame
    <2>2. ASSUME InFrame(Server(k), "send", n)' PROVE n = m
      <3>1. n \in held[Server(k)] /\ \A i \in held[Server(k)] : n <= i
        BY <2>1, <2>2 DEF InFrame
      <3> QED  BY <2>1, <3>1
    <2>3. m # k => forwarded'[k] = Resolve(forwarded[k], processedVersions[m][event[k].obj])
      BY <1>p, <1>5 DEF ProcessEvent
    <2> QED  BY <2>1, <2>2, <2>3 DEF Resolve
  <1>6. ASSUME NEW j \in Id, DrainBookmark(j), j = k
        PROVE  next'[Server(k)] = None /\ (InFrame(Server(k), "send", n)' => n = k)
    <2>1. next'[Server(k)] = None /\ UNCHANGED held /\ k \in held[Server(k)]
          /\ \A i \in held[Server(k)] : k <= i
      BY <1>6 DEF DrainBookmark, InFrame
    <2>2. ASSUME InFrame(Server(k), "send", n)' PROVE n = k
      <3>1. n \in held[Server(k)] /\ \A i \in held[Server(k)] : n <= i
        BY <2>1, <2>2 DEF InFrame
      <3> QED  BY <2>1, <3>1
    <2> QED  BY <2>1, <2>2
  <1>7. ASSUME NEW j \in Id, ServerStep(j), ~Descend(Server(j)), j # k
        PROVE  /\ held'[Server(k)] = held[Server(k)] /\ pc'[Server(k)] = pc[Server(k)]
               /\ next'[Server(k)] = next[Server(k)] /\ forwarded'[k] = forwarded[k]
    <2>1. Server(j) # Server(k)  BY <1>7
    <2> QED
      BY <1>p, <1>7, <2>1
      DEF ServerStep, Receive, Counted, ExitCancelled, Exit, SeeClosed, SkipEvent,
          ProcessEvent, SendDone, DrainBookmark, SendTimeout, SendClosed, CleanupBegin,
          CleanupEnd, Return, Call, workVars, procVars
  <1>8. ASSUME NEW j \in Id, ServerStep(j), ~Descend(Server(j)), j = k
        PROVE  \/ UNCHANGED <<procVars, forwarded>>
               \/ \E m \in Id : ProcessEvent(j, m)
               \/ DrainBookmark(j)
    <2>1. ~(Receive(j) \/ Counted(j) \/ ExitCancelled(j) \/ SeeClosed(j))
      BY <1>0, <1>p, <1>8 DEF Receive, Counted, ExitCancelled, Exit, SeeClosed, Call
    <2>2. ~(CleanupBegin(j) \/ CleanupEnd(j))
      BY <1>0, <1>p, <1>8 DEF CleanupBegin, CleanupEnd, Exit, Call
    <2>3. ASSUME NEW m \in Id PROVE ~(SkipEvent(j, m) \/ SendDone(j, m))
      BY <1>0, <1>p, <1>8 DEF SkipEvent, SendDone, Return
    <2>4. ASSUME NEW m \in Id, NEW c \in Id, SendTimeout(j, m, c) \/ SendClosed(j, m, c)
          PROVE  UNCHANGED <<procVars, forwarded>>
      BY <2>4 DEF SendTimeout, SendClosed, workVars
    <2> QED  BY <1>8, <2>1, <2>2, <2>3, <2>4 DEF ServerStep
  <1>9. ASSUME NEW s \in StopKinds, NEW c \in Id, StopCalled(s, c) \/ StopStep(s, c),
               ~Descend(<<s, c>>)
        PROVE  /\ held'[Server(k)] = held[Server(k)] /\ pc'[Server(k)] = pc[Server(k)]
               /\ next'[Server(k)] = next[Server(k)] /\ UNCHANGED forwarded
    BY <1>c, <1>p, <1>9
    DEF StopStep, StopCalled, StopBegin, DeleteClient, StopEnd, Call, workVars
  <1>10. CASE \E p \in Procs : Descend(p)
    BY <1>0, <1>3, <1>4, <1>10, ResolvedStays
  <1>11. CASE \E j \in Id : ServerStep(j) /\ ~Descend(Server(j))
    BY <1>0, <1>1, <1>5, <1>6, <1>7, <1>8, <1>11, ResolvedStays
  <1>12. CASE \E s \in StopKinds, c \in Id :
                (StopCalled(s, c) \/ StopStep(s, c)) /\ ~Descend(<<s, c>>)
    BY <1>0, <1>9, <1>12, ResolvedStays
  <1>13. CASE Cluster \/ (\E j \in Id : Connection(j)) \/ WatchBegin \/ WatchFail
              \/ (\E j, c \in Id : Sends(j, c)) \/ UNCHANGED vars
    <2>1. UNCHANGED <<procVars, forwarded>>
      BY <1>13
      DEF Cluster, Create, Modify, Delete, Change, Connection, SendBookmark, Relist, Resume,
          CloseConnection, WatchBegin, WatchFail, Sends, SendOk, vars, workVars
    <2> QED  BY <1>1, <2>1
  <1> QED
    BY <1>0, <1>2, <1>10, <1>11, <1>12, <1>13, ServerIsProc, StopIsProc DEF Next, Watch,
       StopStep, ServerStep

\* Every variable keeps its type, and the internal type PREVIOUS reaches
\* neither a client nor the processed versions (kubeWatchServiceShared.go:324).
THEOREM TypeCorrect == Spec => []TypeOK
  <1>1. Init => Resolved  BY DEF Init, Resolved
  <1> QED  BY <1>1, InitTypeOK, NextTypeOK, NextResolved, PTL DEF Spec

-----------------------------------------------------------------------------
(***************************************************************************)
(* The mutexes cannot deadlock.  The recursion descends because the chain  *)
(* does, which holds because Watch numbers its notifiers upwards under the *)
(* namespace mutex.                                                        *)
(***************************************************************************)
ChainOrder == \A n \in Id : previousNotifier[n] < n

WatchOrder ==
  /\ currentNotifier <= clientCount
  /\ nsMutex = WatchCall => currentNotifier < clientCount
  /\ \A k \in Id : pc[Server(k)] # "none" => k <= currentNotifier

OwnRange ==
  \A k \in Id : next[Server(k)] <= k /\ \A n \in held[Server(k)] : n <= k

Resting ==
  \A p \in Procs :
    pc[p] \in {"none", "select", "closing", "called"} => held[p] = {} /\ next[p] = None

Descending == \A p \in Procs : next[p] # None => \A n \in held[p] : next[p] < n
Exclusive == \A p, q \in Procs : p # q => held[p] \cap held[q] = {}

LEMMA InitLocks ==
  Init => ChainOrder /\ WatchOrder /\ OwnRange /\ Resting /\ Descending /\ Exclusive
  BY ConstantsAssumption
  DEF Init, ChainOrder, WatchOrder, OwnRange, Resting, Descending, Exclusive

\* A step of goroutine p other than Descend never adds a mutex; it starts a
\* new recursion only with none in hand, and rests with none.
Releases(p) ==
  /\ held'[p] \subseteq held[p]
  /\ next'[p] # next[p] => held'[p] = {}
  /\ pc'[p] \in {"none", "select", "closing", "called"} => held'[p] = {} /\ next'[p] = None
  /\ \A k \in Id : p = Server(k) => next'[p] \in {next[p], k}

Others(p) == \A q \in Procs \ {p} : held'[q] = held[q] /\ next'[q] = next[q] /\ pc'[q] = pc[q]

LEMMA FrameReturns ==
  ASSUME ProcTypeOK, OwnRange, NEW k \in Id, NEW n \in Id, NEW where,
         InFrame(Server(k), where, n), Return(k, n), UNCHANGED next
  PROVE  Others(Server(k)) /\ Releases(Server(k))
  <1>p. pc \in [Procs -> PCs] /\ held \in [Procs -> SUBSET Id] /\ Server(k) \in Procs
    BY DEF ProcTypeOK
  <1>1. n = k => held[Server(k)] \ {n} = {}
    BY <1>p DEF InFrame, OwnRange
  <1>2. next[Server(k)] = None
    BY DEF InFrame
  <1>3. held'[Server(k)] = held[Server(k)] \ {n}
        /\ pc'[Server(k)] = IF n = k THEN "select" ELSE "accept"
    BY <1>p DEF Return
  <1>4. Others(Server(k))
    BY <1>p DEF Return, Others
  <1>5. \A j \in Id : Server(k) = Server(j) => j = k
    OBVIOUS
  <1> QED  BY <1>1, <1>2, <1>3, <1>4, <1>5 DEF Releases

LEMMA ServerReleases ==
  ASSUME ProcTypeOK, Resting, OwnRange, NEW k \in Id, ServerStep(k), ~Descend(Server(k))
  PROVE  Others(Server(k)) /\ Releases(Server(k))
  <1>p. /\ pc \in [Procs -> PCs] /\ next \in [Procs -> 0 .. MaxWatches]
        /\ held \in [Procs -> SUBSET Id] /\ Server(k) \in Procs
    BY DEF ProcTypeOK
  <1>k. \A j \in Id : Server(k) = Server(j) => j = k
    OBVIOUS
  <1>1. CASE Receive(k) \/ CleanupBegin(k)
    <2>1. held[Server(k)] = {} /\ UNCHANGED held
      BY <1>p, <1>1 DEF Receive, CleanupBegin, Resting
    <2>2. PICK where \in {"count", "cleanup"} : Call(Server(k), where, k)
      BY <1>1 DEF Receive, CleanupBegin
    <2>3. pc'[Server(k)] = where /\ next'[Server(k)] = k
      BY <1>p, <2>2 DEF Call
    <2>4. Others(Server(k))
      BY <1>p, <2>1, <2>2 DEF Call, Others
    <2> QED  BY <1>k, <2>1, <2>3, <2>4 DEF Releases
  <1>2. CASE Counted(k)
    <2>1. held'[Server(k)] = {} /\ pc'[Server(k)] = "accept" /\ next'[Server(k)] = k
      BY <1>p, <1>2 DEF Counted, Call
    <2>2. Others(Server(k))
      BY <1>p, <1>2 DEF Counted, Call, Others
    <2> QED  BY <1>k, <2>1, <2>2 DEF Releases
  <1>3. CASE ExitCancelled(k) \/ SeeClosed(k)
    <2>1. held[Server(k)] = {} /\ next[Server(k)] = None /\ UNCHANGED <<held, next>>
      BY <1>p, <1>3 DEF ExitCancelled, SeeClosed, Resting
    <2>2. Others(Server(k))
      BY <1>p, <1>3 DEF ExitCancelled, SeeClosed, Exit, Others
    <2> QED  BY <2>1, <2>2 DEF Releases
  <1>4. ASSUME NEW n \in Id, SkipEvent(k, n) \/ SendDone(k, n)
        PROVE  Others(Server(k)) /\ Releases(Server(k))
    BY <1>4, FrameReturns DEF SkipEvent, SendDone
  <1>5. ASSUME NEW n \in Id, ProcessEvent(k, n) \/ DrainBookmark(k)
        PROVE  Others(Server(k)) /\ Releases(Server(k))
    <2>1. UNCHANGED <<held, next>> /\ pc' = [pc EXCEPT ![Server(k)] = "send"]
      BY <1>5 DEF ProcessEvent, DrainBookmark
    <2>2. pc'[Server(k)] = "send"
      BY <1>p, <2>1
    <2>3. Others(Server(k))
      BY <1>p, <2>1 DEF Others
    <2> QED  BY <2>1, <2>2, <2>3 DEF Releases
  <1>6. ASSUME NEW n \in Id, NEW c \in Id, SendTimeout(k, n, c) \/ SendClosed(k, n, c)
        PROVE  Others(Server(k)) /\ Releases(Server(k))
    <2>1. UNCHANGED procVars /\ pc[Server(k)] = "send"
      BY <1>6 DEF SendTimeout, SendClosed, Visits, InFrame
    <2> QED  BY <2>1 DEF procVars, Others, Releases
  <1>7. CASE CleanupEnd(k)
    <2>1. /\ held'[Server(k)] = {} /\ pc'[Server(k)] = "done"
          /\ next'[Server(k)] = next[Server(k)]
      BY <1>p, <1>7 DEF CleanupEnd, Exit
    <2>2. Others(Server(k))
      BY <1>p, <1>7 DEF CleanupEnd, Exit, Others
    <2> QED  BY <2>1, <2>2 DEF Releases
  <1> QED
    BY <1>1, <1>2, <1>3, <1>4, <1>5, <1>6, <1>7 DEF ServerStep

LEMMA StopReleases ==
  ASSUME ProcTypeOK, Resting, NEW s \in StopKinds, NEW c \in Id,
         StopCalled(s, c) \/ StopStep(s, c), ~Descend(<<s, c>>)
  PROVE  Others(<<s, c>>) /\ Releases(<<s, c>>)
  <1> DEFINE p == <<s, c>>
  <1>p. /\ pc \in [Procs -> PCs] /\ next \in [Procs -> 0 .. MaxWatches]
        /\ held \in [Procs -> SUBSET Id] /\ p \in Procs
    BY DEF ProcTypeOK
  <1>k. \A k \in Id : p # Server(k)
    BY ConstantsAssumption
  <1>o. Others(p)
    BY <1>p DEF StopCalled, StopStep, StopBegin, DeleteClient, StopEnd, Call, Others
  <1>1. CASE StopCalled(s, c)
    <2>1. held'[p] = {} /\ next'[p] = None /\ next[p] = None
      BY <1>p, <1>1 DEF StopCalled, Resting
    <2> QED  BY <1>k, <1>o, <2>1 DEF Releases
  <1>2. CASE StopBegin(s, c)
    <2>1. held[p] = {} /\ held'[p] = {} /\ pc'[p] = "delete"
      BY <1>p, <1>2 DEF StopBegin, Call, Resting
    <2> QED  BY <1>k, <1>o, <2>1 DEF Releases
  <1>3. CASE DeleteClient(s, c)
    <2>1. held'[p] = {} /\ pc'[p] = "count"
      BY <1>p, <1>3 DEF DeleteClient, Call
    <2> QED  BY <1>k, <1>o, <2>1 DEF Releases
  <1>4. CASE StopEnd(s, c)
    <2>1. held'[p] = {} /\ pc'[p] \in {"returned", "panicked"} /\ next'[p] = next[p]
      BY <1>p, <1>4 DEF StopEnd
    <2> QED  BY <1>k, <1>o, <2>1 DEF Releases
  <1> QED  BY <1>1, <1>2, <1>3, <1>4 DEF StopStep

\* The goroutine of a new notifier starts with no mutex.
LEMMA WatchReleases ==
  ASSUME TypeOK, Resting, WatchOrder, WatchSucceed
  PROVE  \E p \in Procs : Others(p) /\ Releases(p)
  <1>1. NsTypeOK /\ ProcTypeOK
    BY Groups
  <1>2. clientCount \in Id /\ pc[Server(clientCount)] = "none"
    BY <1>1 DEF WatchSucceed, WatchOrder, NsTypeOK, ProcTypeOK, PCs
  <1>3. held[Server(clientCount)] = {} /\ next[Server(clientCount)] = None
    BY <1>2 DEF Resting
  <1>4. UNCHANGED <<held, next>> /\ pc' = [pc EXCEPT ![Server(clientCount)] = "select"]
    BY DEF WatchSucceed
  <1>5. Others(Server(clientCount)) /\ Releases(Server(clientCount))
    BY <1>1, <1>2, <1>3, <1>4 DEF ProcTypeOK, Others, Releases
  <1> QED  BY <1>2, <1>5

\* A releasing step, and one that locks the next notifier of the chain.
LEMMA ReleasesKeepsLocks ==
  ASSUME OwnRange, Resting, Descending, Exclusive, NEW p \in Procs, Others(p), Releases(p)
  PROVE  OwnRange' /\ Resting' /\ Descending' /\ Exclusive'
  <1>1. OwnRange'
    <2> SUFFICES ASSUME NEW k \in Id
                 PROVE  next'[Server(k)] <= k /\ \A n \in held'[Server(k)] : n <= k
      BY DEF OwnRange
    <2>1. next[Server(k)] <= k /\ (\A n \in held[Server(k)] : n <= k) /\ k <= k
      BY DEF OwnRange
    <2>2. /\ held'[Server(k)] \subseteq held[Server(k)]
          /\ next'[Server(k)] \in {next[Server(k)], k}
      BY ServerIsProc DEF Others, Releases
    <2> QED  BY <2>1, <2>2
  <1>2. Resting'
    BY DEF Resting, Others, Releases
  <1>3. Descending'
    BY DEF Descending, Others, Releases
  <1>4. Exclusive'
    BY DEF Exclusive, Others, Releases
  <1> QED  BY <1>1, <1>2, <1>3, <1>4

LEMMA DescendKeepsLocks ==
  ASSUME TypeOK, ChainOrder, OwnRange, Resting, Descending, Exclusive,
         NEW p \in Procs, Descend(p)
  PROVE  OwnRange' /\ Resting' /\ Descending' /\ Exclusive'
  <1>p. /\ pc \in [Procs -> PCs] /\ next \in [Procs -> 0 .. MaxWatches]
        /\ held \in [Procs -> SUBSET Id]
        /\ previousNotifier \in [Id -> 0 .. MaxWatches]
    BY Groups DEF ProcTypeOK, NotifierTypeOK
  <1>1. UNCHANGED pc /\ next[p] \in Id
    BY <1>p, ConstantsAssumption DEF Descend
  <1>2. /\ held'[p] = held[p] \cup {next[p]} /\ next'[p] \in 0 .. MaxWatches
        /\ next'[p] < next[p]
    BY <1>p, <1>1, ConstantsAssumption DEF Descend, ChainOrder, Below
  <1>3. \A q \in Procs \ {p} : held'[q] = held[q] /\ next'[q] = next[q]
    BY <1>p DEF Descend
  <1>4. \A q \in Procs : next[p] \notin held[q]
    BY DEF Descend, Locked
  <1>5. pc[p] \notin {"none", "select", "closing", "called"}
    BY <1>1 DEF Resting
  <1>6. OwnRange'
    <2> SUFFICES ASSUME NEW k \in Id
                 PROVE  next'[Server(k)] <= k /\ \A n \in held'[Server(k)] : n <= k
      BY DEF OwnRange
    <2>1. next[Server(k)] <= k /\ (\A n \in held[Server(k)] : n <= k)
      BY DEF OwnRange
    <2>2. CASE p = Server(k)
      BY <1>1, <1>2, <2>1, <2>2
    <2>3. CASE p # Server(k)
      BY <1>3, <2>1, <2>3, ServerIsProc
    <2> QED  BY <2>2, <2>3
  <1>7. Resting'
    BY <1>1, <1>3, <1>5 DEF Resting
  <1>8. Descending'
    <2> SUFFICES ASSUME NEW q \in Procs, next'[q] # None, NEW n \in held'[q]
                 PROVE  next'[q] < n
      BY DEF Descending
    <2>1. CASE q = p
      <3>1. held[p] \subseteq Id /\ next[p] # None
        BY <1>p, <1>1
      <3>2. \A m \in held[p] : m \in Id /\ next[p] < m
        BY <3>1 DEF Descending
      <3> QED  BY <1>1, <1>2, <2>1, <3>2
    <2>2. CASE q # p
      BY <1>3, <2>2 DEF Descending
    <2> QED  BY <2>1, <2>2
  <1>9. Exclusive'
    BY <1>2, <1>3, <1>4 DEF Exclusive
  <1> QED  BY <1>6, <1>7, <1>8, <1>9

\* Only Watch and drainPrevious change the chain.
LEMMA NextChainOrder ==
  TypeOK /\ ChainOrder /\ WatchOrder /\ [Next]_vars => ChainOrder'
  <1>0. SUFFICES ASSUME TypeOK, ChainOrder, WatchOrder, [Next]_vars PROVE ChainOrder'
    OBVIOUS
  <1>p. /\ previousNotifier \in [Id -> 0 .. MaxWatches]
        /\ clientCount \in 0 .. MaxWatches /\ currentNotifier \in 0 .. MaxWatches
    BY <1>0, Groups DEF NotifierTypeOK, NsTypeOK
  <1>1. CASE UNCHANGED previousNotifier
    BY <1>0, <1>1 DEF ChainOrder
  <1>2. CASE WatchSucceed
    BY <1>0, <1>2, <1>p DEF WatchSucceed, ChainOrder, WatchOrder
  <1>3. ASSUME NEW k \in Id, DrainBookmark(k) PROVE ChainOrder'
    BY <1>0, <1>3, <1>p DEF DrainBookmark, Drained, ChainOrder
  <1>4. CASE Cluster \/ (\E k \in Id : Connection(k)) \/ WatchBegin \/ WatchFail
             \/ (\E k, c \in Id : Sends(k, c)) \/ UNCHANGED vars
    BY <1>1, <1>4
    DEF Cluster, Create, Modify, Delete, Change, Connection, SendBookmark, Relist, Resume,
        CloseConnection, WatchBegin, WatchFail, Sends, SendOk, vars, notifierVars
  <1>5. ASSUME NEW k \in Id, ServerStep(k), ~DrainBookmark(k) PROVE UNCHANGED previousNotifier
    BY <1>5
    DEF ServerStep, Descend, Receive, Counted, ExitCancelled, SeeClosed, SkipEvent,
        ProcessEvent, SendDone, SendTimeout, SendClosed, CleanupBegin, CleanupEnd,
        notifierVars
  <1>6. ASSUME NEW s \in StopKinds, NEW c \in Id, StopCalled(s, c) \/ StopStep(s, c)
        PROVE  UNCHANGED previousNotifier
    BY <1>6
    DEF StopCalled, StopStep, Descend, StopBegin, DeleteClient, StopEnd, notifierVars
  <1> QED  BY <1>0, <1>1, <1>2, <1>3, <1>4, <1>5, <1>6 DEF Next, Watch

\* Connections start in the order of the calls of Watch.
LEMMA NextWatchOrder ==
  TypeOK /\ WatchOrder /\ [Next]_vars => WatchOrder'
  <1>0. SUFFICES ASSUME TypeOK, WatchOrder, [Next]_vars PROVE WatchOrder'
    OBVIOUS
  <1>p. /\ clientCount \in 0 .. MaxWatches /\ currentNotifier \in 0 .. MaxWatches
        /\ pc \in [Procs -> PCs] /\ Server(clientCount) = <<"server", clientCount>>
    BY <1>0, Groups DEF NsTypeOK, ProcTypeOK
  <1>a. WatchOrder <=> /\ currentNotifier <= clientCount
                       /\ nsMutex = WatchCall => currentNotifier < clientCount
                       /\ \A k \in Id : pc[Server(k)] # "none" => k <= currentNotifier
    BY DEF WatchOrder
  <1>1. CASE WatchBegin
    BY <1>0, <1>1, <1>p DEF WatchBegin, WatchOrder, procVars
  <1>2. CASE WatchFail
    BY <1>0, <1>2, <1>p DEF WatchFail, WatchOrder, procVars
  <1>3. CASE WatchSucceed
    <2>1. \A k \in Id : pc'[Server(k)] # "none" => pc[Server(k)] # "none" \/ k = clientCount
      BY <1>3, <1>p DEF WatchSucceed
    <2> QED  BY <1>0, <1>3, <1>p, <2>1 DEF WatchSucceed, WatchOrder
  <1>4. ASSUME /\ UNCHANGED <<clientCount, currentNotifier>>
               /\ nsMutex' # WatchCall \/ UNCHANGED nsMutex
               /\ \A k \in Id : pc[Server(k)] = "none" => pc'[Server(k)] = "none"
        PROVE  WatchOrder'
    BY <1>0, <1>4 DEF WatchOrder
  <1>5. ASSUME NEW k \in Id, ServerStep(k) PROVE WatchOrder'
    <2>1. UNCHANGED <<clientCount, currentNotifier>>
      BY <1>5
      DEF ServerStep, Descend, Receive, Counted, ExitCancelled, SeeClosed, SkipEvent,
          ProcessEvent, SendDone, DrainBookmark, SendTimeout, SendClosed, CleanupBegin,
          CleanupEnd, nsVars
    <2>2. nsMutex' \in {nsMutex, Server(k), Free}
      BY <1>5
      DEF ServerStep, Descend, Receive, Counted, ExitCancelled, SeeClosed, SkipEvent,
          ProcessEvent, SendDone, DrainBookmark, SendTimeout, SendClosed, CleanupBegin,
          CleanupEnd, nsVars
    <2>3. UNCHANGED pc \/ (pc[Server(k)] # "none" /\ \E where : pc' = [pc EXCEPT ![Server(k)] = where])
      BY <1>5
      DEF ServerStep, Descend, Receive, Counted, ExitCancelled, SeeClosed, SkipEvent,
          ProcessEvent, SendDone, DrainBookmark, SendTimeout, SendClosed, CleanupBegin,
          CleanupEnd, procVars, Call, Exit, Return, InFrame
    <2>4. \A j \in Id : pc[Server(j)] = "none" => pc'[Server(j)] = "none"
      BY <1>p, <2>3
    <2> QED  BY <1>4, <2>1, <2>2, <2>4
  <1>6. ASSUME NEW s \in StopKinds, NEW c \in Id, StopCalled(s, c) \/ StopStep(s, c)
        PROVE  WatchOrder'
    <2>1. UNCHANGED <<clientCount, currentNotifier>>
      BY <1>6 DEF StopCalled, StopStep, Descend, StopBegin, DeleteClient, StopEnd, nsVars
    <2>2. nsMutex' \in {nsMutex, <<s, c>>, Free} /\ s # "watch"
      BY <1>6, ConstantsAssumption
      DEF StopCalled, StopStep, Descend, StopBegin, DeleteClient, StopEnd, nsVars
    <2>3. \A j \in Id : <<s, c>> # Server(j)
      BY ConstantsAssumption
    <2>4. UNCHANGED pc \/ \E where : pc' = [pc EXCEPT ![<<s, c>>] = where]
      BY <1>6
      DEF StopCalled, StopStep, Descend, StopBegin, DeleteClient, StopEnd, Call
    <2>5. \A j \in Id : pc[Server(j)] = "none" => pc'[Server(j)] = "none"
      BY <1>p, <2>3, <2>4
    <2> QED  BY <1>4, <2>1, <2>2, <2>5
  <1>7. CASE Cluster \/ (\E k \in Id : Connection(k)) \/ (\E k, c \in Id : Sends(k, c))
             \/ UNCHANGED vars
    <2>1. UNCHANGED <<nsVars, pc>>
      BY <1>7
      DEF Cluster, Create, Modify, Delete, Change, Connection, SendBookmark, Relist, Resume,
          CloseConnection, Sends, SendOk, vars, procVars
    <2> QED  BY <1>4, <2>1 DEF nsVars
  <1> QED  BY <1>0, <1>1, <1>2, <1>3, <1>5, <1>6, <1>7 DEF Next, Watch

LockInv ==
  ChainOrder /\ WatchOrder /\ OwnRange /\ Resting /\ Descending /\ Exclusive

LEMMA NextLockInv == TypeOK /\ LockInv /\ [Next]_vars => LockInv'
  <1>0. SUFFICES ASSUME TypeOK, ChainOrder, WatchOrder, OwnRange, Resting, Descending,
                        Exclusive, [Next]_vars
                 PROVE  OwnRange' /\ Resting' /\ Descending' /\ Exclusive'
    BY NextChainOrder, NextWatchOrder DEF LockInv
  <1>g. ProcTypeOK
    BY <1>0, Groups
  <1>1. ASSUME NEW p \in Procs, Descend(p)
        PROVE  OwnRange' /\ Resting' /\ Descending' /\ Exclusive'
    BY <1>0, <1>1, DescendKeepsLocks
  <1>2. ASSUME NEW p \in Procs, Others(p), Releases(p)
        PROVE  OwnRange' /\ Resting' /\ Descending' /\ Exclusive'
    BY <1>0, <1>2, ReleasesKeepsLocks
  <1>3. ASSUME NEW k \in Id, ServerStep(k)
        PROVE  \E p \in Procs : Descend(p) \/ (Others(p) /\ Releases(p))
    BY <1>0, <1>g, <1>3, ServerReleases, ServerIsProc
  <1>4. ASSUME NEW s \in StopKinds, NEW c \in Id, StopCalled(s, c) \/ StopStep(s, c)
        PROVE  \E p \in Procs : Descend(p) \/ (Others(p) /\ Releases(p))
    BY <1>0, <1>g, <1>4, StopReleases, StopIsProc
  <1>5. CASE WatchSucceed
    BY <1>0, <1>2, <1>5, WatchReleases
  <1>6. CASE Cluster \/ (\E k \in Id : Connection(k)) \/ WatchBegin \/ WatchFail
             \/ (\E k, c \in Id : Sends(k, c)) \/ UNCHANGED vars
    <2>1. UNCHANGED procVars
      BY <1>6
      DEF Cluster, Create, Modify, Delete, Change, Connection, SendBookmark, Relist, Resume,
          CloseConnection, WatchBegin, WatchFail, Sends, SendOk, vars
    <2> QED  BY <1>0, <2>1 DEF procVars, OwnRange, Resting, Descending, Exclusive
  <1> QED
    BY <1>0, <1>1, <1>2, <1>3, <1>4, <1>5, <1>6 DEF Next, Watch

\* A goroutine waits for a notifier's mutex only with the mutexes of newer
\* notifiers in hand and for the namespace mutex with none, and no mutex has
\* two holders: Watch, StopWatching, the closing of a connection and the
\* delivery of an event (kubeWatchServiceShared.go:177-454) cannot deadlock on
\* the mutexes, however many calls of Watch there are.
THEOREM LocksOrdered == Spec => []LockOrder
  <1>1. Init => LockInv
    BY InitLocks DEF LockInv
  <1>2. LockInv => LockOrder
    BY DEF LockInv, LockOrder, Descending, Resting, Exclusive
  <1>3. Init => Resolved  BY DEF Init, Resolved
  <1> QED
    BY <1>1, <1>2, <1>3, InitTypeOK, NextTypeOK, NextResolved, NextLockInv, PTL DEF Spec

-----------------------------------------------------------------------------
(***************************************************************************)
(* Before the first BOOKMARK a client belongs to the notifier of its own   *)
(* id and to no other, and its channel is open as long as it does: nobody  *)
(* sends on a closed channel or closes one twice.                          *)
(***************************************************************************)
OrdinaryEvents ==
  \A k \in Id : /\ stream[k] \in Seq(Ordinary)
                /\ pc[Server(k)] \in {"count", "accept", "send"} => event[k] \in Ordinary

OwnClient ==
  \A n \in Id : clientsMap[n] \subseteq {n} /\ (n \in clientsMap[n] => channel[n] = "open")

ChannelInv ==
  /\ bookmarksLeft <= MaxBookmarks
  /\ NoBookmarkYet => OrdinaryEvents /\ OwnClient /\ crash # "closed channel"

LEMMA InitChannelInv == Init => ChannelInv
  BY ConstantsAssumption, EmptySeq
  DEF Init, ChannelInv, OrdinaryEvents, OwnClient

\* The counter of bookmarks only goes down.
LEMMA BookmarksLeft ==
  ASSUME TypeOK, bookmarksLeft <= MaxBookmarks, [Next]_vars
  PROVE  bookmarksLeft' <= MaxBookmarks /\ (NoBookmarkYet' => UNCHANGED bookmarksLeft)
  <1>1. bookmarksLeft \in Nat
    BY Groups DEF ClusterTypeOK
  <1>2. ASSUME NEW k \in Id, SendBookmark(k)
        PROVE  bookmarksLeft' = bookmarksLeft - 1
    BY <1>2 DEF SendBookmark
  <1>3. CASE UNCHANGED bookmarksLeft
    BY <1>3
  <1>4. CASE Cluster \/ Watch \/ (\E k, c \in Id : Sends(k, c)) \/ UNCHANGED vars
             \/ (\E k \in Id : Relist(k) \/ Resume(k) \/ CloseConnection(k))
    BY <1>4
    DEF Cluster, Create, Modify, Delete, Change, Relist, Resume, CloseConnection, Watch,
        WatchBegin, WatchFail, WatchSucceed, Sends, SendOk, vars, clusterVars, boundVars
  <1>5. ASSUME NEW k \in Id, ServerStep(k) PROVE UNCHANGED bookmarksLeft
    BY <1>5
    DEF ServerStep, Descend, Receive, Counted, ExitCancelled, SeeClosed, SkipEvent,
        ProcessEvent, SendDone, DrainBookmark, SendTimeout, SendClosed, CleanupBegin,
        CleanupEnd, clusterVars, boundVars
  <1>6. ASSUME NEW s \in StopKinds, NEW c \in Id, StopCalled(s, c) \/ StopStep(s, c)
        PROVE  UNCHANGED bookmarksLeft
    BY <1>6
    DEF StopCalled, StopStep, Descend, StopBegin, DeleteClient, StopEnd, clusterVars, boundVars
  <1>7. ASSUME NEW k \in Id, SendBookmark(k) PROVE ~NoBookmarkYet'
    BY <1>1, <1>2, <1>7, ConstantsAssumption DEF NoBookmarkYet
  <1>8. CASE \E k \in Id : SendBookmark(k)
    BY <1>1, <1>2, <1>7, <1>8, ConstantsAssumption
  <1> QED
    BY <1>3, <1>4, <1>5, <1>6, <1>8 DEF Next, Connection

\* Streams and events under way without a BOOKMARK stay so.
LEMMA NextOrdinary ==
  ASSUME TypeOK, OrdinaryEvents, [Next]_vars, \A k \in Id : ~SendBookmark(k)
  PROVE  OrdinaryEvents'
  <1>g. ConnectionTypeOK /\ WorkTypeOK /\ ProcTypeOK /\ ClusterTypeOK /\ NsTypeOK
    BY Groups
  <1>p. pc \in [Procs -> PCs] /\ stream \in [Id -> Seq(Event)] /\ event \in [Id -> Event]
    BY <1>g DEF ProcTypeOK, ConnectionTypeOK, WorkTypeOK
  <1>o. \A k \in Id : stream[k] \in Seq(Ordinary)
    BY DEF OrdinaryEvents
  <1>b. ASSUME NEW k \in Id, NEW kept \in Buffered(stream[k]) PROVE kept \in Seq(Ordinary)
    <2>1. PICK n \in {m \in 0 .. 1 : m <= Len(stream[k])} : kept = SubSeq(stream[k], 1, n)
      BY DEF Buffered
    <2> QED  BY <1>o, <2>1
  <1>1. ASSUME UNCHANGED <<stream, event>>,
               \A k \in Id : pc'[Server(k)] \in {"count", "accept", "send"}
                               => pc[Server(k)] \in {"count", "accept", "send"}
        PROVE  OrdinaryEvents'
    BY <1>1 DEF OrdinaryEvents
  <1>2. ASSUME NEW o \in Objects, NEW type \in {"ADDED", "MODIFIED", "DELETED"},
               NEW gens \in SUBSET Nat, Change(type, o, gens)
        PROVE  OrdinaryEvents'
    <2>1. PICK g \in gens :
            Offer(EventOf(type, o, [rv  |-> version + 1,
                                    gen |-> IF HasGeneration THEN g ELSE 0]))
      BY <1>2 DEF Change
    <2> DEFINE e == EventOf(type, o, [rv  |-> version + 1,
                                      gen |-> IF HasGeneration THEN g ELSE 0])
    <2>2. version \in Nat
      BY <1>g, LenProperties DEF ClusterTypeOK, version
    <2>3. e \in Ordinary
      BY <2>2 DEF EventOf, Event, Ordinary
    <2>4. \A k \in Id : Append(stream[k], e) \in Seq(Ordinary)
      BY <1>o, <2>3, AppendProperties
    <2>5. \A k \in Id : stream'[k] \in Seq(Ordinary)
      BY <1>o, <2>1, <2>4 DEF Offer
    <2> QED  BY <1>2, <2>5 DEF Change, workVars, procVars, OrdinaryEvents
  <1>3. CASE Cluster
    <2>1. PICK o \in Objects : Create(o) \/ Modify(o) \/ Delete(o)
      BY <1>3 DEF Cluster
    <2>2. store[o] \in [rv : Nat, gen : Nat]
      BY <1>g DEF ClusterTypeOK
    <2>3. {1} \in SUBSET Nat /\ {store[o].gen, store[o].gen + 1} \in SUBSET Nat
          /\ {store[o].gen} \in SUBSET Nat
      BY <2>2
    <2> QED  BY <1>2, <2>1, <2>3 DEF Create, Modify, Delete
  <1>4. ASSUME NEW k \in Id, NEW s \in Seq(Ordinary), stream' = [stream EXCEPT ![k] = s],
               UNCHANGED event,
               \A j \in Id : pc'[Server(j)] \in {"count", "accept", "send"}
                               => pc[Server(j)] \in {"count", "accept", "send"}
        PROVE  OrdinaryEvents'
    BY <1>p, <1>4 DEF OrdinaryEvents
  <1>5. ASSUME NEW k \in Id, Relist(k) PROVE OrdinaryEvents'
    <2>1. PICK kept \in Buffered(stream[k]), list \in Listings(store) :
            stream' = [stream EXCEPT ![k] = Forgotten(kept) \o list]
      BY <1>5 DEF Relist
    <2>2. Forgotten(kept) \o list \in Seq(Ordinary)
      BY <1>g, <1>b, BufferedType, ForgottenType, ListingsType, ConcatProperties
    <2> QED  BY <1>4, <1>5, <2>1, <2>2 DEF Relist, workVars, procVars
  <1>r. ASSUME NEW k \in Id, Resume(k) PROVE OrdinaryEvents'
    <2>1. PICK kept \in Buffered(stream[k]) :
            stream' = [stream EXCEPT ![k] =
                         kept \o Replay(log, LastBookmark(kept, bookmark[k]))]
      BY <1>r DEF Resume
    <2>2. kept \o Replay(log, LastBookmark(kept, bookmark[k])) \in Seq(Ordinary)
      BY <1>g, <1>b, BufferedType, LastBookmarkType, ReplayType, ConcatProperties
      DEF ConnectionTypeOK
    <2> QED  BY <1>4, <1>r, <2>1, <2>2 DEF Resume, workVars, procVars
  <1>6. ASSUME NEW k \in Id, CloseConnection(k) PROVE OrdinaryEvents'
    BY <1>b, <1>4, <1>6 DEF CloseConnection, workVars, procVars
  <1>7. CASE WatchSucceed
    <2>1. PICK list \in Listings(store) : stream' = [stream EXCEPT ![clientCount] = list]
      BY <1>7 DEF WatchSucceed
    <2>2. \A k \in Id : stream'[k] \in Seq(Ordinary)
      BY <1>g, <1>o, <1>p, <2>1, ListingsType
    <2>3. /\ UNCHANGED event
          /\ \A k \in Id : pc'[Server(k)] \in {pc[Server(k)], "select"}
      BY <1>p, <1>7 DEF WatchSucceed, workVars
    <2> QED  BY <2>2, <2>3 DEF OrdinaryEvents
  <1>8. ASSUME NEW k \in Id, Receive(k) PROVE OrdinaryEvents'
    <2>1. Head(stream[k]) \in Ordinary /\ Tail(stream[k]) \in Seq(Ordinary)
      BY <1>o, <1>8, HeadTailProperties DEF Receive
    <2>2. /\ event' = [event EXCEPT ![k] = Head(stream[k])]
          /\ stream' = [stream EXCEPT ![k] = Tail(stream[k])]
          /\ pc' = [pc EXCEPT ![Server(k)] = "count"]
      BY <1>8 DEF Receive, Call
    <2> QED  BY <1>p, <2>1, <2>2 DEF OrdinaryEvents
  <1>9. ASSUME NEW k \in Id, ExitCancelled(k) \/ CleanupEnd(k) PROVE OrdinaryEvents'
    <2>1. Exit(k) /\ UNCHANGED event
      BY <1>9 DEF ExitCancelled, CleanupEnd, workVars
    <2> QED  BY <1>p, <1>4, <2>1, EmptySeq DEF Exit
  <1>10. ASSUME NEW k \in Id, NEW n \in Id,
                \/ Counted(k) \/ SkipEvent(k, n) \/ SendDone(k, n)
                \/ ProcessEvent(k, n) \/ DrainBookmark(k)
         PROVE  OrdinaryEvents'
    <2>1. /\ UNCHANGED <<stream, event>>
          /\ pc[Server(k)] \in {"count", "accept", "send"}
          /\ \E where : pc' = [pc EXCEPT ![Server(k)] = where]
      BY <1>10
      DEF Counted, SkipEvent, SendDone, ProcessEvent, DrainBookmark, InFrame, Call,
          Return, connectionVars, workVars
    <2> QED  BY <1>p, <1>1, <2>1
  <1>11. ASSUME NEW k \in Id, SeeClosed(k) \/ CleanupBegin(k) PROVE OrdinaryEvents'
    <2>1. /\ UNCHANGED <<stream, event>>
          /\ \E where \in {"closing", "cleanup"} : pc' = [pc EXCEPT ![Server(k)] = where]
      BY <1>11 DEF SeeClosed, CleanupBegin, Call, connectionVars, workVars
    <2> QED  BY <1>p, <1>1, <2>1
  <1>12. ASSUME NEW s \in StopKinds, NEW c \in Id, StopCalled(s, c) \/ StopStep(s, c),
                ~Descend(<<s, c>>)
         PROVE  OrdinaryEvents'
    <2>1. /\ UNCHANGED <<stream, event>>
          /\ \E where : pc' = [pc EXCEPT ![<<s, c>>] = where]
      BY <1>12
      DEF StopStep, StopCalled, StopBegin, DeleteClient, StopEnd, Call, connectionVars,
          workVars
    <2>2. \A k \in Id : <<s, c>> # Server(k)
      BY ConstantsAssumption
    <2> QED  BY <1>p, <1>1, <2>1, <2>2
  <1>13. CASE \/ WatchBegin \/ WatchFail \/ (\E k, c \in Id : Sends(k, c))
              \/ (\E k, n, c \in Id : SendTimeout(k, n, c) \/ SendClosed(k, n, c))
              \/ (\E p \in Procs : Descend(p)) \/ UNCHANGED vars
    <2>1. UNCHANGED <<stream, event, pc>>
      BY <1>13
      DEF WatchBegin, WatchFail, Sends, SendOk, SendTimeout, SendClosed, Descend, vars,
          procVars, workVars, connectionVars
    <2> QED  BY <1>1, <2>1
  <1> QED
    BY <1>3, <1>5, <1>r, <1>6, <1>7, <1>8, <1>9, <1>10, <1>11, <1>12, <1>13, ServerIsProc,
       StopIsProc
    DEF Next, Connection, Watch, ServerStep, StopStep

\* Every client has one owner and an open channel as long as it has one.
LEMMA NextOwnClient ==
  ASSUME TypeOK, OrdinaryEvents, OwnClient, [Next]_vars, crash # "closed channel"
  PROVE  OwnClient' /\ crash' # "closed channel"
  <1>p. /\ clientsMap \in [Id -> SUBSET Id]
        /\ channel \in [Id -> {"none", "open", "closed"}]
        /\ held \in [Procs -> SUBSET Id]
    BY Groups DEF NotifierTypeOK, ClientTypeOK, ProcTypeOK
  <1>1. CASE UNCHANGED <<clientsMap, channel, crash>>
    BY <1>1 DEF OwnClient
  <1>2. CASE WatchSucceed
    BY <1>p, <1>2 DEF WatchSucceed, OwnClient
  <1>3. ASSUME NEW k \in Id, DrainBookmark(k) PROVE FALSE
    BY <1>3 DEF DrainBookmark, InFrame, OrdinaryEvents, Ordinary
  <1>4. ASSUME NEW k \in Id, NEW n \in Id, NEW c \in Id, SendTimeout(k, n, c)
        PROVE  OwnClient' /\ UNCHANGED crash
    <2>1. c \in clientsMap[n] /\ c = n
      BY <1>4 DEF SendTimeout, Visits, OwnClient
    <2>2. /\ channel' = [channel EXCEPT ![c] = "closed"]
          /\ clientsMap' = [clientsMap EXCEPT ![n] = clientsMap[n] \ {c}]
          /\ UNCHANGED crash
      BY <1>4 DEF SendTimeout, Without
    <2> QED  BY <1>p, <2>1, <2>2 DEF OwnClient
  <1>5. ASSUME NEW k \in Id, NEW n \in Id, NEW c \in Id, SendClosed(k, n, c)
        PROVE  FALSE
    BY <1>5 DEF SendClosed, Visits, OwnClient
  <1>6. ASSUME NEW k \in Id, CleanupEnd(k)
        PROVE  OwnClient' /\ UNCHANGED crash
    <2> DEFINE closing == UNION {clientsMap[n] : n \in CleanedUp(k)}
    <2>1. CleanedUp(k) \subseteq Id
      BY <1>p DEF CleanedUp
    <2>2. ASSUME NEW c \in closing PROVE c \in CleanedUp(k) /\ channel[c] = "open"
      <3>1. PICK n \in CleanedUp(k) : c \in clientsMap[n]
        OBVIOUS
      <3>2. n \in Id
        BY <2>1
      <3>3. clientsMap[n] \subseteq {n} /\ (n \in clientsMap[n] => channel[n] = "open")
        BY <3>2 DEF OwnClient
      <3> QED  BY <3>1, <3>3
    <2>3. /\ crash' = IF \E c \in closing : channel[c] = "closed"
                      THEN "closed channel" ELSE crash
          /\ channel' = [c \in Id |-> IF c \in closing THEN "closed" ELSE channel[c]]
          /\ clientsMap' = [n \in Id |-> IF n \in CleanedUp(k) THEN {} ELSE clientsMap[n]]
      BY <1>6 DEF CleanupEnd
    <2>4. UNCHANGED crash
      BY <2>2, <2>3
    <2>5. \A n \in Id : clientsMap'[n] \subseteq {n}
                        /\ (n \in clientsMap'[n] => channel'[n] = "open")
      BY <2>2, <2>3 DEF OwnClient
    <2> QED  BY <2>4, <2>5 DEF OwnClient
  <1>7. ASSUME NEW s \in StopKinds, NEW c \in Id, DeleteClient(s, c)
        PROVE  OwnClient' /\ UNCHANGED crash
    BY <1>p, <1>7 DEF DeleteClient, clientVars, OwnClient
  <1>8. ASSUME NEW s \in StopKinds, NEW c \in Id, StopEnd(s, c)
        PROVE  OwnClient' /\ crash' # "closed channel"
    BY <1>8 DEF StopEnd, notifierVars, clientVars, OwnClient
  <1>9. ASSUME NEW k \in Id, ServerStep(k),
               ~DrainBookmark(k), ~CleanupEnd(k),
               ~\E n, c \in Id : SendTimeout(k, n, c) \/ SendClosed(k, n, c)
        PROVE  UNCHANGED <<clientsMap, channel, crash>>
    BY <1>9
    DEF ServerStep, Descend, Receive, Counted, ExitCancelled, SeeClosed, SkipEvent,
        ProcessEvent, SendDone, CleanupBegin, notifierVars, clientVars
  <1>10. ASSUME NEW s \in StopKinds, NEW c \in Id, StopCalled(s, c) \/ StopStep(s, c),
                ~DeleteClient(s, c), ~StopEnd(s, c)
         PROVE  UNCHANGED <<clientsMap, channel, crash>>
    BY <1>10 DEF StopCalled, StopStep, Descend, StopBegin, notifierVars, clientVars
  <1>11. CASE Cluster \/ (\E k \in Id : Connection(k)) \/ WatchBegin \/ WatchFail
              \/ (\E k, c \in Id : Sends(k, c)) \/ UNCHANGED vars
    <2>1. UNCHANGED <<clientsMap, channel, crash>>
      BY <1>11
      DEF Cluster, Create, Modify, Delete, Change, Connection, SendBookmark, Relist, Resume,
          CloseConnection, WatchBegin, WatchFail, Sends, SendOk, vars, notifierVars,
          clientVars
    <2> QED  BY <1>1, <2>1
  <1>12. ASSUME NEW k \in Id, ServerStep(k) PROVE OwnClient' /\ crash' # "closed channel"
    BY <1>1, <1>3, <1>4, <1>5, <1>6, <1>9, <1>12
  <1>13. ASSUME NEW s \in StopKinds, NEW c \in Id, StopCalled(s, c) \/ StopStep(s, c)
         PROVE  OwnClient' /\ crash' # "closed channel"
    BY <1>1, <1>7, <1>8, <1>10, <1>13
  <1> QED  BY <1>2, <1>11, <1>12, <1>13 DEF Next, Watch

LEMMA NextChannelInv == TypeOK /\ ChannelInv /\ [Next]_vars => ChannelInv'
  <1>0. SUFFICES ASSUME TypeOK, ChannelInv, [Next]_vars PROVE ChannelInv'
    OBVIOUS
  <1>1. bookmarksLeft' <= MaxBookmarks /\ (NoBookmarkYet' => UNCHANGED bookmarksLeft)
    BY <1>0, BookmarksLeft DEF ChannelInv
  <1>2. ASSUME NoBookmarkYet' PROVE OrdinaryEvents' /\ OwnClient' /\ crash' # "closed channel"
    <2>1. NoBookmarkYet
      BY <1>1, <1>2 DEF NoBookmarkYet
    <2>2. \A k \in Id : ~SendBookmark(k)
      <3>1. bookmarksLeft \in Nat
        BY <1>0, Groups DEF ClusterTypeOK
      <3> QED  BY <1>1, <1>2, <3>1 DEF SendBookmark
    <2> QED  BY <1>0, <2>1, <2>2, NextOrdinary, NextOwnClient DEF ChannelInv
  <1> QED  BY <1>1, <1>2 DEF ChannelInv

\* As long as the API server has sent no BOOKMARK, no goroutine sends on the
\* channel of a client that another one closed and none closes it twice
\* (kubeWatchServiceShared.go:362-444), however many clients come and go and
\* whatever their timers and connections do.
THEOREM NoPanicBeforeBookmark == Spec => []NoClosedChannelUse
  <1>1. ChannelInv => NoClosedChannelUse
    BY DEF ChannelInv, NoClosedChannelUse
  <1>2. Init => Resolved  BY DEF Init, Resolved
  <1> QED
    BY <1>1, <1>2, InitTypeOK, NextTypeOK, NextResolved, InitChannelInv, NextChannelInv,
       PTL
    DEF Spec

-----------------------------------------------------------------------------
(***************************************************************************)
(* The chain of notifiers, as a function of the values of                  *)
(* previousNotifier: Reach(P, n) is n and what is below it.                *)
(***************************************************************************)
ClosedUnder(P, S) == \A i \in S : P[i] \in S \cup {None}

Reach(P, n) ==
  {m \in Id : \A S \in SUBSET Id : n \in S \cup {None} /\ ClosedUnder(P, S) => m \in S}

Cut(P, k) == [m \in Id |-> IF m \in Reach(P, k) THEN None ELSE P[m]]

LEMMA ChainIsReach == \A n : Chain(n) = Reach(previousNotifier, n)
  BY DEF Chain, Reach, ClosedUnder

LEMMA DrainedIsCut == \A k : Drained(k) = Cut(previousNotifier, k)
  BY ChainIsReach DEF Drained, Cut

LEMMA ReachLeast ==
  ASSUME NEW P, NEW n, NEW S \in SUBSET Id, n \in S \cup {None}, ClosedUnder(P, S)
  PROVE  Reach(P, n) \subseteq S
  BY DEF Reach

LEMMA ReachNone == \A P : Reach(P, None) = {}
  <1> TAKE P
  <1>1. {} \in SUBSET Id /\ None \in {} \cup {None} /\ ClosedUnder(P, {})
    BY DEF ClosedUnder
  <1> QED  BY <1>1 DEF Reach

LEMMA ReachSelf ==
  ASSUME NEW P, NEW n \in Id
  PROVE  n \in Reach(P, n) /\ Reach(P, n) \subseteq Id
  BY DEF Reach

Linked(P) == P \in [Id -> 0 .. MaxWatches] /\ \A i \in Id : P[i] < i

LEMMA ReachClosed ==
  ASSUME NEW P, Linked(P), NEW n, NEW i \in Reach(P, n), P[i] # None
  PROVE  P[i] \in Reach(P, n)
  <1>1. ASSUME NEW S \in SUBSET Id, n \in S \cup {None}, ClosedUnder(P, S) PROVE P[i] \in S
    BY <1>1 DEF Reach, ClosedUnder
  <1>2. P[i] \in Id
    BY DEF Linked, Reach
  <1> QED  BY <1>1, <1>2 DEF Reach

LEMMA ReachStep ==
  ASSUME NEW P, Linked(P), NEW n \in Id
  PROVE  Reach(P, n) = {n} \cup Reach(P, P[n])
  <1> DEFINE S == {n} \cup Reach(P, P[n])
  <1>1. S \in SUBSET Id /\ n \in S
    BY DEF Reach
  <1>2. P[n] \in Reach(P, P[n]) \cup {None}
    BY DEF Linked, Reach
  <1>3. ClosedUnder(P, S)
    BY <1>2, ReachClosed DEF ClosedUnder
  <1>4. Reach(P, n) \subseteq S
    BY <1>1, <1>3, ReachLeast
  <1>5. n \in Reach(P, n) /\ Reach(P, n) \in SUBSET Id
    BY ReachSelf
  <1>6. ClosedUnder(P, Reach(P, n))
    BY ReachClosed DEF ClosedUnder
  <1>7. P[n] \in Reach(P, n) \cup {None}
    BY <1>5, ReachClosed
  <1>8. Reach(P, P[n]) \subseteq Reach(P, n)
    BY <1>5, <1>6, <1>7, ReachLeast
  <1> QED  BY <1>4, <1>5, <1>8

\* The chain descends.
LEMMA ReachBelow ==
  ASSUME NEW P, Linked(P), NEW n \in Id
  PROVE  \A i \in Reach(P, n) : i \in Id /\ i <= n
  <1> DEFINE S == {i \in Id : i <= n}
  <1>1. ClosedUnder(P, S)
    BY ConstantsAssumption DEF ClosedUnder, Linked
  <1>2. Reach(P, n) \subseteq S
    BY <1>1, ReachLeast, ConstantsAssumption
  <1> QED  BY <1>2

LEMMA ReachSub ==
  ASSUME NEW P, Linked(P), NEW n, NEW m \in Reach(P, n)
  PROVE  Reach(P, m) \subseteq Reach(P, n)
  <1>1. ClosedUnder(P, Reach(P, n)) /\ Reach(P, n) \in SUBSET Id
    BY ReachClosed DEF ClosedUnder, Reach
  <1> QED  BY <1>1, ReachLeast

\* Of two notifiers of a chain the older one is in the chain of the newer one.
LEMMA ReachLinear ==
  ASSUME NEW P, Linked(P), NEW n \in Id, NEW m \in Reach(P, n), NEW i \in Reach(P, n), i <= m
  PROVE  i \in Reach(P, m)
  <1> DEFINE S == {j \in Reach(P, n) : j \in Reach(P, m) \/ m \in Reach(P, j)}
  <1>0. Reach(P, n) \subseteq Id /\ m \in Id /\ n \in Reach(P, n)
    BY ReachSelf
  <1>1. ASSUME NEW j \in S, P[j] # None PROVE P[j] \in S
    <2>1. P[j] \in Reach(P, n)
      BY <1>1, ReachClosed
    <2>2. CASE j \in Reach(P, m)
      BY <1>1, <2>1, <2>2, ReachClosed
    <2>3. CASE m \in Reach(P, j)
      <3>1. m = j \/ m \in Reach(P, P[j])
        BY <1>0, <2>3, ReachStep
      <3>2. m \in Reach(P, m)
        BY <1>0, ReachSelf
      <3>3. m = j => P[j] \in Reach(P, m)
        BY <1>1, <3>2, ReachClosed
      <3> QED  BY <2>1, <3>1, <3>3
    <2> QED  BY <2>2, <2>3
  <1>2. ClosedUnder(P, S) /\ S \in SUBSET Id /\ n \in S
    BY <1>0, <1>1 DEF ClosedUnder
  <1>3. i \in S
    BY <1>2, ReachLeast
  <1>4. CASE m \in Reach(P, i)
    <2>1. m <= i /\ m \in Int /\ i \in Int
      BY <1>0, <1>4, ReachBelow, ConstantsAssumption
    <2> QED  BY <1>0, <2>1, ReachSelf
  <1> QED  BY <1>3, <1>4

\* What is in a chain, but is not its first notifier, has one above it.
LEMMA ReachAbove ==
  ASSUME NEW P, Linked(P), NEW n \in Id, NEW x \in Reach(P, n), x # n
  PROVE  \E y \in Reach(P, n) : P[y] = x
  <1> SUFFICES ASSUME \A y \in Reach(P, n) : P[y] # x PROVE FALSE
    OBVIOUS
  <1> DEFINE S == Reach(P, n) \ {x}
  <1>1. ClosedUnder(P, S) /\ S \in SUBSET Id /\ n \in S
    BY ReachClosed, ReachSelf DEF ClosedUnder
  <1> QED  BY <1>1, ReachLeast

\* No two notifiers have the same previous one.
OneAbove(P) == \A i, j \in Id : P[i] # None /\ P[i] = P[j] => i = j

LEMMA ReachDisjoint ==
  ASSUME NEW P, Linked(P), OneAbove(P), NEW a \in Id, NEW k \in Id, k <= a, k \notin Reach(P, a)
  PROVE  Reach(P, k) \cap Reach(P, a) = {}
  <1> DEFINE S == Reach(P, k) \ Reach(P, a)
  <1>1. ASSUME NEW i \in S, P[i] # None, P[i] \notin S PROVE FALSE
    <2>1. P[i] \in Reach(P, a) /\ i \in Id
      BY <1>1, ReachClosed, ReachSelf
    <2>2. P[i] < i /\ P[i] \in Int
      BY <2>1, ConstantsAssumption DEF Linked
    <2>r. i <= k
      BY ReachBelow
    <2>3. P[i] # a
      BY <2>1, <2>2, <2>r, ConstantsAssumption
    <2>4. PICK y \in Reach(P, a) : P[y] = P[i]
      BY <2>1, <2>3, ReachAbove
    <2>5. y = i
      BY <1>1, <2>1, <2>4, ReachSelf DEF OneAbove
    <2> QED  BY <1>1, <2>4, <2>5
  <1>2. ClosedUnder(P, S) /\ S \in SUBSET Id /\ k \in S
    BY <1>1, ReachSelf DEF ClosedUnder
  <1> QED  BY <1>2, ReachLeast

\* A chain without a changed link is the same chain.
LEMMA ReachSame ==
  ASSUME NEW P, NEW Q, Linked(P), Linked(Q), NEW n \in 0 .. MaxWatches,
         \A i \in Reach(P, n) : Q[i] = P[i]
  PROVE  Reach(Q, n) = Reach(P, n)
  <1>1. CASE n = None
    BY <1>1, ReachNone
  <1>2. CASE n \in Id
    <2>1. ClosedUnder(Q, Reach(P, n)) /\ Reach(P, n) \in SUBSET Id /\ n \in Reach(P, n)
      BY <1>2, ReachClosed, ReachSelf DEF ClosedUnder
    <2>2. Reach(Q, n) \subseteq Reach(P, n)
      BY <2>1, ReachLeast
    <2>3. ClosedUnder(P, Reach(Q, n)) /\ Reach(Q, n) \in SUBSET Id /\ n \in Reach(Q, n)
      BY <1>2, <2>2, ReachClosed, ReachSelf DEF ClosedUnder
    <2>4. Reach(P, n) \subseteq Reach(Q, n)
      BY <2>3, ReachLeast
    <2> QED  BY <2>2, <2>4
  <1> QED  BY <1>1, <1>2, ConstantsAssumption

-----------------------------------------------------------------------------
\* What a BOOKMARK in the frame of notifier k does to the chains.
LEMMA CutLinked ==
  ASSUME NEW P, Linked(P), NEW k
  PROVE  /\ Linked(Cut(P, k)) /\ (OneAbove(P) => OneAbove(Cut(P, k)))
         /\ \A i \in Reach(P, k) : Cut(P, k)[i] = None
         /\ \A i \in Id \ Reach(P, k) : Cut(P, k)[i] = P[i]
  <1>1. Cut(P, k) \in [Id -> 0 .. MaxWatches]
    BY ConstantsAssumption DEF Cut, Linked
  <1>2. \A i \in Id : Cut(P, k)[i] \in {None, P[i]}
    BY DEF Cut
  <1>3. \A i \in Id : Cut(P, k)[i] < i
    BY <1>2 DEF Linked
  <1>4. OneAbove(P) => OneAbove(Cut(P, k))
    BY <1>2 DEF OneAbove
  <1>5. Reach(P, k) \subseteq Id
    BY DEF Reach
  <1> QED  BY <1>1, <1>3, <1>4, <1>5 DEF Cut, Linked

LEMMA CutOff ==
  ASSUME NEW P, Linked(P), OneAbove(P), NEW a \in Id, NEW k \in Id, k <= a,
         k \notin Reach(P, a), NEW x \in 0 .. MaxWatches, Reach(P, x) \subseteq Reach(P, a)
  PROVE  Reach(Cut(P, k), x) = Reach(P, x)
  <1>1. Reach(P, k) \cap Reach(P, a) = {}
    BY ReachDisjoint
  <1>2. \A i \in Reach(P, x) : i \in Id \ Reach(P, k)
    BY <1>1, ReachSelf
  <1> QED  BY <1>2, CutLinked, ReachSame

LEMMA CutIn ==
  ASSUME NEW P, Linked(P), NEW a \in Id, NEW k \in Reach(P, a)
  PROVE  Reach(Cut(P, k), a) = {i \in Reach(P, a) : i >= k}
  <1> DEFINE Q == Cut(P, k)
             S == {i \in Reach(P, a) : i >= k}
  <1>0. /\ Reach(P, a) \subseteq Id /\ k \in Id /\ a \in Reach(P, a) /\ k \in Reach(P, k)
        /\ Reach(P, k) \subseteq Id /\ a >= k
    <2>1. Reach(P, a) \subseteq Id /\ a \in Reach(P, a)
      BY ReachSelf
    <2>2. k <= a
      BY ReachBelow
    <2> QED  BY <2>1, <2>2, ReachSelf
  <1>q. /\ Linked(Q) /\ \A i \in Reach(P, k) : Q[i] = None
        /\ \A i \in Id \ Reach(P, k) : Q[i] = P[i]
    BY CutLinked
  <1> HIDE DEF Q
  <1>1. ASSUME NEW i \in Reach(P, a), i \notin Reach(P, k)
        PROVE  P[i] = None \/ (P[i] \in Reach(P, a) /\ k <= P[i])
    <2>1. SUFFICES ASSUME P[i] # None PROVE P[i] \in Reach(P, a) /\ k <= P[i]
      OBVIOUS
    <2>2. P[i] \in Reach(P, a) /\ i \in Id /\ P[i] \in Id
      BY <1>0, <2>1, ReachClosed
    <2>3. k <= i
      <3>1. i <= k => i \in Reach(P, k)
        BY ReachLinear
      <3> QED  BY <1>0, <1>1, <2>2, <3>1, ConstantsAssumption
    <2>4. k \in Reach(P, i)
      BY <2>3, ReachLinear
    <2>5. k \in Reach(P, P[i])
      BY <1>0, <1>1, <2>2, <2>4, ReachStep
    <2> QED  BY <2>2, <2>5, ReachBelow
  <1>2. ClosedUnder(Q, S)
    <2> SUFFICES ASSUME NEW i \in S, Q[i] # None PROVE Q[i] \in S
      BY DEF ClosedUnder
    <2>1. i \notin Reach(P, k) /\ i \in Id
      BY <1>0, <1>q
    <2>2. Q[i] = P[i]
      BY <1>q, <2>1
    <2>3. P[i] \in Reach(P, a) /\ k <= P[i]
      BY <1>1, <2>1, <2>2
    <2>4. P[i] >= k
      BY <1>0, <2>3, ConstantsAssumption
    <2> QED  BY <2>2, <2>3, <2>4
  <1>3. Reach(Q, a) \subseteq S
    <2>1. S \in SUBSET Id /\ a \in S
      BY <1>0
    <2> QED  BY <1>2, <2>1, ReachLeast
  <1>4. k \in Reach(Q, a)
    <2> SUFFICES ASSUME k \notin Reach(Q, a) PROVE FALSE
      OBVIOUS
    <2> DEFINE T == Reach(Q, a) \ Reach(P, k)
    <2>1. ASSUME NEW i \in T, P[i] # None PROVE P[i] \in T
      <3>1. i \in Id /\ i \in Reach(P, a) /\ i \notin Reach(P, k) /\ Q[i] = P[i]
        BY <1>0, <1>3, <1>q
      <3>2. P[i] \in Reach(Q, a)
        BY <1>q, <2>1, <3>1, ReachClosed
      <3>3. k <= P[i] /\ P[i] \in Id
        BY <1>0, <1>1, <2>1, <3>1
      <3>4. P[i] \in Reach(P, k) => P[i] <= k
        BY <1>0, ReachBelow
      <3>5. P[i] \in Reach(P, k) => P[i] = k
        BY <1>0, <3>3, <3>4, ConstantsAssumption
      <3> QED  BY <3>2, <3>5
    <2>2. a \in Reach(Q, a)
      BY ReachSelf
    <2>3. a \notin Reach(P, k)
      <3>1. a \in Reach(P, k) => a <= k
        BY <1>0, ReachBelow
      <3>2. a \in Reach(P, k) => a = k
        BY <1>0, <3>1, ConstantsAssumption
      <3> QED  BY <2>2, <3>2
    <2>4. ClosedUnder(P, T) /\ T \in SUBSET Id /\ a \in T
      BY <2>1, <2>2, <2>3, ReachSelf DEF ClosedUnder
    <2>5. k \in T
      BY <2>4, ReachLeast
    <2> QED  BY <2>5
  <1>5. S \subseteq Reach(Q, a)
    <2> DEFINE T == Reach(Q, a) \cup Reach(P, k)
    <2>1. ASSUME NEW i \in T, P[i] # None PROVE P[i] \in T
      <3>1. CASE i \in Reach(P, k)
        BY <2>1, <3>1, ReachClosed
      <3>2. CASE i \in Reach(Q, a) /\ i \notin Reach(P, k)
        <4>1. Q[i] = P[i]
          BY <1>q, <3>2, ReachSelf
        <4> QED  BY <1>q, <2>1, <3>2, <4>1, ReachClosed
      <3> QED  BY <3>1, <3>2
    <2>2. ClosedUnder(P, T) /\ T \in SUBSET Id /\ a \in T
      BY <1>0, <2>1, ReachSelf DEF ClosedUnder
    <2>3. Reach(P, a) \subseteq T
      BY <2>2, ReachLeast
    <2>4. ASSUME NEW i \in S PROVE i \in Reach(Q, a)
      <3>1. i \in Reach(P, k) => i <= k
        BY <1>0, ReachBelow
      <3>2. i \in Reach(P, k) => i = k
        BY <1>0, <3>1, ConstantsAssumption
      <3> QED  BY <1>4, <2>3, <3>2
    <2> QED  BY <2>4
  <1> QED  BY <1>3, <1>5 DEF Q

-----------------------------------------------------------------------------
(***************************************************************************)
(* Who owns a client.  Every step keeps an open client with one notifier   *)
(* of the current chain: Watch puts a new notifier on top of the chain, a  *)
(* BOOKMARK cuts it below a notifier that takes over what is cut off, and  *)
(* whoever walks the chain under the namespace mutex visits all of it.     *)
(***************************************************************************)
Current == Chain(currentNotifier)
Empty == \A n \in Current : clientsMap[n] = {}

\* The notifiers form one line, in the order of their ids.
LinkInv ==
  /\ OneAbove(previousNotifier)
  /\ \A i \in Id : previousNotifier[i] # None => i <= currentNotifier

\* The holder of the namespace mutex is where it needs it.
Critical(p, w) ==
  IF \E k \in Id : p = Server(k) THEN w = "cleanup" ELSE w \in {"delete", "count"}
MutexHolder == \A p \in Procs : nsMutex = p <=> Critical(p, pc[p])

\* Nothing happens to a client or a connection before its Watch returned.
Started ==
  /\ \A c \in Id : channel[c] # "none" => c <= currentNotifier
  /\ \A n \in Id : \A c \in clientsMap[n] : channel[c] # "none"
  /\ \A s \in StopKinds, c \in Id : pc[<<s, c>>] # "none" => channel[c] # "none"
  /\ \A k \in Id : stopRequested[k] => k <= currentNotifier
  /\ \A k \in Id : cancelled[k] => k < clientCount

\* The handler, unless the last Watch failed, is that of the current notifier.
HandlerInv ==
  /\ currentEventHandler \in {None, currentNotifier}
  /\ currentEventHandler # None /\ nsMutex # WatchCall => ~cancelled[currentNotifier]
  /\ currentNotifier # None =>
       pc[Server(currentNotifier)] # "none" /\ channel[currentNotifier] # "none"

\* What the holder of the namespace mutex has locked and has yet to lock.
Walks ==
  \A p \in Procs : nsMutex = p /\ (\A k \in Id : p = Server(k) => k = currentNotifier) =>
    held[p] \cup Chain(next[p]) = Current

OwnedIn(C, M, c) == \E n \in C : c \in M[n] /\ \A m \in C : c \in M[m] => m = n
Owned ==
  crash = "no" => \A c \in Id : channel[c] = "open" /\ ~Stopping(c) =>
    OwnedIn(Current, clientsMap, c)

\* A goroutine that was not superseded ends after it closed all clients.
DoneEmpty ==
  currentNotifier # None /\ pc[Server(currentNotifier)] = "done"
    /\ ~cancelled[currentNotifier] => Empty

StoppedEmpty == currentNotifier # None /\ stopRequested[currentNotifier] => Empty

\* The last client has left, and its goroutine is about to see that.
Counting ==
  \E s \in StopKinds, c \in Id : nsMutex = <<s, c>> /\ pc[<<s, c>>] = "count"
IdleInv ==
  currentEventHandler # None /\ crash = "no" /\ Empty /\ (\A c \in Id : channel[c] # "closed")
    => stopRequested[currentEventHandler] \/ Counting

PlaceInv == LinkInv /\ MutexHolder /\ Started /\ HandlerInv /\ Walks
OwnerInv == Owned /\ DoneEmpty /\ StoppedEmpty /\ IdleInv

-----------------------------------------------------------------------------
\* A step of the goroutine of connection k, or none, that leaves the clients,
\* the chain and the connections' fate alone.
Bookkeeping ==
  <<nsVars, previousNotifier, clientsMap, channel, stopRequested, crash>>
Works(k) ==
  /\ UNCHANGED Bookkeeping /\ Others(Server(k))
  /\ pc[Server(k)] \notin {"none", "cleanup", "done"}
  /\ pc'[Server(k)] \in {"select", "count", "accept", "send", "closing"}

LEMMA ServerWorks ==
  ASSUME TypeOK, LockInv, NEW k \in Id, NEW n \in Id,
         Receive(k) \/ Counted(k) \/ SeeClosed(k) \/ SkipEvent(k, n) \/ ProcessEvent(k, n)
           \/ SendDone(k, n)
  PROVE  Works(k)
  <1>p. /\ pc \in [Procs -> PCs] /\ ProcTypeOK /\ Resting /\ OwnRange
        /\ Server(k) \in Procs
    BY Groups DEF LockInv, ProcTypeOK
  <1>1. next[Server(k)] = None
    BY <1>p DEF Receive, Counted, SeeClosed, SkipEvent, ProcessEvent, SendDone, InFrame,
                Resting
  <1>2. ServerStep(k) /\ ~Descend(Server(k))
    BY <1>1 DEF ServerStep, Descend
  <1>3. Others(Server(k))
    BY <1>p, <1>2, ServerReleases
  <1>4. /\ pc[Server(k)] \in {"select", "count", "accept", "send"}
        /\ pc'[Server(k)] \in {"select", "count", "accept", "send", "closing"}
    BY <1>p DEF Receive, Counted, SeeClosed, SkipEvent, ProcessEvent, SendDone, InFrame,
                Call, Return
  <1>5. UNCHANGED Bookkeeping
    BY DEF Receive, Counted, SeeClosed, SkipEvent, ProcessEvent, SendDone, Bookkeeping,
           notifierVars, clientVars, connectionVars
  <1> QED  BY <1>3, <1>4, <1>5 DEF Works

\* The steps that matter to the ownership of clients.
Manages(k) == ExitCancelled(k) \/ DrainBookmark(k) \/ CleanupBegin(k) \/ CleanupEnd(k)
Fails(k, n, c) == SendTimeout(k, n, c) \/ SendClosed(k, n, c)
Stops(s, c) == StopCalled(s, c) \/ StopBegin(s, c) \/ DeleteClient(s, c) \/ StopEnd(s, c)

LEMMA Steps ==
  ASSUME TypeOK, LockInv, [Next]_vars
  PROVE  \/ UNCHANGED <<Bookkeeping, procVars>>
         \/ crash = "no" /\ \/ \E k \in Id : Works(k) \/ Manages(k)
                            \/ \E p \in Procs : Descend(p)
                            \/ Watch
                            \/ \E k, n, c \in Id : Fails(k, n, c)
                            \/ \E s \in StopKinds, c \in Id : Stops(s, c)
  <1>1. CASE Cluster \/ (\E k \in Id : Connection(k)) \/ (\E k, c \in Id : Sends(k, c))
             \/ UNCHANGED vars
    BY <1>1
    DEF Cluster, Create, Modify, Delete, Change, Connection, SendBookmark, Relist, Resume,
        CloseConnection, Sends, SendOk, vars, Bookkeeping, notifierVars, clientVars,
        connectionVars
  <1>2. ASSUME NEW k \in Id, ServerStep(k)
        PROVE  \/ Works(k) \/ Manages(k) \/ Descend(Server(k))
               \/ \E n, c \in Id : Fails(k, n, c)
    BY <1>2, ServerWorks DEF ServerStep, Manages, Fails
  <1>3. ASSUME NEW s \in StopKinds, NEW c \in Id, StopCalled(s, c) \/ StopStep(s, c)
        PROVE  Stops(s, c) \/ Descend(<<s, c>>)
    BY <1>3 DEF StopStep, Stops
  <1> QED  BY <1>1, <1>2, <1>3, ServerIsProc, StopIsProc DEF Next

-----------------------------------------------------------------------------
LEMMA ChainLinked == TypeOK /\ LockInv => Linked(previousNotifier)
  BY Groups DEF LockInv, ChainOrder, Linked, NotifierTypeOK

LEMMA WatchCount ==
  ASSUME TypeOK, LockInv, nsMutex = WatchCall
  PROVE  clientCount \in Id /\ currentNotifier < clientCount /\ currentNotifier \in 0 .. MaxWatches
  BY Groups, ConstantsAssumption DEF LockInv, WatchOrder, NsTypeOK

LEMMA NextLinkInv == TypeOK /\ LockInv /\ LinkInv /\ [Next]_vars => LinkInv'
  <1>0. SUFFICES ASSUME TypeOK, LockInv, LinkInv, [Next]_vars PROVE LinkInv'
    OBVIOUS
  <1>1. CASE UNCHANGED <<previousNotifier, currentNotifier>>
    BY <1>0, <1>1 DEF LinkInv, OneAbove
  <1>2. CASE WatchSucceed
    <2>1. clientCount \in Id /\ currentNotifier < clientCount /\ currentNotifier \in 0 .. MaxWatches
      BY <1>0, <1>2, WatchCount DEF WatchSucceed
    <2>2. Linked(previousNotifier)
      BY <1>0, ChainLinked
    <2>3. \A i \in Id : previousNotifier'[i]
                          = IF i = clientCount THEN currentNotifier ELSE previousNotifier[i]
      BY <1>2, <2>2 DEF WatchSucceed, Linked
    <2>4. \A i \in Id : previousNotifier[i] # None => previousNotifier[i] < currentNotifier
      BY <1>0, <2>1, <2>2 DEF LinkInv, Linked
    <2>5. OneAbove(previousNotifier')
      BY <1>0, <2>1, <2>3, <2>4 DEF LinkInv, OneAbove
    <2>6. \A i \in Id : previousNotifier'[i] # None => i <= clientCount
      BY <1>0, <2>1, <2>3 DEF LinkInv
    <2>7. currentNotifier' = clientCount
      BY <1>2 DEF WatchSucceed
    <2> QED  BY <2>5, <2>6, <2>7 DEF LinkInv, OneAbove
  <1>3. ASSUME NEW k \in Id, DrainBookmark(k) PROVE LinkInv'
    <2>1. previousNotifier' = Cut(previousNotifier, k) /\ UNCHANGED currentNotifier
      BY <1>3, DrainedIsCut DEF DrainBookmark, nsVars
    <2>2. OneAbove(previousNotifier')
      BY <1>0, <2>1, ChainLinked, CutLinked DEF LinkInv
    <2>3. \A i \in Id : previousNotifier'[i] \in {None, previousNotifier[i]}
      BY <2>1 DEF Cut
    <2> QED  BY <1>0, <2>1, <2>2, <2>3 DEF LinkInv, OneAbove
  <1>4. ASSUME NEW k \in Id, Works(k) \/ (Manages(k) /\ ~DrainBookmark(k))
        PROVE  UNCHANGED <<previousNotifier, currentNotifier>>
    BY <1>4 DEF Works, Bookkeeping, Manages, ExitCancelled, CleanupBegin, CleanupEnd,
                nsVars, notifierVars
  <1>5. ASSUME NEW p \in Procs, Descend(p)
        PROVE  UNCHANGED <<previousNotifier, currentNotifier>>
    BY <1>5 DEF Descend, nsVars, notifierVars
  <1>6. ASSUME NEW k \in Id, NEW n \in Id, NEW c \in Id, Fails(k, n, c)
        PROVE  UNCHANGED <<previousNotifier, currentNotifier>>
    BY <1>6 DEF Fails, SendTimeout, SendClosed, nsVars, notifierVars
  <1>7. ASSUME NEW s \in StopKinds, NEW c \in Id, Stops(s, c)
        PROVE  UNCHANGED <<previousNotifier, currentNotifier>>
    BY <1>7 DEF Stops, StopCalled, StopBegin, DeleteClient, StopEnd, nsVars, notifierVars
  <1>8. CASE WatchBegin \/ WatchFail
    BY <1>1, <1>8 DEF WatchBegin, WatchFail, notifierVars
  <1>9. CASE UNCHANGED <<Bookkeeping, procVars>>
    BY <1>1, <1>9 DEF Bookkeeping, nsVars
  <1> QED
    BY <1>0, <1>1, <1>2, <1>3, <1>4, <1>5, <1>6, <1>7, <1>8, <1>9, Steps DEF Watch

LEMMA CriticalPc ==
  /\ \A w : \A k \in Id : Critical(Server(k), w) <=> w = "cleanup"
  /\ \A w : \A s \in StopKinds, c \in Id :
        Critical(<<s, c>>, w) <=> w \in {"delete", "count"}
  BY ConstantsAssumption DEF Critical

LEMMA MutexNames ==
  ASSUME NEW p \in Procs
  PROVE  p # Free /\ p # WatchCall
  BY ConstantsAssumption

LEMMA NextMutexHolder == TypeOK /\ LockInv /\ MutexHolder /\ [Next]_vars => MutexHolder'
  <1>0. SUFFICES ASSUME TypeOK, LockInv, MutexHolder, [Next]_vars PROVE MutexHolder'
    OBVIOUS
  <1>p. pc \in [Procs -> PCs]
    BY <1>0, Groups DEF ProcTypeOK
  <1>1. ASSUME UNCHANGED nsMutex, NEW p \in Procs, \A q \in Procs \ {p} : pc'[q] = pc[q],
               Critical(p, pc'[p]) <=> Critical(p, pc[p])
        PROVE  MutexHolder'
    BY <1>0, <1>1 DEF MutexHolder
  <1>2. ASSUME NEW p \in Procs, nsMutex = Free, nsMutex' = p,
               \A q \in Procs \ {p} : pc'[q] = pc[q], Critical(p, pc'[p])
        PROVE  MutexHolder'
    BY <1>0, <1>2, MutexNames DEF MutexHolder
  <1>3. ASSUME NEW p \in Procs, Critical(p, pc[p]), nsMutex' = Free,
               \A q \in Procs \ {p} : pc'[q] = pc[q], ~Critical(p, pc'[p])
        PROVE  MutexHolder'
    BY <1>0, <1>3, MutexNames DEF MutexHolder
  <1>4. CASE UNCHANGED <<Bookkeeping, procVars>>
    BY <1>0, <1>4 DEF Bookkeeping, procVars, nsVars, MutexHolder
  <1>5. ASSUME NEW k \in Id, Works(k) PROVE MutexHolder'
    <2>1. UNCHANGED nsMutex /\ \A q \in Procs \ {Server(k)} : pc'[q] = pc[q]
      BY <1>5 DEF Works, Bookkeeping, nsVars, Others
    <2>2. Critical(Server(k), pc'[Server(k)]) <=> Critical(Server(k), pc[Server(k)])
      BY <1>5, CriticalPc DEF Works
    <2> QED  BY <1>1, <2>1, <2>2, ServerIsProc
  <1>6. ASSUME NEW k \in Id, Manages(k) PROVE MutexHolder'
    <2>1. CASE ExitCancelled(k) \/ DrainBookmark(k)
      <3>1. /\ UNCHANGED nsMutex /\ pc[Server(k)] \in {"select", "accept"}
            /\ \E w \in {"done", "send"} : pc' = [pc EXCEPT ![Server(k)] = w]
        BY <2>1 DEF ExitCancelled, DrainBookmark, Exit, InFrame, nsVars
      <3>2. pc'[Server(k)] \in {"done", "send"} /\ \A q \in Procs \ {Server(k)} : pc'[q] = pc[q]
        BY <1>p, <3>1, ServerIsProc
      <3>3. Critical(Server(k), pc'[Server(k)]) <=> Critical(Server(k), pc[Server(k)])
        BY <3>1, <3>2, CriticalPc
      <3> QED  BY <1>1, <3>1, <3>2, <3>3, ServerIsProc
    <2>2. CASE CleanupBegin(k)
      <3>1. /\ nsMutex = Free /\ nsMutex' = Server(k)
            /\ pc' = [pc EXCEPT ![Server(k)] = "cleanup"]
        BY <2>2 DEF CleanupBegin, Call
      <3>2. pc'[Server(k)] = "cleanup" /\ \A q \in Procs \ {Server(k)} : pc'[q] = pc[q]
        BY <1>p, <3>1, ServerIsProc
      <3> QED  BY <1>2, <3>1, <3>2, CriticalPc, ServerIsProc
    <2>3. CASE CleanupEnd(k)
      <3>1. /\ pc[Server(k)] = "cleanup" /\ nsMutex' = Free
            /\ pc' = [pc EXCEPT ![Server(k)] = "done"]
        BY <2>3 DEF CleanupEnd, InFrame, Exit
      <3>2. pc'[Server(k)] = "done" /\ \A q \in Procs \ {Server(k)} : pc'[q] = pc[q]
        BY <1>p, <3>1, ServerIsProc
      <3> QED  BY <1>3, <3>1, <3>2, CriticalPc, ServerIsProc
    <2> QED  BY <1>6, <2>1, <2>2, <2>3 DEF Manages
  <1>7. CASE \E p \in Procs : Descend(p)
    <2>1. UNCHANGED <<nsMutex, pc>>
      BY <1>7 DEF Descend, nsVars
    <2> QED  BY <1>0, <2>1 DEF MutexHolder
  <1>8. CASE \E k, n, c \in Id : Fails(k, n, c)
    <2>1. UNCHANGED <<nsMutex, pc>>
      BY <1>8 DEF Fails, SendTimeout, SendClosed, nsVars, procVars
    <2> QED  BY <1>0, <2>1 DEF MutexHolder
  <1>9. CASE WatchBegin \/ WatchFail
    <2>1. nsMutex \in {Free, WatchCall} /\ nsMutex' \in {Free, WatchCall} /\ UNCHANGED pc
      BY <1>9 DEF WatchBegin, WatchFail, procVars
    <2> QED  BY <1>0, <2>1, MutexNames DEF MutexHolder
  <1>10. CASE WatchSucceed
    <2>1. clientCount \in Id /\ pc[Server(clientCount)] = "none"
      <3>1. clientCount \in Id /\ currentNotifier < clientCount /\ currentNotifier \in 0 .. MaxWatches
        BY <1>0, <1>10, WatchCount DEF WatchSucceed
      <3>2. pc[Server(clientCount)] # "none" => clientCount <= currentNotifier
        BY <1>0, <3>1 DEF LockInv, WatchOrder
      <3> QED  BY <3>1, <3>2, ConstantsAssumption
    <2>2. /\ nsMutex = WatchCall /\ nsMutex' = Free
          /\ pc' = [pc EXCEPT ![Server(clientCount)] = "select"]
      BY <1>10 DEF WatchSucceed
    <2>3. pc'[Server(clientCount)] = "select"
          /\ \A q \in Procs \ {Server(clientCount)} : pc'[q] = pc[q]
      BY <1>p, <2>1, <2>2, ServerIsProc
    <2>4. ~Critical(Server(clientCount), "select")
      BY <2>1, CriticalPc
    <2> QED  BY <1>0, <2>1, <2>2, <2>3, <2>4, MutexNames DEF MutexHolder
  <1>11. ASSUME NEW s \in StopKinds, NEW c \in Id, Stops(s, c) PROVE MutexHolder'
    <2> DEFINE p == <<s, c>>
    <2>p. p \in Procs
      BY StopIsProc
    <2>1. CASE StopCalled(s, c)
      <3>1. /\ UNCHANGED nsMutex /\ pc[p] = "none" /\ pc' = [pc EXCEPT ![p] = "called"]
        BY <2>1 DEF StopCalled, nsVars
      <3>2. pc'[p] = "called" /\ \A q \in Procs \ {p} : pc'[q] = pc[q]
        BY <1>p, <2>p, <3>1
      <3>3. Critical(p, pc'[p]) <=> Critical(p, pc[p])
        BY <3>1, <3>2, CriticalPc
      <3> QED  BY <1>1, <2>p, <3>1, <3>2, <3>3
    <2>2. CASE StopBegin(s, c)
      <3>1. nsMutex = Free /\ nsMutex' = p /\ pc' = [pc EXCEPT ![p] = "delete"]
        BY <2>2 DEF StopBegin, Call
      <3>2. pc'[p] = "delete" /\ \A q \in Procs \ {p} : pc'[q] = pc[q]
        BY <1>p, <2>p, <3>1
      <3>3. Critical(p, pc'[p])
        BY <3>2, CriticalPc
      <3> QED  BY <1>2, <2>p, <3>1, <3>2, <3>3
    <2>3. CASE DeleteClient(s, c)
      <3>1. UNCHANGED nsMutex /\ pc[p] = "delete" /\ pc' = [pc EXCEPT ![p] = "count"]
        BY <2>3 DEF DeleteClient, InFrame, Call, nsVars
      <3>2. pc'[p] = "count" /\ \A q \in Procs \ {p} : pc'[q] = pc[q]
        BY <1>p, <2>p, <3>1
      <3>3. Critical(p, pc'[p]) <=> Critical(p, pc[p])
        BY <3>1, <3>2, CriticalPc
      <3> QED  BY <1>1, <2>p, <3>1, <3>2, <3>3
    <2>4. CASE StopEnd(s, c)
      <3>1. /\ nsMutex' = Free /\ pc[p] = "count"
            /\ \E w \in {"returned", "panicked"} : pc' = [pc EXCEPT ![p] = w]
        BY <2>4 DEF StopEnd, InFrame
      <3>2. pc'[p] \in {"returned", "panicked"} /\ \A q \in Procs \ {p} : pc'[q] = pc[q]
        BY <1>p, <2>p, <3>1
      <3>3. Critical(p, pc[p]) /\ ~Critical(p, pc'[p])
        BY <3>1, <3>2, CriticalPc
      <3> QED  BY <1>3, <2>p, <3>1, <3>2, <3>3
    <2> QED  BY <1>11, <2>1, <2>2, <2>3, <2>4 DEF Stops
  <1> QED
    BY <1>0, <1>4, <1>5, <1>6, <1>7, <1>8, <1>9, <1>10, <1>11, Steps DEF Watch

\* The steps that change neither who is known nor what is asked of it.
Same == UNCHANGED <<clientCount, currentNotifier, currentEventHandler, cancelled>>

LEMMA SameSteps ==
  ASSUME TypeOK, LockInv, [Next]_vars, ~Watch
  PROVE  Same
  <1>1. CASE UNCHANGED <<Bookkeeping, procVars>>
    BY <1>1 DEF Bookkeeping, nsVars, Same
  <1>2. ASSUME NEW k \in Id, Works(k) \/ Manages(k) PROVE Same
    BY <1>2 DEF Works, Bookkeeping, Manages, ExitCancelled, DrainBookmark, CleanupBegin,
                CleanupEnd, nsVars, Same
  <1>3. ASSUME NEW p \in Procs, Descend(p) PROVE Same
    BY <1>3 DEF Descend, nsVars, Same
  <1>4. ASSUME NEW k \in Id, NEW n \in Id, NEW c \in Id, Fails(k, n, c) PROVE Same
    BY <1>4 DEF Fails, SendTimeout, SendClosed, nsVars, Same
  <1>5. ASSUME NEW s \in StopKinds, NEW c \in Id, Stops(s, c) PROVE Same
    BY <1>5 DEF Stops, StopCalled, StopBegin, DeleteClient, StopEnd, nsVars, Same
  <1> QED  BY <1>1, <1>2, <1>3, <1>4, <1>5, Steps

\* What steps other than those of Watch do to the channels and the clients.
LEMMA ClientSteps ==
  ASSUME TypeOK, LockInv, [Next]_vars, ~Watch,
         \A n \in Id : \A c \in clientsMap[n] : channel[c] # "none"
  PROVE  /\ \A c \in Id : /\ channel[c] = "none" <=> channel'[c] = "none"
                          /\ channel'[c] = "open" => channel[c] = "open"
                          /\ channel[c] = "closed" => channel'[c] = "closed"
         /\ \A n \in Id : \A c \in clientsMap'[n] : c \in Id /\ \E m \in Id : c \in clientsMap[m]
         /\ \A k \in Id : stopRequested'[k] => stopRequested[k] \/ k = currentEventHandler
  <1>p. /\ channel \in [Id -> {"none", "open", "closed"}] /\ clientsMap \in [Id -> SUBSET Id]
        /\ stopRequested \in [Id -> BOOLEAN] /\ held \in [Procs -> SUBSET Id]
    BY Groups DEF ClientTypeOK, NotifierTypeOK, ConnectionTypeOK, ProcTypeOK
  <1> DEFINE A == \A c \in Id : /\ channel[c] = "none" <=> channel'[c] = "none"
                                /\ channel'[c] = "open" => channel[c] = "open"
                                /\ channel[c] = "closed" => channel'[c] = "closed"
             B == \A n \in Id : \A c \in clientsMap'[n] :
                     c \in Id /\ \E m \in Id : c \in clientsMap[m]
             D == \A k \in Id : stopRequested'[k] => stopRequested[k] \/ k = currentEventHandler
  <1>1. ASSUME UNCHANGED <<clientsMap, channel, stopRequested>> PROVE A /\ B /\ D
    BY <1>1, <1>p
  <1>2. ASSUME NEW k \in Id, DrainBookmark(k) PROVE A /\ B /\ D
    <2>1. UNCHANGED <<channel, stopRequested>>
      BY <1>2 DEF DrainBookmark, clientVars, connectionVars
    <2>2. clientsMap' = [clientsMap EXCEPT ![k] = UNION {clientsMap[n] : n \in Chain(k)}]
      BY <1>2 DEF DrainBookmark
    <2>3. Chain(k) \subseteq Id
      BY DEF Chain
    <2>4. \A c \in clientsMap'[k] : \E n \in Id : c \in clientsMap[n]
      BY <1>p, <2>2, <2>3
    <2>5. \A n \in Id \ {k} : clientsMap'[n] = clientsMap[n]
      BY <1>p, <2>2
    <2>6. B
      BY <1>p, <2>4, <2>5
    <2> QED  BY <2>1, <2>6
  <1>3. ASSUME NEW k \in Id, CleanupEnd(k) PROVE A /\ B /\ D
    <2> DEFINE closing == UNION {clientsMap[n] : n \in CleanedUp(k)}
    <2>0. CleanedUp(k) \subseteq Id
      BY <1>p, ServerIsProc DEF CleanedUp
    <2>1. /\ channel' = [c \in Id |-> IF c \in closing THEN "closed" ELSE channel[c]]
          /\ clientsMap' = [n \in Id |-> IF n \in CleanedUp(k) THEN {} ELSE clientsMap[n]]
          /\ UNCHANGED stopRequested
      BY <1>3 DEF CleanupEnd
    <2>2. \A c \in closing : channel[c] # "none"
      BY <2>0
    <2>3. A
      BY <2>1, <2>2
    <2>4. B
      BY <1>p, <2>1
    <2> QED  BY <2>1, <2>3, <2>4
  <1>4. ASSUME NEW k \in Id, NEW n \in Id, NEW c \in Id, Fails(k, n, c) PROVE A /\ B /\ D
    <2>1. CASE SendTimeout(k, n, c)
      <3>1. /\ channel[c] = "open" /\ channel' = [channel EXCEPT ![c] = "closed"]
            /\ clientsMap' = [clientsMap EXCEPT ![n] = clientsMap[n] \ {c}]
            /\ UNCHANGED stopRequested
        BY <2>1 DEF SendTimeout, Without, connectionVars
      <3>2. A
        BY <1>p, <3>1
      <3>3. B
        BY <1>p, <3>1
      <3> QED  BY <3>1, <3>2, <3>3
    <2>2. CASE SendClosed(k, n, c)
      BY <1>1, <2>2 DEF SendClosed, notifierVars, clientVars, connectionVars
    <2> QED  BY <1>4, <2>1, <2>2 DEF Fails
  <1>5. ASSUME NEW s \in StopKinds, NEW c \in Id, DeleteClient(s, c) PROVE A /\ B /\ D
    <2>1. /\ clientsMap' = [n \in Id |-> IF n \in Visited(<<s, c>>) THEN clientsMap[n] \ {c}
                                         ELSE clientsMap[n]]
          /\ UNCHANGED <<channel, stopRequested>>
      BY <1>5 DEF DeleteClient, clientVars, connectionVars
    <2>2. B
      BY <1>p, <2>1
    <2> QED  BY <2>1, <2>2
  <1>6. ASSUME NEW s \in StopKinds, NEW c \in Id, StopEnd(s, c) PROVE A /\ B /\ D
    <2>1. UNCHANGED <<clientsMap, channel>>
          /\ \A k \in Id : stopRequested'[k] => stopRequested[k] \/ k = currentEventHandler
      BY <1>6, <1>p DEF StopEnd, notifierVars, clientVars
    <2> QED  BY <1>p, <2>1
  <1>7. ASSUME NEW s \in StopKinds, NEW c \in Id, StopCalled(s, c) \/ StopBegin(s, c)
        PROVE  A /\ B /\ D
    BY <1>1, <1>7 DEF StopCalled, StopBegin, notifierVars, clientVars, connectionVars
  <1>8. ASSUME NEW k \in Id, Works(k) \/ ExitCancelled(k) \/ CleanupBegin(k) PROVE A /\ B /\ D
    BY <1>1, <1>8 DEF Works, Bookkeeping, ExitCancelled, CleanupBegin, notifierVars,
                      clientVars, connectionVars
  <1>9. ASSUME NEW p \in Procs, Descend(p) PROVE A /\ B /\ D
    BY <1>1, <1>9 DEF Descend, notifierVars, clientVars, connectionVars
  <1>10. ASSUME UNCHANGED <<Bookkeeping, procVars>> PROVE A /\ B /\ D
    BY <1>1, <1>10 DEF Bookkeeping
  <1> HIDE DEF A, B, D
  <1>11. ASSUME NEW k \in Id, Manages(k) PROVE A /\ B /\ D
    BY <1>2, <1>3, <1>8, <1>11 DEF Manages
  <1>12. ASSUME NEW s \in StopKinds, NEW c \in Id, Stops(s, c) PROVE A /\ B /\ D
    BY <1>5, <1>6, <1>7, <1>12 DEF Stops
  <1>13. A /\ B /\ D
    BY <1>4, <1>8, <1>9, <1>10, <1>11, <1>12, Steps
  <1> QED  BY <1>13 DEF A, B, D

\* How the program counters of the three goroutines of a client move.
LEMMA CounterSteps ==
  ASSUME TypeOK, LockInv, [Next]_vars, ~Watch
  PROVE  /\ \A k \in Id : pc[Server(k)] # "none" => pc'[Server(k)] # "none"
         /\ \A s \in StopKinds, c \in Id :
              /\ pc'[<<s, c>>] # "none" => pc[<<s, c>>] # "none" \/ channel[c] # "none"
              /\ pc'[<<s, c>>] \in {"none", "called"} => pc[<<s, c>>] \in {"none", "called"}
  <1>p. pc \in [Procs -> PCs] /\ \A s \in StopKinds : s # "server"
    BY Groups, ConstantsAssumption DEF ProcTypeOK
  <1> DEFINE A == \A k \in Id : pc[Server(k)] # "none" => pc'[Server(k)] # "none"
             B == \A s \in StopKinds, c \in Id :
              /\ pc'[<<s, c>>] # "none" => pc[<<s, c>>] # "none" \/ channel[c] # "none"
              /\ pc'[<<s, c>>] \in {"none", "called"} => pc[<<s, c>>] \in {"none", "called"}
  <1>1. CASE UNCHANGED pc
    BY <1>1
  <1>2. ASSUME NEW k \in Id, Works(k) \/ Manages(k) PROVE A /\ B
    <2>1. pc'[Server(k)] # "none" /\ \A q \in Procs \ {Server(k)} : pc'[q] = pc[q]
      BY <1>2, <1>p DEF Works, Others, Manages, ExitCancelled, DrainBookmark, CleanupBegin,
                        CleanupEnd, Exit, Call
    <2> QED  BY <1>p, <2>1
  <1>3. ASSUME NEW s \in StopKinds, NEW c \in Id, Stops(s, c) PROVE A /\ B
    <2>1. \A q \in Procs \ {<<s, c>>} : pc'[q] = pc[q]
      BY <1>3, <1>p DEF Stops, StopCalled, StopBegin, DeleteClient, StopEnd, Call
    <2>2. A
      BY <1>p, <2>1
    <2>3. /\ pc[<<s, c>>] # "none" \/ channel[c] # "none"
          /\ pc'[<<s, c>>] \in {"none", "called"} => pc[<<s, c>>] \in {"none", "called"}
      BY <1>3, <1>p, StopIsProc
      DEF Stops, StopCalled, StopBegin, DeleteClient, StopEnd, Call, InFrame
    <2>4. ASSUME NEW r \in StopKinds, NEW d \in Id, <<r, d>> # <<s, c>>
          PROVE  pc'[<<r, d>>] = pc[<<r, d>>]
      BY <2>1, <2>4, StopIsProc
    <2> QED  BY <2>2, <2>3, <2>4
  <1>4. CASE (\E p \in Procs : Descend(p)) \/ (\E k, n, c \in Id : Fails(k, n, c))
             \/ UNCHANGED <<Bookkeeping, procVars>>
    BY <1>1, <1>4 DEF Descend, Fails, SendTimeout, SendClosed, procVars
  <1> QED  BY <1>2, <1>3, <1>4, Steps

LEMMA NextStarted ==
  TypeOK /\ LockInv /\ HandlerInv /\ Started /\ [Next]_vars => Started'
  <1>0. SUFFICES ASSUME TypeOK, LockInv, HandlerInv, Started, [Next]_vars PROVE Started'
    OBVIOUS
  <1>p. /\ channel \in [Id -> {"none", "open", "closed"}] /\ clientsMap \in [Id -> SUBSET Id]
        /\ cancelled \in [Id -> BOOLEAN] /\ pc \in [Procs -> PCs]
        /\ currentNotifier \in 0 .. MaxWatches /\ clientCount \in 0 .. MaxWatches
        /\ \A s \in StopKinds : s # "server"
    BY <1>0, Groups, ConstantsAssumption
    DEF ClientTypeOK, NotifierTypeOK, NsTypeOK, ProcTypeOK
  <1>1. CASE ~Watch
    <2>1. Same
      BY <1>0, <1>1, SameSteps
    <2>2. /\ \A c \in Id : /\ channel[c] = "none" <=> channel'[c] = "none"
                           /\ channel'[c] = "open" => channel[c] = "open"
          /\ \A n \in Id : \A c \in clientsMap'[n] : c \in Id /\ \E m \in Id : c \in clientsMap[m]
          /\ \A k \in Id : stopRequested'[k] => stopRequested[k] \/ k = currentEventHandler
      BY <1>0, <1>1, ClientSteps DEF Started
    <2>3. \A s \in StopKinds, c \in Id :
            pc'[<<s, c>>] # "none" => pc[<<s, c>>] # "none" \/ channel[c] # "none"
      BY <1>0, <1>1, CounterSteps
    <2>4. \A c \in Id : channel'[c] # "none" => c <= currentNotifier'
      BY <1>0, <2>1, <2>2 DEF Started, Same
    <2>5. \A n \in Id : \A c \in clientsMap'[n] : channel'[c] # "none"
      BY <1>0, <2>2 DEF Started
    <2>6. \A s \in StopKinds, c \in Id : pc'[<<s, c>>] # "none" => channel'[c] # "none"
      BY <1>0, <2>2, <2>3 DEF Started
    <2>7. \A k \in Id : stopRequested'[k] => k <= currentNotifier'
      <3>1. \A k \in Id : k = currentEventHandler => k <= currentNotifier
        BY <1>0, <1>p, ConstantsAssumption DEF HandlerInv
      <3> QED  BY <1>0, <2>1, <2>2, <3>1 DEF Started, Same
    <2>8. \A k \in Id : cancelled'[k] => k < clientCount'
      BY <1>0, <2>1 DEF Started, Same
    <2> QED  BY <2>4, <2>5, <2>6, <2>7, <2>8 DEF Started
  <1>2. CASE WatchBegin
    <2>1. /\ UNCHANGED <<channel, clientsMap, pc, stopRequested, currentNotifier>>
          /\ clientCount' = clientCount + 1
          /\ \A k \in Id : cancelled'[k] <=> cancelled[k] \/ k = clientCount
      BY <1>2 DEF WatchBegin, notifierVars, procVars, clientVars, connectionVars
    <2>2. \A k \in Id : cancelled'[k] => k < clientCount'
      BY <1>0, <1>p, <2>1, ConstantsAssumption DEF Started
    <2> QED  BY <1>0, <2>1, <2>2 DEF Started
  <1>3. CASE WatchFail
    BY <1>0, <1>3 DEF WatchFail, notifierVars, procVars, clientVars, connectionVars, Started
  <1>4. CASE WatchSucceed
    <2>1. clientCount \in Id /\ currentNotifier < clientCount
      BY <1>0, <1>4, WatchCount DEF WatchSucceed
    <2>2. /\ UNCHANGED <<stopRequested, cancelled, clientCount>> /\ currentNotifier' = clientCount
          /\ channel' = [channel EXCEPT ![clientCount] = "open"]
          /\ clientsMap' = [clientsMap EXCEPT ![clientCount] = {clientCount}]
          /\ pc' = [pc EXCEPT ![Server(clientCount)] = "select"]
      BY <1>4 DEF WatchSucceed
    <2>3. \A c \in Id : channel'[c] # "none" => c <= currentNotifier'
      BY <1>0, <1>p, <2>1, <2>2, ConstantsAssumption DEF Started
    <2>4. \A c \in Id : channel[c] # "none" => channel'[c] # "none"
      BY <1>p, <2>2
    <2>5. \A n \in Id : \A c \in clientsMap'[n] : c = clientCount \/ c \in clientsMap[n]
      BY <1>p, <2>2
    <2>6. channel'[clientCount] # "none"
      BY <1>p, <2>1, <2>2
    <2>7. \A n \in Id : \A c \in clientsMap'[n] : channel'[c] # "none"
      BY <1>0, <1>p, <2>4, <2>5, <2>6 DEF Started
    <2>8. \A s \in StopKinds, c \in Id : pc'[<<s, c>>] = pc[<<s, c>>]
      BY <1>p, <2>1, <2>2, StopIsProc
    <2>9. \A s \in StopKinds, c \in Id : pc'[<<s, c>>] # "none" => channel'[c] # "none"
      BY <1>0, <2>4, <2>8 DEF Started
    <2>10. \A k \in Id : stopRequested'[k] => k <= currentNotifier'
      BY <1>0, <1>p, <2>1, <2>2, ConstantsAssumption DEF Started
    <2>11. \A k \in Id : cancelled'[k] => k < clientCount'
      BY <1>0, <2>2 DEF Started
    <2> QED  BY <2>3, <2>7, <2>9, <2>10, <2>11 DEF Started
  <1> QED  BY <1>1, <1>2, <1>3, <1>4 DEF Watch

LEMMA LeavesWatch ==
  ASSUME TypeOK, LockInv, MutexHolder, [Next]_vars, ~Watch
  PROVE  nsMutex = WatchCall => nsMutex' = WatchCall
  <1> SUFFICES ASSUME nsMutex = WatchCall PROVE UNCHANGED nsMutex
    OBVIOUS
  <1>1. \A p \in Procs : ~Critical(p, pc[p])
    BY MutexNames DEF MutexHolder
  <1>2. ASSUME NEW k \in Id, Manages(k) PROVE UNCHANGED nsMutex
    <2>1. pc[Server(k)] # "cleanup"
      BY <1>1, ServerIsProc, CriticalPc
    <2>2. nsMutex # Free
      BY ConstantsAssumption
    <2> QED  BY <1>2, <2>1, <2>2 DEF Manages, ExitCancelled, DrainBookmark, CleanupBegin,
                                   CleanupEnd, InFrame, nsVars
  <1>3. ASSUME NEW s \in StopKinds, NEW c \in Id, Stops(s, c) PROVE UNCHANGED nsMutex
    <2>1. pc[<<s, c>>] \notin {"delete", "count"}
      BY <1>1, StopIsProc, CriticalPc
    <2>2. nsMutex # Free
      BY ConstantsAssumption
    <2> QED  BY <1>3, <2>1, <2>2 DEF Stops, StopCalled, StopBegin, DeleteClient, StopEnd,
                                   InFrame, nsVars
  <1>4. CASE (\E p \in Procs : Descend(p)) \/ (\E k, n, c \in Id : Fails(k, n, c))
             \/ (\E k \in Id : Works(k)) \/ UNCHANGED <<Bookkeeping, procVars>>
    BY <1>4 DEF Descend, Fails, SendTimeout, SendClosed, Works, Bookkeeping, nsVars
  <1> QED  BY <1>2, <1>3, <1>4, Steps

LEMMA NextHandlerInv ==
  TypeOK /\ LockInv /\ MutexHolder /\ Started /\ HandlerInv /\ [Next]_vars => HandlerInv'
  <1>0. SUFFICES ASSUME TypeOK, LockInv, MutexHolder, Started, HandlerInv, [Next]_vars
                 PROVE HandlerInv'
    OBVIOUS
  <1>p. /\ channel \in [Id -> {"none", "open", "closed"}] /\ pc \in [Procs -> PCs]
        /\ currentNotifier \in 0 .. MaxWatches
    BY <1>0, Groups DEF ClientTypeOK, ProcTypeOK, NsTypeOK
  <1>1. CASE ~Watch
    <2>1. Same
      BY <1>0, <1>1, SameSteps
    <2>2. nsMutex = WatchCall => nsMutex' = WatchCall
      BY <1>0, <1>1, LeavesWatch
    <2>3. \A c \in Id : channel[c] = "none" <=> channel'[c] = "none"
      BY <1>0, <1>1, ClientSteps DEF Started
    <2>4. \A k \in Id : pc[Server(k)] # "none" => pc'[Server(k)] # "none"
      BY <1>0, <1>1, CounterSteps
    <2>5. currentNotifier # None => currentNotifier \in Id
      BY <1>p, ConstantsAssumption
    <2> QED  BY <1>0, <2>1, <2>2, <2>3, <2>4, <2>5 DEF HandlerInv, Same
  <1>2. CASE WatchBegin
    BY <1>0, <1>2 DEF WatchBegin, HandlerInv, procVars, clientVars
  <1>3. CASE WatchFail
    BY <1>0, <1>3 DEF WatchFail, HandlerInv, procVars, clientVars
  <1>4. CASE WatchSucceed
    <2>1. clientCount \in Id
      BY <1>0, <1>4, WatchCount DEF WatchSucceed
    <2>2. /\ UNCHANGED <<cancelled, clientCount>> /\ currentNotifier' = clientCount
          /\ currentEventHandler' = clientCount
          /\ channel' = [channel EXCEPT ![clientCount] = "open"]
          /\ pc' = [pc EXCEPT ![Server(clientCount)] = "select"]
      BY <1>4 DEF WatchSucceed
    <2>3. ~cancelled[clientCount]
      BY <1>0, <2>1, ConstantsAssumption DEF Started
    <2>4. pc'[Server(clientCount)] = "select" /\ channel'[clientCount] = "open"
      BY <1>p, <2>1, <2>2, ServerIsProc
    <2> QED  BY <2>2, <2>3, <2>4 DEF HandlerInv
  <1> QED  BY <1>1, <1>2, <1>3, <1>4 DEF Watch

-----------------------------------------------------------------------------
\* The walk of the holder of the namespace mutex, and a BOOKMARK in between.
LEMMA CutWalk ==
  ASSUME NEW P, Linked(P), OneAbove(P), NEW a \in Id, NEW k \in Id, k <= a,
         NEW H \in SUBSET Id, NEW x \in 0 .. MaxWatches, k \notin H,
         H \cup Reach(P, x) = Reach(P, a), x # None => \A h \in H : x < h
  PROVE  H \cup Reach(Cut(P, k), x) = Reach(Cut(P, k), a)
  <1>1. Reach(P, x) \subseteq Reach(P, a) /\ a \in 0 .. MaxWatches
    BY ConstantsAssumption
  <1>2. CASE k \notin Reach(P, a)
    BY <1>1, <1>2, CutOff
  <1>3. CASE k \in Reach(P, a)
    <2>1. k \in Reach(P, x)
      BY <1>3
    <2>2. x \in Id
      BY <2>1, ReachNone, ConstantsAssumption
    <2>3. k <= x
      BY <2>1, <2>2, ReachBelow
    <2>4. Reach(Cut(P, k), a) = {i \in Reach(P, a) : i >= k}
      BY <1>3, CutIn
    <2>5. Reach(Cut(P, k), x) = {i \in Reach(P, x) : i >= k}
      BY <2>1, <2>2, CutIn
    <2>6. \A h \in H : h >= k
      BY <2>2, <2>3, ConstantsAssumption
    <2> QED  BY <2>4, <2>5, <2>6
  <1> QED  BY <1>2, <1>3

LEMMA WalkEnds ==
  ASSUME Walks, NEW p \in Procs, nsMutex = p, next[p] = None,
         \A k \in Id : p = Server(k) => k = currentNotifier
  PROVE  held[p] = Current
  <1>1. Chain(None) = {}
    BY ChainIsReach, ReachNone
  <1> QED  BY <1>1 DEF Walks

LEMMA NextWalks ==
  TypeOK /\ LockInv /\ LinkInv /\ MutexHolder /\ Walks /\ [Next]_vars => Walks'
  <1>0. SUFFICES ASSUME TypeOK, LockInv, LinkInv, MutexHolder, Walks, [Next]_vars,
                        NEW p \in Procs, nsMutex' = p,
                        \A k \in Id : p = Server(k) => k = currentNotifier'
                 PROVE  held'[p] \cup Chain(next[p])' = Chain(currentNotifier)'
    BY DEF Walks, Current
  <1>p. /\ pc \in [Procs -> PCs] /\ held \in [Procs -> SUBSET Id]
        /\ next \in [Procs -> 0 .. MaxWatches] /\ currentNotifier \in 0 .. MaxWatches
        /\ Linked(previousNotifier)
    BY <1>0, Groups, ChainLinked DEF ProcTypeOK, NsTypeOK
  <1>m. p # Free /\ p # WatchCall
    BY MutexNames
  <1>1. ASSUME nsMutex = p, UNCHANGED <<currentNotifier, previousNotifier>>,
               held'[p] = held[p], next'[p] = next[p]
        PROVE  held'[p] \cup Chain(next[p])' = Chain(currentNotifier)'
    <2>1. held[p] \cup Chain(next[p]) = Chain(currentNotifier)
      BY <1>0, <1>1 DEF Walks, Current
    <2>2. Chain(next[p])' = Chain(next[p]) /\ Chain(currentNotifier)' = Chain(currentNotifier)
      BY <1>1 DEF Chain
    <2> QED  BY <1>1, <2>1, <2>2
  <1>2. ASSUME UNCHANGED <<currentNotifier, previousNotifier>>, held'[p] = {},
               next'[p] = currentNotifier
        PROVE  held'[p] \cup Chain(next[p])' = Chain(currentNotifier)'
    BY <1>2 DEF Chain
  <1>3. CASE Watch
    BY <1>0, <1>1, <1>3, <1>m
    DEF Watch, WatchBegin, WatchFail, WatchSucceed, notifierVars, procVars
  <1>4. CASE UNCHANGED <<Bookkeeping, procVars>>
    BY <1>0, <1>1, <1>4 DEF Bookkeeping, nsVars, procVars
  <1>5. ASSUME NEW k \in Id, Works(k)
        PROVE  held'[p] \cup Chain(next[p])' = Chain(currentNotifier)'
    <2>1. UNCHANGED <<nsMutex, currentNotifier, previousNotifier>>
      BY <1>5 DEF Works, Bookkeeping, nsVars
    <2>2. Critical(p, pc[p])
      BY <1>0, <2>1 DEF MutexHolder
    <2>3. p # Server(k)
      BY <1>5, <2>2, CriticalPc DEF Works
    <2> QED  BY <1>0, <1>1, <1>5, <2>1, <2>3 DEF Works, Others
  <1>6. ASSUME NEW k \in Id, ExitCancelled(k)
        PROVE  held'[p] \cup Chain(next[p])' = Chain(currentNotifier)'
    BY <1>0, <1>1, <1>6 DEF ExitCancelled, nsVars, notifierVars
  <1>7. ASSUME NEW k \in Id, CleanupBegin(k)
        PROVE  held'[p] \cup Chain(next[p])' = Chain(currentNotifier)'
    <2>1. /\ p = Server(k) /\ pc[p] = "closing" /\ UNCHANGED <<held, currentNotifier>>
          /\ UNCHANGED previousNotifier /\ next' = [next EXCEPT ![p] = k]
      BY <1>0, <1>7 DEF CleanupBegin, Call, notifierVars
    <2>2. held[p] = {} /\ k = currentNotifier'
      BY <1>0, <2>1 DEF LockInv, Resting
    <2> QED  BY <1>2, <1>p, <2>1, <2>2
  <1>8. ASSUME NEW k \in Id, CleanupEnd(k) PROVE FALSE
    BY <1>0, <1>m, <1>8 DEF CleanupEnd
  <1>9. ASSUME NEW k \in Id, DrainBookmark(k)
        PROVE  held'[p] \cup Chain(next[p])' = Chain(currentNotifier)'
    <2>1. /\ UNCHANGED <<nsMutex, currentNotifier, held, next>>
          /\ previousNotifier' = Cut(previousNotifier, k)
          /\ pc[Server(k)] = "accept" /\ k \in held[Server(k)]
      BY <1>9, DrainedIsCut DEF DrainBookmark, InFrame, nsVars
    <2>2. Critical(p, pc[p])
      BY <1>0, <2>1 DEF MutexHolder
    <2>3. p # Server(k)
      BY <2>1, <2>2, CriticalPc
    <2>4. k \notin held[p]
      BY <1>0, <2>1, <2>3, ServerIsProc DEF LockInv, Exclusive
    <2>5. k <= currentNotifier /\ currentNotifier \in Id
      <3>1. k <= currentNotifier
        BY <1>0, <2>1 DEF LockInv, WatchOrder
      <3> QED  BY <1>p, <3>1, ConstantsAssumption
    <2>6. next[p] # None => \A h \in held[p] : next[p] < h
      BY <1>0 DEF LockInv, Descending
    <2>7. held[p] \cup Reach(previousNotifier, next[p]) = Reach(previousNotifier, currentNotifier)
      BY <1>0, <2>1, ChainIsReach DEF Walks, Current
    <2>8. held[p] \in SUBSET Id /\ next[p] \in 0 .. MaxWatches
      BY <1>p
    <2>9. OneAbove(previousNotifier)
      BY <1>0 DEF LinkInv
    <2>10. held[p] \cup Reach(Cut(previousNotifier, k), next[p])
             = Reach(Cut(previousNotifier, k), currentNotifier)
      BY <1>p, <2>4, <2>5, <2>6, <2>7, <2>8, <2>9, CutWalk
    <2>11. /\ Chain(next[p])' = Reach(Cut(previousNotifier, k), next[p])
           /\ Chain(currentNotifier)' = Reach(Cut(previousNotifier, k), currentNotifier)
      BY <2>1 DEF Chain, Reach, ClosedUnder
    <2> QED  BY <2>1, <2>10, <2>11
  <1>10. ASSUME NEW q \in Procs, Descend(q)
         PROVE  held'[p] \cup Chain(next[p])' = Chain(currentNotifier)'
    <2>1. /\ UNCHANGED <<nsMutex, currentNotifier, previousNotifier, pc>>
          /\ next[q] # None
          /\ held' = [held EXCEPT ![q] = @ \cup {next[q]}]
          /\ next' = [next EXCEPT ![q] =
                        IF pc[q] = "accept" /\ event[q[2]].type = "BOOKMARK"
                        THEN None ELSE previousNotifier[next[q]]]
      BY <1>10 DEF Descend, Below, nsVars, notifierVars
    <2>2. CASE p # q
      BY <1>0, <1>1, <1>p, <2>1, <2>2
    <2>3. CASE p = q
      <3>1. Critical(p, pc[p])
        BY <1>0, <2>1 DEF MutexHolder
      <3>2. pc[p] # "accept"
        BY <3>1 DEF Critical
      <3>3. /\ held'[p] = held[p] \cup {next[p]} /\ next'[p] = previousNotifier[next[p]]
            /\ next[p] \in Id
        BY <1>p, <2>1, <2>3, <3>2, ConstantsAssumption
      <3>4. Chain(next[p]) = {next[p]} \cup Chain(previousNotifier[next[p]])
        BY <1>p, <3>3, ReachStep, ChainIsReach
      <3>5. held[p] \cup Chain(next[p]) = Chain(currentNotifier)
        BY <1>0, <2>1 DEF Walks, Current
      <3>6. /\ Chain(next[p])' = Chain(next'[p])
            /\ Chain(currentNotifier)' = Chain(currentNotifier)
        BY <2>1 DEF Chain
      <3> QED  BY <3>3, <3>4, <3>5, <3>6
    <2> QED  BY <2>2, <2>3
  <1>11. ASSUME NEW k \in Id, NEW n \in Id, NEW c \in Id, Fails(k, n, c)
         PROVE  held'[p] \cup Chain(next[p])' = Chain(currentNotifier)'
    <2>1. UNCHANGED <<nsMutex, currentNotifier, previousNotifier, held, next>>
      BY <1>11 DEF Fails, SendTimeout, SendClosed, nsVars, notifierVars, procVars
    <2> QED  BY <1>0, <1>1, <2>1
  <1>12. ASSUME NEW s \in StopKinds, NEW c \in Id, Stops(s, c)
         PROVE  held'[p] \cup Chain(next[p])' = Chain(currentNotifier)'
    <2>1. CASE StopCalled(s, c)
      BY <1>0, <1>1, <2>1 DEF StopCalled, nsVars, notifierVars
    <2>2. CASE StopBegin(s, c)
      <3>1. /\ p = <<s, c>> /\ pc[p] = "called" /\ UNCHANGED <<held, currentNotifier>>
            /\ UNCHANGED previousNotifier /\ next' = [next EXCEPT ![p] = currentNotifier]
        BY <1>0, <2>2 DEF StopBegin, Call, notifierVars
      <3>2. held[p] = {}
        BY <1>0, <3>1 DEF LockInv, Resting
      <3> QED  BY <1>2, <1>p, <3>1, <3>2
    <2>3. CASE DeleteClient(s, c)
      <3>1. /\ UNCHANGED <<nsMutex, currentNotifier, previousNotifier>> /\ pc[<<s, c>>] = "delete"
            /\ held' = [held EXCEPT ![<<s, c>>] = {}]
            /\ next' = [next EXCEPT ![<<s, c>>] = currentNotifier]
        BY <2>3 DEF DeleteClient, InFrame, Call, nsVars
      <3>2. nsMutex = <<s, c>>
        BY <1>0, <3>1, CriticalPc, StopIsProc DEF MutexHolder
      <3> QED  BY <1>0, <1>2, <1>p, <3>1, <3>2
    <2>4. CASE StopEnd(s, c)
      BY <1>0, <1>m, <2>4 DEF StopEnd
    <2> QED  BY <1>12, <2>1, <2>2, <2>3, <2>4 DEF Stops
  <1>13. ASSUME NEW k \in Id, Manages(k)
         PROVE  held'[p] \cup Chain(next[p])' = Chain(currentNotifier)'
    BY <1>6, <1>7, <1>8, <1>9, <1>13 DEF Manages
  <1> QED  BY <1>0, <1>3, <1>4, <1>5, <1>10, <1>11, <1>12, <1>13, Steps

-----------------------------------------------------------------------------
LEMMA CurrentStays ==
  ASSUME UNCHANGED <<previousNotifier, currentNotifier>>
  PROVE  Current' = Current
  BY DEF Current, Chain

LEMMA CurrentIds == Current \subseteq Id
  BY DEF Current, Chain

\* A BOOKMARK in the frame of notifier k: k takes over what it cuts off.
LEMMA DrainCurrent ==
  ASSUME TypeOK, LockInv, LinkInv, NEW k \in Id, DrainBookmark(k)
  PROVE  /\ clientsMap'[k] = UNION {clientsMap[n] : n \in Chain(k)}
         /\ \A n \in Id \ {k} : clientsMap'[n] = clientsMap[n]
         /\ \/ k \notin Current /\ Current' = Current
            \/ /\ k \in Current /\ Current' = {i \in Current : i >= k}
               /\ \A i \in Id : i \in Chain(k) <=> i \in Current /\ i <= k
  <1>p. /\ clientsMap \in [Id -> SUBSET Id] /\ currentNotifier \in 0 .. MaxWatches
        /\ Linked(previousNotifier) /\ OneAbove(previousNotifier)
    BY Groups, ChainLinked DEF NotifierTypeOK, NsTypeOK, LinkInv
  <1>1. /\ clientsMap' = [clientsMap EXCEPT ![k] = UNION {clientsMap[n] : n \in Chain(k)}]
        /\ previousNotifier' = Cut(previousNotifier, k) /\ UNCHANGED currentNotifier
        /\ pc[Server(k)] = "accept"
    BY DrainedIsCut DEF DrainBookmark, InFrame, nsVars
  <1>2. k <= currentNotifier /\ currentNotifier \in Id
    <2>1. k <= currentNotifier
      BY <1>1 DEF LockInv, WatchOrder
    <2> QED  BY <1>p, <2>1, ConstantsAssumption
  <1>3. /\ Current = Reach(previousNotifier, currentNotifier)
        /\ Current' = Reach(Cut(previousNotifier, k), currentNotifier)
        /\ Chain(k) = Reach(previousNotifier, k)
    <2>1. Current' = Reach(Cut(previousNotifier, k), currentNotifier)
      BY <1>1 DEF Current, Chain, Reach, ClosedUnder
    <2> QED  BY <2>1, ChainIsReach DEF Current
  <1>4. CASE k \notin Current
    <2>1. currentNotifier \in 0 .. MaxWatches
          /\ Reach(previousNotifier, currentNotifier) \subseteq Reach(previousNotifier, currentNotifier)
      BY <1>p
    <2>2. Reach(Cut(previousNotifier, k), currentNotifier) = Reach(previousNotifier, currentNotifier)
      BY <1>p, <1>2, <1>3, <1>4, <2>1, CutOff
    <2> QED  BY <1>p, <1>1, <1>3, <1>4, <2>2
  <1>5. CASE k \in Current
    <2>1. Current' = {i \in Current : i >= k}
      BY <1>p, <1>2, <1>3, <1>5, CutIn
    <2>2. ASSUME NEW i \in Id, i \in Chain(k) PROVE i \in Current /\ i <= k
      <3>1. i \in Reach(previousNotifier, k)
        BY <1>3, <2>2
      <3>2. i <= k
        BY <1>p, <3>1, ReachBelow
      <3>3. Reach(previousNotifier, k) \subseteq Reach(previousNotifier, currentNotifier)
        BY <1>p, <1>3, <1>5, ReachSub
      <3> QED  BY <1>3, <3>1, <3>2, <3>3
    <2>3. ASSUME NEW i \in Id, i \in Current, i <= k PROVE i \in Chain(k)
      BY <1>p, <1>2, <1>3, <1>5, <2>3, ReachLinear
    <2> QED  BY <1>p, <1>1, <1>5, <2>1, <2>2, <2>3
  <1> QED  BY <1>4, <1>5

LEMMA DrainOwners ==
  ASSUME TypeOK, LockInv, LinkInv, NEW k \in Id, DrainBookmark(k)
  PROVE  /\ \A c \in Id : OwnedIn(Current, clientsMap, c) => OwnedIn(Current', clientsMap', c)
         /\ Empty <=> Empty'
  <1> DEFINE M == clientsMap
             N == clientsMap'
             C == Current
             D == Current'
  <1>1. /\ N[k] = UNION {M[n] : n \in Chain(k)}
        /\ \A n \in Id \ {k} : N[n] = M[n]
        /\ \/ k \notin C /\ D = C
           \/ /\ k \in C /\ D = {i \in C : i >= k}
              /\ \A i \in Id : i \in Chain(k) <=> i \in C /\ i <= k
    BY DrainCurrent
  <1>2. C \subseteq Id /\ Chain(k) \subseteq Id
    BY CurrentIds DEF Chain
  <1>e. (Empty <=> \A n \in C : M[n] = {}) /\ (Empty' <=> \A n \in D : N[n] = {})
    BY DEF Empty
  <1> HIDE DEF M, N, C, D
  <1>3. CASE k \notin C /\ D = C
    <2>1. \A n \in C : N[n] = M[n]
      BY <1>1, <1>2, <1>3
    <2> QED  BY <1>3, <1>e, <2>1 DEF OwnedIn, M, N, C, D
  <1>4. CASE /\ k \in C /\ D = {i \in C : i >= k}
             /\ \A i \in Id : i \in Chain(k) <=> i \in C /\ i <= k
    <2>1. ASSUME NEW i \in D, i # k PROVE i \in C /\ i > k /\ N[i] = M[i]
      BY <1>1, <1>2, <1>4, <2>1
    <2>2. \A i \in C : i \in D \/ i \in Chain(k)
      BY <1>2, <1>4
    <2>3. k \in D /\ k \in Chain(k)
      BY <1>2, <1>4
    <2>4. \A c : c \in N[k] <=> \E n \in Chain(k) : c \in M[n]
      BY <1>1
    <2>5. ASSUME NEW c \in Id, OwnedIn(C, M, c) PROVE OwnedIn(D, N, c)
      <3>1. PICK n \in C : c \in M[n] /\ \A m \in C : c \in M[m] => m = n
        BY <2>5 DEF OwnedIn
      <3>2. CASE n \in Chain(k)
        <4>1. c \in N[k]
          BY <2>4, <3>1, <3>2
        <4>2. ASSUME NEW m \in D, c \in N[m], m # k PROVE FALSE
          <5>1. m \in C /\ m > k /\ c \in M[m]
            BY <2>1, <4>2
          <5>2. m = n /\ n <= k /\ n \in Id
            BY <1>2, <1>4, <3>1, <3>2, <5>1
          <5> QED  BY <5>1, <5>2
        <4> QED  BY <2>3, <4>1, <4>2 DEF OwnedIn
      <3>3. CASE n \notin Chain(k)
        <4>1. n \in D /\ n # k
          BY <2>2, <2>3, <3>3
        <4>2. c \in N[n]
          BY <2>1, <3>1, <4>1
        <4>3. c \notin N[k]
          <5>1. ASSUME NEW m \in Chain(k), c \in M[m] PROVE FALSE
            BY <1>2, <1>4, <3>1, <3>3, <5>1
          <5> QED  BY <2>4, <5>1
        <4>4. \A m \in D : c \in N[m] => m = n
          BY <2>1, <3>1, <4>3
        <4> QED  BY <4>1, <4>2, <4>4 DEF OwnedIn
      <3> QED  BY <3>2, <3>3
    <2>6. (\A n \in C : M[n] = {}) <=> (\A n \in D : N[n] = {})
      <3>1. ASSUME \A n \in C : M[n] = {}, NEW n \in D PROVE N[n] = {}
        <4>1. \A m \in Chain(k) : m \in C
          BY <1>2, <1>4
        <4>2. N[k] = {}
          BY <1>1, <3>1, <4>1
        <4> QED  BY <2>1, <3>1, <4>2
      <3>2. ASSUME \A n \in D : N[n] = {}, NEW n \in C PROVE M[n] = {}
        <4>1. \A m \in Chain(k) : M[m] = {}
          BY <1>1, <2>3, <3>2
        <4>2. n \in D /\ n # k => M[n] = {}
          BY <2>1, <3>2
        <4> QED  BY <2>2, <2>3, <3>2, <4>1, <4>2
      <3> QED  BY <3>1, <3>2
    <2> QED  BY <1>e, <2>5, <2>6 DEF M, N, C, D
  <1> QED  BY <1>1, <1>3, <1>4

-----------------------------------------------------------------------------
LEMMA CrashStays == [Next]_vars /\ crash' = "no" => crash = "no"
  BY DEF Next, vars

\* Watch puts a notifier with one client, which no other has, on the chain.
LEMMA WatchExtends ==
  ASSUME TypeOK, LockInv, WatchSucceed
  PROVE  /\ clientCount \in Id /\ currentNotifier < clientCount /\ clientCount \notin Current
         /\ Current' = {clientCount} \cup Current
         /\ clientsMap'[clientCount] = {clientCount}
         /\ \A n \in Current : clientsMap'[n] = clientsMap[n]
  <1> DEFINE w == clientCount
  <1>p. /\ clientsMap \in [Id -> SUBSET Id] /\ Linked(previousNotifier)
        /\ currentNotifier \in 0 .. MaxWatches
    BY Groups, ChainLinked DEF NotifierTypeOK, NsTypeOK
  <1>1. w \in Id /\ currentNotifier < w
    BY WatchCount DEF WatchSucceed
  <1>2. /\ currentNotifier' = w /\ previousNotifier' = [previousNotifier EXCEPT ![w] = currentNotifier]
        /\ clientsMap' = [clientsMap EXCEPT ![w] = {w}]
    BY DEF WatchSucceed
  <1>3. Linked(previousNotifier')
    BY <1>p, <1>1, <1>2 DEF Linked
  <1>4. currentNotifier # None => currentNotifier \in Id
    BY <1>p, ConstantsAssumption
  <1>5. \A i \in Current : i \in Id /\ i <= currentNotifier
    BY <1>p, <1>4, ReachBelow, ReachNone, ChainIsReach DEF Current
  <1>6. w \notin Current
    BY <1>p, <1>1, <1>5, ConstantsAssumption
  <1>7. \A i \in Current : previousNotifier'[i] = previousNotifier[i]
    BY <1>p, <1>2, <1>6
  <1>8. Reach(previousNotifier', currentNotifier) = Current
    BY <1>p, <1>3, <1>7, ReachSame, ChainIsReach DEF Current
  <1>9. Current' = {w} \cup Current
    <2>1. Current' = Reach(previousNotifier', w)
      BY <1>2 DEF Current, Chain, Reach, ClosedUnder
    <2>2. previousNotifier'[w] = currentNotifier
      BY <1>p, <1>1, <1>2 DEF Linked
    <2> QED  BY <1>1, <1>3, <1>8, <2>1, <2>2, ReachStep
  <1>10. clientsMap'[w] = {w} /\ \A n \in Current : clientsMap'[n] = clientsMap[n]
    BY <1>p, <1>1, <1>2, <1>5, <1>6
  <1> QED  BY <1>1, <1>6, <1>9, <1>10

LEMMA NextOwned ==
  TypeOK /\ LockInv /\ PlaceInv /\ Owned /\ [Next]_vars => Owned'
  <1>0. SUFFICES ASSUME TypeOK, LockInv, LinkInv, MutexHolder, Started, HandlerInv, Walks,
                        Owned, [Next]_vars, crash = "no",
                        NEW c \in Id, channel'[c] = "open", ~Stopping(c)'
                 PROVE  OwnedIn(Current', clientsMap', c)
    BY CrashStays DEF PlaceInv, Owned
  <1>p. /\ channel \in [Id -> {"none", "open", "closed"}] /\ clientsMap \in [Id -> SUBSET Id]
        /\ pc \in [Procs -> PCs] /\ held \in [Procs -> SUBSET Id] /\ Linked(previousNotifier)
        /\ Current \subseteq Id /\ currentNotifier \in 0 .. MaxWatches
    BY <1>0, Groups, ChainLinked, CurrentIds
    DEF ClientTypeOK, NotifierTypeOK, ProcTypeOK, NsTypeOK
  <1>1. CASE ~Watch
    <2>1. channel[c] = "open"
      BY <1>0, <1>1, ClientSteps DEF Started
    <2>2. ~Stopping(c)
      <3>1. \A s \in StopKinds : pc'[<<s, c>>] \in {"none", "called"}
        BY <1>0 DEF Stopping
      <3>2. \A s \in StopKinds : pc[<<s, c>>] \in {"none", "called"}
        BY <1>0, <1>1, <3>1, CounterSteps
      <3> QED  BY <3>2 DEF Stopping
    <2>3. OwnedIn(Current, clientsMap, c)
      BY <1>0, <2>1, <2>2 DEF Owned
    <2>4. ASSUME UNCHANGED <<previousNotifier, currentNotifier>>,
                 \A n \in Id : c \in clientsMap'[n] <=> c \in clientsMap[n]
          PROVE  OwnedIn(Current', clientsMap', c)
      BY <1>p, <2>3, <2>4, CurrentStays DEF OwnedIn
    <2>5. ASSUME NEW k \in Id, DrainBookmark(k) PROVE OwnedIn(Current', clientsMap', c)
      BY <1>0, <2>3, <2>5, DrainOwners
    <2>6. ASSUME NEW k \in Id, CleanupEnd(k) PROVE OwnedIn(Current', clientsMap', c)
      <3> DEFINE closing == UNION {clientsMap[n] : n \in CleanedUp(k)}
      <3>1. /\ channel' = [d \in Id |-> IF d \in closing THEN "closed" ELSE channel[d]]
            /\ clientsMap' = [n \in Id |-> IF n \in CleanedUp(k) THEN {} ELSE clientsMap[n]]
            /\ UNCHANGED <<previousNotifier, currentNotifier>>
        BY <2>6 DEF CleanupEnd
      <3>2. c \notin closing
        BY <1>0, <3>1
      <3>3. \A n \in CleanedUp(k) : c \notin clientsMap[n]
        BY <3>2
      <3> QED  BY <2>4, <3>1, <3>3
    <2>7. ASSUME NEW k \in Id, NEW n \in Id, NEW d \in Id, Fails(k, n, d)
          PROVE  OwnedIn(Current', clientsMap', c)
      <3>1. CASE SendTimeout(k, n, d)
        <4>1. /\ channel' = [channel EXCEPT ![d] = "closed"]
              /\ clientsMap' = [clientsMap EXCEPT ![n] = clientsMap[n] \ {d}]
              /\ UNCHANGED <<previousNotifier, currentNotifier>>
          BY <3>1 DEF SendTimeout, Without, nsVars
        <4>2. c # d
          BY <1>0, <1>p, <4>1
        <4> QED  BY <1>p, <2>4, <4>1, <4>2
      <3>2. CASE SendClosed(k, n, d)
        BY <2>4, <3>2 DEF SendClosed, nsVars, notifierVars
      <3> QED  BY <2>7, <3>1, <3>2 DEF Fails
    <2>8. ASSUME NEW s \in StopKinds, NEW d \in Id, Stops(s, d)
          PROVE  OwnedIn(Current', clientsMap', c)
      <3>1. CASE DeleteClient(s, d)
        <4>1. /\ clientsMap' = [n \in Id |-> IF n \in Visited(<<s, d>>) THEN clientsMap[n] \ {d}
                                             ELSE clientsMap[n]]
              /\ UNCHANGED <<previousNotifier, currentNotifier>>
              /\ pc' = [pc EXCEPT ![<<s, d>>] = "count"]
          BY <3>1 DEF DeleteClient, Call, nsVars
        <4>2. pc'[<<s, d>>] = "count"
          BY <1>p, <4>1, StopIsProc
        <4>3. c # d
          BY <1>0, <4>2 DEF Stopping
        <4> QED  BY <2>4, <4>1, <4>3
      <3>2. CASE StopCalled(s, d) \/ StopBegin(s, d) \/ StopEnd(s, d)
        BY <2>4, <3>2 DEF StopCalled, StopBegin, StopEnd, nsVars, notifierVars
      <3> QED  BY <2>8, <3>1, <3>2 DEF Stops
    <2>9. ASSUME NEW k \in Id, Works(k) \/ ExitCancelled(k) \/ CleanupBegin(k)
          PROVE  OwnedIn(Current', clientsMap', c)
      BY <2>4, <2>9 DEF Works, Bookkeeping, ExitCancelled, CleanupBegin, nsVars, notifierVars
    <2>10. ASSUME NEW p \in Procs, Descend(p) PROVE OwnedIn(Current', clientsMap', c)
      BY <2>4, <2>10 DEF Descend, nsVars, notifierVars
    <2>11. CASE UNCHANGED <<Bookkeeping, procVars>>
      BY <2>4, <2>11 DEF Bookkeeping, nsVars
    <2>12. ASSUME NEW k \in Id, Manages(k) PROVE OwnedIn(Current', clientsMap', c)
      BY <2>5, <2>6, <2>9, <2>12 DEF Manages
    <2> QED  BY <1>0, <1>1, <2>7, <2>8, <2>9, <2>10, <2>11, <2>12, Steps
  <1>2. CASE WatchBegin \/ WatchFail
    <2>1. UNCHANGED <<previousNotifier, currentNotifier, clientsMap, channel, pc>>
      BY <1>2 DEF WatchBegin, WatchFail, notifierVars, procVars, clientVars
    <2>2. OwnedIn(Current, clientsMap, c)
      BY <1>0, <2>1 DEF Owned, Stopping
    <2> QED  BY <2>1, <2>2, CurrentStays
  <1>3. CASE WatchSucceed
    <2> DEFINE w == clientCount
    <2>1. w \in Id /\ currentNotifier < w
      BY <1>0, <1>3, WatchExtends
    <2>2. channel' = [channel EXCEPT ![w] = "open"] /\ pc' = [pc EXCEPT ![Server(w)] = "select"]
      BY <1>3 DEF WatchSucceed
    <2>3. Current' = {w} \cup Current
      BY <1>0, <1>3, WatchExtends
    <2>4. clientsMap'[w] = {w} /\ \A n \in Current : clientsMap'[n] = clientsMap[n]
      BY <1>0, <1>3, WatchExtends
    <2>5. channel[w] = "none"
      BY <1>0, <1>p, <2>1, ConstantsAssumption DEF Started
    <2>6. \A n \in Current : w \notin clientsMap[n]
      BY <1>0, <1>p, <2>5 DEF Started
    <2>7. CASE c = w
      BY <2>3, <2>4, <2>6, <2>7 DEF OwnedIn
    <2>8. CASE c # w
      <3>1. channel[c] = "open" /\ ~Stopping(c)
        <4>1. channel[c] = "open"
          BY <1>0, <1>p, <2>2, <2>8
        <4>2. \A s \in StopKinds : <<s, c>> # Server(w)
          BY ConstantsAssumption
        <4>3. \A s \in StopKinds : pc'[<<s, c>>] = pc[<<s, c>>]
          BY <1>p, <2>2, <4>2, StopIsProc
        <4> QED  BY <1>0, <4>1, <4>3 DEF Stopping
      <3>2. PICK n \in Current : c \in clientsMap[n] /\ \A m \in Current : c \in clientsMap[m] => m = n
        BY <1>0, <3>1 DEF Owned, OwnedIn
      <3> QED  BY <2>3, <2>4, <2>8, <3>2 DEF OwnedIn
    <2> QED  BY <2>7, <2>8
  <1> QED  BY <1>1, <1>2, <1>3 DEF Watch

-----------------------------------------------------------------------------
\* Only Watch brings a client, only the end of a client takes the last one.
LEMMA EmptySteps ==
  ASSUME TypeOK, LockInv, PlaceInv, [Next]_vars, ~Watch
  PROVE  /\ Empty => Empty'
         /\ Empty' /\ ~Empty => \/ \E c \in Id : channel'[c] = "closed"
                                \/ \E s \in StopKinds, c \in Id : DeleteClient(s, c)
  <1>p. /\ channel \in [Id -> {"none", "open", "closed"}] /\ clientsMap \in [Id -> SUBSET Id]
        /\ held \in [Procs -> SUBSET Id] /\ Current \subseteq Id /\ LinkInv
    BY Groups, CurrentIds DEF ClientTypeOK, NotifierTypeOK, ProcTypeOK, PlaceInv
  <1> DEFINE G == /\ Empty => Empty'
                  /\ Empty' /\ ~Empty => \/ \E c \in Id : channel'[c] = "closed"
                                         \/ \E s \in StopKinds, c \in Id : DeleteClient(s, c)
  <1>1. ASSUME UNCHANGED <<previousNotifier, currentNotifier>>,
               \A n \in Id : clientsMap'[n] \subseteq clientsMap[n],
               \/ \E c \in Id : channel'[c] = "closed"
               \/ \E s \in StopKinds, c \in Id : DeleteClient(s, c)
               \/ UNCHANGED clientsMap
        PROVE  G
    <2>1. Current' = Current
      BY <1>1, CurrentStays
    <2> QED  BY <1>p, <1>1, <2>1 DEF Empty
  <1>2. ASSUME NEW k \in Id, DrainBookmark(k) PROVE G
    BY <1>p, <1>2, DrainOwners
  <1> HIDE DEF G
  <1>3. ASSUME NEW k \in Id, CleanupEnd(k) PROVE G
    <2> DEFINE closing == UNION {clientsMap[n] : n \in CleanedUp(k)}
    <2>0. CleanedUp(k) \subseteq Id
      BY <1>p, ServerIsProc DEF CleanedUp
    <2>1. /\ channel' = [d \in Id |-> IF d \in closing THEN "closed" ELSE channel[d]]
          /\ clientsMap' = [n \in Id |-> IF n \in CleanedUp(k) THEN {} ELSE clientsMap[n]]
          /\ UNCHANGED <<previousNotifier, currentNotifier>>
      BY <1>3 DEF CleanupEnd
    <2>2. \A n \in Id : clientsMap'[n] \subseteq clientsMap[n]
      BY <2>1
    <2>3. CASE closing = {}
      <3>1. \A n \in Id : clientsMap'[n] = clientsMap[n]
        BY <2>1, <2>3
      <3>2. clientsMap' = clientsMap
        BY <1>p, <2>1, <3>1
      <3> QED  BY <1>1, <2>1, <2>2, <3>2
    <2>4. CASE closing # {}
      <3>1. PICK d \in closing : TRUE
        BY <2>4
      <3>2. d \in Id
        BY <1>p, <2>0
      <3>3. channel'[d] = "closed"
        BY <2>1, <3>2
      <3> QED  BY <1>1, <2>1, <2>2, <3>2, <3>3
    <2> QED  BY <2>3, <2>4
  <1>4. ASSUME NEW k \in Id, NEW n \in Id, NEW d \in Id, Fails(k, n, d) PROVE G
    <2>1. CASE SendTimeout(k, n, d)
      <3>1. /\ channel' = [channel EXCEPT ![d] = "closed"]
            /\ clientsMap' = [clientsMap EXCEPT ![n] = clientsMap[n] \ {d}]
            /\ UNCHANGED <<previousNotifier, currentNotifier>>
        BY <2>1 DEF SendTimeout, Without, nsVars
      <3>2. channel'[d] = "closed" /\ \A m \in Id : clientsMap'[m] \subseteq clientsMap[m]
        BY <1>p, <3>1
      <3> QED  BY <1>1, <3>1, <3>2
    <2>2. CASE SendClosed(k, n, d)
      BY <1>1, <2>2 DEF SendClosed, nsVars, notifierVars
    <2> QED  BY <1>4, <2>1, <2>2 DEF Fails
  <1>5. ASSUME NEW s \in StopKinds, NEW d \in Id, DeleteClient(s, d) PROVE G
    <2>1. /\ clientsMap' = [n \in Id |-> IF n \in Visited(<<s, d>>) THEN clientsMap[n] \ {d}
                                         ELSE clientsMap[n]]
          /\ UNCHANGED <<previousNotifier, currentNotifier>>
      BY <1>5 DEF DeleteClient, nsVars
    <2>2. \A n \in Id : clientsMap'[n] \subseteq clientsMap[n]
      BY <2>1
    <2> QED  BY <1>1, <1>5, <2>1, <2>2
  <1>6. ASSUME NEW s \in StopKinds, NEW d \in Id,
               StopCalled(s, d) \/ StopBegin(s, d) \/ StopEnd(s, d)
        PROVE  G
    BY <1>1, <1>6 DEF StopCalled, StopBegin, StopEnd, nsVars, notifierVars
  <1>7. ASSUME NEW k \in Id, Works(k) \/ ExitCancelled(k) \/ CleanupBegin(k) PROVE G
    BY <1>1, <1>7 DEF Works, Bookkeeping, ExitCancelled, CleanupBegin, nsVars, notifierVars
  <1>8. ASSUME NEW p \in Procs, Descend(p) PROVE G
    BY <1>1, <1>8 DEF Descend, nsVars, notifierVars
  <1>9. ASSUME UNCHANGED <<Bookkeeping, procVars>> PROVE G
    BY <1>1, <1>9 DEF Bookkeeping, nsVars
  <1>10. ASSUME NEW k \in Id, Manages(k) PROVE G
    BY <1>2, <1>3, <1>7, <1>10 DEF Manages
  <1>11. ASSUME NEW s \in StopKinds, NEW d \in Id, Stops(s, d) PROVE G
    BY <1>5, <1>6, <1>11 DEF Stops
  <1>12. G
    BY <1>4, <1>7, <1>8, <1>9, <1>10, <1>11, Steps
  <1> QED  BY <1>12 DEF G

\* What Watch does to the current chain: a new notifier with a client.
LEMMA WatchCurrent ==
  ASSUME TypeOK, LockInv, WatchSucceed
  PROVE  /\ clientCount \in Id /\ currentNotifier < clientCount /\ currentNotifier' = clientCount
         /\ ~Empty' /\ pc'[Server(clientCount)] = "select"
  <1>1. clientCount \in Id /\ currentNotifier < clientCount
    BY WatchCount DEF WatchSucceed
  <1>2. currentNotifier' = clientCount
        /\ clientsMap' = [clientsMap EXCEPT ![clientCount] = {clientCount}]
        /\ pc' = [pc EXCEPT ![Server(clientCount)] = "select"]
    BY DEF WatchSucceed
  <1>3. clientCount \in Current'
    BY <1>1, <1>2 DEF Current, Chain
  <1>4. clientsMap'[clientCount] = {clientCount} /\ pc'[Server(clientCount)] = "select"
    BY <1>1, <1>2, Groups, ServerIsProc DEF NotifierTypeOK, ProcTypeOK
  <1> QED  BY <1>1, <1>2, <1>3, <1>4 DEF Empty

LEMMA NextDoneEmpty ==
  TypeOK /\ LockInv /\ PlaceInv /\ DoneEmpty /\ [Next]_vars => DoneEmpty'
  <1>0. SUFFICES ASSUME TypeOK, LockInv, PlaceInv, DoneEmpty, [Next]_vars,
                        currentNotifier' # None, pc'[Server(currentNotifier')] = "done",
                        ~cancelled'[currentNotifier']
                 PROVE  Empty'
    BY DEF DoneEmpty
  <1>p. /\ pc \in [Procs -> PCs] /\ currentNotifier \in 0 .. MaxWatches
        /\ cancelled \in [Id -> BOOLEAN]
    BY <1>0, Groups DEF ProcTypeOK, NsTypeOK
  <1>1. CASE ~Watch
    <2>1. Same
      BY <1>0, <1>1, SameSteps
    <2>2. currentNotifier' = currentNotifier /\ currentNotifier \in Id
          /\ cancelled' = cancelled
      BY <1>0, <1>p, <2>1, ConstantsAssumption DEF Same
    <2>s. Server(currentNotifier) \in Procs
      BY <2>2, ServerIsProc
    <2>3. ASSUME pc[Server(currentNotifier)] = "done" PROVE Empty'
      <3>1. Empty
        BY <1>0, <2>2, <2>3 DEF DoneEmpty
      <3> QED  BY <1>0, <1>1, <3>1, EmptySteps
    <2>4. ASSUME NEW k \in Id, Works(k) PROVE Empty'
      <3>1. pc'[Server(k)] # "done" /\ \A q \in Procs \ {Server(k)} : pc'[q] = pc[q]
        BY <2>4 DEF Works, Others
      <3> QED  BY <1>0, <2>s, <2>2, <2>3, <3>1
    <2>5. ASSUME NEW k \in Id, DrainBookmark(k) \/ CleanupBegin(k) PROVE Empty'
      <3>1. \E w \in {"send", "cleanup"} : pc' = [pc EXCEPT ![Server(k)] = w]
        BY <2>5 DEF DrainBookmark, CleanupBegin, Call
      <3>2. pc'[Server(currentNotifier)] \in {"send", "cleanup", pc[Server(currentNotifier)]}
        BY <1>p, <2>s, <3>1
      <3> QED  BY <1>0, <2>2, <2>3, <3>2
    <2>6. ASSUME NEW k \in Id, ExitCancelled(k) PROVE Empty'
      <3>1. cancelled[k] /\ pc' = [pc EXCEPT ![Server(k)] = "done"]
        BY <2>6 DEF ExitCancelled, Exit
      <3>2. k # currentNotifier
        BY <1>0, <2>2, <3>1
      <3>3. pc'[Server(currentNotifier)] = pc[Server(currentNotifier)]
        BY <1>p, <2>s, <3>1, <3>2
      <3> QED  BY <1>0, <2>2, <2>3, <3>3
    <2>7. ASSUME NEW k \in Id, CleanupEnd(k) PROVE Empty'
      <3>1. /\ pc[Server(k)] = "cleanup" /\ next[Server(k)] = None
            /\ pc' = [pc EXCEPT ![Server(k)] = "done"]
            /\ clientsMap' = [n \in Id |-> IF n \in held[Server(k)] THEN {} ELSE clientsMap[n]]
            /\ UNCHANGED <<previousNotifier, currentNotifier>>
        BY <2>7 DEF CleanupEnd, CleanedUp, InFrame, Exit
      <3>2. CASE k = currentNotifier
        <4>1. nsMutex = Server(k)
          BY <1>0, <3>1, ServerIsProc, CriticalPc DEF PlaceInv, MutexHolder
        <4>2. held[Server(k)] = Current
          BY <1>0, <3>1, <3>2, <4>1, ServerIsProc, WalkEnds DEF PlaceInv
        <4>3. Current' = Current /\ Current \subseteq Id
          BY <3>1, CurrentStays, CurrentIds
        <4> QED  BY <3>1, <4>2, <4>3 DEF Empty
      <3>3. CASE k # currentNotifier
        <4>1. pc'[Server(currentNotifier)] = pc[Server(currentNotifier)]
          BY <1>p, <2>s, <3>1, <3>3
        <4> QED  BY <1>0, <2>2, <2>3, <4>1
      <3> QED  BY <3>2, <3>3
    <2>8. ASSUME NEW s \in StopKinds, NEW c \in Id, Stops(s, c) PROVE Empty'
      <3>1. <<s, c>> # Server(currentNotifier)
        BY ConstantsAssumption
      <3>2. pc'[Server(currentNotifier)] = pc[Server(currentNotifier)]
        BY <1>p, <2>s, <2>8, <3>1 DEF Stops, StopCalled, StopBegin, DeleteClient, StopEnd, Call
      <3> QED  BY <1>0, <2>2, <2>3, <3>2
    <2>9. CASE (\E p \in Procs : Descend(p)) \/ (\E k, n, c \in Id : Fails(k, n, c))
               \/ UNCHANGED <<Bookkeeping, procVars>>
      <3>1. UNCHANGED pc
        BY <2>9 DEF Descend, Fails, SendTimeout, SendClosed, procVars
      <3> QED  BY <1>0, <2>2, <2>3, <3>1
    <2>10. ASSUME NEW k \in Id, Manages(k) PROVE Empty'
      BY <2>5, <2>6, <2>7, <2>10 DEF Manages
    <2> QED  BY <1>0, <1>1, <2>4, <2>8, <2>9, <2>10, Steps
  <1>2. CASE WatchBegin
    <2>1. /\ UNCHANGED <<currentNotifier, previousNotifier, clientsMap, pc>>
          /\ \A k \in Id : cancelled[k] => cancelled'[k]
      BY <1>2 DEF WatchBegin, notifierVars, procVars
    <2>2. currentNotifier \in Id
      BY <1>0, <1>p, <2>1, ConstantsAssumption
    <2>3. Empty
      BY <1>0, <2>1, <2>2 DEF DoneEmpty
    <2> QED  BY <2>1, <2>3, CurrentStays DEF Empty
  <1>3. CASE WatchFail
    <2>1. UNCHANGED <<currentNotifier, previousNotifier, clientsMap, pc, cancelled>>
      BY <1>3 DEF WatchFail, notifierVars, procVars
    <2>2. Empty
      BY <1>0, <2>1 DEF DoneEmpty
    <2> QED  BY <2>1, <2>2, CurrentStays DEF Empty
  <1>4. CASE WatchSucceed
    BY <1>0, <1>4, WatchCurrent
  <1> QED  BY <1>1, <1>2, <1>3, <1>4 DEF Watch

LEMMA CountEnds ==
  ASSUME TypeOK, PlaceInv, NEW s \in StopKinds, NEW c \in Id, StopEnd(s, c)
  PROVE  /\ nsMutex = <<s, c>>
         /\ (\A n \in Visited(<<s, c>>) : clientsMap[n] = {}) <=> Empty
  <1>1. pc[<<s, c>>] = "count" /\ next[<<s, c>>] = None
    BY DEF StopEnd, InFrame
  <1>2. nsMutex = <<s, c>>
    BY <1>1, StopIsProc, CriticalPc DEF PlaceInv, MutexHolder
  <1>3. \A k \in Id : <<s, c>> # Server(k)
    BY ConstantsAssumption
  <1>4. held[<<s, c>>] = Current
    BY <1>1, <1>2, <1>3, StopIsProc, WalkEnds DEF PlaceInv
  <1> QED  BY <1>2, <1>4 DEF Visited, Empty

\* Who but StopWatching changes what is asked of a connection: nobody.
LEMMA StopRequests ==
  ASSUME TypeOK, LockInv, [Next]_vars, \A s \in StopKinds, c \in Id : ~StopEnd(s, c)
  PROVE  UNCHANGED stopRequested
  <1>1. ASSUME NEW k \in Id, Works(k) \/ Manages(k) PROVE UNCHANGED stopRequested
    BY <1>1 DEF Works, Bookkeeping, Manages, ExitCancelled, DrainBookmark, CleanupBegin,
                CleanupEnd, connectionVars
  <1>2. ASSUME NEW s \in StopKinds, NEW c \in Id, Stops(s, c) PROVE UNCHANGED stopRequested
    BY <1>2 DEF Stops, StopCalled, StopBegin, DeleteClient, connectionVars
  <1>3. CASE (\E p \in Procs : Descend(p)) \/ (\E k, n, c \in Id : Fails(k, n, c))
             \/ Watch \/ UNCHANGED <<Bookkeeping, procVars>>
    BY <1>3 DEF Descend, Fails, SendTimeout, SendClosed, Watch, WatchBegin, WatchFail,
                WatchSucceed, Bookkeeping, connectionVars
  <1> QED  BY <1>1, <1>2, <1>3, Steps

LEMMA NextStoppedEmpty ==
  TypeOK /\ LockInv /\ PlaceInv /\ StoppedEmpty /\ [Next]_vars => StoppedEmpty'
  <1>0. SUFFICES ASSUME TypeOK, LockInv, PlaceInv, StoppedEmpty, [Next]_vars,
                        currentNotifier' # None, stopRequested'[currentNotifier']
                 PROVE  Empty'
    BY DEF StoppedEmpty
  <1>p. currentNotifier \in 0 .. MaxWatches /\ stopRequested \in [Id -> BOOLEAN]
    BY <1>0, Groups DEF NsTypeOK, ConnectionTypeOK
  <1>1. CASE ~Watch
    <2>1. currentNotifier' = currentNotifier /\ currentNotifier \in Id
      BY <1>0, <1>1, <1>p, SameSteps, ConstantsAssumption DEF Same
    <2>2. ASSUME UNCHANGED stopRequested PROVE Empty'
      BY <1>0, <1>1, <2>1, <2>2, EmptySteps DEF StoppedEmpty
    <2>3. ASSUME NEW s \in StopKinds, NEW c \in Id, StopEnd(s, c) PROVE Empty'
      <3>1. stopRequested'[currentNotifier]
              => stopRequested[currentNotifier] \/ \A n \in Visited(<<s, c>>) : clientsMap[n] = {}
        BY <1>p, <2>1, <2>3 DEF StopEnd
      <3>2. Empty
        BY <1>0, <2>1, <2>3, <3>1, CountEnds DEF StoppedEmpty
      <3> QED  BY <1>0, <1>1, <3>2, EmptySteps
    <2> QED  BY <1>0, <2>2, <2>3, StopRequests
  <1>2. CASE WatchBegin \/ WatchFail
    <2>1. UNCHANGED <<currentNotifier, previousNotifier, clientsMap, stopRequested>>
      BY <1>2 DEF WatchBegin, WatchFail, notifierVars, connectionVars
    <2>2. Empty
      BY <1>0, <2>1 DEF StoppedEmpty
    <2> QED  BY <2>1, <2>2, CurrentStays DEF Empty
  <1>3. CASE WatchSucceed
    <2>1. /\ clientCount \in Id /\ currentNotifier < clientCount /\ currentNotifier' = clientCount
      BY <1>0, <1>3, WatchCurrent
    <2>2. stopRequested' = stopRequested
      BY <1>3 DEF WatchSucceed
    <2>3. ~stopRequested[clientCount]
      BY <1>0, <1>p, <2>1, ConstantsAssumption DEF PlaceInv, Started
    <2> QED  BY <1>0, <2>1, <2>2, <2>3
  <1> QED  BY <1>1, <1>2, <1>3 DEF Watch

LEMMA NextIdleInv ==
  TypeOK /\ LockInv /\ PlaceInv /\ IdleInv /\ [Next]_vars => IdleInv'
  <1>0. SUFFICES ASSUME TypeOK, LockInv, PlaceInv, IdleInv, [Next]_vars, crash = "no",
                        currentEventHandler' # None, Empty', \A c \in Id : channel'[c] # "closed"
                 PROVE  stopRequested'[currentEventHandler'] \/ Counting'
    BY CrashStays DEF IdleInv
  <1>p. /\ pc \in [Procs -> PCs] /\ stopRequested \in [Id -> BOOLEAN]
        /\ channel \in [Id -> {"none", "open", "closed"}]
        /\ currentNotifier \in 0 .. MaxWatches /\ \A s \in StopKinds : s # "server"
    BY <1>0, Groups, ConstantsAssumption
    DEF ProcTypeOK, ConnectionTypeOK, NsTypeOK, ClientTypeOK
  <1>1. CASE ~Watch /\ \A s \in StopKinds, c \in Id : ~DeleteClient(s, c)
    <2>1. Same
      BY <1>0, <1>1, SameSteps
    <2>2. currentEventHandler' = currentEventHandler /\ currentEventHandler \in Id
      BY <1>0, <1>p, <2>1, ConstantsAssumption DEF Same, PlaceInv, HandlerInv
    <2>3. Empty
      BY <1>0, <1>1, EmptySteps
    <2>4. \A c \in Id : channel[c] # "closed"
      BY <1>0, <1>1, ClientSteps DEF PlaceInv, Started
    <2>5. stopRequested[currentEventHandler] \/ Counting
      BY <1>0, <2>2, <2>3, <2>4 DEF IdleInv
    <2>6. CASE \E s \in StopKinds, c \in Id : StopEnd(s, c)
      <3>1. PICK s \in StopKinds, c \in Id : StopEnd(s, c)
        BY <2>6
      <3>2. \A n \in Visited(<<s, c>>) : clientsMap[n] = {}
        BY <1>0, <2>3, <3>1, CountEnds
      <3>3. stopRequested'[currentEventHandler]
        BY <2>2, <3>1, <3>2 DEF StopEnd
      <3> QED  BY <2>2, <3>3
    <2>7. CASE \A s \in StopKinds, c \in Id : ~StopEnd(s, c)
      <3>1. UNCHANGED stopRequested
        BY <1>0, <2>7, StopRequests
      <3>2. ASSUME NEW s \in StopKinds, NEW c \in Id, nsMutex = <<s, c>>, pc[<<s, c>>] = "count"
            PROVE  Counting'
        <4> DEFINE p == <<s, c>>
        <4>0. p \in Procs /\ p # Free /\ \A k \in Id : p # Server(k)
          BY <1>p, StopIsProc, ConstantsAssumption
        <4>1. SUFFICES nsMutex' = p /\ pc'[p] = "count"
          BY DEF Counting
        <4>2. ASSUME NEW k \in Id, Works(k) PROVE nsMutex' = p /\ pc'[p] = "count"
          BY <3>2, <4>0, <4>2 DEF Works, Others, Bookkeeping, nsVars
        <4>3. ASSUME NEW k \in Id, Manages(k) PROVE nsMutex' = p /\ pc'[p] = "count"
          <5>1. ~CleanupBegin(k) /\ ~CleanupEnd(k)
            <6>1. Critical(Server(k), pc[Server(k)]) => nsMutex = Server(k)
              BY <1>0, ServerIsProc DEF PlaceInv, MutexHolder
            <6>2. pc[Server(k)] # "cleanup"
              BY <3>2, <4>0, <6>1, CriticalPc
            <6> QED  BY <3>2, <4>0, <6>2 DEF CleanupBegin, CleanupEnd, InFrame
          <5>2. /\ UNCHANGED nsMutex
                /\ \E w : pc' = [pc EXCEPT ![Server(k)] = w]
            BY <4>3, <5>1 DEF Manages, ExitCancelled, DrainBookmark, Exit, nsVars
          <5> QED  BY <1>p, <3>2, <4>0, <5>2
        <4>4. ASSUME NEW r \in StopKinds, NEW d \in Id, Stops(r, d)
              PROVE  nsMutex' = p /\ pc'[p] = "count"
          <5>1. StopCalled(r, d)
            BY <1>1, <2>7, <3>2, <4>0, <4>4 DEF Stops, StopBegin
          <5>2. UNCHANGED nsMutex /\ pc[<<r, d>>] = "none" /\ pc' = [pc EXCEPT ![<<r, d>>] = "called"]
            BY <5>1 DEF StopCalled, nsVars
          <5> QED  BY <1>p, <3>2, <4>0, <5>2
        <4>5. CASE (\E q \in Procs : Descend(q)) \/ (\E k, n, d \in Id : Fails(k, n, d))
                   \/ UNCHANGED <<Bookkeeping, procVars>>
          <5>1. UNCHANGED <<nsMutex, pc>>
            BY <4>5 DEF Descend, Fails, SendTimeout, SendClosed, Bookkeeping, procVars, nsVars
          <5> QED  BY <3>2, <5>1
        <4> QED  BY <1>0, <1>1, <4>2, <4>3, <4>4, <4>5, Steps
      <3> QED  BY <2>2, <2>5, <3>1, <3>2 DEF Counting
    <2> QED  BY <2>6, <2>7
  <1>2. ASSUME NEW s \in StopKinds, NEW c \in Id, DeleteClient(s, c)
        PROVE  Counting'
    <2>1. /\ UNCHANGED nsMutex /\ pc[<<s, c>>] = "delete"
          /\ pc' = [pc EXCEPT ![<<s, c>>] = "count"]
      BY <1>2 DEF DeleteClient, InFrame, Call, nsVars
    <2>2. nsMutex = <<s, c>>
      BY <1>0, <2>1, StopIsProc, CriticalPc DEF PlaceInv, MutexHolder
    <2>3. nsMutex' = <<s, c>> /\ pc'[<<s, c>>] = "count"
      BY <1>p, <2>1, <2>2, StopIsProc
    <2> QED  BY <2>3 DEF Counting
  <1>3. CASE WatchBegin
    <2>1. /\ UNCHANGED <<currentNotifier, previousNotifier, clientsMap, channel>>
          /\ UNCHANGED <<currentEventHandler, stopRequested, pc>> /\ nsMutex = Free
      BY <1>3 DEF WatchBegin, notifierVars, clientVars, connectionVars, procVars
    <2>2. Empty
      BY <1>0, <2>1, CurrentStays DEF Empty
    <2>3. ~Counting
      BY <1>p, <2>1, ConstantsAssumption DEF Counting
    <2> QED  BY <1>0, <2>1, <2>2, <2>3 DEF IdleInv
  <1>4. CASE WatchFail
    BY <1>0, <1>4 DEF WatchFail
  <1>5. CASE WatchSucceed
    BY <1>0, <1>5, WatchCurrent
  <1> QED  BY <1>1, <1>2, <1>3, <1>4, <1>5 DEF Watch

-----------------------------------------------------------------------------
LEMMA InitPlaces == Init => PlaceInv /\ OwnerInv
  <1> SUFFICES ASSUME Init PROVE PlaceInv /\ OwnerInv
    OBVIOUS
  <1>1. LinkInv
    BY DEF Init, LinkInv, OneAbove
  <1>2. MutexHolder
    BY MutexNames DEF Init, MutexHolder, Critical
  <1>3. Started
    BY DEF Init, Started
  <1>4. HandlerInv
    BY DEF Init, HandlerInv
  <1>5. Walks
    BY MutexNames DEF Init, Walks
  <1>6. Owned /\ DoneEmpty /\ StoppedEmpty /\ IdleInv
    BY DEF Init, Owned, DoneEmpty, StoppedEmpty, IdleInv
  <1> QED  BY <1>1, <1>2, <1>3, <1>4, <1>5, <1>6 DEF PlaceInv, OwnerInv

LEMMA NextPlaces ==
  TypeOK /\ LockInv /\ PlaceInv /\ OwnerInv /\ [Next]_vars => PlaceInv' /\ OwnerInv'
  BY NextLinkInv, NextMutexHolder, NextStarted, NextHandlerInv, NextWalks, NextOwned,
     NextDoneEmpty, NextStoppedEmpty, NextIdleInv
  DEF PlaceInv, OwnerInv

LEMMA ServedEmpty ==
  ASSUME TypeOK
  PROVE  Served = {} <=> Empty
  BY DEF Served, Empty, Current

LEMMA OwnersServe ==
  ASSUME TypeOK, PlaceInv, OwnerInv
  PROVE  EveryOpenClientIsServed
  <1> SUFFICES ASSUME NEW c \in Id, channel[c] = "open", ~Stopping(c), crash = "no"
               PROVE  /\ Cardinality({n \in Chain(currentNotifier) : c \in clientsMap[n]}) = 1
                      /\ nsMutex # WatchCall /\ currentEventHandler # None =>
                           pc[Server(currentNotifier)] \notin {"none", "done"}
    BY DEF EveryOpenClientIsServed
  <1>1. PICK n \in Current : c \in clientsMap[n] /\ \A m \in Current : c \in clientsMap[m] => m = n
    BY DEF OwnerInv, Owned, OwnedIn
  <1>2. {m \in Chain(currentNotifier) : c \in clientsMap[m]} = {n}
    BY <1>1 DEF Current
  <1>3. Cardinality({m \in Chain(currentNotifier) : c \in clientsMap[m]}) = 1
    BY <1>2, FS_Singleton
  <1>4. ~Empty
    BY <1>1 DEF Empty
  <1>5. ASSUME nsMutex # WatchCall, currentEventHandler # None
        PROVE  pc[Server(currentNotifier)] \notin {"none", "done"}
    <2>1. currentNotifier # None /\ ~cancelled[currentNotifier]
          /\ pc[Server(currentNotifier)] # "none"
      BY <1>5 DEF PlaceInv, HandlerInv
    <2> QED  BY <1>4, <2>1 DEF OwnerInv, DoneEmpty
  <1> QED  BY <1>3, <1>5

\* As long as its channel is open and it does not ask to stop, a client has
\* exactly one notifier of the current chain that answers for it, and the
\* goroutine of that chain is alive (kubeWatchServiceShared.go:177-247,
\* 249-300, 340-379, 432-454): whatever Watch, StopWatching, bookmarks and
\* closed connections interleave, nobody is forgotten, and nobody is served by
\* two notifiers.
THEOREM NobodyIsForgotten == Spec => []EveryOpenClientIsServed
  <1>1. Init => LockInv
    BY InitLocks DEF LockInv
  <1>2. Init => Resolved  BY DEF Init, Resolved
  <1> QED
    BY <1>1, <1>2, InitTypeOK, NextTypeOK, NextResolved, NextLockInv, InitPlaces,
       NextPlaces, OwnersServe, PTL
    DEF Spec

LEMMA OwnersStop ==
  ASSUME TypeOK, PlaceInv, OwnerInv
  PROVE  StoppedWhenIdle
  <1> SUFFICES ASSUME currentEventHandler # None, crash = "no"
               PROVE  /\ stopRequested[currentEventHandler] => Served = {}
                      /\ /\ nsMutex = Free /\ Served = {} /\ \A c \in Id : channel[c] # "closed"
                         => stopRequested[currentEventHandler]
    BY DEF StoppedWhenIdle
  <1>1. currentEventHandler = currentNotifier
    BY DEF PlaceInv, HandlerInv
  <1>2. nsMutex = Free => ~Counting
    BY MutexNames, StopIsProc DEF Counting
  <1> QED  BY <1>1, <1>2, ServedEmpty DEF OwnerInv, StoppedEmpty, IdleInv

\* The shared connection is stopped when StopWatching took the last client of
\* the whole chain, and only then (kubeWatchServiceShared.go:105-130).
THEOREM StopsWithTheLastClient == Spec => []StoppedWhenIdle
  <1>1. Init => LockInv
    BY InitLocks DEF LockInv
  <1>2. Init => Resolved  BY DEF Init, Resolved
  <1> QED
    BY <1>1, <1>2, InitTypeOK, NextTypeOK, NextResolved, NextLockInv, InitPlaces,
       NextPlaces, OwnersStop, PTL
    DEF Spec

-----------------------------------------------------------------------------
(***************************************************************************)
(* Who has stopped is gone.  Before the first BOOKMARK nothing is cut off, *)
(* so that StopWatching visits every notifier, the client's own among      *)
(* them.                                                                   *)
(***************************************************************************)
InChain == \A c \in Id : channel[c] # "none" => c \in Current
Gone ==
  \A s \in StopKinds, c \in Id : pc[<<s, c>>] \in {"count", "returned"} => c \notin clientsMap[c]
GoneInv == NoBookmarkYet => InChain /\ Gone

LEMMA NextInChain ==
  ASSUME TypeOK, LockInv, PlaceInv, InChain, OrdinaryEvents, [Next]_vars
  PROVE  InChain'
  <1>p. /\ channel \in [Id -> {"none", "open", "closed"}] /\ Linked(previousNotifier)
        /\ currentNotifier \in 0 .. MaxWatches
    BY Groups, ChainLinked DEF ClientTypeOK, NsTypeOK
  <1>1. CASE ~Watch
    <2>1. UNCHANGED previousNotifier
      <3>1. ASSUME NEW k \in Id, DrainBookmark(k) PROVE FALSE
        BY <3>1 DEF DrainBookmark, InFrame, OrdinaryEvents, Ordinary
      <3>2. ASSUME NEW k \in Id, Works(k) \/ Manages(k) PROVE UNCHANGED previousNotifier
        BY <3>1, <3>2 DEF Works, Bookkeeping, Manages, ExitCancelled, CleanupBegin, CleanupEnd,
                          notifierVars
      <3>3. ASSUME NEW s \in StopKinds, NEW c \in Id, Stops(s, c) PROVE UNCHANGED previousNotifier
        BY <3>3 DEF Stops, StopCalled, StopBegin, DeleteClient, StopEnd, notifierVars
      <3>4. CASE (\E p \in Procs : Descend(p)) \/ (\E k, n, c \in Id : Fails(k, n, c))
                 \/ UNCHANGED <<Bookkeeping, procVars>>
        BY <3>4 DEF Descend, Fails, SendTimeout, SendClosed, Bookkeeping, notifierVars
      <3> QED  BY <1>1, <3>2, <3>3, <3>4, Steps
    <2>2. Current' = Current
      BY <1>1, <2>1, SameSteps, CurrentStays DEF Same
    <2>3. \A c \in Id : channel[c] = "none" <=> channel'[c] = "none"
      BY <1>1, ClientSteps DEF PlaceInv, Started
    <2> QED  BY <2>2, <2>3 DEF InChain
  <1>2. CASE WatchBegin \/ WatchFail
    <2>1. UNCHANGED <<currentNotifier, previousNotifier, channel>>
      BY <1>2 DEF WatchBegin, WatchFail, notifierVars, clientVars
    <2> QED  BY <2>1, CurrentStays DEF InChain
  <1>3. CASE WatchSucceed
    <2> DEFINE w == clientCount
    <2>1. w \in Id /\ currentNotifier < w /\ Current' = {w} \cup Current
      BY <1>3, WatchExtends
    <2>2. channel' = [channel EXCEPT ![w] = "open"]
      BY <1>3 DEF WatchSucceed
    <2>3. \A c \in Id \ {w} : channel'[c] = channel[c]
      BY <1>p, <2>2
    <2> QED  BY <2>1, <2>3 DEF InChain
  <1> QED  BY <1>1, <1>2, <1>3 DEF Watch

LEMMA NextGone ==
  ASSUME TypeOK, LockInv, PlaceInv, InChain, OwnClient, Gone, OrdinaryEvents, [Next]_vars
  PROVE  Gone'
  <1>p. /\ channel \in [Id -> {"none", "open", "closed"}] /\ clientsMap \in [Id -> SUBSET Id]
        /\ pc \in [Procs -> PCs] /\ currentNotifier \in 0 .. MaxWatches
        /\ \A s \in StopKinds : s # "server"
    BY Groups, ConstantsAssumption DEF ClientTypeOK, NotifierTypeOK, ProcTypeOK, NsTypeOK
  <1>1. ASSUME \A c \in Id : clientsMap'[c] \subseteq clientsMap[c],
               \A s \in StopKinds, c \in Id :
                 pc'[<<s, c>>] \in {"count", "returned"}
                   => pc[<<s, c>>] \in {"count", "returned"} \/ c \notin clientsMap'[c]
        PROVE  Gone'
    BY <1>1 DEF Gone
  <1>2. ASSUME NEW k \in Id, Works(k) \/ Manages(k) PROVE Gone'
    <2>1. ~DrainBookmark(k)
      BY DEF DrainBookmark, InFrame, OrdinaryEvents, Ordinary
    <2>2. \A c \in Id : clientsMap'[c] \subseteq clientsMap[c]
      BY <1>2, <2>1 DEF Works, Bookkeeping, Manages, ExitCancelled, CleanupBegin, CleanupEnd,
                        notifierVars
    <2>3. \A q \in Procs \ {Server(k)} : pc'[q] = pc[q]
      BY <1>2, <1>p DEF Works, Others, Manages, ExitCancelled, DrainBookmark, CleanupBegin,
                        CleanupEnd, Exit, Call
    <2>4. \A s \in StopKinds, c \in Id : pc'[<<s, c>>] = pc[<<s, c>>]
      BY <1>p, <2>3, StopIsProc
    <2> QED  BY <1>1, <2>2, <2>4
  <1>3. ASSUME NEW s \in StopKinds, NEW c \in Id, Stops(s, c) PROVE Gone'
    <2>1. \A q \in Procs \ {<<s, c>>} : pc'[q] = pc[q]
      BY <1>3, <1>p DEF Stops, StopCalled, StopBegin, DeleteClient, StopEnd, Call
    <2>2. \A d \in Id : clientsMap'[d] \subseteq clientsMap[d]
      BY <1>3 DEF Stops, StopCalled, StopBegin, DeleteClient, StopEnd, notifierVars
    <2>3. pc'[<<s, c>>] \in {"count", "returned"}
            => pc[<<s, c>>] \in {"count", "returned"} \/ c \notin clientsMap'[c]
      <3>1. CASE DeleteClient(s, c)
        <4>1. /\ pc[<<s, c>>] = "delete" /\ next[<<s, c>>] = None
              /\ clientsMap' = [n \in Id |-> IF n \in held[<<s, c>>] THEN clientsMap[n] \ {c}
                                             ELSE clientsMap[n]]
          BY <3>1 DEF DeleteClient, InFrame, Visited
        <4>2. nsMutex = <<s, c>>
          BY <4>1, StopIsProc, CriticalPc DEF PlaceInv, MutexHolder
        <4>3. held[<<s, c>>] = Current
          BY <1>p, <4>1, <4>2, StopIsProc, WalkEnds DEF PlaceInv
        <4>4. channel[c] # "none"
          BY <4>1 DEF PlaceInv, Started
        <4> QED  BY <4>1, <4>3, <4>4 DEF InChain
      <3>2. CASE StopCalled(s, c) \/ StopBegin(s, c)
        <4>1. \E w \in {"called", "delete"} : pc' = [pc EXCEPT ![<<s, c>>] = w]
          BY <3>2 DEF StopCalled, StopBegin, Call
        <4> QED  BY <1>p, <4>1, StopIsProc
      <3>3. CASE StopEnd(s, c)
        BY <3>3 DEF StopEnd, InFrame
      <3> QED  BY <1>3, <3>1, <3>2, <3>3 DEF Stops
    <2>4. ASSUME NEW r \in StopKinds, NEW d \in Id, <<r, d>> # <<s, c>>
          PROVE  pc'[<<r, d>>] = pc[<<r, d>>]
      BY <2>1, <2>4, StopIsProc
    <2> QED  BY <1>1, <2>2, <2>3, <2>4
  <1>4. CASE (\E p \in Procs : Descend(p)) \/ UNCHANGED <<Bookkeeping, procVars>>
             \/ WatchBegin \/ WatchFail
    <2>1. UNCHANGED <<pc, clientsMap>>
      BY <1>4 DEF Descend, Bookkeeping, procVars, WatchBegin, WatchFail, notifierVars
    <2> QED  BY <1>1, <2>1
  <1>5. ASSUME NEW k \in Id, NEW n \in Id, NEW c \in Id, Fails(k, n, c) PROVE Gone'
    <2>1. UNCHANGED pc /\ \A d \in Id : clientsMap'[d] \subseteq clientsMap[d]
      BY <1>p, <1>5, ZenonT(30) DEF Fails, SendTimeout, SendClosed, Without, notifierVars, procVars
    <2> QED  BY <1>1, <2>1
  <1>6. CASE WatchSucceed
    <2> DEFINE w == clientCount
    <2>1. w \in Id /\ currentNotifier < w
      BY <1>6, WatchCount DEF WatchSucceed
    <2>2. /\ clientsMap' = [clientsMap EXCEPT ![w] = {w}]
          /\ pc' = [pc EXCEPT ![Server(w)] = "select"]
      BY <1>6 DEF WatchSucceed
    <2>3. channel[w] = "none"
      BY <1>p, <2>1, ConstantsAssumption DEF PlaceInv, Started
    <2>4. \A s \in StopKinds, c \in Id : pc'[<<s, c>>] = pc[<<s, c>>]
      BY <1>p, <2>1, <2>2, StopIsProc
    <2>5. \A s \in StopKinds : pc[<<s, w>>] = "none"
      BY <2>1, <2>3 DEF PlaceInv, Started
    <2>6. \A c \in Id \ {w} : clientsMap'[c] = clientsMap[c]
      BY <1>p, <2>2
    <2> QED  BY <2>4, <2>5, <2>6 DEF Gone
  <1> QED  BY <1>2, <1>3, <1>4, <1>5, <1>6, Steps DEF Watch

LEMMA NextGoneInv ==
  TypeOK /\ LockInv /\ PlaceInv /\ ChannelInv /\ GoneInv /\ [Next]_vars => GoneInv'
  <1> SUFFICES ASSUME TypeOK, LockInv, PlaceInv, ChannelInv, GoneInv, [Next]_vars, NoBookmarkYet'
               PROVE  InChain' /\ Gone'
    BY DEF GoneInv
  <1>1. NoBookmarkYet
    BY BookmarksLeft DEF ChannelInv, NoBookmarkYet
  <1> QED  BY <1>1, NextInChain, NextGone DEF GoneInv, ChannelInv

LEMMA GoneGetNothing ==
  ASSUME TypeOK, ChannelInv, GoneInv, [Next]_vars
  PROVE  [\A c \in Id : HasStopped(c) /\ NoBookmarkYet => received'[c] = received[c]]_vars
  <1> SUFFICES ASSUME ~UNCHANGED vars, NEW c \in Id, HasStopped(c), NoBookmarkYet
               PROVE  received'[c] = received[c]
    OBVIOUS
  <1>1. c \notin clientsMap[c] /\ \A n \in Id : clientsMap[n] \subseteq {n}
    BY DEF GoneInv, Gone, HasStopped, ChannelInv, OwnClient
  <1>2. \A n \in Id : c \notin clientsMap[n]
    BY <1>1
  <1>3. received \in [Id -> Seq(Received)]
    BY Groups DEF ClientTypeOK
  <1>4. ASSUME NEW k \in Id, NEW n \in Id, NEW d \in Id, SendOk(k, n, d)
        PROVE  received'[c] = received[c]
    <2>1. d # c
      BY <1>2, <1>4 DEF SendOk, Visits
    <2>2. \/ received' = received
          \/ \E e : received' = [received EXCEPT ![d] = e]
      BY <1>4 DEF SendOk
    <2> QED  BY <1>3, <2>1, <2>2
  <1>5. CASE ~\E k, n, d \in Id : SendOk(k, n, d)
    <2>1. ASSUME NEW k \in Id, ServerStep(k) PROVE UNCHANGED received
      BY <2>1 DEF ServerStep, Descend, Receive, Counted, ExitCancelled, SeeClosed, SkipEvent,
                  ProcessEvent, SendDone, DrainBookmark, SendTimeout, SendClosed,
                  CleanupBegin, CleanupEnd, clientVars
    <2>2. ASSUME NEW s \in StopKinds, NEW d \in Id, StopCalled(s, d) \/ StopStep(s, d)
          PROVE  UNCHANGED received
      BY <2>2 DEF StopStep, StopCalled, Descend, StopBegin, DeleteClient, StopEnd, clientVars
    <2>3. CASE Cluster \/ Watch \/ \E k \in Id : Connection(k)
      BY <2>3 DEF Cluster, Create, Modify, Delete, Change, Connection, SendBookmark, Relist,
                  Resume, CloseConnection, Watch, WatchBegin, WatchFail, WatchSucceed, clientVars
    <2> QED  BY <1>5, <2>1, <2>2, <2>3 DEF Next, Sends
  <1> QED  BY <1>4, <1>5

\* Before the first BOOKMARK a client gets nothing any more once StopWatching
\* has returned to it: not from the goroutine of any notifier, superseded or
\* not (kubeWatchServiceShared.go:105-130, 432-444).
THEOREM StoppedMeansSilent == Spec => StoppedClientGetsNothing
  <1>1. Init => LockInv
    BY InitLocks DEF LockInv
  <1>2. Init => Resolved  BY DEF Init, Resolved
  <1>3. Init => GoneInv
    BY DEF Init, GoneInv, InChain, Gone
  <1> QED
    BY <1>1, <1>2, <1>3, InitTypeOK, NextTypeOK, NextResolved, NextLockInv, InitPlaces,
       NextPlaces, InitChannelInv, NextChannelInv, NextGoneInv, GoneGetNothing, PTL
    DEF Spec, StoppedClientGetsNothing
=============================================================================
