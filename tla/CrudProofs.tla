------------------------------ MODULE CrudProofs ------------------------------
(***************************************************************************)
(* Proofs about the operations of CrudOps.                                 *)
(***************************************************************************)
EXTENDS CrudProperties, FiniteSetTheorems, TLAPS

Objects == [rv : Nat, data : SUBSET (Callers \cup {"token"})]
Calls ==
  [op : Operations \cup {"none"}, name : Names,
   pc : {"idle", "read", "fallback", "lookup", "create", "update", "delete", "list", "account", "done",
        "panic"},
   outcome : {"none", "ok", "failed"}, entity : Objects, attempt : Nat, last : Nat,
   snap : {<<>>} \cup [Names -> Objects], page : SUBSET [name : Names, object : Objects],
   found : BOOLEAN, deleted : BOOLEAN]

Types ==
  /\ store \in [Names -> Objects] /\ clock \in Nat
  /\ cached \in [Names -> Objects]
  /\ call \in [Callers -> Calls]
  /\ due \in [Names -> SUBSET (Callers \cup {"token"})]

\* A version is of one state of an object, and none is newer than the clock.
Versions ==
  \A n \in Names :
    /\ store[n].rv <= clock /\ cached[n].rv <= clock
    /\ store[n].rv = 0 => store[n] = Absent
    /\ cached[n].rv = 0 => cached[n] = Absent
    /\ cached[n].rv = store[n].rv => cached[n] = store[n]

\* What a call is about to write: after a read it has the version of what it read,
\* and everything that this version contains; otherwise nothing but its own.
Pending(c) ==
  LET entity == call[c].entity
      object == store[call[c].name]
  IN call[c].pc \in {"lookup", "create", "update"} =>
       /\ call[c].op = "change" /\ call[c].found => entity.rv # 0 /\ c \in entity.data
       /\ entity.rv = 0 => entity.data \subseteq {c}
       /\ entity.rv <= clock
       /\ entity.rv # 0 /\ entity.rv = object.rv => object.data \subseteq entity.data

\* Which calls read an object, and what a list reads.
Reads(c) ==
  /\ call[c].pc \in {"read", "fallback"} => call[c].op \in {"get", "change", "token", "account"}
  /\ call[c].pc = "account" => call[c].op = "account"
  /\ call[c].pc = "list" /\ call[c].last # 0 => call[c].snap \in [Names -> Objects]

CrudInv ==
  /\ Types /\ Versions /\ NoUpdateLost
  /\ \A c \in Callers : Pending(c) /\ Reads(c)

LEMMA TokenSecretIsName == TokenSecret \in Names
BY CrudOpsAssumption

LEMMA AbsentIsObject == Absent \in Objects
BY DEF Absent, Objects

LEMMA IdleIsCall == Idle \in Calls
BY TokenSecretIsName, AbsentIsObject DEF Idle, Calls

LEMMA InitEstablishes == Init => CrudInv
<1> SUFFICES ASSUME Init PROVE CrudInv
  OBVIOUS
<1>1. Types  BY IdleIsCall, AbsentIsObject DEF Init, Types
<1>2. Versions  BY DEF Init, Versions, Absent
<1>3. \A c \in Callers : Pending(c) /\ Reads(c)  BY DEF Init, Pending, Reads, Idle
<1>4. NoUpdateLost  BY DEF Init, NoUpdateLost
<1> QED  BY <1>1, <1>2, <1>3, <1>4 DEF CrudInv

(***************************************************************************)
(* Steps that leave the server alone.                                      *)
(***************************************************************************)
CallMoves(c) ==
  /\ call' \in [Callers -> Calls]
  /\ \A d \in Callers \ {c} : call'[d] = call[d]

LEMMA QuietStep ==
  ASSUME CrudInv, NEW c \in Callers, CallMoves(c), Pending(c)', Reads(c)',
         UNCHANGED <<serverVars, cached>>
  PROVE  CrudInv'
<1>1. Types' /\ Versions' /\ NoUpdateLost'
  BY DEF CrudInv, Types, Versions, NoUpdateLost, CallMoves, serverVars
<1>2. \A d \in Callers \ {c} : Pending(d)' /\ Reads(d)'
  BY DEF CrudInv, Pending, Reads, CallMoves, serverVars
<1> QED  BY <1>1, <1>2 DEF CrudInv

LEMMA Moves ==
  ASSUME CrudInv, NEW c \in Callers, NEW new \in Calls, call' = [call EXCEPT ![c] = new]
  PROVE  CallMoves(c) /\ call'[c] = new
BY DEF CrudInv, Types, CallMoves

LEMMA GotoMoves ==
  ASSUME CrudInv, NEW c \in Callers,
         NEW pc \in {"read", "fallback", "lookup", "create", "update", "panic"}, Goto(c, pc)
  PROVE  /\ CallMoves(c) /\ call'[c].pc = pc
         /\ call'[c].name = call[c].name /\ call'[c].entity = call[c].entity
         /\ call'[c].op = call[c].op /\ call'[c].found = call[c].found
<1> DEFINE new == [call[c] EXCEPT !.pc = pc]
<1>1. call[c] \in Calls
  BY DEF CrudInv, Types
<1>2. /\ new \in Calls /\ new.pc = pc /\ new.name = call[c].name
      /\ new.entity = call[c].entity /\ new.op = call[c].op /\ new.found = call[c].found
  BY <1>1 DEF Calls
<1>3. call' = [call EXCEPT ![c] = new]
  BY DEF Goto
<1> HIDE DEF new
<1> QED  BY <1>2, <1>3, Moves

LEMMA FinishMoves ==
  ASSUME CrudInv, NEW c \in Callers, NEW outcome \in {"ok", "failed"}, NEW entity \in Objects,
         Finish(c, outcome, entity)
  PROVE  CallMoves(c) /\ call'[c].pc = "done"
<1> DEFINE new == [call[c] EXCEPT !.pc = "done", !.outcome = outcome, !.entity = entity, !.snap = <<>>]
<1>1. call[c] \in Calls
  BY DEF CrudInv, Types
<1>2. new \in Calls /\ new.pc = "done"
  BY <1>1 DEF Calls
<1>3. call' = [call EXCEPT ![c] = new]
  BY DEF Finish
<1> HIDE DEF new
<1> QED  BY <1>2, <1>3, Moves

LEMMA FailMoves ==
  ASSUME CrudInv, NEW c \in Callers, Fail(c)
  PROVE  CallMoves(c) /\ call'[c].pc = "done"
BY FinishMoves, AbsentIsObject DEF Fail

\* A call that is at neither is not touched by what they need.
LEMMA NothingPending ==
  ASSUME NEW c \in Callers, call'[c].pc \notin {"lookup", "create", "update"}
  PROVE  Pending(c)'
BY DEF Pending

LEMMA StartKeeps ==
  ASSUME CrudInv, NEW c \in Callers, NEW op \in Operations, NEW name \in Names,
         Start(c, op, name)
  PROVE  CrudInv'
<1> DEFINE new == [Idle EXCEPT !.op = op, !.name = name, !.pc = FirstStep(op),
                     !.entity = IF op \in {"put", "create"} THEN Made({c}) ELSE Absent]
<1>1. /\ FirstStep(op) \in {"read", "lookup", "create", "delete", "list", "account"}
      /\ FirstStep(op) = "account" => op = "account"
      /\ FirstStep(op) = "read" => op \in {"get", "change", "token", "account"}
  <2>1. op \in {"get", "change", "put", "create", "delete", "list", "token", "account"}
    BY CrudOpsAssumption, Zenon
  <2>2. /\ op \in {"get", "change"} => FirstStep(op) = "read"
        /\ op = "put" => FirstStep(op) = "lookup"
        /\ op \in {"create", "delete"} => FirstStep(op) = op
        /\ op \in {"list", "token"} => FirstStep(op) = "list"
        /\ op = "account" => FirstStep(op) = "account"
    BY DEF FirstStep
  <2> QED  BY ONLY <2>1, <2>2
<1>2. Made({c}) \in Objects /\ Absent \in Objects
  BY DEF Made, Absent, Objects
<1>3. new \in Calls
  BY <1>1, <1>2, IdleIsCall, ZenonT(30) DEF Calls
<1>4. /\ new.pc = FirstStep(op) /\ new.op = op /\ new.found = FALSE /\ new.last = 0
      /\ new.entity.rv = 0 /\ new.entity.data \subseteq {c}
  BY DEF Idle, Made, Absent
<1>5. call' = [call EXCEPT ![c] = new]
  BY DEF Start
<1> HIDE DEF new
<1>6. CallMoves(c) /\ call'[c] = new
  BY <1>3, <1>5, Moves
<1>7. clock \in Nat /\ clock' = clock
  BY DEF CrudInv, Types, Start, serverVars
<1>8. Pending(c)'
  BY <1>1, <1>4, <1>6, <1>7 DEF Pending
<1>9. Reads(c)'
  BY <1>1, <1>4, <1>6 DEF Reads
<1> QED  BY <1>6, <1>8, <1>9, QuietStep DEF Start

LEMMA ReturnKeeps ==
  ASSUME CrudInv, NEW c \in Callers, Return(c)  PROVE  CrudInv'
<1>1. CallMoves(c) /\ call'[c] = Idle
  BY IdleIsCall, Moves DEF Return
<1>2. Pending(c)' /\ Reads(c)'
  BY <1>1 DEF Pending, Reads, Idle
<1> QED  BY <1>1, <1>2, QuietStep DEF Return

(***************************************************************************)
(* What a call reads is an object of the server, or of the cache.          *)
(***************************************************************************)
LEMMA ChangeMoves ==
  ASSUME CrudInv, NEW c \in Callers, NEW object \in Objects,
         object \in {Object(c), CachedObject(c)},
         call' = [call EXCEPT ![c].pc = "lookup", ![c].entity = Changed(c, object),
                              ![c].found = object # Absent],
         UNCHANGED serverVars
  PROVE  CallMoves(c) /\ Pending(c)' /\ Reads(c)'
<1> DEFINE new == [call[c] EXCEPT !.pc = "lookup", !.entity = Changed(c, object),
                                  !.found = object # Absent]
<1>1. call[c] \in Calls /\ call[c].name \in Names
  BY DEF CrudInv, Types, Calls
<1>2. Changed(c, object) \in Objects
  BY DEF Changed, Made, Entity, Objects
<1>3. (object # Absent) \in BOOLEAN
  OBVIOUS
<1>4. /\ new \in Calls /\ new.pc = "lookup" /\ new.entity = Changed(c, object)
      /\ new.found = (object # Absent) /\ new.name = call[c].name
  BY <1>1, <1>2, <1>3 DEF Calls
<1>5. call' = [call EXCEPT ![c] = new]
  OBVIOUS
<1> HIDE DEF new
<1>6. CallMoves(c) /\ call'[c] = new
  BY <1>4, <1>5, Moves
<1>7. /\ store' = store /\ clock' = clock /\ clock \in Nat
  BY DEF CrudInv, Types, serverVars
<1>8. CASE object = Absent
  <2>1. new.entity.rv = 0 /\ new.entity.data = {c}
    BY <1>4, <1>8 DEF Changed, Made
  <2>2. ~new.found
    BY <1>4, <1>8
  <2>3. Reads(c)'
    BY <1>4, <1>6 DEF Reads
  <2>4. call'[c].entity.rv = 0 /\ call'[c].entity.data = {c} /\ ~call'[c].found
    BY <1>6, <2>1, <2>2, Zenon
  <2>5. call'[c].entity.rv <= clock'
    <3>1. 0 <= clock'
      BY <1>7
    <3> QED  BY <2>4, <3>1, Zenon
  <2>6. call'[c].entity.data \subseteq {c}
    BY <2>4, Zenon
  <2>7. Pending(c)'
    BY <2>4, <2>5, <2>6, Zenon DEF Pending
  <2> QED  BY <1>6, <2>3, <2>7
<1>9. CASE object # Absent
  <2>1. new.entity.rv = object.rv /\ new.entity.data = object.data \cup {c}
    BY <1>4, <1>9 DEF Changed, Entity, Objects
  <2>2. object.rv # 0 /\ object.rv <= clock
    BY <1>1, <1>9 DEF CrudInv, Versions, Object, CachedObject
  <2>3. object.rv = store[call[c].name].rv => object = store[call[c].name]
    BY <1>1 DEF CrudInv, Versions, Object, CachedObject
  <2> QED  BY <1>4, <1>6, <1>7, <2>1, <2>2, <2>3 DEF Pending, Reads
<1> QED  BY <1>6, <1>8, <1>9

LEMMA GotMoves ==
  ASSUME CrudInv, NEW c \in Callers, NEW object \in Objects,
         object \in {Object(c), CachedObject(c)},
         Got(c, object), call[c].op \in {"get", "change", "token", "account"}, UNCHANGED serverVars
  PROVE  CallMoves(c) /\ Pending(c)' /\ Reads(c)'
<1>1. CASE call[c].op \in {"get", "account"}
  <2>1. Finish(c, "ok", object)  BY <1>1 DEF Got
  <2> QED  BY <2>1, FinishMoves, NothingPending DEF Reads
<1>2. CASE call[c].op = "change"
  <2>1. call' = [call EXCEPT ![c].pc = "lookup", ![c].entity = Changed(c, object),
                             ![c].found = object # Absent]
    BY <1>2 DEF Got
  <2> QED  BY <2>1, ChangeMoves
<1>3. CASE call[c].op = "token"
  <2>1. \/ Goto(c, "panic") \/ Finish(c, "ok", object) \/ Fail(c)
        \/ call' = [call EXCEPT ![c].pc = "read", ![c].attempt = @ + 1]
    BY <1>3 DEF Got
  <2>2. CASE call' = [call EXCEPT ![c].pc = "read", ![c].attempt = @ + 1]
    <3> DEFINE new == [call[c] EXCEPT !.pc = "read", !.attempt = @ + 1]
    <3>1. call[c] \in Calls
      BY DEF CrudInv, Types
    <3>2. call[c].attempt + 1 \in Nat
      BY <3>1 DEF Calls
    <3>3. new \in Calls /\ new.pc = "read" /\ new.op = "token"
      BY <1>3, <3>1, <3>2 DEF Calls
    <3>4. call' = [call EXCEPT ![c] = new]
      BY <2>2
    <3> HIDE DEF new
    <3> QED  BY <3>3, <3>4, Moves, NothingPending DEF Reads
  <2>3. CASE Goto(c, "panic")
    BY <2>3, GotoMoves, NothingPending DEF Reads
  <2>4. CASE Finish(c, "ok", object) \/ Fail(c)
    BY <2>4, FinishMoves, FailMoves, NothingPending DEF Reads
  <2> QED  BY <2>1, <2>2, <2>3, <2>4
<1> QED  BY <1>1, <1>2, <1>3

LEMMA ObjectsAreObjects ==
  ASSUME CrudInv, NEW c \in Callers
  PROVE  /\ call[c] \in Calls /\ call[c].name \in Names /\ clock \in Nat
         /\ Object(c) \in Objects /\ CachedObject(c) \in Objects
BY DEF CrudInv, Types, Calls, Object, CachedObject

LEMMA ReadKeeps ==
  ASSUME CrudInv, NEW c \in Callers, Read(c) \/ Fallback(c)  PROVE  CrudInv'
<1>1. call[c].op \in {"get", "change", "token", "account"}
  BY DEF CrudInv, Reads, Read, Fallback, At
<1>2. CASE Read(c)
  BY <1>1, <1>2, ObjectsAreObjects, GotMoves, QuietStep DEF Read
<1>3. CASE Fallback(c)
  <2>1. CASE Fail(c)
    BY <1>3, <2>1, FailMoves, NothingPending, QuietStep DEF Fallback, Reads
  <2>2. CASE Got(c, CachedObject(c))
    BY <1>1, <1>3, <2>2, ObjectsAreObjects, GotMoves, QuietStep DEF Fallback
  <2> QED  BY <1>3, <2>1, <2>2 DEF Fallback
<1> QED  BY <1>2, <1>3

LEMMA ReadAccountKeeps ==
  ASSUME CrudInv, NEW c \in Callers, ReadAccount(c)  PROVE  CrudInv'
<1>1. call[c] \in Calls
  BY ObjectsAreObjects
<1>2. ASSUME NEW n \in Owned,
             call' = [call EXCEPT ![c].pc = "read", ![c].name = n, ![c].deleted = FALSE]
      PROVE  CallMoves(c) /\ Pending(c)' /\ Reads(c)'
  <2> DEFINE new == [call[c] EXCEPT !.pc = "read", !.name = n, !.deleted = FALSE]
  <2>1. call[c].op = "account" /\ n \in Names
    BY CrudOpsAssumption DEF CrudInv, Reads, ReadAccount, At
  <2>2. new \in Calls /\ new.pc = "read" /\ new.op = "account"
    BY <1>1, <2>1 DEF Calls
  <2>3. call' = [call EXCEPT ![c] = new]
    BY <1>2
  <2> HIDE DEF new
  <2> QED  BY <2>2, <2>3, Moves, NothingPending DEF Reads
<1>3. CASE call' = [call EXCEPT ![c].attempt = @ + 1]
  <2> DEFINE new == [call[c] EXCEPT !.attempt = @ + 1]
  <2>1. call[c].pc = "account" /\ call[c].op = "account"
    BY DEF CrudInv, Reads, ReadAccount, At
  <2>2. new \in Calls /\ new.pc = "account" /\ new.op = "account"
    BY <1>1, <2>1 DEF Calls
  <2>3. call' = [call EXCEPT ![c] = new]
    BY <1>3
  <2> HIDE DEF new
  <2>4. CallMoves(c) /\ Pending(c)' /\ Reads(c)'
    BY <2>2, <2>3, Moves, NothingPending DEF Reads
  <2> QED  BY <2>4, QuietStep DEF ReadAccount
<1>4. CASE Fail(c)
  BY <1>4, FailMoves, NothingPending, QuietStep DEF ReadAccount, Reads
<1>5. CASE Goto(c, "panic")
  BY <1>5, GotoMoves, NothingPending, QuietStep DEF ReadAccount, Reads
<1> QED  BY <1>2, <1>3, <1>4, <1>5, QuietStep DEF ReadAccount

LEMMA LookupKeeps ==
  ASSUME CrudInv, NEW c \in Callers, Lookup(c)  PROVE  CrudInv'
<1>1. PICK pc \in {"create", "update"} : Goto(c, pc)
  BY DEF Lookup
<1>2. /\ CallMoves(c) /\ call'[c].pc = pc
      /\ call'[c].name = call[c].name /\ call'[c].entity = call[c].entity
      /\ call'[c].op = call[c].op /\ call'[c].found = call[c].found
  BY <1>1, GotoMoves
<1>3. store' = store /\ clock' = clock /\ call[c].pc = "lookup"
  BY DEF Lookup, serverVars, At
<1>4. Pending(c)' /\ Reads(c)'
  BY <1>2, <1>3 DEF CrudInv, Pending, Reads
<1> QED  BY <1>2, <1>4, QuietStep DEF Lookup

LEMMA RequestFailsKeeps ==
  ASSUME CrudInv, NEW c \in Callers, RequestFails(c)  PROVE  CrudInv'
<1>1. CASE At(c, "read") /\ Goto(c, "fallback")
  <2>1. CallMoves(c) /\ call'[c].pc = "fallback" /\ call'[c].op = call[c].op
    BY <1>1, GotoMoves
  <2>2. Pending(c)' /\ Reads(c)'
    BY <1>1, <2>1, NothingPending DEF CrudInv, Reads, At
  <2> QED  BY <2>1, <2>2, QuietStep DEF RequestFails
<1>2. CASE Fail(c)
  BY <1>2, FailMoves, NothingPending, QuietStep DEF RequestFails, Reads
<1> QED  BY <1>1, <1>2 DEF RequestFails

(***************************************************************************)
(* Lists.                                                                  *)
(***************************************************************************)
Pages == SUBSET [name : Names, object : Objects]

LEMMA ListedMoves ==
  ASSUME CrudInv, NEW c \in Callers, NEW items \in Pages, Listed(c, items), At(c, "list"),
         UNCHANGED serverVars
  PROVE  CallMoves(c) /\ Pending(c)' /\ Reads(c)'
<1>1. call[c] \in Calls
  BY ObjectsAreObjects
<1>2. CASE call[c].op = "list"
  <2> DEFINE new == [call[c] EXCEPT !.pc = "done", !.outcome = "ok", !.page = items, !.snap = <<>>]
  <2>1. new \in Calls /\ new.pc = "done"
    BY <1>1 DEF Calls, Pages
  <2>2. call' = [call EXCEPT ![c] = new]
    BY <1>2 DEF Listed
  <2> HIDE DEF new
  <2> QED  BY <2>1, <2>2, Moves, NothingPending DEF Reads
<1>3. CASE Fail(c)
  BY <1>3, FailMoves, NothingPending DEF Reads
<1>4. CASE call' = [call EXCEPT
         ![c].pc = IF items = {} THEN "lookup" ELSE "done",
         ![c].outcome = IF items = {} THEN "none" ELSE "ok",
         ![c].entity = IF items = {} THEN Made({}) ELSE (CHOOSE i \in items : TRUE).object,
         ![c].found = items # {}, ![c].attempt = 0, ![c].last = 0, ![c].snap = <<>>,
         ![c].page = {}]
  <2> DEFINE entity == IF items = {} THEN Made({}) ELSE (CHOOSE i \in items : TRUE).object
             pc == IF items = {} THEN "lookup" ELSE "done"
             outcome == IF items = {} THEN "none" ELSE "ok"
             found == items # {}
             new == [call[c] EXCEPT !.pc = pc, !.outcome = outcome, !.entity = entity,
                       !.found = found, !.attempt = 0, !.last = 0, !.snap = <<>>, !.page = {}]
  <2>1. entity \in Objects
    <3>1. Made({}) \in Objects
      BY DEF Made, Objects
    <3>2. CASE items # {}
      <4>1. (CHOOSE i \in items : TRUE) \in items
        BY <3>2
      <4>2. (CHOOSE i \in items : TRUE) \in [name : Names, object : Objects]
        BY <4>1 DEF Pages
      <4> QED  BY <3>2, <4>2
    <3> QED  BY <3>1, <3>2
  <2>2. /\ pc \in {"lookup", "done"} /\ outcome \in {"none", "ok"} /\ found \in BOOLEAN
        /\ pc = "lookup" => ~found /\ entity = Made({})
    <3>1. CASE items = {}
      BY ONLY <3>1
    <3>2. CASE items # {}
      BY ONLY <3>2
    <3> QED  BY ONLY <3>1, <3>2
  <2>3. call' = [call EXCEPT ![c] = new]
    BY <1>4, ZenonT(30)
  <2> HIDE DEF entity, pc, outcome, found
  <2>4. new \in Calls /\ new.pc = pc /\ new.found = found /\ new.entity = entity
    BY <1>1, <2>1, <2>2 DEF Calls
  <2> HIDE DEF new
  <2>5. CallMoves(c) /\ call'[c] = new
    BY <2>3, <2>4, Moves
  <2>6. CASE pc = "done"
    BY <2>4, <2>5, <2>6, NothingPending DEF Reads
  <2>7. CASE pc = "lookup"
    <3>1. Reads(c)'
      BY <2>4, <2>5, <2>7 DEF Reads
    <3>2. /\ ~call'[c].found /\ call'[c].entity.rv = 0 /\ call'[c].entity.data = {}
      BY <2>2, <2>4, <2>5, <2>7 DEF Made
    <3>3. call'[c].entity.rv <= clock'
      <4>1. 0 <= clock'
        BY ObjectsAreObjects DEF serverVars
      <4> QED  BY <3>2, <4>1
    <3>4. Pending(c)'
      BY <3>2, <3>3, Zenon DEF Pending
    <3> QED  BY <2>5, <3>1, <3>4
  <2> QED  BY <2>2, <2>6, <2>7
<1> QED  BY <1>2, <1>3, <1>4 DEF Listed

LEMMA ListPageKeeps ==
  ASSUME CrudInv, NEW c \in Callers, ListPage(c)  PROVE  CrudInv'
<1> DEFINE snap == IF call[c].last = 0 THEN store ELSE call[c].snap
           rest == {n \in Names : n > call[c].last /\ snap[n] # Absent}
<1>1. call[c] \in Calls /\ call[c].page \in Pages
  BY ObjectsAreObjects DEF Calls, Pages
<1>2. PICK last \in IF rest = {} THEN {0} ELSE rest :
        LET names == Filtered(c, {n \in rest : n <= last})
            items == call[c].page \cup {[name |-> n, object |-> snap[n]] : n \in names}
        IN IF \A n \in rest : n <= last THEN Listed(c, items)
           ELSE call' = [call EXCEPT ![c].last = last, ![c].snap = snap, ![c].page = items]
  BY DEF ListPage
<1> DEFINE names == Filtered(c, {n \in rest : n <= last})
           items == call[c].page \cup {[name |-> n, object |-> snap[n]] : n \in names}
<1>3. snap \in [Names -> Objects]
  BY DEF CrudInv, Types, Reads, ListPage, At
<1>4. last \in Nat
  BY CrudOpsAssumption
<1>5. names \subseteq Names
  BY DEF Filtered
<1>6. items \in Pages
  <2> HIDE DEF snap, names
  <2>1. \A n \in names : [name |-> n, object |-> snap[n]] \in [name : Names, object : Objects]
    BY <1>3, <1>5
  <2> QED  BY <1>1, <2>1 DEF Pages
<1>7. CASE Listed(c, items)
  BY <1>6, <1>7, ListedMoves, QuietStep DEF ListPage
<1>8. CASE call' = [call EXCEPT ![c].last = last, ![c].snap = snap, ![c].page = items]
  <2> HIDE DEF snap, items
  <2> DEFINE new == [call[c] EXCEPT !.last = last, !.snap = snap, !.page = items]
  <2>1. /\ new \in Calls /\ new.pc = "list" /\ new.snap = snap
    BY <1>1, <1>3, <1>4, <1>6 DEF Calls, Pages, ListPage, At
  <2>2. call' = [call EXCEPT ![c] = new]
    BY <1>8
  <2> HIDE DEF new
  <2> QED  BY <1>3, <2>1, <2>2, Moves, NothingPending, QuietStep DEF ListPage, Reads
<1> QED  BY <1>2, <1>7, <1>8

LEMMA GoneKeeps ==
  ASSUME CrudInv, NEW c \in Callers, Gone(c)  PROVE  CrudInv'
<1>1. CASE Fail(c)
  BY <1>1, FailMoves, NothingPending, QuietStep DEF Gone, Reads
<1>2. CASE call' = [call EXCEPT ![c].attempt = @ + 1, ![c].last = 0, ![c].snap = <<>>,
                                ![c].page = FirstPages(c)]
  <2> DEFINE new == [call[c] EXCEPT !.attempt = @ + 1, !.last = 0, !.snap = <<>>, !.page = {}]
  <2>1. call[c] \in Calls
    BY ObjectsAreObjects
  <2>2. call[c].attempt + 1 \in Nat
    BY <2>1 DEF Calls
  <2>3. new \in Calls /\ new.pc = "list" /\ new.last = 0
    BY <2>1, <2>2 DEF Calls, Gone, At
  <2>4. call' = [call EXCEPT ![c] = new]
    BY <1>2 DEF FirstPages
  <2> HIDE DEF new
  <2> QED  BY <2>3, <2>4, Moves, NothingPending, QuietStep DEF Gone, Reads
<1> QED  BY <1>1, <1>2 DEF Gone

(***************************************************************************)
(* Steps that write an object.                                             *)
(***************************************************************************)
LEMMA PutStep ==
  ASSUME CrudInv, NEW n \in Names, NEW object \in Objects, Put(n, object),
         object = Absent \/ object.rv = clock + 1,
         UNCHANGED cached, call' \in [Callers -> Calls],
         \A d \in Callers :
           /\ Reads(d)'
           /\ call'[d].pc \in {"lookup", "create", "update"} =>
                /\ call[d].pc \in {"lookup", "create", "update"}
                /\ call'[d].op = call[d].op /\ call'[d].found = call[d].found
                /\ call'[d].entity = call[d].entity /\ call'[d].name = call[d].name,
         due' \in [Names -> SUBSET (Callers \cup {"token"})],
         due'[n] \subseteq object.data, \A m \in Names \ {n} : due'[m] = due[m]
  PROVE  CrudInv'
<1>1. /\ store \in [Names -> Objects] /\ cached \in [Names -> Objects] /\ clock \in Nat
      /\ store' = [store EXCEPT ![n] = object] /\ clock' = clock + 1
  BY DEF CrudInv, Types, Put
<1>2. /\ store'[n] = object /\ \A m \in Names \ {n} : store'[m] = store[m]
      /\ clock' \in Nat /\ clock < clock'
      /\ object.rv = 0 => object = Absent
      /\ object.rv \in Nat /\ object.rv <= clock'
  BY <1>1 DEF Objects, Absent
<1>3. Types'
  BY <1>1, <1>2 DEF CrudInv, Types
<1>4. \A m \in Names : cached[m].rv \in Nat /\ store[m].rv \in Nat
  BY <1>1 DEF Objects
<1>5. Versions'
  <2> SUFFICES ASSUME NEW m \in Names
               PROVE  /\ store'[m].rv <= clock' /\ cached[m].rv <= clock'
                      /\ store'[m].rv = 0 => store'[m] = Absent
                      /\ cached[m].rv = 0 => cached[m] = Absent
                      /\ cached[m].rv = store'[m].rv => cached[m] = store'[m]
    BY DEF Versions
  <2>1. /\ store[m].rv <= clock /\ cached[m].rv <= clock
        /\ store[m].rv = 0 => store[m] = Absent
        /\ cached[m].rv = 0 => cached[m] = Absent
        /\ cached[m].rv = store[m].rv => cached[m] = store[m]
    BY DEF CrudInv, Versions
  <2>2. CASE m = n
    <3>1. cached[m].rv <= clock' /\ cached[m].rv # clock + 1
      BY <1>1, <1>2, <1>4, <2>1
    <3>2. Absent.rv = 0
      BY DEF Absent
    <3> QED  BY <1>1, <1>2, <2>1, <2>2, <3>1, <3>2
  <2>3. CASE m # n
    BY <1>1, <1>2, <1>4, <2>1, <2>3
  <2> QED  BY <2>2, <2>3
<1>6. NoUpdateLost'
  BY <1>2 DEF CrudInv, NoUpdateLost
<1>7. ASSUME NEW d \in Callers, call'[d].pc \in {"lookup", "create", "update"}
      PROVE  Pending(d)'
  <2> DEFINE entity == call[d].entity  m == call[d].name
  <2>1. /\ call[d].op = "change" /\ call[d].found => entity.rv # 0 /\ d \in entity.data
        /\ entity.rv = 0 => entity.data \subseteq {d}
        /\ entity.rv <= clock
        /\ entity.rv # 0 /\ entity.rv = store[m].rv => store[m].data \subseteq entity.data
    BY <1>7 DEF CrudInv, Pending
  <2>2. m \in Names /\ entity.rv \in Nat
    BY ObjectsAreObjects DEF Calls, Objects
  <2>3. entity.rv <= clock'
    BY <1>1, <2>1, <2>2
  <2>4. entity.rv # 0 /\ entity.rv = store'[m].rv => store'[m].data \subseteq entity.data
    <3>1. CASE m = n
      <4>1. entity.rv # clock + 1
        BY <1>1, <2>1, <2>2
      <4>2. Absent.rv = 0
        BY DEF Absent
      <4> QED  BY <1>2, <3>1, <4>1, <4>2
    <3>2. CASE m # n
      BY <1>2, <2>1, <2>2, <3>2
    <3> QED  BY <3>1, <3>2
  <2>5. /\ call'[d].op = call[d].op /\ call'[d].found = call[d].found
        /\ call'[d].entity = entity /\ call'[d].name = m
    BY <1>7
  <2> QED  BY <2>1, <2>3, <2>4, <2>5, Zenon DEF Pending
<1>8. \A d \in Callers : Pending(d)'
  BY <1>7, NothingPending
<1> QED  BY <1>3, <1>5, <1>6, <1>8 DEF CrudInv

LEMMA WrittenKeeps ==
  ASSUME CrudInv, NEW c \in Callers, call[c].pc \in {"create", "update"},
         NEW object \in Objects, object.rv = clock + 1, object.data = call[c].entity.data,
         call[c].op = "change" /\ call[c].found
           => due[call[c].name] \subseteq object.data /\ c \in object.data,
         Written(c, object), UNCHANGED cached
  PROVE  CrudInv'
<1> DEFINE n == call[c].name
           gained == IF call[c].op = "change" /\ call[c].found THEN due[n] \cup {c} ELSE object.data
<1>1. n \in Names /\ Put(n, object) /\ due' = [due EXCEPT ![n] = gained]
  BY ObjectsAreObjects DEF Written
<1>2. due \in [Names -> SUBSET (Callers \cup {"token"})]
  BY DEF CrudInv, Types
<1>3. gained \subseteq object.data /\ object.data \subseteq Callers \cup {"token"}
  BY DEF Objects
<1>4. /\ due' \in [Names -> SUBSET (Callers \cup {"token"})]
      /\ due'[n] \subseteq object.data /\ \A m \in Names \ {n} : due'[m] = due[m]
  <2> HIDE DEF gained, n
  <2> QED  BY <1>1, <1>2, <1>3
<1>5. CallMoves(c) /\ call'[c].pc \in {"read", "done"} /\ Reads(c)'
  <2>1. CASE Goto(c, "read") /\ call[c].op = "token"
    BY <2>1, GotoMoves DEF Reads
  <2>2. CASE Finish(c, "ok", object)
    BY <2>2, FinishMoves DEF Reads
  <2> QED  BY <2>1, <2>2 DEF Written
<1>6. call' \in [Callers -> Calls]
  BY <1>5 DEF CallMoves
<1>7. ASSUME NEW d \in Callers
      PROVE  /\ Reads(d)'
             /\ call'[d].pc \in {"lookup", "create", "update"} =>
                  /\ call[d].pc \in {"lookup", "create", "update"}
                  /\ call'[d].op = call[d].op /\ call'[d].found = call[d].found
                  /\ call'[d].entity = call[d].entity /\ call'[d].name = call[d].name
  BY <1>5 DEF CallMoves, CrudInv, Reads
<1> HIDE DEF n, gained
<1> QED  BY <1>1, <1>4, <1>6, <1>7, PutStep

LEMMA StoreKeeps ==
  ASSUME CrudInv, NEW c \in Callers, Create(c) \/ Update(c)  PROVE  CrudInv'
<1> DEFINE entity == call[c].entity
           object == [entity EXCEPT !.rv = clock + 1]
<1>1. CASE Fail(c) /\ UNCHANGED serverVars
  BY <1>1, FailMoves, NothingPending, QuietStep DEF Create, Update, Reads
<1>2. CASE Written(c, object) /\ ((Create(c) /\ entity.rv = 0) \/ (Update(c) /\ entity.rv \in {0, Object(c).rv}))
  <2>1. entity \in Objects /\ clock \in Nat /\ call[c].name \in Names
    BY ObjectsAreObjects DEF Calls
  <2>2. object \in Objects /\ object.rv = clock + 1 /\ object.data = entity.data
    BY <2>1 DEF Objects
  <2>3. call[c].pc \in {"create", "update"}
    BY <1>2 DEF Create, Update, At
  <2>4. ASSUME call[c].op = "change" /\ call[c].found
        PROVE  due[call[c].name] \subseteq entity.data /\ c \in entity.data
    <3>1. /\ entity.rv # 0 /\ c \in entity.data
          /\ entity.rv = store[call[c].name].rv => store[call[c].name].data \subseteq entity.data
      BY <2>3, <2>4 DEF CrudInv, Pending
    <3>2. entity.rv = store[call[c].name].rv
      BY <1>2, <3>1 DEF Object
    <3>3. due[call[c].name] \subseteq store[call[c].name].data
      BY <2>1 DEF CrudInv, NoUpdateLost
    <3> QED  BY <3>1, <3>2, <3>3
  <2>5. UNCHANGED cached
    BY <1>2 DEF Create, Update
  <2> HIDE DEF object
  <2> QED  BY <1>2, <2>2, <2>3, <2>4, <2>5, WrittenKeeps
<1> QED  BY <1>1, <1>2 DEF Create, Update, Store

LEMMA DeleteKeeps ==
  ASSUME CrudInv, NEW c \in Callers, Delete(c)  PROVE  CrudInv'
<1>1. CASE Fail(c) /\ UNCHANGED serverVars
  BY <1>1, FailMoves, NothingPending, QuietStep DEF Delete, Reads
<1>2. CASE /\ Put(call[c].name, Absent)
           /\ due' = [due EXCEPT ![call[c].name] = {}]
           /\ call' = [d \in Callers |->
                IF d = c THEN [call[c] EXCEPT !.pc = "done", !.outcome = "ok"]
                ELSE [call[d] EXCEPT !.deleted = @ \/ call[d].name = call[c].name]]
  <2>1. ASSUME NEW d \in Callers
        PROVE  /\ call'[d] \in Calls /\ Reads(d)'
               /\ call'[d].pc \in {"lookup", "create", "update"} =>
                    /\ call[d].pc \in {"lookup", "create", "update"}
                    /\ call'[d].op = call[d].op /\ call'[d].found = call[d].found
                    /\ call'[d].entity = call[d].entity /\ call'[d].name = call[d].name
    <3>1. call[d] \in Calls /\ Reads(d)
      BY ObjectsAreObjects DEF CrudInv
    <3>2. CASE d = c
      <4>1. call'[d] = [call[c] EXCEPT !.pc = "done", !.outcome = "ok"]
        BY <1>2, <3>2
      <4>2. call'[d] \in Calls /\ call'[d].pc = "done"
        BY <3>1, <3>2, <4>1 DEF Calls
      <4> QED  BY <4>2 DEF Reads
    <3>3. CASE d # c
      <4> DEFINE deleted == call[d].deleted \/ call[d].name = call[c].name
      <4>1. call'[d] = [call[d] EXCEPT !.deleted = deleted] /\ deleted \in BOOLEAN
        BY <1>2, <3>3
      <4> HIDE DEF deleted
      <4>2. /\ call'[d] \in Calls /\ call'[d].pc = call[d].pc /\ call'[d].op = call[d].op
            /\ call'[d].found = call[d].found /\ call'[d].entity = call[d].entity
            /\ call'[d].name = call[d].name /\ call'[d].last = call[d].last
            /\ call'[d].snap = call[d].snap
        BY <3>1, <4>1 DEF Calls
      <4> QED  BY <3>1, <4>2 DEF Reads
    <3> QED  BY <3>2, <3>3
  <2>2. call' \in [Callers -> Calls]
    BY <1>2, <2>1
  <2>3. /\ call[c].name \in Names /\ Absent \in Objects /\ UNCHANGED cached
        /\ due \in [Names -> SUBSET (Callers \cup {"token"})]
    BY ObjectsAreObjects, AbsentIsObject DEF CrudInv, Types, Delete
  <2>4. /\ due' \in [Names -> SUBSET (Callers \cup {"token"})]
        /\ due'[call[c].name] \subseteq Absent.data
        /\ \A m \in Names \ {call[c].name} : due'[m] = due[m]
    BY <1>2, <2>3
  <2>5. \A d \in Callers :
          /\ Reads(d)'
          /\ call'[d].pc \in {"lookup", "create", "update"} =>
               /\ call[d].pc \in {"lookup", "create", "update"}
               /\ call'[d].op = call[d].op /\ call'[d].found = call[d].found
               /\ call'[d].entity = call[d].entity /\ call'[d].name = call[d].name
    BY ONLY <2>1
  <2>6. Put(call[c].name, Absent)
    BY <1>2
  <2> QED  BY ONLY CrudInv, <2>2, <2>3, <2>4, <2>5, <2>6, PutStep
<1> QED  BY <1>1, <1>2 DEF Delete

LEMMA TokenArrivesKeeps ==
  ASSUME CrudInv, NEW n \in Names, TokenArrives(n)  PROVE  CrudInv'
<1> DEFINE object == [rv |-> clock + 1, data |-> store[n].data \cup {"token"}]
<1>1. /\ object \in Objects /\ object.rv = clock + 1 /\ store[n].data \subseteq object.data
      /\ call \in [Callers -> Calls] /\ due \in [Names -> SUBSET (Callers \cup {"token"})]
  BY DEF CrudInv, Types, Objects
<1>2. Put(n, object) /\ UNCHANGED <<due, cached, call>>
  BY DEF TokenArrives
<1>3. due'[n] \subseteq object.data
  BY <1>1, <1>2 DEF CrudInv, NoUpdateLost
<1>4. \A d \in Callers : Reads(d)'
  BY <1>2 DEF CrudInv, Reads
<1> HIDE DEF object
<1> QED  BY <1>1, <1>2, <1>3, <1>4, PutStep

LEMMA CacheFollowsKeeps ==
  ASSUME CrudInv, NEW n \in Names, CacheFollows(n)  PROVE  CrudInv'
<1>1. /\ UNCHANGED <<store, clock, due, call>> /\ cached' = [cached EXCEPT ![n] = store[n]]
  BY DEF CacheFollows, serverVars
<1>2. Types' /\ Versions'
  BY <1>1 DEF CrudInv, Types, Versions
<1> QED  BY <1>1, <1>2 DEF CrudInv, NoUpdateLost, Pending, Reads

(***************************************************************************)
(* The invariant, and what it shows.                                       *)
(***************************************************************************)
LEMMA StepKeeps == CrudInv /\ [Next]_vars => CrudInv'
<1> SUFFICES ASSUME CrudInv, [Next]_vars PROVE CrudInv'
  OBVIOUS
<1>1. ASSUME NEW c \in Callers, NEW op \in Operations,
             NEW name \in FirstNames(op),
             Start(c, op, name)
      PROVE  CrudInv'
  BY <1>1, TokenSecretIsName, StartKeeps DEF FirstNames
<1>2. ASSUME NEW c \in Callers,
             \/ Return(c) \/ Read(c) \/ Fallback(c) \/ ReadAccount(c) \/ Lookup(c)
             \/ Create(c) \/ Update(c)
             \/ Delete(c) \/ ListPage(c) \/ Gone(c) \/ RequestFails(c)
      PROVE  CrudInv'
  BY <1>2, ReturnKeeps, ReadKeeps, ReadAccountKeeps, LookupKeeps, StoreKeeps, DeleteKeeps, ListPageKeeps,
     GoneKeeps, RequestFailsKeeps
<1>3. ASSUME NEW n \in Names, TokenArrives(n) \/ CacheFollows(n)
      PROVE  CrudInv'
  BY <1>3, TokenArrivesKeeps, CacheFollowsKeeps
<1>4. CASE UNCHANGED vars
  BY <1>4 DEF vars, serverVars, CrudInv, Types, Versions, NoUpdateLost, Pending, Reads
<1> QED  BY <1>1, <1>2, <1>3, <1>4 DEF Next, Step

LEMMA AlwaysCrudInv == Spec => []CrudInv
<1>1. Init => CrudInv
  BY InitEstablishes
<1>2. CrudInv /\ [Next]_vars => CrudInv'
  BY StepKeeps
<1> QED  BY <1>1, <1>2, PTL DEF Spec

\* However many callers change an object at once, with the server or the cache to
\* read from, none loses what another has added (adapterForCrud.go 134-160).
THEOREM NothingIsLost == Spec => []NoUpdateLost
<1>1. CrudInv => NoUpdateLost
  BY DEF CrudInv
<1> QED  BY <1>1, AlwaysCrudInv, PTL

\* An object that is created holds nothing of an earlier one of its name: a change
\* of a deleted object fails (adapterForCrud.go 143-145).
THEOREM NothingComesBack == Spec => CreatedAfresh
<1> DEFINE Afresh == \A n \in Names : store[n] = Absent => Cardinality(store'[n].data) <= 1
<1>1. ASSUME CrudInv, [Next]_vars PROVE Afresh
  <2> SUFFICES ASSUME NEW n \in Names, store[n] = Absent
               PROVE  Cardinality(store'[n].data) <= 1
    OBVIOUS
  <2>1. Cardinality(Absent.data) <= 1
    BY FS_EmptySet DEF Absent
  <2>2. store \in [Names -> Objects]
    BY <1>1 DEF CrudInv, Types
  <2>3. ASSUME NEW m \in Names, NEW object, Put(m, object),
               m # n \/ Cardinality(object.data) <= 1
        PROVE  Cardinality(store'[n].data) <= 1
    BY <2>1, <2>2, <2>3 DEF Put
  <2>4. CASE store' = store
    BY <2>1, <2>4
  <2>5. ASSUME NEW c \in Callers, Create(c)
        PROVE  Cardinality(store'[n].data) <= 1
    <3>1. CASE UNCHANGED serverVars
      BY <2>4, <3>1 DEF serverVars
    <3>2. CASE call[c].entity.rv = 0 /\ Written(c, [call[c].entity EXCEPT !.rv = clock + 1])
      <4>1. call[c].entity.data \subseteq {c}
        BY <1>1, <2>5, <3>2 DEF CrudInv, Pending, Create, At
      <4>2. Cardinality(call[c].entity.data) <= 1
        <5>1. call[c].entity.data = {} \/ call[c].entity.data = {c}
          BY <4>1
        <5> QED  BY <5>1, FS_EmptySet, FS_Singleton
      <4>3. call[c].entity \in Objects /\ call[c].name \in Names
        BY <1>1, ObjectsAreObjects DEF Calls
      <4>4. [call[c].entity EXCEPT !.rv = clock + 1].data = call[c].entity.data
        BY <4>3 DEF Objects
      <4> QED  BY <2>3, <3>2, <4>2, <4>3, <4>4 DEF Written
    <3> QED  BY <2>5, <3>1, <3>2 DEF Create, Store
  <2>6. ASSUME NEW c \in Callers, Update(c)
        PROVE  Cardinality(store'[n].data) <= 1
    <3>1. CASE UNCHANGED serverVars
      BY <2>4, <3>1 DEF serverVars
    <3>2. CASE Object(c) # Absent /\ Written(c, [call[c].entity EXCEPT !.rv = clock + 1])
      <4>1. call[c].name \in Names /\ call[c].name # n
        BY <1>1, <3>2, ObjectsAreObjects DEF Object
      <4> QED  BY <2>3, <3>2, <4>1 DEF Written
    <3> QED  BY <2>6, <3>1, <3>2 DEF Update, Store
  <2>7. ASSUME NEW c \in Callers, Delete(c)
        PROVE  Cardinality(store'[n].data) <= 1
    <3>1. CASE UNCHANGED serverVars
      BY <2>4, <3>1 DEF serverVars
    <3>2. CASE Put(call[c].name, Absent)
      BY <1>1, <2>1, <2>3, <3>2, ObjectsAreObjects
    <3> QED  BY <2>7, <3>1, <3>2 DEF Delete
  <2>8. ASSUME NEW m \in Names, TokenArrives(m)
        PROVE  Cardinality(store'[n].data) <= 1
    <3>1. m # n /\ Put(m, [rv |-> clock + 1, data |-> store[m].data \cup {"token"}])
      BY <2>8 DEF TokenArrives
    <3> QED  BY <2>3, <3>1
  <2>9. ASSUME NEW c \in Callers, NEW op \in Operations,
               NEW name \in FirstNames(op),
               Start(c, op, name)
        PROVE  store' = store
    BY <2>9 DEF Start, serverVars
  <2>10. ASSUME NEW c \in Callers,
                \/ Return(c) \/ Read(c) \/ Fallback(c) \/ ReadAccount(c) \/ Lookup(c)
                \/ ListPage(c) \/ Gone(c) \/ RequestFails(c)
         PROVE  store' = store
    BY <2>10 DEF Return, Read, Fallback, ReadAccount, Lookup, ListPage, Gone, RequestFails, serverVars
  <2>11. ASSUME NEW m \in Names, CacheFollows(m)
         PROVE  store' = store
    BY <2>11 DEF CacheFollows, serverVars
  <2>12. CASE UNCHANGED vars
    BY <2>4, <2>12 DEF vars, serverVars
  <2> QED  BY <1>1, <2>4, <2>5, <2>6, <2>7, <2>8, <2>9, <2>10, <2>11, <2>12 DEF Next, Step
<1>2. CrudInv /\ [Next]_vars => [Afresh]_vars
  BY <1>1
<1>3. Spec => [][Afresh]_vars
  <2> HIDE DEF Afresh
  <2> QED  BY <1>2, AlwaysCrudInv, PTL DEF Spec
<1> QED  BY <1>3 DEF CreatedAfresh

(***************************************************************************)
(* What a step of one call does to the others, and to the objects.         *)
(***************************************************************************)
\* The steps of a call between its start and its return.
CallStep(c) ==
  \/ Read(c) \/ Fallback(c) \/ ReadAccount(c) \/ Lookup(c) \/ Create(c) \/ Update(c)
  \/ Delete(c) \/ ListPage(c) \/ Gone(c) \/ RequestFails(c)

LEMMA CallIsCall ==
  ASSUME CrudInv, NEW c \in Callers
  PROVE  call \in [Callers -> Calls] /\ call[c] \in Calls
BY DEF CrudInv, Types

LEMMA OthersStay ==
  ASSUME CrudInv, NEW c \in Callers, ~Delete(c),
         \/ CallStep(c) \/ Return(c)
         \/ \E op \in Operations : \E name \in FirstNames(op) : Start(c, op, name)
  PROVE  \A d \in Callers \ {c} : call'[d] = call[d]
<1>1. call \in [Callers -> Calls]
  BY CallIsCall
<1>2. ASSUME NEW object, Got(c, object), call[c].op \in {"get", "change", "token", "account"}
      PROVE  \A d \in Callers \ {c} : call'[d] = call[d]
  <2>1. CASE Finish(c, "ok", object)  BY <1>1, <2>1 DEF Finish
  <2>2. CASE Goto(c, "panic")  BY <1>1, <2>2 DEF Goto
  <2>3. CASE Fail(c)  BY <1>1, <2>3 DEF Fail, Finish
  <2> QED  BY <1>1, <1>2, <2>1, <2>2, <2>3 DEF Got
<1>3. CASE Read(c) \/ Fallback(c)
  BY <1>1, <1>2, <1>3 DEF Read, Fallback, Fail, Finish, CrudInv, Reads, At
<1>4. CASE ReadAccount(c) \/ Lookup(c) \/ RequestFails(c)
  BY <1>1, <1>4 DEF ReadAccount, Lookup, RequestFails, Goto, Fail, Finish
<1>5. CASE Create(c) \/ Update(c)
  BY <1>1, <1>5 DEF Create, Update, Store, Written, Goto, Fail, Finish
<1>6. CASE ListPage(c) \/ Gone(c)
  <2>1. ASSUME NEW items, Listed(c, items)
        PROVE  \A d \in Callers \ {c} : call'[d] = call[d]
    BY <1>1, <2>1 DEF Listed, Fail, Finish
  <2>2. ASSUME NEW last, NEW snap, NEW items,
               call' = [call EXCEPT ![c].last = last, ![c].snap = snap, ![c].page = items]
        PROVE  \A d \in Callers \ {c} : call'[d] = call[d]
    BY <1>1, <2>2
  <2>3. CASE ListPage(c)
    BY <2>1, <2>2, <2>3, Zenon DEF ListPage
  <2>4. CASE Gone(c)
    BY <1>1, <2>4 DEF Gone, Fail, Finish
  <2> QED  BY <1>6, <2>3, <2>4
<1>7. CASE Return(c) \/ \E op \in Operations : \E name \in FirstNames(op) : Start(c, op, name)
  BY <1>1, <1>7 DEF Return, Start
<1> QED  BY <1>3, <1>4, <1>5, <1>6, <1>7 DEF CallStep

LEMMA OpStays ==
  ASSUME CrudInv, NEW c \in Callers, CallStep(c)
  PROVE  call'[c].op = call[c].op
<1>1. call \in [Callers -> Calls] /\ call[c] \in Calls
  BY CallIsCall
<1>2. ASSUME NEW pc, Goto(c, pc)  PROVE  call'[c].op = call[c].op
  BY <1>1, <1>2 DEF Goto, Calls
<1>3. ASSUME NEW outcome, NEW entity, Finish(c, outcome, entity)  PROVE  call'[c].op = call[c].op
  BY <1>1, <1>3 DEF Finish, Calls
<1>4. ASSUME Fail(c)  PROVE  call'[c].op = call[c].op
  BY <1>3, <1>4, Zenon DEF Fail
<1>5. ASSUME NEW object, Got(c, object), call[c].op \in {"get", "change", "token", "account"}
      PROVE  call'[c].op = call[c].op
  <2>1. CASE call' = [call EXCEPT ![c].pc = "lookup", ![c].entity = Changed(c, object),
                              ![c].found = object # Absent]
    BY <1>1, <2>1 DEF Calls
  <2>2. CASE call' = [call EXCEPT ![c].pc = "read", ![c].attempt = @ + 1]
    BY <1>1, <2>2 DEF Calls
  <2> QED  BY <1>2, <1>3, <1>4, <1>5, <2>1, <2>2 DEF Got
<1>6. CASE Read(c) \/ Fallback(c)
  BY <1>4, <1>5, <1>6 DEF Read, Fallback, CrudInv, Reads, At
<1>7. CASE ReadAccount(c) \/ Lookup(c) \/ RequestFails(c)
  <2>1. ASSUME NEW n, call' = [call EXCEPT ![c].pc = "read", ![c].name = n, ![c].deleted = FALSE]
        PROVE  call'[c].op = call[c].op
    BY <1>1, <2>1 DEF Calls
  <2>2. CASE call' = [call EXCEPT ![c].attempt = @ + 1]
    BY <1>1, <2>2 DEF Calls
  <2> QED  BY <1>2, <1>4, <1>7, <2>1, <2>2 DEF ReadAccount, Lookup, RequestFails
<1>8. CASE Create(c) \/ Update(c)
  BY <1>2, <1>3, <1>4, <1>8 DEF Create, Update, Store, Written
<1>9. CASE Delete(c)
  <2>1. CASE call'[c] = [call[c] EXCEPT !.pc = "done", !.outcome = "ok"]
    BY ONLY <1>1, <2>1 DEF Calls
  <2>2. CASE Object(c) = Absent
    BY <1>4, <1>9, <2>2, Zenon DEF Delete
  <2>3. CASE Object(c) # Absent
    <3>1. call' = [d \in Callers |->
            IF d = c THEN [call[c] EXCEPT !.pc = "done", !.outcome = "ok"]
            ELSE [call[d] EXCEPT !.deleted = @ \/ call[d].name = call[c].name]]
      BY <1>9, <2>3, Zenon DEF Delete
    <3>2. call'[c] = [call[c] EXCEPT !.pc = "done", !.outcome = "ok"]
      BY ONLY <3>1, c \in Callers
    <3> QED  BY ONLY <2>1, <3>2
  <2> QED  BY <2>2, <2>3
<1>10. CASE ListPage(c) \/ Gone(c)
  <2>1. ASSUME NEW items, Listed(c, items)
        PROVE  call'[c].op = call[c].op
    <3>1. CASE call' = [call EXCEPT ![c].pc = "done", ![c].outcome = "ok", ![c].page = items,
                                    ![c].snap = <<>>]
      BY <1>1, <3>1 DEF Calls
    <3>2. CASE call' = [call EXCEPT
                 ![c].pc = IF items = {} THEN "lookup" ELSE "done",
                 ![c].outcome = IF items = {} THEN "none" ELSE "ok",
                 ![c].entity = IF items = {} THEN Made({}) ELSE (CHOOSE i \in items : TRUE).object,
                 ![c].found = items # {}, ![c].attempt = 0, ![c].last = 0, ![c].snap = <<>>,
                 ![c].page = {}]
      <4> DEFINE entity == IF items = {} THEN Made({}) ELSE (CHOOSE i \in items : TRUE).object
                 pc == IF items = {} THEN "lookup" ELSE "done"
                 outcome == IF items = {} THEN "none" ELSE "ok"
                 found == items # {}
      <4>1. call' = [call EXCEPT ![c].pc = pc, ![c].outcome = outcome, ![c].entity = entity,
                       ![c].found = found, ![c].attempt = 0, ![c].last = 0, ![c].snap = <<>>,
                       ![c].page = {}]
        BY ONLY <3>2
      <4> HIDE DEF entity, pc, outcome, found
      <4> QED  BY ONLY <1>1, <4>1, c \in Callers DEF Calls
    <3> QED  BY <1>4, <2>1, <3>1, <3>2, Zenon DEF Listed
  <2>2. ASSUME NEW last, NEW snap, NEW items,
               call' = [call EXCEPT ![c].last = last, ![c].snap = snap, ![c].page = items]
        PROVE  call'[c].op = call[c].op
    BY <1>1, <2>2 DEF Calls
  <2>3. CASE ListPage(c)
    <3>1. PICK last, snap, items :
            \/ Listed(c, items)
            \/ call' = [call EXCEPT ![c].last = last, ![c].snap = snap, ![c].page = items]
      BY ONLY <2>3, Zenon DEF ListPage
    <3> QED  BY ONLY <2>1, <2>2, <3>1, Zenon
  <2>4. CASE Gone(c)
    BY <1>1, <1>4, <2>4 DEF Gone, Calls
  <2> QED  BY <1>10, <2>3, <2>4
<1> QED  BY <1>6, <1>7, <1>8, <1>9, <1>10 DEF CallStep

(***************************************************************************)
(* Lists.                                                                  *)
(***************************************************************************)
UpTo(objects, last) ==
  {[name |-> n, object |-> objects[n]] : n \in {m \in Names : m <= last /\ objects[m] # Absent}}

\* A list has the first pages of one state of the server since it began.
ListOf(c) ==
  call[c].op = "list" =>
    /\ store \in past
    /\ call[c].pc \in {"list", "done"}
    /\ call[c].pc = "list" /\ call[c].last = 0 => call[c].page = {}
    /\ call[c].pc = "list" /\ call[c].last # 0
         => call[c].snap \in past /\ call[c].page = UpTo(call[c].snap, call[c].last)
    /\ call[c].pc = "done" /\ call[c].outcome = "ok"
         => \E objects \in past : call[c].page = Items(objects)

ListInv == \A c \in Callers : ListOf(c)

LEMMA OtherListsStay ==
  ASSUME CrudInv, ListInv, NEW d \in Callers, Remember,
         \/ call'[d] = call[d]
         \/ call'[d] = [call[d] EXCEPT !.deleted = call'[d].deleted]
  PROVE  ListOf(d)'
<1>1. /\ call'[d].op = call[d].op /\ call'[d].pc = call[d].pc
      /\ call'[d].last = call[d].last /\ call'[d].snap = call[d].snap
      /\ call'[d].page = call[d].page /\ call'[d].outcome = call[d].outcome
  BY CallIsCall DEF Calls
<1>2. ListOf(d)
  BY DEF ListInv
<1>3. call'[d].op = "list" => past' = past \cup {store, store'}
  BY Zenon DEF Remember
<1> QED  BY <1>1, <1>2, <1>3 DEF ListOf, UpTo, Items

LEMMA ListPageKeepsList ==
  ASSUME CrudInv, ListInv, NEW c \in Callers, ListPage(c), call[c].op = "list", Remember
  PROVE  ListOf(c)'
<1> DEFINE snap == IF call[c].last = 0 THEN store ELSE call[c].snap
           rest == {n \in Names : n > call[c].last /\ snap[n] # Absent}
<1>1. call \in [Callers -> Calls] /\ call[c] \in Calls /\ call[c].last \in Nat
  BY CallIsCall DEF Calls
<1>2. PICK last \in IF rest = {} THEN {0} ELSE rest :
        LET names == Filtered(c, {n \in rest : n <= last})
            items == call[c].page \cup {[name |-> n, object |-> snap[n]] : n \in names}
        IN IF \A n \in rest : n <= last THEN Listed(c, items)
           ELSE call' = [call EXCEPT ![c].last = last, ![c].snap = snap, ![c].page = items]
  BY DEF ListPage
<1> DEFINE names == {n \in rest : n <= last}
           items == call[c].page \cup {[name |-> n, object |-> snap[n]] : n \in names}
<1>3. IF \A n \in rest : n <= last THEN Listed(c, items)
      ELSE call' = [call EXCEPT ![c].last = last, ![c].snap = snap, ![c].page = items]
  BY <1>2 DEF Filtered
<1>4. ListOf(c) /\ call[c].pc = "list"
  BY DEF ListInv, ListPage, At
<1>5. snap \in past
  BY <1>4 DEF ListOf
<1>6. call[c].page = UpTo(snap, call[c].last)
  <2>1. CASE call[c].last = 0
    <3>1. {m \in Names : m <= 0 /\ snap[m] # Absent} = {}
      <4>1. \A m \in Names : ~(m <= 0)
        <5>1. Names \subseteq Nat \ {0}
          BY CrudOpsAssumption
        <5> QED  BY <5>1
      <4> HIDE DEF snap
      <4> QED  BY <4>1, Zenon
    <3> HIDE DEF snap
    <3>2. UpTo(snap, 0) = {}
      BY <3>1, Zenon DEF UpTo
    <3> QED  BY <1>4, <2>1, <3>2 DEF ListOf
  <2>2. CASE call[c].last # 0
    BY <1>4, <2>2 DEF ListOf
  <2> QED  BY <2>1, <2>2
<1>7. Names \subseteq Nat /\ last \in Nat
  <2>1. Names \subseteq Nat
    BY CrudOpsAssumption
  <2>2. last \in Nat
    <3>1. last \in {0} \cup Names
      BY <1>2, Zenon
    <3> QED  BY <2>1, <3>1
  <2> QED  BY <2>1, <2>2
<1>8. \A m \in Names : m <= call[c].last \/ m > call[c].last
  <2> DEFINE listed == call[c].last
  <2>1. listed \in Nat
    BY <1>1
  <2> HIDE DEF listed
  <2>2. \A m \in Names : m <= listed \/ m > listed
    BY <1>7, <2>1
  <2> QED  BY <2>2 DEF listed
<1>9. rest = {} \/ call[c].last <= last
  BY <1>1, <1>7
<1>10. store' = store
  BY DEF ListPage, serverVars
<1>11. CASE \A n \in rest : n <= last
  <2>1. items = Items(snap)
    <3>1. {m \in Names : m <= call[c].last /\ snap[m] # Absent} \cup names = {m \in Names : snap[m] # Absent}
      <4> HIDE DEF snap
      <4> QED  BY <1>11, <1>8
    <3> HIDE DEF snap, names
    <3> QED  BY <1>6, <3>1 DEF UpTo, Items
  <2>2. Listed(c, items)
    BY <1>3, <1>11
  <2> HIDE DEF items
  <2>3. /\ call'[c].op = "list" /\ call'[c].pc = "done" /\ call'[c].page = items
    BY <1>1, <2>2 DEF Listed, Calls
  <2>4. past' = past \cup {store, store'}
    BY <2>3, Zenon DEF Remember
  <2>5. \E objects \in past' : call'[c].page = Items(objects)
    BY <1>5, <2>1, <2>3, <2>4
  <2> HIDE DEF snap, rest
  <2> QED  BY <2>3, <2>4, <2>5 DEF ListOf, Items
<1>12. CASE ~ \A n \in rest : n <= last
  <2>1. items = UpTo(snap, last)
    <3>1. {m \in Names : m <= call[c].last /\ snap[m] # Absent} \cup names
            = {m \in Names : m <= last /\ snap[m] # Absent}
      <4>2. \A m \in Names : m <= call[c].last => m <= last
        BY <1>1, <1>7, <1>9, <1>12
      <4> HIDE DEF snap
      <4> QED  BY <1>8, <4>2
    <3> HIDE DEF snap, names
    <3> QED  BY <1>6, <3>1 DEF UpTo
  <2>2. call' = [call EXCEPT ![c].last = last, ![c].snap = snap, ![c].page = items]
    BY <1>3, <1>12
  <2>3. last # 0
    BY <1>1, <1>2, <1>7, <1>12
  <2> HIDE DEF items, snap, rest
  <2>4. /\ call'[c].op = "list" /\ call'[c].pc = "list" /\ call'[c].page = items
        /\ call'[c].last = last /\ call'[c].snap = snap
    BY <1>1, <1>4, <2>2 DEF Calls
  <2>5. past' = past \cup {store, store'}
    BY <2>4, Zenon DEF Remember
  <2> QED  BY <1>5, <2>1, <2>3, <2>4, <2>5 DEF ListOf, UpTo
<1> QED  BY <1>11, <1>12

LEMMA NewList ==
  ASSUME CrudInv, NEW c \in Callers, NEW op \in Operations, NEW name \in FirstNames(op),
         Start(c, op, name), Remember
  PROVE  ListOf(c)'
<1> DEFINE new == [Idle EXCEPT !.op = op, !.name = name, !.pc = FirstStep(op),
                     !.entity = IF op \in {"put", "create"} THEN Made({c}) ELSE Absent]
<1>1. call'[c] = new
  BY CallIsCall DEF Start
<1>2. new.op = op /\ new.pc = FirstStep(op) /\ new.last = 0 /\ new.page = {}
  BY DEF Idle
<1> HIDE DEF new
<1>3. call'[c].op = "list" => call'[c].pc = "list"
  BY <1>1, <1>2 DEF FirstStep
<1>4. call'[c].op = "list" => past' = past \cup {store, store'}
  BY Zenon DEF Remember
<1> QED  BY <1>1, <1>2, <1>3, <1>4 DEF ListOf

LEMMA FailedList ==
  ASSUME CrudInv, NEW c \in Callers, Fail(c), Remember
  PROVE  ListOf(c)'
<1>1. call'[c].pc = "done" /\ call'[c].outcome = "failed"
  BY CallIsCall DEF Fail, Finish, Calls
<1>2. call'[c].op = "list" => past' = past \cup {store, store'}
  BY Zenon DEF Remember
<1> QED  BY <1>1, <1>2 DEF ListOf

LEMMA OwnListGoesOn ==
  ASSUME CrudInv, ListInv, NEW c \in Callers, CallStep(c), Remember
  PROVE  ListOf(c)'
<1>1. CASE call[c].op # "list"
  BY <1>1, OpStays DEF ListOf
<1>2. CASE call[c].op = "list"
  <2>1. call[c].pc \in {"list", "done"}
    BY <1>2 DEF ListInv, ListOf
  <2>2. ListPage(c) \/ Gone(c) \/ RequestFails(c)
    BY <2>1 DEF CallStep, Read, Fallback, ReadAccount, Lookup, Create, Update, Delete, At
  <2>3. CASE ListPage(c)
    BY <1>2, <2>3, ListPageKeepsList
  <2>4. CASE Gone(c) /\ ~Fail(c)
    <3>1. call' = [call EXCEPT ![c].attempt = @ + 1, ![c].last = 0, ![c].snap = <<>>, ![c].page = {}]
      BY <2>4 DEF Gone, FirstPages
    <3>2. /\ call'[c].pc = call[c].pc /\ call'[c].op = "list"
          /\ call'[c].last = 0 /\ call'[c].page = {}
      BY <1>2, <3>1, CallIsCall DEF Calls
    <3>3. call'[c].pc = "list"
      BY <2>4, <3>2 DEF Gone, At
    <3>4. past' = past \cup {store, store'}
      BY <3>2, Zenon DEF Remember
    <3> QED  BY <3>2, <3>3, <3>4 DEF ListOf
  <2>5. CASE Fail(c)
    BY <2>5, FailedList
  <2>6. CASE RequestFails(c) /\ ~Fail(c)
    BY <2>1, <2>6 DEF RequestFails, At
  <2> QED  BY <2>2, <2>3, <2>4, <2>5, <2>6
<1> QED  BY <1>1, <1>2

LEMMA ListsStay ==
  ASSUME CrudInv, ListInv, NEW c \in Callers, Remember,
         \/ CallStep(c) \/ Return(c)
         \/ \E op \in Operations : \E name \in FirstNames(op) : Start(c, op, name)
  PROVE  ListInv'
<1>1. ASSUME NEW d \in Callers \ {c}
      PROVE  ListOf(d)'
  <2>1. CASE Delete(c) /\ call' # [call EXCEPT ![c].pc = "done", ![c].outcome = "failed",
                                                ![c].entity = Absent, ![c].snap = <<>>]
    <3>1. call'[d] = [call[d] EXCEPT !.deleted = @ \/ call[d].name = call[c].name]
      BY <2>1 DEF Delete, Fail, Finish
    <3>2. call'[d].deleted = (call[d].deleted \/ call[d].name = call[c].name)
      BY <3>1, CallIsCall DEF Calls
    <3>3. call'[d] = [call[d] EXCEPT !.deleted = call'[d].deleted]
      BY <3>1, <3>2, Zenon
    <3> QED  BY <3>3, OtherListsStay
  <2>2. CASE call' = [call EXCEPT ![c].pc = "done", ![c].outcome = "failed",
                                  ![c].entity = Absent, ![c].snap = <<>>]
    BY <2>2, CallIsCall, OtherListsStay
  <2>3. CASE ~Delete(c)
    BY <2>3, OthersStay, OtherListsStay
  <2> QED  BY <2>1, <2>2, <2>3
<1>2. CASE CallStep(c)
  BY <1>1, <1>2, OwnListGoesOn DEF ListInv
<1>3. CASE Return(c)
  <2>1. call'[c].op = "none"
    BY <1>3, CallIsCall DEF Return, Idle
  <2>2. ListOf(c)'
    BY <2>1 DEF ListOf
  <2> QED  BY <1>1, <2>2 DEF ListInv
<1>4. ASSUME NEW op \in Operations, NEW name \in FirstNames(op), Start(c, op, name)
      PROVE  ListInv'
  BY <1>1, <1>4, NewList DEF ListInv
<1> QED  BY <1>2, <1>3, <1>4

LEMMA StepKeepsLists == CrudInv /\ ListInv /\ [Next]_vars => ListInv'
<1> SUFFICES ASSUME CrudInv, ListInv, [Next]_vars PROVE ListInv'
  OBVIOUS
<1>1. ASSUME NEW c \in Callers, Remember,
             \/ CallStep(c) \/ Return(c)
             \/ \E op \in Operations : \E name \in FirstNames(op) : Start(c, op, name)
      PROVE  ListInv'
  BY <1>1, ListsStay
<1>2. ASSUME NEW n \in Names, Remember, TokenArrives(n) \/ CacheFollows(n)
      PROVE  ListInv'
  BY <1>2, OtherListsStay DEF TokenArrives, CacheFollows, ListInv
<1>3. CASE UNCHANGED vars
  BY <1>3 DEF vars, serverVars, ListInv, ListOf, UpTo, Items
<1> QED  BY <1>1, <1>2, <1>3 DEF Next, Step, CallStep

\* A list that succeeds is one state of the server between its call and its return,
\* on as many pages as the server likes, with as many writes in between, and also
\* when it began again because the server had forgotten its state
\* (adapterForCrud.go 54-104).
THEOREM ListIsOneState == Spec => []ListIsSnapshot
<1>1. Init => ListInv
  BY DEF Init, ListInv, ListOf, Idle
<1>2. CrudInv /\ ListInv /\ [Next]_vars => ListInv'
  BY StepKeepsLists
<1>3. ListInv => ListIsSnapshot
  BY DEF ListInv, ListOf, ListIsSnapshot, At
<1> QED  BY <1>1, <1>2, <1>3, AlwaysCrudInv, PTL DEF Spec

(***************************************************************************)
(* Tokens.                                                                 *)
(***************************************************************************)
\* What TokenIsThere says of a call that has its answer, and before: the secret that
\* a call reads is there as long as nobody has deleted it.
TokenOf(c) ==
  /\ call[c].op = "token" =>
       call[c].pc \in {"list", "lookup", "create", "update", "read", "fallback", "done", "panic"}
  /\ call[c].op = "account" => call[c].pc \in {"account", "read", "fallback", "done", "panic"}
  /\ call[c].pc = "delete" => call[c].op = "delete"
  /\ call[c].pc = "list" => call[c].op \in {"list", "token"}
  /\ call[c].pc # "done" => call[c].outcome = "none"
  /\ call[c].op \in {"token", "account"} /\ call[c].pc \in {"read", "fallback"} /\ ~call[c].deleted
       => Object(c) # Absent
  /\ call[c].op = "token" /\ call[c].pc = "panic" => call[c].deleted
  /\ call[c].op = "token" /\ call[c].outcome = "ok" /\ ~call[c].found
       => "token" \in call[c].entity.data
  /\ call[c].op = "account" /\ call[c].outcome = "ok" /\ ~call[c].deleted
       => call[c].entity # Absent

TokenInv == \A c \in Callers : TokenOf(c)

LEMMA OtherTokensStay ==
  ASSUME CrudInv, TokenInv, NEW d \in Callers, NEW deleted \in BOOLEAN,
         call[d].deleted => deleted,
         call'[d] = [call[d] EXCEPT !.deleted = deleted],
         Object(d) # Absent => store'[call[d].name] # Absent \/ deleted
  PROVE  TokenOf(d)'
<1>1. /\ call'[d].op = call[d].op /\ call'[d].pc = call[d].pc /\ call'[d].name = call[d].name
      /\ call'[d].found = call[d].found /\ call'[d].entity = call[d].entity
      /\ call'[d].outcome = call[d].outcome /\ call'[d].deleted = deleted
  BY CallIsCall DEF Calls
<1>2. TokenOf(d)
  BY DEF TokenInv
<1>3. Object(d)' = store'[call[d].name]
  BY <1>1 DEF Object
<1> QED  BY <1>1, <1>2, <1>3 DEF TokenOf

\* Only a delete takes an object away.
LEMMA ObjectsStay ==
  ASSUME CrudInv, NEW n \in Names, store[n] # Absent,
         \A c \in Callers : ~(Delete(c) /\ call[c].name = n),
         [Next]_vars
  PROVE  store'[n] # Absent
<1>1. store \in [Names -> Objects] /\ clock \in Nat
  BY DEF CrudInv, Types
<1>2. ASSUME NEW m \in Names, NEW object, object.rv = clock + 1, Put(m, object)
      PROVE  store'[n] # Absent
  <2>1. object # Absent
    BY <1>1, <1>2 DEF Absent
  <2> QED  BY <1>1, <1>2, <2>1 DEF Put
<1>3. CASE store' = store
  BY <1>3
<1>4. ASSUME NEW c \in Callers, Create(c) \/ Update(c)
      PROVE  store'[n] # Absent
  <2>1. CASE UNCHANGED serverVars
    BY <1>3, <2>1 DEF serverVars
  <2>2. CASE Put(call[c].name, [call[c].entity EXCEPT !.rv = clock + 1])
    <3>1. call[c].name \in Names /\ call[c].entity \in Objects
      BY CallIsCall DEF Calls
    <3>2. [call[c].entity EXCEPT !.rv = clock + 1].rv = clock + 1
      BY <3>1 DEF Objects
    <3> QED  BY <1>2, <2>2, <3>1, <3>2
  <2> QED  BY <1>4, <2>1, <2>2 DEF Create, Update, Store, Written
<1>5. ASSUME NEW c \in Callers, Delete(c)
      PROVE  store'[n] # Absent
  <2>1. call[c].name # n
    BY <1>5
  <2> QED  BY <1>1, <1>5, <2>1 DEF Delete, Put, serverVars
<1>6. ASSUME NEW m \in Names, TokenArrives(m)
      PROVE  store'[n] # Absent
  BY <1>2, <1>6 DEF TokenArrives
<1>7. ASSUME NEW c \in Callers, NEW op \in Operations, NEW name \in FirstNames(op), Start(c, op, name)
      PROVE  store' = store
  BY <1>7 DEF Start, serverVars
<1>8. ASSUME NEW c \in Callers,
             \/ Return(c) \/ Read(c) \/ Fallback(c) \/ ReadAccount(c) \/ Lookup(c)
             \/ ListPage(c) \/ Gone(c) \/ RequestFails(c)
      PROVE  store' = store
  BY <1>8 DEF Return, Read, Fallback, ReadAccount, Lookup, ListPage, Gone, RequestFails, serverVars
<1>9. ASSUME NEW m \in Names, CacheFollows(m)
      PROVE  store' = store
  BY <1>9 DEF CacheFollows, serverVars
<1>10. CASE UNCHANGED vars
  BY <1>3, <1>10 DEF vars, serverVars
<1> QED  BY <1>3, <1>4, <1>5, <1>6, <1>7, <1>8, <1>9, <1>10 DEF Next, Step

(***************************************************************************)
(* The own step of a call.                                                 *)
(***************************************************************************)
LEMMA TokenFinishes ==
  ASSUME CrudInv, TokenInv, NEW c \in Callers, NEW entity, Finish(c, "ok", entity),
         call[c].op = "token" => "token" \in entity.data,
         call[c].op = "account" => entity # Absent \/ call[c].deleted
  PROVE  TokenOf(c)'
<1>1. /\ call'[c].pc = "done" /\ call'[c].outcome = "ok" /\ call'[c].op = call[c].op
      /\ call'[c].entity = entity /\ call'[c].deleted = call[c].deleted
  BY CallIsCall DEF Finish, Calls
<1> QED  BY <1>1 DEF TokenOf

LEMMA TokenFails ==
  ASSUME CrudInv, TokenInv, NEW c \in Callers, Fail(c)
  PROVE  TokenOf(c)'
<1>1. /\ call'[c].pc = "done" /\ call'[c].outcome = "failed" /\ call'[c].op = call[c].op
  BY CallIsCall DEF Fail, Finish, Calls
<1> QED  BY <1>1 DEF TokenOf

\* A call of another operation goes to a place where those of a token may not be.
LEMMA OtherOperation ==
  ASSUME CrudInv, TokenInv, NEW c \in Callers, call'[c].op = call[c].op,
         call[c].op \notin {"token", "account"}, call'[c].pc \notin {"delete", "list"},
         call'[c].pc # "done" => call'[c].outcome = "none"
  PROVE  TokenOf(c)'
BY DEF TokenOf

LEMMA GotKeepsToken ==
  ASSUME CrudInv, TokenInv, NEW c \in Callers, NEW object, Got(c, object),
         call[c].pc \in {"read", "fallback"}, UNCHANGED serverVars,
         object = Absent => Object(c) = Absent /\ call[c].pc = "read"
  PROVE  TokenOf(c)'
<1>1. call[c].op \in {"get", "change", "token", "account"} /\ TokenOf(c)
  BY DEF CrudInv, Reads, TokenInv
<1>2. call[c].op \in {"token", "account"} => object # Absent \/ call[c].deleted
  BY <1>1 DEF TokenOf
<1>3. CASE call[c].op \in {"get", "account"}
  BY <1>2, <1>3, TokenFinishes DEF Got
<1>4. CASE call[c].op = "change"
  <2>1. call' = [call EXCEPT ![c].pc = "lookup", ![c].entity = Changed(c, object),
                              ![c].found = object # Absent]
    BY <1>4 DEF Got
  <2>2. call'[c].pc = "lookup" /\ call'[c].op = call[c].op /\ call'[c].outcome = call[c].outcome
    BY <2>1, CallIsCall DEF Calls
  <2> QED  BY <1>1, <1>4, <2>2, OtherOperation DEF TokenOf
<1>5. CASE call[c].op = "token"
  <2>1. CASE object = Absent /\ Goto(c, "panic")
    <3>1. /\ call'[c].pc = "panic" /\ call'[c].op = call[c].op /\ call'[c].outcome = call[c].outcome
          /\ call'[c].deleted = call[c].deleted
      BY <2>1, CallIsCall DEF Goto, Calls
    <3> QED  BY <1>1, <1>2, <1>5, <2>1, <3>1 DEF TokenOf
  <2>2. CASE HasToken(c, object) /\ Finish(c, "ok", object)
    BY <1>5, <2>2, TokenFinishes DEF HasToken
  <2>3. CASE Fail(c)
    BY <2>3, TokenFails
  <2>4. CASE object # Absent /\ call' = [call EXCEPT ![c].pc = "read", ![c].attempt = @ + 1]
    <3>1. /\ call'[c].pc = "read" /\ call'[c].op = call[c].op /\ call'[c].outcome = call[c].outcome
          /\ call'[c].deleted = call[c].deleted /\ call'[c].name = call[c].name
      BY <2>4, CallIsCall DEF Calls
    <3>2. Object(c)' = Object(c)
      BY <3>1 DEF Object, serverVars
    <3> QED  BY <1>1, <1>5, <3>1, <3>2 DEF TokenOf
  <2> QED  BY <1>5, <2>1, <2>2, <2>3, <2>4 DEF Got
<1> QED  BY <1>1, <1>3, <1>4, <1>5

LEMMA ReadKeepsToken ==
  ASSUME CrudInv, TokenInv, NEW c \in Callers, Read(c) \/ Fallback(c)
  PROVE  TokenOf(c)'
<1>1. CASE Read(c)
  BY <1>1, GotKeepsToken DEF Read, At
<1>2. CASE Fallback(c)
  BY <1>2, GotKeepsToken, TokenFails DEF Fallback, At
<1> QED  BY <1>1, <1>2

LEMMA ReadAccountKeepsToken ==
  ASSUME CrudInv, TokenInv, NEW c \in Callers, ReadAccount(c)
  PROVE  TokenOf(c)'
<1>1. call[c].pc = "account" /\ call[c].op = "account" /\ call[c].outcome = "none"
  BY DEF ReadAccount, At, CrudInv, Reads, TokenInv, TokenOf
<1>2. ASSUME NEW n \in Owned, "token" \in store[n].data,
             call' = [call EXCEPT ![c].pc = "read", ![c].name = n, ![c].deleted = FALSE]
      PROVE  TokenOf(c)'
  <2>1. /\ call'[c].pc = "read" /\ call'[c].op = "account" /\ call'[c].outcome = "none"
        /\ call'[c].name = n
    BY <1>1, <1>2, CallIsCall DEF Calls
  <2>2. store[n] # Absent
    BY <1>2 DEF Absent
  <2>3. Object(c)' # Absent
    BY <2>1, <2>2 DEF Object, ReadAccount, serverVars
  <2> QED  BY <2>1, <2>3 DEF TokenOf
<1>3. CASE call' = [call EXCEPT ![c].attempt = @ + 1]
  <2>1. /\ call'[c].pc = "account" /\ call'[c].op = "account" /\ call'[c].outcome = "none"
    BY <1>1, <1>3, CallIsCall DEF Calls
  <2> QED  BY <2>1 DEF TokenOf
<1>4. CASE Fail(c)
  BY <1>4, TokenFails
<1>5. CASE Goto(c, "panic")
  <2>1. /\ call'[c].pc = "panic" /\ call'[c].op = "account" /\ call'[c].outcome = "none"
    BY <1>1, <1>5, CallIsCall DEF Goto, Calls
  <2> QED  BY <2>1 DEF TokenOf
<1> QED  BY <1>2, <1>3, <1>4, <1>5 DEF ReadAccount

LEMMA StoreKeepsToken ==
  ASSUME CrudInv, TokenInv, NEW c \in Callers, Create(c) \/ Update(c)
  PROVE  TokenOf(c)'
<1>1. /\ TokenOf(c) /\ call[c].pc \in {"create", "update"} /\ call[c].outcome = "none"
      /\ call[c].op # "account"
  BY DEF Create, Update, At, TokenInv, TokenOf
<1>2. CASE Fail(c)
  BY <1>2, TokenFails
<1>3. CASE Written(c, [call[c].entity EXCEPT !.rv = clock + 1])
  <2> DEFINE object == [call[c].entity EXCEPT !.rv = clock + 1]
  <2>1. CASE call[c].op = "token"
    <3>1. Goto(c, "read") /\ Put(call[c].name, object)
      BY <1>3, <2>1 DEF Written
    <3>2. /\ call'[c].pc = "read" /\ call'[c].op = "token" /\ call'[c].outcome = "none"
          /\ call'[c].name = call[c].name
      BY <1>1, <2>1, <3>1, CallIsCall DEF Goto, Calls
    <3>3. call[c].entity \in Objects /\ call[c].name \in Names /\ clock \in Nat
      BY CallIsCall, ObjectsAreObjects DEF Calls
    <3>4. object.rv = clock + 1
      BY <3>3 DEF Objects
    <3> HIDE DEF object
    <3>5. object # Absent
      BY <3>3, <3>4 DEF Absent
    <3>6. Object(c)' = object
      BY <3>1, <3>2, <3>3 DEF Object, Put, CrudInv, Types
    <3> QED  BY <3>2, <3>5, <3>6 DEF TokenOf
  <2>2. CASE call[c].op # "token"
    BY <1>1, <1>3, <2>2, TokenFinishes DEF Written
  <2> QED  BY <2>1, <2>2
<1> QED  BY <1>2, <1>3 DEF Create, Update, Store

LEMMA LookupKeepsToken ==
  ASSUME CrudInv, TokenInv, NEW c \in Callers, Lookup(c)
  PROVE  TokenOf(c)'
<1>1. TokenOf(c) /\ call[c].pc = "lookup"
  BY DEF Lookup, At, TokenInv
<1>2. PICK pc \in {"create", "update"} : Goto(c, pc)
  BY DEF Lookup
<1>3. call'[c].pc = pc /\ call'[c].op = call[c].op /\ call'[c].outcome = call[c].outcome
  BY <1>2, CallIsCall DEF Goto, Calls
<1> QED  BY <1>1, <1>3 DEF TokenOf

LEMMA DeleteKeepsToken ==
  ASSUME CrudInv, TokenInv, NEW c \in Callers, Delete(c)
  PROVE  TokenOf(c)'
<1>1. call[c].op = "delete"
  BY DEF Delete, At, TokenInv, TokenOf
<1>2. CASE Fail(c)
  BY <1>2, TokenFails
<1>3. CASE ~Fail(c)
  <2>1. call'[c] = [call[c] EXCEPT !.pc = "done", !.outcome = "ok"]
    BY <1>3 DEF Delete
  <2>2. call'[c].pc = "done" /\ call'[c].op = "delete"
    BY <1>1, <2>1, CallIsCall DEF Calls
  <2> QED  BY <2>2 DEF TokenOf
<1> QED  BY <1>2, <1>3

LEMMA ListedKeepsToken ==
  ASSUME CrudInv, TokenInv, NEW c \in Callers, NEW items, Listed(c, items), At(c, "list")
  PROVE  TokenOf(c)'
<1>1. TokenOf(c) /\ call[c].op \in {"list", "token"}
  BY DEF At, TokenInv, TokenOf
<1>2. CASE call[c].op = "list"
  <2>1. call' = [call EXCEPT ![c].pc = "done", ![c].outcome = "ok", ![c].page = items,
                             ![c].snap = <<>>]
    BY <1>2 DEF Listed
  <2>2. call'[c].pc = "done" /\ call'[c].op = "list"
    BY <1>2, <2>1, CallIsCall DEF Calls
  <2> QED  BY <2>2 DEF TokenOf
<1>3. CASE call[c].op = "token" /\ ~Fail(c)
  <2> DEFINE entity == IF items = {} THEN Made({}) ELSE (CHOOSE i \in items : TRUE).object
             pc == IF items = {} THEN "lookup" ELSE "done"
             outcome == IF items = {} THEN "none" ELSE "ok"
             found == items # {}
  <2>1. call' = [call EXCEPT ![c].pc = pc, ![c].outcome = outcome, ![c].entity = entity,
                   ![c].found = found, ![c].attempt = 0, ![c].last = 0, ![c].snap = <<>>,
                   ![c].page = {}]
    BY <1>3 DEF Listed
  <2>2. (pc = "lookup" /\ outcome = "none") \/ (pc = "done" /\ found)
    OBVIOUS
  <2> HIDE DEF entity, pc, outcome, found
  <2>3. /\ call'[c].pc = pc /\ call'[c].outcome = outcome /\ call'[c].found = found
        /\ call'[c].op = "token"
    BY <1>3, <2>1, CallIsCall DEF Calls
  <2>4. CASE pc = "lookup" /\ outcome = "none"
    BY <2>3, <2>4 DEF TokenOf
  <2>5. CASE pc = "done" /\ found
    BY <2>3, <2>5 DEF TokenOf
  <2> QED  BY <2>2, <2>4, <2>5
<1>4. CASE Fail(c)
  BY <1>4, TokenFails
<1> QED  BY <1>1, <1>2, <1>3, <1>4

LEMMA ListKeepsToken ==
  ASSUME CrudInv, TokenInv, NEW c \in Callers, ListPage(c) \/ Gone(c)
  PROVE  TokenOf(c)'
<1>1. /\ TokenOf(c) /\ At(c, "list")
  BY DEF ListPage, Gone, TokenInv
<1>2. ASSUME call'[c].pc = call[c].pc, call'[c].op = call[c].op, call'[c].outcome = call[c].outcome
      PROVE  TokenOf(c)'
  BY <1>1, <1>2 DEF TokenOf, At
<1>3. ASSUME NEW last, NEW snap, NEW items,
             call' = [call EXCEPT ![c].last = last, ![c].snap = snap, ![c].page = items]
      PROVE  TokenOf(c)'
  BY <1>2, <1>3, CallIsCall DEF Calls
<1>4. CASE ListPage(c)
  <2>1. ASSUME NEW items, Listed(c, items)  PROVE TokenOf(c)'
    BY <1>1, <2>1, ListedKeepsToken
  <2> QED  BY <1>3, <1>4, <2>1, Zenon DEF ListPage
<1>5. CASE Fail(c)
  BY <1>5, TokenFails
<1>6. CASE Gone(c) /\ ~Fail(c)
  <2>1. call' = [call EXCEPT ![c].attempt = @ + 1, ![c].last = 0, ![c].snap = <<>>, ![c].page = {}]
    BY <1>6 DEF Gone, FirstPages
  <2> QED  BY <1>2, <2>1, CallIsCall DEF Calls
<1> QED  BY <1>4, <1>5, <1>6

LEMMA RequestFailsKeepsToken ==
  ASSUME CrudInv, TokenInv, NEW c \in Callers, RequestFails(c)
  PROVE  TokenOf(c)'
<1>1. CASE Fail(c)
  BY <1>1, TokenFails
<1>2. CASE At(c, "read") /\ Goto(c, "fallback")
  <2>1. /\ call'[c].pc = "fallback" /\ call'[c].op = call[c].op
        /\ call'[c].outcome = call[c].outcome /\ call'[c].deleted = call[c].deleted
        /\ call'[c].name = call[c].name
    BY <1>2, CallIsCall DEF Goto, Calls
  <2>2. Object(c)' = Object(c)
    BY <2>1 DEF Object, RequestFails, serverVars
  <2>3. TokenOf(c) /\ call[c].pc = "read"
    BY <1>2 DEF TokenInv, At
  <2> QED  BY <2>1, <2>2, <2>3 DEF TokenOf
<1> QED  BY <1>1, <1>2 DEF RequestFails

LEMMA StartKeepsToken ==
  ASSUME CrudInv, NEW c \in Callers, NEW op \in Operations, NEW name, Start(c, op, name)
  PROVE  TokenOf(c)'
<1> DEFINE new == [Idle EXCEPT !.op = op, !.name = name, !.pc = FirstStep(op),
                     !.entity = IF op \in {"put", "create"} THEN Made({c}) ELSE Absent]
<1>1. call'[c] = new
  BY CallIsCall DEF Start
<1>2. new.op = op /\ new.pc = FirstStep(op) /\ new.outcome = "none"
  BY DEF Idle
<1> HIDE DEF new
<1>3. call'[c].op = op /\ call'[c].pc = FirstStep(op) /\ call'[c].outcome = "none"
  BY <1>1, <1>2
<1>4. /\ op = "token" => FirstStep(op) = "list"
      /\ op = "account" => FirstStep(op) = "account"
      /\ FirstStep(op) \notin {"fallback", "panic", "done"}
      /\ FirstStep(op) = "delete" => op = "delete"
      /\ FirstStep(op) = "list" => op \in {"list", "token"}
  BY CrudOpsAssumption DEF FirstStep
<1> QED  BY <1>3, <1>4 DEF TokenOf

LEMMA StepKeepsTokens == CrudInv /\ TokenInv /\ [Next]_vars => TokenInv'
<1> SUFFICES ASSUME CrudInv, TokenInv, [Next]_vars PROVE TokenInv'
  OBVIOUS
<1>1. ASSUME NEW d \in Callers, call'[d] = call[d],
             \A c \in Callers : ~Delete(c)
      PROVE  TokenOf(d)'
  <2>1. call[d].deleted \in BOOLEAN /\ call[d].name \in Names
    BY CallIsCall DEF Calls
  <2>2. call'[d] = [call[d] EXCEPT !.deleted = call[d].deleted]
    BY <1>1, CallIsCall DEF Calls
  <2>3. Object(d) # Absent => store'[call[d].name] # Absent
    BY <1>1, <2>1, ObjectsStay DEF Object
  <2> QED  BY <2>1, <2>2, <2>3, OtherTokensStay
<1>2. ASSUME NEW c \in Callers, Delete(c)
      PROVE  TokenInv'
  <2>1. ASSUME NEW d \in Callers \ {c}
        PROVE  TokenOf(d)'
    <3>1. call[d].deleted \in BOOLEAN /\ call[d].name \in Names
      BY CallIsCall DEF Calls
    <3>2. CASE Fail(c) /\ UNCHANGED serverVars
      <4>1. call'[d] = call[d]
        BY <3>2, CallIsCall DEF Fail, Finish
      <4>2. call'[d] = [call[d] EXCEPT !.deleted = call[d].deleted]
        BY <4>1, CallIsCall DEF Calls
      <4> QED  BY <3>1, <3>2, <4>2, OtherTokensStay DEF serverVars, Object
    <3>3. CASE ~(Fail(c) /\ UNCHANGED serverVars)
      <4> DEFINE deleted == call[d].deleted \/ call[d].name = call[c].name
      <4>1. call'[d] = [call[d] EXCEPT !.deleted = deleted] /\ Put(call[c].name, Absent)
        BY <1>2, <3>3 DEF Delete
      <4>2. deleted \in BOOLEAN /\ (call[d].deleted => deleted)
        OBVIOUS
      <4>3. Object(d) # Absent => store'[call[d].name] # Absent \/ deleted
        BY <3>1, <4>1 DEF Put, Object, CrudInv, Types
      <4> HIDE DEF deleted
      <4> QED  BY <4>1, <4>2, <4>3, OtherTokensStay
    <3> QED  BY <3>2, <3>3
  <2> QED  BY <1>2, <2>1, DeleteKeepsToken DEF TokenInv
<1>3. ASSUME \A c \in Callers : ~Delete(c),
             NEW c \in Callers, CallStep(c)
      PROVE  TokenInv'
  <2>1. TokenOf(c)'
    BY <1>3, ReadKeepsToken, ReadAccountKeepsToken, LookupKeepsToken, StoreKeepsToken, ListKeepsToken,
       RequestFailsKeepsToken DEF CallStep
  <2>2. \A d \in Callers \ {c} : call'[d] = call[d]
    BY <1>3, OthersStay
  <2> QED  BY <1>1, <1>3, <2>1, <2>2 DEF TokenInv
<1>4. ASSUME \A c \in Callers : ~Delete(c),
             NEW c \in Callers, Return(c)
      PROVE  TokenInv'
  <2>1. call'[c] = Idle
    BY <1>4, CallIsCall DEF Return
  <2>2. TokenOf(c)'
    BY <2>1 DEF TokenOf, Idle
  <2>3. \A d \in Callers \ {c} : call'[d] = call[d]
    BY <1>4, OthersStay
  <2> QED  BY <1>1, <1>4, <2>2, <2>3 DEF TokenInv
<1>5. ASSUME \A c \in Callers : ~Delete(c),
             NEW c \in Callers, NEW op \in Operations, NEW name \in FirstNames(op), Start(c, op, name)
      PROVE  TokenInv'
  <2>1. TokenOf(c)'
    BY <1>5, StartKeepsToken
  <2>2. \A d \in Callers \ {c} : call'[d] = call[d]
    BY <1>5, OthersStay
  <2> QED  BY <1>1, <1>5, <2>1, <2>2 DEF TokenInv
<1>6. ASSUME \A c \in Callers : ~Delete(c),
             NEW n \in Names, TokenArrives(n) \/ CacheFollows(n)
      PROVE  TokenInv'
  BY <1>1, <1>6 DEF TokenArrives, CacheFollows, TokenInv
<1>7. CASE UNCHANGED vars
  BY <1>7 DEF vars, serverVars, TokenInv, TokenOf, Object
<1>8. CASE \E c \in Callers : Delete(c)
  BY <1>2, <1>8
<1>9. CASE \A c \in Callers : ~Delete(c)
  BY <1>3, <1>4, <1>5, <1>6, <1>7, <1>9 DEF Next, Step, CallStep
<1> QED  BY <1>8, <1>9

\* From 1.24 on the wait for a token returns a secret with a token, unless there was a
\* secret before, and it reads no nil pointer unless somebody deletes the secret
\* while it waits (secret.go 66-101).  Before, the secret that the account names is
\* returned, unless somebody deletes it in between (secret.go 106-131).
THEOREM WaitFindsToken == Spec => []TokenIsThere
<1>1. Init => TokenInv
  BY DEF Init, TokenInv, TokenOf, Idle
<1>2. CrudInv /\ TokenInv /\ [Next]_vars => TokenInv'
  BY StepKeepsTokens
<1>3. TokenInv => TokenIsThere
  BY DEF TokenInv, TokenOf, TokenIsThere, At
<1> QED  BY <1>1, <1>2, <1>3, AlwaysCrudInv, PTL DEF Spec
=============================================================================
