------------------------------- MODULE CrudOps -------------------------------
(***************************************************************************)
(* The operations on resources other than routes: GetWrapper, ListWrapper, *)
(* DeleteWrapper, CreateWrapper and UpdateOrCreateWrapper                  *)
(* (adapterForCrud.go), as config maps, services, secrets and certificates *)
(* use them, and the two ways to a service account token (secret.go),      *)
(* which are made of them: "token" for a server from 1.24 on, "account"    *)
(* for one before.                                                         *)
(*                                                                         *)
(* The objects of one kind in one namespace are numbered in the order of a *)
(* list.  The data of an object is the set of contributions to it: names   *)
(* of callers, and "token".                                                *)
(***************************************************************************)
EXTENDS Integers, FiniteSets

CONSTANTS
  Callers,      \* goroutines that call the library, one call at a time
  Names,
  Owned,        \* secrets that are annotated with the service account
  TokenSecret,  \* the one that the library creates
  Operations,   \* what is called
  Attempts,     \* how often a call looks for the token
  MaxCalls, MaxFaults, MaxTokens   \* bounds

ASSUME CrudOpsAssumption ==
  /\ Names \subseteq Nat \ {0} /\ IsFiniteSet(Names)
  /\ Owned \subseteq Names /\ TokenSecret \in Owned
  /\ Operations \subseteq {"get", "change", "put", "create", "delete", "list", "token",
                     "account"}
  /\ Attempts \in Nat \ {0}
  /\ MaxCalls \in Nat /\ MaxFaults \in Nat /\ MaxTokens \in Nat

MaxGoneAttempts == 3

VARIABLES
  store, clock,   \* the API server: objects, last version
  cached,         \* the cache, as its adapter keeps it
  call,           \* call[c]: what caller c is doing
  due,            \* history: contributions that nothing has replaced or deleted
  past,           \* history: stores since the oldest list under way began
  callsLeft, faultsLeft, tokensLeft

serverVars == <<store, clock, due>>
boundVars == <<callsLeft, faultsLeft, tokensLeft>>

Absent == [rv |-> 0, data |-> {}]

\* entity is what the call writes, or its answer; page is what it has listed up to
\* last, from the server's state snap; attempt counts its attempts.  History:
\* found, did it read an object, and deleted, was its object deleted meanwhile.
Idle == [op |-> "none", name |-> TokenSecret, pc |-> "idle", outcome |-> "none",
         entity |-> Absent, attempt |-> 0, last |-> 0, snap |-> <<>>, page |-> {},
         found |-> FALSE, deleted |-> FALSE]

Init ==
  /\ store = [n \in Names |-> Absent] /\ clock = 0
  /\ cached = [n \in Names |-> Absent]
  /\ call = [c \in Callers |-> Idle]
  /\ due = [n \in Names |-> {}] /\ past = {}
  /\ callsLeft = MaxCalls /\ faultsLeft = MaxFaults /\ tokensLeft = MaxTokens

At(c, pc) == call[c].pc = pc
Object(c) == store[call[c].name]
Goto(c, pc) == call' = [call EXCEPT ![c].pc = pc]
Finish(c, outcome, entity) ==
  call' = [call EXCEPT ![c].pc = "done", ![c].outcome = outcome, ![c].entity = entity,
                       ![c].snap = <<>>]
Fail(c) == Finish(c, "failed", Absent)
Put(n, object) == store' = [store EXCEPT ![n] = object] /\ clock' = clock + 1

LastAttempt(c, attempts) == call[c].attempt + 1 = attempts

(***************************************************************************)
(* Entities.  The version of an object goes into its entity and back; an   *)
(* entity that a caller has made itself has none.                          *)
(***************************************************************************)
\* Mutant: the version is lost on the way.
NoVersionMutant(object) == [object EXCEPT !.rv = 0]

Entity(object) == object

Made(data) == [rv |-> 0, data |-> data]
Changed(c, object) ==
  IF object = Absent THEN Made({c}) ELSE [Entity(object) EXCEPT !.data = @ \cup {c}]

(***************************************************************************)
(* A call begins and returns.  A change is a Get, and an UpdateOrCreate of *)
(* what it returned; a put is an UpdateOrCreate of a new entity.           *)
(***************************************************************************)
FirstStep(op) ==
  CASE op \in {"get", "change"} -> "read"
    [] op = "put" -> "lookup"
    [] op \in {"create", "delete"} -> op
    [] op \in {"list", "token"} -> "list"
    [] op = "account" -> "account"

Start(c, op, name) ==
  /\ At(c, "idle") /\ callsLeft > 0 /\ callsLeft' = callsLeft - 1
  /\ call' = [call EXCEPT ![c] = [Idle EXCEPT !.op = op, !.name = name, !.pc = FirstStep(op),
                !.entity = IF op \in {"put", "create"} THEN Made({c}) ELSE Absent]]
  /\ UNCHANGED <<serverVars, cached, faultsLeft, tokensLeft>>

Return(c) ==
  /\ At(c, "done") /\ call' = [call EXCEPT ![c] = Idle]
  /\ UNCHANGED <<serverVars, cached, boundVars>>

(***************************************************************************)
(* GetWrapper: the API server's answer, or the cache's when it fails.      *)
(***************************************************************************)
\* Mutant: the last attempt is as good as a token.
LastAttemptMutant(c, object) == "token" \in object.data \/ LastAttempt(c, Attempts)

HasToken(c, object) == "token" \in object.data

\* A secret that is gone is a nil pointer to the wait for its token.
Got(c, object) ==
  CASE call[c].op \in {"get", "account"} -> Finish(c, "ok", object)
    [] call[c].op = "change" ->
         call' = [call EXCEPT ![c].pc = "lookup", ![c].entity = Changed(c, object),
                              ![c].found = object # Absent]
    [] call[c].op = "token" ->
         IF object = Absent THEN Goto(c, "panic")
         ELSE IF HasToken(c, object) THEN Finish(c, "ok", object)
         ELSE IF LastAttempt(c, Attempts) THEN Fail(c)
         ELSE call' = [call EXCEPT ![c].pc = "read", ![c].attempt = @ + 1]

Read(c) ==
  /\ At(c, "read") /\ Got(c, Object(c))
  /\ UNCHANGED <<serverVars, cached, boundVars>>

CachedObject(c) == cached[call[c].name]

Fallback(c) ==
  /\ At(c, "fallback")
  /\ IF CachedObject(c) = Absent THEN Fail(c) ELSE Got(c, CachedObject(c))
  /\ UNCHANGED <<serverVars, cached, boundVars>>

\* Before 1.24 the service account names its secret, once the secret has a token;
\* an account that is not there is a nil pointer.
ReadAccount(c) ==
  /\ At(c, "account")
  /\ LET named == {n \in Owned : "token" \in store[n].data} IN
     \/ \E n \in named :
          call' = [call EXCEPT ![c].pc = "read", ![c].name = n, ![c].deleted = FALSE]
     \/ /\ named = {}
        /\ IF LastAttempt(c, Attempts) THEN Fail(c)
           ELSE call' = [call EXCEPT ![c].attempt = @ + 1]
     \/ Goto(c, "panic")
  /\ UNCHANGED <<serverVars, cached, boundVars>>

(***************************************************************************)
(* UpdateOrCreateWrapper, CreateWrapper, DeleteWrapper.  The server takes  *)
(* an update without a version, or with the version of the object, and a   *)
(* creation without a version.                                             *)
(***************************************************************************)
Written(c, object) ==
  /\ Put(call[c].name, object)
  /\ due' = [due EXCEPT ![call[c].name] =
       IF call[c].op = "change" /\ call[c].found THEN @ \cup {c} ELSE object.data]
  /\ IF call[c].op = "token" THEN Goto(c, "read") ELSE Finish(c, "ok", object)

Store(c, accepted) ==
  IF accepted THEN Written(c, [call[c].entity EXCEPT !.rv = clock + 1])
  ELSE Fail(c) /\ UNCHANGED serverVars

Lookup(c) ==
  /\ At(c, "lookup")
  /\ Goto(c, IF Object(c) = Absent THEN "create" ELSE "update")
  /\ UNCHANGED <<serverVars, cached, boundVars>>

Create(c) ==
  /\ At(c, "create")
  /\ Store(c, Object(c) = Absent /\ call[c].entity.rv = 0)
  /\ UNCHANGED <<cached, boundVars>>

Update(c) ==
  /\ At(c, "update")
  /\ Store(c, Object(c) # Absent /\ call[c].entity.rv \in {0, Object(c).rv})
  /\ UNCHANGED <<cached, boundVars>>

Delete(c) ==
  /\ At(c, "delete")
  /\ IF Object(c) = Absent THEN Fail(c) /\ UNCHANGED serverVars
     ELSE /\ Put(call[c].name, Absent)
          /\ due' = [due EXCEPT ![call[c].name] = {}]
          /\ call' = [d \in Callers |->
               IF d = c THEN [call[c] EXCEPT !.pc = "done", !.outcome = "ok"]
               ELSE [call[d] EXCEPT !.deleted = @ \/ call[d].name = call[c].name]]
  /\ UNCHANGED <<cached, boundVars>>

(***************************************************************************)
(* ListWrapper: pages of one state of the server, of a size that it        *)
(* chooses, until it has forgotten that state (410).  Annotations are      *)
(* compared page by page.                                                  *)
(***************************************************************************)
Filtered(c, names) == IF call[c].op = "token" THEN names \cap Owned ELSE names

\* GetOrCreateSecretWithServiceAccountToken takes the secret that there is, with a
\* token or without, and makes one if there is none.
Listed(c, items) ==
  IF call[c].op = "list"
  THEN call' = [call EXCEPT ![c].pc = "done", ![c].outcome = "ok", ![c].page = items,
                            ![c].snap = <<>>]
  ELSE IF Cardinality(items) > 1 THEN Fail(c)
  ELSE call' = [call EXCEPT
         ![c].pc = IF items = {} THEN "lookup" ELSE "done",
         ![c].outcome = IF items = {} THEN "none" ELSE "ok",
         ![c].entity = IF items = {} THEN Made({}) ELSE (CHOOSE i \in items : TRUE).object,
         ![c].found = items # {}, ![c].attempt = 0, ![c].last = 0, ![c].snap = <<>>,
         ![c].page = {}]

ListPage(c) ==
  /\ At(c, "list")
  /\ LET snap == IF call[c].last = 0 THEN store ELSE call[c].snap
         rest == {n \in Names : n > call[c].last /\ snap[n] # Absent}
     IN \E last \in IF rest = {} THEN {0} ELSE rest :
          LET names == Filtered(c, {n \in rest : n <= last})
              items == call[c].page \cup {[name |-> n, object |-> snap[n]] : n \in names}
          IN IF \A n \in rest : n <= last THEN Listed(c, items)
             ELSE call' = [call EXCEPT ![c].last = last, ![c].snap = snap, ![c].page = items]
  /\ UNCHANGED <<serverVars, cached, boundVars>>

\* Mutant: a list that begins again keeps the pages it has.
KeepsPagesMutant(c) == call[c].page

FirstPages(c) == {}

Gone(c) ==
  /\ At(c, "list") /\ call[c].last # 0
  /\ IF LastAttempt(c, MaxGoneAttempts) THEN Fail(c)
     ELSE call' = [call EXCEPT ![c].attempt = @ + 1, ![c].last = 0, ![c].snap = <<>>,
                               ![c].page = FirstPages(c)]
  /\ UNCHANGED <<serverVars, cached, boundVars>>

(***************************************************************************)
(* A request fails; the token controller fills an annotated secret; the    *)
(* cache follows the store.                                                *)
(***************************************************************************)
RequestFails(c) ==
  /\ call[c].pc \in {"read", "lookup", "create", "update", "delete", "list", "account"}
  /\ faultsLeft > 0 /\ faultsLeft' = faultsLeft - 1
  /\ IF At(c, "read") THEN Goto(c, "fallback") ELSE Fail(c)
  /\ UNCHANGED <<serverVars, cached, callsLeft, tokensLeft>>

TokenArrives(n) ==
  /\ n \in Owned /\ store[n] # Absent /\ "token" \notin store[n].data
  /\ tokensLeft > 0 /\ tokensLeft' = tokensLeft - 1
  /\ Put(n, [rv |-> clock + 1, data |-> store[n].data \cup {"token"}])
  /\ UNCHANGED <<due, cached, call, callsLeft, faultsLeft>>

CacheFollows(n) ==
  /\ cached[n] # store[n] /\ cached' = [cached EXCEPT ![n] = store[n]]
  /\ UNCHANGED <<serverVars, call, boundVars>>

FirstNames(op) == IF op \in {"list", "token", "account"} THEN {TokenSecret} ELSE Names

Step ==
  \/ \E c \in Callers :
       \/ \E op \in Operations : \E name \in FirstNames(op) :
            Start(c, op, name)
       \/ Return(c) \/ Read(c) \/ Fallback(c) \/ ReadAccount(c) \/ Lookup(c) \/ Create(c)
       \/ Update(c) \/ Delete(c) \/ ListPage(c) \/ Gone(c) \/ RequestFails(c)
  \/ \E n \in Names : TokenArrives(n) \/ CacheFollows(n)

Remember ==
  past' = IF \E c \in Callers : call'[c].op = "list" THEN past \cup {store, store'} ELSE {}

Next == Step /\ Remember

vars == <<serverVars, cached, call, past, boundVars>>

Spec == Init /\ [][Next]_vars
=============================================================================
